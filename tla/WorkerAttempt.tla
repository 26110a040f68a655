----------------------------- MODULE WorkerAttempt -----------------------------
(***************************************************************************)
(* One worker attempt of a live run (run.rs, execute_live_worker_attempt): *)
(* what its adapter's exit, its output and the worktree together come to,  *)
(* the report the attempt leaves, and the usage the adapter claims         *)
(* (hepa-adapters: pi.rs, usage.rs; hepa-core: cost_accounting.rs).        *)
(*                                                                         *)
(* Output is a sequence of lines [kind, text, usage].  A write that fails  *)
(* ends an attempt at any place with an error; LiveRun has that case.      *)
(***************************************************************************)
EXTENDS Adapters, Functions

CONSTANT U64    \* the number of values of a counter, 2^64

AttemptStatus == {"Completed", "Blocked", "Failed"}
-----------------------------------------------------------------------------
(* The local models that share one computer.                               *)

\* pi_model_is_local.  Not every provider of LocalProvider is asked for.
ModelIsLocal(model, base_url) ==
    \/ "loopback" \in base_url
    \/ model.rest # "" /\ model.first \in {"local", "ollama", "llama-cpp", "vllm", "mlx-community"}

\* pi_model_needs_no_think_suffix
NeedsNoThink(model, base_url) == model.reasons /\ ModelIsLocal(model, base_url)

\* pi_worker_model_needs_local_permit, pi_review_model_needs_no_think_suffix
NeedsPermit(adapter, role, pi) ==
    /\ adapter = "pi"
    /\ LET reviewer == IF pi.review_model = {} THEN {pi.model} ELSE pi.review_model
       IN  \/ role = "worker" /\ ModelIsLocal(pi.model, pi.base_url)
           \/ role = "reviewer" /\ \E model \in reviewer : NeedsNoThink(model, pi.base_url)

\* pi_local_worker_route_preflight_block_reason
PreflightBlocks(adapter, pi) ==
    NeedsPermit(adapter, "worker", pi) /\ PiRoute(pi) \in {"unsupported", "unverified"}

\* acquire_local_pi_generation_permit: the one permit of the process.  A lock
\* whose holder panicked is taken; one that stays held is waited for, tries
\* being made every PollMs until the wait has lasted WaitMs.
PollMs == 10

PermitTaken(lock, freedAfter, waitMs) ==
    \/ lock = "poisoned"
    \/ lock = "free"
    \/ lock = "held" /\ \E tries \in 0..((waitMs + PollMs - 1) \div PollMs) :
                            tries * PollMs >= freedAfter

\* clamp_live_budget_ms: {} for a variable that is unset or no number.
Clamp(asked, default, most) ==
    IF asked = {} THEN default
    ELSE LET ms == CHOOSE x \in asked : TRUE
         IN  IF ms < 1 THEN 1 ELSE IF ms > most THEN most ELSE ms

\* live_monitor_policy, live_local_generation_mutex_wait_ms and
\* live_validation_timeout_ms
MonitorBudget(timeout, stall) ==
    [timeout |-> {Clamp(timeout, 300000, 600000)}, stall |-> {Clamp(stall, 240000, 600000)}]
PermitWaitMs(asked)      == Clamp(asked, 60000, 600000)
ValidationWaitMs(asked)  == Clamp(asked, 300000, 900000)

\* live_worker_prompt_for_adapter and its counterpart for repairs: the rules
\* a prompt ends with.
PromptRules(adapter, pi, isRepair) ==
    (IF isRepair THEN <<"repair rules">> ELSE <<"worker rules">>) \o <<"privacy rules">>
    \o (IF adapter = "pi" THEN <<"path rules">> ELSE <<>>)
    \o (IF adapter = "pi" /\ ModelIsLocal(pi.model, pi.base_url)
        THEN <<"bounded task rules">> \o (IF isRepair THEN <<"do not validate">> ELSE <<>>)
        ELSE <<>>)
    \o (IF adapter = "pi" /\ NeedsNoThink(pi.model, pi.base_url) THEN <<"no think">> ELSE <<>>)
-----------------------------------------------------------------------------
(* What pi prints.                                                         *)

LineKind == {"blank", "truncated", "garbage", "untyped", "tool", "agent_end", "other"}

Blank(text) == text \in {"", " "}

\* parse_pi_json_events, one line.  Only behind an end of the agent is an
\* unfinished line the end of the stream.
ReadEvent(reader, line) ==
    IF reader.stopped \/ line.kind = "blank" THEN reader
    ELSE CASE line.kind = "truncated" ->
                  IF reader.ended THEN [reader EXCEPT !.stopped = TRUE]
                  ELSE [reader EXCEPT !.stopped = TRUE, !.error = "eof"]
           [] line.kind \in {"garbage", "untyped"} ->
                  [reader EXCEPT !.stopped = TRUE, !.error = "malformed"]
           [] line.kind = "tool" -> [reader EXCEPT !.tools = @ + 1]
           [] line.kind = "agent_end" -> [reader EXCEPT !.ended = TRUE, !.text = line.text]
           [] line.kind = "other" -> reader

\* Nothing, or a blank, in place of the final message is an error, too.
ParsePi(lines) ==
    LET start == [stopped |-> FALSE, ended |-> FALSE, error |-> "none", tools |-> 0, text |-> ""]
        read[i \in 0..Len(lines)] ==
            IF i = 0 THEN start ELSE ReadEvent(read[i - 1], lines[i])
        end == read[Len(lines)]
    IN  [ error |-> IF end.error = "none" /\ (~end.ended \/ Blank(end.text))
                    THEN "malformed" ELSE end.error,
          tools |-> end.tools ]

\* pi_local_provider_output_failure_reason
OutputFailure(facts) ==
    IF "context" \in facts THEN "local_provider_context_window_exceeded"
    ELSE IF "protocol" \in facts THEN "local_provider_tool_call_protocol_error"
    ELSE "local_provider_empty_or_malformed_response"
-----------------------------------------------------------------------------
(* What the adapter says it used.  A count is {} or {n}, of U64 values.    *)

Counted(count) == IF count = {} THEN 0 ELSE CHOOSE n \in count : TRUE

\* HepaAdapterUsageEntry::validate
EntryIsValid(entry) ==
    /\ ArePlain({entry.adapter, entry.invocation} \cup entry.currency)
    /\ \A total \in entry.total :
           LET parts == (Counted(entry.input) + Counted(entry.output)) % U64
           IN  parts > 0 => total >= parts
    /\ entry.cost # {} => entry.currency # {}

\* first_usage_payload: the first line that claims anything, and nothing of
\* what follows an unfinished one.
UsageClaim(lines) ==
    LET telling == {i \in DOMAIN lines : lines[i].kind \in {"truncated", "garbage"}
                                            \/ lines[i].usage # {}}
        first   == CHOOSE i \in telling : \A j \in telling : i <= j
    IN  IF telling = {} THEN [ok |-> TRUE, entries |-> {}]
        ELSE IF lines[first].kind = "garbage" THEN [ok |-> FALSE, entries |-> {}]
        ELSE IF lines[first].kind = "truncated" THEN [ok |-> TRUE, entries |-> {}]
        ELSE [ok |-> TRUE, entries |-> lines[first].usage]

\* extract_live_usage_entries and extract_adapter_usage
Usage(lines) ==
    LET claim == UsageClaim(lines)
    IN  [claim EXCEPT !.ok = @ /\ \A entry \in claim.entries : EntryIsValid(entry)]

\* HepaCostTotals::from_entries.  The sums of an unoptimised build panic when
\* they leave U64, those of an optimised one wrap.
Sum(f(_), entries) ==
    FoldFunction(LAMBDA entry, sum : (sum + f(entry)) % U64, 0, entries)

EntryTotal(entry) ==
    IF entry.total = {} THEN (Counted(entry.input) + Counted(entry.output)) % U64
    ELSE Counted(entry.total)

Totals(entries) ==
    LET input(e) == Counted(e.input)
        output(e) == Counted(e.output)
        cost(e) == Counted(e.cost)
        currencies == UNION {entries[i].currency : i \in {j \in DOMAIN entries : entries[j].cost # {}}}
        of(c) == LET in(e) == IF c \in e.currency THEN Counted(e.cost) ELSE 0 IN Sum(in, entries)
    IN  [ input |-> Sum(input, entries), output |-> Sum(output, entries),
          total |-> Sum(EntryTotal, entries), cost |-> Sum(cost, entries),
          perCurrency |-> [c \in currencies |-> of(c)],
          withoutCost |-> Cardinality({i \in DOMAIN entries : entries[i].cost = {}}) ]

\* HepaLaneCostReport::from_entries: a report without entries is not written.
CostReport(entries) ==
    IF entries # <<>> /\ \A i \in DOMAIN entries : EntryIsValid(entries[i])
    THEN {Totals(entries)} ELSE {}
-----------------------------------------------------------------------------
(* The attempt.                                                            *)

Report(status, reason) == {[status |-> status, reason |-> reason]}

Blocked(reason) == [result |-> "error", report |-> Report("Blocked", reason), usage |-> {}]
NoReport        == [result |-> "error", report |-> {}, usage |-> {}]
Done(status, reason, usage) ==
    [result |-> "ok", report |-> Report(status, reason), usage |-> usage]

\* pi_local_monitor_stop_with_changed_files_can_continue
StopMayBeIgnored(adapter, pi, world) ==
    /\ NeedsPermit(adapter, "worker", pi)
    /\ world.changed # {}
    /\ world.engine = "blocked" /\ world.stop \in {"timeout", "stall"}

\* The engine gave up: what was changed is kept only if a local model was
\* stopped for being slow.
AfterEngineError(adapter, pi, world) ==
    IF StopMayBeIgnored(adapter, pi, world) THEN Done("Completed", {}, {})
    ELSE [ result |-> "error",
           report |-> Report(IF world.engine = "blocked" THEN "Blocked" ELSE "Failed", {"engine"}),
           usage  |-> {} ]

\* Why what pi printed blocks the attempt; {} if it does not.
PiBlocks(world) ==
    LET parsed == ParsePi(world.stdout)
    IN  CASE parsed.error = "none" ->
               IF parsed.tools = 0 /\ world.changed = {}
               THEN {"local_provider_no_tool_activity_or_changes"} ELSE {}
          [] parsed.error = "eof" ->
               IF world.changed = {} THEN {OutputFailure(world.facts)} ELSE {}
          [] parsed.error = "malformed" -> {OutputFailure(world.facts)}

\* An adapter that exits with an error leaves a failed report, and a run that
\* goes on.
AfterExit(adapter, spec, world) ==
    LET raw   == IF spec.output_capture = "stdout" THEN world.stdout ELSE world.outputFile
        usage == Usage(raw)
    IN  IF ~world.listable THEN NoReport
        ELSE IF adapter = "pi" /\ PiBlocks(world) # {} THEN Blocked(PiBlocks(world))
        ELSE IF ~usage.ok THEN NoReport
        ELSE IF world.exit = 0 THEN Done("Completed", {}, usage.entries)
        ELSE Done("Failed", {"exit"}, usage.entries)

\* execute_live_worker_attempt
Attempt(adapter, spec, pi, world) ==
    CASE PreflightBlocks(adapter, pi) -> Blocked({"route"})
      [] ~PreflightBlocks(adapter, pi) ->
           IF NeedsPermit(adapter, "worker", pi)
                /\ ~PermitTaken(world.lock, world.freedAfter, world.waitMs)
           THEN Blocked({"local_provider_concurrency_wait_timeout"})
           ELSE IF world.engine = "ok" THEN AfterExit(adapter, spec, world)
           ELSE AfterEngineError(adapter, pi, world)
=============================================================================
