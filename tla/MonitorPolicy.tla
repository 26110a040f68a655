---------------------------- MODULE MonitorPolicy ----------------------------
(***************************************************************************)
(* What an adapter may not do (crates/hepa-core/src/monitor.rs) and what   *)
(* becomes of a lane whose adapter does it (hard_blockers.rs); and the     *)
(* poll of an external worker, which is held to the same policy            *)
(* (crates/hepa-adapters/src/external_worker.rs).                          *)
(*                                                                         *)
(* A command is [tokens, phrases, paths]: its words as a shell would tell  *)
(* them apart, the denied phrases and the suspicious paths in its text.    *)
(* An output is a set of assignments [key, separator, value] and of other  *)
(* texts.  A stop is {} or {kind}.                                         *)
(***************************************************************************)
EXTENDS AdapterDoctor

StopKind == {"command_policy", "secret_detected", "scope_violation",
             "suspicious_path", "timeout", "stall"}

GitAction == {"add", "branch", "checkout", "commit", "merge", "push", "rebase",
              "reset", "restore", "switch", "tag"}
PrAction  == {"close", "create", "edit", "merge"}

ValueOption == {"-c", "--git-dir", "--work-tree", "--namespace"}
OtherOption == {"-x", "--git-dir=x", "--work-tree=x", "--namespace=x"}

\* git_action_after: the first word behind git's own options, if it is the
\* name of a lifecycle action.
GitActionAfter(tokens, start) ==
    LET action[i \in 1..(Len(tokens) + 2)] ==
            IF i > Len(tokens) THEN {}
            ELSE IF tokens[i] \in ValueOption THEN action[i + 2]
            ELSE IF tokens[i] \in OtherOption THEN action[i + 1]
            ELSE IF tokens[i] = "worktree"
            THEN {w \in {"add", "remove"} : i < Len(tokens) /\ tokens[i + 1] = w}
            ELSE {tokens[i]} \cap GitAction
    IN  action[start]

\* detect_git_lifecycle_action
GitLifecycle(tokens) ==
    \E i \in DOMAIN tokens :
        \/ tokens[i] = "git" /\ GitActionAfter(tokens, i + 1) # {}
        \/ /\ tokens[i] = "gh" /\ i + 2 <= Len(tokens)
           /\ tokens[i + 1] = "pr" /\ tokens[i + 2] \in PrAction

\* check_command: the words first, then the text.
CheckCommand(policy, command) ==
    IF GitLifecycle(command.tokens) \/ command.phrases \cap policy.command_denylist # {}
    THEN {"command_policy"}
    ELSE IF command.paths \cap policy.suspicious_paths # {} THEN {"suspicious_path"} ELSE {}

CheckPath(policy, paths) ==
    IF paths \cap policy.suspicious_paths # {} THEN {"suspicious_path"} ELSE {}

\* output_contains_secret_marker: a marker with a separator needs a value that
\* is no placeholder, one without needs no value at all.
Betrays(marker, assignment) ==
    /\ assignment.key = marker.key
    /\ \/ marker.separator = ""
       \/ assignment.separator = marker.separator /\ assignment.value = "real"

\* check_output
CheckOutput(policy, output) ==
    IF \E marker \in policy.secret_markers, said \in output.assignments : Betrays(marker, said)
    THEN {"secret_detected"}
    ELSE IF output.refs \cap (policy.blocked_scope \ {""}) # {} THEN {"scope_violation"} ELSE {}

\* check_elapsed: at the limit is not over it, and the timeout goes first.
CheckElapsed(policy, elapsed) ==
    IF \E limit \in policy.timeout : elapsed > limit THEN {"timeout"}
    ELSE IF \E limit \in policy.stall : elapsed > limit THEN {"stall"} ELSE {}

\* block_from_monitor_stop
BlockedBy(kind) ==
    [reason |-> kind, evidence |-> "redacted", card |-> "blocked", humanAttention |-> TRUE]
-----------------------------------------------------------------------------
(* Polling an external worker.                                             *)

ExternalStatus == {"queued", "running", "completed", "blocked", "failed"}

\* HepaExternalStatusReport::validate.  Nothing compares the report's adapter
\* and lane with those that are polled.
ReportIsValid(report) ==
    /\ report.schema_version = 1
    /\ ArePlain({report.adapter_id, report.external_ref, report.lane_id} \cup report.summary)
    /\ report.summary # {}
    /\ ({report.external_ref} \cup report.summary) \cap SecretWord = {}

\* filtered_environment: the path, and what the specification asks for.
PollEnvironment(spec, environment, path) ==
    path \cup (spec.required_env \cap environment)

\* What poll looks at before it launches the status command.  "launch" goes on.
BeforePoll(request, world) ==
    LET command == Render(request.spec.command, request.context)
        flags   == UNION {UnsupportedFlags(words) : words \in command}
    IN  IF \/ ~SpecIsValid(request.spec) \/ request.spec.mode # "external"
           \/ "worker" \notin request.spec.roles \/ command = {}
        THEN "error"
        ELSE IF flags # {} \/ CheckCommand(request.policy, request.command) # {} THEN "blocked"
        ELSE IF world.hasWorkdir /\ world.canWritePrompt THEN "launch" ELSE "error"

\* The report file after the command: what the command wrote or, if it wrote
\* nothing, what an earlier poll left there.  The file is not removed first.
ReportFile(world) == IF world.written # {} THEN world.written ELSE world.left

\* poll: an outcome and the report with it.
Poll(request, world) ==
    LET before == BeforePoll(request, world)
        stopped == \E output \in {world.stdout, world.stderr} :
                       CheckOutput(request.policy, output) # {}
        reports == {report \in ReportFile(world) : ReportIsValid(report)}
    IN  IF before # "launch" THEN [outcome |-> before, report |-> {}]
        ELSE IF ~world.launches THEN [outcome |-> "error", report |-> {}]
        ELSE IF stopped THEN [outcome |-> "blocked", report |-> {}]
        ELSE IF world.exit = 0 /\ reports # {} THEN [outcome |-> "polled", report |-> reports]
        ELSE [outcome |-> "error", report |-> {}]
=============================================================================
