----------------------------- MODULE AdapterChecks -----------------------------
(***************************************************************************)
(* What the rules about adapters come to on bounded inputs: Adapters,      *)
(* AdapterDoctor, MonitorPolicy, WorkerAttempt, Configuration and          *)
(* Disclosure against a definition that says the same in another way, or   *)
(* against each other.  TLC evaluates the assumptions of this module with  *)
(* every run of MCControlPlane.                                            *)
(***************************************************************************)
EXTENDS Naturals, Sequences, FiniteSets

Policy   == INSTANCE MonitorPolicy            \* with Adapters and AdapterDoctor
Counters == INSTANCE WorkerAttempt WITH U64 <- 8
Settings == INSTANCE Configuration
Secrecy  == INSTANCE Disclosure

Upto(set, n) == UNION {[1..k -> set] : k \in 0..n}
-----------------------------------------------------------------------------
(* Specifications, the registry and the doctor.                            *)

\* What is built in satisfies the rules it is checked by, in spec.rs as well
\* as in doctor.rs, and asks nobody to go around a sandbox.
ASSUME BuiltinsPassTheDoctor ==
    \A id \in Policy!BuiltinIds :
        LET spec == Policy!BuiltinSpec(id)
        IN  /\ Policy!SpecIsValid(spec)
            /\ ~Policy!TemplateBroken(spec)
            /\ Policy!BypassFlags(spec.command) = {}
            /\ spec.mode \in Policy!Mode /\ spec.sandbox \in Policy!Sandbox
            /\ spec.cost_class \in Policy!CostClass
            /\ Policy!FlagDrift(Policy!BuiltinPins, id, "1.0.0", spec.command) = "none"

\* render_command_template accepts what is made of plain words and known
\* placeholders - and a closing brace astray, if a placeholder follows it.
ASSUME TemplatesAreWordsAndPlaceholders ==
    \A template \in Upto({"word", "{", "}", "worktree"}, 6) :
        LET opens == {i \in DOMAIN template : template[i] = "{"}
        IN  Policy!TemplateIsValid(template) <=>
                /\ \A i \in opens :
                       /\ i + 2 <= Len(template)
                       /\ template[i + 1] \in Policy!Placeholder /\ template[i + 2] = "}"
                /\ \A i \in DOMAIN template : template[i] = "}" =>
                       \E open \in opens : i <= open + 2

\* Whether a command can be made does not depend on the context, and no brace
\* that opens is left in it.
ASSUME RenderedAlikeInAnyContext ==
    LET context == [name \in Policy!Placeholder |-> "/somewhere"]
    IN  \A template \in Upto({"word", "{", "}", "worktree"}, 5) :
            /\ Policy!TemplateIsValid(template) <=> Policy!Render(template, context) # {}
            /\ \A command \in Policy!Render(template, context) :
                   "{" \notin Policy!WordsOf(command)

Models == [first : {"", "ollama", "openai", "deepseek", "other"}, rest : {"", "model"}]
PiConfigs ==
    [ model : Models, review_model : {{}} \cup {{m} : m \in Models},
      provider_key_env : {{}, {"deepseek"}, {"GITHUB_TOKEN"}}, base_url : {{}, {"loopback"}} ]

\* Any configuration of pi gives a specification the registry takes, unless it
\* wants a credential of the manager's for a key.
ASSUME PiIsUsable ==
    \A pi \in PiConfigs :
        LET loaded == Policy!LoadFromConfig({}, pi)
        IN  loaded = {} <=>
                "GITHUB_TOKEN" \in pi.provider_key_env /\ pi.model # [first |-> "", rest |-> ""]

\* Whoever has to pay for a worker with a key is counted as paying, and what is
\* counted as local without a key can still be a provider in the cloud.
ASSUME KeyedWorkersArePaid ==
    /\ \A pi \in PiConfigs :
           pi.model.first \in Policy!KeyedProvider => Policy!PiCostClass(pi) = "paid-cloud"
    /\ \E pi \in PiConfigs :
           /\ pi.model = [first |-> "other", rest |-> "model"] /\ pi.base_url = {}
           /\ Policy!PiCostClass(pi) = "local"

\* A route the doctor lets pass is a route a run would not block before the
\* worker starts.
ASSUME DoctorAndPreflightAgree ==
    \A pi \in PiConfigs :
        LET probe == [pi |-> pi, commands |-> {"pi"}, env |-> Policy!PiKey(pi)
                        \cup {"HEPA_PI_BASE_URL", "HEPA_PI_MODEL"}, versions |-> [pi |-> "ok"]]
        IN  Policy!CheckAdapter(Policy!PiSpec(pi), probe) = "ok"
                => ~Counters!PreflightBlocks("pi", pi)
-----------------------------------------------------------------------------
(* Policies.                                                               *)

\* The lifecycle commands of git are found behind any number of options: a
\* reference definition that picks the options' places.
IsOptionRun(tokens, from, to) ==
    \E starts \in SUBSET (from..to) :
        LET values == {s + 1 : s \in {o \in starts : tokens[o] \in Policy!ValueOption}}
        IN  /\ starts \cup values = from..to
            /\ starts \cap values = {}
            /\ \A s \in starts : tokens[s] \in Policy!ValueOption \cup Policy!OtherOption

ASSUME GitIsFoundBehindOptions ==
    \A tokens \in Upto({"git", "-c", "-x", "push", "worktree", "add", "gh", "pr", "merge"}, 4) :
        Policy!GitLifecycle(tokens) <=>
            \/ \E g, a \in DOMAIN tokens :
                   /\ g < a /\ tokens[g] = "git"
                   /\ IsOptionRun(tokens, g + 1, a - 1)
                   /\ \/ tokens[a] \in Policy!GitAction
                      \/ /\ tokens[a] = "worktree" /\ a < Len(tokens)
                         /\ tokens[a + 1] \in {"add", "remove"}
            \/ \E i \in 1..(Len(tokens) - 2) :
                   tokens[i] = "gh" /\ tokens[i + 1] = "pr" /\ tokens[i + 2] \in Policy!PrAction

\* A stop for being late is for good: it stays one as time passes, though a
\* stall may turn into a timeout.
ASSUME LateStaysLate ==
    \A timeout, stall \in {{}} \cup {{n} : n \in 0..3}, early \in 0..4, late \in 0..5 :
        LET policy == [timeout |-> timeout, stall |-> stall]
        IN  early <= late /\ Policy!CheckElapsed(policy, early) # {} =>
                /\ Policy!CheckElapsed(policy, late) # {}
                /\ "timeout" \in Policy!CheckElapsed(policy, early)
                       => "timeout" \in Policy!CheckElapsed(policy, late)

\* A line that is redacted stays as it is when it is redacted again, no token
\* is left in it, and of two neighbours behind a bearer one is gone.
ASSUME RedactionIsDone ==
    \A words \in Upto(Secrecy!Word, 4), key \in Secrecy!LineKey :
        LET once == Secrecy!RedactSecrets(<<[key |-> key, words |-> words]>>)
            left == once[1].words
        IN  /\ Secrecy!RedactSecrets(once) = once
            /\ \A i \in DOMAIN left : left[i] # "a token"
            /\ \A i \in 1..(Len(left) - 1) : left[i] = "bearer" => left[i + 1] \in {"", "<redacted>"}
            /\ key # "secret" => \A i \in DOMAIN words : words[i] = "" => left[i] = ""

\* Nothing an adapter declares gets it a credential of the manager's.
ASSUME CredentialsStayWithTheManager ==
    LET names == Secrecy!ManagerOnlyEnv \cup {"PATH", "PI_KEY", "OTHER"}
    IN  \A declared \in SUBSET names, role \in Secrecy!EnvRole :
            Secrecy!Filtered(names, role, declared) =
                IF role = "manager"
                THEN declared \cup {"PATH"} \cup Secrecy!ManagerOnlyEnv
                ELSE (declared \ Secrecy!ManagerOnlyEnv) \cup {"PATH"}
-----------------------------------------------------------------------------
(* An attempt and its numbers.                                             *)

\* A wait for the local model never fails one that is freed in time, and never
\* lasts longer than a poll over its limit.
ASSUME PermitWaitIsBounded ==
    \A freedAfter \in 0..45, waitMs \in 1..35 :
        LET taken == Counters!PermitTaken("held", freedAfter, waitMs)
        IN  /\ freedAfter <= waitMs => taken
            /\ taken => freedAfter < waitMs + Counters!PollMs

\* No variable takes a budget out of its bounds or makes it zero.
ASSUME BudgetsAreBounded ==
    \A asked \in {{}, {0}, {1}, {299999}, {900000}, {900001}} :
        LET budget == Counters!MonitorBudget(asked, asked)
        IN  /\ \A ms \in budget.timeout \cup budget.stall \cup {Counters!PermitWaitMs(asked)} :
                   ms \in 1..600000
            /\ Counters!ValidationWaitMs(asked) \in 1..900000

UsageEntries ==
    [ adapter : {"pi"}, invocation : {"1"}, input : {{}, {3}}, output : {{}, {2}},
      total : {{}, {2}, {6}}, cost : {{}, {1}}, currency : {{}, {"EUR"}, {"USD"}} ]

\* As long as no counter wraps, the totals of entries that validate cover what
\* went in and out, and no currency gets another's money.
ASSUME TotalsCoverTheirParts ==
    \A entries \in Upto(UsageEntries, 2) :
        \A totals \in Counters!CostReport(entries) :
            LET fields(f(_)) == IF Len(entries) = 1 THEN f(entries[1])
                                ELSE f(entries[1]) + f(entries[2])
                total(e) == Counters!EntryTotal(e)
                cost(c) == LET of(e) == IF c \in e.currency THEN Counters!Counted(e.cost) ELSE 0
                           IN  fields(of)
            IN  fields(total) < 8 =>
                    /\ totals.total >= totals.input + totals.output
                    /\ \A c \in DOMAIN totals.perCurrency : totals.perCurrency[c] = cost(c)

OutputLine == [kind : {"truncated", "garbage", "tool", "agent_end"}, text : {"", "text"}, usage : {{}}]
Worlds ==
    [ lock : {"free"}, freedAfter : {0}, waitMs : {10}, engine : {"ok", "blocked", "failed"},
      stop : {"timeout", "command_policy"}, changed : {{}, {"file"}}, listable : {TRUE},
      stdout : Upto(OutputLine, 2), outputFile : {<<>>}, exit : {0, 1}, facts : {{}} ]

\* What is taken for a completed attempt of pi did something: it changed files
\* or used a tool.  An attempt that was stopped by a policy is never taken for
\* a completed one, whatever it changed.
ASSUME CompletedAttemptsDidSomething ==
    \A world \in Worlds, first \in {"ollama", "openai"} :
        LET pi == [ model |-> [first |-> first, rest |-> "model", reasons |-> FALSE],
                    review_model |-> {}, provider_key_env |-> {}, base_url |-> {} ]
            attempt == Counters!Attempt("pi", Policy!PiSpec(pi), pi, world)
        IN  /\ attempt.result = "ok" =>
                   \/ world.changed # {}
                   \/ \E i \in DOMAIN world.stdout : world.stdout[i].kind = "tool"
            /\ \A report \in attempt.report :
                   /\ attempt.result = "ok" => report.status \in {"Completed", "Failed"}
                   /\ attempt.result = "error" => report.status \in {"Blocked", "Failed"}
            /\ world.engine # "ok" /\ world.stop = "command_policy" => attempt.result = "error"
-----------------------------------------------------------------------------
(* Configuration.                                                          *)

SomeSettings == {"max_total_rounds", "default_adapter", "notify_command"}
SettingsMaps == UNION {[keys -> {"", "2", "fake"}] : keys \in SUBSET SomeSettings}

\* Of the places a setting is given in, the last one counts; only a value that
\* is given in an optional setting as a blank is as good as none there, and one
\* that cannot be read is an error even if a later place would give another.
ASSUME LaterSettingsWin ==
    \A dotenv \in Upto([form : {"KEY=value"}, key : SomeSettings, value : {"", "2"}], 2),
       environment \in SettingsMaps,
       overrides \in {<<>>, [default_adapter |-> "fake"]} :
        LET lines(key) == SelectSeq(dotenv, LAMBDA line : line.key = key)
            file == [key \in {k \in SomeSettings : lines(k) # <<>>} |->
                        lines(key)[Len(lines(key))].value]
            given(key) == IF key \in DOMAIN overrides THEN overrides[key]
                          ELSE IF key \in DOMAIN environment THEN environment[key]
                          ELSE IF key \in DOMAIN file THEN file[key] ELSE Settings!Default[key]
            unread == {values \in {file, environment} :
                          "max_total_rounds" \in DOMAIN values /\ values["max_total_rounds"] # "2"}
            loaded == Settings!LoadFile([state |-> "read", lines |-> dotenv], environment, overrides)
        IN  /\ loaded = {} <=>
                   unread # {} \/ given("default_adapter") = ""
            /\ \A config \in loaded, key \in SomeSettings :
                   config[key] = IF key = "notify_command" /\ given(key) = "" THEN "unset"
                                 ELSE given(key)

\* What is told of a configuration names no path and no optional value.
ASSUME DiagnosticsTellNoPath ==
    LET told == Settings!Diagnostics([Settings!Default EXCEPT !.notify_command = "a command"])
    IN  {told[key] : key \in DOMAIN told} \cap {".hepa", "a command"} = {}
=============================================================================
