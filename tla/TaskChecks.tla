------------------------------ MODULE TaskChecks ------------------------------
(***************************************************************************)
(* What the rules about tasks, lanes and runs come to on bounded inputs:   *)
(* BoardTransition, TaskIntake, FleetMonitor, LaneGates, RunInputs,        *)
(* RunRecords and ProjectMemory against a definition that says the same in *)
(* another way, or against each other.  TLC evaluates the assumptions of   *)
(* this module with every run of MCControlPlane.                           *)
(***************************************************************************)
EXTENDS Naturals, Sequences, FiniteSets

Moves   == INSTANCE BoardTransition
Intake  == INSTANCE TaskIntake WITH DefaultProject <- "default"
Monitor == INSTANCE FleetMonitor
Gates   == INSTANCE LaneGates
Inputs  == INSTANCE RunInputs
Records == INSTANCE RunRecords
Memory  == INSTANCE ProjectMemory
             WITH MaxPatternEntries <- 3, MaxRewardEntries <- 2, ByteBudget <- 9,
                  HeaderBytes <- 2, PrivateWord <- {"/home/me"}

SequencesUpto(set, n) == UNION {[1..k -> set] : k \in 0..n}
-----------------------------------------------------------------------------
(* The board.                                                              *)

BoardTasks ==
    [ id : {"t"}, status : Moves!TaskStatus, readiness : Moves!ReadinessState,
      priority : {1}, dependencies : {<<>>} ]

Request(task, action) ==
    [id |-> "r", task |-> task, action |-> action, fieldsArePlain |-> TRUE]

BoardActions ==
    [type : {"MarkReady", "Cancel", "Resume"}]
    \cup [type : {"Block"}, reasonIsPlain : {TRUE}]
    \cup [type : {"SetPriority"}, priority : {2}]
    \cup [type : {"SetDependencies"}, dependencies : {<<"t">>, <<"u">>}]

LaneSets == SUBSET [state : {"Running", "Reviewing", "Completed", "Blocked"}]

\* A move on the board never takes a task where the rest of HEPA could not,
\* and never past the gates of a lane that is being judged.
ASSUME AcceptedMovesAreLegal ==
    \A task \in BoardTasks, action \in BoardActions, lanes \in LaneSets :
        \A updated \in Moves!Decision(task, lanes, Request("t", action)).updated :
            /\ updated.id = task.id
            /\ updated.status = task.status \/ Moves!CanTaskTransition(task.status, updated.status)
            /\ updated.status = "Ready" /\ task.status # "Ready" =>
                   ~\E lane \in lanes : lane.state \in {"Reviewing", "Completed"}
            /\ updated.dependencies # <<"t">>

\* Blocking a task takes its readiness, so resuming it puts it in the queue and
\* not in front of the scheduler; a task that HEPA itself blocked keeps it.
ASSUME BlockedByHandIsQueuedAgain ==
    \A task \in BoardTasks, lanes \in LaneSets :
        \A blocked \in Moves!Decision(task, lanes,
                           Request("t", [type |-> "Block", reasonIsPlain |-> TRUE])).updated :
            \A resumed \in Moves!Decision(blocked, lanes, Request("t", [type |-> "Resume"])).updated :
                resumed.status = "Queued"

\* The lanes matter: without them a move is accepted that they would forbid.
ASSUME LanesCloseTheGates ==
    \E task \in BoardTasks : LET ready == Request("t", [type |-> "MarkReady"]) IN
        /\ Moves!DecisionWithoutLanes(task, ready).status = "Accepted"
        /\ Moves!Decision(task, {[state |-> "Reviewing"]}, ready).status = "Rejected"
-----------------------------------------------------------------------------
(* Where tasks come from.                                                  *)

SpecLines ==
    [kind : {"project"}, value : {"p"}]
    \cup [kind : {"task"}, id : {"1"}, title : {"one"}]
    \cup [kind : {"section"}, section : {"Acceptance", "Questions", "Dependencies"}]
    \cup [kind : {"item"}, text : {"x"}]

Items(task) == Len(task.acceptance) + Len(task.questions) + Len(task.dependencies)

\* A specification becomes one draft per heading, in order, none of them ready,
\* each of the project that was named last before the next heading, and no item
\* of a section gets lost or is counted for another task.
ASSUME SpecsBecomeDrafts ==
    \A lines \in SequencesUpto(SpecLines, 5) :
        LET spec == Intake!ImportedSpec(lines)
            headings == SelectSeq([i \in DOMAIN lines |-> i], LAMBDA i : lines[i].kind = "task")
            end(n) == IF n = Len(headings) THEN Len(lines) ELSE headings[n + 1] - 1
            named(n) == \E i \in 1..end(n) : lines[i].kind = "project"
            listed(n) == {i \in (headings[n] + 1)..end(n) :
                             /\ lines[i].kind = "item"
                             /\ \E s \in (headings[n] + 1)..i : lines[s].kind = "section"}
        IN  spec.ok => /\ Len(spec.tasks) = Len(headings)
                       /\ \A n \in DOMAIN headings :
                             /\ spec.tasks[n].status = "Draft"
                             /\ spec.tasks[n].readiness # "Ready"
                             /\ spec.tasks[n].project = IF named(n) THEN "p" ELSE "default"
                             /\ Items(spec.tasks[n]) = Cardinality(listed(n))
                             /\ spec.tasks[n].acceptance # <<>> \/ spec.tasks[n].questions # <<>>

Payloads ==
    [ parses : {TRUE}, action : {"opened", "closed"}, isPullRequest : BOOLEAN, number : {7},
      title : {"", "title"}, body : SequencesUpto(SpecLines \ [kind : {"project"}, value : {"p"}], 3),
      labels : [risks : SUBSET {"medium", "high"}, priorities : SUBSET {1, 5}] ]

Deliveries ==
    [ project : {"p"}, event : {"issues", "push"}, fieldsArePlain : {TRUE},
      hasSecret : BOOLEAN, signature : {"valid", "wrong"} ]

\* An issue never becomes a task without a valid signature if there is a secret,
\* and the task is a draft that asks for acceptance criteria if it has none.
ASSUME IssuesBecomeDrafts ==
    \A delivery \in Deliveries, payload \in Payloads :
        LET outcome == Intake!IssueWebhook({"project", "delivery"}, delivery, payload)
        IN  /\ outcome.result # "error" => (delivery.hasSecret => delivery.signature = "valid")
            /\ \A i \in DOMAIN outcome.tasks :
                   /\ payload.action = "opened" /\ ~payload.isPullRequest
                   /\ outcome.tasks[i].status = "Draft"
                   /\ outcome.tasks[i].acceptance = <<>> => outcome.tasks[i].readiness = "Blocked"
-----------------------------------------------------------------------------
(* The fleet monitor and the gates of a lane.                              *)

LaneStatesSeen == {"Ready", "Running", "Blocked", "Failed", "Completed"}
Observations ==
    [ lane : {"l"}, task : {"t"}, state : LaneStatesSeen, alive : BOOLEAN, worktree : BOOLEAN,
      card : {{}, {"ready"}, {"running"}, {"blocked"}, {"failed"}, {"done"}} ]

\* What would make the board and the lanes agree: a lane that goes on gets its
\* card, and is stale if nothing runs in it; one that ended loses its worktree
\* and has its card corrected.  Nothing is done to both kinds, and every card
\* that disagrees with a lane that ended is corrected.
ASSUME ReconciliationRepairsEndedLanes ==
    \A o \in Observations :
        LET actions == {a.action : a \in Monitor!Reconcile({o})}
            ended == o.state \in {"Completed", "Failed"}
        IN  /\ actions \subseteq IF ended THEN {"PruneWorktree", "FinalizeTerminalLane"}
                                 ELSE {"MarkLaneStale", "RecreateCard"}
            /\ ended => ("FinalizeTerminalLane" \in actions <=> Monitor!Refresh({o}).drifted # {})

TaskRows == [status : Moves!TaskStatus, lane : {"l1", "l2", "none"}]

\* The command sees no card at all, so it finds no drift, wants every card of a
\* lane that goes on to be made again, and has nothing to do for lanes that ended.
ASSUME CommandSeesNoDrift ==
    \A records \in [{"a", "b"} -> TaskRows] :
        /\ Monitor!FleetStatus(records, "none").drifted = 0
        /\ \A a \in Monitor!FleetReconcile(records, "none") :
               a.action \in {"MarkLaneStale", "RecreateCard"}
        /\ {a.lane : a \in Monitor!FleetReconcile(records, "none")} =
               {records[t].lane : t \in {u \in DOMAIN records :
                    records[u].status \in {"Running", "Blocked"}}} \ {"none"}

\* `hepa fleet cleanup` takes the runtime directories of ended tasks.  It takes
\* the one of a running task exactly when an ended task names the lane as well.
ASSUME CleanupTakesEndedLanes ==
    \A records \in [{"a", "b"} -> TaskRows] :
        LET owned == Monitor!CleanupLanes(records, "none")
            cleaned == Monitor!CleanupRuntime({"l1", "l2", "x"}, owned, {"l1", "l2", "x"})
            with(status) == {records[t].lane : t \in {u \in DOMAIN records :
                                                    records[u].status \in status}} \ {"none"}
        IN  /\ cleaned.removed \cup cleaned.preserved = {"l1", "l2", "x"}
            /\ "x" \in cleaned.preserved
            /\ cleaned.removed = with({"Completed", "Cancelled"})
            /\ cleaned.removed \cap with({"Running"}) # {} =>
                   records["a"].lane = records["b"].lane

AGoodLane ==
    [ pr_exists |-> TRUE, validation_status |-> "Passed", ui_files_changed |-> FALSE,
      screenshots_attached |-> FALSE, missing_artifacts |-> {}, merge_conflict |-> FALSE,
      branch_synced_with_base |-> TRUE, review_passed |-> TRUE,
      residual_findings_accepted |-> FALSE, ci_present |-> FALSE, ci_passing |-> FALSE,
      risk_policy_approved |-> TRUE, human_clarification_needed |-> FALSE,
      card_lane_consistent |-> TRUE, unmet_dependencies |-> {} ]

\* One thing wrong with a lane that is done is enough for it not to be, and the
\* reason is one of those a board knows.
ASSUME EveryDefectCloses ==
    LET defects ==
            { [AGoodLane EXCEPT !.pr_exists = FALSE],
              [AGoodLane EXCEPT !.validation_status = "Skipped"],
              [AGoodLane EXCEPT !.ui_files_changed = TRUE],
              [AGoodLane EXCEPT !.missing_artifacts = {"report"}],
              [AGoodLane EXCEPT !.merge_conflict = TRUE],
              [AGoodLane EXCEPT !.branch_synced_with_base = FALSE],
              [AGoodLane EXCEPT !.review_passed = FALSE],
              [AGoodLane EXCEPT !.ci_present = TRUE],
              [AGoodLane EXCEPT !.risk_policy_approved = FALSE],
              [AGoodLane EXCEPT !.human_clarification_needed = TRUE],
              [AGoodLane EXCEPT !.card_lane_consistent = FALSE],
              [AGoodLane EXCEPT !.unmet_dependencies = {"u"}] }
    IN  /\ Gates!MayShowDone(AGoodLane)
        /\ \A lane \in defects : /\ ~Gates!MayShowDone(lane)
                                 /\ Gates!DoneBlockers(lane) \subseteq Gates!NotReadyReason

\* Nobody is told the same twice, whatever fails to be delivered in between; so
\* what failed once is never delivered at all.
ASSUME ToldOnce ==
    LET start == [seen |-> {}, delivered |-> <<>>]
        tell(notifier, call) == Gates!Notify(notifier, call.task, call.status, call.delivers)
        calls == [task : {"a", "b"}, status : Gates!NotificationStatus, delivers : BOOLEAN]
    IN  \A x, y, z \in calls :
            LET told == tell(tell(tell(start, x), y), z).delivered
                same(c, d) == c.task = d.task /\ c.status = d.status
            IN  /\ \A i, j \in DOMAIN told : told[i] = told[j] => i = j
                /\ ~x.delivers /\ (\A c \in {y, z} : same(x, c)) => told = <<>>
-----------------------------------------------------------------------------
(* What a run works from and leaves behind.                                *)

Briefs == [valid : BOOLEAN, task : {"t", "u"}, lane : {"l"}]
Files  == {{}} \cup {{brief} : brief \in Briefs}

\* A run that has a brief has one for its task, and one that needs a brief never
\* starts without.  But a file of an earlier command will do for a command that
\* writes none.
ASSUME BriefsAreForTheRun ==
    LET run == [task |-> "t", lane |-> "l"]
        environments == [ command : {{}} \cup {{c} : c \in [exit : {0, 1}, writes : Files]},
                          named : BOOLEAN, file : Files, required : BOOLEAN ]
    IN  /\ \A env \in environments, default \in Files :
               LET got == Inputs!RunBrief(run, env, default)
               IN  /\ \A brief \in got.brief : brief.valid /\ brief.task = "t"
                   /\ got.result = "brief" <=> got.brief # {}
                   /\ env.required => got.result # "none"
                   /\ got.result = "brief" /\ env.command # {} =>
                          got.brief = Inputs!DefaultBriefAfter(env, default)
        /\ \E env \in environments, default \in Files :
               /\ \A command \in env.command : command.writes = {}
               /\ env.command # {} /\ Inputs!RunBrief(run, env, default).result = "brief"

Commands ==
    [form : {"git diff --check", "yarn test"}, tokens : {<<>>, <<"safe">>, <<"unsafe">>},
     launches : BOOLEAN, exit : {0, 2}]

\* A validation passes if every command could be run and did; a failure that is
\* forced is a failure, and changes what one command came to.
ASSUME ForcedFailuresFail ==
    \A commands \in SequencesUpto(Commands, 2) :
        LET found  == Inputs!FirstVerdict(commands, FALSE)
            forced == Inputs!FirstVerdict(commands, TRUE)
        IN  /\ found.status = "Passed" <=>
                   commands # <<>> /\ \A i \in DOMAIN commands :
                       commands[i].launches /\ commands[i].exit = 0 /\ Inputs!IsSafeCommand(commands[i])
            /\ forced.status = "Failed" /\ \E i \in DOMAIN forced.commands : forced.commands[i] # 0
            /\ commands # <<>> =>
                   Cardinality({i \in DOMAIN commands : forced.commands[i] # found.commands[i]}) <= 1

\* A task's text asks for each command once, and nothing is built by yarn
\* before it is installed.
ASSUME InstallComesFirst ==
    LET texts == [commands : SUBSET {"yarn install", "yarn test:e2e", "yarn build", "pnpm install"},
                  namesLoginTest : BOOLEAN, saysNoTests : BOOLEAN]
    IN  \A text \in texts :
            LET commands == Inputs!ValidationCommands(text)
            IN  /\ \A i, j \in DOMAIN commands : commands[i] = commands[j] => i = j
                /\ \A i \in DOMAIN commands : commands[i] = "yarn build" =>
                       \E j \in 1..(i - 1) : commands[j] = "yarn install"

\* Lending the dependencies a second time changes nothing.
ASSUME DependenciesAreLentOnce ==
    \A source, destination \in Inputs!NodeModules :
        LET once == Inputs!DependencyReuse(source, destination)
        IN  once # "error" => /\ Inputs!DependencyReuse(source, once) = once
                              /\ source # "none" => once \in {"link", "usable"}

\* The phases of a run are told once each, a run that ended well tells of nothing
\* blocked, and a blocked one is a case for a human.
ASSUME TimingTellsEachPhaseOnce ==
    \A end \in Records!Phase, repair \in {{}, {TRUE}, {FALSE}} :
        LET timing == Records!LiveTiming(end, repair)
        IN  /\ \A i, j \in DOMAIN timing : timing[i].name = timing[j].name => i = j
            /\ end \in {"PrCreated", "Completed"} =>
                   \A i \in DOMAIN timing : timing[i].status # "Blocked"
            /\ end \in {"WorkerBlocked", "ReviewFailed", "PrFailed"} =>
                   \E i \in DOMAIN timing : timing[i].status = "Blocked"
            /\ (repair = {}) <=> Records!LiveCounters(repair, 0).agentLoops = 1
            /\ (repair = {}) <=> \A i \in DOMAIN timing : timing[i].name # "live_repair_worker"
            /\ Records!BlockedReport({}, <<>>, FALSE, timing).human
-----------------------------------------------------------------------------
(* Memory.                                                                 *)

Texts == SequencesUpto({"/home/me", "word"}, 2)
Packs == SequencesUpto(SequencesUpto({"<path>", "word"}, 2) \ {<<>>}, 3)

SizeOf(pack) == Memory!Room(pack, Len(pack))

\* A pack stays within its budget and its number of entries, no path that is
\* private gets into it, and what is told twice is written once.  The entry that
\* is new is what suffers when the budget is short: the caller may be told that
\* it was written although nothing of it is left.
ASSUME PacksStaySmallAndClean ==
    /\ \A pack \in {p \in Packs : SizeOf(p) <= 9}, text \in Texts :
           LET appended == Memory!AppendPattern(pack, "Completed", text)
               again == Memory!AppendPattern(appended.pack, "Completed", text)
           IN  /\ SizeOf(appended.pack) <= 9 /\ Len(appended.pack) <= 3
               /\ \A i \in DOMAIN appended.pack, w \in 1..2 :
                      w \in DOMAIN appended.pack[i] => appended.pack[i][w] # "/home/me"
               /\ (\E i \in DOMAIN appended.pack : appended.pack[i] = Memory!Redact(text))
                      => again.pack = appended.pack
    /\ \E pack \in Packs, text \in Texts :
           LET appended == Memory!AppendPattern(pack, "Completed", text)
           IN  appended.written /\ appended.pack = pack

\* Every run that ends leaves a reward, and a blocked one its failure, in which
\* the next repair of a task is told what went wrong.
ASSUME FailuresAreRemembered ==
    \A prompt, reason \in Texts \ {<<>>} :
        LET empty == [prompts |-> <<>>, failures |-> <<>>, lessons |-> <<>>, rewards |-> <<>>]
            after == Memory!RecordTerminal(empty, Memory!BlockedRun(prompt, reason))
        IN  /\ Memory!FailureContext(after) = <<Memory!Redact(reason)>>
            /\ Len(after.rewards) = 1
=============================================================================
