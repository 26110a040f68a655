# A TLA+ model of HEPA

HEPA (`src/crates/*`, Rust) turns the tasks of a project into pull requests. It keeps a
file-based registry of tasks, claims ready tasks into *lanes*, runs a coding agent for each lane
in a git worktree of its own, validates and reviews what the agent did, and lets a manager commit,
push and propose it. This directory holds TLA+ modules translated from that code, the TLC
configurations that check them, and TLAPS proofs about them. `PROJECT.json` maps every definition
to the lines it stands for.

## The system

| component | state it keeps | operations | interacts with |
|---|---|---|---|
| contracts, lane_state | none (status vocabularies, transition tables) | `can_transition_to`, `transition_lane` | everything |
| fleet_registry | one JSON file per task | create, block, cancel, resume, complete, prioritize, set readiness, mark ready, claim into a lane | all commands, the Hermes runs and the scheduler, as separate processes and threads, without a lock |
| hermes runs (`fleet.rs`) | the claim loop's list, launched threads, local cards | `ingest-spec`, `run-ready`, `run-cards`, `run-dashboard-card` | registry, cards, live run (one thread per lane) |
| live run (`run.rs`) | lane state, attempt count, validation, review outcome, artifacts on disk | `run_live_task` | adapter, validation commands, review fan-out, git, forge, archive |
| review (fanout, parser, arbitration, repair) | none of its own | reviewer fan-out, arbitration, repair brief, repair budget | live run |
| git (worktree, staging, pr) | worktrees, branches, worktree metadata | allocate, clean up, mark stale, prune, stage, commit, push, create PR | live run |
| scheduler, governor, conflict planner | whether the scheduler runs; the caller's reservations | `tick`, `claim_one`, `status` | registry |
| stress run (`fleet.rs`) | its listings, the project it is at, its reservations, worktrees, card files | `fleet stress-run` | registry, scheduler, worktrees, cards |
| fleet monitor | none: observations are handed to it | `refresh`, `reconcile`, `cleanup_runtime` | registry, artifacts |
| interactive lanes | worktree, tmux session, session record, steering log | `run-interactive`, `lane send`, teardown | tmux, worktrees |
| adapter engine, validation commands, routing | a child process, its reader threads, a permit; the registry of adapters | run with timeout, kill, monitor; validate, route, diagnose | live run |
| kanban (mapping, sync, transition, webhook) | cards, mappings | sync, apply a transition, receive a webhook | registry, Hermes |
| notifications, memory, readiness, done gate, cost, config, redaction | small records | dedupe, append, evaluate | live run, CLI |

What is hard here: several processes share files without a lock; a claim loop and a pipeline leave
half-done work behind when a step fails; a run must conclude itself on every one of its exits; an
agent may do anything to its worktree; the operator changes tasks under a running lane; a record is
read, tested and written later. `PROJECT.json` lists these hazards, each at its line.

What makes each component correct:

* registry - a status moves along the lifecycle only, a lane is given once per record, terminal
  records stay, no operation leaves a file half-written;
* Hermes runs - at most one lane works on a task, under the claim its run made, after its
  dependencies; what a run reports agrees with registry, cards and pull requests; every run ends;
* live run - the round budget holds, nothing unvetted reaches git, every run that returns a result
  has concluded its lane, uncommitted work is never destroyed;
* scheduler and stress run - dependencies come before lanes, caps and conflicts hold over a run's
  claims, a card that says a lane is done is true, a run that stops leaves one task unfinished at most;
* adapter engine - no child outlives its run, output is complete or the run is failed;
* interactive lanes - what is typed was logged first; a session has a worktree;
* board - a task has one card, the card says how the task stands and shows nothing private;
* the rules without state (contracts, screens, review policy, routing, doctor, intake, gates,
  memory, configuration, redaction) - they agree with each other and with what the docs promise.

## Modules

| module | stands for | composed from |
|---|---|---|
| `HepaContracts` | status sets, transition tables, `CanLaneTransition` | - |
| `TaskRecords` | what each registry operation does to one record: a test and a new record | `HepaContracts` |
| `FleetRegistry` | the task files and the processes that read, test, truncate and fill them | `TaskRecords` |
| `TaskLedger` | *abstract*: what the registry promises its callers | `HepaContracts` |
| `LiveRun` | `run_live_task` of one lane, every exit of it | `HepaContracts`, `Review`, `Publishing` |
| `Review` | fan-out, the parsing of answers, arbitration, the manager's decisions, the final approval | - |
| `Publishing` | the screens files pass before git, what a lockfile needs, the texts of commit and pull request | `RecordContracts` |
| `RecordContracts` | what a record or a profile's artifact must satisfy to be believed | - |
| `HermesRun` | the run commands, their threads, the operator, killed processes | `TaskRecords` |
| `Worktrees` | the worktree allocator: several runs and a janitor over the lanes of one repository | - |
| `LaneLease` | *abstract*: one run has a lane at a time; a lane left behind can only be reclaimed; a free one may be lost | - |
| `ChildProcess` | an agent or a validation command: the thread that waits, the reader threads, the process | - |
| `ControlPlane` | stress runs, the operator, the syncing board and interactive lanes side by side | `Scheduling`, `CardSync`, `InteractiveSessions` |
| `Scheduling` | scheduler, resource governor and conflict planner | `TaskRecords` |
| `CardMapping`, `CardSync` | the card of a task with its redaction; the sync engine and its stores | - |
| `TaskBoard` | *abstract*: one card per task, which changes only to what is the case | - |
| `InteractiveSessions` | `run-interactive`, `lane send` and teardown over tmux, each step on its own | - |
| `Adapters`, `AdapterDoctor`, `MonitorPolicy`, `WorkerAttempt` | adapter specifications, templates, registry, routing; the doctor; what an adapter may not do; what an attempt and its usage come to | the one before |
| `Configuration`, `Disclosure` | layered settings; redaction and the environment an adapter gets | - |
| `BoardTransition`, `TaskIntake` | the answer to a moved card; tasks from specifications and webhooks | `HepaContracts` / - |
| `FleetMonitor`, `LaneGates` | drift of lane observations; done gate and notifications | `HepaContracts` / - |
| `RunInputs`, `RunRecords`, `ProjectMemory` | a run's brief, commands and lent dependencies; its timing and reports; what the project remembers | - |
| `AdapterChecks`, `TaskChecks` | the rules without state against reference definitions, over bounded inputs | the modules above |
| `FleetRegistry_proofs`, `LiveRun_proofs`, `HermesRun_proofs`, `Worktrees_proofs`, `ChildProcess_proofs`, `ControlPlane_proofs` | theorems | the module they are named for |
| `Rules_proofs` | theorems about the rules without a state, for every input | the modules of those rules |
| `Induction` | lemmas: induction over numbers, functions defined by recursion | - |
| `MCFleetRegistry`, `MCLiveRun`, `MCHermesRun`, `MCControlPlane` | model values, instances, symmetry | the module they are named for |

`TaskRecords` is shared on purpose: `FleetRegistry` opens each operation into its steps, `HermesRun`
takes it as one step, and both use the same tests and records. `HermesRun` takes a whole `LiveRun`
as the outcome of one thread.

**FleetRegistry.** `files` holds, per task, a record, `Absent`, `Truncated` (opened by `fs::write`
and not yet filled) or `Garbled` (two overlapping writes). `edit` is the operation a process has
open. Each operation of `fleet_registry.rs` is an action with the guard of its early returns; it
fixes the record to be written, as the code does between `require_task` and `persist_task`.
`TruncateFile` and `FillFile` are the two effects of `fs::write`. A file overwritten by two
processes at once ends as the longer text or as garbage, whichever the lengths make it. The registry
has no defence against that and promises none, so it is a state of the model and not a violation:
what `registry_concurrent` shows holds in spite of it.
`grants` and `creates` are history variables for "a task can never be double-claimed". Titles,
descriptions and timestamps are left out; `lane_ids` has at most one element in this code.

**TaskLedger.** A map from tasks to entries, with `Enter`, `Claim`, `Move` and `Lose`. The refinement
mapping gives a task the record its writer has truncated the file for, else what the file holds.

**LiveRun.** `pc` names the next thing `run_live_task` does. A fallible call is handled by
`finish_blocked_live_run` (`BlockRun`), by handing over (`HandToHuman`), or by `?` (`Propagate`).
`transition_and_record` is `Transition`: a change the lane table refuses is an error. The budget of
`enforce_repair_round_budget` is computed as in the code, saturation included. `lane` is the lane
in memory, `laneFile` the `lane_state.json` that is written twice only. The worktree is `clean` or
`dirty`; `listed` is the list of changed files HEPA makes of it, again after package manager churn
was discarded and again by every repair, and `index` what is staged. A file is the set of what the
screens look for in its path and content. `situation` is what surrounds the run and does not change
under it: the words of its task, the source of its reviews (a profile's command, a file, an adapter,
the built-in reviewers), a manager's decisions and the pull request intents; `Review` computes the
outcome from it, and `Publishing` says which files and texts pass.

**Review, Publishing, RecordContracts.** Operators only. Reviewers' answers are an input; a review
that fails has no outcome. A finding keeps what decides - severity, scope, release risk, whether it
is accepted. A text is the set of the kinds of things it says, as far as a rule looks for them.

**HermesRun.** `run[r].stage` is the place of the run's main thread: create (`run-dashboard-card`,
between the record and its specification and card), select, check, claim, card, launch, join. A
record that cannot be read, a specification or card that cannot be written and a refused claim end
the run with an error at each of them. A panic of a thread (`ThreadPanics`) does so at the join, and
the threads still at work end with the process. `deps` are the dependencies each record names. The
operator's `task create` and a repeated `ingest-spec` (`OperatorCreates`, the members of `Creating`)
and `run-dashboard-card` write a record afresh, whatever it was. `todo` holds the records as they were selected, `specs` the claimed tasks still to be
launched. `worker[r][t]` is the thread. A registry operation is one step here. A lane id is
`lane-hermes-<task>-<second>`, so `Lanes` is the set of seconds a run may start in; two runs may
share one.

**Worktrees.** `branch`, `tree` and `meta` are the branch, the directory and the metadata file of
each lane, `repo` the user's checkout, `op` the method a process is in and how far it has got: one
step for every `exists()`, git command and effect of `fs::write`, any of which may fail (`Fail`,
which is also a killed process); `git worktree add -b` may fail after it has made the branch
(`AddBranchOnly`). A run allocates, works, and cleans its lane up or leaves it. The
janitor calls `mark_lane_stale` and `prune_stale_leases`. No command of this code calls them, so the
janitor is what their callers would be: it asks for lanes no run works in, as the monitor reports
them. Whether a stale lane is due is chosen when prune looks, which stands for every timestamp. A
worker that outlives its killed run is not modelled. Two runs that want one lane are real: `hepa run`
always asks for `lane-cli-fake`.

**LaneLease.** The lanes nobody can acquire and the run that has each. `Worktrees` implements it
with a lane taken while its branch exists; a branch without a worktree is a lane that is lost.

**ChildProcess.** `pc` is the place of the thread that waits: `HepaOneshotAdapterExecutor::run` and
`wait_with_monitor` for an agent, `run_safe_validation_command` for a validation command (`kind`).
`child` is running, blocked on a full pipe (it then bears the stream's name), exited or reaped;
`helper` is a descendant that has inherited its output pipes. Output is counted: `sent` was written
to a stream, `pipe` is on its way, `capture` and `log` were read and logged by the reader thread,
`text` was received by the waiting thread. The chunk beyond a limit is the truncation notice. `fed`
and `prompt` are the part of the prompt in the pipe and the part still to be written. `clock` says
whether the time budget is used up; it runs while the code looks at it, that is in the waiting loop.
How often it looks, and how long the half second of a snapshot is, is left open. The model stops at
one process: the Pi generation permit and the heartbeats of interactive sessions are not in it.

**ControlPlane.** `stress[x]` is a stress-run process: the listing it made at its start, the project
it is `at`, its `stage` there (mark, claim, allocate, complete, card) and what it has `reserved`.
Each stage is a step, between which an operator or a second run may do anything, which may fail, and
at which the process may die; `claim_one`'s look at dependencies and caps (admit) and its claim are
two of them. `records` are the task records; an operation on one is one step here (`FleetRegistry`
opens it). `create_task` writes without looking, so `task create`, `ingest-spec` and
`run-dashboard-card` may replace a running or completed record and the dependencies it named
(`deps`). `replaced` is a history variable, the tasks to which that has happened: no card and no lane
that relied on the old record can stay true, so `StressCardsAreTrue` and `DependenciesBeforeLanes`
speak of the others, and say that nothing else makes them false. `worktrees` only grows, as no stress run gives a lane back. A card file
exists for each lane whose project was finished. The board syncs all tasks or one, any of which may
be impossible to map; a lane transition syncs its task.

**Scheduling.** `AdmissionWaits` is what `claim_one` finds before it claims: unmet dependencies, the
governor's caps and the planner's conflicts are reasons to wait. The claim itself is a step of
`ControlPlane`; a refusal of the registry is an error. It reserves nothing.

**CardMapping, CardSync, TaskBoard.** A text is the set of its words, and a word is of one of the
kinds redaction tells apart. `Upsert` is the memory store. The refinement mapping shows a reader the
cards that bear a task's id and the status on them.

**InteractiveSessions.** `launch` is how far `run-interactive` is with a lane; `pending` are messages
that are logged and not yet typed. tmux is external; a target that is no session's name is resolved
to the one session it is a prefix of.

**The rules without state.** Their functions keep nothing between calls, so there is nothing to
interleave: they are operators, and `AdapterChecks` and `TaskChecks` state as assumptions what they
come to - an agreement of two of them (the doctor and the preflight, the parser and what it renders),
or a definition that says the same in another way - over every input of small sets. TLC evaluates
these assumptions at the start of `control_plane`; `Rules_proofs` proves most of what matters in them
for all inputs.

Definitions whose comment starts with "Mutant of" are no part of the specifications. Each is the
named definition with a plausible bug, kept to show that a property notices it (`PROJECT.json`,
"mutants").

## Runs

| run | instance | states | shows |
|---|---|---|---|
| `registry_serial` | 1 process, 2 tasks, 1 lane, 1 crash | 509 k | `ImplementsLedger`, `NeverDoubleClaimed`, `TypeOK` |
| `registry_concurrent` | 2 processes, 1 task, 2 lanes, 1 crash | 645 k | `RunningTaskHoldsLane`, `LaneWasGranted`, `EmptyFileHasWriter` |
| `registry_double_claim` | 2 processes, 1 task, no crash | - | violates `NeverDoubleClaimed` |
| `live_run` | budgets 1..3, 5 files, 18 situations, failing writes | 46 k | `RoundsWithinBudget`, `PublishedWorkIsVetted`, `ReturnedRunIsConcluded`, `BlockedWorkIsKept`, `RunReturns`, `TypeOK` |
| `live_run_ready_for_human` | budgets 1..3, no failing writes | - | violates `ExhaustedRunIsHandedOver` |
| `hermes_run` | 2 runs, a task and its dependent, 1 operator command, 1 kill, nobody writes a record afresh | 457 k | `OneLaneAtATime`, `DependenciesFirst`, `OkRunIsDone`, `RunningTaskHasRun`, `CompletedCardHasPr`, `TypeOK` |
| `hermes_progress` | 1 run, 4 tasks (1 blocked), limit 3, concurrency 2, 1 operator command, `task create` and `ingest-spec` among them, 1 `run-dashboard-card` | 946 k | `ConcurrencyIsBounded`, `RunsReturn` |
| `worktrees` | 2 lanes, 2 runs, 1 janitor, 2 failures | 135 k | `LiveLaneIsActive`, `LeftLaneIsRecoverable`, `ImplementsLease`, `NoWorkDestroyed`, `TypeOK` |
| `child_process` | both kinds, pipes of 1, prompt of 2, output of 4, limits of 2 | 98 k | `OkOutputIsComplete`, `OkLogIsComplete`, `ReturnedChildIsReaped`, `WaitEnds`, `KilledRunReturns`, `TypeOK` |
| `control_plane` | 2 stress runs, 3 projects with a task each, 3 commands, 2 interactive lanes | 214 k | `StressCardsAreTrue`, `AtMostOneUnfinished`, `DependenciesBeforeLanes`, `ReservationsWithinLimits`, `TypedIsLogged`, `CardsAreClean`, `ImplementsBoard`, `TypeOK`; the assumptions of `AdapterChecks` and `TaskChecks` |
| `agent_run_bounded` | an agent, prompt larger than the pipe, no helper | - | violates `RunIsBounded`: the agent leaves its prompt unread |
| `hermes_second_lane` | 2 runs, 1 task, 1 `run-dashboard-card` | - | violates `OneLaneAtATime` |

**Bounds.** `MaxClaims = 2` and `MaxCreates = 2` allow the second claim and the overwriting creation
that the properties are about; a third differs from the second in nothing but the count. Two
processes are enough for a lost update, one task because no operation touches two. `LiveRun` is
finite, and its three budgets are all a brief may give (larger values are clamped, and the proofs
cover them). Its files are source, a lockfile, one file that each of the two screens alone refuses,
and HEPA's own bookkeeping, so that every list of them is told apart by some gate; its situations use
each source of reviews at least once with an answer that approves, objects or cannot be read, a
manager that decides and one that does not, and each kind of text the publisher refuses. In `hermes_run` concurrency one makes batches, and with a dependency a
run sees a task become eligible while it claims; `hermes_progress` has a batch of two followed by a
batch of one, and a task blocked by open questions. `MaxOperator`, `MaxKills` and `MaxDashboard`
bound the environment's commands; in `hermes_run` nobody writes a record afresh (`Creating` is empty
and `MaxDashboard` 0), because of which `OneLaneAtATime` and `DependenciesFirst` do not hold
(finding 3), and `hermes_progress` has all three ways of doing so. It has no kill: a killed run has
returned, and `hermes_run` has one. `worktrees` has two runs to contend for a lane and two lanes for prune to
go through one after the other; two failures leave a lane half-allocated and then half-cleaned. After a
failure `LeftLaneIsRecoverable` promises nothing of that lane, because the code does not:
what is shown of it is that no second run gets it and no uncommitted work is destroyed. It
has one janitor: nothing stops two overlapping prunes from both deciding on a lane, and the second
then removes what a run has allocated since, so with two janitors `ImplementsLease`,
`NoWorkDestroyed` and `LiveLaneIsActive` do not hold. `control_plane` scales a stress run down by one: it asks
for two projects and two tasks instead of three and may have two lanes, so that with three tasks the
governor refuses the last; one task may be missing, the second depends on the first, and the second
project's work touches a lockfile. Tasks begin ready; the operator may replace any record by a queued,
ready or blocked one. Two runs are enough for one to be between two steps of the other. Three commands
start both and leave one for the operator, the board or an interactive lane, or one run and two of
these; the proofs, which have no bound, cover more. Of the two
interactive lanes one's id is a prefix of the other's. In `child_process` a prompt and an output larger
than the pipe let every writer block, and four chunks go beyond both limits (capture one chunk
later than log); the proofs cover all sizes. `CHECK_DEADLOCK FALSE` in the other runs: those
systems stop when their commands are used up or their run has returned; `worktrees` checks
deadlock. Symmetry is used over interchangeable processes,
runs and lanes, never together with a liveness property.

**Fairness.** `LiveRun!FairSpec` is weak fairness of the pipeline's next step: the pipeline is one
thread, and the calls it waits for are taken to end. For validation and for a killed worker
`ChildProcess` shows that they do (`WaitEnds`, `KilledRunReturns`); an agent that leaves its prompt
unread or its pipes in other hands is the exception (finding 4), so `RunReturns` and `RunsReturn`
hold of agents that do neither. Artifact failures are not fair. `HermesRun!FairSpec` is weak fairness
of each main thread and of each worker thread; nothing is assumed of commands, operators and kills.
`ChildProcess!FairSpec` is weak fairness of the waiting thread, of each reader thread and of the
clock; the process and its helper owe nothing, so `WaitEnds` names its premise: no helper keeps the
pipes for ever.

## Findings

1. `claim_task_into_lane` is not atomic (`fleet_registry.rs:265`), against `docs/fleet.md:32-33`:
   two processes may both be granted a claim on one record.
2. A run whose rounds are used up asks for `Reviewing -> ReadyForHuman` (`run.rs:856`) or
   `Repairing -> ReadyForHuman` (`run.rs:730`); the lane table refuses both, the run returns an error
   and concludes nothing, against `docs/hermes-kanban.md:127-131`. `Repairing -> Reviewing`
   (`run.rs:782`) is refused as well: the second review is never reached, and `LiveRun` models
   what the code does, not what lies behind the refusal.
3. `run-dashboard-card` overwrites the record of a running task (`fleet.rs:675`), and the task gets a
   second lane, against `docs/hermes-kanban.md:43-45`.
4. The prompt is written to an agent's stdin (`engine.rs:120`) before readers and monitor are started:
   an agent that does not read it keeps its run waiting for ever, against `docs/adapters.md:137-141`.
   The run of it has no helpers (`Helpers = FALSE`), so that the unread prompt is all it can show. The
   promise is broken in a second place: once an agent has exited, the end of its output is waited for
   without a timeout (`engine.rs:470`), and a process it left behind with its pipes keeps its run
   waiting for ever. `RunIsBounded` with `Helpers = TRUE` and `PromptSize = 0` gives that trace (1,699
   states), and `WaitEnds` names it as its exception.

## Proofs

TLAPS proves, for every value of the constants that meets the named assumptions:

* `FleetRegistry_proofs` - `TypeCorrect`; with any number of processes `RunningTaskHoldsLaneAlways`
  (invariant `LaneInv`: the record on disk *and every record some process is about to write* has
  its lane if it runs; without the second part a stale write would break the induction),
  `LaneWasGrantedAlways` (`GrantInv`: a lane in a pending write is granted already, unless the
  write is the claim itself) and `EmptyFileHasWriterAlways`. With one process (`OneProcess`, an
  assumption of the theorem, not of the module) `NeverDoubleClaimedAlone`
  (`SerialInv`: the file of an open edit is as it was when it was tested, and the claims of a record
  are counted against its creations by whether it holds a lane), and `RegistryImplementsLedger`, the
  refinement: every step is a ledger step or leaves the ledger unchanged.
* `LiveRun_proofs` - `ReviewsAreOutcomes` (whoever gives the signals and decides on the findings, a
  review that allows staging is approved by every adapter, with nothing left for a manager);
  `TypeCorrect` and `RoundsWithinBudgetAlways` for every set of positive budgets
  (`BudgetInv` ties the launches made to the place in the pipeline and the attempt count);
  `PublishedWorkIsVettedAlways` (`VettedInv`: `approved` is set by the review alone and git is empty
  before the manager's steps, so no place in the pipeline can reach them another way);
  `ReturnedRunIsConcludedAlways` (`ConcludedInv`: what each of the last places has written already)
  and the action property `BlockedWorkIsKeptAlways` (`NoEarlyTree`: there is no worktree before it is
  allocated, so allocation cleans none; every other step is inspected). `RunGetsOn` is the part of
  termination that needs no fairness: a step of the pipeline always brings it nearer to its end by
  `StepsLeft`, which is at most 35 for any budget, so the repair loop cannot turn in circles. That a
  step is taken at all is the rest of `RunReturns` and stays with TLC.
* `Worktrees_proofs` - `TypeCorrect`; for any lanes and runs and one janitor (`OneJanitor`, an
  assumption of the theorems) `LiveLaneIsActiveAlways`, `NoWorkDestroyedAlways` and the refinement
  `WorktreesImplementLease`. They rest on `LaneInv`: a lane in the hands of a run has the branch,
  tree and metadata that this run has made so far, and a janitor is only at lanes that no run holds.
  It is inductive because the branch exists as long as the janitor is at the lane, so that no run can
  take it; a second janitor deletes that branch, and the first goes on with what it decided.
  `LeftLaneIsRecoverableAlways` adds `RecoverInv`: while no call has failed, a lane in nobody's hands
  is recoverable, and a janitor at a lane finds the metadata that each of its steps needs.

* `ChildProcess_proofs` - `TypeCorrect`, `ReturnedChildIsReapedAlways`, `OkOutputIsCompleteAlways` and
  `OkLogIsCompleteAlways`, for every pipe size, prompt, output and limit (`SizesAreNat`: the log's limit
  does not exceed the capture's). `WaitInv` says what the waiting thread knows at each place: from the
  end of its loop on the child is reaped. `OutputInv` follows the chunks: what was written is in the
  pipe or was read (`ChunksInv`), a reader's log is that of its capture but for the chunk in its hands,
  and a reader that is done has left nothing and nobody to write (`ReaderInv`); what was received from
  it is therefore everything (`ReceivedInv`). Without the last part of `ReaderInv` a helper could add
  output after the reader's end, and completeness would not be inductive.

* `HermesRun_proofs` - for any tasks, dependencies, runs, lanes and bounds `TypeCorrect`,
  `ConcurrencyIsBoundedAlways` and `CompletedCardHasPrAlways`. `ClaimInv` says where each claimed task
  of a run is: still to be carded, in the list to be launched, or with a thread, and in one of these
  places only; without it a batch could be launched twice. `BatchesAreBounded` counts a batch while it is
  launched. As long as nobody writes a record afresh (`NobodyWritesAfresh`: no `run-dashboard-card`,
  `task create` or repeated `ingest-spec`; an assumption of the theorems) `OneLaneAtATimeAlways`, `WorkIsClaimedAlways`, `DependenciesFirstAlways`, `OkRunIsDoneAlways` and
  `RunningTaskHasRunAlways`, from `GrantInv`: a record's lane was given by one claim of one run and
  stays, so two runs that have both claimed a task are the same run, and its dependencies stay completed.
  A record written afresh has a second life without its lane, which is finding 3 and why the
  assumption is needed. `RunsGetOn` is for runs what `RunGetsOn` is for a lane: with finitely many tasks
  every step of a main thread brings its run nearer the end, every step of a worker thread its thread,
  and nothing that other runs or the operator do sets either back; a run has `6 * limit + 6` steps at first.
* `ControlPlane_proofs` - for any projects, tasks, dependencies, limits, stress runs, commands and
  interactive lanes: `StressCardsAreTrueAlways` (`CardInv`: between claim and card a run's task is
  recorded in its lane and stays there unless it is replaced, only one run is on a worktree, and none is on one whose lane
  has a card; the worktree is what keeps a second run out, not the claim),
  `AtMostOneUnfinishedAlways` (`ReservationsAreInOrder`: what a run has reserved is of an earlier
  project and has its card, or is of the present one), `ReservationsWithinLimitsAlways` (each yes of
  governor and planner keeps caps and disjointness), `DependenciesBeforeLanesAlways`,
  `TypedIsLoggedAlways` and `SessionsHaveWorktreesAlways` (the interactive part stutters when the
  rest moves, so its invariants are its own). `TypeCorrect` and `CardsAreCleanAlways` follow a sync
  task by task: what holds of the board before an entry is synced holds after it, whatever the store
  answers, and redaction leaves no private word (`CleanStore`). `BoardIsImplemented` is the refinement
  of `TaskBoard`: by `BoardInv` the store has at most one card for each id under which a task can be
  looked up, so that a sync updates that card or makes the first. It assumes `BoardIdsDiffer`, that no
  two tasks have the same id after redaction, in which case the code gives them one card (see
  Observations); TLC checks that the instance of `MCControlPlane` meets it. `TickOffersOne` says what
  one tick promises of all records: a claimable task that is the first of its priority, which
  `claim_one` does not make wait for a dependency.
* `Rules_proofs` - for every input:
  - board and fleet: `AcceptedMovesAreLegal`, `BlockedByHandIsQueued`; `ReconciliationIsExclusive`
    (observations with one per lane, as the monitor makes them), `CommandSeesNoDrift`,
    `CleanupTakesEndedLanes` (the directory of a running task's lane is taken exactly when a task that
    ended names the same lane, and nothing is taken that no ended task names);
  - a run: `BriefsAreForTheRun`, `ForcedFailuresFail`, `ToldOnce` (any sequence of notifications),
    `CompletedAttemptsDidSomething`, `LateStaysLate`, `PermitWaitIsBounded`;
  - texts: `RedactionIsDone` (a text of any length, a secret at any distance behind its bearer) and
    `PacksStaySmallAndClean` (`MemoryLimits`: a header fits into its limits);
  - adapters: `LocalOnlyStaysLocal` (routing, a manager's override and the design pipeline),
    `RegistryStaysValid` (a document is what can be read from a registry file, `IsDocument`),
    `ValidTemplatesRender` (registration and rendering agree on templates of any length) and
    `GitIsFoundBehindOptions` (the scan for git's action, over commands of any length);
  - configuration: `LaterSettingsWin` (file, environment and overrides of any content);
  - intake: `SpecsBecomeDrafts` (a specification of any length becomes a draft for each heading, with
    exactly the items below its own headings), from what the importer has when it has read the lines up
    to some point (`HasRead`).

**Induction over data.** Where a rule goes through a text, a list or a command, its result is a
function defined by recursion over positions. `Induction` has the three facts this takes:
`NatSetInduction` (what holds for 0 and passes on holds for all numbers; the numbers are given as a
set), `RunExists` (a function defined by such a recursion exists, without which nothing could be said
of its values) and `RunStays` (its values stay where its steps stay). Scans that start at the end, as
of templates and commands, are turned round: the statement is proved for the last n positions. The
importer's fold over lines is shown to be such a recursion (`LinesAreRead`).

Model-checked only:
* liveness (`RunReturns`, `RunsReturn`, `WaitEnds`, `KilledRunReturns`), and `ENABLED`, on which it
  rests, are out of the prover's reach; `RunGetsOn` and `RunsGetOn` are the part that is not;
* of `AdapterChecks` and `TaskChecks`, what is about tables and texts that are written down in the
  code, where all cases are checked anyhow (`BuiltinsPassTheDoctor`, `InstallComesFirst`,
  `TimingTellsEachPhaseOnce`), and what adds up or filters a sequence, which would take a fold of each
  operator to be unrolled (`TotalsCoverTheirParts`, `IssuesBecomeDrafts`,
  `TemplatesAreWordsAndPlaceholders`).

## Not modelled

* The command line (`main.rs`): arguments and printing. What a command does is modelled with its
  component.
* `perf_budget.rs`, `timing_trends.rs` and `hermes_profiles.rs`, which summarise finished runs for a
  reader; the HTTP and shell channels of notifications; probing and printing of the doctor.
* The file system beyond the effects named above: a lost directory entry, a full disk in the middle of
  an append, two processes that write one memory pack (the later one wins; no lock).
* The Pi generation permit is modelled as the wait one process may have (`PermitWaitIsBounded`), not
  as processes that compete for it.
* A worker that outlives its killed run, and heartbeats of interactive sessions.
* Liveness of stress runs, interactive lanes and the board: a stress run is a straight line of steps
  that each end or fail, and nothing waits for anything.

## Observations

While the modules were written the following behaviour was met. It contradicts no documented promise
that a run here refutes, or only in a detail; it is recorded for whoever changes this code.

*Registry, scheduler, board.*
- `tick` offers a resumed task that still names its old lane; `claim_one` then gets a registry error,
  not a reason to wait.
- A stress run never gives its worktrees back, so a second one on the same workspace fails at `allocate`.
- A task that gets an external id after it was synced without one is given a second card; two task ids
  that are both redacted to the same text share one (`TypeOK` and `ImplementsBoard` use ids that are
  neither).
- `reconcile` only reports; nothing repairs (`docs/fleet.md` says it is repaired). `hepa fleet` derives
  what it observes from the task's own status, so it sees no drift (`CommandSeesNoDrift`).
- `cleanup_runtime` takes the directory of a running task's lane if a task that ended names the same
  lane (`CleanupTakesEndedLanes`). The lanes of stress runs are named for the project
  (`fleet.rs:1915`), so two tasks of a project can name one.
- `task create`, `ingest-spec` and `run-dashboard-card` replace a completed record without a word: a card
  that says its lane is done is then false, and a dependency of a task in a lane is open again.
- A notification that failed is never tried again, because it counts as sent.
- In an imported specification a `Project:` line in the middle re-homes the tasks above it too.

*Live run.*
- The texts of commit and pull request are cut at a byte (`run.rs:4480`, `run.rs:4507`): a character that
  lies across it ends the process with a panic.
- A pull request intent's task and lane are not compared with the run's; its author is.
- An adapter reviewer that approves and leaves an accepted release-risk finding of high severity does not
  block; an approval that is missing blocks whatever a manager says; an adapter that is listed twice
  counts twice.
- Files changed by a repair are not screened again for live-secret paths, only for what staging refuses;
  the two lists differ. After package manager churn is discarded the list is made anew from the tree.
- `collect_live_diff` omits untracked files from what reviewers read.
- A review that asks for changes and gives no evidence goes on to an illegal `ReadyForHuman`, an error.

*Adapters, records.*
- Routing looks at neither roles nor capabilities; a capability with blanks around it is routed and then
  refused by the design pipeline. A cloud provider of Pi without a known key variable counts as local.
- Rendering, and with it the validation that uses it, accepts a stray `}` before a placeholder.
- A malformed usage line fails an attempt that worked, without a report; the sums of usage are unchecked.
- The poll of an external worker may read the report of an earlier run and does not compare its lane.
- A memory pack beyond its bytes loses the end of the text, which is the newest entry, though its
  documentation says that older ones are dropped (`hepa-memory/src/lib.rs:19-20`).
- A lane or task id that contains "token" or "secret" makes its cost report invalid.
