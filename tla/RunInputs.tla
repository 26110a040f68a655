------------------------------- MODULE RunInputs -------------------------------
(***************************************************************************)
(* What a live run works from (hepa-cli/src/run.rs): the brief a Hermes    *)
(* worker gives it, the task specification made of it, the validation      *)
(* commands of the specification and their verdict, and the dependencies   *)
(* lent to the worktree.                                                   *)
(*                                                                         *)
(* A source that is not there is {}.  A file is {} or {brief}, a brief     *)
(* [valid, task, lane, areas, promptAreas, acceptance, validation,         *)
(* rounds], a command [exit, writes], where writes is a file.              *)
(***************************************************************************)
EXTENDS Naturals, Sequences

\* hermes_run_brief_from_file and the comparison behind it: a brief that can be
\* read, validates, and is for this task and this lane.
Fitting(file, run) ==
    {brief \in file : brief.valid /\ brief.task = run.task /\ brief.lane = run.lane}

\* run_hermes_profile_runtime_command: whether the file is there is all that
\* is looked at, so one that an earlier command left will do.
AfterCommand(command, file) == IF command.writes = {} THEN file ELSE command.writes
CommandSucceeds(command, file) == command.exit = 0 /\ AfterCommand(command, file) # {}

None    == [result |-> "none", brief |-> {}]
Use(b)  == IF b = {} THEN [result |-> "error", brief |-> {}] ELSE [result |-> "brief", brief |-> b]

\* live_run_brief: the command, the file the run finds in its own directory,
\* the file the environment names.  The first there is decides.
RunBrief(run, env, default) ==
    IF \E command \in env.command : ~CommandSucceeds(command, default) THEN Use({})
    ELSE IF env.command # {}
    THEN Use(UNION {Fitting(AfterCommand(command, default), run) : command \in env.command})
    ELSE IF default # {} THEN Use(Fitting(default, run))
    ELSE IF env.named THEN Use(Fitting(env.file, run))
    ELSE IF env.required THEN Use({}) ELSE None

\* What the directory holds when the run has its brief.
DefaultBriefAfter(env, default) ==
    IF env.command = {} THEN default
    ELSE UNION {AfterCommand(command, default) : command \in env.command}
-----------------------------------------------------------------------------
(* The task specification.                                                 *)

KnownCommand ==
    << "pnpm install", "pnpm format:check", "yarn install", "yarn test", "yarn test:e2e",
       "yarn build", "vitest login", "pnpm api-gateway test", "pnpm services test",
       "git diff --check" >>

\* live_validation_commands: those of the known commands the text names, in
\* their order here; yarn's builds do not go without its install.
ValidationCommands(text) ==
    LET named == SelectSeq(KnownCommand, LAMBDA command : command \in text.commands)
        builds == text.commands \cap {"yarn test:e2e", "yarn build"}
    IN  CASE text.namesLoginTest -> <<"vitest login">>
          [] ~text.namesLoginTest ->
               IF named # <<>>
               THEN IF builds # {} /\ "yarn install" \notin text.commands
                    THEN <<"yarn install">> \o named ELSE named
               ELSE IF text.saysNoTests THEN <<>> ELSE <<"git diff --check">>

\* expected_areas_from_task: the files the text names, or a placeholder.
ExpectedAreas(areas) == IF areas = {} THEN {"task-relevant files"} ELSE areas

\* live_task_spec and live_task_spec_from_hermes_brief
TaskSpec(run, brief) ==
    IF brief = {}
    THEN [ task |-> run.task, areas |-> ExpectedAreas(run.text.areas),
           validation |-> ValidationCommands(run.text), acceptance |-> {"standard"},
           rounds |-> 3 ]
    ELSE LET given == CHOOSE b \in brief : TRUE
         IN  [ task |-> run.task,
               areas |-> IF given.areas = {} THEN ExpectedAreas(given.promptAreas) ELSE given.areas,
               validation |-> given.validation, acceptance |-> given.acceptance,
               rounds |-> given.rounds ]
-----------------------------------------------------------------------------
(* Manager-owned validation.                                               *)

\* safe_validation_argv: the forms that are run at all.  A command is [form,
\* tokens]; plain forms take no token, the others one kind of them.
PlainForm == {"git diff --check", "yarn install", "yarn script", "pnpm install", "pnpm format:check"}
FileForm  == {"yarn test", "bun test"}
OneForm   == {"vitest", "tsc"}

Safe(tokens) == \A i \in DOMAIN tokens : tokens[i] = "safe"

IsSafeCommand(command) ==
    \/ command.form \in PlainForm /\ command.tokens = <<>>
    \/ command.form \in FileForm /\ command.tokens # <<>> /\ Safe(command.tokens)
    \/ command.form \in OneForm /\ Len(command.tokens) = 1 /\ Safe(command.tokens)
    \/ command.form = "pnpm filter" /\ command.package = "safe" /\ Safe(command.tokens)

\* run_live_validation of commands with the exit each would have: every command
\* is run, whatever the one before it came to.  255 stands for the -1 of one
\* that is refused or cannot be launched.
ExitOf(command) == IF IsSafeCommand(command) /\ command.launches THEN command.exit ELSE 255

LiveValidation(commands) ==
    [ commands |-> [i \in DOMAIN commands |-> ExitOf(commands[i])],
      status   |-> IF commands = <<>> THEN "NoTestsDetected"
                   ELSE IF \A i \in DOMAIN commands : ExitOf(commands[i]) = 0
                   THEN "Passed" ELSE "Failed" ]

\* force_validation_failure_for_repair_stress: the first command that passed
\* is told to have failed; a validation without commands gets one.
ForcedFailure(validation) ==
    LET exits  == validation.commands
        passed == {i \in DOMAIN exits : exits[i] = 0}
    IN  [ commands |-> IF exits = <<>> THEN <<1>>
                       ELSE [i \in DOMAIN exits |->
                               IF i \in passed /\ \A j \in passed : i <= j THEN 1 ELSE exits[i]],
          status   |-> "Failed" ]

\* FirstValidation of run_live_task
FirstVerdict(commands, forced) ==
    IF forced THEN ForcedFailure(LiveValidation(commands)) ELSE LiveValidation(commands)

\* blocked_worker_validation_summary: what stands in for a validation that
\* was not reached.
SkippedValidation == [commands |-> <<>>, status |-> "Skipped"]
-----------------------------------------------------------------------------
(* Lent dependencies.                                                      *)

\* prepare_live_worktree_dependency_reuse: what becomes of the worktree's
\* node_modules.  A directory is kept if it has programs in it.  A link whose
\* target is gone counts as nothing being there, and then is in the way.
NodeModules == {"none", "link", "usable", "stale", "dangling"}

DependencyReuse(source, destination) ==
    CASE source = "none" -> destination
      [] source # "none" ->
           CASE destination \in {"none", "stale"} -> "link"
             [] destination \in {"link", "usable"} -> destination
             [] destination = "dangling" -> "error"
=============================================================================
