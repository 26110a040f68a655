------------------------------ MODULE TaskIntake ------------------------------
(***************************************************************************)
(* Where tasks come from: markdown specifications and manager intake       *)
(* (crates/hepa-kanban/src/spec_import.rs), GitHub issue webhooks          *)
(* (github_webhook.rs) and the commands of main.rs that call them.         *)
(*                                                                         *)
(* A specification is the sequence of its lines that are not blank, each   *)
(* already recognised: a "project" line with its id, a "task" heading with *)
(* id and title, the heading of a "section", or an "item" with its text.   *)
(***************************************************************************)
EXTENDS Naturals, Sequences, FiniteSets, SequencesExt

CONSTANT DefaultProject

Section == {"Description", "Acceptance", "Validation", "Dependencies", "Questions"}

\* TaskBuilder::new.
NewDraft(id, title) ==
    [ id |-> id, title |-> title, Description |-> <<>>, Acceptance |-> <<>>,
      Validation |-> <<>>, Dependencies |-> <<>>, Questions |-> <<>> ]

\* A draft becomes a task only if it says what would be accepted, or asks.
CanFinish(draft) == draft.Acceptance # <<>> \/ draft.Questions # <<>>

\* TaskBuilder::finish: always a draft, blocked while it has questions.
Finished(draft, project) ==
    [ id           |-> draft.id,
      project      |-> project,
      title        |-> draft.title,
      status       |-> "Draft",
      readiness    |-> IF draft.Questions = <<>> THEN "NotReady" ELSE "Blocked",
      dependencies |-> draft.Dependencies,
      acceptance   |-> draft.Acceptance,
      validation   |-> draft.Validation,
      questions    |-> draft.Questions,
      priority     |-> 0,
      maxRounds    |-> 3 ]

\* The importer between two lines.
StartOfSpec ==
    [ok |-> TRUE, project |-> DefaultProject, tasks |-> <<>>, current |-> {},
     section |-> "Description"]

\* The draft being read is finished under the project named last.
CloseDraft(reader) ==
    IF reader.current = {} THEN reader
    ELSE LET draft == CHOOSE d \in reader.current : TRUE
         IN  IF CanFinish(draft)
             THEN [reader EXCEPT !.tasks = Append(@, Finished(draft, reader.project)),
                                 !.current = {}]
             ELSE [reader EXCEPT !.ok = FALSE]

\* One line.  Text before the first heading is passed over.
ReadLine(reader, line) ==
    CASE ~reader.ok -> reader
      [] reader.ok /\ line.kind = "project" ->
             IF line.value = "" THEN [reader EXCEPT !.ok = FALSE]
             ELSE [reader EXCEPT !.project = line.value]
      [] reader.ok /\ line.kind = "task" ->
             LET closed == CloseDraft(reader)
             IN  IF closed.ok /\ line.id # "" /\ line.title # ""
                 THEN [closed EXCEPT !.current = {NewDraft(line.id, line.title)},
                                     !.section = "Description"]
                 ELSE [closed EXCEPT !.ok = FALSE]
      [] reader.ok /\ line.kind = "section" -> [reader EXCEPT !.section = line.section]
      [] reader.ok /\ line.kind = "item" ->
             [reader EXCEPT !.current =
                 {[draft EXCEPT ![reader.section] = Append(@, line.text)] : draft \in @}]

\* import_markdown_spec: the tasks of the file, or none of them.
ImportedSpec(lines) ==
    LET read == CloseDraft(FoldLeft(ReadLine, StartOfSpec, lines))
    IN  IF read.ok /\ read.tasks # <<>>
        THEN [ok |-> TRUE, project |-> read.project, tasks |-> read.tasks]
        ELSE [ok |-> FALSE, project |-> read.project, tasks |-> <<>>]

\* import_hermes_manager_intake: a validated artifact's tasks, as drafts.
ImportedIntake(artifact) ==
    IF ~artifact.valid THEN [ok |-> FALSE, project |-> artifact.project, tasks |-> <<>>]
    ELSE [ ok      |-> TRUE,
           project |-> artifact.project,
           tasks   |-> [ i \in DOMAIN artifact.tasks |->
                           [ artifact.tasks[i] EXCEPT
                               !.status    = "Draft",
                               !.readiness = IF artifact.tasks[i].questions = <<>>
                                             THEN "NotReady" ELSE "Blocked" ] ] ]

\* imported_spec_to_draft_cards maps every task or fails: each must be a
\* task of the project the cards are for.
DraftCardsPossible(project, imported) ==
    /\ project = imported.project
    /\ \A i \in DOMAIN imported.tasks : imported.tasks[i].project = project

\* The command `hepa spec import`: runtime command, artifact file or the
\* specification itself, in this order of preference.  Only the first two
\* are also rendered as cards, and neither stores anything.
SpecImport(options, lines, artifact) ==
    IF options \cap {"intake", "intake_command"} # {}
    THEN LET imported == ImportedIntake(artifact)
         IN  [ ok    |-> imported.ok /\ DraftCardsPossible(artifact.project, imported),
               tasks |-> Len(imported.tasks) ]
    ELSE LET imported == ImportedSpec(lines)
         IN  [ok |-> imported.ok, tasks |-> Len(imported.tasks)]

-----------------------------------------------------------------------------
(* GitHub issues.                                                          *)

SupportedIssueAction == {"opened", "edited", "reopened", "labeled", "unlabeled"}

\* verify_signature: nothing is asked for without a secret.
SignatureAccepted(request) ==
    request.hasSecret => request.signature = "valid"

\* Every part the importer answers an error for is looked at before the
\* payload is interpreted.
RequestReadable(request, payload) ==
    /\ request.fieldsArePlain
    /\ SignatureAccepted(request)
    /\ payload.parses

\* Why a readable delivery creates no task; {} when it does.
IgnoredFor(request, payload) ==
    IF request.event # "issues" THEN {"event"}
    ELSE IF payload.action \notin SupportedIssueAction THEN {"action"}
    ELSE IF payload.isPullRequest THEN {"pull_request"}
    ELSE {}

\* parse_issue_sections keeps the items below each section's heading; text
\* outside them only shows in the goal.
SectionItems(body, section) ==
    LET step(acc, line) ==
            IF line.kind = "section" THEN [acc EXCEPT !.section = line.section]
            ELSE IF line.kind = "item" /\ acc.section = section
                 THEN [acc EXCEPT !.items = Append(@, line.text)] ELSE acc
    IN  FoldLeft(step, [section |-> "Description", items |-> <<>>], body).items

\* Labels set the risk and the priority (the largest one given) and nothing
\* else: no label makes a task ready.
RiskOfLabels(labels) ==
    IF "high" \in labels.risks THEN "High"
    ELSE IF "medium" \in labels.risks THEN "Medium" ELSE "Low"

PriorityOfLabels(labels) ==
    IF labels.priorities = {} THEN 0
    ELSE CHOOSE p \in labels.priorities : \A q \in labels.priorities : q <= p

\* An issue without acceptance criteria gets the standard question, in place
\* of the questions it asks itself.
IssueQuestions(body) ==
    IF SectionItems(body, "Acceptance") = <<>> THEN <<"acceptance criteria?">>
    ELSE SectionItems(body, "Questions")

\* issue_payload_to_imported_spec.
IssueTask(request, payload) ==
    [ id           |-> payload.number,
      project      |-> request.project,
      title        |-> payload.title,
      status       |-> "Draft",
      readiness    |-> IF IssueQuestions(payload.body) = <<>> THEN "NotReady" ELSE "Blocked",
      dependencies |-> SectionItems(payload.body, "Dependencies"),
      acceptance   |-> SectionItems(payload.body, "Acceptance"),
      validation   |-> SectionItems(payload.body, "Validation"),
      questions    |-> IssueQuestions(payload.body),
      risk         |-> RiskOfLabels(payload.labels),
      priority     |-> PriorityOfLabels(payload.labels),
      maxRounds    |-> 1 ]

\* import_github_issue_webhook; a task that does not validate (no title) is
\* an error.
WebhookOutcome(request, payload) ==
    CASE ~RequestReadable(request, payload) -> [result |-> "error", tasks |-> <<>>]
      [] RequestReadable(request, payload) /\ IgnoredFor(request, payload) # {} ->
             [result |-> "ignored", tasks |-> <<>>]
      [] OTHER ->
             IF payload.title = "" THEN [result |-> "error", tasks |-> <<>>]
             ELSE [result |-> "imported", tasks |-> <<IssueTask(request, payload)>>]

\* The command `hepa github issue-webhook`: --project and --delivery are
\* required, and a secret that is asked for has to be in the environment.
IssueWebhook(options, request, payload) ==
    IF {"project", "delivery"} \subseteq options /\ ("secret_env" \in options => request.hasSecret)
    THEN WebhookOutcome(request, payload)
    ELSE [result |-> "error", tasks |-> <<>>]
=============================================================================
