----------------------------- MODULE CardMapping -----------------------------
(***************************************************************************)
(* crates/hepa-kanban/src/card_mapping.rs: the card a task is shown as.    *)
(*                                                                         *)
(* A text is the set of the words it is made of, and a word is one of a    *)
(* few kinds: what redaction tells apart.  {} is a text that is empty or   *)
(* blank.  Wording and the order of words are left out.                    *)
(***************************************************************************)
EXTENDS Sequences, FiniteSets

\* The fields of f, and those of g that f does not have.
f ++ g == [name \in DOMAIN f \cup DOMAIN g |-> IF name \in DOMAIN f THEN f[name] ELSE g[name]]

\* What redact_private_paths, contains_email_like and contains_secret_like
\* look for; a word may be a private path that names a secret file too.
PrivateWord == {"path", "secret_path", "email", "secret"}

\* The placeholders redaction leaves; the last one is a text of its own and
\* contains the word "secret" itself.
Placeholder == {"<PRIVATE_PATH>", "<EMAIL>", "<REDACTED_SECRET_LIKE_VALUE>"}

RedactedPaths(text) ==
    { IF word \in {"path", "secret_path"} THEN "<PRIVATE_PATH>" ELSE word : word \in text }

RedactedEmails(text) ==
    { IF word = "email" THEN "<EMAIL>" ELSE word : word \in text }

ContainsSecret(text) ==
    text \cap {"secret", "<REDACTED_SECRET_LIKE_VALUE>"} # {}

\* Paths first, then addresses, and a text that still names a secret is
\* replaced as a whole.
Redacted(text) ==
    LET masked == RedactedEmails(RedactedPaths(text))
    IN  IF ContainsSecret(masked) THEN {"<REDACTED_SECRET_LIKE_VALUE>"} ELSE masked

-----------------------------------------------------------------------------
(* The input: a task with its project, its specification, its lanes and    *)
(* the records of its run.  An absent part is {}, a present one {part}.    *)

\* Lane and steering records must be about the lanes the task lists.
InputAgrees(in) ==
    /\ in.project = in.task.project
    /\ in.project = in.spec.project
    /\ in.task.id = in.spec.id
    /\ \A lane \in in.lanes : lane.task = in.task.id /\ lane.id \in in.task.lanes
    /\ \A record \in in.steering : record.lane \in in.task.lanes

\* lane_attach_commands: one per lane the task lists or is given.
AttachCommands(in) == in.task.lanes \cup {lane.id : lane \in in.lanes}

RepairRounds(timing) == {phase \in timing.phases : phase.repair}

\* The counters come from the timing record of the input or, without one,
\* from the terminal report's.
TimingOf(in) ==
    IF in.timing # {} THEN in.timing
    ELSE UNION {report.timing : report \in in.report}

BaseFields(in) ==
    [ project_id          |-> {in.projectText},
      project_name        |-> {in.projectName},
      task_id             |-> {in.task.idText},
      task_status         |-> {{in.task.status}},
      readiness_state     |-> {{in.task.readiness}},
      dependencies        |-> in.task.dependencies,
      lane_ids            |-> {{lane} : lane \in in.task.lanes},
      lane_states         |-> {{lane.id, lane.state} : lane \in in.lanes},
      acceptance_criteria |-> in.spec.acceptance,
      validation_commands |-> in.spec.validation,
      risk_level          |-> {{in.spec.risk}} ]

LaneFields(in) ==
    IF AttachCommands(in) = {} THEN <<>>
    ELSE [ lane_attach_commands |-> {{lane} : lane \in AttachCommands(in)},
           fleet_watch_command  |-> {{"hepa fleet watch"}} ]

ExternalCardField(in) ==
    IF in.task.externalCard = {} THEN <<>>
    ELSE [external_card_id |-> in.task.externalCard]

ValidationFields(in) ==
    IF in.validation = {} THEN <<>>
    ELSE [validation_status |-> {{v.status} : v \in in.validation}]

\* A terminal report names its pull request and its arbitration if it has
\* them, and always its status.
ReportFields(in) ==
    IF in.report = {} THEN <<>>
    ELSE LET report == CHOOSE r \in in.report : TRUE
         IN  [terminal_status |-> {{report.status}}]
             ++ (IF report.prUrl = {} THEN <<>> ELSE [pr_url |-> report.prUrl])
             ++ (IF report.arbitration = {} THEN <<>>
                 ELSE [ arbitration_status      |-> {{a.status} : a \in report.arbitration},
                        arbitration_card_status |-> {{a.cardStatus} : a \in report.arbitration} ])

TimingFields(in) ==
    IF TimingOf(in) = {} THEN <<>>
    ELSE LET timing == CHOOSE t \in TimingOf(in) : TRUE
         IN  [ sandbox_postures |-> {{phase.posture} : phase \in timing.phases},
               repair_rounds    |-> {{phase.round, phase.status} : phase \in RepairRounds(timing)} ]

\* The fields of a card as lists of texts (a text field has one).
Fields(in) ==
    BaseFields(in) ++ LaneFields(in) ++ ExternalCardField(in)
    ++ ValidationFields(in) ++ ReportFields(in) ++ TimingFields(in)

\* Counters are numbers and are not redacted.
NumberFields(in) ==
    [priority |-> in.task.priority, max_total_rounds |-> in.spec.maxRounds]
    ++ (IF TimingOf(in) = {} THEN <<>>
        ELSE LET timing == CHOOSE t \in TimingOf(in) : TRUE
             IN  [ agent_loops        |-> timing.agentLoops,
                   repair_round_count |-> Cardinality(RepairRounds(timing)) ])

\* The comments; their order is left out.
Comments(in) ==
    LET comments(kind, texts) == {[kind |-> kind, body |-> text] : text \in texts}
    IN  comments("TaskSpec", {in.spec.goal})
        \cup comments("Readiness", in.readinessText)
        \cup comments("Validation", {v.summary : v \in in.validation})
        \cup comments("Review", {r.summary : r \in in.reviews})
        \cup comments("Arbitration", UNION {{a.cardText : a \in r.arbitration} : r \in in.report})
        \cup comments("Timing", {t.runText : t \in in.timing})
        \cup comments("TerminalReport", {r.summary : r \in in.report})
        \cup comments("Steering", {r.message : r \in in.steering})
        \cup comments("BlockedQuestion", in.questions)

\* Mutant of RedactedCard: comments are passed on as they are.
RedactedFields(card) ==
    [ title    |-> Redacted(card.title),
      numbers  |-> card.numbers,
      fields   |-> [name \in DOMAIN card.fields |-> {Redacted(text) : text \in card.fields[name]}],
      comments |-> card.comments ]

RedactedCard(card) ==
    [ title    |-> Redacted(card.title),
      numbers  |-> card.numbers,
      fields   |-> [name \in DOMAIN card.fields |-> {Redacted(text) : text \in card.fields[name]}],
      comments |-> {[kind |-> c.kind, body |-> Redacted(c.body)] : c \in card.comments} ]

\* payload.validate: the title, every text of every field and every comment
\* has to say something.
CardIsValid(card) ==
    /\ card.title # {}
    /\ \A name \in DOMAIN card.fields : {} \notin card.fields[name]
    /\ \A comment \in card.comments : comment.body # {}

MappedCard(in) ==
    RedactedCard([ title    |-> in.title,
                   numbers  |-> NumberFields(in),
                   fields   |-> Fields(in),
                   comments |-> Comments(in) ])

\* map_task_to_hermes_card: the card, or none when the input disagrees with
\* itself or a text is blank.
CardsOf(in) ==
    IF InputAgrees(in) /\ CardIsValid(MappedCard(in)) THEN {MappedCard(in)} ELSE {}

\* The words of a card a reader of the board sees.
VisibleWords(card) ==
    card.title
    \cup (UNION {UNION card.fields[name] : name \in DOMAIN card.fields})
    \cup (UNION {comment.body : comment \in card.comments})
=============================================================================
