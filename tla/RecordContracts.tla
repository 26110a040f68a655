--------------------------- MODULE RecordContracts ---------------------------
(***************************************************************************)
(* crates/hepa-core/src/contracts.rs: what a record must satisfy to be     *)
(* written or believed (HepaValidate).  The artifacts of the Hermes        *)
(* profiles come from other programs and are believed on these grounds     *)
(* alone.                                                                  *)
(*                                                                         *)
(* A text is the set of the kinds of things it says; only what a rule      *)
(* looks for is told apart.  {} and a text of line breaks only say nothing.*)
(* An optional part is {} or {part}.  Schema versions, which every record  *)
(* carries and every rule checks, are left out.                            *)
(***************************************************************************)
EXTENDS Integers, Sequences, FiniteSets, Functions

IsNonEmpty(text)   == text \ {"newline"} # {}
IsSingleLine(text) == IsNonEmpty(text) /\ "newline" \notin text
AreLines(texts)    == \A text \in texts : IsSingleLine(text)

\* reject_secret_like_ref: ".env", "credential", "token", ...
IsSecretLike(text) == "secret" \in text

\* reject_private_context_text: home directories, raw keys
IsPrivate(text) == "private" \in text

\* require_dependency_links: no self reference, nothing twice.
DependenciesAreLinks(owner, dependencies) ==
    /\ AreLines(Range(dependencies))
    /\ owner \notin Range(dependencies)
    /\ IsInjective(dependencies)

-----------------------------------------------------------------------------
ProjectIsValid(project) ==
    /\ AreLines({project.project_id, project.repo_ref, project.default_branch}
                \cup project.routing_policy_ref)
    /\ IsNonEmpty(project.display_name)
    /\ \A ref \in {project.repo_ref} \cup project.routing_policy_ref : ~IsSecretLike(ref)

TaskSpecIsValid(spec) ==
    /\ AreLines({spec.task_id, spec.project_id} \cup spec.target_branch)
    /\ IsNonEmpty(spec.goal)
    /\ AreLines(spec.non_goals \cup spec.expected_areas
                \cup spec.acceptance_criteria \cup spec.validation_commands)
    /\ DependenciesAreLinks(spec.task_id, spec.dependencies)
    /\ spec.max_total_rounds > 0

\* A lane that is through must say when it was.
LaneIsValid(lane) ==
    /\ AreLines({lane.lane_id, lane.project_id, lane.task_id, lane.adapter_id,
                 lane.worktree_ref, lane.branch, lane.run_dir_ref})
    /\ \A ref \in {lane.worktree_ref, lane.run_dir_ref} : ~IsSecretLike(ref)
    /\ lane.state \in {"Completed", "Cleaned"} => lane.completed_at # {}

SteeringIsValidRecord(record) ==
    /\ AreLines({record.lane_id, record.session_id})
    /\ IsNonEmpty(record.message)
    /\ ~IsSecretLike(record.message)

\* A failed attempt must say why.
AttemptIsValid(attempt) ==
    /\ AreLines({attempt.attempt_id, attempt.lane_id, attempt.task_id, attempt.adapter_id}
                \cup attempt.commands_run \cup attempt.changed_files)
    /\ \A file \in attempt.changed_files : ~IsSecretLike(file)
    /\ attempt.status \in {"Blocked", "Failed"} => attempt.blocked_reason # {}

ValidationIsValid(validation) ==
    /\ AreLines({command.command : command \in validation.commands})
    /\ validation.status = "NoTestsDetected" => validation.no_tests_detected

-----------------------------------------------------------------------------
(* Reviews and their arbitration.                                          *)

FindingTextIsValid(finding) ==
    /\ AreLines({finding.finding_id} \cup finding.file_ref)
    /\ \A text \in {finding.category, finding.evidence, finding.recommended_action,
                    finding.message} : IsNonEmpty(text)
    /\ \A ref \in finding.file_ref : ~IsSecretLike(ref)

SignalTextIsValid(signal) ==
    /\ AreLines({signal.review_id, signal.lane_id, signal.adapter_id})
    /\ \A finding \in signal.findings : FindingTextIsValid(finding)

RecordTextIsValid(record) ==
    /\ AreLines({record.finding_id, record.disposition} \cup record.rule_id)
    /\ IsNonEmpty(record.reason)

SummaryTextIsValid(summary) ==
    /\ AreLines({summary.status, summary.card_status} \cup summary.pr_body_lines)
    /\ \A record \in summary.records : RecordTextIsValid(record)

-----------------------------------------------------------------------------
(* The records of a run.                                                   *)

\* Whoever is not ready must know what is missing.
ReadinessIsValid(readiness) ==
    /\ AreLines({readiness.task_id} \cup readiness.blockers \cup readiness.questions)
    /\ readiness.status \in {"NeedsClarification", "Blocked"} =>
          readiness.blockers \cup readiness.questions # {}

PhaseIsValid(phase) ==
    /\ AreLines({phase.name} \cup phase.adapter_id \cup phase.routing_reason
                \cup phase.sandbox_posture)
    /\ phase.duration >= 0

TimingIsValid(timing) ==
    /\ IsSingleLine(timing.run_id)
    /\ \A phase \in timing.phases : PhaseIsValid(phase)

\* A report that ends badly must ask for a human.
TerminalReportIsValid(report) ==
    /\ AreLines({report.task_id, report.lane_id})
    /\ \A validation \in report.validation : ValidationIsValid(validation)
    /\ \A signal \in report.review_signals : SignalTextIsValid(signal)
    /\ \A summary \in report.arbitration : SummaryTextIsValid(summary)
    /\ \A timing \in report.timing : TimingIsValid(timing)
    /\ report.status \in {"Blocked", "Failed"} => report.human_attention_required

-----------------------------------------------------------------------------
(* What the Hermes profiles hand over.                                     *)

\* Rounds a profile may grant.
OneToThree == 1 .. 3

AuthoredBy(artifact, profile) ==
    /\ AreLines({artifact.task_id, artifact.lane_id})
    /\ artifact.author_profile_id = profile

TaskIntakeIsValid(intake, project) ==
    /\ TaskSpecIsValid(intake.task_spec)
    /\ intake.task_spec.project_id = project.project_id
    /\ AreLines({intake.title} \cup intake.blocked_questions)
    /\ intake.task_spec.max_total_rounds \in OneToThree
    /\ intake.task_spec.acceptance_criteria \cup intake.blocked_questions # {}

ManagerIntakeIsValid(artifact) ==
    /\ artifact.author_profile_id = "hepa-manager"
    /\ ProjectIsValid(artifact.project)
    /\ artifact.tasks # {}
    /\ \A intake \in artifact.tasks : TaskIntakeIsValid(intake, artifact.project)

RunBriefIsValid(brief) ==
    /\ AuthoredBy(brief, "hepa-worker")
    /\ IsNonEmpty(brief.task_prompt) /\ ~IsPrivate(brief.task_prompt)
    /\ AreLines(brief.expected_areas \cup brief.acceptance_criteria
                \cup brief.validation_commands)
    /\ brief.acceptance_criteria # {}
    /\ brief.max_total_rounds \in OneToThree

\* The sections a pull request body must have; the generic template is refused.
BodySections == {"## Summary", "## Changes", "## Validation", "## Review", "## Risk"}

PrIntentIsValid(intent) ==
    /\ AuthoredBy(intent, "hepa-manager")
    /\ IsSingleLine(intent.title)
    /\ IsNonEmpty(intent.body) /\ ~IsPrivate(intent.body)
    /\ BodySections \subseteq intent.body
    /\ "HEPA validation:" \notin intent.body
    /\ AreLines(intent.audit_summary)
    /\ intent.audit_summary # {}
    /\ intent.human_review_required
=============================================================================
