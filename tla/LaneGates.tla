------------------------------- MODULE LaneGates -------------------------------
(***************************************************************************)
(* When a lane may be called done, and who is told of it                   *)
(* (crates/hepa-core: readiness.rs, notifications.rs).                     *)
(***************************************************************************)
EXTENDS Sequences

NotReadyReason == {"needs_rebase", "merge_conflict", "ci_failed", "review_failed",
                   "missing_artifact", "human_clarification_needed",
                   "blocked_by_dependency", "kanban_drift"}

\* evaluate_done_gate: why a lane is not done.  A conflict hides that the
\* branch is behind.
DoneBlockers(lane) ==
    LET when(condition, reason) == IF condition THEN {reason} ELSE {}
    IN  when(\/ ~lane.pr_exists
             \/ lane.validation_status \notin {"Passed", "NoTestsDetected"}
             \/ lane.ui_files_changed /\ ~lane.screenshots_attached
             \/ lane.missing_artifacts # {}, "missing_artifact")
        \cup when(lane.merge_conflict, "merge_conflict")
        \cup when(~lane.merge_conflict /\ ~lane.branch_synced_with_base, "needs_rebase")
        \cup when(~lane.review_passed /\ ~lane.residual_findings_accepted, "review_failed")
        \cup when(lane.ci_present /\ ~lane.ci_passing, "ci_failed")
        \cup when(~lane.risk_policy_approved \/ lane.human_clarification_needed,
                  "human_clarification_needed")
        \cup when(~lane.card_lane_consistent, "kanban_drift")
        \cup when(lane.unmet_dependencies # {}, "blocked_by_dependency")

\* is_ready and card_may_show_done
MayShowDone(lane) == DoneBlockers(lane) = {}
-----------------------------------------------------------------------------
NotificationStatus == {"done", "blocked"}

\* agrees_with_card_status
AgreesWithCard(status, card) ==
    \/ status = "done" /\ card \in {"done", "completed", "ready_for_human", "ready"}
    \/ status = "blocked" /\ card \in {"blocked", "failed"}

\* HepaNotifier::notify: what was seen and what was delivered.  It counts as
\* seen before it is delivered, so one that fails is not tried again.
Notify(notifier, task, status, delivers) ==
    LET isNew == <<task, status>> \notin notifier.seen
    IN  [ seen      |-> notifier.seen \cup {<<task, status>>},
          delivered |-> IF isNew /\ delivers THEN Append(notifier.delivered, <<task, status>>)
                        ELSE notifier.delivered,
          outcome   |-> IF ~isNew THEN "deduped" ELSE IF delivers THEN "emitted" ELSE "error" ]
=============================================================================
