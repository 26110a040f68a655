------------------------------ MODULE RunRecords ------------------------------
(***************************************************************************)
(* The timing record and the terminal reports a run leaves behind          *)
(* (hepa-cli/src/run.rs).  A phase is [name, status].                      *)
(***************************************************************************)
EXTENDS Naturals, Sequences

Phase == {"WorkerBlocked", "SafetyBlocked", "ValidationFailed", "ReviewFailed",
          "PrFailed", "PrCreated", "Completed"}

Reviewed == {"ReviewFailed", "PrFailed", "PrCreated", "Completed"}
Staged   == {"PrFailed", "PrCreated", "Completed"}

\* A repair is {} or {completed}.
ValidationPhase(end, repair) ==
    IF end = "WorkerBlocked" THEN "Skipped"
    ELSE IF end = "ValidationFailed" \/ repair # {} THEN "Failed" ELSE "Completed"

RepairPhases(repair) ==
    IF repair = {} THEN <<>>
    ELSE << [name |-> "live_repair_brief", status |-> "Completed"],
            [name |-> "live_repair_worker", status |-> "Completed"],
            [name |-> "live_repair_validation",
             status |-> IF repair = {TRUE} THEN "Completed" ELSE "Failed"] >>

\* live_timing_record.  A repair that followed the review is told as one that
\* followed a failed validation.
LiveTiming(end, repair) ==
    << [name |-> "live_worker", status |-> IF end = "WorkerBlocked" THEN "Blocked" ELSE "Completed"],
       [name |-> "live_validation", status |-> ValidationPhase(end, repair)] >>
    \o RepairPhases(repair)
    \o (IF end \in Reviewed
        THEN LET status == IF end = "ReviewFailed" THEN "Blocked" ELSE "Completed"
             IN  << [name |-> "live_review_fanout", status |-> status],
                    [name |-> "live_arbitration", status |-> status] >>
        ELSE <<>>)
    \o (IF end \in Staged
        THEN << [name |-> "live_staging_commit_pr",
                 status |-> IF end = "PrFailed" THEN "Blocked" ELSE "Completed"] >>
        ELSE <<>>)

LiveCounters(repair, reviewerPasses) ==
    [ agentLoops    |-> IF repair = {} THEN 1 ELSE 2,
      managerPasses |-> IF repair = {} THEN 1 ELSE 2,
      reviewers     |-> reviewerPasses ]

\* timing_record, of a run with the fake adapter
FakeTiming == << [name |-> "fake_worker", status |-> "Completed"],
                 [name |-> "fake_review", status |-> "Completed"] >>

\* live_terminal_report
CompletedReport(validation, signals, timing, pr) ==
    [ status |-> "Completed", pr |-> pr, validation |-> validation, signals |-> signals,
      arbitrated |-> TRUE, timing |-> timing, human |-> FALSE ]

\* terminal_report, of a run with the fake adapter: nothing is arbitrated.
FakeReport(validation, signal) ==
    [ status |-> "Completed", pr |-> {}, validation |-> validation, signals |-> <<signal>>,
      arbitrated |-> FALSE, timing |-> FakeTiming, human |-> FALSE ]

\* The report and the readiness finish_blocked_live_run writes: somebody has to
\* look at it.
BlockedReport(validation, signals, arbitrated, timing) ==
    [ status |-> "Blocked", pr |-> {}, validation |-> validation, signals |-> signals,
      arbitrated |-> arbitrated, timing |-> timing, human |-> TRUE ]
BlockedReadiness(reason) == [status |-> "Blocked", blockers |-> <<reason>>]
=============================================================================
