-------------------------------- MODULE Review --------------------------------
(***************************************************************************)
(* The review of a diff: crates/hepa-review (fan-out, pass policy, parser, *)
(* arbitration, repair) and what run_live_task makes of them.  Pure: the   *)
(* reviewers' answers are an input, and the outcome is {} if the review    *)
(* fails, {outcome} otherwise.                                             *)
(*                                                                         *)
(* A finding keeps what decides: its id, severity, scope, release risk and *)
(* whether it is accepted; a signal its reviewer, verdict and findings.    *)
(* Texts are RecordContracts' business.  Signals come in the order of      *)
(* their adapters; the order decides nothing but the layout of a record.   *)
(***************************************************************************)
EXTENDS Naturals, Sequences, FiniteSets

Severity == {"Low", "Medium", "High", "Critical"}

SeverityRank == [Low |-> 1, Medium |-> 2, High |-> 3, Critical |-> 4]

IsHigh(severity) == severity \in {"High", "Critical"}

ReviewStatus == {"Approved", "ChangesRequested", "Blocked", "Failed"}

Finding(id, severity, inScope, releaseRisk, accepted) ==
    [ id |-> id, severity |-> severity, in_scope |-> inScope,
      release_risk |-> releaseRisk, accepted |-> accepted ]

Signal(adapter, status, findings) ==
    [adapter |-> adapter, status |-> status, findings |-> findings]

-----------------------------------------------------------------------------
(* The pass policy.                                                        *)

\* Mutant of Approves: a reviewer that says nothing against it approves.
DoesNotBlock(signals, adapter) ==
    \A i \in DOMAIN signals : signals[i].adapter = adapter => signals[i].status # "Blocked"

Approves(signals, adapter) ==
    \E i \in DOMAIN signals : signals[i].adapter = adapter /\ signals[i].status = "Approved"

\* HepaReviewFanout::validate: a policy names an adapter and cannot ask for more
\* approvals than it names adapters; it may name an adapter twice.
PolicyIsValid(policy) ==
    /\ policy.adapters # <<>>
    /\ policy.pass = "AtLeast" => policy.required \in 1 .. Len(policy.adapters)

\* The places of the policy's list whose adapter approves: an adapter named
\* twice counts twice.
ApprovedPlaces(policy, signals) ==
    {i \in DOMAIN policy.adapters : Approves(signals, policy.adapters[i])}

RequiredApprovals(policy) ==
    CASE policy.pass = "All"     -> Len(policy.adapters)
      [] policy.pass = "Any"     -> 1
      [] policy.pass = "AtLeast" -> policy.required

Passes(policy, signals) ==
    IF policy.pass = "All"
    THEN ApprovedPlaces(policy, signals) = DOMAIN policy.adapters
    ELSE Cardinality(ApprovedPlaces(policy, signals)) >= RequiredApprovals(policy)

\* The policy of a live run: all of the adapters that sent a signal.
AllOf(signals) ==
    [ adapters |-> [i \in DOMAIN signals |-> signals[i].adapter],
      pass     |-> "All", required |-> 0 ]

-----------------------------------------------------------------------------
(* Arbitration.                                                            *)

Decision(original, finding, disposition) ==
    [original |-> original, finding |-> finding, disposition |-> disposition]

\* apply_deterministic_downgrade_rules
Downgraded(finding) ==
    IF ~finding.in_scope /\ ~finding.release_risk /\ finding.severity # "Low"
    THEN Decision(finding, [finding EXCEPT !.severity = "Low", !.accepted = FALSE], "Downgraded")
    ELSE Decision(finding, finding, "ManagerRequired")

\* apply_manager_arbitration: only a finding no rule has settled, and down only.
CanArbitrate(decision, action, severity) ==
    /\ decision.disposition = "ManagerRequired"
    /\ action = "Downgrade" => SeverityRank[severity] < SeverityRank[decision.finding.severity]

Arbitrated(decision, action, severity) ==
    CASE action = "Accept" ->
            [decision EXCEPT !.finding.accepted = TRUE, !.disposition = "ManagerAccepted"]
      [] action = "Reject" ->
            [decision EXCEPT !.finding.accepted = FALSE, !.disposition = "ManagerRejected"]
      [] action = "Downgrade" ->
            [decision EXCEPT !.finding.accepted = TRUE, !.finding.severity = severity,
                             !.disposition = "ManagerDowngraded"]

\* arbitrate_live_finding: what the run decides when no manager is asked.  What
\* it does not know it rejects.
LiveDecision(finding) ==
    LET ruled == Downgraded(finding)
    IN  CASE ruled.disposition = "Downgraded" -> ruled
          [] ruled.disposition # "Downgraded" /\ finding.id \in {"escalation-primary", "escalation-policy"} ->
                 ruled
          [] ruled.disposition # "Downgraded" /\ finding.id = "accept-low" ->
                 Arbitrated(ruled, "Accept", "Low")
          [] OTHER -> Arbitrated(ruled, "Reject", "Low")

\* aggregate_review_findings, each with the adapter that made it
FindingsOf(signals) == UNION {signals[i].findings : i \in DOMAIN signals}

\* summarize_arbitration_results: what is written down of a decision
ArbitrationRecord(decision) ==
    [ id              |-> decision.original.id,
      disposition     |-> decision.disposition,
      severity_before |-> decision.original.severity,
      severity_after  |-> decision.finding.severity,
      accepted        |-> decision.finding.accepted ]

ArbitrationStatus(records) ==
    CASE \E r \in records : r.disposition = "ManagerRequired" -> "manager_required"
      [] (\A r \in records : r.disposition # "ManagerRequired") /\ (\E r \in records : r.accepted) ->
             "residual_accepted"
      [] OTHER -> "settled"

\* evaluate_staging_after_arbitration: what stands in the way, by the run's own
\* decisions ...
OwnBlockers(decisions) ==
    {d \in decisions :
        \/ d.disposition = "ManagerRequired"
        \/ d.finding.accepted /\ d.finding.release_risk /\ IsHigh(d.finding.severity)}

\* ... and by a manager's: the records do not say which finding is a release
\* risk, so every high one that is accepted blocks.
ManagerBlockers(records) ==
    {r \in records :
        \/ r.disposition = "ManagerRequired"
        \/ r.accepted /\ IsHigh(r.severity_after)}

-----------------------------------------------------------------------------
(* The reviewers.                                                          *)

\* run_configured_reviewers_concurrently: all of them run, whatever becomes of
\* the others; one that fails, panics or sends an invalid signal fails the whole.
\* An answer is {} or {signal}.
FanOut(answers) ==
    IF answers # <<>> /\ \A i \in DOMAIN answers : answers[i] # {}
    THEN {[i \in DOMAIN answers |-> CHOOSE signal \in answers[i] : TRUE]}
    ELSE {}

\* configured_live_reviewer: the built-in reviewers of a run without profiles
Observation(id) == Finding(id, "Low", TRUE, FALSE, TRUE)
Escalation(id)  == Finding(id, "High", TRUE, TRUE, TRUE)

PrimarySignal == Signal("primary", "Approved", {Observation("accept-low")})

PolicySignal ==
    Signal("policy", "Approved",
           {Finding("reject-advisory", "Medium", TRUE, FALSE, TRUE),
            Finding("out-of-scope", "High", FALSE, FALSE, TRUE)})

NoDiffSignal(adapter) == Signal(adapter, "Blocked", {Escalation("no-diff")})

BlockSignal(adapter) ==
    Signal(adapter, "Blocked",
           {Escalation(IF adapter = "primary" THEN "escalation-primary" ELSE "escalation-policy")})

BuiltInReviews(changed, forceBlock) ==
    CASE forceBlock -> <<{BlockSignal("policy")}, {BlockSignal("primary")}>>
      [] ~forceBlock /\ ~changed -> <<{NoDiffSignal("policy")}, {NoDiffSignal("primary")}>>
      [] OTHER -> <<{PolicySignal}, {PrimarySignal}>>

\* normalize_reviewer_output_by_exception with live_adapter_review's fallback: an
\* answer that is no review, or names a status or a severity nobody knows, is a
\* failed review and not a failed run.
NormalizedReview(adapter, answer) ==
    IF /\ answer.json
       /\ answer.status \in ReviewStatus
       /\ \A finding \in answer.findings : finding.severity \in Severity
    THEN Signal(adapter, answer.status, answer.findings)
    ELSE Signal(adapter, "Failed", {})

\* live_adapter_review: Pi only implements; an adapter that fails fails the review.
AdapterReviews(adapter, answers) ==
    IF adapter = "pi" THEN <<{}>>
    ELSE <<{NormalizedReview(adapter, answer) : answer \in answers}>>

-----------------------------------------------------------------------------
(* The artifacts of the Hermes profiles.  A source is {} if it is not      *)
(* configured, else {answer}; the answer of a command that failed, or a    *)
(* file that cannot be read, has no artifact in it.                        *)

FirstConfigured(sources) ==
    LET configured == {i \in DOMAIN sources : sources[i] # {}}
    IN  IF configured = {} THEN {}
        ELSE sources[CHOOSE i \in configured : \A j \in configured : i <= j]

\* Both must be about this task and this lane, be written by the profile, and a
\* manager's must leave nothing open.
ReviewArtifactFits(artifact, task, lane) ==
    /\ artifact.task = task /\ artifact.lane = lane
    /\ artifact.author = "hepa-reviewer"
    /\ artifact.signals # <<>>
    /\ \A i \in DOMAIN artifact.signals : artifact.signals[i].profile /\ artifact.signals[i].lane = lane

ManagerArtifactFits(artifact, task, lane) ==
    /\ artifact.task = task /\ artifact.lane = lane
    /\ artifact.author = "hepa-review-manager"
    /\ \A r \in artifact.records : r.disposition # "ManagerRequired"

\* review_signals_need_manager
NeedManager(signals) ==
    \E i \in DOMAIN signals : signals[i].status # "Approved" \/ signals[i].findings # {}

\* live_review_outcome_from_signals_and_manager: staging is allowed when nothing
\* blocks, and missing approvals do whatever the manager says.
OutcomeOf(signals, manager) ==
    LET decisions == {LiveDecision(f) : f \in FindingsOf(signals)}
        records   == IF manager = {} THEN {ArbitrationRecord(d) : d \in decisions}
                     ELSE UNION manager
        blockers  == IF manager = {} THEN OwnBlockers(decisions) ELSE ManagerBlockers(records)
    IN  [ signals |-> signals,
          records |-> records,
          allowed |-> Passes(AllOf(signals), signals) /\ blockers = {} ]

\* live_review_outcome_from_signals: the manager's records, if one is configured;
\* one must be, where Hermes is required and there is something to decide.
JudgedBy(env, signals) ==
    LET source == FirstConfigured(<<env.managerCommand, env.managerFile>>)
        fit    == {a \in UNION source : ManagerArtifactFits(a, env.task, env.lane)}
    IN  CASE source # {} -> {OutcomeOf(signals, {artifact.records}) : artifact \in fit}
          [] source = {} /\ env.required /\ NeedManager(signals) -> {}
          [] OTHER -> {OutcomeOf(signals, {})}

\* live_review_fanout: the first source of reviews that is configured
LiveReview(env) ==
    LET source == FirstConfigured(<<env.reviewerCommand, env.dashboardFile, env.reviewFile>>)
        fit    == {a \in UNION source : ReviewArtifactFits(a, env.task, env.lane)}
        own    == IF env.adapterReviews THEN AdapterReviews(env.adapter, env.adapterAnswers)
                  ELSE BuiltInReviews(env.changed, env.forceBlock)
    IN  CASE source # {} ->
                UNION {JudgedBy(env, [i \in DOMAIN a.signals |-> a.signals[i].signal]) : a \in fit}
          [] source = {} /\ env.required -> {}
          [] OTHER -> UNION {JudgedBy(env, signals) : signals \in FanOut(own)}

-----------------------------------------------------------------------------
(* Repair.                                                                 *)

\* enforce_repair_round_budget and block_when_repair_cannot_converge: the
\* classification of a refusal asks for a human.
RepairDecision(maxRepairRounds, maxAttempts, nextRound, attemptsAfter) ==
    CASE 0 \in {maxRepairRounds, maxAttempts, nextRound} -> "invalid"
      [] 0 \notin {maxRepairRounds, maxAttempts, nextRound} /\ nextRound > maxRepairRounds ->
             "RoundExhausted"
      [] 0 \notin {maxRepairRounds, maxAttempts, nextRound} /\ nextRound <= maxRepairRounds
         /\ attemptsAfter > maxAttempts -> "AttemptsExhausted"
      [] OTHER -> "allowed"

\* repair_findings_from_review_signals: as the reviewers put them; what the
\* arbitration made of them does not matter to the repair.
FindingsToRepair(signals) == {f \in FindingsOf(signals) : f.accepted}

\* memory_failure_context: known failures of the project come along as findings.
MemoryFinding == Observation("memory-failure-pattern")

\* rewrite_repair_prompt_from_evidence: no brief without evidence.
RepairEvidence(failingCommands, findings, failuresRemembered) ==
    failingCommands \cup {f.id : f \in findings}
    \cup {f.id : f \in {g \in {MemoryFinding} : failuresRemembered}}

BriefPossible(failingCommands, findings, failuresRemembered) ==
    RepairEvidence(failingCommands, findings, failuresRemembered) # {}

-----------------------------------------------------------------------------
\* What an outcome that allows staging stands for: every adapter that sent a
\* signal approved, and no finding is left undecided.
IsApproval(outcome) ==
    /\ \A i \in DOMAIN outcome.signals : \E j \in DOMAIN outcome.signals :
          /\ outcome.signals[j].adapter = outcome.signals[i].adapter
          /\ outcome.signals[j].status = "Approved"
    /\ \A r \in outcome.records : r.disposition # "ManagerRequired"
=============================================================================
