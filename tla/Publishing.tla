------------------------------ MODULE Publishing ------------------------------
(***************************************************************************)
(* What the manager lets out of a lane: crates/hepa-git (staging, commit,  *)
(* push, pull request) and the changed-file policies of run_live_task.     *)
(* Pure: git and the forge answer as they please, in LiveRun.              *)
(*                                                                         *)
(* A changed file is a record [name, path, content] whose path and content *)
(* are the sets of what the screens look for in them:                      *)
(*   path     blind, traversal, runtime, secret (what staging refuses),    *)
(*            live_secret (what the first validation refuses), bookkeeping, *)
(*            lockfile, workspace_config, test                             *)
(*   content  private_path, agent_marker, token, assignment, placeholder   *)
(*            (the value of every assignment is a documented placeholder,  *)
(*            a type or a code reference), unreadable                      *)
(* A deleted file and a directory have no content.  A task's goal is the   *)
(* set of what it asks for and forbids.                                    *)
(***************************************************************************)
EXTENDS RecordContracts

-----------------------------------------------------------------------------
(* The changed files of a worktree.                                        *)

\* collect_changed_files: everything git status shows, HEPA's own files aside
Listed(files) == {file \in files : "bookkeeping" \notin file.path}

\* is_live_secret_like_path: another list than the one staging goes by; it has
\* `.env.example`, which staging lets pass, and lacks `.npmrc`, which it refuses.
LiveSecrets(files) == {file \in files : "live_secret" \in file.path}

\* task_allows_dependency_lockfile_changes, task_allows_workspace_config_changes:
\* an instruction not to touch them wins.
Allows(goal, kind) == [asks |-> kind] \in goal /\ [forbids |-> kind] \notin goal

\* manager_changed_file_policy_blocker and the test of
\* discard_unrequested_package_manager_churn, which is the same
Unrequested(files, goal) ==
    {file \in files :
        \E kind \in {"lockfile", "workspace_config"} :
            kind \in file.path /\ ~Allows(goal, kind)}

-----------------------------------------------------------------------------
(* Staging.                                                                *)

\* classify_staging_path: the first reason it finds
PathReasons == <<"blind", "traversal", "runtime", "secret">>

PathRefused(file) == \E i \in DOMAIN PathReasons : PathReasons[i] \in file.path

PathRefusal(file) ==
    LET found == {i \in DOMAIN PathReasons : PathReasons[i] \in file.path}
    IN  PathReasons[CHOOSE i \in found : \A j \in found : i <= j]

\* classify_staging_content_for_path: a lockfile may hold what looks like an
\* assignment, a test what looks like a home directory.
ContentRefused(file) ==
    \/ "private_path" \in file.content /\ "test" \notin file.path
    \/ "agent_marker" \in file.content
    \/ "token" \in file.content
    \/ /\ "assignment" \in file.content /\ "placeholder" \notin file.content
       /\ "lockfile" \notin file.path

\* The screens of stage_approved_files, for one file
Refused(file) == PathRefused(file) \/ ContentRefused(file) \/ "unreadable" \in file.content

\* The report of a refusal: each refused file with its first reason.
Rejections(files) ==
    {[name |-> file.name, reason |-> IF PathRefused(file) THEN PathRefusal(file) ELSE "content"] :
        file \in {f \in files : Refused(f)}}

\* stage_approved_files: all are screened before any is added.
CanStage(files) == files # {} /\ \A file \in files : ~Refused(file)

-----------------------------------------------------------------------------
(* The manager's lifecycle.  Workers and reviewers have none.              *)

\* commit_title: the first sentence of the task, cut at 72 bytes; where that is in
\* the middle of a character the cut panics.
TitleCanBeCut(text) == "character_at_72" \notin text

CommitTitle(text) == {"title"} \cup (text \cap {"newline"})
CommitBody(text)  == {{"task"} \cup text}

\* commit_staged: nothing staged, nothing committed
CanCommit(role, title, body, staged) ==
    /\ role = "manager"
    /\ IsSingleLine(title)
    /\ \A line \in body : "carriage_return" \notin line
    /\ staged # {}

\* require_manager_branch
IsManagerBranch(branch) == IsSingleLine(branch) /\ "hepa/manager/" \in branch

CanPush(role, remote, branch) ==
    role = "manager" /\ IsSingleLine(remote) /\ IsManagerBranch(branch)

\* create_pr with require_base_not_ahead_of_remote: a base that is ahead of its
\* remote would put its own commits into the pull request.
CanCreatePr(role, request, baseAhead) ==
    /\ role = "manager"
    /\ IsSingleLine(request.title) /\ IsSingleLine(request.base)
    /\ IsManagerBranch(request.head)
    /\ IsNonEmpty(request.body)
    /\ ~baseAhead

\* `gh` succeeds and prints the address: only then is there a pull request HEPA
\* knows of.
HasHandle(output) == output.success /\ output.url

-----------------------------------------------------------------------------
(* The pull request: hepa-manager's intent, or HEPA's evidence.            *)

\* run_evidence_lines: the sections the body has, and which of them say that
\* nothing was recorded
EvidenceSections ==
    {"Summary", "Validation", "Review", "Risk", "Adapter", "Timing", "Hermes card"}

EmptySections(report, card) ==
    {section \in EvidenceSections :
        CASE section = "Summary"     -> report.summary = <<>>
          [] section = "Validation"  -> report.validation = {}
          [] section = "Review"      -> report.review_signals = {}
          [] section = "Risk"        -> report.arbitration = {}
          [] section = "Adapter"     -> report.timing = {}
          [] section = "Timing"      -> report.timing = {}
          [] section = "Hermes card" -> card = {}}

\* What the body has something to say about
EvidenceBody(report, card) == EvidenceSections \ EmptySections(report, card)

\* build_pr_body: the evidence, said to be a fallback
FallbackRequest(report, title, base, head) ==
    [title |-> title \cup {"HEPA validation:"}, base |-> base, head |-> head,
     body |-> {"Fallback Evidence Artifact"} \cup EvidenceBody(report, {})]

\* pr_request_from_hermes_intent_with_run_evidence: the intent is taken as it is.
\* Whose task and lane it speaks of is not asked.
IntentRequest(intent, base, head) ==
    [title |-> intent.title, base |-> base, head |-> head, body |-> intent.body]

\* live_pr_request: the command, then the file the dashboard left, then the
\* configured file.  A source is {} if there is none, else {intents}, where the
\* intents are {} if the command failed or the file is unreadable.
PrRequest(sources, required, report, title, base, head) ==
    LET configured == {i \in DOMAIN sources : sources[i] # {}}
        first      == CHOOSE i \in configured : \A j \in configured : i <= j
    IN  CASE configured # {} ->
                {IntentRequest(intent, base, head) :
                    intent \in {a \in UNION sources[first] : PrIntentIsValid(a)}}
          [] configured = {} /\ required -> {}
          [] OTHER -> {FallbackRequest(report, title, base, head)}
=============================================================================
