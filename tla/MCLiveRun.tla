----------------------------- MODULE MCLiveRun -------------------------------
(* The runs of LiveRun: every round budget a brief may give, with and without *)
(* failing artifact writes; files of every kind the screens tell apart, and   *)
(* surroundings in which each source of reviews is used, fails or refuses.    *)
EXTENDS LiveRun

EveryRoundCap == {1, 2, 3}

File(name, path, content) == [name |-> name, path |-> path, content |-> content]

\* Source, a lockfile, one file each screen alone refuses, and HEPA's own.
EveryFile ==
    { File("parser.rs", {}, {}),
      File("pnpm-lock.yaml", {"lockfile"}, {"assignment"}),
      File(".npmrc", {"secret"}, {}),
      File(".env.example", {"live_secret"}, {"assignment", "placeholder"}),
      File(".hepa-worktree.json", {"bookkeeping"}, {}) }

FewFiles == {file \in EveryFile : file.name \in {"parser.rs", "pnpm-lock.yaml"}}

\* No profile is configured, and Hermes is not required.
NoProfiles ==
    [ task |-> "task", lane |-> "lane", required |-> FALSE,
      reviewerCommand |-> {}, dashboardFile |-> {}, reviewFile |-> {},
      managerCommand |-> {}, managerFile |-> {},
      adapterReviews |-> FALSE, adapter |-> "codex", adapterAnswers |-> {},
      changed |-> FALSE, forceBlock |-> FALSE ]

Plain ==
    [ review |-> NoProfiles, goal |-> {}, text |-> {}, prIntents |-> <<{}, {}, {}>>,
      forceGitViolation |-> FALSE, failuresRemembered |-> FALSE, baseAhead |-> FALSE ]

WithReview(review) == [Plain EXCEPT !.review = review]

\* A profile's reviews of the lane, and a manager's decisions on them.
ReviewArtifact(whose, status, findings) ==
    [ task |-> "task", lane |-> whose, author |-> "hepa-reviewer",
      signals |-> << [signal |-> Signal("hepa-reviewer", status, findings),
                      profile |-> TRUE, lane |-> whose],
                     [signal |-> Signal("hepa-security", "Approved", {}),
                      profile |-> TRUE, lane |-> whose] >> ]

ManagerArtifact(severity, accepted) ==
    [ task |-> "task", lane |-> "lane", author |-> "hepa-review-manager",
      records |-> {[ id |-> "finding", disposition |-> "ManagerAccepted",
                     severity_before |-> "High", severity_after |-> severity,
                     accepted |-> accepted ]} ]

AFinding == Finding("finding", "High", TRUE, TRUE, TRUE)

PrIntent(author) ==
    [ task_id |-> {"another task"}, lane_id |-> {"another lane"},
      author_profile_id |-> author, title |-> {"title"}, body |-> BodySections,
      audit_summary |-> {{"summary"}}, human_review_required |-> TRUE ]

Required(signals, manager) ==
    [ WithReview([NoProfiles EXCEPT !.required = TRUE, !.reviewerCommand = {signals},
                                    !.managerFile = manager])
      EXCEPT !.prIntents = <<{{PrIntent("hepa-manager")}}, {}, {}>> ]

EverySituation ==
    { Plain,
      [Plain EXCEPT !.goal = {[asks |-> "lockfile"]}],
      [Plain EXCEPT !.goal = {[asks |-> "lockfile"], [forbids |-> "lockfile"]},
                    !.baseAhead = TRUE],
      [Plain EXCEPT !.text = {"newline"}],
      [Plain EXCEPT !.text = {"character_at_72"}],
      [Plain EXCEPT !.forceGitViolation = TRUE],
      [WithReview([NoProfiles EXCEPT !.forceBlock = TRUE]) EXCEPT !.failuresRemembered = TRUE],
      WithReview([NoProfiles EXCEPT !.adapterReviews = TRUE,
                    !.adapterAnswers = {[json |-> TRUE, status |-> "ChangesRequested",
                                         findings |-> {AFinding}]}]),
      WithReview([NoProfiles EXCEPT !.adapterReviews = TRUE,
                    !.adapterAnswers = {[json |-> FALSE, status |-> "", findings |-> {}]}]),
      WithReview([NoProfiles EXCEPT !.adapterReviews = TRUE, !.adapter = "pi"]),
      Required({ReviewArtifact("lane", "Approved", {})}, {}),
      Required({ReviewArtifact("lane", "Approved", {AFinding})}, {}),
      Required({ReviewArtifact("another lane", "Approved", {})}, {}),
      Required({ReviewArtifact("lane", "ChangesRequested", {AFinding})},
               {{ManagerArtifact("High", FALSE)}}),
      Required({ReviewArtifact("lane", "Approved", {AFinding})}, {{ManagerArtifact("Low", TRUE)}}),
      Required({ReviewArtifact("lane", "Approved", {AFinding})}, {{ManagerArtifact("High", TRUE)}}),
      [Required({ReviewArtifact("lane", "Approved", {})}, {})
          EXCEPT !.prIntents = <<{}, {{PrIntent("hepa-worker")}}, {}>>],
      [Required({ReviewArtifact("lane", "Approved", {})}, {}) EXCEPT !.prIntents = <<{}, {}, {}>>] }
=============================================================================
