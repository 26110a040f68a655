------------------------- MODULE InteractiveSessions -------------------------
(***************************************************************************)
(* Interactive lanes: `hepa run-interactive` and `hepa lane send`          *)
(* (crates/hepa-cli/src/main.rs) over HepaTmuxInteractiveLauncher          *)
(* (crates/hepa-adapters/src/interactive.rs) and its teardown.  Every      *)
(* command is a process of its own, so another command, or the end of the  *)
(* session, may come between any two of its steps.                         *)
(*                                                                         *)
(* tmux is external: it resolves a target that is no session's name to the *)
(* one session whose name begins with it, if there is exactly one.         *)
(***************************************************************************)
EXTENDS Naturals, FiniteSets

CONSTANTS
    SessionLanes,   \* lane ids given to run-interactive
    Messages,       \* steering messages
    SecretLike,     \* the messages reject_secret_content refuses
    PrefixPairs        \* the pairs <<l, m>>: lane id l is a proper prefix of m

ASSUME SecretLikeAreMessages == SecretLike \subseteq Messages
ASSUME PrefixesAreLanes == PrefixPairs \subseteq SessionLanes \X SessionLanes

VARIABLES
    allocated,   \* lanes with a worktree
    launch,      \* how far run-interactive is with each lane
    sessions,    \* lanes whose session exists in tmux
    recorded,    \* lanes with interactive-session.json
    steering,    \* lines of the steering logs
    pending,     \* messages that are logged and will be typed next
    typed        \* what tmux typed, and into which session

interactive == <<allocated, launch, sessions, recorded, steering, pending, typed>>

LaunchStage == {"none", "allocated", "opened", "launched", "failed"}

Line == [lane : SessionLanes, message : Messages, dryRun : BOOLEAN]
Keys == [lane : SessionLanes, message : Messages]

InteractiveTypeOK ==
    /\ allocated \subseteq SessionLanes
    /\ launch \in [SessionLanes -> LaunchStage]
    /\ sessions \subseteq SessionLanes
    /\ recorded \subseteq SessionLanes
    /\ steering \subseteq Line
    /\ pending \subseteq Keys
    /\ typed \subseteq [lane : SessionLanes, message : Messages, session : SessionLanes]

InteractiveInit ==
    /\ allocated = {}
    /\ launch = [lane \in SessionLanes |-> "none"]
    /\ sessions = {}
    /\ recorded = {}
    /\ steering = {}
    /\ pending = {}
    /\ typed = {}

-----------------------------------------------------------------------------
(* tmux.                                                                   *)

\* The session a command for this lane reaches.
Target(lane) ==
    IF lane \in sessions THEN {lane}
    ELSE LET longer == {m \in sessions : <<lane, m>> \in PrefixPairs}
         IN  IF Cardinality(longer) = 1 THEN longer ELSE {}

\* The agent leaves its session by itself.
SessionEnds(lane) ==
    /\ lane \in sessions
    /\ sessions' = sessions \ {lane}
    /\ UNCHANGED <<allocated, launch, recorded, steering, pending, typed>>

-----------------------------------------------------------------------------
(* hepa run-interactive: the worktree, the session, the log, the record.   *)

\* The allocator refuses a lane it knows; nothing gives these lanes back.
AllocateInteractiveLane(lane) ==
    /\ launch[lane] = "none"
    /\ lane \notin allocated
    /\ allocated' = allocated \cup {lane}
    /\ launch' = [launch EXCEPT ![lane] = "allocated"]
    /\ UNCHANGED <<sessions, recorded, steering, pending, typed>>

LaunchFails(lane) ==
    /\ launch' = [launch EXCEPT ![lane] = "failed"]
    /\ UNCHANGED <<allocated, sessions, recorded, steering, pending, typed>>

\* launch: the request is valid once the worktree exists; tmux refuses a name
\* in use.
OpenSession(lane) ==
    /\ launch[lane] = "allocated"
    /\ \/ /\ lane \notin sessions
          /\ sessions' = sessions \cup {lane}
          /\ launch' = [launch EXCEPT ![lane] = "opened"]
          /\ UNCHANGED <<allocated, recorded, steering, pending, typed>>
       \/ LaunchFails(lane)

\* capture_pane needs a session to read from; the log and the record are
\* written after it.  On a failure the session stays, without a record.
RecordSession(lane) ==
    /\ launch[lane] = "opened"
    /\ \/ /\ Target(lane) # {}
          /\ recorded' = recorded \cup {lane}
          /\ launch' = [launch EXCEPT ![lane] = "launched"]
          /\ UNCHANGED <<allocated, sessions, steering, pending, typed>>
       \/ LaunchFails(lane)

-----------------------------------------------------------------------------
(* hepa lane send.                                                         *)

\* HepaLaneSteeringRequest::validate.  The state of the lane is what the
\* caller says it is; whether there is a session is not looked at.
SteeringIsValid(request) ==
    /\ request.message \notin SecretLike
    /\ request.approved
    /\ ~request.terminal

\* Mutant of LogSteering: a message that is to be typed is not logged first.
TypeUnlogged(lane, request) ==
    /\ SteeringIsValid(request)
    /\ pending' = IF request.dryRun THEN pending
                  ELSE pending \cup {[lane |-> lane, message |-> request.message]}
    /\ UNCHANGED <<allocated, launch, sessions, recorded, steering, typed>>

\* send: the line is in the log before anything is typed.
LogSteering(lane, request) ==
    /\ SteeringIsValid(request)
    /\ steering' = steering \cup
           {[lane |-> lane, message |-> request.message, dryRun |-> request.dryRun]}
    /\ pending' = IF request.dryRun THEN pending
                  ELSE pending \cup {[lane |-> lane, message |-> request.message]}
    /\ UNCHANGED <<allocated, launch, sessions, recorded, typed>>

\* send_keys: typed where tmux finds the target, or an error.
TypeMessage(keys) ==
    /\ keys \in pending
    /\ pending' = pending \ {keys}
    /\ typed' = typed \cup
           {[lane |-> keys.lane, message |-> keys.message, session |-> s] : s \in Target(keys.lane)}
    /\ UNCHANGED <<allocated, launch, sessions, recorded, steering>>

\* teardown kills the session and leaves worktree, record and logs.
Teardown(lane) ==
    /\ Target(lane) # {}
    /\ sessions' = sessions \ Target(lane)
    /\ UNCHANGED <<allocated, launch, recorded, steering, pending, typed>>

SteeringRequests ==
    [message : Messages, approved : BOOLEAN, terminal : BOOLEAN, dryRun : BOOLEAN]

InteractiveCommand ==
    \E lane \in SessionLanes :
        \/ AllocateInteractiveLane(lane)
        \/ \E request \in SteeringRequests : LogSteering(lane, request)
        \/ Teardown(lane)

InteractiveStep ==
    \/ \E lane \in SessionLanes : OpenSession(lane) \/ RecordSession(lane) \/ SessionEnds(lane)
    \/ \E keys \in pending : TypeMessage(keys)

InteractiveNext == InteractiveCommand \/ InteractiveStep

InteractiveSpec == InteractiveInit /\ [][InteractiveNext]_interactive
-----------------------------------------------------------------------------
\* "artifact logging is required before lane steering", "manager approval is
\* required": whatever was typed into a session, at whatever moment, is in the
\* steering log of the lane it was meant for, not as a dry run, and names no
\* secret - even when tmux resolved the target to another lane's session.
TypedIsLogged ==
    \A keys \in typed :
        /\ [lane |-> keys.lane, message |-> keys.message, dryRun |-> FALSE] \in steering
        /\ keys.message \notin SecretLike

\* A session record is written once its session was opened, and a session
\* always has a worktree to work in, also after a failed launch.
SessionsHaveWorktrees == sessions \cup recorded \subseteq allocated
=============================================================================
