---------------------------- MODULE ChildProcess -----------------------------
(***************************************************************************)
(* One process that HEPA runs and waits for: an agent                      *)
(* (HepaOneshotAdapterExecutor::run, with a reader thread for each of its  *)
(* output streams and a monitor that kills it when its time is up) or a    *)
(* validation command (run_safe_validation_command, which reads the output *)
(* when the command has ended).  The process may hang, ignore its prompt,  *)
(* and leave behind a helper that keeps the pipes open.                    *)
(*                                                                         *)
(* Abstracted: output is counted in chunks, and the truncation notice      *)
(* counts as one.  Environment, command line, exit code and the policy on  *)
(* what output may say are left out.  The monitor has a time budget, as in *)
(* every live run.  waitpid and the read of a pipe do not fail; a process  *)
(* keeps its output streams open until it ends.                            *)
(***************************************************************************)
EXTENDS Naturals

CONSTANTS
    Kinds,          \* "adapter", "validation"
    PipeSize,       \* chunks the operating system buffers in a pipe
    PromptSize,     \* chunks of a prompt that is fed to stdin
    Helpers,        \* whether the process may leave a helper behind
    MaxOutput,      \* bound: chunks written to each stream
    CaptureLimit,   \* MAX_ADAPTER_CAPTURE_BYTES
    LogLimit        \* MAX_ADAPTER_STREAM_TEXT_BYTES

ASSUME KindsAreKnown == Kinds \subseteq {"adapter", "validation"}
ASSUME SizesAreNat ==
    /\ PipeSize \in Nat \ {0} /\ PromptSize \in Nat /\ MaxOutput \in Nat
    /\ CaptureLimit \in Nat /\ LogLimit \in 1..CaptureLimit
ASSUME HelpersIsBoolean == Helpers \in BOOLEAN

Streams == {"stdout", "stderr"}

VARIABLES
    kind,      \* which of the two waits
    pc,        \* what the waiting thread does next
    result,    \* what it returns, as far as that is settled
    clock,     \* whether the time budget is used up
    child,     \* running, blocked writing to a stream, exited, reaped
    helper,    \* a descendant that holds the output pipes
    prompt,    \* chunks still to be fed
    fed,       \* chunks of it in the pipe
    stdin,     \* whether the child has that pipe open
    pipe,      \* chunks in each output pipe
    sent,      \* chunks written to it so far
    reader,    \* the reader threads
    capture,   \* BoundedOutputCapture of each stream
    log,       \* its part of the adapter stream log
    text       \* the output the waiting thread has received

process == <<child, helper, fed, stdin, pipe, sent>>
threads == <<reader, capture, log>>
vars == <<kind, pc, result, clock, child, helper, prompt, fed, stdin, pipe, sent,
          reader, capture, log, text>>

WaitTypes ==
    /\ kind \in Kinds
    /\ pc \in {"spawn", "prompt", "stream", "wait", "receive stdout", "receive stderr",
               "take stdout", "take stderr", "check", "output", "drain", "returned"}
    /\ result \in {"none", "ok", "not launched", "blocked", "failed"}
    /\ clock \in {"early", "late"}
    /\ child \in {"none", "running", "exited", "reaped"} \cup Streams
    /\ helper \in {"none", "alive", "ended"}
    /\ prompt \in 0..PromptSize
    /\ fed \in 0..PipeSize
    /\ stdin \in {"open", "closed"}

StreamTypes ==
    /\ pipe \in [Streams -> 0..PipeSize]
    /\ sent \in [Streams -> 0..MaxOutput]
    /\ reader \in [Streams -> {"none", "reading", "logging", "done", "failed"}]
    /\ capture \in [Streams -> 0..(CaptureLimit + 1)]
    /\ log \in [Streams -> 0..(LogLimit + 1)]
    /\ text \in [Streams -> Nat]

TypeOK == WaitTypes /\ StreamTypes

None == [s \in Streams |-> 0]

\* A prompt that is not fed (file, argument) or empty takes no step.
Init ==
    /\ kind \in Kinds
    /\ pc = "spawn" /\ result = "none" /\ clock = "early"
    /\ child = "none" /\ helper = "none"
    /\ prompt \in {0, PromptSize}
    /\ fed = 0 /\ stdin = "closed"
    /\ pipe = None /\ sent = None
    /\ reader = [s \in Streams |-> "none"]
    /\ capture = None /\ log = None /\ text = None
-----------------------------------------------------------------------------
GoTo(step) == pc' = step /\ UNCHANGED result
Return(outcome) == pc' = "returned" /\ result' = outcome

Alive == child \in {"running"} \cup Streams

Receive(s) == IF s = "stdout" THEN "receive stdout" ELSE "receive stderr"
Take(s)    == IF s = "stdout" THEN "take stdout" ELSE "take stderr"

\* Nobody holds the writing end of the output pipes.
NoWriter == ~Alive /\ helper # "alive"

\* Nobody holds the reading end: the reader has ended, or the run has before
\* there was one.
Closed(s) ==
    \/ reader[s] \in {"done", "failed"}
    \/ reader[s] = "none" /\ pc = "returned"
-----------------------------------------------------------------------------
\* The waiting thread

\* Everything up to Command::spawn, which may be refused.
Spawn ==
    /\ pc = "spawn"
    /\ \/ /\ child' = "running"
          /\ stdin' = "open"
          /\ GoTo(IF kind = "adapter" THEN "prompt" ELSE "wait")
       \/ Return("not launched") /\ UNCHANGED <<child, stdin>>
    /\ UNCHANGED <<kind, clock, helper, prompt, fed, pipe, sent, threads, text>>

\* write_all to stdin waits for room in the pipe, and fails once the child has
\* closed it.  Nobody watches the time, and nobody reads the child's output.
WritePrompt ==
    /\ pc = "prompt"
    /\ IF prompt = 0 THEN GoTo("stream") /\ UNCHANGED <<prompt, fed>>
       ELSE IF stdin = "closed" THEN Return("not launched") /\ UNCHANGED <<prompt, fed>>
       ELSE /\ fed < PipeSize
            /\ fed' = fed + 1
            /\ prompt' = prompt - 1
            /\ UNCHANGED <<pc, result>>
    /\ UNCHANGED <<kind, clock, child, helper, stdin, pipe, sent, threads, text>>

\* adapter_stream_path may fail; then the two readers are started.
StartReaders ==
    /\ pc = "stream"
    /\ \/ reader' = [s \in Streams |-> "reading"] /\ GoTo("wait")
       \/ Return("not launched") /\ UNCHANGED reader
    /\ UNCHANGED <<kind, clock, process, prompt, capture, log, text>>

\* try_wait
TryWait ==
    /\ pc = "wait" /\ child = "exited"
    /\ child' = "reaped"
    /\ GoTo(IF kind = "adapter" THEN Receive("stdout") ELSE "drain")
    /\ UNCHANGED <<kind, clock, helper, prompt, fed, stdin, pipe, sent, threads, text>>

\* Mutant of TimeUp: the child is given up, not killed.
GiveUpOnChild ==
    /\ pc = "wait" /\ clock = "late"
    /\ pc' = (IF kind = "adapter" THEN Take("stdout") ELSE "drain")
    /\ result' = "blocked"
    /\ UNCHANGED <<kind, clock, process, prompt, threads, text>>

\* Mutant of TimeUp: only a child that waits on a full pipe is killed.
TimeUpIfStalled ==
    /\ pc = "wait" /\ clock = "late" /\ child \in Streams
    /\ child' = "reaped"
    /\ stdin' = "closed"
    /\ pc' = (IF kind = "adapter" THEN Take("stdout") ELSE "drain")
    /\ result' = "blocked"
    /\ UNCHANGED <<kind, clock, helper, prompt, fed, pipe, sent, threads, text>>

\* The budget is used up: kill and wait.  A child that has exited since it was
\* looked for is treated alike.
TimeUp ==
    /\ pc = "wait" /\ clock = "late"
    /\ child' = "reaped"
    /\ stdin' = "closed"
    /\ pc' = (IF kind = "adapter" THEN Take("stdout") ELSE "drain")
    /\ result' = "blocked"
    /\ UNCHANGED <<kind, clock, helper, prompt, fed, pipe, sent, threads, text>>

\* Mutant of ReceiveOutput: what the reader has so far is taken for the output.
ReceiveCapture(s) ==
    /\ pc = Receive(s)
    /\ text' = [text EXCEPT ![s] = capture[s]]
    /\ GoTo(IF s = "stdout" THEN Receive("stderr") ELSE "check")
    /\ UNCHANGED <<kind, clock, process, prompt, threads>>

\* receive_output_reader: waits for the reader to end.
ReceiveOutput(s) ==
    /\ pc = Receive(s)
    /\ \/ /\ reader[s] = "done"
          /\ text' = [text EXCEPT ![s] = capture[s]]
          /\ GoTo(IF s = "stdout" THEN Receive("stderr") ELSE "check")
       \/ reader[s] = "failed" /\ Return("failed") /\ UNCHANGED text
    /\ UNCHANGED <<kind, clock, process, prompt, threads>>

AfterTake(s) ==
    pc' = IF s = "stderr" THEN "returned" ELSE Take("stderr")

\* Mutant of TakeOutput: the reader's end is waited for here as well.
TakeOutputAtEnd(s) ==
    /\ pc = Take(s) /\ reader[s] \in {"done", "failed"}
    /\ text' = [text EXCEPT ![s] = capture[s]]
    /\ AfterTake(s)
    /\ UNCHANGED <<kind, result, clock, process, prompt, threads>>

\* receive_output_reader_snapshot: half a second is given to the reader, then
\* its capture is taken as it is.
TakeOutput(s) ==
    /\ pc = Take(s)
    /\ text' = [text EXCEPT ![s] = capture[s]]
    /\ AfterTake(s)
    /\ UNCHANGED <<kind, result, clock, process, prompt, threads>>

\* check_output, then write_output_artifact
CheckOutput ==
    /\ \/ pc = "check" /\ (GoTo("output") \/ Return("blocked"))
       \/ pc = "output" /\ (Return("ok") \/ Return("failed"))
    /\ UNCHANGED <<kind, clock, process, prompt, threads, text>>

\* wait_with_output reads both pipes to their end.
Drain(s) ==
    /\ pc = "drain" /\ pipe[s] > 0
    /\ pipe' = [pipe EXCEPT ![s] = @ - 1]
    /\ text' = [text EXCEPT ![s] = @ + 1]
    /\ UNCHANGED <<kind, pc, result, clock, child, helper, prompt, fed, stdin, sent, threads>>

EndDrain ==
    /\ pc = "drain" /\ pipe = None /\ NoWriter
    /\ Return(IF result = "blocked" THEN "blocked" ELSE "ok")
    /\ UNCHANGED <<kind, clock, process, prompt, threads, text>>

Wait ==
    \/ Spawn \/ WritePrompt \/ StartReaders \/ TryWait \/ TimeUp
    \/ (\E s \in Streams : ReceiveOutput(s) \/ TakeOutput(s) \/ Drain(s))
    \/ CheckOutput \/ EndDrain

\* The clock is looked at in the waiting loop only.
Tick ==
    /\ pc = "wait" /\ clock = "early"
    /\ clock' = "late"
    /\ UNCHANGED <<kind, pc, result, process, prompt, threads, text>>
-----------------------------------------------------------------------------
\* The reader threads

\* Mutant of Appended: the capture grows without end.
AppendedAll(chunks) == chunks + 1

\* BoundedOutputCapture::append; the chunk that does not fit leaves the notice.
Appended(chunks) == IF chunks > CaptureLimit THEN chunks ELSE chunks + 1

ReadChunk(s) ==
    /\ reader[s] = "reading" /\ pipe[s] > 0
    /\ pipe' = [pipe EXCEPT ![s] = @ - 1]
    /\ capture' = [capture EXCEPT ![s] = Appended(@)]
    /\ reader' = [reader EXCEPT ![s] = "logging"]
    /\ UNCHANGED <<kind, pc, result, clock, child, helper, prompt, fed, stdin, sent, log, text>>

\* Mutant of Logged: the notice stands in for the chunk that reaches the limit.
LoggedBelow(chunks) == IF chunks >= LogLimit THEN chunks ELSE chunks + 1

\* append_stream_chunk; the chunk that reaches the limit is followed by the notice.
Logged(chunks) ==
    IF chunks > LogLimit THEN chunks
    ELSE IF chunks = LogLimit - 1 THEN LogLimit + 1 ELSE chunks + 1

LogChunk(s) ==
    /\ reader[s] = "logging"
    /\ \/ /\ log' = [log EXCEPT ![s] = Logged(@)]
          /\ reader' = [reader EXCEPT ![s] = "reading"]
       \/ reader' = [reader EXCEPT ![s] = "failed"] /\ UNCHANGED log
    /\ UNCHANGED <<kind, pc, result, clock, process, prompt, capture, text>>

EndOfOutput(s) ==
    /\ reader[s] = "reading" /\ pipe[s] = 0 /\ NoWriter
    /\ reader' = [reader EXCEPT ![s] = "done"]
    /\ UNCHANGED <<kind, pc, result, clock, process, prompt, capture, log, text>>

Read(s) == ReadChunk(s) \/ LogChunk(s) \/ EndOfOutput(s)
-----------------------------------------------------------------------------
\* The process, and a helper it leaves behind

Puts(s) ==
    /\ sent' = [sent EXCEPT ![s] = @ + 1]
    /\ pipe' = [pipe EXCEPT ![s] = @ + 1]

ReadPrompt ==
    /\ child = "running" /\ stdin = "open"
    /\ \/ fed > 0 /\ fed' = fed - 1 /\ UNCHANGED stdin
       \/ stdin' = "closed" /\ UNCHANGED fed
    /\ UNCHANGED <<child, helper, pipe, sent>>

\* A write to a full pipe blocks until there is room, or nobody to read it.
WriteChunk(s) ==
    /\ child \in {"running", s} /\ sent[s] < MaxOutput
    /\ \/ pipe[s] < PipeSize /\ ~Closed(s) /\ Puts(s) /\ child' = "running"
       \/ pipe[s] = PipeSize /\ ~Closed(s) /\ child = "running" /\ child' = s
          /\ UNCHANGED <<pipe, sent>>
       \/ Closed(s) /\ child = s /\ child' = "running" /\ UNCHANGED <<pipe, sent>>
    /\ UNCHANGED <<helper, fed, stdin>>

ForkHelper ==
    /\ Helpers
    /\ child = "running" /\ helper = "none"
    /\ helper' = "alive"
    /\ UNCHANGED <<child, fed, stdin, pipe, sent>>

Exit ==
    /\ child = "running"
    /\ child' = "exited"
    /\ stdin' = "closed"
    /\ UNCHANGED <<helper, fed, pipe, sent>>

HelperWrites(s) ==
    /\ helper = "alive" /\ sent[s] < MaxOutput /\ pipe[s] < PipeSize /\ ~Closed(s)
    /\ Puts(s)
    /\ UNCHANGED <<child, helper, fed, stdin>>

EndHelper ==
    /\ helper = "alive"
    /\ helper' = "ended"
    /\ UNCHANGED <<child, fed, stdin, pipe, sent>>

Process ==
    /\ ReadPrompt \/ ForkHelper \/ Exit \/ EndHelper
       \/ \E s \in Streams : WriteChunk(s) \/ HelperWrites(s)
    /\ UNCHANGED <<kind, pc, result, clock, prompt, threads, text>>

Next == Wait \/ Tick \/ (\E s \in Streams : Read(s)) \/ Process

Spec == Init /\ [][Next]_vars

\* The threads of HEPA run and time passes; the process owes nothing.
FairSpec ==
    /\ Spec
    /\ WF_vars(Wait) /\ WF_vars(Tick)
    /\ \A s \in Streams : WF_vars(Read(s))
-----------------------------------------------------------------------------
\* A run that succeeds has returned all there was, up to the limit and with the
\* notice beyond it, whoever wrote it: nothing is left in a pipe and nobody is
\* left to write (receive_output_reader; wait_with_output).
OkOutputIsComplete ==
    result = "ok" =>
        \A s \in Streams :
            /\ pipe[s] = 0
            /\ text[s] = IF kind = "adapter" /\ sent[s] > CaptureLimit
                         THEN CaptureLimit + 1 ELSE sent[s]

\* The stream log that `hepa lane logs` and the dashboard show tells the same
\* output as the run returns, and says so when it leaves some out
\* (append_stream_chunk).
OkLogIsComplete ==
    result = "ok" /\ kind = "adapter" =>
        \A s \in Streams :
            log[s] = IF sent[s] >= LogLimit THEN LogLimit + 1 ELSE sent[s]

\* No process outlives the run that waited for it: once the readers were started,
\* every way out has ended and reaped the child (wait_with_monitor).
ReturnedChildIsReaped ==
    pc = "returned" /\ result # "not launched" => child = "reaped"

\* Whatever the process does, waiting for it ends, provided nobody keeps its
\* pipes open for ever (check_elapsed, live_validation_timeout_ms).
WaitEnds == (<>[](helper # "alive")) => (pc = "wait" ~> pc = "returned")

\* "timeout should return before descendant pipe EOF" (a test of engine.rs): an
\* agent that was killed does not keep its run, whoever holds its pipes.
KilledRunReturns == (kind = "adapter" /\ result = "blocked") ~> pc = "returned"

\* "instead of waiting indefinitely" (docs/adapters.md): a live agent's run is
\* bounded by its monitor budget, whatever the agent does.
RunIsBounded == kind = "adapter" ~> pc = "returned"
=============================================================================
