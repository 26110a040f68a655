------------------------ MODULE ChildProcess_proofs --------------------------
(***************************************************************************)
(* What holds of every process HEPA runs and waits for, whatever the sizes *)
(* of pipes, prompts, output and limits.  The invariants go from the       *)
(* waiting thread and what it knows of the child (WaitInv) to the chunks   *)
(* on their way through pipe, reader and log (OutputInv).                  *)
(***************************************************************************)
EXTENDS ChildProcess, TLAPS

\* The actions of Next, those of one stream s and those of no stream.
Actions(s) ==
    \/ Spawn \/ WritePrompt \/ StartReaders \/ TryWait \/ TimeUp
    \/ ReceiveOutput(s) \/ TakeOutput(s) \/ Drain(s) \/ CheckOutput \/ EndDrain
    \/ Tick \/ ReadChunk(s) \/ LogChunk(s) \/ EndOfOutput(s)
    \/ (UNCHANGED <<kind, pc, result, clock, prompt, threads, text>> /\
        (ReadPrompt \/ WriteChunk(s) \/ ForkHelper \/ Exit \/ HelperWrites(s) \/ EndHelper))

\* Counting up and down within bounds.
LEMMA Counting ==
    ASSUME NEW n \in Nat, NEW k \in 0..n
    PROVE  (k < n => k + 1 \in 0..n) /\ (k # 0 \/ k > 0 => k - 1 \in 0..n)
  OBVIOUS

\* The steps, one stream at a time.
LEMMA NextCases == Next => \E s \in Streams : Actions(s)
  BY DEF Next, Wait, Read, Process, Actions, Streams
-----------------------------------------------------------------------------
\* Every step keeps the types of the waiting thread's and the process's variables.
LEMMA WaitTypesStep ==
    ASSUME TypeOK, [Next]_vars
    PROVE  WaitTypes'
<1> USE SizesAreNat, KindsAreKnown
        DEF process, threads, TypeOK, WaitTypes, GoTo, Return, Receive, Take
<1>1. CASE UNCHANGED vars
  BY <1>1 DEF vars
<1>2. ASSUME NEW s \in Streams, Actions(s) PROVE WaitTypes'
  <2>1. CASE Spawn
    BY <2>1 DEF Spawn
  <2>2. CASE WritePrompt
    <3>1. prompt \in 0..PromptSize /\ fed \in 0..PipeSize /\ PromptSize \in Nat /\ PipeSize \in Nat
      OBVIOUS
    <3>2. CASE UNCHANGED <<prompt, fed>>
      BY <3>2, <2>2 DEF WritePrompt
    <3>3. CASE prompt # 0 /\ fed < PipeSize /\ fed' = fed + 1 /\ prompt' = prompt - 1
               /\ UNCHANGED <<pc, result>>
      <4>1. prompt' \in 0..PromptSize
        BY <3>1, <3>3, Counting
      <4>2. fed' \in 0..PipeSize
        BY <3>1, <3>3, Counting
      <4> QED BY <3>3, <4>1, <4>2, <2>2 DEF WritePrompt
    <3> QED BY <3>2, <3>3, <2>2 DEF WritePrompt
  <2>3. CASE StartReaders
    BY <2>3 DEF StartReaders
  <2>4. CASE TryWait
    BY <2>4 DEF TryWait
  <2>5. CASE TimeUp
    BY <2>5 DEF TimeUp
  <2>6. CASE ReceiveOutput(s)
    BY <2>6 DEF ReceiveOutput
  <2>7. CASE TakeOutput(s)
    BY <2>7 DEF TakeOutput, AfterTake
  <2>8. CASE Drain(s)
    BY <2>8 DEF Drain
  <2>9. CASE CheckOutput
    BY <2>9 DEF CheckOutput
  <2>10. CASE EndDrain
    BY <2>10 DEF EndDrain
  <2>11. CASE Tick
    BY <2>11 DEF Tick
  <2>12. CASE ReadChunk(s)
    BY <2>12 DEF ReadChunk, Appended
  <2>13. CASE LogChunk(s)
    BY <2>13 DEF LogChunk, Logged
  <2>14. CASE EndOfOutput(s)
    BY <2>14 DEF EndOfOutput
  <2>15. ASSUME UNCHANGED <<kind, pc, result, clock, prompt, threads, text>>,
               ReadPrompt \/ WriteChunk(s) \/ ForkHelper \/ Exit \/ HelperWrites(s) \/ EndHelper
        PROVE  WaitTypes'
    <3>1. CASE ReadPrompt
      <4>1. CASE UNCHANGED fed
        BY <4>1, <2>15, <3>1 DEF ReadPrompt
      <4>2. CASE fed > 0 /\ fed' = fed - 1 /\ UNCHANGED stdin
        <5>1. fed \in 0..PipeSize /\ PipeSize \in Nat
          OBVIOUS
        <5>2. fed' \in 0..PipeSize
          BY <4>2, <5>1, Counting
        <5> QED BY <4>2, <5>2, <2>15, <3>1 DEF ReadPrompt
      <4> QED BY <4>1, <4>2, <2>15, <3>1 DEF ReadPrompt
    <3>2. CASE WriteChunk(s)
      BY <2>15, <3>2 DEF WriteChunk, Puts
    <3>3. CASE ForkHelper
      BY <2>15, <3>3 DEF ForkHelper
    <3>4. CASE Exit
      BY <2>15, <3>4 DEF Exit
    <3>5. CASE HelperWrites(s)
      BY <2>15, <3>5 DEF HelperWrites, Puts
    <3>6. CASE EndHelper
      BY <2>15, <3>6 DEF EndHelper
    <3> QED BY <2>15, <3>1, <3>2, <3>3, <3>4, <3>5, <3>6
  <2> QED BY <1>2, <2>1, <2>2, <2>3, <2>4, <2>5, <2>6, <2>7, <2>8, <2>9,
            <2>10, <2>11, <2>12, <2>13, <2>14, <2>15 DEF Actions
<1> QED BY <1>1, <1>2, NextCases

\* Every step keeps the bounds of what is kept for each stream.
LEMMA StreamTypesStep ==
    ASSUME TypeOK, [Next]_vars
    PROVE  StreamTypes'
<1> USE SizesAreNat, KindsAreKnown
        DEF process, threads, TypeOK, StreamTypes, GoTo, Return
<1>1. CASE UNCHANGED vars
  BY <1>1 DEF vars
<1>2. ASSUME NEW s \in Streams, Actions(s) PROVE StreamTypes'
  <2>1. CASE Spawn
    BY <2>1 DEF Spawn
  <2>2. CASE WritePrompt
    BY <2>2 DEF WritePrompt
  <2>3. CASE StartReaders
    BY <2>3 DEF StartReaders
  <2>4. CASE TryWait
    BY <2>4 DEF TryWait
  <2>5. CASE TimeUp
    BY <2>5 DEF TimeUp
  <2>6. CASE ReceiveOutput(s)
    BY <2>6 DEF ReceiveOutput
  <2>7. CASE TakeOutput(s)
    BY <2>7 DEF TakeOutput, AfterTake
  <2>8. CASE Drain(s)
    BY <2>8 DEF Drain
  <2>9. CASE CheckOutput
    BY <2>9 DEF CheckOutput
  <2>10. CASE EndDrain
    BY <2>10 DEF EndDrain
  <2>11. CASE Tick
    BY <2>11 DEF Tick
  <2>12. CASE ReadChunk(s)
    BY <2>12 DEF ReadChunk, Appended
  <2>13. CASE LogChunk(s)
    BY <2>13 DEF LogChunk, Logged
  <2>14. CASE EndOfOutput(s)
    BY <2>14 DEF EndOfOutput
  <2>15. ASSUME UNCHANGED <<kind, pc, result, clock, prompt, threads, text>>,
               ReadPrompt \/ WriteChunk(s) \/ ForkHelper \/ Exit \/ HelperWrites(s) \/ EndHelper
        PROVE  StreamTypes'
    <3>1. CASE ReadPrompt
      BY <2>15, <3>1 DEF ReadPrompt
    <3>2. CASE WriteChunk(s)
      BY <2>15, <3>2 DEF WriteChunk, Puts
    <3>3. CASE ForkHelper
      BY <2>15, <3>3 DEF ForkHelper
    <3>4. CASE Exit
      BY <2>15, <3>4 DEF Exit
    <3>5. CASE HelperWrites(s)
      BY <2>15, <3>5 DEF HelperWrites, Puts
    <3>6. CASE EndHelper
      BY <2>15, <3>6 DEF EndHelper
    <3> QED BY <2>15, <3>1, <3>2, <3>3, <3>4, <3>5, <3>6
  <2> QED BY <1>2, <2>1, <2>2, <2>3, <2>4, <2>5, <2>6, <2>7, <2>8, <2>9,
            <2>10, <2>11, <2>12, <2>13, <2>14, <2>15 DEF Actions
<1> QED BY <1>1, <1>2, NextCases

\* The type invariant: captures and logs stay within their limits
\* (BoundedOutputCapture::append, append_stream_chunk), however much is written.
THEOREM TypeCorrect == Spec => []TypeOK
<1>1. Init => TypeOK
  BY SizesAreNat, KindsAreKnown DEF Init, TypeOK, WaitTypes, StreamTypes, None, Streams
<1>2. TypeOK /\ [Next]_vars => TypeOK'
  BY WaitTypesStep, StreamTypesStep DEF TypeOK
<1> QED BY <1>1, <1>2, PTL DEF Spec
-----------------------------------------------------------------------------
\* There is a child from its launch on; from the end of the waiting loop on it
\* is reaped; an output stream is read by threads of an adapter run only.
WaitInv ==
    /\ child = "none" => helper = "none"
    /\ pc \in {"spawn", "prompt", "stream", "wait"} => result = "none"
    /\ pc = "spawn" => child = "none"
    /\ pc \notin {"spawn", "returned"} => child # "none"
    /\ pc \notin {"spawn", "prompt", "stream", "wait", "returned"} => child = "reaped"
    /\ pc = "returned" /\ result # "not launched" => child = "reaped"
    /\ result = "ok" => pc = "returned"
    /\ result = "not launched" => pc = "returned"
    /\ pc = "drain" => kind = "validation"
    /\ \A s \in Streams : pc \in {Receive(s), Take(s), "check", "output"} => kind = "adapter"
    /\ pc \in {"prompt", "stream"} => kind = "adapter"
    /\ \A s \in Streams : reader[s] # "none" => kind = "adapter" /\ child # "none"
    /\ pc \in {"spawn", "prompt", "stream"} => \A s \in Streams : reader[s] = "none"

\* Every step keeps WaitInv.
LEMMA WaitStep ==
    ASSUME TypeOK, WaitInv, [Next]_vars
    PROVE  WaitInv'
<1> USE SizesAreNat, KindsAreKnown
        DEF process, threads, TypeOK, WaitTypes, GoTo, Return, Receive, Take, Streams, WaitInv
<1>1. CASE UNCHANGED vars
  BY <1>1 DEF vars
<1>2. ASSUME NEW s \in Streams, Actions(s) PROVE WaitInv'
  <2>1. CASE Spawn
    BY <2>1 DEF Spawn
  <2>2. CASE WritePrompt
    BY <2>2 DEF WritePrompt
  <2>3. CASE StartReaders
    BY <2>3 DEF StartReaders
  <2>4. CASE TryWait
    BY <2>4 DEF TryWait
  <2>5. CASE TimeUp
    BY <2>5 DEF TimeUp
  <2>6. CASE ReceiveOutput(s)
    BY <2>6 DEF ReceiveOutput
  <2>7. CASE TakeOutput(s)
    BY <2>7 DEF TakeOutput, AfterTake
  <2>8. CASE Drain(s)
    BY <2>8 DEF Drain
  <2>9. CASE CheckOutput
    BY <2>9 DEF CheckOutput
  <2>10. CASE EndDrain
    BY <2>10 DEF EndDrain
  <2>11. CASE Tick
    BY <2>11 DEF Tick
  <2>12. CASE ReadChunk(s)
    BY <2>12 DEF ReadChunk, Appended
  <2>13. CASE LogChunk(s)
    BY <2>13 DEF LogChunk, Logged
  <2>14. CASE EndOfOutput(s)
    BY <2>14 DEF EndOfOutput
  <2>15. ASSUME UNCHANGED <<kind, pc, result, clock, prompt, threads, text>>,
               ReadPrompt \/ WriteChunk(s) \/ ForkHelper \/ Exit \/ HelperWrites(s) \/ EndHelper
        PROVE  WaitInv'
    <3>1. CASE ReadPrompt
      BY <2>15, <3>1 DEF ReadPrompt
    <3>2. CASE WriteChunk(s)
      BY <2>15, <3>2 DEF WriteChunk, Puts
    <3>3. CASE ForkHelper
      BY <2>15, <3>3 DEF ForkHelper
    <3>4. CASE Exit
      BY <2>15, <3>4 DEF Exit
    <3>5. CASE HelperWrites(s)
      BY <2>15, <3>5 DEF HelperWrites, Puts
    <3>6. CASE EndHelper
      BY <2>15, <3>6 DEF EndHelper
    <3> QED BY <2>15, <3>1, <3>2, <3>3, <3>4, <3>5, <3>6
  <2> QED BY <1>2, <2>1, <2>2, <2>3, <2>4, <2>5, <2>6, <2>7, <2>8, <2>9,
            <2>10, <2>11, <2>12, <2>13, <2>14, <2>15 DEF Actions
<1> QED BY <1>1, <1>2, NextCases

\* No process outlives the run that waited for it, whichever way wait_with_monitor
\* or the validation's loop ends.
THEOREM ReturnedChildIsReapedAlways == Spec => []ReturnedChildIsReaped
<1>1. Init => WaitInv
  BY DEF Init, WaitInv, Streams, Receive, Take
<1>2. WaitInv => ReturnedChildIsReaped
  BY DEF WaitInv, ReturnedChildIsReaped
<1> QED BY <1>1, <1>2, WaitStep, TypeCorrect, PTL DEF Spec
-----------------------------------------------------------------------------
\* What the log of a reader has after so many chunks.
LogOf(chunks) == IF chunks >= LogLimit THEN LogLimit + 1 ELSE chunks

\* Every chunk written is in the pipe or was read: by the reader, whose capture
\* counts it up to the limit, or by the drain.
ChunksInv(s) ==
    /\ kind = "validation" => sent[s] = pipe[s] + text[s]
    /\ kind = "adapter" =>
          IF capture[s] <= CaptureLimit THEN sent[s] = pipe[s] + capture[s]
                                        ELSE sent[s] >= pipe[s] + capture[s]

\* A reader is done when the stream has ended, and has logged what it captured.
ReaderInv(s) ==
    /\ reader[s] = "none" => capture[s] = 0 /\ log[s] = 0
    /\ reader[s] \in {"reading", "done"} => log[s] = LogOf(capture[s])
    /\ reader[s] = "logging" => capture[s] > 0 /\ log[s] = LogOf(capture[s] - 1)
    /\ reader[s] = "done" => pipe[s] = 0 /\ NoWriter

\* What the waiting thread has received is all of a stream that has ended.
ReceivedInv(s) ==
    /\ kind = "adapter" /\ (pc \in {"check", "output"} \/ result = "ok"
                             \/ (s = "stdout" /\ pc = Receive("stderr"))) =>
          reader[s] = "done" /\ text[s] = capture[s]
    /\ kind = "validation" /\ pc # "drain" /\ result # "ok" /\ pc # "returned" => text[s] = 0
    /\ kind = "validation" /\ result = "ok" => pipe[s] = 0 /\ NoWriter

OutputInv == \A s \in Streams : ChunksInv(s) /\ ReaderInv(s) /\ ReceivedInv(s)

\* What the types say of one stream's counters.
LEMMA Amounts ==
    ASSUME TypeOK, NEW s \in Streams
    PROVE  /\ pipe[s] \in Nat /\ sent[s] \in Nat /\ capture[s] \in Nat /\ log[s] \in Nat
           /\ text[s] \in Nat /\ capture[s] <= CaptureLimit + 1
           /\ CaptureLimit \in Nat /\ LogLimit \in Nat /\ 0 < LogLimit /\ LogLimit <= CaptureLimit
           /\ kind \in {"adapter", "validation"}
           /\ reader[s] \in {"none", "reading", "logging", "done", "failed"}
<1> USE SizesAreNat, KindsAreKnown
<1>1. pipe[s] \in 0..PipeSize /\ sent[s] \in 0..MaxOutput /\ capture[s] \in 0..(CaptureLimit + 1)
      /\ log[s] \in 0..(LogLimit + 1) /\ text[s] \in Nat
  BY DEF TypeOK, StreamTypes
<1>2. /\ kind \in {"adapter", "validation"}
      /\ reader[s] \in {"none", "reading", "logging", "done", "failed"}
  BY DEF TypeOK, WaitTypes, StreamTypes
<1> QED BY <1>1, <1>2

\* The steps that move output, seen at one stream r.  The readers start with nothing captured.
LEMMA StartReadersKeepsOutput ==
    ASSUME TypeOK, WaitInv, OutputInv, NEW r \in Streams, StartReaders
    PROVE  ChunksInv(r)' /\ ReaderInv(r)' /\ ReceivedInv(r)'
<1>1. /\ kind = "adapter" /\ reader[r] = "none" /\ result' # "ok"
      /\ pc' \in {"wait", "returned"}
      /\ reader'[r] \in {"none", "reading"}
      /\ UNCHANGED <<kind, child, helper, pipe, sent, capture, log, text>>
  BY DEF StartReaders, process, GoTo, Return, WaitInv
<1>2. ChunksInv(r) /\ ReaderInv(r) /\ ReceivedInv(r)
  BY DEF OutputInv
<1>3. ChunksInv(r)'
  BY <1>1, <1>2, Amounts DEF ChunksInv
<1>4. ReaderInv(r)'
  BY <1>1, <1>2, Amounts DEF ReaderInv, LogOf, NoWriter, Alive
<1>5. ReceivedInv(r)'
  BY <1>1, <1>2, Amounts DEF ReceivedInv, NoWriter, Alive, Receive
<1> QED BY <1>3, <1>4, <1>5

\* Only a reader that is done is received from.
LEMMA ReceiveOutputKeepsOutput ==
    ASSUME TypeOK, WaitInv, OutputInv, NEW s \in Streams, NEW r \in Streams,
           ReceiveOutput(s)
    PROVE  ChunksInv(r)' /\ ReaderInv(r)' /\ ReceivedInv(r)'
<1>1. /\ kind = "adapter" /\ result \notin {"ok"}
      /\ pc = Receive(s)
      /\ \/ result' = "failed" /\ pc' = "returned" /\ UNCHANGED text
         \/ /\ reader[s] = "done" /\ UNCHANGED result
            /\ pc' = IF s = "stdout" THEN Receive("stderr") ELSE "check"
            /\ text'[r] = IF r = s THEN capture[r] ELSE text[r]
      /\ UNCHANGED <<kind, child, helper, pipe, sent, reader, capture, log>>
  BY DEF ReceiveOutput, process, threads, GoTo, Return, WaitInv, Receive, TypeOK, StreamTypes
<1>2. ChunksInv(r) /\ ReaderInv(r) /\ ReceivedInv(r)
  BY DEF OutputInv
<1>3. ChunksInv(r)'
  BY <1>1, <1>2, Amounts DEF ChunksInv
<1>4. ReaderInv(r)'
  BY <1>1, <1>2, Amounts DEF ReaderInv, LogOf, NoWriter, Alive
<1>5. ReceivedInv(r)'
  BY <1>1, <1>2, Amounts DEF ReceivedInv, NoWriter, Alive, Receive, Streams
<1> QED BY <1>3, <1>4, <1>5

\* A drain moves chunks of a validation command from pipe to text.
LEMMA DrainKeepsOutput ==
    ASSUME TypeOK, WaitInv, OutputInv, NEW s \in Streams, NEW r \in Streams,
           Drain(s)
    PROVE  ChunksInv(r)' /\ ReaderInv(r)' /\ ReceivedInv(r)'
<1>1. /\ kind = "validation" /\ result # "ok" /\ pc = "drain" /\ reader[r] = "none"
      /\ pipe[s] > 0 /\ pipe'[r] = IF r = s THEN pipe[r] - 1 ELSE pipe[r]
      /\ text'[r] = IF r = s THEN text[r] + 1 ELSE text[r]
      /\ UNCHANGED <<kind, pc, result, child, helper, sent, reader, capture, log>>
  BY DEF Drain, threads, WaitInv, TypeOK, StreamTypes
<1>2. ChunksInv(r) /\ ReaderInv(r) /\ ReceivedInv(r)
  BY DEF OutputInv
<1>3. ChunksInv(r)'
  BY <1>1, <1>2, Amounts DEF ChunksInv
<1>4. ReaderInv(r)'
  BY <1>1, <1>2, Amounts DEF ReaderInv, LogOf, NoWriter, Alive
<1>5. ReceivedInv(r)'
  BY <1>1, <1>2, Amounts DEF ReceivedInv, NoWriter, Alive
<1> QED BY <1>3, <1>4, <1>5

\* A reader moves a chunk from the pipe to its capture.
LEMMA ReadChunkKeepsOutput ==
    ASSUME TypeOK, WaitInv, OutputInv, NEW s \in Streams, NEW r \in Streams,
           ReadChunk(s)
    PROVE  ChunksInv(r)' /\ ReaderInv(r)' /\ ReceivedInv(r)'
<1>1. /\ kind = "adapter" /\ reader[s] = "reading"
      /\ pipe[s] > 0 /\ pipe'[r] = IF r = s THEN pipe[r] - 1 ELSE pipe[r]
      /\ capture'[r] = IF r = s THEN Appended(capture[r]) ELSE capture[r]
      /\ reader'[r] = IF r = s THEN "logging" ELSE reader[r]
      /\ UNCHANGED <<kind, pc, result, child, helper, sent, log, text>>
  BY DEF ReadChunk, WaitInv, TypeOK, StreamTypes
<1>2. ChunksInv(r) /\ ReaderInv(r) /\ ReceivedInv(r)
  BY DEF OutputInv
<1>3. ChunksInv(r)'
  BY <1>1, <1>2, Amounts DEF ChunksInv, Appended
<1>4. ReaderInv(r)'
  BY <1>1, <1>2, Amounts DEF ReaderInv, LogOf, Appended, NoWriter, Alive
<1>5. ReceivedInv(r)'
  BY <1>1, <1>2, Amounts DEF ReceivedInv, NoWriter, Alive
<1> QED BY <1>3, <1>4, <1>5

\* A reader logs the chunk it captured last.
LEMMA LogChunkKeepsOutput ==
    ASSUME TypeOK, WaitInv, OutputInv, NEW s \in Streams, NEW r \in Streams,
           LogChunk(s)
    PROVE  ChunksInv(r)' /\ ReaderInv(r)' /\ ReceivedInv(r)'
<1>1. /\ kind = "adapter" /\ reader[s] = "logging"
      /\ \/ /\ log'[r] = IF r = s THEN Logged(log[r]) ELSE log[r]
            /\ reader'[r] = IF r = s THEN "reading" ELSE reader[r]
         \/ UNCHANGED log /\ reader'[r] = IF r = s THEN "failed" ELSE reader[r]
      /\ UNCHANGED <<kind, pc, result, child, helper, pipe, sent, capture, text>>
  BY DEF LogChunk, process, WaitInv, TypeOK, StreamTypes
<1>2. ChunksInv(r) /\ ReaderInv(r) /\ ReceivedInv(r)
  BY DEF OutputInv
<1>3. ChunksInv(r)'
  BY <1>1, <1>2, Amounts DEF ChunksInv
<1>4. ReaderInv(r)'
  BY <1>1, <1>2, Amounts DEF ReaderInv, LogOf, Logged, NoWriter, Alive
<1>5. ReceivedInv(r)'
  BY <1>1, <1>2, Amounts DEF ReceivedInv, NoWriter, Alive
<1> QED BY <1>3, <1>4, <1>5

\* A reader is done when the stream has ended.
LEMMA EndOfOutputKeepsOutput ==
    ASSUME TypeOK, WaitInv, OutputInv, NEW s \in Streams, NEW r \in Streams,
           EndOfOutput(s)
    PROVE  ChunksInv(r)' /\ ReaderInv(r)' /\ ReceivedInv(r)'
<1>1. /\ kind = "adapter" /\ reader[s] = "reading" /\ pipe[s] = 0 /\ NoWriter
      /\ reader'[r] = IF r = s THEN "done" ELSE reader[r]
      /\ UNCHANGED <<kind, pc, result, child, helper, pipe, sent, capture, log, text>>
  BY DEF EndOfOutput, process, WaitInv, TypeOK, StreamTypes
<1>2. ChunksInv(r) /\ ReaderInv(r) /\ ReceivedInv(r)
  BY DEF OutputInv
<1>3. ChunksInv(r)'
  BY <1>1, <1>2, Amounts DEF ChunksInv
<1>4. ReaderInv(r)'
  BY <1>1, <1>2, Amounts DEF ReaderInv, LogOf, NoWriter, Alive
<1>5. ReceivedInv(r)'
  BY <1>1, <1>2, Amounts DEF ReceivedInv, NoWriter, Alive
<1> QED BY <1>3, <1>4, <1>5

\* The child writes while it is alive, hence to no stream that has ended.
LEMMA WriteChunkKeepsOutput ==
    ASSUME TypeOK, WaitInv, OutputInv, NEW s \in Streams, NEW r \in Streams,
           WriteChunk(s),
           UNCHANGED <<kind, pc, result, clock, prompt, threads, text>>
    PROVE  ChunksInv(r)' /\ ReaderInv(r)' /\ ReceivedInv(r)'
<1>1. /\ ~NoWriter
      /\ \/ UNCHANGED <<pipe, sent>>
         \/ /\ pipe'[r] = IF r = s THEN pipe[r] + 1 ELSE pipe[r]
            /\ sent'[r] = IF r = s THEN sent[r] + 1 ELSE sent[r]
      /\ UNCHANGED <<kind, pc, result, reader, capture, log, text>>
  BY DEF WriteChunk, Puts, NoWriter, Alive, threads, TypeOK, StreamTypes
<1>2. ChunksInv(r) /\ ReaderInv(r) /\ ReceivedInv(r)
  BY DEF OutputInv
<1>3. ChunksInv(r)'
  BY <1>1, <1>2, Amounts DEF ChunksInv
<1>4. ReaderInv(r)'
  BY <1>1, <1>2, Amounts DEF ReaderInv, LogOf
<1>5. ReceivedInv(r)'
  BY <1>1, <1>2, Amounts DEF ReceivedInv
<1> QED BY <1>3, <1>4, <1>5

\* So does a helper.
LEMMA HelperWritesKeepsOutput ==
    ASSUME TypeOK, WaitInv, OutputInv, NEW s \in Streams, NEW r \in Streams,
           HelperWrites(s),
           UNCHANGED <<kind, pc, result, clock, prompt, threads, text>>
    PROVE  ChunksInv(r)' /\ ReaderInv(r)' /\ ReceivedInv(r)'
<1>1. /\ ~NoWriter
      /\ \/ UNCHANGED <<pipe, sent>>
         \/ /\ pipe'[r] = IF r = s THEN pipe[r] + 1 ELSE pipe[r]
            /\ sent'[r] = IF r = s THEN sent[r] + 1 ELSE sent[r]
      /\ UNCHANGED <<kind, pc, result, reader, capture, log, text>>
  BY DEF HelperWrites, Puts, NoWriter, Alive, threads, TypeOK, StreamTypes
<1>2. ChunksInv(r) /\ ReaderInv(r) /\ ReceivedInv(r)
  BY DEF OutputInv
<1>3. ChunksInv(r)'
  BY <1>1, <1>2, Amounts DEF ChunksInv
<1>4. ReaderInv(r)'
  BY <1>1, <1>2, Amounts DEF ReaderInv, LogOf
<1>5. ReceivedInv(r)'
  BY <1>1, <1>2, Amounts DEF ReceivedInv
<1> QED BY <1>3, <1>4, <1>5

\* The steps that move no output.
LEMMA OthersKeepOutput ==
    ASSUME TypeOK, WaitInv, OutputInv, NEW s \in Streams,
           \/ Spawn \/ WritePrompt \/ TryWait \/ TimeUp \/ TakeOutput(s) \/ CheckOutput
           \/ EndDrain \/ Tick
           \/ /\ UNCHANGED <<kind, pc, result, clock, prompt, threads, text>>
              /\ ReadPrompt \/ ForkHelper \/ Exit \/ EndHelper
    PROVE  OutputInv'
<1> USE SizesAreNat, KindsAreKnown
        DEF GoTo, Return, Receive, Take, Streams, None, Alive, NoWriter, TypeOK, WaitTypes,
            WaitInv, OutputInv, ChunksInv, ReaderInv, ReceivedInv, process, threads
<1>1. CASE Spawn
  BY <1>1 DEF Spawn
<1>2. CASE WritePrompt
  BY <1>2 DEF WritePrompt
<1>3. CASE TryWait
  BY <1>3 DEF TryWait
<1>4. CASE TimeUp
  BY <1>4 DEF TimeUp
<1>5. CASE TakeOutput(s)
  BY <1>5 DEF TakeOutput, AfterTake
<1>6. CASE CheckOutput
  BY <1>6 DEF CheckOutput
<1>7. CASE EndDrain
  BY <1>7 DEF EndDrain
<1>8. CASE Tick
  BY <1>8 DEF Tick
<1>9. ASSUME UNCHANGED <<kind, pc, result, clock, prompt, threads, text>>,
             ReadPrompt \/ ForkHelper \/ Exit \/ EndHelper
      PROVE  OutputInv'
  BY <1>9 DEF ReadPrompt, ForkHelper, Exit, EndHelper
<1> QED BY <1>1, <1>2, <1>3, <1>4, <1>5, <1>6, <1>7, <1>8, <1>9

\* Every step keeps OutputInv.
LEMMA OutputStep ==
    ASSUME TypeOK, WaitInv, OutputInv, [Next]_vars
    PROVE  OutputInv'
<1>1. CASE UNCHANGED vars
  BY <1>1 DEF vars, OutputInv, ChunksInv, ReaderInv, ReceivedInv, NoWriter, Alive
<1>2. ASSUME NEW s \in Streams, Actions(s) PROVE OutputInv'
  <2>1. CASE StartReaders
    BY <2>1, StartReadersKeepsOutput DEF OutputInv
  <2>2. CASE ReceiveOutput(s)
    BY <2>2, ReceiveOutputKeepsOutput DEF OutputInv
  <2>3. CASE Drain(s)
    BY <2>3, DrainKeepsOutput DEF OutputInv
  <2>4. CASE ReadChunk(s)
    BY <2>4, ReadChunkKeepsOutput DEF OutputInv
  <2>5. CASE LogChunk(s)
    BY <2>5, LogChunkKeepsOutput DEF OutputInv
  <2>6. CASE EndOfOutput(s)
    BY <2>6, EndOfOutputKeepsOutput DEF OutputInv
  <2>7. ASSUME WriteChunk(s), UNCHANGED <<kind, pc, result, clock, prompt, threads, text>>
        PROVE  OutputInv'
    BY <2>7, WriteChunkKeepsOutput DEF OutputInv
  <2>8. ASSUME HelperWrites(s), UNCHANGED <<kind, pc, result, clock, prompt, threads, text>>
        PROVE  OutputInv'
    BY <2>8, HelperWritesKeepsOutput DEF OutputInv
  <2> QED BY <1>2, <2>1, <2>2, <2>3, <2>4, <2>5, <2>6, <2>7, <2>8, OthersKeepOutput DEF Actions
<1> QED BY <1>1, <1>2, NextCases

\* The invariants hold throughout.
LEMMA OutputAlways == Spec => [](TypeOK /\ WaitInv /\ OutputInv)
<1>1. Init => WaitInv
  BY DEF Init, WaitInv, Streams, Receive, Take
<1>2. Init => OutputInv
  BY SizesAreNat DEF Init, OutputInv, ChunksInv, ReaderInv, ReceivedInv, LogOf, None,
                     Streams, Receive
<1> QED BY <1>1, <1>2, WaitStep, OutputStep, TypeCorrect, PTL DEF Spec

\* A run that succeeds has returned all that was written to its pipes, up to the
\* capture limit (receive_output_reader, wait_with_output).
THEOREM OkOutputIsCompleteAlways == Spec => []OkOutputIsComplete
<1>1. ASSUME TypeOK, OutputInv, result = "ok", NEW s \in Streams
      PROVE  /\ pipe[s] = 0
             /\ text[s] = IF kind = "adapter" /\ sent[s] > CaptureLimit
                          THEN CaptureLimit + 1 ELSE sent[s]
  <2>1. ChunksInv(s) /\ ReaderInv(s) /\ ReceivedInv(s)
    BY <1>1 DEF OutputInv
  <2> QED BY <1>1, <2>1, Amounts DEF ChunksInv, ReaderInv, ReceivedInv
<1>2. TypeOK /\ WaitInv /\ OutputInv => OkOutputIsComplete
  BY <1>1 DEF OkOutputIsComplete
<1> QED BY <1>2, OutputAlways, PTL

\* The stream log of a run that succeeds tells the same output, up to its own limit
\* (append_stream_chunk).
THEOREM OkLogIsCompleteAlways == Spec => []OkLogIsComplete
<1>1. ASSUME TypeOK, OutputInv, result = "ok", kind = "adapter", NEW s \in Streams
      PROVE  log[s] = IF sent[s] >= LogLimit THEN LogLimit + 1 ELSE sent[s]
  <2>1. ChunksInv(s) /\ ReaderInv(s) /\ ReceivedInv(s)
    BY <1>1 DEF OutputInv
  <2> QED BY <1>1, <2>1, Amounts DEF ChunksInv, ReaderInv, ReceivedInv, LogOf
<1>2. TypeOK /\ WaitInv /\ OutputInv => OkLogIsComplete
  BY <1>1 DEF OkLogIsComplete
<1> QED BY <1>2, OutputAlways, PTL
=============================================================================
