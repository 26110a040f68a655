----------------------------- MODULE ProjectMemory -----------------------------
(***************************************************************************)
(* What a project learns from its runs (hepa-memory/src/lib.rs, and the    *)
(* calls run.rs makes of it).  A text is a sequence of words, a pack the   *)
(* sequence of its entries behind a header.  Room is counted in words, and *)
(* the dash before an entry is one of them.                                *)
(***************************************************************************)
EXTENDS Naturals, Sequences, FiniteSets

CONSTANTS MaxPatternEntries, MaxRewardEntries,    \* 200 and 500
          ByteBudget, HeaderBytes,                \* 16 KB, and what the header takes of it
          PrivateWord                             \* a path, a home directory

\* is_terminal_lane_state: blocked and failed lanes teach something, too.
Teaches(state) == state \in {"Completed", "Blocked", "Failed", "Cancelled", "Cleaned"}

\* redact
Redact(text) == [i \in DOMAIN text |-> IF text[i] \in PrivateWord THEN "<path>" ELSE text[i]]

Newest(entries, most) ==
    IF Len(entries) > most THEN SubSeq(entries, Len(entries) - most + 1, Len(entries)) ELSE entries

\* The room the first n entries and the header take.
Room(entries, n) ==
    LET room[i \in 0..n] ==
            IF i = 0 THEN HeaderBytes ELSE room[i - 1] + 1 + Len(entries[i])
    IN  room[n]

\* write_bounded: the end of the text is what does not fit, and of the entry
\* in which it ends the first words stay.
Bounded(entries) ==
    LET fit  == {n \in 0..Len(entries) : Room(entries, n) <= ByteBudget}
        last == IF fit = {} THEN 0 ELSE CHOOSE n \in fit : \A k \in fit : k <= n
        left == ByteBudget - (Room(entries, last) + 1)
    IN  IF last = Len(entries) \/ left <= 0 THEN SubSeq(entries, 1, last)
        ELSE Append(SubSeq(entries, 1, last), SubSeq(entries[last + 1], 1, left))

\* append_pattern: the pack afterwards, and whether the caller is told that an
\* entry was written.
AppendPattern(pack, state, text) ==
    LET entry == Redact(text)
    IN  IF ~Teaches(state) \/ entry = <<>> \/ (\E i \in DOMAIN pack : pack[i] = entry)
        THEN [pack |-> pack, written |-> FALSE]
        ELSE [pack |-> Bounded(Newest(Append(pack, entry), MaxPatternEntries)), written |-> TRUE]

\* record_reward
RecordReward(rewards, signal) ==
    IF signal.laneIsSafe THEN Newest(Append(rewards, signal), MaxRewardEntries) ELSE rewards

\* retry_brief_failure_context: what the brief of a repair is told.
FailureContext(memory) == memory.failures

\* record_terminal_memory: every part is tried, and none has to succeed.  The
\* identifiers are made safe, so the reward of any lane is recorded.
RecordTerminal(memory, run) ==
    [ prompts  |-> AppendPattern(memory.prompts, run.state, run.prompt).pack,
      failures |-> IF run.failure = {} THEN memory.failures
                   ELSE AppendPattern(memory.failures, run.state,
                                      CHOOSE f \in run.failure : TRUE).pack,
      lessons  |-> AppendPattern(memory.lessons, run.state, <<run.adapter, run.state>>).pack,
      rewards  |-> RecordReward(memory.rewards,
                       [ laneIsSafe |-> TRUE, validation |-> run.validation,
                         review |-> run.review, pr |-> run.pr, ci |-> run.pr,
                         merged |-> FALSE, repaired |-> run.repaired ]) ]

\* finish_blocked_live_run calls every run a failed one, and its adapter live,
\* however far it came.
BlockedRun(prompt, reason) ==
    [ state |-> "Blocked", adapter |-> "live", prompt |-> prompt, failure |-> {reason},
      validation |-> FALSE, review |-> FALSE, pr |-> FALSE, repaired |-> FALSE ]
=============================================================================
