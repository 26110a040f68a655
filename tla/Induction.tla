------------------------------- MODULE Induction -------------------------------
(***************************************************************************)
(* Induction for proofs about what is computed step by step.  The theorems *)
(* of the library have a predicate for a parameter; here the numbers for   *)
(* which something holds are a set.                                        *)
(***************************************************************************)
EXTENDS Naturals, WellFoundedInduction, TLAPS

\* What holds for 0, and for n + 1 whenever it holds for n, holds for every
\* number: the least exception would be the successor of no exception.
LEMMA NatSetInduction ==
    ASSUME NEW S, 0 \in S, \A n \in Nat : n \in S => n + 1 \in S
    PROVE  Nat \subseteq S
<1> DEFINE exceptions == Nat \ S
           before     == OpToRel(<, Nat)
<1> SUFFICES ASSUME exceptions # {} PROVE FALSE
  OBVIOUS
<1>1. \A m, n \in Nat : m < n => <<m, n>> \in before
  BY DEF OpToRel
<1>2. IsWellFoundedOn(before, Nat)
  BY NatLessThanWellFounded
<1> HIDE DEF before
<1>3. PICK n \in exceptions : \A m \in exceptions : <<m, n>> \notin before
  BY <1>2, WFMin
<1>4. n # 0 /\ n - 1 \in Nat /\ n - 1 < n /\ (n - 1) + 1 = n
  BY <1>3
<1>5. n - 1 \notin exceptions
  BY <1>1, <1>3, <1>4
<1> QED BY <1>3, <1>4, <1>5

\* The least of some numbers.
LEMMA LeastExists ==
    ASSUME NEW some \in SUBSET Nat, some # {}
    PROVE  \E m \in some : \A k \in some : m <= k
<1> DEFINE before == OpToRel(<, Nat)
<1>1. \A m, n \in Nat : m < n => <<m, n>> \in before
  BY DEF OpToRel
<1>2. IsWellFoundedOn(before, Nat)
  BY NatLessThanWellFounded
<1> HIDE DEF before
<1>3. PICK n \in some : \A m \in some : <<m, n>> \notin before
  BY <1>2, WFMin
<1>4. \A m \in some : ~(m < n)
  BY <1>1, <1>3
<1> QED BY <1>4

-----------------------------------------------------------------------------
(* A function that is defined by recursion over the numbers up to n exists. *)
(* Without that nothing could be said of its values.                        *)

\* What n steps make of a base: the result of a step depends on the one before
\* it and on its number.
IsRun(f, n, base, step) ==
    f = [i \in 0..n |-> IF i = 0 THEN base ELSE step[<<f[i - 1], i>>]]

LEMMA RunExists ==
    ASSUME NEW base, NEW step, NEW N \in Nat
    PROVE  \E f : IsRun(f, N, base, step)
<1> DEFINE S == {n \in Nat : \E f : IsRun(f, n, base, step)}
<1>1. 0 \in S
  <2> DEFINE g == [i \in 0..0 |-> base]
  <2>1. IsRun(g, 0, base, step)
    BY DEF IsRun
  <2> HIDE DEF g
  <2> QED BY <2>1
<1>2. ASSUME NEW n \in Nat, n \in S
      PROVE  n + 1 \in S
  <2>1. PICK f : IsRun(f, n, base, step)
    BY <1>2
  <2> DEFINE g == [i \in 0..(n + 1) |-> IF i = n + 1 THEN step[<<f[n], n + 1>>] ELSE f[i]]
             h == [i \in 0..(n + 1) |-> IF i = 0 THEN base ELSE step[<<g[i - 1], i>>]]
  <2>2. ASSUME NEW i \in 0..(n + 1)
        PROVE  g[i] = h[i]
    <3>1. CASE i = n + 1
      <4>1. i - 1 = n /\ i # 0 /\ n \in 0..(n + 1) /\ n # n + 1
        BY <3>1
      <4>2. g[n] = f[n]
        BY <4>1
      <4> QED BY <3>1, <4>1, <4>2
    <3>2. CASE i # n + 1
      <4>1. i \in 0..n /\ g[i] = f[i]
        BY <3>2
      <4>2. f[i] = IF i = 0 THEN base ELSE step[<<f[i - 1], i>>]
        BY <2>1, <4>1 DEF IsRun
      <4>3. i # 0 => i - 1 \in 0..(n + 1) /\ i - 1 # n + 1 /\ g[i - 1] = f[i - 1]
        BY <4>1
      <4> QED BY <4>1, <4>2, <4>3
    <3> QED BY <3>1, <3>2
  <2>3. g = h
    BY <2>2
  <2>4. IsRun(g, n + 1, base, step)
    BY <2>3 DEF IsRun
  <2> HIDE DEF g
  <2> QED BY <2>4
<1> HIDE DEF S
<1>3. N \in S
  BY <1>1, <1>2, NatSetInduction
<1> QED BY <1>3 DEF S

\* If the steps lead from results to results, all that comes out is a result.
LEMMA RunStays ==
    ASSUME NEW Results, NEW base \in Results, NEW N \in Nat,
           NEW step, \A n \in 1..N, r \in Results : step[<<r, n>>] \in Results,
           NEW f, IsRun(f, N, base, step)
    PROVE  f \in [0..N -> Results]
<1> DEFINE S == {n \in Nat : n <= N => f[n] \in Results}
<1>1. 0 \in S
  BY DEF IsRun
<1>2. ASSUME NEW n \in Nat, n \in S
      PROVE  n + 1 \in S
  <2> SUFFICES ASSUME n + 1 <= N
               PROVE  f[n + 1] \in Results
    OBVIOUS
  <2>1. n + 1 \in 1..N /\ n + 1 \in 0..N /\ n + 1 # 0 /\ (n + 1) - 1 = n /\ f[n] \in Results
    BY <1>2
  <2>2. f[n + 1] = step[<<f[n], n + 1>>]
    BY <2>1 DEF IsRun
  <2> QED BY <2>1, <2>2
<1> HIDE DEF S
<1>3. Nat \subseteq S
  BY <1>1, <1>2, NatSetInduction
<1>4. \A n \in 0..N : f[n] \in Results
  BY <1>3 DEF S
<1> QED BY <1>4 DEF IsRun
================================================================================
