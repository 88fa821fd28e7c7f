------------------------------- MODULE Passes -------------------------------
(***************************************************************************)
(* A loop that does Step for each member of a sequence, and what it keeps. *)
(* The loops of Memory are instances, one for each function that they      *)
(* repeat.                                                                 *)
(***************************************************************************)
EXTENDS Integers, Sequences, FiniteSetTheorems, TLAPS

CONSTANT Step(_, _)

Loop(s, xs) ==
    LET pass[k \in 0 .. Len(xs)] == IF k = 0 THEN s ELSE Step(pass[k - 1], xs[k])
    IN  pass[Len(xs)]

\* h is what the first n passes compute.
Computes(h, s, xs, n) ==
    h = [k \in 0 .. n |-> IF k = 0 THEN s ELSE Step(h[k - 1], xs[k])]

\* Every set of natural numbers that has a member has a least one.
LEMMA LeastNat ==
    ASSUME NEW T \in SUBSET Nat, T # {}
    PROVE  \E m \in T : \A n \in T : m <= n
<1> DEFINE Below(n) == 1 .. n
           Belows == {Below(n) : n \in T}
<1>1. Belows \subseteq FiniteSubsetsOf(Nat)
  <2>1. \A n \in T : IsFiniteSet(Below(n)) /\ Below(n) \subseteq Nat
    BY FS_Interval
  <2> QED BY <2>1 DEF FiniteSubsetsOf
<1>2. IsWellFoundedOn(StrictSubsetOrdering(Nat), FiniteSubsetsOf(Nat))
  BY FS_StrictSubsetOrderingWellFounded
<1>3. PICK x \in Belows : \A y \in Belows : ~(<<y, x>> \in StrictSubsetOrdering(Nat))
  <2>1. Belows # {}
    OBVIOUS
  <2> HIDE DEF Belows
  <2> QED BY <1>1, <1>2, <2>1, WFMin
<1>4. PICK m \in T : x = Below(m)
  OBVIOUS
<1>5. ASSUME NEW n \in T, n < m PROVE FALSE
  <2>1. Below(n) \subseteq Below(m) /\ Below(n) \subseteq Nat /\ Below(m) \subseteq Nat
    BY <1>5
  <2>2. m \in Below(m) /\ m \notin Below(n)
    BY <1>5
  <2>3. <<Below(n), Below(m)>> \in StrictSubsetOrdering(Nat)
    BY <2>1, <2>2 DEF StrictSubsetOrdering
  <2> QED BY <1>3, <1>4, <2>3
<1> QED BY <1>5

\* What is true at first, and after a pass if it was before, is true at last.
LEMMA AllPasses ==
    ASSUME NEW n \in Nat, NEW P, 0 \in P, \A k \in 1 .. n : k - 1 \in P => k \in P
    PROVE  n \in P
<1> DEFINE T == {k \in 0 .. n : k \notin P}
<1>1. SUFFICES ASSUME T # {} PROVE FALSE
  OBVIOUS
<1>2. PICK m \in T : \A k \in T : m <= k
  <2>1. T \in SUBSET Nat
    OBVIOUS
  <2> HIDE DEF T
  <2> QED BY <1>1, <2>1, LeastNat
<1>3. m \in 1 .. n /\ m - 1 \in 0 .. n /\ m - 1 \notin T
  BY <1>2
<1> QED BY <1>2, <1>3

\* There is such a function, for any number of passes.
LEMMA ComputesExist ==
    ASSUME NEW s, NEW xs, NEW n \in Nat
    PROVE  \E h : Computes(h, s, xs, n)
<1> DEFINE P == {k \in Nat : \E h : Computes(h, s, xs, k)}
<1>1. 0 \in P
  <2>1. PICK h : h = [k \in 0 .. 0 |-> s]
    OBVIOUS
  <2>2. \A k \in 0 .. 0 : k = 0
    OBVIOUS
  <2>3. Computes(h, s, xs, 0)
    BY <2>1, <2>2 DEF Computes
  <2> QED BY <2>3
<1>2. ASSUME NEW m \in 1 .. n, m - 1 \in P PROVE m \in P
  <2>1. PICK h : Computes(h, s, xs, m - 1)
    BY <1>2
  <2>2. PICK g : g = [k \in 0 .. m |-> IF k = m THEN Step(h[m - 1], xs[m]) ELSE h[k]]
    OBVIOUS
  <2>3. \A k \in 0 .. m - 1 : g[k] = h[k]
    BY <2>2
  <2>4. ASSUME NEW k \in 0 .. m
        PROVE  g[k] = IF k = 0 THEN s ELSE Step(g[k - 1], xs[k])
    <3>1. CASE k = m
      <4>1. g[m] = Step(h[m - 1], xs[m]) /\ g[m - 1] = h[m - 1]
        BY <2>2, <2>3
      <4> QED BY <3>1, <4>1
    <3>2. CASE k # m
      <4>1. k \in 0 .. m - 1 /\ (k # 0 => k - 1 \in 0 .. m - 1)
        BY <3>2
      <4>2. h[k] = IF k = 0 THEN s ELSE Step(h[k - 1], xs[k])
        BY <2>1, <4>1 DEF Computes
      <4>3. k # 0 => g[k - 1] = h[k - 1]
        BY <2>3, <4>1
      <4>4. g[k] = h[k]
        BY <2>3, <4>1
      <4> QED BY <4>2, <4>3, <4>4
    <3> QED BY <3>1, <3>2
  <2>5. Computes(g, s, xs, m)
    BY <2>2, <2>4 DEF Computes
  <2> QED BY <2>5
<1>3. n \in P
  <2> HIDE DEF P
  <2> QED BY <1>1, <1>2, AllPasses
<1> QED BY <1>3

\* The rule for loops: if s is one of the states that are good before the first pass,
\* and each pass leads from the states that are good before it to those that are good
\* before the next one, then the loop ends in a state that is good after the last.
THEOREM LoopKeeps ==
    ASSUME NEW s, NEW xs, Len(xs) \in Nat, NEW Good, s \in Good[0],
           \A k \in 1 .. Len(xs) : \A t \in Good[k - 1] : Step(t, xs[k]) \in Good[k]
    PROVE  Loop(s, xs) \in Good[Len(xs)]
<1> DEFINE n == Len(xs)
<1>1. PICK h : Computes(h, s, xs, n) /\ Loop(s, xs) = h[n]
  <2>1. PICK h : h = CHOOSE c : Computes(c, s, xs, n)
    OBVIOUS
  <2>2. Computes(h, s, xs, n)
    BY <2>1, ComputesExist
  <2>3. Loop(s, xs) = (CHOOSE c : Computes(c, s, xs, n))[n]
    BY Zenon DEF Loop, Computes
  <2> QED BY <2>1, <2>2, <2>3
<1> DEFINE P == {k \in 0 .. n : h[k] \in Good[k]}
<1>2. 0 \in P
  BY <1>1 DEF Computes
<1>3. ASSUME NEW k \in 1 .. n, k - 1 \in P PROVE k \in P
  <2>1. h[k] = Step(h[k - 1], xs[k])
    BY <1>1 DEF Computes
  <2> QED BY <1>3, <2>1
<1>4. n \in P
  <2> HIDE DEF P, n
  <2>1. n \in Nat
    BY DEF n
  <2> QED BY <1>2, <1>3, <2>1, AllPasses
<1> QED BY <1>1, <1>4
=============================================================================
