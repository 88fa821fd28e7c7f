--------------------------- MODULE ProcessProofs ---------------------------
(***************************************************************************)
(* What Process guarantees for any number of processes.  Before that,      *)
(* proofs about TimerList, the list of the timers that do_sleep sets: the  *)
(* two share no state.                                                     *)
(***************************************************************************)
EXTENDS Process, TimerList, SequenceTheorems, FiniteSetTheorems, WellFoundedInduction,
        TLAPS

-----------------------------------------------------------------------------
(***************************************************************************)
(* TimerList, for any processes and any times: the head of the list has    *)
(* ticks left, and the list of deltas implements a count of ticks for each *)
(* sleeper.                                                                *)
(***************************************************************************)
\* The ticks up to each timer of the list l, and what makes a function that.
Ticks(l) ==
    CHOOSE f : f = [k \in 0 .. Len(l) |-> IF k = 0 THEN 0 ELSE f[k - 1] + l[k].expires]

IsTicks(h, l) ==
    /\ h \in [0 .. Len(l) -> Nat]
    /\ h[0] = 0
    /\ \A k \in 1 .. Len(l) : h[k] = h[k - 1] + l[k].expires

\* A process has one timer at most.
OncePerProc(l) == \A i, j \in DOMAIN l : l[i].proc = l[j].proc => i = j

HeadInv(l) == l # <<>> => l[1].expires > 0

\* What the tick and the operations rely on, for the list l.
Good(l) ==
    /\ l \in Seq(Timer)
    /\ OncePerProc(l)
    /\ HeadInv(l)
    /\ \A k \in DOMAIN l : Ticks(l)[k] <= MaxTime

TimerInv == Good(list) /\ awake \subseteq Sleeper

-----------------------------------------------------------------------------
\* Every set of natural numbers that has a member has a least one.
LEMMA LeastNat ==
    ASSUME NEW T \in SUBSET Nat, T # {}
    PROVE  \E m \in T : \A n \in T : m <= n
<1> DEFINE Below(n) == 1 .. n
           Sets == {Below(n) : n \in T}
<1>1. Sets \subseteq FiniteSubsetsOf(Nat)
  <2>1. \A n \in T : IsFiniteSet(Below(n)) /\ Below(n) \subseteq Nat
    BY FS_Interval
  <2> QED BY <2>1 DEF FiniteSubsetsOf
<1>2. IsWellFoundedOn(StrictSubsetOrdering(Nat), FiniteSubsetsOf(Nat))
  BY FS_StrictSubsetOrderingWellFounded
<1>3. PICK x \in Sets : \A y \in Sets : ~(<<y, x>> \in StrictSubsetOrdering(Nat))
  <2>1. Sets # {}
    OBVIOUS
  <2> HIDE DEF Sets
  <2> QED BY <1>1, <1>2, <2>1, WFMin
<1>4. PICK m \in T : x = Below(m)
  OBVIOUS
<1>5. ASSUME NEW n \in T, n < m PROVE FALSE
  <2>1. Below(n) \subseteq Below(m) /\ Below(n) \subseteq Nat /\ Below(m) \subseteq Nat
    BY <1>5
  <2>2. m \in Below(m) /\ m \notin Below(n)
    BY <1>5
  <2>3. <<Below(n), Below(m)>> \in StrictSubsetOrdering(Nat)
    BY <2>1, <2>2 DEF StrictSubsetOrdering
  <2> QED BY <1>3, <1>4, <2>3
<1> QED BY <1>5

\* What is in a list.
LEMMA ListFacts ==
    ASSUME NEW l \in Seq(Timer)
    PROVE  /\ Len(l) \in Nat /\ DOMAIN l = 1 .. Len(l)
           /\ \A k \in 1 .. Len(l) :
                /\ l[k] \in Timer /\ l[k].proc \in Sleeper
                /\ l[k].expires \in Nat /\ l[k].expires <= MaxTime
                /\ l[k] = [proc |-> l[k].proc, expires |-> l[k].expires]
<1>1. Len(l) \in Nat /\ DOMAIN l = 1 .. Len(l)
  BY LenProperties
<1>2. ASSUME NEW k \in 1 .. Len(l)
      PROVE  /\ l[k] \in Timer /\ l[k].proc \in Sleeper
             /\ l[k].expires \in Nat /\ l[k].expires <= MaxTime
             /\ l[k] = [proc |-> l[k].proc, expires |-> l[k].expires]
  <2>1. l[k] \in Timer
    BY ElementOfSeq
  <2>2. l[k].proc \in Sleeper /\ l[k].expires \in 0 .. MaxTime
        /\ l[k] = [proc |-> l[k].proc, expires |-> l[k].expires]
    BY <2>1 DEF Timer
  <2> QED BY <2>1, <2>2, TimerAssumption
<1> QED BY <1>1, <1>2

\* A list has one function of ticks.
LEMMA TicksUnique ==
    ASSUME NEW l \in Seq(Timer), NEW g, NEW h, IsTicks(g, l), IsTicks(h, l)
    PROVE  g = h
<1>1. Len(l) \in Nat /\ \A k \in 1 .. Len(l) : l[k].expires \in Nat
  BY ListFacts
<1>2. PICK T : T = {k \in 0 .. Len(l) : g[k] # h[k]}
  OBVIOUS
<1>3. SUFFICES ASSUME T # {} PROVE FALSE
  BY <1>2 DEF IsTicks
<1>4. PICK m \in T : \A n \in T : m <= n
  <2>1. T \in SUBSET Nat
    BY <1>1, <1>2
  <2> QED BY <1>3, <2>1, LeastNat
<1>5. m \in 1 .. Len(l) /\ g[m - 1] = h[m - 1]
  BY <1>1, <1>2, <1>4 DEF IsTicks
<1>6. g[m] = h[m]
  BY <1>5 DEF IsTicks
<1> QED BY <1>2, <1>6

\* A list has a function of ticks.
LEMMA TicksExist ==
    ASSUME NEW l \in Seq(Timer)
    PROVE  IsTicks(Ticks(l), l)
<1>1. Len(l) \in Nat /\ \A k \in 1 .. Len(l) : l[k].expires \in Nat
  BY ListFacts
<1> DEFINE To(h, n) ==
             /\ h \in [0 .. n -> Nat]
             /\ h[0] = 0
             /\ \A k \in 1 .. n : h[k] = h[k - 1] + l[k].expires
           T == {n \in 0 .. Len(l) : ~\E h : To(h, n)}
<1>2. T = {}
  <2>1. SUFFICES ASSUME T # {} PROVE FALSE
    OBVIOUS
  <2>2. PICK m \in T : \A n \in T : m <= n
    <3>1. T \in SUBSET Nat
      BY <1>1
    <3> HIDE DEF T
    <3> QED BY <2>1, <3>1, LeastNat
  <2>3. m # 0
    <3>1. To([k \in 0 .. 0 |-> 0], 0)
      OBVIOUS
    <3> QED BY <3>1
  <2>4. m \in 1 .. Len(l) /\ m - 1 \in 0 .. Len(l) /\ m - 1 \notin T
    <3>1. m \in 0 .. Len(l)
      OBVIOUS
    <3>2. m \in 1 .. Len(l) /\ m - 1 \in 0 .. Len(l) /\ ~(m <= m - 1)
      BY <1>1, <2>3, <3>1
    <3> HIDE DEF T
    <3> QED BY <2>2, <3>2
  <2>5. PICK h : To(h, m - 1)
    BY <2>4
  <2>6. PICK g : g = [k \in 0 .. m |-> IF k = m THEN h[m - 1] + l[m].expires ELSE h[k]]
    OBVIOUS
  <2>7. To(g, m)
    <3>1. h[m - 1] + l[m].expires \in Nat
      BY <1>1, <2>4, <2>5
    <3>2. g \in [0 .. m -> Nat]
      BY <2>4, <2>5, <2>6, <3>1
    <3>3. g[0] = 0
      BY <2>4, <2>5, <2>6
    <3>4. ASSUME NEW k \in 1 .. m PROVE g[k] = g[k - 1] + l[k].expires
      BY <2>4, <2>5, <2>6
    <3> QED BY <3>2, <3>3, <3>4
  <2> QED BY <2>7
<1>3. PICK h : To(h, Len(l))
  BY <1>1, <1>2
<1>4. h = [k \in 0 .. Len(l) |-> IF k = 0 THEN 0 ELSE h[k - 1] + l[k].expires]
  BY <1>1, <1>3
<1>5. PICK t : t = Ticks(l)
  OBVIOUS
<1>6. t = [k \in 0 .. Len(l) |-> IF k = 0 THEN 0 ELSE t[k - 1] + l[k].expires]
  BY <1>4, <1>5 DEF Ticks
<1>7. \A k \in 0 .. Len(l) : t[k] = h[k]
  <2>1. PICK D : D = {k \in 0 .. Len(l) : t[k] # h[k]}
    OBVIOUS
  <2>2. SUFFICES ASSUME D # {} PROVE FALSE
    BY <2>1
  <2>3. PICK m \in D : \A n \in D : m <= n
    <3>1. D \in SUBSET Nat
      BY <1>1, <2>1
    <3> QED BY <2>2, <3>1, LeastNat
  <2>4. m # 0 /\ t[m - 1] = h[m - 1] /\ m \in 1 .. Len(l)
    BY <1>1, <1>3, <1>6, <2>1, <2>3
  <2>5. t[m] = t[m - 1] + l[m].expires
    BY <1>6, <2>4
  <2>6. h[m] = h[m - 1] + l[m].expires
    BY <1>3, <2>4
  <2> QED BY <2>1, <2>3, <2>4, <2>5, <2>6
<1>8. t = h
  <2>1. DOMAIN t = 0 .. Len(l) /\ t = [k \in 0 .. Len(l) |-> t[k]]
    BY <1>6
  <2>2. h = [k \in 0 .. Len(l) |-> h[k]]
    BY <1>3
  <2> QED BY <1>7, <2>1, <2>2
<1> QED BY <1>3, <1>5, <1>8 DEF IsTicks

\* A function that is right for the list is the one.
LEMMA TicksAre ==
    ASSUME NEW l \in Seq(Timer), NEW h, IsTicks(h, l)
    PROVE  Ticks(l) = h
<1> QED BY TicksExist, TicksUnique

\* Later timers do not expire earlier.
LEMMA TicksGrow ==
    ASSUME NEW l \in Seq(Timer), NEW h, IsTicks(h, l), NEW i \in 0 .. Len(l)
    PROVE  \A k \in i .. Len(l) : h[i] <= h[k]
<1>1. Len(l) \in Nat /\ \A k \in 1 .. Len(l) : l[k].expires \in Nat
  BY ListFacts
<1>2. PICK D : D = {k \in i .. Len(l) : ~(h[i] <= h[k])}
  OBVIOUS
<1>3. SUFFICES ASSUME D # {} PROVE FALSE
  BY <1>2
<1>4. PICK m \in D : \A n \in D : m <= n
  <2>1. D \in SUBSET Nat
    BY <1>1, <1>2
  <2> QED BY <1>3, <2>1, LeastNat
<1>5. h \in [0 .. Len(l) -> Nat]
  BY DEF IsTicks
<1>6. m # i /\ m \in 1 .. Len(l) /\ m - 1 \in i .. Len(l) /\ m - 1 \notin D
  BY <1>1, <1>2, <1>4, <1>5
<1>7. h[i] <= h[m - 1] /\ h[m] = h[m - 1] + l[m].expires
  BY <1>2, <1>6 DEF IsTicks
<1>8. h[i] \in Nat /\ h[m - 1] \in Nat /\ h[m] \in Nat /\ l[m].expires \in Nat
  <2>1. \A k \in 0 .. Len(l) : h[k] \in Nat
    BY <1>5
  <2>2. m - 1 \in 0 .. Len(l) /\ m \in 0 .. Len(l)
    BY <1>1, <1>6
  <2> QED BY <1>1, <1>6, <2>1, <2>2
<1>9. ~(h[i] <= h[m])
  BY <1>2, <1>4
<1>10. PICK x \in Nat, y \in Nat, z \in Nat, w \in Nat :
         x = h[i] /\ y = h[m - 1] /\ z = h[m] /\ w = l[m].expires
  BY <1>8
<1>11. x <= y /\ z = y + w /\ ~(x <= z)
  BY <1>7, <1>9, <1>10
<1> QED BY <1>11

\* OncePerProc, of a list with n timers.
LEMMA OnceIs ==
    ASSUME NEW l, NEW n, DOMAIN l = 1 .. n,
           \A j, k \in 1 .. n : l[j].proc = l[k].proc => j = k
    PROVE  OncePerProc(l)
<1> QED BY DEF OncePerProc

-----------------------------------------------------------------------------
\* A timer with other ticks.
LEMMA TimerExcept ==
    ASSUME NEW r \in Timer, NEW x
    PROVE  [r EXCEPT !.expires = x] = [proc |-> r.proc, expires |-> x]
BY DEF Timer

\* The ticks of the timer behind one that is inserted.
LEMMA Differences ==
    ASSUME NEW a \in Nat, NEW b \in Nat, NEW c \in Nat, NEW w \in Nat, NEW x \in Nat,
           a = b + c, b + w = x, x < a
    PROVE  c - w = a - x /\ a - x \in Nat /\ a - x <= c
OBVIOUS

LEMMA Sums ==
    ASSUME NEW a \in Nat, NEW b \in Nat, NEW c \in Nat, NEW d \in Nat, NEW e \in Nat,
           a = b + d, b = c + e
    PROVE  d + e = a - c /\ a - c \in Nat /\ a - c >= e /\ a - c <= a
OBVIOUS

LEMMA AtMost ==
    \A x, y, z \in Nat : x <= y /\ y <= z => x <= z /\ x \in 0 .. z
OBVIOUS

\* InsertAt and RemoveAt, member by member.
LEMMA InsertFacts ==
    ASSUME NEW l \in Seq(Timer), NEW i \in 1 .. Len(l) + 1, NEW e \in Timer
    PROVE  /\ InsertAt(l, i, e) \in Seq(Timer)
           /\ Len(InsertAt(l, i, e)) = Len(l) + 1
           /\ \A k \in 1 .. i - 1 : InsertAt(l, i, e)[k] = l[k]
           /\ InsertAt(l, i, e)[i] = e
           /\ \A k \in i .. Len(l) : InsertAt(l, i, e)[k + 1] = l[k]
<1>1. Len(l) \in Nat /\ \A k \in 1 .. Len(l) : l[k] \in Timer
  BY ListFacts
<1>2. PICK s, t : s = SubSeq(l, 1, i - 1) /\ t = SubSeq(l, i, Len(l))
  OBVIOUS
<1>3. s \in Seq(Timer) /\ Len(s) = i - 1 /\ \A k \in 1 .. i - 1 : s[k] = l[k]
  <2>1. \A k \in 1 .. i - 1 : l[k] \in Timer
    BY <1>1
  <2>2. /\ s \in Seq(Timer) /\ Len(s) = IF 1 <= i - 1 THEN i - 1 - 1 + 1 ELSE 0
        /\ \A k \in 1 .. i - 1 - 1 + 1 : s[k] = l[1 + k - 1]
    BY <1>1, <1>2, <2>1, SubSeqProperties
  <2>3. i - 1 \in Nat /\ (IF 1 <= i - 1 THEN i - 1 - 1 + 1 ELSE 0) = i - 1
    BY <1>1
  <2>4. ASSUME NEW k \in 1 .. i - 1 PROVE s[k] = l[k]
    <3>1. k \in 1 .. i - 1 - 1 + 1 /\ 1 + k - 1 = k
      BY <1>1
    <3> QED BY <2>2, <3>1
  <2>5. Len(s) = i - 1
    BY <2>2, <2>3
  <2> QED BY <2>2, <2>4, <2>5
<1>4. /\ t \in Seq(Timer) /\ Len(t) = Len(l) - i + 1
      /\ \A k \in 1 .. Len(l) - i + 1 : t[k] = l[i + k - 1]
  <2>1. \A k \in i .. Len(l) : l[k] \in Timer
    BY <1>1
  <2>2. /\ t \in Seq(Timer) /\ Len(t) = IF i <= Len(l) THEN Len(l) - i + 1 ELSE 0
        /\ \A k \in 1 .. Len(l) - i + 1 : t[k] = l[i + k - 1]
    BY <1>1, <1>2, <2>1, SubSeqProperties
  <2>3. Len(t) = Len(l) - i + 1
    BY <1>1, <2>2
  <2> QED BY <2>2, <2>3
<1>5. PICK u : u = s \o <<e>>
  OBVIOUS
<1>6. /\ u \in Seq(Timer) /\ Len(u) = i
      /\ \A k \in 1 .. i : u[k] = IF k < i THEN l[k] ELSE e
  <2>1. Append(s, e) = u
    BY <1>3, <1>5, AppendIsConcat
  <2>2. /\ u \in Seq(Timer) /\ Len(u) = Len(s) + 1
        /\ \A k \in 1 .. Len(s) : u[k] = s[k]
        /\ u[Len(s) + 1] = e
    <3>1. /\ Append(s, e) \in Seq(Timer) /\ Len(Append(s, e)) = Len(s) + 1
          /\ \A k \in 1 .. Len(s) : Append(s, e)[k] = s[k]
          /\ Append(s, e)[Len(s) + 1] = e
      BY <1>3, AppendProperties
    <3> QED BY <2>1, <3>1
  <2>3. Len(s) + 1 = i
    BY <1>3
  <2>4. ASSUME NEW k \in 1 .. i PROVE u[k] = IF k < i THEN l[k] ELSE e
    BY <1>3, <2>2, <2>3
  <2> QED BY <2>2, <2>3, <2>4
<1>7. /\ u \o t \in Seq(Timer) /\ Len(u \o t) = Len(l) + 1
      /\ \A k \in 1 .. Len(l) + 1 : (u \o t)[k] = IF k <= i THEN u[k] ELSE t[k - i]
  <2>1. Len(u) = i /\ Len(u) + Len(t) = Len(l) + 1
    BY <1>1, <1>4, <1>6
  <2>2. /\ u \o t \in Seq(Timer) /\ Len(u \o t) = Len(u) + Len(t)
        /\ \A k \in 1 .. Len(u) + Len(t) : (u \o t)[k] = IF k <= Len(u) THEN u[k] ELSE t[k - Len(u)]
    BY <1>4, <1>6, ConcatProperties
  <2> QED BY <2>1, <2>2
<1>8. ASSUME NEW k \in 1 .. i - 1 PROVE (u \o t)[k] = l[k]
  <2>1. k \in 1 .. Len(l) + 1 /\ k <= i /\ k \in 1 .. i /\ k < i
    BY <1>1
  <2> QED BY <1>6, <1>7, <2>1
<1>9. (u \o t)[i] = e
  <2>1. i \in 1 .. Len(l) + 1 /\ i <= i /\ i \in 1 .. i /\ ~(i < i)
    BY <1>1
  <2> QED BY <1>6, <1>7, <2>1
<1>10. ASSUME NEW k \in i .. Len(l) PROVE (u \o t)[k + 1] = l[k]
  <2>1. /\ k + 1 \in 1 .. Len(l) + 1 /\ ~(k + 1 <= i)
        /\ k + 1 - i \in 1 .. Len(l) - i + 1 /\ i + (k + 1 - i) - 1 = k
    BY <1>1
  <2>2. (u \o t)[k + 1] = t[k + 1 - i]
    BY <1>7, <2>1
  <2>3. t[k + 1 - i] = l[i + (k + 1 - i) - 1]
    BY <1>4, <2>1
  <2> QED BY <2>1, <2>2, <2>3
<1>11. InsertAt(l, i, e) = u \o t
  BY <1>2, <1>5 DEF InsertAt
<1> QED BY <1>7, <1>8, <1>9, <1>10, <1>11

LEMMA RemoveFacts ==
    ASSUME NEW l \in Seq(Timer), NEW i \in 1 .. Len(l)
    PROVE  /\ RemoveAt(l, i) \in Seq(Timer)
           /\ Len(RemoveAt(l, i)) = Len(l) - 1
           /\ \A k \in 1 .. Len(l) - 1 : RemoveAt(l, i)[k] = l[IF k < i THEN k ELSE k + 1]
<1>1. Len(l) \in Nat /\ \A k \in 1 .. Len(l) : l[k] \in Timer
  BY ListFacts
<1>2. PICK s, t : s = SubSeq(l, 1, i - 1) /\ t = SubSeq(l, i + 1, Len(l))
  OBVIOUS
<1>3. s \in Seq(Timer) /\ Len(s) = i - 1 /\ \A k \in 1 .. i - 1 : s[k] = l[k]
  <2>1. \A k \in 1 .. i - 1 : l[k] \in Timer
    BY <1>1
  <2>2. /\ s \in Seq(Timer) /\ Len(s) = IF 1 <= i - 1 THEN i - 1 - 1 + 1 ELSE 0
        /\ \A k \in 1 .. i - 1 - 1 + 1 : s[k] = l[1 + k - 1]
    BY <1>1, <1>2, <2>1, SubSeqProperties
  <2>3. i - 1 \in Nat /\ (IF 1 <= i - 1 THEN i - 1 - 1 + 1 ELSE 0) = i - 1
    BY <1>1
  <2>4. ASSUME NEW k \in 1 .. i - 1 PROVE s[k] = l[k]
    <3>1. k \in 1 .. i - 1 - 1 + 1 /\ 1 + k - 1 = k
      BY <1>1
    <3> QED BY <2>2, <3>1
  <2>5. Len(s) = i - 1
    BY <2>2, <2>3
  <2> QED BY <2>2, <2>4, <2>5
<1>4. /\ t \in Seq(Timer) /\ Len(t) = Len(l) - i
      /\ \A k \in 1 .. Len(l) - i : t[k] = l[i + k]
  <2>1. \A k \in i + 1 .. Len(l) : l[k] \in Timer
    BY <1>1
  <2>2. /\ t \in Seq(Timer) /\ Len(t) = IF i + 1 <= Len(l) THEN Len(l) - (i + 1) + 1 ELSE 0
        /\ \A k \in 1 .. Len(l) - (i + 1) + 1 : t[k] = l[i + 1 + k - 1]
    BY <1>1, <1>2, <2>1, SubSeqProperties
  <2>3. Len(t) = Len(l) - i
    BY <1>1, <2>2
  <2>4. ASSUME NEW k \in 1 .. Len(l) - i PROVE t[k] = l[i + k]
    <3>1. k \in 1 .. Len(l) - (i + 1) + 1 /\ i + 1 + k - 1 = i + k
      BY <1>1
    <3> QED BY <2>2, <3>1
  <2> QED BY <2>2, <2>3, <2>4
<1>5. /\ s \o t \in Seq(Timer) /\ Len(s \o t) = Len(l) - 1
      /\ \A k \in 1 .. Len(l) - 1 : (s \o t)[k] = IF k <= i - 1 THEN s[k] ELSE t[k - (i - 1)]
  <2>1. Len(s) = i - 1 /\ Len(s) + Len(t) = Len(l) - 1
    BY <1>1, <1>3, <1>4
  <2>2. /\ s \o t \in Seq(Timer) /\ Len(s \o t) = Len(s) + Len(t)
        /\ \A k \in 1 .. Len(s) + Len(t) : (s \o t)[k] = IF k <= Len(s) THEN s[k] ELSE t[k - Len(s)]
    BY <1>3, <1>4, ConcatProperties
  <2> QED BY <2>1, <2>2
<1>6. ASSUME NEW k \in 1 .. Len(l) - 1
      PROVE  (s \o t)[k] = l[IF k < i THEN k ELSE k + 1]
  <2>1. CASE k < i
    BY <1>1, <1>3, <1>5, <2>1
  <2>2. CASE ~(k < i)
    <3>1. k - (i - 1) \in 1 .. Len(l) - i /\ i + (k - (i - 1)) = k + 1 /\ ~(k <= i - 1)
      BY <1>1, <2>2
    <3>2. (s \o t)[k] = t[k - (i - 1)]
      BY <1>5, <3>1
    <3> QED BY <1>4, <2>2, <3>1, <3>2
  <2> QED BY <2>1, <2>2
<1>7. RemoveAt(l, i) = s \o t
  BY <1>2 DEF RemoveAt
<1> QED BY <1>5, <1>6, <1>7

-----------------------------------------------------------------------------
\* The ticks left of each process, by the list l.
LeftOf(l) ==
    [p \in Sleeper |->
       IF \E i \in DOMAIN l : l[i].proc = p
       THEN Ticks(l)[CHOOSE i \in DOMAIN l : l[i].proc = p] ELSE 0]

LEMMA LeftFacts ==
    ASSUME NEW l \in Seq(Timer), OncePerProc(l)
    PROVE  /\ LeftOf(l) \in [Sleeper -> Nat]
           /\ \A i \in DOMAIN l : LeftOf(l)[l[i].proc] = Ticks(l)[i]
           /\ \A p \in Sleeper : (\A i \in DOMAIN l : l[i].proc # p) => LeftOf(l)[p] = 0
<1>1. /\ DOMAIN l = 1 .. Len(l) /\ Len(l) \in Nat /\ Ticks(l) \in [0 .. Len(l) -> Nat]
      /\ \A i \in DOMAIN l : l[i].proc \in Sleeper
  BY ListFacts, TicksExist DEF IsTicks
<1>2. ASSUME NEW i \in DOMAIN l
      PROVE  LeftOf(l)[l[i].proc] = Ticks(l)[i]
  <2>1. (CHOOSE j \in DOMAIN l : l[j].proc = l[i].proc) = i
    BY DEF OncePerProc
  <2> QED BY <1>1, <2>1 DEF LeftOf
<1>3. ASSUME NEW p \in Sleeper, \A i \in DOMAIN l : l[i].proc # p
      PROVE  LeftOf(l)[p] = 0
  BY <1>3 DEF LeftOf
<1>4. ASSUME NEW p \in Sleeper PROVE LeftOf(l)[p] \in Nat
  <2>1. CASE \A i \in DOMAIN l : l[i].proc # p
    BY <1>3, <2>1
  <2>2. CASE \E i \in DOMAIN l : l[i].proc = p
    BY <1>1, <1>2, <2>2
  <2> QED BY <2>1, <2>2
<1>5. LeftOf(l) \in [Sleeper -> Nat]
  BY <1>4 DEF LeftOf
<1> QED BY <1>2, <1>3, <1>5

\* Who says the same of every process as the list, is it.
LEMMA LeftIs ==
    ASSUME NEW l \in Seq(Timer), OncePerProc(l), NEW f \in [Sleeper -> Nat],
           \A i \in DOMAIN l : f[l[i].proc] = Ticks(l)[i],
           \A p \in Sleeper : (\A i \in DOMAIN l : l[i].proc # p) => f[p] = 0
    PROVE  LeftOf(l) = f
<1>1. ASSUME NEW p \in Sleeper PROVE LeftOf(l)[p] = f[p]
  <2>1. CASE \A i \in DOMAIN l : l[i].proc # p
    BY <2>1, LeftFacts
  <2>2. CASE \E i \in DOMAIN l : l[i].proc = p
    BY <2>2, LeftFacts
  <2> QED BY <2>1, <2>2
<1>2. LeftOf(l) \in [Sleeper -> Nat]
  BY LeftFacts
<1> QED BY <1>1, <1>2

-----------------------------------------------------------------------------
\* The list l with a timer for p at place i.
Inserted(l, p, time, i) ==
    LET delta == time - Ticks(l)[i - 1]
    IN  InsertAt(IF i <= Len(l) THEN [l EXCEPT ![i].expires = @ - delta] ELSE l,
                 i, [proc |-> p, expires |-> delta])

\* A new timer at its place: the others keep their ticks.
LEMMA InsertKeeps ==
    ASSUME NEW l \in Seq(Timer), Good(l),
           NEW p \in Sleeper, \A j \in DOMAIN l : l[j].proc # p,
           NEW time \in 1 .. MaxTime,
           NEW i \in 1 .. Len(l) + 1,
           Ticks(l)[i - 1] <= time, i <= Len(l) => time < Ticks(l)[i],
           NEW m, m = Inserted(l, p, time, i)
    PROVE  Good(m) /\ LeftOf(m) = [LeftOf(l) EXCEPT ![p] = time]
<1> PICK delta : delta = time - Ticks(l)[i - 1]
  OBVIOUS
<1> PICK rest : rest = IF i <= Len(l) THEN [l EXCEPT ![i].expires = @ - delta] ELSE l
  OBVIOUS
<1> PICK fresh : fresh = [proc |-> p, expires |-> delta]
  OBVIOUS
<1> m = InsertAt(rest, i, fresh)
  BY DEF Inserted
<1>1. /\ Len(l) \in Nat /\ DOMAIN l = 1 .. Len(l) /\ MaxTime \in Nat
      /\ \A k \in 1 .. Len(l) :
           /\ l[k] \in Timer /\ l[k].proc \in Sleeper
           /\ l[k].expires \in Nat /\ l[k].expires <= MaxTime
  BY ListFacts, TimerAssumption
<1>2. PICK n \in Nat : n = Len(l)
  BY <1>1
<1>3. PICK t : t = Ticks(l)
  OBVIOUS
<1>4. /\ t \in [0 .. n -> Nat] /\ t[0] = 0
      /\ \A k \in 1 .. n : t[k] = t[k - 1] + l[k].expires
  BY <1>2, <1>3, TicksExist DEF IsTicks
<1>5. i \in Nat /\ 1 <= i /\ i <= n + 1 /\ time \in Nat /\ 1 <= time /\ time <= MaxTime
  BY <1>1, <1>2
<1>6. delta \in Nat /\ delta <= MaxTime /\ t[i - 1] + delta = time
  <2>1. t[i - 1] \in Nat /\ t[i - 1] <= time
    BY <1>3, <1>4, <1>5
  <2>2. PICK a \in Nat : a = t[i - 1]
    BY <2>1
  <2>3. delta = time - a /\ a <= time /\ MaxTime \in Nat
    BY <1>1, <1>3, <2>1, <2>2
  <2>4. delta \in Nat /\ delta <= MaxTime /\ a + delta = time
    BY <1>5, <2>3
  <2> QED BY <2>2, <2>4
<1>7. ASSUME i <= n
      PROVE  l[i].expires - delta = t[i] - time /\ t[i] - time \in Nat /\ t[i] - time <= MaxTime
  <2>1. i \in 1 .. n /\ t[i] = t[i - 1] + l[i].expires /\ t[i] \in Nat /\ t[i - 1] \in Nat
    BY <1>4, <1>5, <1>7
  <2>2. time < t[i] /\ l[i].expires \in Nat /\ l[i].expires <= MaxTime /\ MaxTime \in Nat
    BY <1>1, <1>2, <1>3, <1>7, <2>1
  <2>3. PICK a \in Nat, b \in Nat, c \in Nat : a = t[i] /\ b = t[i - 1] /\ c = l[i].expires
    BY <2>1, <2>2
  <2>4. /\ a = b + c /\ b + delta = time /\ time < a /\ c <= MaxTime
        /\ delta \in Nat /\ time \in Nat /\ MaxTime \in Nat
    BY <1>5, <1>6, <2>1, <2>2, <2>3
  <2>6. c - delta = a - time /\ a - time \in Nat /\ a - time <= c
    BY ONLY <2>4, Differences
  <2>8. a - time <= MaxTime
    BY <2>4, <2>6, AtMost
  <2> QED BY <2>3, <2>6, <2>8
<1>9. fresh \in Timer /\ fresh.proc = p /\ fresh.expires = delta
  BY <1>1, <1>6 DEF Timer
<1>10. /\ rest \in Seq(Timer) /\ Len(rest) = n
       /\ \A k \in 1 .. n : rest[k].proc = l[k].proc
       /\ \A k \in 1 .. n : k # i => rest[k].expires = l[k].expires
       /\ i <= n => rest[i].expires = t[i] - time
  <2>1. CASE i <= n
    <3>1. PICK e : e = [proc |-> l[i].proc, expires |-> t[i] - time]
      OBVIOUS
    <3>2. i \in 1 .. n /\ l[i] \in Timer /\ l[i].proc \in Sleeper /\ l[i].expires - delta = t[i] - time
          /\ t[i] - time \in 0 .. MaxTime
      BY <1>1, <1>2, <1>5, <1>7, <2>1
    <3>3. e \in Timer /\ e.proc = l[i].proc /\ e.expires = t[i] - time
      BY <3>1, <3>2 DEF Timer
    <3>4. rest = [l EXCEPT ![i] = e]
      <4>1. [l[i] EXCEPT !.expires = l[i].expires - delta] = e
        BY <3>1, <3>2, TimerExcept
      <4>2. rest = [l EXCEPT ![i] = [l[i] EXCEPT !.expires = l[i].expires - delta]]
        BY <1>2, <2>1
      <4> QED BY <4>1, <4>2
    <3>5. /\ [l EXCEPT ![i] = e] \in Seq(Timer) /\ Len([l EXCEPT ![i] = e]) = Len(l)
          /\ \A k \in 1 .. Len(l) : [l EXCEPT ![i] = e][k] = IF k = i THEN e ELSE l[k]
      BY <1>2, <3>2, <3>3, ExceptSeq
    <3> QED BY <1>2, <2>1, <3>2, <3>3, <3>4, <3>5
  <2>2. CASE ~(i <= n)
    BY <1>2, <1>5, <2>2
  <2> QED BY <2>1, <2>2
<1>11. /\ m \in Seq(Timer) /\ Len(m) = n + 1
       /\ \A k \in 1 .. i - 1 : m[k] = rest[k]
       /\ m[i] = fresh
       /\ \A k \in i .. n : m[k + 1] = rest[k]
  <2>1. m = InsertAt(rest, i, fresh) /\ i \in 1 .. Len(rest) + 1
    BY <1>5, <1>10
  <2>2. rest \in Seq(Timer) /\ i \in 1 .. Len(rest) + 1 /\ fresh \in Timer
    BY <1>9, <1>10, <2>1
  <2>4. Len(rest) = n
    BY <1>10
  <2>5. /\ m \in Seq(Timer) /\ Len(m) = Len(rest) + 1
        /\ \A k \in 1 .. i - 1 : m[k] = rest[k]
        /\ m[i] = fresh
        /\ \A k \in i .. Len(rest) : m[k + 1] = rest[k]
    <3>1. /\ InsertAt(rest, i, fresh) \in Seq(Timer)
          /\ Len(InsertAt(rest, i, fresh)) = Len(rest) + 1
          /\ \A k \in 1 .. i - 1 : InsertAt(rest, i, fresh)[k] = rest[k]
          /\ InsertAt(rest, i, fresh)[i] = fresh
          /\ \A k \in i .. Len(rest) : InsertAt(rest, i, fresh)[k + 1] = rest[k]
      BY ONLY <2>2, InsertFacts
    <3>2. m \in Seq(Timer) /\ Len(m) = Len(rest) + 1 /\ m[i] = fresh
      BY <2>1, <3>1, Zenon
    <3>3. ASSUME NEW k \in 1 .. i - 1 PROVE m[k] = rest[k]
      <4>1. InsertAt(rest, i, fresh)[k] = rest[k]
        BY <3>1
      <4> QED BY <2>1, <4>1
    <3>4. ASSUME NEW k \in i .. Len(rest) PROVE m[k + 1] = rest[k]
      <4>1. InsertAt(rest, i, fresh)[k + 1] = rest[k]
        BY <3>1
      <4> QED BY <2>1, <4>1
    <3> QED BY <3>2, <3>3, <3>4
  <2> QED BY <2>4, <2>5
<1>12. \A k \in 1 .. i - 1 : m[k].proc = l[k].proc /\ m[k].expires = l[k].expires
  <2>1. ASSUME NEW k \in 1 .. i - 1
        PROVE  m[k].proc = l[k].proc /\ m[k].expires = l[k].expires
    <3>1. k \in 1 .. n /\ k # i
      BY <1>5
    <3>2. rest[k].proc = l[k].proc /\ rest[k].expires = l[k].expires
      BY <1>10, <3>1
    <3> QED BY <1>11, <3>2
  <2> QED BY <2>1
<1>13. m[i].proc = p /\ m[i].expires = delta
  BY <1>9, <1>11
<1>14. \A k \in i .. n : m[k + 1] = rest[k] /\ k \in 1 .. n
  <2>1. ASSUME NEW k \in i .. n PROVE k \in 1 .. n
    BY <1>5
  <2> QED BY <1>11, <2>1
<1>15. /\ \A k \in i .. n : m[k + 1].proc = l[k].proc
       /\ \A k \in i + 1 .. n : m[k + 1].expires = l[k].expires
       /\ i <= n => m[i + 1].expires = t[i] - time
  <2>1. ASSUME NEW k \in i .. n PROVE m[k + 1].proc = l[k].proc
    BY <1>10, <1>14
  <2>2. ASSUME NEW k \in i + 1 .. n PROVE m[k + 1].expires = l[k].expires
    <3>1. k \in i .. n /\ k # i
      BY <1>5
    <3>2. m[k + 1] = rest[k] /\ k \in 1 .. n
      BY <1>14, <3>1
    <3> QED BY <1>10, <3>1, <3>2
  <2>3. ASSUME i <= n PROVE m[i + 1].expires = t[i] - time
    <3>1. i \in i .. n
      BY <1>5, <2>3
    <3>2. m[i + 1] = rest[i]
      BY <1>14, <3>1
    <3> QED BY <1>10, <2>3, <3>2
  <2> QED BY <2>1, <2>2, <2>3
<1>16. PICK h : h = [k \in 0 .. n + 1 |-> IF k < i THEN t[k] ELSE IF k = i THEN time ELSE t[k - 1]]
  OBVIOUS
<1>17. /\ \A k \in 0 .. i - 1 : h[k] = t[k]
       /\ h[i] = time
       /\ \A k \in i .. n : h[k + 1] = t[k]
  <2>1. \A k \in 0 .. i - 1 : h[k] = t[k]
    BY <1>5, <1>16
  <2>2. h[i] = time
    BY <1>5, <1>16
  <2>3. ASSUME NEW k \in i .. n PROVE h[k + 1] = t[k]
    <3>1. k + 1 \in 0 .. n + 1 /\ ~(k + 1 < i) /\ k + 1 # i /\ k + 1 - 1 = k
      BY <1>5
    <3> QED BY <1>16, <3>1
  <2> QED BY <2>1, <2>2, <2>3
\* Every place of m is one of l, or the new one.
<1>18. \A k \in 1 .. n + 1 : k \in 1 .. i - 1 \/ k = i \/ (\E j \in i .. n : k = j + 1)
  <2>1. ASSUME NEW k \in 1 .. n + 1, ~(k < i), k # i
        PROVE  k - 1 \in i .. n /\ k = (k - 1) + 1
    BY <1>5, <2>1
  <2>2. ASSUME NEW k \in 1 .. n + 1, k < i PROVE k \in 1 .. i - 1
    BY <1>5, <2>2
  <2> QED BY <2>1, <2>2
<1>19. IsTicks(h, m)
  <2>1. h \in [0 .. n + 1 -> Nat] /\ h[0] = 0
    <3>1. ASSUME NEW k \in 0 .. n + 1
          PROVE  (IF k < i THEN t[k] ELSE IF k = i THEN time ELSE t[k - 1]) \in Nat
      BY <1>4, <1>5
    <3>2. h[0] = t[0]
      BY <1>5, <1>17
    <3> QED BY <1>4, <1>16, <3>1, <3>2
  <2>2. ASSUME NEW k \in 1 .. n + 1 PROVE h[k] = h[k - 1] + m[k].expires
    <3>1. CASE k \in 1 .. i - 1
      <4>1. k - 1 \in 0 .. i - 1 /\ k \in 0 .. i - 1 /\ k \in 1 .. n
        BY <1>5, <3>1
      <4> QED BY <1>4, <1>12, <1>17, <3>1, <4>1
    <3>2. CASE k = i
      <4>1. i - 1 \in 0 .. i - 1
        BY <1>5
      <4> QED BY <1>6, <1>13, <1>17, <3>2, <4>1
    <3>3. CASE \E j \in i .. n : k = j + 1
      <4>1. PICK j \in i .. n : k = j + 1
        BY <3>3
      <4>2. h[k] = t[j] /\ k - 1 = j /\ j \in 1 .. n /\ t[j] \in Nat
        BY <1>4, <1>5, <1>17, <4>1
      <4>3. CASE j = i
        <5>1. h[k - 1] = time /\ m[k].expires = t[i] - time
          BY <1>5, <1>15, <1>17, <4>1, <4>2, <4>3
        <5> QED BY <1>5, <4>2, <4>3, <5>1
      <4>4. CASE j # i
        <5>1. j \in i + 1 .. n /\ j - 1 \in i .. n /\ j = j - 1 + 1
          BY <1>5, <4>4
        <5>2. h[k - 1] = t[j - 1] /\ m[k].expires = l[j].expires
          BY <1>15, <1>17, <4>1, <4>2, <5>1
        <5> QED BY <1>4, <4>2, <5>2
      <4> QED BY <4>3, <4>4
    <3> QED BY <1>18, <3>1, <3>2, <3>3
  <2> QED BY <1>11, <2>1, <2>2 DEF IsTicks
<1>20. Ticks(m) = h
  BY <1>11, <1>19, TicksAre
<1>21. DOMAIN m = 1 .. n + 1
  BY <1>11, LenProperties
\* The place in m of a timer of l, and back.
<1>22. \A k \in 1 .. n + 1 : k # i =>
         \E j \in 1 .. n : /\ m[k].proc = l[j].proc /\ h[k] = t[j]
                           /\ (k < i /\ j = k) \/ (k > i /\ j = k - 1)
  <2>1. ASSUME NEW k \in 1 .. i - 1
        PROVE  k \in 1 .. n /\ k < i /\ m[k].proc = l[k].proc /\ h[k] = t[k]
    <3>1. k \in 1 .. n /\ k < i /\ k \in 0 .. i - 1
      BY <1>5
    <3> QED BY <1>12, <1>17, <3>1
  <2>2. ASSUME NEW j \in i .. n
        PROVE  /\ j \in 1 .. n /\ j + 1 > i /\ j = j + 1 - 1
               /\ m[j + 1].proc = l[j].proc /\ h[j + 1] = t[j]
    <3>1. j \in 1 .. n /\ j + 1 > i /\ j = j + 1 - 1
      BY <1>5
    <3> QED BY <1>15, <1>17, <3>1
  <2>3. ASSUME NEW k \in 1 .. n + 1, k # i
        PROVE  \E j \in 1 .. n : /\ m[k].proc = l[j].proc /\ h[k] = t[j]
                                 /\ (k < i /\ j = k) \/ (k > i /\ j = k - 1)
    <3>1. CASE k \in 1 .. i - 1
      BY <2>1, <3>1
    <3>2. CASE \E j \in i .. n : k = j + 1
      <4>1. PICK j \in i .. n : k = j + 1
        BY <3>2
      <4>2. /\ j \in 1 .. n /\ k > i /\ j = k - 1
            /\ m[k].proc = l[j].proc /\ h[k] = t[j]
        <5>1. /\ j \in 1 .. n /\ j + 1 > i
              /\ m[j + 1].proc = l[j].proc /\ h[j + 1] = t[j]
          BY <2>2
        <5>2. j = k - 1
          BY <1>5, <4>1
        <5> QED BY <4>1, <5>1, <5>2
      <4> QED BY <4>2
    <3> QED BY <1>18, <2>3, <3>1, <3>2
  <2> QED BY <2>3
<1>23. \A j \in 1 .. n : \E k \in 1 .. n + 1 : m[k].proc = l[j].proc
  <2>1. ASSUME NEW j \in 1 .. n, j < i PROVE j \in 1 .. i - 1 /\ j \in 1 .. n + 1
    BY <1>5, <2>1
  <2>2. ASSUME NEW j \in 1 .. n, ~(j < i) PROVE j \in i .. n /\ j + 1 \in 1 .. n + 1
    BY <1>5, <2>2
  <2> QED BY <1>12, <1>15, <2>1, <2>2
<1>24. OncePerProc(m)
  <2>1. \A j, k \in 1 .. n : l[j].proc = l[k].proc => j = k
    BY <1>1, <1>2 DEF Good, OncePerProc
  <2>2. \A j \in 1 .. n : l[j].proc # p
    BY <1>1, <1>2
  <2>3. ASSUME NEW j \in 1 .. n + 1, NEW k \in 1 .. n + 1, m[j].proc = m[k].proc
        PROVE  j = k
    <3>1. CASE j = i \/ k = i
      <4>1. \A b \in 1 .. n + 1 : b # i => m[b].proc # p
        BY <1>22, <2>2
      <4> QED BY <1>13, <2>3, <3>1, <4>1
    <3>2. CASE j # i /\ k # i
      <4>1. PICK a \in 1 .. n : /\ m[j].proc = l[a].proc
                                /\ (j < i /\ a = j) \/ (j > i /\ a = j - 1)
        BY <1>22, <3>2
      <4>2. PICK b \in 1 .. n : /\ m[k].proc = l[b].proc
                                /\ (k < i /\ b = k) \/ (k > i /\ b = k - 1)
        BY <1>22, <3>2
      <4>3. a = b
        BY <2>1, <2>3, <4>1, <4>2
      <4> QED BY <1>5, <4>1, <4>2, <4>3
    <3> QED BY <3>1, <3>2
  <2>4. \A j, k \in 1 .. n + 1 : m[j].proc = m[k].proc => j = k
    BY <2>3
  <2> QED BY <1>21, <2>4, OnceIs
<1>25. m[1].expires > 0
  <2>1. CASE i = 1
    BY <1>4, <1>5, <1>6, <1>13, <2>1
  <2>2. CASE i # 1
    <3>1. 1 \in 1 .. i - 1 /\ Len(l) # 0
      BY <1>2, <1>5, <2>2
    <3>2. l[1].expires > 0
      BY <3>1, EmptySeq DEF Good, HeadInv
    <3> QED BY <1>12, <3>1, <3>2
  <2> QED BY <2>1, <2>2
<1>26. \A k \in DOMAIN m : Ticks(m)[k] <= MaxTime
  <2>1. \A k \in 1 .. n : t[k] <= MaxTime
    BY <1>1, <1>2, <1>3 DEF Good
  <2> QED BY <1>5, <1>17, <1>20, <1>21, <1>22, <2>1
<1>27. LeftOf(m) = [LeftOf(l) EXCEPT ![p] = time]
  <2>1. PICK f : f = [LeftOf(l) EXCEPT ![p] = time]
    OBVIOUS
  <2>2. /\ LeftOf(l) \in [Sleeper -> Nat]
        /\ \A k \in 1 .. n : LeftOf(l)[l[k].proc] = t[k]
        /\ \A q \in Sleeper : (\A k \in 1 .. n : l[k].proc # q) => LeftOf(l)[q] = 0
    BY <1>1, <1>2, <1>3, LeftFacts DEF Good
  <2>3. f \in [Sleeper -> Nat] /\ f[p] = time /\ \A q \in Sleeper : q # p => f[q] = LeftOf(l)[q]
    BY <1>5, <2>1, <2>2
  <2>4. ASSUME NEW k \in 1 .. n + 1 PROVE f[m[k].proc] = h[k]
    <3>1. CASE k = i
      BY <1>13, <1>17, <2>3, <3>1
    <3>2. CASE k # i
      <4>1. PICK j \in 1 .. n : m[k].proc = l[j].proc /\ h[k] = t[j]
        BY <1>22, <3>2
      <4>2. l[j].proc # p /\ l[j].proc \in Sleeper
        BY <1>1, <1>2
      <4> QED BY <2>2, <2>3, <4>1, <4>2
    <3> QED BY <3>1, <3>2
  <2>5. ASSUME NEW q \in Sleeper, \A k \in DOMAIN m : m[k].proc # q PROVE f[q] = 0
    <3>1. i \in 1 .. n + 1
      BY <1>5
    <3>2. q # p
      BY <1>13, <1>21, <2>5, <3>1
    <3>3. ASSUME NEW j \in 1 .. n PROVE l[j].proc # q
      <4>1. PICK k \in 1 .. n + 1 : m[k].proc = l[j].proc
        BY <1>23
      <4> QED BY <1>21, <2>5, <4>1
    <3> QED BY <2>2, <2>3, <3>2, <3>3
  <2>6. \A k \in DOMAIN m : f[m[k].proc] = Ticks(m)[k]
    BY <1>20, <1>21, <2>4
  <2>7. LeftOf(m) = f
    BY <1>11, <1>24, <2>3, <2>5, <2>6, LeftIs
  <2> QED BY <2>1, <2>7
<1> QED BY <1>11, <1>24, <1>25, <1>26, <1>27 DEF Good, HeadInv

\* A timer taken away: the others keep their ticks.
LEMMA RemoveKeeps ==
    ASSUME NEW l \in Seq(Timer), Good(l), NEW i \in DOMAIN l,
           NEW rest, rest = IF i < Len(l) THEN [l EXCEPT ![i + 1].expires = @ + l[i].expires] ELSE l,
           NEW m, m = RemoveAt(rest, i)
    PROVE  Good(m) /\ LeftOf(m) = [LeftOf(l) EXCEPT ![l[i].proc] = 0]
<1>1. /\ Len(l) \in Nat /\ DOMAIN l = 1 .. Len(l) /\ MaxTime \in Nat
      /\ \A k \in 1 .. Len(l) :
           /\ l[k] \in Timer /\ l[k].proc \in Sleeper
           /\ l[k].expires \in Nat /\ l[k].expires <= MaxTime
  BY ListFacts, TimerAssumption
<1>2. PICK n \in Nat : n = Len(l)
  BY <1>1
<1>3. PICK t : t = Ticks(l)
  OBVIOUS
<1>4. /\ t \in [0 .. n -> Nat] /\ t[0] = 0
      /\ \A k \in 1 .. n : t[k] = t[k - 1] + l[k].expires
      /\ \A k \in 1 .. n : t[k] <= MaxTime
  BY <1>1, <1>2, <1>3, TicksExist DEF IsTicks, Good
<1>5. i \in Nat /\ 1 <= i /\ i <= n /\ i \in 1 .. n
  BY <1>1, <1>2
<1>6. ASSUME i < n
      PROVE  /\ l[i + 1].expires + l[i].expires = t[i + 1] - t[i - 1]
             /\ t[i + 1] - t[i - 1] \in 0 .. MaxTime
             /\ t[i + 1] - t[i - 1] >= l[i].expires
             /\ t[i + 1] \in Nat /\ t[i - 1] \in Nat
  <2>1. i + 1 \in 1 .. n /\ i + 1 - 1 = i /\ i - 1 \in 0 .. n /\ i + 1 \in 0 .. n /\ i \in 0 .. n
    BY <1>5, <1>6
  <2>2. t[i + 1] = t[i] + l[i + 1].expires /\ t[i] = t[i - 1] + l[i].expires /\ t[i + 1] <= MaxTime
    <3>1. PICK k \in 1 .. n : k = i + 1
      BY <2>1
    <3>2. t[k] = t[k - 1] + l[k].expires /\ t[k] <= MaxTime
      BY <1>4
    <3>3. t[i] = t[i - 1] + l[i].expires
      BY <1>4, <1>5
    <3> QED BY <2>1, <3>1, <3>2, <3>3
  <2>3. PICK a \in Nat, b \in Nat, c \in Nat, d \in Nat, e \in Nat :
          a = t[i + 1] /\ b = t[i] /\ c = t[i - 1] /\ d = l[i + 1].expires /\ e = l[i].expires
    <3>1. t[i + 1] \in Nat /\ t[i] \in Nat /\ t[i - 1] \in Nat
      <4>1. \A k \in 0 .. n : t[k] \in Nat
        BY <1>4
      <4> QED BY <2>1, <4>1
    <3>2. l[i + 1].expires \in Nat /\ l[i].expires \in Nat
      BY <1>1, <1>2, <1>5, <2>1
    <3> QED BY <3>1, <3>2
  <2>4. a = b + d /\ b = c + e /\ a <= MaxTime /\ MaxTime \in Nat
    BY <1>1, <2>2, <2>3
  <2>5. d + e = a - c /\ a - c \in Nat /\ a - c >= e /\ a - c <= a
    BY ONLY <2>4, Sums
  <2>7. a - c \in 0 .. MaxTime
    BY <2>4, <2>5, AtMost
  <2> QED BY <2>3, <2>5, <2>7
<1>7. /\ rest \in Seq(Timer) /\ Len(rest) = n
      /\ \A k \in 1 .. n : rest[k].proc = l[k].proc
      /\ \A k \in 1 .. n : k # i + 1 => rest[k].expires = l[k].expires
      /\ i < n => rest[i + 1].expires = t[i + 1] - t[i - 1]
  <2>1. CASE i < n
    <3>1. PICK e : e = [proc |-> l[i + 1].proc, expires |-> t[i + 1] - t[i - 1]]
      OBVIOUS
    <3>2. i + 1 \in 1 .. n /\ l[i + 1] \in Timer /\ l[i + 1].proc \in Sleeper
          /\ l[i + 1].expires + l[i].expires = t[i + 1] - t[i - 1]
          /\ t[i + 1] - t[i - 1] \in 0 .. MaxTime
      BY <1>1, <1>2, <1>5, <1>6, <2>1
    <3>3. e \in Timer /\ e.proc = l[i + 1].proc /\ e.expires = t[i + 1] - t[i - 1]
      BY <3>1, <3>2 DEF Timer
    <3>4. rest = [l EXCEPT ![i + 1] = e]
      <4>1. [l[i + 1] EXCEPT !.expires = l[i + 1].expires + l[i].expires] = e
        BY <3>1, <3>2, TimerExcept
      <4>2. rest = [l EXCEPT ![i + 1] = [l[i + 1] EXCEPT !.expires = l[i + 1].expires + l[i].expires]]
        BY <1>2, <2>1
      <4> QED BY <4>1, <4>2
    <3>5. /\ [l EXCEPT ![i + 1] = e] \in Seq(Timer) /\ Len([l EXCEPT ![i + 1] = e]) = Len(l)
          /\ \A k \in 1 .. Len(l) : [l EXCEPT ![i + 1] = e][k] = IF k = i + 1 THEN e ELSE l[k]
      BY <1>2, <3>2, <3>3, ExceptSeq
    <3> QED BY <1>2, <2>1, <3>2, <3>3, <3>4, <3>5
  <2>2. CASE ~(i < n)
    <3>1. rest = l
      BY <1>2, <2>2
    <3> QED BY <1>2, <2>2, <3>1
  <2> QED BY <2>1, <2>2
<1>8. /\ m \in Seq(Timer) /\ Len(m) = n - 1
      /\ \A k \in 1 .. i - 1 : m[k] = rest[k] /\ k \in 1 .. n - 1
      /\ \A k \in i + 1 .. n : m[k - 1] = rest[k] /\ k - 1 \in 1 .. n - 1
  <2>1. rest \in Seq(Timer) /\ i \in 1 .. Len(rest)
    BY <1>5, <1>7
  <2>2. /\ RemoveAt(rest, i) \in Seq(Timer)
        /\ Len(RemoveAt(rest, i)) = Len(rest) - 1
        /\ \A k \in 1 .. Len(rest) - 1 : RemoveAt(rest, i)[k] = rest[IF k < i THEN k ELSE k + 1]
    BY <2>1, RemoveFacts
  <2>3. /\ m \in Seq(Timer) /\ Len(m) = n - 1
        /\ \A k \in 1 .. n - 1 : m[k] = rest[IF k < i THEN k ELSE k + 1]
    BY <1>7, <2>2
  <2>4. ASSUME NEW k \in 1 .. i - 1 PROVE m[k] = rest[k] /\ k \in 1 .. n - 1
    <3>1. k \in 1 .. n - 1 /\ k < i
      BY <1>5
    <3> QED BY <2>3, <3>1
  <2>5. ASSUME NEW k \in i + 1 .. n PROVE m[k - 1] = rest[k] /\ k - 1 \in 1 .. n - 1
    <3>1. k - 1 \in 1 .. n - 1 /\ ~(k - 1 < i) /\ k - 1 + 1 = k
      BY <1>5
    <3>2. m[k - 1] = rest[IF k - 1 < i THEN k - 1 ELSE k - 1 + 1]
      BY <2>3, <3>1
    <3> QED BY <3>1, <3>2
  <2> QED BY <2>3, <2>4, <2>5
<1>9. /\ \A k \in 1 .. i - 1 : m[k].proc = l[k].proc /\ m[k].expires = l[k].expires
      /\ \A k \in i + 1 .. n : m[k - 1].proc = l[k].proc
      /\ \A k \in i + 2 .. n : m[k - 1].expires = l[k].expires
      /\ i < n => m[i].expires = t[i + 1] - t[i - 1]
  <2>1. ASSUME NEW k \in 1 .. i - 1
        PROVE  m[k].proc = l[k].proc /\ m[k].expires = l[k].expires
    <3>1. k \in 1 .. n /\ k # i + 1
      BY <1>5
    <3>2. m[k] = rest[k]
      BY <1>8
    <3>3. rest[k].proc = l[k].proc /\ rest[k].expires = l[k].expires
      BY <1>7, <3>1
    <3> QED BY <3>2, <3>3
  <2>2. ASSUME NEW k \in i + 1 .. n PROVE m[k - 1].proc = l[k].proc
    <3>1. k \in 1 .. n
      BY <1>5
    <3>2. m[k - 1] = rest[k]
      BY <1>8
    <3>3. rest[k].proc = l[k].proc
      BY <1>7, <3>1
    <3> QED BY <3>2, <3>3
  <2>3. ASSUME NEW k \in i + 2 .. n PROVE m[k - 1].expires = l[k].expires
    <3>1. k \in 1 .. n /\ k # i + 1 /\ k \in i + 1 .. n
      BY <1>5
    <3>2. m[k - 1] = rest[k]
      BY <1>8, <3>1
    <3>3. rest[k].expires = l[k].expires
      BY <1>7, <3>1
    <3> QED BY <3>2, <3>3
  <2>4. ASSUME i < n PROVE m[i].expires = t[i + 1] - t[i - 1]
    <3>1. i + 1 \in i + 1 .. n /\ i + 1 - 1 = i
      BY <1>5, <2>4
    <3>2. m[i + 1 - 1] = rest[i + 1]
      <4>1. PICK k \in i + 1 .. n : k = i + 1
        BY <3>1
      <4>2. m[k - 1] = rest[k]
        BY <1>8
      <4> QED BY <4>1, <4>2
    <3> QED BY <1>7, <2>4, <3>1, <3>2
  <2> QED BY <2>1, <2>2, <2>3, <2>4
<1>10. PICK h : h = [k \in 0 .. n - 1 |-> IF k < i THEN t[k] ELSE t[k + 1]]
  OBVIOUS
<1>11. /\ \A k \in 0 .. i - 1 : h[k] = t[k]
       /\ \A k \in i + 1 .. n : h[k - 1] = t[k]
  <2>1. ASSUME NEW k \in 0 .. i - 1 PROVE h[k] = t[k]
    <3>1. k \in 0 .. n - 1 /\ k < i
      BY <1>5
    <3> QED BY <1>10, <3>1
  <2>2. ASSUME NEW k \in i + 1 .. n PROVE h[k - 1] = t[k]
    <3>1. k - 1 \in 0 .. n - 1 /\ ~(k - 1 < i) /\ k - 1 + 1 = k
      BY <1>5
    <3> QED BY <1>10, <3>1
  <2> QED BY <2>1, <2>2
\* Every place of m is one of l before or after the removed one.
<1>12. \A k \in 1 .. n - 1 : k \in 1 .. i - 1 \/ (\E j \in i + 1 .. n : k = j - 1)
  <2>1. ASSUME NEW k \in 1 .. n - 1, ~(k < i)
        PROVE  k + 1 \in i + 1 .. n /\ k = (k + 1) - 1
    BY <1>5, <2>1
  <2>2. ASSUME NEW k \in 1 .. n - 1, k < i PROVE k \in 1 .. i - 1
    BY <1>5, <2>2
  <2> QED BY <2>1, <2>2
<1>13. IsTicks(h, m)
  <2>1. h \in [0 .. n - 1 -> Nat] /\ h[0] = 0
    <3>1. ASSUME NEW k \in 0 .. n - 1 PROVE (IF k < i THEN t[k] ELSE t[k + 1]) \in Nat
      BY <1>4, <1>5
    <3>2. h[0] = t[0]
      BY <1>5, <1>11
    <3> QED BY <1>4, <1>10, <3>1, <3>2
  <2>2. ASSUME NEW k \in 1 .. n - 1 PROVE h[k] = h[k - 1] + m[k].expires
    <3>1. CASE k \in 1 .. i - 1
      <4>1. k - 1 \in 0 .. i - 1 /\ k \in 0 .. i - 1 /\ k \in 1 .. n
        BY <1>5, <3>1
      <4> QED BY <1>4, <1>9, <1>11, <3>1, <4>1
    <3>2. CASE \E j \in i + 1 .. n : k = j - 1
      <4>1. PICK j \in i + 1 .. n : k = j - 1
        BY <3>2
      <4>2. h[k] = t[j] /\ j \in 1 .. n /\ t[j] \in Nat /\ j - 1 = k
        BY <1>4, <1>5, <1>11, <4>1
      <4>3. CASE k = i
        <5>1. i - 1 \in 0 .. i - 1 /\ j = i + 1 /\ i < n
          BY <1>5, <4>1, <4>3
        <5>2. h[k - 1] = t[i - 1] /\ m[k].expires = t[j] - t[i - 1] /\ t[i - 1] \in Nat
          BY <1>6, <1>9, <1>11, <4>3, <5>1
        <5> QED BY <4>2, <5>2
      <4>4. CASE k # i
        <5>1. k \in i + 1 .. n /\ j \in i + 2 .. n
          BY <1>5, <4>1, <4>4
        <5>2. h[k - 1] = t[k] /\ m[k].expires = l[j].expires
          BY <1>9, <1>11, <4>1, <5>1
        <5>3. t[j] = t[j - 1] + l[j].expires
          BY <1>4, <4>2
        <5> QED BY <4>2, <5>2, <5>3
      <4> QED BY <4>3, <4>4
    <3> QED BY <1>12, <3>1, <3>2
  <2> QED BY <1>8, <2>1, <2>2 DEF IsTicks
<1>14. Ticks(m) = h
  BY <1>8, <1>13, TicksAre
<1>15. DOMAIN m = 1 .. n - 1
  BY <1>8, LenProperties
\* The place in l of a timer of m, and back.
<1>16. \A k \in 1 .. n - 1 :
         \E j \in 1 .. n : /\ m[k].proc = l[j].proc /\ h[k] = t[j]
                           /\ (k < i /\ j = k) \/ (k >= i /\ j = k + 1)
  <2>1. ASSUME NEW k \in 1 .. i - 1
        PROVE  k \in 1 .. n /\ k < i /\ m[k].proc = l[k].proc /\ h[k] = t[k]
    <3>1. k \in 1 .. n /\ k < i /\ k \in 0 .. i - 1
      BY <1>5
    <3> QED BY <1>9, <1>11, <3>1
  <2>2. ASSUME NEW j \in i + 1 .. n
        PROVE  /\ j \in 1 .. n /\ j - 1 >= i /\ j = j - 1 + 1
               /\ m[j - 1].proc = l[j].proc /\ h[j - 1] = t[j]
    <3>1. j \in 1 .. n /\ j - 1 >= i /\ j = j - 1 + 1
      BY <1>5
    <3> QED BY <1>9, <1>11, <3>1
  <2>3. ASSUME NEW k \in 1 .. n - 1
        PROVE  \E j \in 1 .. n : /\ m[k].proc = l[j].proc /\ h[k] = t[j]
                                 /\ (k < i /\ j = k) \/ (k >= i /\ j = k + 1)
    <3>1. CASE k \in 1 .. i - 1
      BY <2>1, <3>1
    <3>2. CASE \E j \in i + 1 .. n : k = j - 1
      <4>1. PICK j \in i + 1 .. n : k = j - 1
        BY <3>2
      <4> QED BY <2>2, <4>1
    <3> QED BY <1>12, <3>1, <3>2
  <2> QED BY <2>3
<1>17. \A j \in 1 .. n : j # i => \E k \in 1 .. n - 1 : m[k].proc = l[j].proc
  <2>1. ASSUME NEW j \in 1 .. n, j < i PROVE j \in 1 .. i - 1 /\ j \in 1 .. n - 1
    BY <1>5, <2>1
  <2>2. ASSUME NEW j \in 1 .. n, j > i PROVE j \in i + 1 .. n /\ j - 1 \in 1 .. n - 1
    BY <1>5, <2>2
  <2>3. ASSUME NEW j \in 1 .. n, j # i PROVE j < i \/ j > i
    BY <1>5, <2>3
  <2> QED BY <1>9, <2>1, <2>2, <2>3
<1>18. \A j, k \in 1 .. n : l[j].proc = l[k].proc => j = k
  BY <1>1, <1>2 DEF Good, OncePerProc
<1>19. OncePerProc(m)
  <2>1. ASSUME NEW j \in 1 .. n - 1, NEW k \in 1 .. n - 1, m[j].proc = m[k].proc
        PROVE  j = k
    <3>1. PICK a \in 1 .. n : /\ m[j].proc = l[a].proc
                              /\ (j < i /\ a = j) \/ (j >= i /\ a = j + 1)
      BY <1>16
    <3>2. PICK b \in 1 .. n : /\ m[k].proc = l[b].proc
                              /\ (k < i /\ b = k) \/ (k >= i /\ b = k + 1)
      BY <1>16
    <3>3. a = b
      BY <1>18, <2>1, <3>1, <3>2
    <3> QED BY <1>5, <3>1, <3>2, <3>3
  <2> QED BY <1>15, <2>1 DEF OncePerProc
<1>20. ASSUME m # <<>> PROVE m[1].expires > 0
  <2>1. 1 <= n - 1 /\ 1 \in 1 .. n /\ Len(l) # 0
    <3>1. Len(m) # 0
      BY <1>8, <1>20, EmptySeq
    <3> QED BY <1>2, <1>8, <3>1
  <2>2. l[1].expires > 0 /\ l[1].expires \in Nat
    BY <1>1, <1>2, <2>1, EmptySeq DEF Good, HeadInv
  <2>3. CASE i = 1
    <3>1. 1 < n
      BY <2>1
    <3>2. m[1].expires = t[1 + 1] - t[1 - 1] /\ t[1 + 1] - t[1 - 1] >= l[1].expires
          /\ t[1 + 1] - t[1 - 1] \in 0 .. MaxTime
      BY <1>6, <1>9, <2>3, <3>1
    <3> QED BY <1>1, <2>2, <3>2
  <2>4. CASE i # 1
    <3>1. 1 \in 1 .. i - 1
      BY <1>5, <2>4
    <3> QED BY <1>9, <2>2, <3>1
  <2> QED BY <2>3, <2>4
<1>21. \A k \in DOMAIN m : Ticks(m)[k] <= MaxTime
  BY <1>4, <1>14, <1>15, <1>16
<1>22. LeftOf(m) = [LeftOf(l) EXCEPT ![l[i].proc] = 0]
  <2>1. PICK p \in Sleeper : p = l[i].proc
    BY <1>1
  <2>2. PICK f : f = [LeftOf(l) EXCEPT ![p] = 0]
    OBVIOUS
  <2>3. /\ LeftOf(l) \in [Sleeper -> Nat]
        /\ \A k \in 1 .. n : LeftOf(l)[l[k].proc] = t[k]
        /\ \A q \in Sleeper : (\A k \in 1 .. n : l[k].proc # q) => LeftOf(l)[q] = 0
    BY <1>1, <1>2, <1>3, LeftFacts DEF Good
  <2>4. f \in [Sleeper -> Nat] /\ f[p] = 0 /\ \A q \in Sleeper : q # p => f[q] = LeftOf(l)[q]
    BY <2>2, <2>3
  <2>5. ASSUME NEW k \in 1 .. n - 1 PROVE f[m[k].proc] = h[k]
    <3>1. PICK j \in 1 .. n : /\ m[k].proc = l[j].proc /\ h[k] = t[j]
                              /\ (k < i /\ j = k) \/ (k >= i /\ j = k + 1)
      BY <1>16
    <3>2. j # i
      BY <1>5, <3>1
    <3>3. l[j].proc # p /\ l[j].proc \in Sleeper
      BY <1>1, <1>2, <1>5, <1>18, <2>1, <3>2
    <3> QED BY <2>3, <2>4, <3>1, <3>3
  <2>6. ASSUME NEW q \in Sleeper, \A k \in DOMAIN m : m[k].proc # q PROVE f[q] = 0
    <3>1. CASE q = p
      BY <2>4, <3>1
    <3>2. CASE q # p
      <4>1. ASSUME NEW j \in 1 .. n PROVE l[j].proc # q
        <5>1. SUFFICES ASSUME j # i PROVE l[j].proc # q
          BY <2>1, <3>2
        <5>2. PICK k \in 1 .. n - 1 : m[k].proc = l[j].proc
          BY <1>17, <5>1
        <5> QED BY <1>15, <2>6, <5>2
      <4> QED BY <2>3, <2>4, <3>2, <4>1
    <3> QED BY <3>1, <3>2
  <2>7. \A k \in DOMAIN m : f[m[k].proc] = Ticks(m)[k]
    BY <1>14, <1>15, <2>5
  <2>8. LeftOf(m) = f
    BY <1>8, <1>19, <2>4, <2>6, <2>7, LeftIs
  <2> QED BY <2>1, <2>2, <2>8
<1> QED BY <1>8, <1>19, <1>20, <1>21, <1>22 DEF Good, HeadInv

\* What is left of a list without its first a timers.
LEMMA DropFacts ==
    ASSUME NEW l \in Seq(Timer), NEW a \in 0 .. Len(l)
    PROVE  /\ SubSeq(l, a + 1, Len(l)) \in Seq(Timer)
           /\ Len(SubSeq(l, a + 1, Len(l))) = Len(l) - a
           /\ \A k \in 1 .. Len(l) - a : SubSeq(l, a + 1, Len(l))[k] = l[a + k]
<1>1. PICK n \in Nat : n = Len(l) /\ \A k \in 1 .. n : l[k] \in Timer
  BY ListFacts
<1>2. PICK m : m = SubSeq(l, a + 1, n)
  OBVIOUS
<1>3. /\ m \in Seq(Timer)
      /\ Len(m) = IF a + 1 <= n THEN n - (a + 1) + 1 ELSE 0
      /\ \A k \in 1 .. n - (a + 1) + 1 : m[k] = l[a + 1 + k - 1]
  <2>1. \A k \in a + 1 .. n : l[k] \in Timer
    BY <1>1
  <2> QED BY <1>1, <1>2, <2>1, SubSeqProperties
<1>4. Len(m) = n - a
  BY <1>1, <1>3
<1>5. ASSUME NEW k \in 1 .. n - a PROVE m[k] = l[a + k]
  <2>1. k \in 1 .. n - (a + 1) + 1 /\ a + 1 + k - 1 = a + k
    BY <1>1
  <2> QED BY <1>3, <2>1
<1> QED BY <1>1, <1>2, <1>3, <1>4, <1>5

\* The list l with a tick taken from its head.
Ticked(l) == IF l = <<>> THEN l ELSE [l EXCEPT ![1].expires = @ - 1]

\* The processes of the timers a tick leaves with none, and those with one left.
Fired(ticked) == {ticked[i].proc : i \in Expired(ticked)}
LastTick(l) == {p \in Sleeper : LeftOf(l)[p] = 1}

\* A tick: the timers it takes the last tick of leave the list, the others
\* have one less.
LEMMA TickKeeps ==
    ASSUME NEW l \in Seq(Timer), Good(l),
           NEW ticked, ticked = Ticked(l),
           NEW m, m = SubSeq(ticked, Cardinality(Expired(ticked)) + 1, Len(ticked))
    PROVE  /\ Good(m)
           /\ LeftOf(m) = [p \in Sleeper |-> IF LeftOf(l)[p] > 0 THEN LeftOf(l)[p] - 1 ELSE 0]
           /\ Fired(ticked) = LastTick(l)
<1>1. /\ Len(l) \in Nat /\ DOMAIN l = 1 .. Len(l) /\ MaxTime \in Nat
      /\ \A k \in 1 .. Len(l) :
           /\ l[k] \in Timer /\ l[k].proc \in Sleeper
           /\ l[k].expires \in Nat /\ l[k].expires <= MaxTime
  BY ListFacts, TimerAssumption
<1>2. PICK n \in Nat : n = Len(l)
  BY <1>1
<1>3. PICK t : t = Ticks(l)
  OBVIOUS
<1>4. /\ t \in [0 .. n -> Nat] /\ t[0] = 0
      /\ \A k \in 1 .. n : t[k] = t[k - 1] + l[k].expires
      /\ IsTicks(t, l)
  BY <1>1, <1>2, <1>3, TicksExist DEF IsTicks
<1>5. \A k \in 1 .. n : t[k] \in Nat /\ t[k - 1] \in Nat /\ t[k] <= MaxTime
  <2>1. ASSUME NEW k \in 1 .. n PROVE t[k] \in Nat /\ t[k - 1] \in Nat
    <3>1. k \in 0 .. n /\ k - 1 \in 0 .. n
      OBVIOUS
    <3> QED BY <1>4, <3>1
  <2>2. \A k \in 1 .. n : t[k] <= MaxTime
    BY <1>1, <1>2, <1>3 DEF Good
  <2> QED BY <2>1, <2>2
<1>6. ASSUME n # 0 PROVE 1 \in 1 .. n /\ l # <<>> /\ l[1].expires > 0 /\ t[1] = l[1].expires
  <2>1. 1 \in 1 .. n /\ l # <<>> /\ 1 - 1 = 0
    BY <1>2, <1>6, EmptySeq
  <2>2. l[1].expires > 0
    BY <2>1 DEF Good, HeadInv
  <2>3. t[1] = t[1 - 1] + l[1].expires
    BY <1>4, <2>1
  <2>4. t[1] = l[1].expires
    BY <1>1, <1>2, <1>4, <2>1, <2>3
  <2> QED BY <2>1, <2>2, <2>4
<1>7. /\ ticked \in Seq(Timer) /\ Len(ticked) = n
      /\ \A k \in 1 .. n : ticked[k].proc = l[k].proc
      /\ \A k \in 1 .. n : k # 1 => ticked[k].expires = l[k].expires
      /\ n # 0 => ticked[1].expires = l[1].expires - 1
  <2>1. CASE n # 0
    <3>1. PICK e : e = [proc |-> l[1].proc, expires |-> l[1].expires - 1]
      OBVIOUS
    <3>2. l[1] \in Timer /\ l[1].proc \in Sleeper /\ l[1].expires \in Nat /\ l[1].expires <= MaxTime
      BY <1>1, <1>2, <1>6, <2>1
    <3>3. l[1].expires - 1 \in 0 .. MaxTime
      BY <1>1, <1>6, <2>1, <3>2
    <3>4. e \in Timer /\ e.proc = l[1].proc /\ e.expires = l[1].expires - 1
      BY <3>1, <3>2, <3>3 DEF Timer
    <3>5. ticked = [l EXCEPT ![1] = e]
      <4>1. [l[1] EXCEPT !.expires = l[1].expires - 1] = e
        BY <3>1, <3>2, TimerExcept
      <4>2. ticked = [l EXCEPT ![1] = [l[1] EXCEPT !.expires = l[1].expires - 1]]
        BY <1>6, <2>1 DEF Ticked
      <4> QED BY <4>1, <4>2
    <3>6. /\ [l EXCEPT ![1] = e] \in Seq(Timer) /\ Len([l EXCEPT ![1] = e]) = Len(l)
          /\ \A k \in 1 .. Len(l) : [l EXCEPT ![1] = e][k] = IF k = 1 THEN e ELSE l[k]
      BY <1>2, <1>6, <2>1, <3>4, ExceptSeq
    <3> QED BY <1>2, <1>6, <2>1, <3>4, <3>5, <3>6
  <2>2. CASE n = 0
    <3>1. ticked = l
      BY <1>2, <2>2, EmptySeq DEF Ticked
    <3> QED BY <1>2, <2>2, <3>1
  <2> QED BY <2>1, <2>2
<1>8. DOMAIN ticked = 1 .. n
  BY <1>7, LenProperties
\* What is left of each, and one tick less.
<1>9. \A k \in 1 .. n : t[k] >= 1
  <2>1. ASSUME NEW k \in 1 .. n PROVE t[k] >= 1
    <3>1. n # 0 /\ 1 \in 0 .. Len(l) /\ k \in 1 .. Len(l)
      BY <1>2
    <3>2. t[1] <= t[k] /\ t[1] >= 1
      <4>1. t[1] <= t[k]
        BY <1>4, <3>1, TicksGrow
      <4>2. t[1] > 0 /\ t[1] \in Nat
        BY <1>5, <1>6, <3>1
      <4> QED BY <4>1, <4>2
    <3> QED BY <1>5, <1>6, <3>1, <3>2
  <2> QED BY <2>1
<1>10. \A j, k \in 1 .. n : j <= k => t[j] <= t[k]
  <2>1. ASSUME NEW j \in 1 .. n, NEW k \in 1 .. n, j <= k PROVE t[j] <= t[k]
    <3>1. j \in 0 .. Len(l) /\ k \in j .. Len(l)
      BY <1>2, <2>1
    <3> QED BY <1>4, <3>1, TicksGrow
  <2> QED BY <2>1
<1>11. PICK fired : fired = Expired(ticked)
  OBVIOUS
<1>12. fired = {k \in 1 .. n : \A j \in 1 .. k : ticked[j].expires = 0}
  BY <1>8, <1>11 DEF Expired
<1>13. \A k \in 1 .. n : t[k] = 1 => k \in fired
  <2>1. ASSUME NEW k \in 1 .. n, t[k] = 1, NEW j \in 1 .. k PROVE ticked[j].expires = 0
    <3>1. j \in 1 .. n /\ n # 0 /\ j <= k
      OBVIOUS
    <3>2. t[j] = 1
      BY <1>5, <1>9, <1>10, <2>1, <3>1
    <3>3. CASE j = 1
      BY <1>1, <1>2, <1>6, <1>7, <3>1, <3>2, <3>3
    <3>4. CASE j # 1
      <4>1. j - 1 \in 1 .. n /\ j - 1 <= k
        BY <3>1, <3>4
      <4>2. t[j - 1] = 1
        BY <1>5, <1>9, <1>10, <2>1, <4>1
      <4>3. t[j] = t[j - 1] + l[j].expires /\ l[j].expires \in Nat
        BY <1>1, <1>2, <1>4, <3>1
      <4>4. l[j].expires = 0
        BY <3>2, <4>2, <4>3
      <4> QED BY <1>7, <3>1, <3>4, <4>4
    <3> QED BY <3>3, <3>4
  <2> QED BY <1>12, <2>1
<1>14. \A k \in fired : t[k] = 1
  <2>1. PICK D : D = {k \in fired : t[k] # 1}
    OBVIOUS
  <2>2. SUFFICES ASSUME D # {} PROVE FALSE
    BY <2>1
  <2>3. PICK d \in D : \A k \in D : d <= k
    <3>1. D \in SUBSET Nat
      BY <1>12, <2>1
    <3> QED BY <2>2, <3>1, LeastNat
  <2>4. d \in 1 .. n /\ d \in fired /\ t[d] # 1 /\ n # 0
    BY <1>12, <2>1
  <2>5. ticked[d].expires = 0
    BY <1>12, <2>4
  <2>6. CASE d = 1
    BY <1>1, <1>2, <1>6, <1>7, <2>4, <2>5, <2>6
  <2>7. CASE d # 1
    <3>1. d - 1 \in 1 .. n /\ ~(d <= d - 1) /\ \A j \in 1 .. d - 1 : j \in 1 .. d
      BY <2>4, <2>7
    <3>2. d - 1 \in fired
      BY <1>12, <2>4, <3>1
    <3>3. t[d - 1] = 1
      BY <2>1, <2>3, <3>1, <3>2
    <3>4. t[d] = t[d - 1] + l[d].expires /\ l[d].expires = 0
      BY <1>4, <1>7, <2>4, <2>5, <2>7
    <3> QED BY <2>4, <3>3, <3>4
  <2> QED BY <2>6, <2>7
\* The timers that fire are the first a of the list.
<1>15. PICK a \in 0 .. n : fired = 1 .. a /\ a + 1 \notin fired
  <2>1. PICK T : T = {k \in 0 .. n : k + 1 \notin fired}
    OBVIOUS
  <2>2. n \in T
    BY <1>12, <2>1
  <2>3. PICK a \in T : \A k \in T : a <= k
    <3>1. T \in SUBSET Nat
      BY <2>1
    <3> QED BY <2>2, <3>1, LeastNat
  <2>4. a \in 0 .. n /\ a + 1 \notin fired
    BY <2>1
  <2>5. ASSUME NEW k \in fired PROVE k \in 1 .. a
    <3>1. k \in 1 .. n /\ \A j \in 1 .. k : ticked[j].expires = 0
      BY <1>12
    <3>2. ASSUME k > a PROVE FALSE
      <4>1. a + 1 \in 1 .. n /\ \A j \in 1 .. a + 1 : j \in 1 .. k
        BY <2>4, <3>1, <3>2
      <4> QED BY <1>12, <2>4, <3>1, <4>1
    <3> QED BY <2>4, <3>1, <3>2
  <2>6. ASSUME NEW k \in 1 .. a PROVE k \in fired
    <3>1. k - 1 \in 0 .. n /\ ~(a <= k - 1) /\ k - 1 + 1 = k
      BY <2>4
    <3> QED BY <2>1, <2>3, <3>1
  <2> QED BY <2>4, <2>5, <2>6
<1>16. Cardinality(fired) = a
  <2>1. Cardinality(1 .. a) = a
    BY FS_Interval
  <2> QED BY <1>15, <2>1
<1>17. /\ m \in Seq(Timer) /\ Len(m) = n - a
       /\ \A k \in 1 .. n - a : m[k] = ticked[a + k]
  <2>1. ticked \in Seq(Timer) /\ a \in 0 .. Len(ticked)
    BY <1>7
  <2>2. /\ SubSeq(ticked, a + 1, Len(ticked)) \in Seq(Timer)
        /\ Len(SubSeq(ticked, a + 1, Len(ticked))) = Len(ticked) - a
        /\ \A k \in 1 .. Len(ticked) - a : SubSeq(ticked, a + 1, Len(ticked))[k] = ticked[a + k]
    BY <2>1, DropFacts
  <2>3. m = SubSeq(ticked, a + 1, Len(ticked))
    BY <1>11, <1>16
  <2> QED BY <1>7, <2>2, <2>3
<1>18. \A k \in 1 .. n - a : a + k \in 1 .. n /\ m[k].proc = l[a + k].proc
  <2>1. ASSUME NEW k \in 1 .. n - a PROVE a + k \in 1 .. n
    OBVIOUS
  <2> QED BY <1>7, <1>17, <2>1
<1>19. PICK h : h = [k \in 0 .. n - a |-> IF k = 0 THEN 0 ELSE t[a + k] - 1]
  OBVIOUS
<1>20. \A k \in 1 .. n - a : h[k] = t[a + k] - 1 /\ h[k] \in Nat
  <2>1. ASSUME NEW k \in 1 .. n - a PROVE h[k] = t[a + k] - 1 /\ h[k] \in Nat
    <3>1. k \in 0 .. n - a /\ k # 0 /\ a + k \in 1 .. n
      OBVIOUS
    <3>2. h[k] = t[a + k] - 1
      BY <1>19, <3>1
    <3> QED BY <1>5, <1>9, <3>1, <3>2
  <2> QED BY <2>1
<1>21. n - a >= 1 => m[1].expires = t[a + 1] - 1 /\ t[a + 1] > 1
  <2> SUFFICES ASSUME n - a >= 1 PROVE m[1].expires = t[a + 1] - 1 /\ t[a + 1] > 1
    OBVIOUS
  <2>1. 1 \in 1 .. n - a /\ a + 1 \in 1 .. n /\ n # 0 /\ a + 1 - 1 = a
    OBVIOUS
  <2>2. t[a + 1] > 1
    BY <1>5, <1>9, <1>13, <1>15, <2>1
  <2>3. m[1] = ticked[a + 1]
    BY <1>17, <2>1
  <2>4. CASE a = 0
    <3>1. a + 1 = 1
      BY <2>4
    <3>2. ticked[1].expires = l[1].expires - 1 /\ t[1] = l[1].expires
      BY <1>6, <1>7, <2>1
    <3>3. ticked[a + 1].expires = t[a + 1] - 1
      BY <3>1, <3>2
    <3> QED BY <2>2, <2>3, <3>3
  <2>5. CASE a # 0
    <3>1. a \in fired /\ a + 1 # 1
      BY <1>15, <2>5
    <3>2. t[a] = 1
      BY <1>14, <3>1
    <3>3. t[a + 1] = t[a + 1 - 1] + l[a + 1].expires /\ ticked[a + 1].expires = l[a + 1].expires
      <4>1. PICK j \in 1 .. n : j = a + 1 /\ j # 1
        BY <2>1, <3>1
      <4>2. t[j] = t[j - 1] + l[j].expires
        BY <1>4
      <4>3. ticked[j].expires = l[j].expires
        BY <1>7, <4>1
      <4> QED BY <4>1, <4>2, <4>3
    <3>4. l[a + 1].expires \in Nat
      BY <1>1, <1>2, <2>1
    <3>5. PICK x \in Nat, y \in Nat : x = l[a + 1].expires /\ y = t[a + 1]
      BY <1>5, <2>1, <3>4
    <3>6. y = 1 + x
      BY <2>1, <3>2, <3>3, <3>5
    <3>7. x = y - 1
      BY <3>6
    <3>8. ticked[a + 1].expires = t[a + 1] - 1
      BY <3>3, <3>5, <3>7
    <3> QED BY <2>2, <2>3, <3>8
  <2> QED BY <2>2, <2>4, <2>5
<1>22. IsTicks(h, m)
  <2>1. h[0] = 0
    BY <1>19
  <2>2. h \in [0 .. n - a -> Nat]
    <3>1. ASSUME NEW k \in 0 .. n - a PROVE h[k] \in Nat
      <4>1. k = 0 \/ k \in 1 .. n - a
        OBVIOUS
      <4> QED BY <1>20, <2>1, <4>1
    <3> QED BY <1>19, <3>1
  <2>3. ASSUME NEW k \in 1 .. n - a PROVE h[k] = h[k - 1] + m[k].expires
    <3>1. CASE k = 1
      <4>1. n - a >= 1 /\ 1 \in 1 .. n - a /\ 1 - 1 = 0
        BY <2>3
      <4>2. m[1].expires = t[a + 1] - 1 /\ h[1] = t[a + 1] - 1 /\ h[1] \in Nat
        BY <1>20, <1>21, <4>1
      <4>3. \A x \in Nat : x = 0 + x
        OBVIOUS
      <4>4. h[1] = h[0] + m[1].expires
        BY <2>1, <4>2, <4>3
      <4> QED BY <3>1, <4>1, <4>4
    <3>2. CASE k # 1
      <4>1. k - 1 \in 1 .. n - a /\ a + (k - 1) = a + k - 1 /\ a + k \in 1 .. n /\ a + k # 1
        BY <3>2
      <4>2. h[k] = t[a + k] - 1 /\ h[k - 1] = t[a + (k - 1)] - 1
        BY <1>20, <4>1
      <4>3. m[k].expires = l[a + k].expires
        BY <1>7, <1>17, <4>1
      <4>4. t[a + k] = t[a + k - 1] + l[a + k].expires /\ t[a + k] \in Nat /\ t[a + k - 1] \in Nat
        <5>1. PICK j \in 1 .. n : j = a + k
          BY <4>1
        <5>2. t[j] = t[j - 1] + l[j].expires /\ t[j] \in Nat /\ t[j - 1] \in Nat
          BY <1>4, <1>5
        <5>3. j - 1 = a + k - 1
          BY <5>1
        <5> QED BY <5>1, <5>2, <5>3
      <4>5. l[a + k].expires \in Nat
        BY <1>1, <1>2, <4>1
      <4>6. PICK x \in Nat, y \in Nat, z \in Nat :
              x = t[a + k] /\ y = t[a + k - 1] /\ z = l[a + k].expires
        BY <4>4, <4>5
      <4>7. x = y + z
        BY <4>4, <4>6
      <4>8. x - 1 = y - 1 + z
        BY <4>7
      <4> QED BY <4>1, <4>2, <4>3, <4>6, <4>8
    <3> QED BY <3>1, <3>2
  <2> QED BY <1>17, <2>1, <2>2, <2>3 DEF IsTicks
<1>23. Ticks(m) = h
  BY <1>17, <1>22, TicksAre
<1>24. DOMAIN m = 1 .. n - a
  BY <1>17, LenProperties
<1>25. \A j, k \in 1 .. n : l[j].proc = l[k].proc => j = k
  BY <1>1, <1>2 DEF Good, OncePerProc
<1>26. OncePerProc(m)
  <2>1. ASSUME NEW j \in 1 .. n - a, NEW k \in 1 .. n - a, m[j].proc = m[k].proc
        PROVE  j = k
    <3>1. a + j = a + k
      <4>1. /\ a + j \in 1 .. n /\ m[j].proc = l[a + j].proc
            /\ a + k \in 1 .. n /\ m[k].proc = l[a + k].proc
        BY <1>18
      <4> QED BY <1>25, <2>1, <4>1
    <3> QED BY <3>1
  <2>2. \A j, k \in 1 .. n - a : m[j].proc = m[k].proc => j = k
    BY <2>1
  <2> QED BY <1>24, <2>2, OnceIs
<1>27. Good(m)
  <2>1. HeadInv(m)
    <3>1. SUFFICES ASSUME m # <<>> PROVE m[1].expires > 0
      BY DEF HeadInv
    <3>2. n - a >= 1
      <4>1. Len(m) # 0
        BY <1>17, <3>1, EmptySeq
      <4> QED BY <1>17, <4>1
    <3>3. a + 1 \in 1 .. n
      BY <3>2
    <3>4. t[a + 1] \in Nat
      BY <1>5, <3>3
    <3>5. t[a + 1] - 1 > 0
      BY <1>21, <3>2, <3>4
    <3> QED BY <1>21, <3>2, <3>5
  <2>2. ASSUME NEW k \in DOMAIN m PROVE Ticks(m)[k] <= MaxTime
    <3>1. k \in 1 .. n - a /\ h[k] = t[a + k] - 1 /\ a + k \in 1 .. n
      BY <1>18, <1>20, <1>24
    <3>2. t[a + k] \in Nat /\ t[a + k] <= MaxTime
      BY <1>5, <3>1
    <3> QED BY <1>1, <1>23, <3>1, <3>2
  <2> QED BY <1>17, <1>26, <2>1, <2>2 DEF Good
<1>28. /\ LeftOf(l) \in [Sleeper -> Nat]
       /\ \A k \in 1 .. n : LeftOf(l)[l[k].proc] = t[k]
       /\ \A q \in Sleeper : (\A k \in 1 .. n : l[k].proc # q) => LeftOf(l)[q] = 0
  BY <1>1, <1>2, <1>3, LeftFacts DEF Good
<1>29. PICK f : f = [p \in Sleeper |-> IF LeftOf(l)[p] > 0 THEN LeftOf(l)[p] - 1 ELSE 0]
  OBVIOUS
<1>30. LeftOf(m) = f
  <2>1. f \in [Sleeper -> Nat]
    <3>1. ASSUME NEW p \in Sleeper PROVE (IF LeftOf(l)[p] > 0 THEN LeftOf(l)[p] - 1 ELSE 0) \in Nat
      <4>1. LeftOf(l)[p] \in Nat
        BY <1>28
      <4> QED BY <4>1
    <3> QED BY <1>29, <3>1
  <2>2. ASSUME NEW k \in DOMAIN m PROVE f[m[k].proc] = Ticks(m)[k]
    <3>1. /\ k \in 1 .. n - a /\ h[k] = t[a + k] - 1 /\ a + k \in 1 .. n
          /\ m[k].proc = l[a + k].proc
      BY <1>18, <1>20, <1>24
    <3>2. t[a + k] \in Nat /\ t[a + k] >= 1 /\ l[a + k].proc \in Sleeper
      BY <1>1, <1>2, <1>5, <1>9, <3>1
    <3>3. LeftOf(l)[m[k].proc] = t[a + k] /\ m[k].proc \in Sleeper
      BY <1>28, <3>1, <3>2
    <3>4. f[m[k].proc] = t[a + k] - 1
      <4>1. f[m[k].proc] = IF LeftOf(l)[m[k].proc] > 0 THEN LeftOf(l)[m[k].proc] - 1 ELSE 0
        BY <1>29, <3>3
      <4> QED BY <3>2, <3>3, <4>1
    <3> QED BY <1>23, <3>1, <3>4
  <2>3. ASSUME NEW q \in Sleeper, \A k \in DOMAIN m : m[k].proc # q PROVE f[q] = 0
    <3>1. CASE \A k \in 1 .. n : l[k].proc # q
      BY <1>28, <1>29, <3>1
    <3>2. CASE \E k \in 1 .. n : l[k].proc = q
      <4>1. PICK k \in 1 .. n : l[k].proc = q
        BY <3>2
      <4>2. k <= a
        <5>1. SUFFICES ASSUME k > a PROVE FALSE
          OBVIOUS
        <5>2. k - a \in 1 .. n - a /\ a + (k - a) = k
          BY <5>1
        <5>3. m[k - a].proc = l[a + (k - a)].proc
          BY <1>18, <5>2
        <5> QED BY <1>24, <2>3, <4>1, <5>2, <5>3
      <4>3. t[k] = 1
        BY <1>14, <1>15, <4>2
      <4> QED BY <1>28, <1>29, <4>1, <4>3
    <3> QED BY <3>1, <3>2
  <2> QED BY <1>17, <1>26, <2>1, <2>2, <2>3, LeftIs
<1>31. {ticked[i].proc : i \in fired} = {p \in Sleeper : LeftOf(l)[p] = 1}
  <2>1. ASSUME NEW i \in fired
        PROVE  ticked[i].proc \in Sleeper /\ LeftOf(l)[ticked[i].proc] = 1
    <3>1. i \in 1 .. n /\ t[i] = 1
      BY <1>12, <1>14
    <3> QED BY <1>1, <1>2, <1>7, <1>28, <3>1
  <2>2. ASSUME NEW p \in Sleeper, LeftOf(l)[p] = 1
        PROVE  \E i \in fired : ticked[i].proc = p
    <3>1. PICK i \in 1 .. n : l[i].proc = p
      BY <1>28, <2>2
    <3>2. t[i] = 1
      BY <1>28, <2>2, <3>1
    <3> QED BY <1>7, <1>13, <3>1, <3>2
  <2> QED BY <2>1, <2>2
<1>32. Fired(ticked) = LastTick(l)
  BY <1>11, <1>31 DEF Fired, LastTick
<1> QED BY <1>27, <1>29, <1>30, <1>32

-----------------------------------------------------------------------------
\* The operators of the model, by the list.
LEMMA ModelFacts ==
    /\ \A i : TicksTo(i) = Ticks(list)[i]
    /\ [p \in Sleeper |-> IF Listed(p) THEN TicksTo(Position(p)) ELSE 0] = LeftOf(list)
<1>1. \A i : TicksTo(i) = Ticks(list)[i]
  BY DEF TicksTo, Ticks
<1>2. [p \in Sleeper |-> IF Listed(p) THEN TicksTo(Position(p)) ELSE 0] = LeftOf(list)
  BY <1>1 DEF LeftOf, Listed, Position
<1> QED BY <1>1, <1>2

LEMMA ModelFactsNext ==
    [p \in Sleeper |-> IF Listed(p)' THEN TicksTo(Position(p))' ELSE 0] = LeftOf(list')
<1>1. \A i : TicksTo(i)' = Ticks(list')[i]
  BY DEF TicksTo, Ticks
<1> QED BY <1>1 DEF LeftOf, Listed, Position

\* add_timer puts the new timer after those that expire no later.
LEMMA PlaceFacts ==
    ASSUME Good(list), NEW time \in Nat, NEW i, i = InsertBefore(time)
    PROVE  /\ i \in 1 .. Len(list) + 1
           /\ Ticks(list)[i - 1] <= time
           /\ i <= Len(list) => time < Ticks(list)[i]
<1>1. PICK n \in Nat : n = Len(list) /\ DOMAIN list = 1 .. n
  BY ListFacts DEF Good
<1>2. PICK t : t = Ticks(list)
  OBVIOUS
<1>3. t \in [0 .. n -> Nat] /\ t[0] = 0
  BY <1>1, <1>2, TicksExist DEF Good, IsTicks
<1>4. PICK later : later = {k \in 1 .. n : time < t[k]}
  OBVIOUS
<1>5. i = IF later = {} THEN n + 1 ELSE CHOOSE k \in later : \A j \in later : k <= j
  <2>1. \A k : TicksTo(k) = t[k]
    BY <1>2, ModelFacts
  <2>2. {k \in DOMAIN list : time < TicksTo(k)} = later
    BY <1>1, <1>4, <2>1
  <2>3. InsertBefore(time) =
          IF {k \in DOMAIN list : time < TicksTo(k)} = {} THEN Len(list) + 1
          ELSE CHOOSE k \in {k1 \in DOMAIN list : time < TicksTo(k1)} :
                 \A j \in {k1 \in DOMAIN list : time < TicksTo(k1)} : k <= j
    BY Zenon DEF InsertBefore
  <2> QED BY <1>1, <2>2, <2>3
<1>6. \A k \in 0 .. n : k \notin later => t[k] <= time
  BY <1>3, <1>4
<1>7. CASE later = {}
  <2>1. i = n + 1 /\ n + 1 - 1 = n /\ n \in 0 .. n
    BY <1>5, <1>7
  <2> QED BY <1>1, <1>2, <1>6, <1>7, <2>1
<1>8. CASE later # {}
  <2>1. \E k \in later : \A j \in later : k <= j
    <3>1. later \in SUBSET Nat
      BY <1>4
    <3> QED BY <1>8, <3>1, LeastNat
  <2>2. i \in later /\ \A j \in later : i <= j
    BY <1>5, <1>8, <2>1
  <2>3. i \in 1 .. n /\ time < t[i] /\ i - 1 \in 0 .. n /\ ~(i <= i - 1)
    BY <1>4, <2>2
  <2>4. t[i - 1] <= time
    BY <1>6, <2>2, <2>3
  <2> QED BY <1>1, <1>2, <2>3, <2>4
<1> QED BY <1>7, <1>8

-----------------------------------------------------------------------------
\* What each operation does to the list.
LEMMA AddTimerKeeps ==
    ASSUME Good(list), NEW p \in Sleeper, ~Listed(p), NEW time \in 1 .. MaxTime, AddTimer(p, time)
    PROVE  Good(list') /\ LeftOf(list') = [LeftOf(list) EXCEPT ![p] = time]
<1>1. PICK i : i = InsertBefore(time)
  OBVIOUS
<1>2. /\ i \in 1 .. Len(list) + 1 /\ Ticks(list)[i - 1] <= time
      /\ i <= Len(list) => time < Ticks(list)[i]
  <2>1. time \in Nat
    BY TimerAssumption
  <2> QED BY <1>1, <2>1, PlaceFacts
<1>3. PICK m : m = Inserted(list, p, time, i)
  OBVIOUS
<1>4. list' = m
  <2>1. TicksTo(i - 1) = Ticks(list)[i - 1]
    BY ModelFacts
  <2> QED BY <1>1, <1>3, <2>1 DEF AddTimer, Inserted
<1>5. list \in Seq(Timer) /\ \A j \in DOMAIN list : list[j].proc # p
  BY DEF Good, Listed
<1>6. Good(m) /\ LeftOf(m) = [LeftOf(list) EXCEPT ![p] = time]
  BY <1>2, <1>3, <1>5, InsertKeeps
<1> QED BY <1>4, <1>6

LEMMA DelTimerKeeps ==
    ASSUME Good(list), NEW p \in Sleeper, Listed(p), DelTimer(p)
    PROVE  Good(list') /\ LeftOf(list') = [LeftOf(list) EXCEPT ![p] = 0]
<1>1. PICK i : i = Position(p)
  OBVIOUS
<1>2. i \in DOMAIN list /\ list[i].proc = p /\ list \in Seq(Timer)
  BY <1>1 DEF Listed, Position, Good
<1>3. PICK rest : rest = IF i < Len(list)
                         THEN [list EXCEPT ![i + 1].expires = @ + list[i].expires] ELSE list
  OBVIOUS
<1>4. PICK m : m = RemoveAt(rest, i)
  OBVIOUS
<1>5. list' = m
  BY <1>1, <1>3, <1>4 DEF DelTimer
<1>6. Good(m) /\ LeftOf(m) = [LeftOf(list) EXCEPT ![list[i].proc] = 0]
  BY <1>2, <1>3, <1>4, RemoveKeeps
<1> QED BY <1>2, <1>5, <1>6

LEMMA RunTimerListKeeps ==
    ASSUME Good(list), RunTimerList
    PROVE  /\ Good(list')
           /\ LeftOf(list') =
                [p \in Sleeper |-> IF LeftOf(list)[p] > 0 THEN LeftOf(list)[p] - 1 ELSE 0]
           /\ awake' = awake \cup {p \in Sleeper : LeftOf(list)[p] = 1}
<1>1. PICK ticked : ticked = Ticked(list)
  OBVIOUS
<1>2. PICK m : m = SubSeq(ticked, Cardinality(Expired(ticked)) + 1, Len(ticked))
  OBVIOUS
<1>3. list' = m /\ awake' = awake \cup Fired(ticked)
  BY <1>1, <1>2 DEF RunTimerList, Ticked, Fired
<1>4. list \in Seq(Timer)
  BY DEF Good
<1>5. /\ Good(m)
      /\ LeftOf(m) = [p \in Sleeper |-> IF LeftOf(list)[p] > 0 THEN LeftOf(list)[p] - 1 ELSE 0]
      /\ Fired(ticked) = LastTick(list)
  <2>1. Good(m)
    BY <1>1, <1>2, <1>4, TickKeeps
  <2>2. LeftOf(m) = [p \in Sleeper |-> IF LeftOf(list)[p] > 0 THEN LeftOf(list)[p] - 1 ELSE 0]
    BY <1>1, <1>2, <1>4, TickKeeps
  <2>3. Fired(ticked) = LastTick(list)
    BY <1>1, <1>2, <1>4, TickKeeps
  <2> QED BY <2>1, <2>2, <2>3
<1> QED BY <1>3, <1>5 DEF LastTick

-----------------------------------------------------------------------------
LEMMA TimerInitInv == TimerInit => TimerInv /\ LeftOf(list) = [p \in Sleeper |-> 0]
<1> SUFFICES ASSUME TimerInit PROVE TimerInv /\ LeftOf(list) = [p \in Sleeper |-> 0]
  OBVIOUS
<1>1. list = <<>> /\ awake = Sleeper
  BY DEF TimerInit
<1>2. list \in Seq(Timer) /\ DOMAIN list = {}
  BY <1>1
<1> QED BY <1>1, <1>2 DEF TimerInv, Good, OncePerProc, HeadInv, LeftOf

LEMMA TimerNextInv == TimerInv /\ [TimerNext]_timerVars => TimerInv'
<1> SUFFICES ASSUME TimerInv, [TimerNext]_timerVars PROVE TimerInv'
  OBVIOUS
<1>1. ASSUME NEW p \in Sleeper, NEW time \in 1 .. MaxTime, SleepFor(p, time) PROVE TimerInv'
  BY <1>1, AddTimerKeeps DEF SleepFor, TimerInv
<1>2. ASSUME NEW p \in Sleeper, Wake(p) PROVE TimerInv'
  BY <1>2, DelTimerKeeps DEF Wake, TimerInv
<1>3. ASSUME NEW p \in Sleeper, WakeEarly(p) PROVE TimerInv'
  BY <1>3 DEF WakeEarly, TimerInv
<1>4. CASE RunTimerList
  BY <1>4, RunTimerListKeeps DEF TimerInv
<1>5. CASE UNCHANGED timerVars
  BY <1>5 DEF timerVars, TimerInv
<1> QED BY <1>1, <1>2, <1>3, <1>4, <1>5 DEF TimerNext

\* The timers stay a list of one timer per process with ticks left at its head.
THEOREM TimerInvCorrect == TimerSpec => []TimerInv
<1>1. TimerInit => TimerInv
  BY TimerInitInv
<1> QED BY <1>1, TimerNextInv, PTL DEF TimerSpec

\* run_timer_list never finds the head without ticks: the unsigned count of
\* the head does not wrap.
THEOREM HeadCorrect == TimerSpec => []HeadHasTicks
<1>1. TimerInv => HeadHasTicks
  BY DEF TimerInv, Good, HeadInv, HeadHasTicks, TimerTypeOK
<1> QED BY <1>1, TimerInvCorrect, PTL

-----------------------------------------------------------------------------
LEMMA StepImplements ==
    ASSUME TimerInv, [TimerNext]_timerVars
    PROVE  [Abstract!TNext]_(Abstract!tvars)
<1> DEFINE left == [p \in Sleeper |-> IF Listed(p) THEN TicksTo(Position(p)) ELSE 0]
<1>1. left = LeftOf(list) /\ left' = LeftOf(list')
  <2>1. left = LeftOf(list)
    BY ModelFacts
  <2> QED BY <2>1, ModelFactsNext
<1>2. \A p \in Sleeper : ~Listed(p) => left[p] = 0
  OBVIOUS
<1>3. ASSUME NEW p \in Sleeper, NEW time \in 1 .. MaxTime, SleepFor(p, time)
      PROVE  Abstract!TAdd(p, time)
  <2>1. p \in awake /\ left[p] = 0 /\ awake' = awake \ {p}
    BY <1>2, <1>3 DEF SleepFor
  <2>2. left' = [left EXCEPT ![p] = time]
    BY <1>1, <1>3, AddTimerKeeps DEF SleepFor, TimerInv
  <2> QED BY <2>1, <2>2 DEF Abstract!TAdd
<1>4. ASSUME NEW p \in Sleeper, Wake(p) PROVE Abstract!TDel(p)
  <2>1. p \in awake /\ awake' = awake
    BY <1>4 DEF Wake
  <2>2. left' = [left EXCEPT ![p] = 0]
    BY <1>1, <1>4, DelTimerKeeps DEF Wake, TimerInv
  <2> QED BY <2>1, <2>2 DEF Abstract!TDel
<1>5. ASSUME NEW p \in Sleeper, WakeEarly(p) PROVE Abstract!TWakeEarly(p)
  <2>1. p \notin awake /\ awake' = awake \cup {p} /\ list' = list
    BY <1>5 DEF WakeEarly
  <2>2. left' = left
    BY <1>1, <2>1
  <2> QED BY <2>1, <2>2 DEF Abstract!TWakeEarly
<1>6. CASE RunTimerList
  <2>1. /\ left' = [p \in Sleeper |-> IF left[p] > 0 THEN left[p] - 1 ELSE 0]
        /\ awake' = awake \cup {p \in Sleeper : left[p] = 1}
    BY <1>1, <1>6, RunTimerListKeeps DEF TimerInv
  <2> QED BY <1>6, <2>1 DEF Abstract!TTick, Abstract!TNext
<1>7. CASE UNCHANGED timerVars
  <2>1. list' = list /\ awake' = awake
    BY <1>7 DEF timerVars
  <2>2. left' = left
    BY <1>1, <2>1
  <2> QED BY <2>1, <2>2 DEF Abstract!tvars
<1> QED BY <1>3, <1>4, <1>5, <1>6, <1>7 DEF TimerNext, Abstract!TNext

\* The list of deltas gives every sleeper the ticks it asked for.
THEOREM SleepsCorrect == TimerSpec => SleepsItsTime
<1>1. TimerInit => Abstract!TInit
  <2>1. SUFFICES ASSUME TimerInit PROVE Abstract!TInit
    OBVIOUS
  <2>2. [p \in Sleeper |-> IF Listed(p) THEN TicksTo(Position(p)) ELSE 0] = [p \in Sleeper |-> 0]
    BY <2>1, TimerInitInv, ModelFacts
  <2> QED BY <2>1, <2>2 DEF TimerInit, Abstract!TInit
<1>2. TimerInv /\ [TimerNext]_timerVars => [Abstract!TNext]_(Abstract!tvars)
  BY StepImplements
<1> QED BY <1>1, <1>2, TimerInvCorrect, PTL DEF TimerSpec, SleepsItsTime, Abstract!TSpec

-----------------------------------------------------------------------------
(***************************************************************************)
(* Process, for any number of processes.                                   *)
(***************************************************************************)
USE ProcAssumption, NumberAssumption
\* TypeOK is not inductive: ForkWake and KillWake wake up arg[current], which
\* must be a process.
ArgInv == \A p \in Proc : pc[p] \in {"fork_wake", "kill_wake"} => arg[p] \in Proc

TypeInv == TypeOK /\ ArgInv

\* Init establishes the types.
LEMMA InitTypeInv == Init => TypeInv
BY DEF Init, TypeInv, ArgInv, TypeOK, States, WaitStates, Labels, Parked, Halts

\* Every step of schedule() keeps the types.
LEMMA ScheduleTypeInv ==
    ASSUME TypeInv, NEW back \in Parked, Schedule(back)
    PROVE  TypeInv'
BY DEF TypeInv, ArgInv, TypeOK, Parked, Labels, Schedule, Refill, Goto

\* wakeup_proc keeps the types of what it assigns.
LEMMA WakeupTypeOK ==
    ASSUME TypeOK, NEW S \in SUBSET Proc, Wakeup(S)
    PROVE  /\ state' \in [Proc -> States]
           /\ wait_state' \in [Proc -> WaitStates]
           /\ runq' \subseteq Proc
BY DEF TypeOK, Wakeup, States, WaitStates

\* A failed assertion keeps the types.
LEMMA HaltTypeInv ==
    ASSUME TypeInv, NEW why \in Halts, Halt(why)
    PROVE  TypeInv'
BY DEF TypeInv, ArgInv, TypeOK, Halt, Labels, Parked

\* Every step keeps the types.
LEMMA NextTypeInv == TypeInv /\ [Next]_vars => TypeInv'
<1> SUFFICES ASSUME TypeInv, [Next]_vars PROVE TypeInv'
    OBVIOUS
<1> USE DEF Labels, Parked, Goto
<1>1. CASE SysEnter
    BY <1>1 DEF TypeInv, ArgInv, TypeOK, SysEnter
<1>2. CASE SysYield
    BY <1>2 DEF TypeInv, ArgInv, TypeOK, SysYield
<1>3. CASE ForkLink
    BY <1>3, HaltTypeInv DEF TypeInv, ArgInv, TypeOK, ForkLink, SetLinks, States, Live, Halts
<1>4. CASE ForkWake
    BY <1>4, WakeupTypeOK, HaltTypeInv DEF TypeInv, ArgInv, TypeOK, ForkWake, Refill, Return, Halts
<1>5. CASE ForkFail
    BY <1>5, HaltTypeInv DEF TypeInv, ArgInv, TypeOK, ForkFail, Return, Halts
<1>6. CASE WaitReap
    BY <1>6 DEF TypeInv, ArgInv, TypeOK, WaitReap, RemoveLinks, Awaited, Children, Live, States
<1>7. CASE WaitNoChild \/ WaitBack
    BY <1>7 DEF TypeInv, ArgInv, TypeOK, WaitNoChild, WaitBack
<1>8. CASE WaitSleep
    BY <1>8 DEF TypeInv, ArgInv, TypeOK, WaitSleep, States
<1>9. CASE WaitSet
    BY <1>9 DEF TypeInv, ArgInv, TypeOK, WaitSet, WaitStates
<1>10. CASE \E t \in Proc : Kill(t)
    BY <1>10 DEF TypeInv, ArgInv, TypeOK, Kill, Live
<1>11. CASE KillFail \/ SleepZero
    BY <1>11 DEF TypeInv, ArgInv, TypeOK, KillFail, SleepZero
<1>12. CASE KillWake
    BY <1>12, WakeupTypeOK, HaltTypeInv DEF TypeInv, ArgInv, TypeOK, KillWake, Refill, Halts
<1>13. CASE Sleep
    BY <1>13 DEF TypeInv, ArgInv, TypeOK, Sleep, States, WaitStates
<1>14. CASE SleepBack
    BY <1>14 DEF TypeInv, ArgInv, TypeOK, SleepBack
<1>15. CASE ExitZombie
    BY <1>15, HaltTypeInv DEF TypeInv, ArgInv, TypeOK, ExitZombie, States, Halts
<1>16. CASE ExitNotify
    BY <1>16, WakeupTypeOK, HaltTypeInv DEF TypeInv, ArgInv, TypeOK, ExitNotify, Refill, Adopted, Halts
<1>17. CASE TrapReturn
    BY <1>17 DEF TypeInv, ArgInv, TypeOK, TrapReturn
<1>18. CASE CallSchedule
    BY <1>18, ScheduleTypeInv DEF CallSchedule
<1>19. CASE InitEnd
    BY <1>19, HaltTypeInv DEF InitEnd, Halts
<1>20. CASE Tick
  <2> DEFINE fired == {p \in Proc : timer[p] = 1}
  <2>1. CASE Halt("assert")
    BY <2>1, HaltTypeInv DEF Halts
  <2>2. CASE ~Halt("assert")
    <3>1. Wakeup(fired)
        BY <1>20, <2>2 DEF Tick
    <3>2. /\ state' \in [Proc -> States]
          /\ wait_state' \in [Proc -> WaitStates]
          /\ runq' \subseteq Proc
        BY <3>1, WakeupTypeOK DEF TypeInv
    <3>3. timer' \in [Proc -> 0 .. MaxSleep]
        BY <1>20, <2>2 DEF Tick, TypeInv, TypeOK
    <3>4. time_slice' \in [Proc -> 0 .. MAX_TIME_SLICE]
        BY <1>20, <2>2 DEF Tick, TypeInv, TypeOK
    <3>5. need_resched' \in [Proc -> BOOLEAN]
        BY <1>20, <2>2 DEF Tick, TypeInv, TypeOK
    <3>6. pc' = [pc EXCEPT ![current] = IF @ = "user" THEN "trapret" ELSE @]
        BY <1>20, <2>2 DEF Tick
    <3>7. UNCHANGED <<exiting, parent, nr_process, current, arg, halted>>
        BY <1>20, <2>2 DEF Tick
    <3> QED
        BY <3>2, <3>3, <3>4, <3>5, <3>6, <3>7 DEF TypeInv, ArgInv, TypeOK
  <2> QED
    BY <2>1, <2>2
<1>21. CASE UNCHANGED vars
    BY <1>21 DEF TypeInv, ArgInv, TypeOK, vars
<1> QED
    BY <1>1, <1>2, <1>3, <1>4, <1>5, <1>6, <1>7, <1>8, <1>9, <1>10, <1>11, <1>12,
       <1>13, <1>14, <1>15, <1>16, <1>17, <1>18, <1>19, <1>20, <1>21
       DEF Next, UserStep, KernelStep, Stopped

\* Every variable keeps its type.
THEOREM TypeCorrect == Spec => []TypeOK
BY InitTypeInv, NextTypeInv, PTL DEF Spec, TypeInv

-----------------------------------------------------------------------------
\* wakeup_proc and schedule() are the only ones to touch the run queue; each
\* restores the invariant by itself, whatever it is applied to.
LEMMA WakeupRunQueue ==
    ASSUME TypeInv, RunQueueInv, NEW S \in SUBSET Proc, Wakeup(S), UNCHANGED current
    PROVE  RunQueueInv'
BY DEF TypeInv, TypeOK, RunQueueInv, Wakeup

\* schedule() requeues current only if it is still runnable.
LEMMA ScheduleRunQueue ==
    ASSUME TypeInv, RunQueueInv, NEW back \in Parked, Schedule(back)
    PROVE  RunQueueInv'
BY DEF TypeInv, TypeOK, RunQueueInv, Schedule

\* No other assignment of a step touches the run queue.
LEMMA NextRunQueue == TypeInv /\ RunQueueInv /\ [Next]_vars => RunQueueInv'
<1> SUFFICES ASSUME TypeInv, RunQueueInv, [Next]_vars PROVE RunQueueInv'
    OBVIOUS
<1> USE DEF TypeInv, TypeOK
<1>1. CASE UNCHANGED <<state, runq, current>>
    BY <1>1 DEF RunQueueInv
<1>2. CASE ForkLink
    BY <1>2, <1>1 DEF ForkLink, Live, RunQueueInv, Halt
<1>3. CASE ForkWake \/ KillWake
  <2>1. arg[current] \in Proc
    BY <1>3 DEF ForkWake, KillWake, ArgInv
  <2> QED
    BY <1>3, <1>1, <2>1, WakeupRunQueue DEF ForkWake, KillWake, Halt
<1>4. CASE WaitReap
    BY <1>4 DEF WaitReap, Awaited, Children, Live, RunQueueInv
<1>5. CASE WaitSleep \/ Sleep
    BY <1>5 DEF WaitSleep, Sleep, RunQueueInv
<1>6. CASE ExitZombie
    BY <1>6, <1>1 DEF ExitZombie, RunQueueInv, Halt
<1>7. CASE ExitNotify
  <2> DEFINE waiting == {p \in Told \cap Proc : wait_state[p] = "WT_CHILD"}
  <2>1. CASE Wakeup(waiting) /\ UNCHANGED current
    BY <2>1, WakeupRunQueue
  <2>2. CASE Halt("assert")
    BY <2>2, <1>1 DEF Halt
  <2> QED
    BY <1>7, <2>1, <2>2 DEF ExitNotify
<1>8. CASE CallSchedule
    BY <1>8, ScheduleRunQueue DEF CallSchedule, Parked
<1>9. CASE Tick
  <2> DEFINE fired == {p \in Proc : timer[p] = 1}
  <2>1. CASE Wakeup(fired) /\ UNCHANGED current
    BY <2>1, WakeupRunQueue
  <2>2. CASE Halt("assert")
    BY <2>2, <1>1 DEF Halt
  <2> QED
    BY <1>9, <2>1, <2>2 DEF Tick
<1> QED
    BY <1>1, <1>2, <1>3, <1>4, <1>5, <1>6, <1>7, <1>8, <1>9
       DEF Next, UserStep, KernelStep, Stopped, SysEnter, SysYield, ForkFail,
           WaitNoChild, WaitSet, WaitBack, Kill, KillFail, SleepZero, SleepBack,
           TrapReturn, InitEnd, Halt, vars

\* The run queue holds exactly what may be given the CPU next.
THEOREM RunQueueCorrect == Spec => []RunQueueInv
<1>1. Init => RunQueueInv
    BY DEF Init, RunQueueInv
<1> QED
    BY <1>1, InitTypeInv, NextTypeInv, NextRunQueue, PTL DEF Spec

-----------------------------------------------------------------------------
(***************************************************************************)
(* Control: which code a process can be in, in each state.  The timer      *)
(* interrupt and do_kill rely on TimerOnStack, which is inductive only     *)
(* together with it.                                                       *)
(***************************************************************************)
Inv == TypeInv /\ RunQueueInv /\ ControlInv /\ TimerOnStack

\* The kernel starts in the invariant.
LEMMA InitInv == Init => Inv
<1> SUFFICES ASSUME Init PROVE Inv
    OBVIOUS
<1>1. TypeInv
    BY InitTypeInv
<1>2. RunQueueInv
    BY DEF Init, RunQueueInv
<1>3. ControlInv
    BY DEF Init, ControlInv, Parked, Running
<1>4. TimerOnStack
    BY DEF Init, TimerOnStack
<1> QED
    BY <1>1, <1>2, <1>3, <1>4 DEF Inv

\* No step wakes up a zombie, or a free struct.
LEMMA WakesSleepers ==
    ASSUME Inv
    PROVE  /\ pc[current] \in {"fork_wake", "kill_wake"} =>
                state[arg[current]] \in {"UNINIT", "SLEEPING", "RUNNABLE"}
           /\ \A p \in Proc : wait_state[p] = "WT_CHILD" => state[p] = "SLEEPING"
           /\ \A p \in Proc : timer[p] > 0 => state[p] \in {"SLEEPING", "RUNNABLE"}
<1> USE DEF Inv, TypeInv, TypeOK
<1>1. pc[current] = "fork_wake" => state[arg[current]] = "UNINIT"
    BY DEF ArgInv, ControlInv
<1>2. pc[current] = "kill_wake" => state[arg[current]] \in {"SLEEPING", "RUNNABLE"}
    BY DEF ControlInv
<1>3. \A p \in Proc : timer[p] > 0 => state[p] \in {"SLEEPING", "RUNNABLE"}
    BY DEF ControlInv, TimerOnStack, States
<1> QED
    BY <1>1, <1>2, <1>3 DEF ControlInv

\* Every step keeps a process where its state allows it to be.
LEMMA NextControl == Inv /\ [Next]_vars => ControlInv' /\ TimerOnStack'
<1> SUFFICES ASSUME Inv, [Next]_vars PROVE ControlInv' /\ TimerOnStack'
    OBVIOUS
<1> USE DEF Inv, TypeInv, TypeOK, Goto
<1>1. CASE SysEnter
    BY <1>1 DEF SysEnter, ControlInv, TimerOnStack, Running
<1>2. CASE SysYield
    BY <1>2 DEF SysYield, ControlInv, TimerOnStack, Running
<1>3. CASE ForkLink
    BY <1>3 DEF ForkLink, SetLinks, Live, Halt, ControlInv, TimerOnStack, Running, Parked
<1>5. CASE ForkFail
    BY <1>5 DEF ForkFail, Return, Halt, ControlInv, TimerOnStack, Running
<1>6. CASE WaitReap
    BY <1>6 DEF WaitReap, RemoveLinks, Awaited, Children, Live, ControlInv, TimerOnStack, Running, Parked
<1>7. CASE WaitNoChild \/ WaitBack
    BY <1>7 DEF WaitNoChild, WaitBack, ControlInv, TimerOnStack, Running
<1>8. CASE WaitSleep
    BY <1>8 DEF WaitSleep, ControlInv, TimerOnStack, Running
<1>9. CASE WaitSet
    BY <1>9 DEF WaitSet, ControlInv, TimerOnStack, Running
<1>10. CASE \E t \in Proc : Kill(t)
    BY <1>10 DEF Kill, Live, ControlInv, TimerOnStack, Running, WT_INTERRUPTED
<1>11. CASE KillFail \/ SleepZero
    BY <1>11 DEF KillFail, SleepZero, ControlInv, TimerOnStack, Running
<1>13. CASE Sleep
    BY <1>13 DEF Sleep, ControlInv, TimerOnStack, Running
<1>14. CASE SleepBack
    BY <1>14 DEF SleepBack, ControlInv, TimerOnStack, Running
<1>15. CASE ExitZombie
    BY <1>15 DEF ExitZombie, Halt, ControlInv, TimerOnStack, Running
<1>17. CASE TrapReturn
    BY <1>17 DEF TrapReturn, ControlInv, TimerOnStack, Running
<1>18. CASE CallSchedule
    BY <1>18 DEF CallSchedule, Schedule, ControlInv, TimerOnStack, Running, RunQueueInv, Parked
<1>19. CASE InitEnd
    BY <1>19 DEF InitEnd, Halt, ControlInv, TimerOnStack, Running
<1>21. CASE UNCHANGED vars
    BY <1>21 DEF vars, ControlInv, TimerOnStack, Running
<1>4. CASE ForkWake
    BY <1>4, WakesSleepers DEF ForkWake, Wakeup, ZombieFree, Return, Halt, ControlInv, TimerOnStack, Running, ArgInv
<1>12. CASE KillWake
  <2> DEFINE t == arg[current]
  <2>1. t \in Proc /\ state[t] \in {"SLEEPING", "RUNNABLE"}
    BY <1>12 DEF KillWake, ControlInv
  <2>2. ZombieFree({t})
    BY <2>1 DEF ZombieFree
  <2>3. /\ state' = [state EXCEPT ![t] = "RUNNABLE"]
        /\ wait_state' = [wait_state EXCEPT ![t] = IF state[t] = "RUNNABLE" THEN @ ELSE "0"]
    BY <1>12, <2>1, <2>2 DEF KillWake, Wakeup
  <2>4. /\ pc[current] = "kill_wake"
        /\ pc' = [pc EXCEPT ![current] = "trapret"]
        /\ UNCHANGED <<timer, current, halted>>
    BY <1>12, <2>2 DEF KillWake
  <2>5. t = current => state[t] = "RUNNABLE"
    BY <2>1, <2>4 DEF ControlInv
  <2> QED
    BY <2>1, <2>3, <2>4, <2>5 DEF ControlInv, TimerOnStack, Running, Parked
<1>16. CASE ExitNotify
  <2> DEFINE waiting == {p \in Told \cap Proc : wait_state[p] = "WT_CHILD"}
  <2>1. \A p \in waiting : state[p] = "SLEEPING" /\ p # current
    BY <1>16 DEF ExitNotify, ControlInv
  <2>2. ZombieFree(waiting)
    BY <2>1 DEF ZombieFree
  <2>3. /\ state' = [p \in Proc |-> IF p \in waiting THEN "RUNNABLE" ELSE state[p]]
        /\ wait_state' = [p \in Proc |-> IF p \in waiting THEN "0" ELSE wait_state[p]]
    BY <1>16, <2>1, <2>2 DEF ExitNotify, Wakeup
  <2>4. /\ pc[current] = "exit_notify"
        /\ pc' = [pc EXCEPT ![current] = "exit_sched"]
        /\ UNCHANGED <<timer, current, halted>>
    BY <1>16, <2>2 DEF ExitNotify
  <2> QED
    BY <2>1, <2>3, <2>4 DEF ControlInv, TimerOnStack, Running, Parked
<1>20. CASE Tick
    BY <1>20, WakesSleepers DEF Tick, Wakeup, ZombieFree, Return, Halt, ControlInv, TimerOnStack, Running, ArgInv
<1> QED
    BY <1>1, <1>2, <1>3, <1>4, <1>5, <1>6, <1>7, <1>8, <1>9, <1>10, <1>11, <1>12,
       <1>13, <1>14, <1>15, <1>16, <1>17, <1>18, <1>19, <1>20, <1>21
       DEF Next, UserStep, KernelStep, Stopped

\* Together the four parts are inductive.
LEMMA NextInv == Inv /\ [Next]_vars => Inv'
BY NextTypeInv, NextRunQueue, NextControl DEF Inv

\* In every state a process is only where that state allows it to be, and the
\* reason of its sleep is the one it is known by.
THEOREM ControlCorrect == Spec => []ControlInv
BY InitInv, NextInv, PTL DEF Spec, Inv

\* The timer list never holds a timer whose stack frame is gone.
THEOREM TimerOnStackCorrect == Spec => []TimerOnStack
BY InitInv, NextInv, PTL DEF Spec, Inv

-----------------------------------------------------------------------------
(***************************************************************************)
(* The family.  The parents form a tree under initproc; what do_exit and   *)
(* do_wait do to it depends on who is a zombie and who waits.              *)
(***************************************************************************)

\* idleproc has one child, initproc, for ever.
InitFamily ==
    /\ parent[initproc] = idleproc
    /\ \A q \in Live \ {initproc} : parent[q] # idleproc

Family == NoDanglingParent /\ InitFamily

\* The steps that change neither the family nor who is dead, or dying.
LEMMA FamilyUnchanged ==
    ASSUME Inv, Family, UNCHANGED parent,
           \A p \in Proc : /\ state'[p] = "NONE" <=> state[p] = "NONE"
                           /\ state'[p] = "ZOMBIE" <=> state[p] = "ZOMBIE"
                           /\ pc[p] = "exit_notify" => pc'[p] = "exit_notify"
    PROVE  Family'
BY DEF Family, InitFamily, NoDanglingParent, Live, Inv, TypeInv, TypeOK

\* A wakeup leaves the dead dead, the free free and the others alive.
LEMMA WakeupKeepsDead ==
    ASSUME Inv, NEW S \in SUBSET Proc, Wakeup(S), S \subseteq Live, ZombieFree(S)
    PROVE  \A p \in Proc : /\ state'[p] = "NONE" <=> state[p] = "NONE"
                           /\ state'[p] = "ZOMBIE" <=> state[p] = "ZOMBIE"
BY DEF Wakeup, Live, ZombieFree, Inv, TypeInv, TypeOK, States

\* The three places that wake processes up do so to live processes only.
LEMMA ForkWakeKeepsDead ==
    ASSUME Inv, ForkWake \/ KillWake
    PROVE  /\ ~Halt("assert")
           /\ \A p \in Proc : /\ state'[p] = "NONE" <=> state[p] = "NONE"
                              /\ state'[p] = "ZOMBIE" <=> state[p] = "ZOMBIE"
<1> DEFINE t == arg[current]
<1>1. t \in Proc /\ state[t] \in {"UNINIT", "SLEEPING", "RUNNABLE"}
    BY WakesSleepers DEF ForkWake, KillWake, Inv, TypeInv, ArgInv, TypeOK
<1>2. ZombieFree({t}) /\ {t} \subseteq Live
    BY <1>1 DEF ZombieFree, Live
<1>3. Wakeup({t}) /\ UNCHANGED halted
    BY <1>2 DEF ForkWake, KillWake
<1>4. halted = "no"
    BY DEF Inv, ControlInv, ForkWake, KillWake, Running
<1> QED
    BY <1>1, <1>2, <1>3, <1>4, WakeupKeepsDead DEF Halt

\* The timers that a tick ends belong to the living.
LEMMA TickKeepsDead ==
    ASSUME Inv, Tick
    PROVE  /\ ~Halt("assert")
           /\ \A p \in Proc : /\ state'[p] = "NONE" <=> state[p] = "NONE"
                              /\ state'[p] = "ZOMBIE" <=> state[p] = "ZOMBIE"
           /\ pc' = [pc EXCEPT ![current] = IF @ = "user" THEN "trapret" ELSE @]
           /\ UNCHANGED <<parent, nr_process, current, arg, halted>>
<1> DEFINE fired == {p \in Proc : timer[p] = 1}
<1>1. ZombieFree(fired) /\ fired \subseteq Live
    BY WakesSleepers DEF ZombieFree, Live
<1>2. /\ Wakeup(fired)
      /\ pc' = [pc EXCEPT ![current] = IF @ = "user" THEN "trapret" ELSE @]
      /\ UNCHANGED <<parent, nr_process, current, arg, halted>>
      /\ halted = "no"
    BY <1>1 DEF Tick, Running
<1> QED
    BY <1>1, <1>2, WakeupKeepsDead DEF Halt

\* do_exit wakes the living only.
LEMMA ExitNotifyKeepsDead ==
    ASSUME Inv, ExitNotify
    PROVE  /\ ~Halt("assert")
           /\ \A p \in Proc : /\ state'[p] = "NONE" <=> state[p] = "NONE"
                              /\ state'[p] = "ZOMBIE" <=> state[p] = "ZOMBIE"
           /\ pc' = [pc EXCEPT ![current] = "exit_sched"]
           /\ parent' = Adopted
           /\ \A p \in Told \cap Proc : wait_state'[p] # "WT_CHILD"
           /\ \A p \in Proc : wait_state'[p] = "WT_CHILD" => wait_state[p] = "WT_CHILD"
           /\ arg' = [arg EXCEPT ![current] = NoProc]
           /\ UNCHANGED <<nr_process, current, halted>>
<1> DEFINE waiting == {p \in Told \cap Proc : wait_state[p] = "WT_CHILD"}
<1>1. ZombieFree(waiting) /\ waiting \subseteq Live
    BY WakesSleepers DEF ZombieFree, Live
<1>2. /\ Wakeup(waiting)
      /\ pc' = [pc EXCEPT ![current] = "exit_sched"]
      /\ parent' = Adopted
      /\ arg' = [arg EXCEPT ![current] = NoProc]
      /\ UNCHANGED <<nr_process, current, halted>>
    BY <1>1 DEF ExitNotify, Goto
<1>3. halted = "no"
    BY DEF Inv, ControlInv, ExitNotify, Running
<1>4. \A p \in waiting : state[p] = "SLEEPING"
    BY WakesSleepers
<1>5. wait_state' = [p \in Proc |-> IF p \in waiting THEN "0" ELSE wait_state[p]]
    BY <1>2, <1>4 DEF Wakeup
<1> QED
    BY <1>1, <1>2, <1>3, <1>5, WakeupKeepsDead DEF Halt

\* Every step keeps the family: who dies has given its children away.
LEMMA NextFamily == Inv /\ Family /\ [Next]_vars => Family'
<1> SUFFICES ASSUME Inv, Family, [Next]_vars PROVE Family'
    OBVIOUS
<1> USE DEF Inv, TypeInv, TypeOK, Goto
<1>1. CASE SysEnter \/ SysYield
    BY <1>1, FamilyUnchanged DEF SysEnter, SysYield
<1>2. CASE ForkLink
  <2>1. CASE Halt("assert")
    BY <2>1, <1>2, FamilyUnchanged DEF Halt, ForkLink
  <2>2. CASE ~Halt("assert")
    <3>1. PICK child \in Proc \ Live :
            /\ state' = [state EXCEPT ![child] = "UNINIT"]
            /\ parent' = [parent EXCEPT ![child] = current]
            /\ pc' = [pc EXCEPT ![current] = "fork_wake", ![child] = "user"]
        BY <1>2, <2>2 DEF ForkLink, SetLinks
    <3>2. /\ current \in Live
          /\ current # child
          /\ current # idleproc
          /\ state[current] # "ZOMBIE"
        BY <1>2, <3>1 DEF ForkLink, ControlInv, Live
    <3>3. Live' = Live \cup {child}
        BY <3>1 DEF Live
    <3>4. child # initproc /\ child # idleproc
        BY <3>1 DEF ControlInv, Live
    <3> QED
        BY <3>1, <3>2, <3>3, <3>4 DEF Family, InitFamily, NoDanglingParent, Live
  <2> QED
    BY <2>1, <2>2
<1>3. CASE ForkWake \/ KillWake
    BY <1>3, ForkWakeKeepsDead, FamilyUnchanged DEF ForkWake, KillWake, Return
<1>4. CASE ForkFail
    BY <1>4, FamilyUnchanged DEF ForkFail, Return, Halt
<1>5. CASE WaitReap
  <2>1. PICK q \in Awaited(current) :
            /\ state[q] = "ZOMBIE"
            /\ state' = [state EXCEPT ![q] = "NONE"]
            /\ parent' = [parent EXCEPT ![q] = NoProc]
            /\ pc' = [pc EXCEPT ![q] = "none",
                                ![current] = IF current = initproc THEN "init_sched"
                                             ELSE "trapret"]
    BY <1>5 DEF WaitReap, RemoveLinks
  <2>2. q \in Live /\ q # current /\ q # initproc /\ pc[q] = "dead"
    BY <1>5, <2>1 DEF WaitReap, Awaited, Children, ControlInv, Parked, Live
  <2>3. Live' = Live \ {q}
    BY <2>1, <2>2 DEF Live
  <2>4. \A r \in Live \ {idleproc} : parent[r] # q
    BY <2>1, <2>2 DEF Family, NoDanglingParent
  <2>5. \A r \in Live \ {idleproc, q} :
            /\ parent'[r] \in Live' \ {r}
            /\ state'[parent'[r]] = state[parent[r]]
            /\ pc[parent[r]] = "exit_notify" => pc'[parent'[r]] = "exit_notify"
    BY <1>5, <2>1, <2>2, <2>3, <2>4 DEF Family, NoDanglingParent, Live, WaitReap
  <2> QED
    BY <2>1, <2>2, <2>3, <2>5 DEF Family, NoDanglingParent, InitFamily, Live
<1>6. CASE WaitNoChild \/ WaitBack \/ WaitSleep \/ WaitSet
    BY <1>6, FamilyUnchanged DEF WaitNoChild, WaitBack, WaitSleep, WaitSet, ControlInv
<1>7. CASE \E t \in Proc : Kill(t)
    BY <1>7, FamilyUnchanged DEF Kill
<1>8. CASE KillFail \/ Sleep \/ SleepZero \/ SleepBack
    BY <1>8, FamilyUnchanged DEF KillFail, Sleep, SleepZero, SleepBack, ControlInv
<1>9. CASE ExitZombie
  <2>1. CASE Halt("initexit")
    BY <2>1, <1>9, FamilyUnchanged DEF Halt, ExitZombie
  <2>2. CASE ~Halt("initexit")
    <3>1. /\ state' = [state EXCEPT ![current] = "ZOMBIE"]
          /\ pc' = [pc EXCEPT ![current] = "exit_notify"]
          /\ pc[current] = "exit"
          /\ UNCHANGED parent
        BY <1>9, <2>2 DEF ExitZombie
    <3>2. Live' = Live
        BY <3>1 DEF Live, ControlInv
    <3> QED
        BY <3>1, <3>2 DEF Family, NoDanglingParent, InitFamily, Live
  <2> QED
    BY <2>1, <2>2
<1>10. CASE ExitNotify
  <2>1. Live' = Live
    BY <1>10, ExitNotifyKeepsDead DEF Live
  <2>2. initproc \notin Children(current) /\ initproc \in Live /\ state[initproc] # "ZOMBIE"
    BY <1>10 DEF Children, Family, InitFamily, ExitNotify, ControlInv, Live
  <2>3. \A q \in Live : parent'[q] = IF parent[q] = current THEN initproc ELSE parent[q]
    BY <1>10, ExitNotifyKeepsDead DEF Adopted, Children, Live
  <2>4. \A p \in Proc \ {current} : pc'[p] = pc[p]
    BY <1>10, ExitNotifyKeepsDead
  <2>5. \A p \in Proc : state'[p] = "ZOMBIE" <=> state[p] = "ZOMBIE"
    BY <1>10, ExitNotifyKeepsDead
  <2>6. current # initproc /\ current # idleproc
    BY <1>10 DEF ExitNotify, ControlInv
  <2>7. \A q \in Live \ {idleproc} :
            /\ parent'[q] \in Live \ {q}
            /\ parent'[q] # current
            /\ state[parent'[q]] = "ZOMBIE" => pc[parent'[q]] = "exit_notify"
    BY <2>2, <2>3, <2>6 DEF Family, NoDanglingParent, Children
  <2>8. NoDanglingParent'
    BY <2>1, <2>4, <2>5, <2>7 DEF NoDanglingParent, Live
  <2>9. InitFamily'
    BY <2>1, <2>2, <2>3, <2>6 DEF InitFamily, Family, Live
  <2> QED
    BY <2>8, <2>9 DEF Family
<1>11. CASE TrapReturn
    BY <1>11, FamilyUnchanged DEF TrapReturn
<1>12. CASE CallSchedule
    BY <1>12, FamilyUnchanged DEF CallSchedule, Schedule
<1>13. CASE InitEnd
    BY <1>13, FamilyUnchanged DEF InitEnd, Halt
<1>14. CASE Tick
    BY <1>14, TickKeepsDead, FamilyUnchanged
<1>15. CASE UNCHANGED vars
    BY <1>15, FamilyUnchanged DEF vars
<1> QED
    BY <1>1, <1>2, <1>3, <1>4, <1>5, <1>6, <1>7, <1>8, <1>9, <1>10, <1>11, <1>12,
       <1>13, <1>14, <1>15 DEF Next, UserStep, KernelStep, Stopped

\* The kernel starts with initproc alone, child of idleproc.
LEMMA InitIsFamily == Init => Family
BY DEF Init, Family, NoDanglingParent, InitFamily, Live

\* A process never has a parent that was reaped, nor a dead one but for the
\* moment in which do_exit gives the children away.
THEOREM ParentCorrect == Spec => []NoDanglingParent
<1> QED
    BY InitInv, NextInv, InitIsFamily, NextFamily, PTL DEF Spec, Family

-----------------------------------------------------------------------------
(***************************************************************************)
(* No lost wakeup.  The promise has to hold from the moment do_wait has    *)
(* looked at its children, before it says that it waits.                   *)
(***************************************************************************)
Waits(p) == wait_state[p] = "WT_CHILD" \/ pc[p] = "wait_set"

WaitingInv ==
    \A p \in Proc : Waits(p) =>
        \A q \in Awaited(p) : state[q] = "ZOMBIE" => pc[q] = "exit_notify"

\* The steps after which nobody new waits, or died.
LEMMA WaitingUnchanged ==
    ASSUME Inv, WaitingInv, UNCHANGED parent,
           \A p \in Proc : /\ state'[p] = "NONE" <=> state[p] = "NONE"
                           /\ state'[p] = "ZOMBIE" <=> state[p] = "ZOMBIE"
                           /\ pc[p] = "exit_notify" => pc'[p] = "exit_notify"
                           /\ Waits(p)' => Waits(p) /\ arg'[p] = arg[p]
    PROVE  WaitingInv'
BY DEF WaitingInv, Awaited, Children, Live, Inv, TypeInv, TypeOK

\* Who is still asleep on WT_CHILD after a wakeup was so before it.
LEMMA WakeupWaits ==
    ASSUME Inv, NEW S \in SUBSET Proc, Wakeup(S), NEW p \in Proc,
           wait_state'[p] = "WT_CHILD"
    PROVE  wait_state[p] = "WT_CHILD"
BY DEF Wakeup, Inv, TypeInv, TypeOK

\* No step puts a parent to sleep beside a dead child, or lets one die unheard.
LEMMA NextWaiting == Inv /\ Family /\ WaitingInv /\ [Next]_vars => WaitingInv'
<1> SUFFICES ASSUME Inv, Family, WaitingInv, [Next]_vars PROVE WaitingInv'
    OBVIOUS
<1> USE DEF Inv, TypeInv, TypeOK, Goto
<1>1. CASE SysEnter \/ SysYield
    BY <1>1, WaitingUnchanged DEF SysEnter, SysYield, Waits, ControlInv
<1>2. CASE ForkLink
  <2>1. CASE Halt("assert")
    BY <2>1, <1>2, WaitingUnchanged DEF Halt, ForkLink, Waits
  <2>2. CASE ~Halt("assert")
    <3>1. PICK child \in Proc \ Live :
            /\ state' = [state EXCEPT ![child] = "UNINIT"]
            /\ parent' = [parent EXCEPT ![child] = current]
            /\ pc' = [pc EXCEPT ![current] = "fork_wake", ![child] = "user"]
            /\ arg' = [arg EXCEPT ![current] = child]
            /\ UNCHANGED wait_state
        BY <1>2, <2>2 DEF ForkLink, SetLinks
    <3>2. ~Waits(current) /\ pc[current] = "fork"
        BY <1>2 DEF ForkLink, ControlInv, Waits
    <3>3. \A p \in Proc : Waits(p)' => Waits(p) /\ p # current
        BY <3>1, <3>2 DEF Waits
    <3>4. \A p \in Proc : p # current => Awaited(p)' \subseteq Awaited(p) \cup {child}
        BY <3>1 DEF Awaited, Children, Live
    <3>5. \A q \in Proc : state'[q] = "ZOMBIE" => state[q] = "ZOMBIE" /\ q # child /\ q # current
        BY <3>1, <3>2 DEF ControlInv
    <3>6. \A q \in Proc : q # child /\ q # current => pc'[q] = pc[q]
        BY <3>1
    <3>7. \A p \in Proc : Awaited(p)' \subseteq Proc
        BY DEF Awaited, Children, Live
    <3> QED
        BY <3>3, <3>4, <3>5, <3>6, <3>7 DEF WaitingInv
  <2> QED
    BY <2>1, <2>2
<1>3. CASE ForkWake \/ KillWake
  <2>1. arg[current] \in Proc /\ ~Waits(current)
    BY <1>3 DEF ForkWake, KillWake, ArgInv, Waits, ControlInv
  <2>2. Wakeup({arg[current]})
    BY <1>3, ForkWakeKeepsDead DEF ForkWake, KillWake
  <2>3. \A p \in Proc : wait_state'[p] = "WT_CHILD" => wait_state[p] = "WT_CHILD"
    BY <2>1, <2>2, WakeupWaits
  <2>4. /\ \A p \in Proc \ {current} : pc'[p] = pc[p] /\ arg'[p] = arg[p]
        /\ pc'[current] \in {"wait", "trapret"}
        /\ pc[current] \in {"fork_wake", "kill_wake"}
        /\ UNCHANGED parent
    BY <1>3, ForkWakeKeepsDead DEF ForkWake, KillWake, Return
  <2> QED
    BY <1>3, <2>1, <2>3, <2>4, ForkWakeKeepsDead, WaitingUnchanged DEF Waits
<1>4. CASE ForkFail
    BY <1>4, WaitingUnchanged DEF ForkFail, Return, Halt, Waits
<1>5. CASE WaitReap
  <2>1. PICK z \in Awaited(current) :
            /\ state[z] = "ZOMBIE"
            /\ state' = [state EXCEPT ![z] = "NONE"]
            /\ parent' = [parent EXCEPT ![z] = NoProc]
            /\ pc' = [pc EXCEPT ![z] = "none",
                                ![current] = IF current = initproc THEN "init_sched"
                                             ELSE "trapret"]
            /\ arg' = [arg EXCEPT ![z] = NoProc, ![current] = NoProc]
            /\ UNCHANGED wait_state
    BY <1>5 DEF WaitReap, RemoveLinks
  <2>2. /\ z \in Proc /\ pc[current] = "wait"
        /\ ~Waits(z) /\ ~Waits(current)
    BY <1>5, <2>1 DEF WaitReap, Awaited, Children, Live, Waits, ControlInv
  <2>3. \A p \in Proc : Waits(p)' => Waits(p) /\ p # z /\ p # current
    BY <2>1, <2>2 DEF Waits
  <2>4. \A p \in Proc : p # z /\ p # current => Awaited(p)' \subseteq Awaited(p) \ {z}
    BY <2>1, <2>2 DEF Awaited, Children, Live
  <2>5. \A q \in Proc : q # z /\ q # current => state'[q] = state[q] /\ pc'[q] = pc[q]
    BY <2>1, <2>2
  <2>6. state'[current] # "ZOMBIE"
    BY <2>1, <2>2 DEF ControlInv
  <2>7. \A p \in Proc : Awaited(p) \subseteq Proc
    BY DEF Awaited, Children, Live
  <2> QED
    BY <2>3, <2>4, <2>5, <2>6, <2>7 DEF WaitingInv
<1>6. CASE WaitNoChild \/ WaitBack
    BY <1>6, WaitingUnchanged DEF WaitNoChild, WaitBack, Waits, ControlInv
<1>7. CASE WaitSleep
    BY <1>7 DEF WaitSleep, WaitingInv, Waits, Awaited, Children, Live, ControlInv
<1>8. CASE WaitSet
    BY <1>8, WaitingUnchanged DEF WaitSet, Waits
<1>9. CASE \E t \in Proc : Kill(t)
    BY <1>9, WaitingUnchanged DEF Kill, Waits, ControlInv
<1>10. CASE KillFail \/ Sleep \/ SleepZero \/ SleepBack
    BY <1>10, WaitingUnchanged DEF KillFail, Sleep, SleepZero, SleepBack, ControlInv, Waits
<1>11. CASE ExitZombie
  <2>1. CASE Halt("initexit")
    BY <2>1, <1>11, WaitingUnchanged DEF Halt, ExitZombie, Waits
  <2>2. CASE ~Halt("initexit")
    BY <1>11, <2>2 DEF ExitZombie, WaitingInv, Waits, Awaited, Children, Live, ControlInv
  <2> QED
    BY <2>1, <2>2
<1>12. CASE ExitNotify
  <2>1. pc[current] = "exit_notify" /\ state[current] = "ZOMBIE"
    BY <1>12 DEF ExitNotify, ControlInv
  <2>2. /\ pc' = [pc EXCEPT ![current] = "exit_sched"]
        /\ arg' = [arg EXCEPT ![current] = NoProc]
        /\ parent' = Adopted
        /\ \A p \in Proc : state'[p] = "ZOMBIE" <=> state[p] = "ZOMBIE"
        /\ Live' = Live
    BY <1>12, ExitNotifyKeepsDead DEF Live
  <2>3. \A p \in Proc : Waits(p)' => Waits(p) /\ p \notin Told /\ p # current
    BY <1>12, <2>1, <2>2, ExitNotifyKeepsDead DEF Waits, Told, ControlInv, Parked
  <2> SUFFICES ASSUME NEW p \in Proc, Waits(p)', NEW q \in Awaited(p)', state'[q] = "ZOMBIE"
               PROVE  pc'[q] = "exit_notify"
    BY DEF WaitingInv
  <2>4. Waits(p) /\ p \notin Told /\ p # current
    BY <2>3
  <2>5. q \in Live /\ state[q] = "ZOMBIE" /\ parent'[q] = p
    BY <2>2 DEF Awaited, Children, Live
  <2>6. CASE parent[q] = current
    <3>1. p = initproc /\ initproc \in Told
        BY <2>2, <2>5, <2>6 DEF Adopted, Children, Told, Live
    <3> QED
        BY <3>1, <2>4
  <2>7. CASE parent[q] # current
    <3>1. parent[q] = p
        BY <2>2, <2>5, <2>7 DEF Adopted, Children, Live
    <3>2. q # current
        BY <3>1, <2>4 DEF Told
    <3>3. q \in Awaited(p)
        BY <2>2, <2>4, <2>5, <3>1 DEF Awaited, Children, Live
    <3>4. pc[q] = "exit_notify"
        BY <2>4, <2>5, <3>3 DEF WaitingInv
    <3> QED
        BY <2>2, <2>5, <3>2, <3>4 DEF Live
  <2> QED
    BY <2>6, <2>7
<1>13. CASE TrapReturn
    BY <1>13, WaitingUnchanged DEF TrapReturn, Waits
<1>14. CASE CallSchedule
    BY <1>14, WaitingUnchanged DEF CallSchedule, Schedule, Waits
<1>15. CASE InitEnd
    BY <1>15, WaitingUnchanged DEF InitEnd, Halt, Waits
<1>16. CASE Tick
  <2>1. \A p \in Proc : wait_state'[p] = "WT_CHILD" => wait_state[p] = "WT_CHILD"
    BY <1>16, TickKeepsDead, WakeupWaits DEF Tick
  <2> QED
    BY <1>16, <2>1, TickKeepsDead, WaitingUnchanged DEF Waits
<1>17. CASE UNCHANGED vars
    BY <1>17, WaitingUnchanged DEF vars, Waits
<1> QED
    BY <1>1, <1>2, <1>3, <1>4, <1>5, <1>6, <1>7, <1>8, <1>9, <1>10, <1>11, <1>12,
       <1>13, <1>14, <1>15, <1>16, <1>17 DEF Next, UserStep, KernelStep, Stopped

\* A parent off the CPU in do_wait has no dead child it could have.
THEOREM NoWakeupIsLost == Spec => []NoLostWakeup
<1>1. Init => WaitingInv
    BY DEF Init, WaitingInv, Waits
<1>2. WaitingInv => NoLostWakeup
    BY DEF WaitingInv, NoLostWakeup, Waits
<1> QED
    BY <1>1, <1>2, InitInv, NextInv, InitIsFamily, NextFamily, NextWaiting, PTL DEF Spec

-----------------------------------------------------------------------------
(***************************************************************************)
(* No assertion fails.  init_main's last ones need that every process      *)
(* descends from initproc: no set of user processes contains the parents   *)
(* of all its members.                                                     *)
(***************************************************************************)
UserProcs == Live \ {idleproc, initproc}

Rooted == \A S \in SUBSET UserProcs : S # {} => \E q \in S : parent[q] \notin S

\* initproc executes init_main and nothing else, and init_main nobody else; it
\* leaves its loop when it has no child.
InitMain ==
    /\ pc[initproc] \in {"fork", "fork_wake", "wait", "wait_set", "wait_sched",
                         "wait_back", "init_sched", "init_end", "exit", "halted"}
    /\ \A p \in Proc : pc[p] \in {"init_sched", "init_end"} => p = initproc
    /\ pc[initproc] # "fork_wake" => arg[initproc] = NoProc
    /\ pc[initproc] = "init_end" => Children(initproc) = {}

Shutdown == Rooted /\ InitMain /\ CountInv /\ NoAssertFails

\* Steps that neither link nor unlink a process and leave initproc alone.
LEMMA ShutdownUnchanged ==
    ASSUME Inv, Family, Shutdown, UNCHANGED <<parent, nr_process, halted>>,
           \A p \in Proc : state'[p] = "NONE" <=> state[p] = "NONE",
           \A p \in Proc \ {current} : pc'[p] = pc[p] /\ arg'[p] = arg[p],
           current # initproc,
           pc'[current] \notin {"init_sched", "init_end"}
    PROVE  Shutdown'
<1> USE DEF Inv, TypeInv, TypeOK
<1>1. Live' = Live
    BY DEF Live
<1>2. Rooted' /\ CountInv'
    BY <1>1 DEF Rooted, UserProcs, CountInv, Shutdown
<1>3. Children(initproc)' = Children(initproc)
    BY <1>1 DEF Children, Live
<1>4. InitMain'
    BY <1>3 DEF InitMain, Shutdown
<1> QED
    BY <1>2, <1>4 DEF Shutdown, NoAssertFails

\* The same when initproc makes the step, to a place in init_main.
LEMMA ShutdownInitStep ==
    ASSUME Inv, Family, Shutdown, UNCHANGED <<parent, nr_process>>,
           halted' # "assert",
           \A p \in Proc : state'[p] = "NONE" <=> state[p] = "NONE",
           \A p \in Proc \ {current} : pc'[p] = pc[p] /\ arg'[p] = arg[p],
           current = initproc,
           pc'[current] \in {"wait", "wait_set", "wait_sched", "wait_back",
                             "init_sched", "init_end", "exit", "halted"},
           arg'[current] = NoProc,
           pc'[current] = "init_end" => Children(initproc) = {}
    PROVE  Shutdown'
<1> USE DEF Inv, TypeInv, TypeOK
<1>1. Live' = Live
    BY DEF Live
<1>2. Rooted' /\ CountInv'
    BY <1>1 DEF Rooted, UserProcs, CountInv, Shutdown
<1>3. Children(initproc)' = Children(initproc)
    BY <1>1 DEF Children, Live
<1>4. InitMain'
    BY <1>3 DEF InitMain, Shutdown
<1> QED
    BY <1>2, <1>4 DEF Shutdown, NoAssertFails

\* idleproc and initproc are two.
LEMMA KernelProcsCardinality == Cardinality({idleproc} \cup {initproc}) = 2
<1>1. IsFiniteSet({idleproc}) /\ Cardinality({idleproc}) = 1
    BY FS_Singleton
<1>2. initproc \notin {idleproc}
    OBVIOUS
<1>3. Cardinality({idleproc} \cup {initproc}) = Cardinality({idleproc}) + 1
    BY <1>1, <1>2, FS_AddElement, Zenon
<1> QED
    BY <1>1, <1>3

\* There are finitely many processes.
LEMMA LiveFinite == IsFiniteSet(Live)
BY FS_Subset DEF Live

\* What init_main asserts holds when it gets there.
LEMMA InitEndHolds ==
    ASSUME Inv, Family, Shutdown, InitEnd
    PROVE  Halt("shutdown")
<1> USE DEF Inv, TypeInv, TypeOK
<1>1. current = initproc /\ Children(initproc) = {}
    BY DEF InitEnd, Shutdown, InitMain
<1>2. idleproc \in Live /\ initproc \in Live
    BY DEF ControlInv, Live
<1>3. Live = {idleproc, initproc}
  <2>1. SUFFICES ASSUME UserProcs # {} PROVE FALSE
    BY <1>2 DEF UserProcs
  <2>2. PICK q \in UserProcs : parent[q] \notin UserProcs
    BY <2>1 DEF Shutdown, Rooted
  <2>3. parent[q] = initproc
    BY <2>2 DEF UserProcs, Family, InitFamily, NoDanglingParent
  <2> QED
    BY <1>1, <2>2, <2>3 DEF Children, UserProcs
<1>4. Children(idleproc) = {initproc}
    BY <1>2, <1>3 DEF Children, Family, InitFamily, NoDanglingParent
<1>5. {idleproc, initproc} = {idleproc} \cup {initproc}
    OBVIOUS
<1>6. nr_process = 2
    BY <1>3, <1>5, KernelProcsCardinality DEF Shutdown, CountInv
<1> QED
    BY <1>1, <1>3, <1>4, <1>6 DEF InitEnd

\* Every step keeps the count, and every process a descendant of initproc.
LEMMA NextShutdown == Inv /\ Family /\ Shutdown /\ [Next]_vars => Shutdown'
<1> SUFFICES ASSUME Inv, Family, Shutdown, [Next]_vars PROVE Shutdown'
    OBVIOUS
<1> USE DEF Inv, TypeInv, TypeOK, Goto
<1>0. pc[current] \in {"user", "kill", "kill_wake", "sleep", "sleep_sched", "sleep_back",
                       "trapret", "exit_notify", "exit_sched"} => current # initproc
    BY DEF Shutdown, InitMain
<1>1. CASE SysEnter \/ SysYield
    BY <1>1, <1>0, ShutdownUnchanged DEF SysEnter, SysYield
<1>2. CASE ForkLink
  <2>1. wait_state[current] = "0"
    BY <1>2 DEF ForkLink, ControlInv, WaitStates
  <2>2. PICK child \in Proc \ Live :
            /\ state' = [state EXCEPT ![child] = "UNINIT"]
            /\ parent' = [parent EXCEPT ![child] = current]
            /\ nr_process' = nr_process + 1
            /\ pc' = [pc EXCEPT ![current] = "fork_wake", ![child] = "user"]
            /\ arg' = [arg EXCEPT ![current] = child]
            /\ UNCHANGED halted
    BY <1>2, <2>1 DEF ForkLink, SetLinks
  <2>3. /\ current \in Live
        /\ child \notin {current, idleproc, initproc}
    BY <1>2, <2>2 DEF ForkLink, ControlInv, Live
  <2>4. Live' = Live \cup {child}
    BY <2>2 DEF Live
  <2>5. CountInv'
    BY <2>2, <2>4, LiveFinite, FS_AddElement DEF CountInv, Shutdown
  <2>6. Rooted'
    <3> SUFFICES ASSUME NEW S \in SUBSET UserProcs', S # {}
                 PROVE  \E q \in S : parent'[q] \notin S
        BY DEF Rooted
    <3>1. CASE S = {child}
        BY <3>1, <2>2, <2>3
    <3>2. CASE S # {child}
      <4>1. S \ {child} # {} /\ S \ {child} \in SUBSET UserProcs
        BY <3>2, <2>4 DEF UserProcs
      <4>2. PICK q \in S \ {child} : parent[q] \notin S \ {child}
        BY <4>1 DEF Shutdown, Rooted
      <4>3. parent[q] # child
        BY <4>1, <4>2, <2>2 DEF Family, NoDanglingParent, UserProcs
      <4> QED
        BY <4>1, <4>2, <4>3, <2>2 DEF UserProcs
    <3> QED
        BY <3>1, <3>2
  <2>7. InitMain'
    BY <1>2, <2>2, <2>3 DEF InitMain, Shutdown, ForkLink, ControlInv, Parked
  <2> QED
    BY <2>2, <2>5, <2>6, <2>7 DEF Shutdown, NoAssertFails
<1>3. CASE ForkWake \/ KillWake
  <2>1. /\ \A p \in Proc \ {current} : pc'[p] = pc[p] /\ arg'[p] = arg[p]
        /\ arg'[current] = NoProc
        /\ pc'[current] = IF current = initproc THEN "wait" ELSE "trapret"
        /\ UNCHANGED <<parent, nr_process, halted>>
    BY <1>3, <1>0, ForkWakeKeepsDead DEF ForkWake, KillWake, Return
  <2> QED
    BY <1>3, <2>1, ForkWakeKeepsDead, ShutdownUnchanged, ShutdownInitStep
       DEF Shutdown, NoAssertFails
<1>4. CASE ForkFail
    BY <1>4, ShutdownUnchanged, ShutdownInitStep DEF ForkFail, Return, Halt, Shutdown, InitMain
<1>5. CASE WaitReap
  <2>1. PICK z \in Awaited(current) :
            /\ state[z] = "ZOMBIE"
            /\ state' = [state EXCEPT ![z] = "NONE"]
            /\ parent' = [parent EXCEPT ![z] = NoProc]
            /\ nr_process' = nr_process - 1
            /\ pc' = [pc EXCEPT ![z] = "none",
                                ![current] = IF current = initproc THEN "init_sched"
                                             ELSE "trapret"]
            /\ arg' = [arg EXCEPT ![z] = NoProc, ![current] = NoProc]
            /\ UNCHANGED halted
    BY <1>5 DEF WaitReap, RemoveLinks
  <2>2. /\ z \in Live /\ z \notin {current, idleproc, initproc}
        /\ pc[current] = "wait"
    BY <1>5, <2>1 DEF WaitReap, Awaited, Children, ControlInv, Live
  <2>3. Live' = Live \ {z}
    BY <2>1, <2>2 DEF Live
  <2>4. CountInv'
    BY <2>1, <2>2, <2>3, LiveFinite, FS_RemoveElement DEF CountInv, Shutdown
  <2>5. Rooted'
    <3>1. UserProcs' = UserProcs \ {z}
        BY <2>3 DEF UserProcs
    <3>2. \A q \in UserProcs' : parent'[q] = parent[q]
        BY <2>1, <3>1 DEF UserProcs, Live
    <3> QED
        BY <3>1, <3>2 DEF Rooted, Shutdown
  <2>6. InitMain'
    BY <2>1, <2>2 DEF InitMain, Shutdown, ControlInv, Parked
  <2> QED
    BY <2>1, <2>4, <2>5, <2>6 DEF Shutdown, NoAssertFails
<1>6. CASE WaitNoChild
  <2>1. CASE current = initproc
    BY <2>1, <1>6, ShutdownInitStep DEF WaitNoChild, Awaited, Shutdown, InitMain, NoAssertFails
  <2>2. CASE current # initproc
    BY <2>2, <1>6, ShutdownUnchanged DEF WaitNoChild
  <2> QED
    BY <2>1, <2>2
<1>7. CASE WaitBack \/ WaitSleep \/ WaitSet
  <2>1. /\ UNCHANGED <<parent, nr_process, halted, arg>>
        /\ \A p \in Proc : state'[p] = "NONE" <=> state[p] = "NONE"
        /\ \A p \in Proc \ {current} : pc'[p] = pc[p]
        /\ pc'[current] \in {"wait", "exit", "wait_set", "wait_sched"}
        /\ pc[current] \in {"wait", "wait_set", "wait_back"}
    BY <1>7 DEF WaitBack, WaitSleep, WaitSet, ControlInv
  <2> QED
    BY <2>1, ShutdownUnchanged, ShutdownInitStep DEF Shutdown, InitMain, NoAssertFails
<1>8. CASE \E t \in Proc : Kill(t)
    BY <1>8, <1>0, ShutdownUnchanged DEF Kill
<1>9. CASE KillFail \/ Sleep \/ SleepZero \/ SleepBack
    BY <1>9, <1>0, ShutdownUnchanged DEF KillFail, Sleep, SleepZero, SleepBack, ControlInv
<1>10. CASE ExitZombie
    BY <1>10, ShutdownUnchanged, ShutdownInitStep
       DEF ExitZombie, Halt, ControlInv, Shutdown, InitMain
<1>11. CASE ExitNotify
  <2>1. Live' = Live /\ UNCHANGED <<nr_process, halted, current>>
    BY <1>11, ExitNotifyKeepsDead DEF Live
  <2>2. \A q \in Proc : parent'[q] \in {parent[q], initproc}
    BY <1>11, ExitNotifyKeepsDead DEF Adopted
  <2>3. Rooted'
    <3> SUFFICES ASSUME NEW S \in SUBSET UserProcs, S # {}
                 PROVE  \E q \in S : parent'[q] \notin S
        BY <2>1 DEF Rooted, UserProcs
    <3>1. PICK q \in S : parent[q] \notin S
        BY DEF Rooted, Shutdown
    <3> QED
        BY <2>2, <3>1 DEF UserProcs, Live
  <2>4. CountInv'
    BY <2>1 DEF CountInv, Shutdown
  <2>5. /\ \A p \in Proc \ {current} : pc'[p] = pc[p] /\ arg'[p] = arg[p]
        /\ pc'[current] = "exit_sched"
        /\ current # initproc
        /\ pc[initproc] # "init_end"
    BY <1>0, <1>11, ExitNotifyKeepsDead DEF ExitNotify, ControlInv, Parked
  <2>6. InitMain'
    BY <2>5 DEF InitMain, Shutdown
  <2> QED
    BY <2>1, <2>3, <2>4, <2>6 DEF Shutdown, NoAssertFails
<1>12. CASE TrapReturn
    BY <1>12, <1>0, ShutdownUnchanged DEF TrapReturn
<1>13. CASE CallSchedule
  <2>1. /\ UNCHANGED <<parent, nr_process, halted, arg, state>>
        /\ \A p \in Proc \ {current} : pc'[p] = pc[p]
        /\ \/ pc[current] = "wait_sched" /\ pc'[current] = "wait_back"
           \/ pc[current] = "init_sched" /\ pc'[current] = "wait"
           \/ /\ pc[current] \in {"trapret", "sleep_sched", "exit_sched", "idle"}
              /\ pc'[current] \in {"user", "sleep_back", "dead", "idle"}
    BY <1>13 DEF CallSchedule, Schedule
  <2> QED
    BY <2>1, ShutdownUnchanged, ShutdownInitStep DEF Shutdown, InitMain, NoAssertFails
<1>14. CASE InitEnd
  <2>1. Halt("shutdown") /\ current = initproc
    BY <1>14, InitEndHolds DEF InitEnd, Shutdown, InitMain
  <2> QED
    BY <1>14, <2>1, ShutdownInitStep DEF Halt, Shutdown, InitMain, InitEnd
<1>15. CASE Tick
  <2>1. /\ \A p \in Proc : state'[p] = "NONE" <=> state[p] = "NONE"
        /\ UNCHANGED <<parent, nr_process, current, arg, halted>>
        /\ pc' = [pc EXCEPT ![current] = IF @ = "user" THEN "trapret" ELSE @]
    BY <1>15, TickKeepsDead
  <2>2. Live' = Live /\ Children(initproc)' = Children(initproc)
    BY <2>1 DEF Live, Children
  <2>3. InitMain'
    BY <2>1, <2>2 DEF InitMain, Shutdown
  <2> QED
    BY <2>1, <2>2, <2>3 DEF Shutdown, Rooted, UserProcs, CountInv, NoAssertFails
<1>16. CASE UNCHANGED vars
    BY <1>16 DEF vars, Shutdown, Rooted, UserProcs, InitMain, CountInv, NoAssertFails,
                 Live, Children
<1> QED
    BY <1>1, <1>2, <1>3, <1>4, <1>5, <1>6, <1>7, <1>8, <1>9, <1>10, <1>11, <1>12,
       <1>13, <1>14, <1>15, <1>16 DEF Next, UserStep, KernelStep, Stopped

\* The kernel starts with the two of them, counted.
LEMMA InitShutdown == Init => Shutdown
<1> SUFFICES ASSUME Init PROVE Shutdown
    OBVIOUS
<1>1. Live = {idleproc} \cup {initproc}
    BY DEF Init, Live
<1>2. Cardinality(Live) = 2
    BY <1>1, KernelProcsCardinality
<1> QED
    BY <1>1, <1>2 DEF Init, Shutdown, Rooted, UserProcs, InitMain, CountInv, NoAssertFails

\* No assert() of wakeup_proc, do_fork, run_timer_list or init_main fails.
THEOREM AssertionsHold == Spec => []NoAssertFails
BY InitInv, NextInv, InitIsFamily, NextFamily, InitShutdown, NextShutdown, PTL
   DEF Spec, Shutdown

\* nr_process counts the processes.
THEOREM CountCorrect == Spec => []CountInv
BY InitInv, NextInv, InitIsFamily, NextFamily, InitShutdown, NextShutdown, PTL
   DEF Spec, Shutdown

-----------------------------------------------------------------------------
\* A struct and its kernel stack are freed by the parent of the dead process,
\* after it has left the CPU for the last time.
THEOREM ReapingCorrect == Spec => ReapedByParent
<1> DEFINE Reaped(p) == state[p] # "NONE" /\ state'[p] = "NONE" =>
                            /\ state[p] = "ZOMBIE"
                            /\ pc[p] = "dead"
                            /\ current = parent[p]
<1>1. ASSUME Inv, [Next]_vars
      PROVE  \A p \in Proc : Reaped(p)
  <2> USE DEF Inv, TypeInv, TypeOK, Goto
  <2>1. CASE WaitReap
    <3>1. PICK z \in Awaited(current) :
            /\ state[z] = "ZOMBIE"
            /\ state' = [state EXCEPT ![z] = "NONE"]
        BY <2>1 DEF WaitReap
    <3>2. /\ z \in Proc /\ parent[z] = current
          /\ pc[z] = "dead"
        BY <2>1, <3>1, <1>1 DEF Awaited, Children, Live, WaitReap, ControlInv, Parked
    <3> QED
        BY <3>1, <3>2
  <2>2. CASE ForkWake \/ KillWake
    BY <2>2, <1>1, ForkWakeKeepsDead
  <2>3. CASE ExitNotify
    BY <2>3, <1>1, ExitNotifyKeepsDead
  <2>4. CASE Tick
    BY <2>4, <1>1, TickKeepsDead
  <2>5. CASE ForkLink \/ ForkFail \/ WaitSleep \/ Sleep \/ ExitZombie \/ InitEnd
    BY <2>5, <1>1 DEF ForkLink, ForkFail, WaitSleep, Sleep, ExitZombie, InitEnd, Halt
  <2>6. CASE UNCHANGED state
    BY <2>6
  <2> QED
    BY <1>1, <2>1, <2>2, <2>3, <2>4, <2>5, <2>6
       DEF Next, UserStep, KernelStep, Stopped, SysEnter, SysYield, WaitNoChild,
           WaitSet, WaitBack, Kill, KillFail, SleepZero, SleepBack, TrapReturn,
           CallSchedule, Schedule, vars
<1>2. Inv /\ [Next]_vars => [\A p \in Proc : Reaped(p)]_vars
    BY <1>1
<1> QED
    BY <1>2, InitInv, NextInv, PTL DEF Spec, ReapedByParent
=============================================================================
