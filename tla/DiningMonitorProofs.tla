------------------------ MODULE DiningMonitorProofs ------------------------
(***************************************************************************)
(* Proofs about DiningMonitor, for any number of philosophers and meals:   *)
(* the monitor is in one hand, its counts are exact, and what a signal     *)
(* promises still holds when the process it woke runs.                     *)
(***************************************************************************)
EXTENDS DiningMonitor, SequenceTheorems, FiniteSetTheorems, TLAPS

Inside == {"declare", "check", "put", "right", "leave"}
Signalled == {"signalled left", "signalled right"}
Calls == {"take", "eat", "waiting"} \cup Signalled
Labels == Inside \cup Calls \cup {"think", "quit"}

\* The semaphore that a philosopher in down() waits for, by its label.
Where(l, i) == IF l = "waiting" THEN i ELSE IF l \in Signalled THEN next ELSE mutex
At(i) == Where(pc[i], i)

\* A queue holds sleepers that wait for that semaphore, each once.
QueueOf(s) ==
    /\ \A k \in DOMAIN queue[s] : Asleep(queue[s][k]) /\ At(queue[s][k]) = s
    /\ \A k, l \in DOMAIN queue[s] : queue[s][k] = queue[s][l] => k = l

\* Where a philosopher may wait, and that who has been woken knows why.
InDownOk(i) ==
    /\ Asleep(i) => InDown(i)
    /\ InDown(i) => pc[i] \in Calls
    /\ InDown(i) /\ ~Asleep(i) => wakeup_flags[i] = "WT_KSEM"

\* The semaphores alone.
SemInv ==
    /\ SemTypeOK
    /\ pc \in [Phil -> Labels]
    /\ \A s \in Sems : QueueOf(s)
    /\ \A i \in Phil : InDownOk(i)

\* Who waits to go on, and on which condition.
CountInv ==
    /\ next_count \in Nat
    /\ count \in [Phil -> Nat]
    /\ next_count = Cardinality({i \in Phil : pc[i] \in Signalled})
    /\ \A c \in Phil : count[c] = IF pc[c] = "waiting" THEN 1 ELSE 0
    /\ value[mutex] > 0 => next_count = 0

\* The states that go with a place in the code.
Suits(l, x) ==
    /\ l \in {"think", "take", "declare", "right", "leave", "quit"} \cup Signalled => x = "THINKING"
    /\ l \in {"check", "waiting"} => x \in {"HUNGRY", "EATING"}
    /\ l \in {"eat", "put"} => x = "EATING"

StateOk(i) == Suits(pc[i], state_condvar[i])

\* Nobody is marked as eating beside a neighbour that is.
ForksOk(i) ==
    state_condvar[i] = "EATING" =>
        state_condvar[LEFT(i)] # "EATING" /\ state_condvar[RIGHT(i)] # "EATING"

\* A signal is on its way to i, or has woken it: it is for forks that i has got.
SignalOk(i) ==
    value[i] > 0 \/ (pc[i] = "waiting" /\ Active(i)) =>
        pc[i] = "waiting" /\ state_condvar[i] = "EATING"

StateInv ==
    /\ state_condvar \in [Phil -> {"THINKING", "HUNGRY", "EATING"}]
    /\ iter \in [Phil -> 0 .. TIMES]
    /\ \A i \in Phil : StateOk(i) /\ ForksOk(i) /\ SignalOk(i)

Inv == SemInv /\ OneActive /\ CountInv /\ StateInv

-----------------------------------------------------------------------------
\* The numbers of the two other semaphores are no philosophers'.
LEMMA Apart ==
    /\ mutex \in Sems /\ next \in Sems /\ mutex # next
    /\ mutex \notin Phil /\ next \notin Phil
    /\ Phil \subseteq Sems
  BY DEF mutex, next, Phil, Sems

\* The neighbours around the table.
LEMMA Neighbours ==
    ASSUME NEW i \in Phil
    PROVE  /\ LEFT(i) \in Phil /\ RIGHT(i) \in Phil
           /\ LEFT(i) # i /\ RIGHT(i) # i
           /\ LEFT(RIGHT(i)) = i /\ RIGHT(LEFT(i)) = i
<1>1. N \in Nat /\ N > 1 /\ i \in Int /\ 0 <= i /\ i < N
  BY DiningAssumption DEF Phil
<1>2. LEFT(i) = IF i = 0 THEN N - 1 ELSE i - 1
  BY <1>1 DEF LEFT
<1>3. RIGHT(i) = IF i = N - 1 THEN 0 ELSE i + 1
  BY <1>1 DEF RIGHT
<1>4. RIGHT(LEFT(i)) = i
  BY <1>1, <1>2 DEF RIGHT
<1>5. LEFT(RIGHT(i)) = i
  BY <1>1, <1>3 DEF LEFT
<1> QED BY <1>1, <1>2, <1>3, <1>4, <1>5 DEF Phil

\* The tail of a queue is the queue without its first member.
LEMMA TailFacts ==
    ASSUME NEW q \in Seq(Phil), q # <<>>
    PROVE  /\ Tail(q) \in Seq(Phil)
           /\ 1 \in DOMAIN q /\ Head(q) = q[1] /\ q[1] \in Phil
           /\ \A k \in DOMAIN Tail(q) :
                k \in Int /\ k + 1 \in DOMAIN q /\ k + 1 # 1 /\ Tail(q)[k] = q[k + 1]
<1>1. /\ Tail(q) \in Seq(Phil)
      /\ Len(Tail(q)) = Len(q) - 1 /\ Len(q) \in Nat /\ Len(q) > 0
      /\ \A k \in 1 .. Len(Tail(q)) : Tail(q)[k] = q[k + 1]
  BY HeadTailProperties, EmptySeq, LenProperties
<1>2. DOMAIN q = 1 .. Len(q) /\ DOMAIN Tail(q) = 1 .. Len(Tail(q))
  BY <1>1, LenProperties
<1>3. Head(q) = q[1] /\ q[1] \in Phil
  BY <1>1, ElementOfSeq, HeadTailProperties
<1> QED BY <1>1, <1>2, <1>3

\* A queue with one more at its end.
LEMMA AppendFacts ==
    ASSUME NEW q \in Seq(Phil), NEW p \in Phil
    PROVE  /\ Append(q, p) \in Seq(Phil)
           /\ \A k \in DOMAIN Append(q, p) :
                \/ k \in DOMAIN q /\ Append(q, p)[k] = q[k]
                \/ k = Len(q) + 1 /\ Append(q, p)[k] = p
<1>1. /\ Append(q, p) \in Seq(Phil) /\ Len(Append(q, p)) = Len(q) + 1 /\ Len(q) \in Nat
      /\ \A k \in 1 .. Len(q) : Append(q, p)[k] = q[k]
      /\ Append(q, p)[Len(q) + 1] = p
  BY AppendProperties, LenProperties
<1>2. DOMAIN q = 1 .. Len(q) /\ DOMAIN Append(q, p) = 1 .. Len(q) + 1
  BY <1>1, LenProperties
<1> QED BY <1>1, <1>2

\* What SemInv says, for one philosopher in one queue.
LEMMA QueueFacts ==
    ASSUME SemInv
    PROVE  /\ value \in [Sems -> Nat] /\ queue \in [Sems -> Seq(Phil)]
           /\ wait_state \in [Phil -> {"0", "WT_KSEM"}]
           /\ wakeup_flags \in [Phil -> {"none", "WT_INTERRUPTED", "WT_KSEM"}]
           /\ pc \in [Phil -> Labels]
           /\ \A t \in Sems : \A k \in DOMAIN queue[t] :
                /\ queue[t][k] \in Phil
                /\ wait_state[queue[t][k]] # "0"
                /\ wakeup_flags[queue[t][k]] # "none"
                /\ At(queue[t][k]) = t
           /\ \A t \in Sems : \A k, l \in DOMAIN queue[t] : queue[t][k] = queue[t][l] => k = l
<1>1. /\ value \in [Sems -> Nat] /\ queue \in [Sems -> Seq(Phil)]
      /\ wait_state \in [Phil -> {"0", "WT_KSEM"}]
      /\ wakeup_flags \in [Phil -> {"none", "WT_INTERRUPTED", "WT_KSEM"}]
      /\ pc \in [Phil -> Labels]
  BY DEF SemInv, SemTypeOK
<1>2. ASSUME NEW t \in Sems, NEW k \in DOMAIN queue[t]
      PROVE  /\ queue[t][k] \in Phil
             /\ wait_state[queue[t][k]] # "0"
             /\ wakeup_flags[queue[t][k]] # "none"
             /\ At(queue[t][k]) = t
  <2>1. queue[t][k] \in Phil
    BY <1>1, ElementOfSeq, LenProperties
  <2>2. QueueOf(t) /\ InDownOk(queue[t][k])
    BY <2>1 DEF SemInv
  <2> QED BY <2>1, <2>2 DEF QueueOf, InDownOk, Asleep, InDown
<1>3. \A t \in Sems : \A k, l \in DOMAIN queue[t] : queue[t][k] = queue[t][l] => k = l
  BY DEF SemInv, QueueOf
<1> QED BY <1>1, <1>2, <1>3

\* The place of a philosopher whose label does not change.
LEMMA SameAt ==
    ASSUME NEW p, pc'[p] = pc[p]
    PROVE  At(p)' = At(p)
  BY DEF At

-----------------------------------------------------------------------------
\* Who is active in the monitor, and nobody else, ups a semaphore and is active no
\* more: it hands the monitor to whom it wakes, or leaves it to the semaphore.
LEMMA UpStep ==
    ASSUME SemInv, NEW s \in Sems, Up(s),
           NEW i \in Phil, ~InDown(i), pc[i] \in Inside,
           NEW to \in Labels \ Inside, pc' = [pc EXCEPT ![i] = to],
           \A t \in Sems : value[t] = 0,
           \A j \in Phil : Active(j) => j = i
    PROVE  /\ SemInv' /\ OneActive'
           /\ \A t \in Sems : value'[t] > 0 => t = s
           /\ \A j \in Phil : Active(j)' => j # i /\ InDown(j) /\ At(j) = s
<1>1. /\ value \in [Sems -> Nat] /\ queue \in [Sems -> Seq(Phil)]
      /\ wait_state \in [Phil -> {"0", "WT_KSEM"}]
      /\ wakeup_flags \in [Phil -> {"none", "WT_INTERRUPTED", "WT_KSEM"}]
      /\ pc \in [Phil -> Labels]
      /\ \A t \in Sems : \A k \in DOMAIN queue[t] :
           /\ queue[t][k] \in Phil
           /\ wait_state[queue[t][k]] # "0"
           /\ wakeup_flags[queue[t][k]] # "none"
           /\ At(queue[t][k]) = t
      /\ \A t \in Sems : \A k, l \in DOMAIN queue[t] : queue[t][k] = queue[t][l] => k = l
  BY QueueFacts
<1>2. pc' \in [Phil -> Labels] /\ pc'[i] = to /\ \A j \in Phil \ {i} : pc'[j] = pc[j]
  BY <1>1
<1>3. \A t \in Sems : \A k \in DOMAIN queue[t] : queue[t][k] # i
  BY <1>1 DEF InDown
<1>4. \A j \in Phil \ {i} : At(j)' = At(j)
  BY <1>2, SameAt
<1>5. \A j \in Phil : InDownOk(j)
  BY DEF SemInv
<1>6. CASE queue[s] = <<>>
  <2>1. /\ value' = [value EXCEPT ![s] = @ + 1]
        /\ UNCHANGED <<queue, wait_state, wakeup_flags>>
    BY <1>6 DEF Up
  <2>2. SemTypeOK'
    BY <1>1, <2>1 DEF SemTypeOK
  <2>3. \A t \in Sems : QueueOf(t)'
    BY <1>1, <1>3, <1>4, <2>1 DEF QueueOf, Asleep
  <2>4. \A j \in Phil : InDownOk(j)'
    BY <1>2, <1>5, <2>1 DEF InDownOk, Asleep, InDown
  <2>5. \A j \in Phil : ~Active(j)'
    BY <1>2, <2>1 DEF Active, InDown, Asleep, Inside
  <2>6. value'[s] = 1 /\ \A t \in Sems \ {s} : value'[t] = 0
    BY <1>1, <2>1
  <2> QED BY <1>2, <2>2, <2>3, <2>4, <2>5, <2>6 DEF SemInv, OneActive
<1>7. CASE queue[s] # <<>>
  <2>0. PICK q \in Phil : q = Head(queue[s])
    BY <1>1, <1>7, TailFacts
  <2>1. /\ Tail(queue[s]) \in Seq(Phil)
        /\ 1 \in DOMAIN queue[s] /\ q = queue[s][1] /\ q \in Phil
        /\ \A k \in DOMAIN Tail(queue[s]) :
             k \in Int /\ k + 1 \in DOMAIN queue[s] /\ k + 1 # 1
               /\ Tail(queue[s])[k] = queue[s][k + 1]
    BY <1>1, <1>7, <2>0, TailFacts
  <2>2. WakeupWait(s, q) /\ UNCHANGED value
    BY <1>7, <2>0 DEF Up
  <2>3. q # i /\ wait_state[q] # "0" /\ wakeup_flags[q] # "none" /\ At(q) = s
    BY <1>1, <1>3, <2>1
  <2>4. /\ UNCHANGED value
        /\ queue' = [queue EXCEPT ![s] = Tail(@)]
        /\ wakeup_flags' = [wakeup_flags EXCEPT ![q] = "WT_KSEM"]
        /\ wait_state' = [wait_state EXCEPT ![q] = "0"]
    BY <2>2 DEF WakeupWait
  <2>5. SemTypeOK'
    BY <1>1, <2>1, <2>4 DEF SemTypeOK
  <2>6. ASSUME NEW t \in Sems, NEW k \in DOMAIN queue'[t]
        PROVE  \E l \in DOMAIN queue[t] :
                 /\ queue'[t][k] = queue[t][l] /\ queue[t][l] # q
                 /\ l = IF t = s THEN k + 1 ELSE k
    <3>1. CASE t = s
      BY <1>1, <2>1, <2>4, <3>1
    <3>2. CASE t # s
      <4>1. queue'[t] = queue[t]
        BY <1>1, <2>4, <3>2
      <4>2. queue[t][k] # q
        BY <1>1, <2>3, <3>2, <4>1
      <4> QED BY <3>2, <4>1, <4>2
    <3> QED BY <3>1, <3>2
  <2>7. ASSUME NEW t \in Sems PROVE QueueOf(t)'
    <3>1. ASSUME NEW k \in DOMAIN queue'[t]
          PROVE  wait_state'[queue'[t][k]] # "0" /\ Where(pc'[queue'[t][k]], queue'[t][k]) = t
      <4>1. PICK l \in DOMAIN queue[t] : queue'[t][k] = queue[t][l] /\ queue[t][l] # q
        BY <2>6
      <4> QED BY <1>1, <1>3, <1>4, <2>4, <4>1 DEF At
    <3>2. \A k, l \in DOMAIN queue'[t] : queue'[t][k] = queue'[t][l] => k = l
      <4> SUFFICES ASSUME NEW k \in DOMAIN queue'[t], NEW l \in DOMAIN queue'[t],
                          queue'[t][k] = queue'[t][l]
                   PROVE  k = l
        OBVIOUS
      <4>0. k \in Int /\ l \in Int
        <5>1. queue'[t] \in Seq(Phil)
          BY <1>1, <2>1, <2>4
        <5> QED BY <5>1, LenProperties
      <4>1. PICK m \in DOMAIN queue[t] :
              queue'[t][k] = queue[t][m] /\ m = IF t = s THEN k + 1 ELSE k
        BY <2>6
      <4>2. PICK n \in DOMAIN queue[t] :
              queue'[t][l] = queue[t][n] /\ n = IF t = s THEN l + 1 ELSE l
        BY <2>6
      <4>3. m = n
        BY <1>1, <4>1, <4>2
      <4> QED BY <4>0, <4>1, <4>2, <4>3
    <3> QED BY <3>1, <3>2 DEF QueueOf, Asleep, At
  <2>8. \A j \in Phil : InDownOk(j)'
    BY <1>1, <1>2, <1>5, <2>1, <2>3, <2>4 DEF InDownOk, Asleep, InDown
  <2>9. Active(q)' /\ \A j \in Phil : Active(j)' => j = q
    <3>1. \A j \in Phil \ {q} : wakeup_flags'[j] = wakeup_flags[j] /\ wait_state'[j] = wait_state[j]
      BY <1>1, <2>4
    <3>2. Active(q)'
      BY <1>1, <2>1, <2>4 DEF Active, InDown, Asleep
    <3>4. ~Active(i)'
      BY <1>2, <2>3, <3>1 DEF Active, InDown, Asleep, Inside
    <3>3. \A j \in Phil \ {q, i} : Active(j)' => Active(j)
      BY <1>2, <3>1 DEF Active, InDown, Asleep, Inside
    <3> QED BY <3>2, <3>3, <3>4
  <2>10. SemInv'
    BY <1>2, <2>5, <2>7, <2>8 DEF SemInv
  <2>11. OneActive'
    BY <2>1, <2>4, <2>9 DEF OneActive
  <2>12. \A j \in Phil : Active(j)' => j # i /\ InDown(j) /\ At(j) = s
    BY <2>3, <2>9 DEF InDown
  <2> QED BY <2>4, <2>10, <2>11, <2>12
<1> QED BY <1>6, <1>7

\* A call of down(): it sleeps, and nothing else changes; or the monitor is its own.
LEMMA DownStep ==
    ASSUME SemInv, OneActive, NEW i \in Phil, NEW s \in Sems,
           NEW from \in Calls, NEW to \in Inside, Down(s, i, from, to),
           pc[i] = from => At(i) = s
    PROVE  /\ SemInv' /\ OneActive' /\ pc[i] = from
           /\ \/ /\ pc' = pc /\ value' = value
                 /\ \A j \in Phil : Active(j)' = Active(j)
              \/ /\ pc' = [pc EXCEPT ![i] = to]
                 /\ \A t \in Sems : value'[t] = 0
                 /\ \A j \in Phil : Active(j)' <=> j = i
                 /\ value[s] > 0 \/ Active(i)
<1>1. /\ value \in [Sems -> Nat] /\ queue \in [Sems -> Seq(Phil)]
      /\ wait_state \in [Phil -> {"0", "WT_KSEM"}]
      /\ wakeup_flags \in [Phil -> {"none", "WT_INTERRUPTED", "WT_KSEM"}]
      /\ pc \in [Phil -> Labels]
      /\ \A t \in Sems : \A k \in DOMAIN queue[t] :
           /\ queue[t][k] \in Phil
           /\ wait_state[queue[t][k]] # "0"
           /\ wakeup_flags[queue[t][k]] # "none"
           /\ At(queue[t][k]) = t
      /\ \A t \in Sems : \A k, l \in DOMAIN queue[t] : queue[t][k] = queue[t][l] => k = l
  BY QueueFacts
<1>2. pc[i] = from /\ At(i) = s /\ pc[i] \in Calls /\ pc[i] \notin Inside /\ to \in Labels
  BY DEF Down, Calls, Signalled, Inside, Labels
<1>3. \A j \in Phil : InDownOk(j)
  BY DEF SemInv
<1>4. CASE DownTakes(s, i, to)
  <2>1. /\ value' = [value EXCEPT ![s] = @ - 1] /\ value[s] > 0 /\ ~InDown(i)
        /\ pc' = [pc EXCEPT ![i] = to]
        /\ UNCHANGED <<queue, wait_state, wakeup_flags>>
    BY <1>4 DEF DownTakes, GoTo
  <2>2. SemTypeOK' /\ pc' \in [Phil -> Labels]
    BY <1>1, <1>2, <2>1 DEF SemTypeOK
  <2>3. \A t \in Sems : \A k \in DOMAIN queue[t] : queue[t][k] # i
    BY <1>1, <2>1 DEF InDown
  <2>4. \A j \in Phil \ {i} : At(j)' = At(j)
    BY <1>1, <2>1, SameAt
  <2>5. \A t \in Sems : QueueOf(t)'
    BY <1>1, <2>1, <2>3, <2>4 DEF QueueOf, Asleep
  <2>6. \A j \in Phil : InDownOk(j)'
    BY <1>1, <1>3, <2>1 DEF InDownOk, Asleep, InDown
  <2>7. value[s] = 1 /\ (\A t \in Sems \ {s} : value[t] = 0) /\ \A j \in Phil : ~Active(j)
    BY <1>1, <2>1 DEF OneActive
  <2>8. \A t \in Sems : value'[t] = 0
    BY <1>1, <2>1, <2>7
  <2>9. \A j \in Phil : Active(j)' <=> j = i
    BY <1>1, <2>1, <2>7 DEF Active, InDown, Asleep, Inside
  <2> QED BY <1>2, <2>1, <2>2, <2>5, <2>6, <2>8, <2>9 DEF SemInv, OneActive
<1>5. CASE DownSleeps(s, i)
  <2>1. /\ ~InDown(i) /\ UNCHANGED <<value, pc>>
        /\ queue' = [queue EXCEPT ![s] = Append(@, i)]
        /\ wait_state' = [wait_state EXCEPT ![i] = "WT_KSEM"]
        /\ wakeup_flags' = [wakeup_flags EXCEPT ![i] = "WT_INTERRUPTED"]
    BY <1>5 DEF DownSleeps, WaitCurrentSet
  <2>2. /\ Append(queue[s], i) \in Seq(Phil)
        /\ \A k \in DOMAIN Append(queue[s], i) :
             \/ k \in DOMAIN queue[s] /\ Append(queue[s], i)[k] = queue[s][k]
             \/ k = Len(queue[s]) + 1 /\ Append(queue[s], i)[k] = i
    BY <1>1, AppendFacts
  <2>3. SemTypeOK' /\ pc' \in [Phil -> Labels]
    BY <1>1, <2>1, <2>2 DEF SemTypeOK
  <2>4. \A t \in Sems : \A k \in DOMAIN queue[t] : queue[t][k] # i
    BY <1>1, <2>1 DEF InDown
  <2>5. \A j \in Phil : At(j)' = At(j)
    BY <2>1, SameAt
  <2>6. ASSUME NEW t \in Sems, t # s PROVE QueueOf(t)'
    <3>1. queue'[t] = queue[t]
      BY <1>1, <2>1, <2>6
    <3> QED BY <1>1, <2>1, <2>4, <2>5, <3>1 DEF QueueOf, Asleep
  <2>7. QueueOf(s)'
    <3>1. queue'[s] = Append(queue[s], i)
      BY <1>1, <2>1
    <3>2. ASSUME NEW k \in DOMAIN queue'[s]
          PROVE  wait_state'[queue'[s][k]] # "0" /\ Where(pc'[queue'[s][k]], queue'[s][k]) = s
      <4>1. CASE k \in DOMAIN queue[s] /\ queue'[s][k] = queue[s][k]
        BY <1>1, <2>1, <2>4, <2>5, <4>1 DEF At
      <4>2. CASE queue'[s][k] = i
        BY <1>1, <1>2, <2>1, <2>5, <4>2 DEF At
      <4> QED BY <2>2, <3>1, <4>1, <4>2
    <3>3. \A k, l \in DOMAIN queue'[s] : queue'[s][k] = queue'[s][l] => k = l
      BY <1>1, <2>2, <2>4, <3>1
    <3> QED BY <3>2, <3>3 DEF QueueOf, Asleep, At
  <2>8. \A j \in Phil : InDownOk(j)'
    BY <1>1, <1>2, <1>3, <2>1 DEF InDownOk, Asleep, InDown
  <2>9. \A j \in Phil : Active(j)' = Active(j)
    <3>1. ~Active(i) /\ ~Active(i)'
      BY <1>1, <1>2, <2>1 DEF Active, InDown, Asleep, Inside
    <3>2. \A j \in Phil \ {i} : Active(j)' = Active(j)
      BY <1>1, <2>1 DEF Active, InDown, Asleep
    <3>3. Active(i)' = Active(i)
      BY <3>1 DEF Active, InDown, Asleep
    <3> QED BY <3>2, <3>3
  <2> QED BY <1>2, <2>1, <2>3, <2>6, <2>7, <2>8, <2>9 DEF SemInv, OneActive
<1>6. CASE DownReturns(s, i, to)
  <2>1. \A t \in Sems : \A k \in DOMAIN queue[t] : queue[t][k] # i
    BY <1>1, <1>6 DEF DownReturns, Asleep
  <2>2. InDown(i) /\ ~Asleep(i) /\ wakeup_flags[i] = "WT_KSEM" /\ ~Queued(s, i)
    BY <1>3, <1>6, <2>1 DEF DownReturns, InDownOk, Queued
  <2>3. /\ UNCHANGED <<queue, value, wait_state>>
        /\ wakeup_flags' = [wakeup_flags EXCEPT ![i] = "none"]
        /\ pc' = [pc EXCEPT ![i] = to]
    BY <1>6, <2>2 DEF DownReturns, GoTo
  <2>4. SemTypeOK' /\ pc' \in [Phil -> Labels]
    BY <1>1, <1>2, <2>3 DEF SemTypeOK
  <2>5. \A j \in Phil \ {i} : At(j)' = At(j)
    BY <1>1, <2>3, SameAt
  <2>6. \A t \in Sems : QueueOf(t)'
    BY <1>1, <2>1, <2>3, <2>5 DEF QueueOf, Asleep
  <2>7. \A j \in Phil : InDownOk(j)'
    BY <1>1, <1>3, <2>2, <2>3 DEF InDownOk, Asleep, InDown
  <2>8. Active(i)
    BY <2>2 DEF Active
  <2>9. (\A t \in Sems : value[t] = 0) /\ \A j \in Phil : Active(j) => j = i
    BY <2>8 DEF OneActive
  <2>10. \A j \in Phil : Active(j)' <=> j = i
    BY <1>1, <2>3, <2>9 DEF Active, InDown, Asleep, Inside
  <2> QED BY <1>2, <2>3, <2>4, <2>6, <2>7, <2>8, <2>9, <2>10 DEF SemInv, OneActive
<1> QED BY <1>4, <1>5, <1>6 DEF Down

\* A step that leaves the semaphores alone, and its philosopher in the monitor or out.
LEMMA QuietStep ==
    ASSUME SemInv, OneActive, NEW i \in Phil, ~InDown(i), NEW to \in Labels,
           pc[i] \in Inside <=> to \in Inside, pc' = [pc EXCEPT ![i] = to],
           UNCHANGED <<value, queue, wait_state, wakeup_flags>>
    PROVE  SemInv' /\ OneActive' /\ \A j \in Phil : Active(j)' = Active(j)
<1>1. pc \in [Phil -> Labels] /\ \A j \in Phil : InDownOk(j)
  BY DEF SemInv
<1>2. SemTypeOK' /\ pc' \in [Phil -> Labels]
  BY <1>1 DEF SemInv, SemTypeOK
<1>3. \A t \in Sems : QueueOf(t)'
  <2>1. \A t \in Sems : \A k \in DOMAIN queue[t] : queue[t][k] \in Phil \ {i}
    BY QueueFacts DEF InDown
  <2> QED BY <1>1, <2>1 DEF SemInv, QueueOf, Asleep, At
<1>4. \A j \in Phil : InDownOk(j)'
  BY <1>1 DEF InDownOk, Asleep, InDown
<1>5. \A j \in Phil : Active(j)' = Active(j)
  BY <1>1 DEF Active, InDown, Asleep, Inside
<1>6. OneActive'
  BY <1>5 DEF OneActive
<1> QED BY <1>2, <1>3, <1>4, <1>5, <1>6 DEF SemInv

\* The philosopher that the code inside the monitor runs for.
LEMMA TheActive ==
    ASSUME Inv, NEW i \in Phil, pc[i] \in Inside
    PROVE  /\ ~InDown(i) /\ Active(i)
           /\ \A t \in Sems : value[t] = 0
           /\ \A j \in Phil : Active(j) => j = i
<1>1. ~InDown(i)
  BY DEF Inv, SemInv, InDownOk, Inside, Calls, Signalled
<1>2. Active(i)
  BY <1>1 DEF Active, Inside
<1> QED BY <1>1, <1>2 DEF Inv, OneActive

\* How many wait to go on after a step of i.
LEMMA SignalledSet ==
    ASSUME CountInv, pc \in [Phil -> Labels], NEW i \in Phil, NEW to \in Labels,
           pc' = [pc EXCEPT ![i] = to]
    PROVE  LET after == Cardinality({j \in Phil : pc'[j] \in Signalled})
           IN  /\ (pc[i] \in Signalled <=> to \in Signalled) => after = next_count
               /\ pc[i] \notin Signalled /\ to \in Signalled => after = next_count + 1
               /\ pc[i] \in Signalled /\ to \notin Signalled
                    => after = next_count - 1 /\ next_count - 1 \in Nat
<1> DEFINE S == {j \in Phil : pc[j] \in Signalled}
           T == {j \in Phil : pc'[j] \in Signalled}
<1>1. IsFiniteSet(S) /\ Cardinality(S) \in Nat /\ next_count = Cardinality(S)
  <2>1. IsFiniteSet(Phil)
    BY FS_Interval, DiningAssumption DEF Phil
  <2>2. S \subseteq Phil
    OBVIOUS
  <2> QED BY <2>1, <2>2, FS_Subset, FS_CardinalityType DEF CountInv
<1>2. CASE pc[i] \in Signalled <=> to \in Signalled
  <2>1. T = S
    BY <1>2
  <2> QED BY <1>1, <1>2, <2>1
<1>3. CASE pc[i] \notin Signalled /\ to \in Signalled
  <2>1. T = S \cup {i} /\ i \notin S
    BY <1>3
  <2> HIDE DEF S, T
  <2>2. Cardinality(T) = Cardinality(S) + 1
    BY <1>1, <2>1, FS_AddElement
  <2> QED BY <1>1, <1>3, <2>2 DEF T
<1>4. CASE pc[i] \in Signalled /\ to \notin Signalled
  <2>1. T = S \ {i} /\ i \in S
    BY <1>4
  <2> HIDE DEF S, T
  <2>2. Cardinality(T) = Cardinality(S) - 1 /\ Cardinality(T) \in Nat
    BY <1>1, <2>1, FS_RemoveElement, FS_CardinalityType
  <2> QED BY <1>1, <1>4, <2>2 DEF T
<1> QED BY <1>2, <1>3, <1>4

\* A step that changes no state, but takes i to a place that suits the one it has.
LEMMA SameState ==
    ASSUME Inv, NEW i \in Phil, NEW to \in Labels,
           pc' = pc \/ (pc' = [pc EXCEPT ![i] = to] /\ Suits(to, state_condvar[i])),
           UNCHANGED state_condvar, iter' \in [Phil -> 0 .. TIMES],
           \A j \in Phil : SignalOk(j)'
    PROVE  StateInv'
<1>1. pc \in [Phil -> Labels] /\ StateInv
  BY DEF Inv, SemInv
<1>2. \A j \in Phil : StateOk(j)' /\ ForksOk(j)'
  BY <1>1 DEF StateInv, StateOk, ForksOk, LEFT, RIGHT
<1> QED BY <1>1, <1>2 DEF StateInv

LEMMA ThinkKeeps ==
    ASSUME Inv, NEW i \in Phil, Think(i)
    PROVE  Inv'
<1>1. /\ pc[i] = "think" /\ pc \in [Phil -> Labels]
      /\ UNCHANGED <<value, queue, wait_state, wakeup_flags, next_count, count, state_condvar>>
  BY DEF Think, Inv, SemInv
<1>2. PICK to \in {"take", "quit"} : pc' = [pc EXCEPT ![i] = to]
  BY DEF Think, GoTo
<1>3. iter' \in [Phil -> 0 .. TIMES]
  BY DiningAssumption DEF Think, Inv, StateInv
<1>4. ~InDown(i) /\ to \in Labels /\ to \notin Inside /\ to # "waiting" /\ pc[i] \notin Inside
  BY <1>1, <1>2 DEF Inv, SemInv, InDownOk, Calls, Signalled, Labels, Inside
<1>5. SemInv' /\ OneActive' /\ \A j \in Phil : Active(j)' = Active(j)
  BY <1>1, <1>2, <1>4, QuietStep DEF Inv
<1>6. CountInv'
  <2>1. Cardinality({j \in Phil : pc'[j] \in Signalled}) = next_count
    BY <1>1, <1>2, <1>4, SignalledSet DEF Inv, Signalled
  <2>2. \A c \in Phil : pc'[c] = "waiting" <=> pc[c] = "waiting"
    BY <1>1, <1>2
  <2> QED BY <1>1, <2>1, <2>2 DEF Inv, CountInv
<1>7. \A j \in Phil : SignalOk(j)'
  <2>1. \A j \in Phil : pc'[j] = "waiting" <=> pc[j] = "waiting"
    BY <1>1, <1>2
  <2> QED BY <1>1, <1>5, <2>1 DEF Inv, StateInv, SignalOk
<1>8. StateInv'
  <2>1. Suits(to, state_condvar[i])
    BY <1>1, <1>2 DEF Inv, StateInv, StateOk, Suits
  <2> QED BY <1>1, <1>2, <1>3, <1>4, <1>7, <2>1, SameState
<1> QED BY <1>5, <1>6, <1>8 DEF Inv

\* HandOn, at the end of a visit or at the beginning of a wait.
LEMMA HandOnKeeps ==
    ASSUME Inv, NEW i \in Phil, pc[i] \in Inside, HandOn,
           NEW to \in {"eat", "think", "waiting"}, GoTo(i, to),
           Suits(to, state_condvar[i]),
           UNCHANGED <<next_count, state_condvar, iter>>,
           count' = IF to = "waiting" THEN [count EXCEPT ![i] = @ + 1] ELSE count
    PROVE  Inv'
<1>1. /\ ~InDown(i) /\ pc \in [Phil -> Labels] /\ pc' = [pc EXCEPT ![i] = to]
      /\ \A t \in Sems : value[t] = 0
      /\ \A j \in Phil : Active(j) => j = i
      /\ to \in Labels \ Inside /\ to \notin Signalled /\ pc[i] \notin Signalled
      /\ pc[i] # "waiting"
  BY TheActive DEF Inv, SemInv, GoTo, Labels, Calls, Inside, Signalled
<1>2. PICK s \in {mutex, next} : Up(s) /\ (s = mutex => next_count = 0)
  <2>1. next_count \in Nat /\ mutex # next
    BY Apart DEF Inv, CountInv
  <2>2. CASE next_count > 0
    BY <2>1, <2>2 DEF HandOn
  <2>3. CASE ~(next_count > 0)
    BY <2>1, <2>3 DEF HandOn
  <2> QED BY <2>2, <2>3
<1>3. s \in Sems /\ s \notin Phil
  BY Apart
<1>4. /\ SemInv' /\ OneActive'
      /\ \A t \in Sems : value'[t] > 0 => t = s
      /\ \A j \in Phil : Active(j)' => j # i /\ InDown(j) /\ At(j) = s
  BY <1>1, <1>2, <1>3, UpStep DEF Inv
<1>5. CountInv'
  <2>1. Cardinality({j \in Phil : pc'[j] \in Signalled}) = next_count
    BY <1>1, SignalledSet DEF Inv
  <2>2. \A c \in Phil : count'[c] = IF pc'[c] = "waiting" THEN 1 ELSE 0
    BY <1>1 DEF Inv, CountInv
  <2>3. count' \in [Phil -> Nat]
    BY DEF Inv, CountInv
  <2>4. value'[mutex] > 0 => next_count' = 0
    BY <1>2, <1>4, Apart
  <2> QED BY <2>1, <2>2, <2>3, <2>4 DEF Inv, CountInv
<1>6. ASSUME NEW j \in Phil PROVE SignalOk(j)'
  <2>1. ~(value'[j] > 0)
    BY <1>3, <1>4, Apart
  <2>2. ~(pc'[j] = "waiting" /\ Active(j)')
    <3> SUFFICES ASSUME pc'[j] = "waiting", Active(j)' PROVE FALSE
      OBVIOUS
    <3>1. j # i /\ At(j) = s
      BY <1>4
    <3>2. pc[j] = "waiting"
      BY <1>1, <3>1
    <3> QED BY <1>3, <3>1, <3>2 DEF At, Where
  <2> QED BY <2>1, <2>2 DEF SignalOk
<1>7. StateInv'
  BY <1>1, <1>6, SameState DEF Inv, StateInv
<1> QED BY <1>4, <1>5, <1>7 DEF Inv

\* The calls of down(), with what they do to the counts.
LEMMA DownKeeps ==
    ASSUME Inv, NEW i \in Phil, NEW s \in Sems, NEW from \in Calls, NEW to \in Inside,
           Down(s, i, from, to), pc[i] = from => At(i) = s,
           Suits(from, state_condvar[i]) => Suits(to, state_condvar[i]),
           UNCHANGED <<state_condvar, iter>>,
           count' = IF from = "waiting" /\ pc'[i] # from
                    THEN [count EXCEPT ![i] = @ - 1] ELSE count,
           next_count' = IF from \in Signalled /\ pc'[i] # from
                         THEN next_count - 1 ELSE next_count
    PROVE  Inv'
<1>1. /\ SemInv' /\ OneActive' /\ pc[i] = from
      /\ \/ /\ pc' = pc /\ value' = value
            /\ \A j \in Phil : Active(j)' = Active(j)
         \/ /\ pc' = [pc EXCEPT ![i] = to]
            /\ \A t \in Sems : value'[t] = 0
            /\ \A j \in Phil : Active(j)' <=> j = i
  BY DownStep DEF Inv
<1>2. pc \in [Phil -> Labels] /\ to \in Labels /\ to \notin Calls /\ to # from /\ mutex \in Sems
  BY Apart DEF Inv, SemInv, Labels, Calls, Signalled, Inside
<1>3. Suits(to, state_condvar[i])
  BY <1>1 DEF Inv, StateInv, StateOk
<1>4. CASE pc' = pc /\ value' = value /\ \A j \in Phil : Active(j)' = Active(j)
  <2>1. count' = count /\ next_count' = next_count
    BY <1>1, <1>4
  <2>2. CountInv'
    BY <1>4, <2>1 DEF Inv, CountInv
  <2>3. \A j \in Phil : SignalOk(j)'
    BY <1>4 DEF Inv, StateInv, SignalOk
  <2> QED BY <1>1, <1>2, <1>4, <2>2, <2>3, SameState DEF Inv, StateInv
<1>5. CASE /\ pc' = [pc EXCEPT ![i] = to]
           /\ \A t \in Sems : value'[t] = 0
           /\ \A j \in Phil : Active(j)' <=> j = i
  <2>1. pc'[i] = to /\ to \notin Signalled /\ to # "waiting"
    BY <1>2, <1>5 DEF Calls
  <2>2. Cardinality({j \in Phil : pc'[j] \in Signalled}) = next_count' /\ next_count' \in Nat
    BY <1>1, <1>2, <1>5, <2>1, SignalledSet DEF Inv, CountInv
  <2>3. /\ \A c \in Phil : count'[c] = IF pc'[c] = "waiting" THEN 1 ELSE 0
        /\ count' \in [Phil -> Nat]
    BY <1>1, <1>2, <1>5, <2>1 DEF Inv, CountInv
  <2>4. CountInv'
    BY <1>2, <1>5, <2>2, <2>3 DEF CountInv
  <2>5. \A j \in Phil : SignalOk(j)'
    BY <1>2, <1>5, <2>1, Apart DEF SignalOk
  <2> QED BY <1>1, <1>2, <1>3, <1>5, <2>4, <2>5, SameState DEF Inv, StateInv
<1> QED BY <1>1, <1>4, <1>5

-----------------------------------------------------------------------------
\* What a test has to find in the states st, when the places are as in labels.
Sound(st, labels) ==
    /\ st \in [Phil -> {"THINKING", "HUNGRY", "EATING"}]
    /\ \A k \in Phil :
         /\ st[k] = "EATING" => st[LEFT(k)] # "EATING" /\ st[RIGHT(k)] # "EATING"
         /\ Suits(labels[k], st[k])

\* A test keeps neighbours apart.
LEMMA SoundState ==
    ASSUME NEW st, Sound(st, pc'), pc' \in [Phil -> Labels], NEW j \in Phil,
           \/ state_condvar' = st
           \/ MayEat(j, st) /\ state_condvar' = [st EXCEPT ![j] = "EATING"],
           iter' \in [Phil -> 0 .. TIMES], \A k \in Phil : SignalOk(k)'
    PROVE  StateInv'
<1>1. CASE state_condvar' = st
  BY <1>1 DEF Sound, StateInv, StateOk, ForksOk, LEFT, RIGHT
<1>2. CASE MayEat(j, st) /\ state_condvar' = [st EXCEPT ![j] = "EATING"]
  <2>1. /\ st \in [Phil -> {"THINKING", "HUNGRY", "EATING"}] /\ st[j] = "HUNGRY"
        /\ st[LEFT(j)] # "EATING" /\ st[RIGHT(j)] # "EATING"
    BY <1>2 DEF MayEat, Sound
  <2>2. ASSUME NEW k \in Phil PROVE ForksOk(k)'
    <3>1. st[k] = "EATING" => st[LEFT(k)] # "EATING" /\ st[RIGHT(k)] # "EATING"
      BY DEF Sound
    <3>2. /\ LEFT(k) \in Phil /\ RIGHT(k) \in Phil /\ LEFT(j) \in Phil /\ RIGHT(j) \in Phil
          /\ LEFT(j) # j /\ RIGHT(j) # j
          /\ LEFT(k) = j => k = RIGHT(j)
          /\ RIGHT(k) = j => k = LEFT(j)
      BY Neighbours
    <3>3. state_condvar'[k] = "EATING" =>
            state_condvar'[LEFT(k)] # "EATING" /\ state_condvar'[RIGHT(k)] # "EATING"
      BY <1>2, <2>1, <3>1, <3>2
    <3> QED BY <3>3 DEF ForksOk, LEFT, RIGHT
  <2>3. \A k \in Phil : Suits(pc'[k], state_condvar'[k])
    BY <1>2, <2>1 DEF Sound, Suits
  <2>4. state_condvar' \in [Phil -> {"THINKING", "HUNGRY", "EATING"}]
    BY <1>2, <2>1
  <2> QED BY <2>2, <2>3, <2>4 DEF StateInv, StateOk
<1> QED BY <1>1, <1>2

\* phi_test_condvar: nobody is told, or j is, and then only because it has its forks.
LEMMA TestKeeps ==
    ASSUME Inv, NEW p \in Phil, NEW j \in Phil, NEW st,
           NEW from \in Inside, NEW to \in Inside, NEW sig,
           phi_test_condvar(j, st, p, from, sig, to), UNCHANGED iter,
           Sound(st, [pc EXCEPT ![p] = to]),
           count[j] > 0 => sig \in Signalled /\ Sound(st, [pc EXCEPT ![p] = sig])
    PROVE  Inv'
<1>1. pc[p] = from
  BY DEF phi_test_condvar, CondSignalNobody, CondSignal
<1>2. /\ ~InDown(p) /\ pc \in [Phil -> Labels]
      /\ \A t \in Sems : value[t] = 0
      /\ \A k \in Phil : Active(k) => k = p
      /\ from \notin Signalled /\ to \notin Signalled
      /\ from # "waiting" /\ to # "waiting" /\ to \in Labels
      /\ iter' \in [Phil -> 0 .. TIMES] /\ mutex \in Sems /\ Phil \subseteq Sems /\ mutex \notin Phil
  BY <1>1, TheActive, Apart DEF Inv, SemInv, StateInv, Labels, Inside, Signalled
<1>3. CASE /\ state_condvar' = st \/ (MayEat(j, st) /\ state_condvar' = [st EXCEPT ![j] = "EATING"])
           /\ GoTo(p, to)
           /\ UNCHANGED <<value, queue, wait_state, wakeup_flags, next_count, count>>
  <2>1. pc' = [pc EXCEPT ![p] = to] /\ pc' \in [Phil -> Labels]
    BY <1>2, <1>3 DEF GoTo
  <2>2. SemInv' /\ OneActive' /\ \A k \in Phil : Active(k)' = Active(k)
    BY <1>1, <1>2, <1>3, <2>1, QuietStep DEF Inv
  <2>3. CountInv'
    <3>1. Cardinality({k \in Phil : pc'[k] \in Signalled}) = next_count
      BY <1>1, <1>2, <2>1, SignalledSet DEF Inv
    <3>2. \A c \in Phil : pc'[c] = "waiting" <=> pc[c] = "waiting"
      BY <1>1, <1>2, <2>1
    <3> QED BY <1>3, <3>1, <3>2 DEF Inv, CountInv
  <2>4. \A k \in Phil : SignalOk(k)'
    BY <1>2, <1>3, <2>1, <2>2 DEF SignalOk
  <2>5. StateInv'
    BY <1>2, <1>3, <2>1, <2>4, SoundState
  <2> QED BY <2>2, <2>3, <2>5 DEF Inv
<1>4. CASE /\ MayEat(j, st)
           /\ state_condvar' = [st EXCEPT ![j] = "EATING"]
           /\ CondSignal(j, p, from, sig, to)
  <2>1. /\ count[j] > 0 /\ next_count' = next_count + 1 /\ Up(j) /\ UNCHANGED count
        /\ pc' = [pc EXCEPT ![p] = sig]
    BY <1>4 DEF CondSignal, GoTo
  <2>2. sig \in Signalled /\ Sound(st, [pc EXCEPT ![p] = sig])
    BY <2>1
  <2>3. pc[j] = "waiting" /\ j # p
    BY <1>1, <1>2, <2>1 DEF Inv, CountInv
  <2>4. sig \in Labels \ Inside /\ sig # "waiting" /\ pc' \in [Phil -> Labels]
    BY <1>2, <2>1, <2>2 DEF Labels, Calls, Signalled, Inside
  <2>5. /\ SemInv' /\ OneActive'
        /\ \A t \in Sems : value'[t] > 0 => t = j
        /\ \A k \in Phil : Active(k)' => k # p /\ InDown(k) /\ At(k) = j
    BY <1>1, <1>2, <2>1, <2>4, UpStep DEF Inv
  <2>6. CountInv'
    <3>1. Cardinality({k \in Phil : pc'[k] \in Signalled}) = next_count + 1
      BY <1>1, <1>2, <2>1, <2>2, <2>4, SignalledSet DEF Inv
    <3>2. \A c \in Phil : pc'[c] = "waiting" <=> pc[c] = "waiting"
      BY <1>1, <1>2, <2>1, <2>4
    <3>3. ~(value'[mutex] > 0)
      BY <1>2, <2>5
    <3> QED BY <2>1, <3>1, <3>2, <3>3 DEF Inv, CountInv
  <2>7. ASSUME NEW k \in Phil PROVE SignalOk(k)'
    <3>1. pc'[j] = "waiting" /\ state_condvar'[j] = "EATING"
      BY <1>2, <1>4, <2>1, <2>2, <2>3 DEF Sound
    <3>2. CASE k = j
      BY <3>1, <3>2 DEF SignalOk
    <3>3. CASE k # j
      <4>1. ~(value'[k] > 0)
        BY <1>2, <2>5, <3>3
      <4>2. ~(pc'[k] = "waiting" /\ Active(k)')
        <5> SUFFICES ASSUME pc'[k] = "waiting", Active(k)' PROVE FALSE
          OBVIOUS
        <5>1. k # p /\ At(k) = j
          BY <2>5
        <5>2. pc[k] = "waiting"
          BY <1>2, <2>1, <5>1
        <5> QED BY <3>3, <5>1, <5>2 DEF At, Where
      <4> QED BY <4>1, <4>2 DEF SignalOk
    <3> QED BY <3>2, <3>3
  <2>8. StateInv'
    BY <1>2, <1>4, <2>1, <2>2, <2>4, <2>7, SoundState
  <2> QED BY <2>5, <2>6, <2>8 DEF Inv
<1> QED BY <1>3, <1>4 DEF phi_test_condvar, CondSignalNobody

\* The states before a test are as the test wants them, i being where it is.
LEMMA SoundNow ==
    ASSUME Inv, NEW i \in Phil, NEW to \in Labels, NEW x \in {"THINKING", "HUNGRY"},
           Suits(to, x)
    PROVE  Sound([state_condvar EXCEPT ![i] = x], [pc EXCEPT ![i] = to])
<1>1. /\ state_condvar \in [Phil -> {"THINKING", "HUNGRY", "EATING"}] /\ pc \in [Phil -> Labels]
      /\ \A k \in Phil : StateOk(k) /\ ForksOk(k) /\ LEFT(k) \in Phil /\ RIGHT(k) \in Phil
  BY Neighbours DEF Inv, SemInv, StateInv
<1>2. ASSUME NEW k \in Phil
      PROVE  LET st == [state_condvar EXCEPT ![i] = x]
             IN  /\ st[k] = "EATING" => st[LEFT(k)] # "EATING" /\ st[RIGHT(k)] # "EATING"
                 /\ Suits([pc EXCEPT ![i] = to][k], st[k])
  BY <1>1 DEF StateOk, ForksOk
<1> QED BY <1>1, <1>2 DEF Sound

-----------------------------------------------------------------------------
LEMMA InitInv == Init => Inv
<1> SUFFICES ASSUME Init PROVE Inv
  OBVIOUS
<1>1. /\ value = [s \in Sems |-> IF s = mutex THEN 1 ELSE 0]
      /\ queue = [s \in Sems |-> <<>>]
      /\ wait_state = [i \in Phil |-> "0"] /\ wakeup_flags = [i \in Phil |-> "none"]
      /\ pc = [i \in Phil |-> "think"] /\ next_count = 0 /\ count = [c \in Phil |-> 0]
      /\ state_condvar = [i \in Phil |-> "THINKING"] /\ iter = [i \in Phil |-> 0]
  BY DEF Init, MonitorInit, SemInit
<1>2. SemInv
  BY <1>1 DEF SemInv, SemTypeOK, QueueOf, InDownOk, Asleep, InDown, Labels
<1>3. OneActive
  BY <1>1, Apart DEF OneActive, Active, InDown
<1>4. CountInv
  <2>1. {i \in Phil : pc[i] \in Signalled} = {}
    BY <1>1 DEF Signalled
  <2>2. Cardinality({i \in Phil : pc[i] \in Signalled}) = 0
    BY <2>1, FS_EmptySet
  <2> QED BY <1>1, <2>2 DEF CountInv
<1>5. StateInv
  <2>1. \A i \in Phil : StateOk(i) /\ ForksOk(i)
    BY <1>1 DEF StateOk, ForksOk, Suits
  <2>2. \A i \in Phil : SignalOk(i)
    BY <1>1, Apart DEF SignalOk
  <2> QED BY <1>1, <2>1, <2>2, DiningAssumption DEF StateInv
<1> QED BY <1>2, <1>3, <1>4, <1>5 DEF Inv

LEMMA StepInv ==
    ASSUME Inv, NEW i \in Phil, Step(i)
    PROVE  Inv'
<1>1. /\ i \in Sems /\ mutex \in Sems /\ next \in Sems
      /\ \A from \in Calls : pc[i] = from => At(i) = Where(from, i)
  BY Apart DEF At
<1>2. Suits(pc[i], state_condvar[i]) /\ pc \in [Phil -> Labels]
      /\ state_condvar \in [Phil -> {"THINKING", "HUNGRY", "EATING"}]
      /\ LEFT(i) \in Phil /\ RIGHT(i) \in Phil
  BY Neighbours DEF Inv, SemInv, StateInv, StateOk
<1>3. CASE Think(i)
  BY <1>3, ThinkKeeps
<1>4. CASE Take(i)
  BY <1>1, <1>4, DownKeeps DEF Take, EnterMonitor, Calls, Signalled, Inside, Where, Suits
<1>5. CASE Declare(i)
  <2>1. pc[i] = "declare"
    BY <1>5 DEF Declare, phi_test_condvar, CondSignalNobody, CondSignal
  <2>2. ~(count[i] > 0)
    BY <2>1 DEF Inv, CountInv
  <2>3. Suits("check", "HUNGRY") /\ "check" \in Labels /\ {"declare", "check"} \subseteq Inside
    BY DEF Suits, Labels, Inside, Signalled
  <2>4. Sound([state_condvar EXCEPT ![i] = "HUNGRY"], [pc EXCEPT ![i] = "check"])
    BY <2>3, SoundNow
  <2> QED BY <1>5, <2>2, <2>3, <2>4, TestKeeps DEF Declare
<1>6. CASE WaitForForks(i)
  <2>1. /\ pc[i] = "check" /\ HandOn /\ GoTo(i, "waiting")
        /\ count' = [count EXCEPT ![i] = @ + 1]
        /\ UNCHANGED <<next_count, state_condvar, iter>>
    BY <1>6 DEF WaitForForks, CondWait
  <2>2. pc[i] \in Inside /\ Suits("waiting", state_condvar[i])
    BY <1>2, <2>1 DEF Inside, Suits, Signalled
  <2> QED BY <2>1, <2>2, HandOnKeeps
<1>7. CASE WaitBack(i)
  <2>1. /\ Down(i, i, "waiting", "check") /\ UNCHANGED <<next_count, state_condvar, iter>>
        /\ count' = IF pc'[i] = "waiting" THEN count ELSE [count EXCEPT ![i] = @ - 1]
    BY <1>7 DEF WaitBack, CondWaitBack
  <2>2. Suits("waiting", state_condvar[i]) => Suits("check", state_condvar[i])
    BY DEF Suits, Signalled
  <2>3. "waiting" \in Calls /\ "waiting" \notin Signalled /\ "check" \in Inside
        /\ Where("waiting", i) = i
    BY DEF Calls, Signalled, Inside, Where
  <2> QED BY <1>1, <2>1, <2>2, <2>3, DownKeeps
<1>8. CASE TakeLeave(i)
  <2>1. /\ pc[i] = "check" /\ state_condvar[i] = "EATING" /\ HandOn /\ GoTo(i, "eat")
        /\ UNCHANGED <<next_count, count, state_condvar, iter>>
    BY <1>8 DEF TakeLeave, LeaveMonitor
  <2>2. pc[i] \in Inside /\ Suits("eat", state_condvar[i])
    BY <2>1 DEF Inside, Suits, Signalled
  <2> QED BY <2>1, <2>2, HandOnKeeps
<1>9. CASE Put(i)
  BY <1>1, <1>9, DownKeeps DEF Put, EnterMonitor, Calls, Signalled, Inside, Where, Suits
<1>10. CASE PutForks(i)
  <2>1. {"right", "signalled left"} \subseteq Labels /\ {"put", "right"} \subseteq Inside
        /\ "signalled left" \in Signalled
        /\ Suits("right", "THINKING") /\ Suits("signalled left", "THINKING")
    BY DEF Suits, Labels, Calls, Inside, Signalled
  <2>2. \A to \in {"right", "signalled left"} :
          Sound([state_condvar EXCEPT ![i] = "THINKING"], [pc EXCEPT ![i] = to])
    BY <2>1, SoundNow
  <2> QED BY <1>2, <1>10, <2>1, <2>2, TestKeeps DEF PutForks
<1>11. CASE LeftBack(i)
  <2>1. /\ Down(next, i, "signalled left", "right") /\ UNCHANGED <<count, state_condvar, iter>>
        /\ next_count' = IF pc'[i] = "signalled left" THEN next_count ELSE next_count - 1
    BY <1>11 DEF LeftBack, CondSignalBack
  <2>2. "signalled left" \in Calls /\ "signalled left" \in Signalled /\ "right" \in Inside
        /\ Where("signalled left", i) = next
        /\ (Suits("signalled left", state_condvar[i]) => Suits("right", state_condvar[i]))
    BY DEF Calls, Signalled, Inside, Where, Suits
  <2> QED BY <1>1, <2>1, <2>2, DownKeeps
<1>12. CASE TestRight(i)
  <2>1. pc[i] = "right"
    BY <1>12 DEF TestRight, phi_test_condvar, CondSignalNobody, CondSignal
  <2>2. state_condvar[i] = "THINKING"
    BY <1>2, <2>1 DEF Suits
  <2>3. state_condvar = [state_condvar EXCEPT ![i] = "THINKING"]
    BY <1>2, <2>2
  <2>4. {"leave", "signalled right"} \subseteq Labels /\ {"right", "leave"} \subseteq Inside
        /\ "signalled right" \in Signalled
        /\ Suits("leave", "THINKING") /\ Suits("signalled right", "THINKING")
    BY DEF Suits, Labels, Calls, Inside, Signalled
  <2>5. \A to \in {"leave", "signalled right"} : Sound(state_condvar, [pc EXCEPT ![i] = to])
    BY <2>3, <2>4, SoundNow
  <2> QED BY <1>2, <1>12, <2>4, <2>5, TestKeeps DEF TestRight
<1>13. CASE RightBack(i)
  <2>1. /\ Down(next, i, "signalled right", "leave") /\ UNCHANGED <<count, state_condvar, iter>>
        /\ next_count' = IF pc'[i] = "signalled right" THEN next_count ELSE next_count - 1
    BY <1>13 DEF RightBack, CondSignalBack
  <2>2. "signalled right" \in Calls /\ "signalled right" \in Signalled /\ "leave" \in Inside
        /\ Where("signalled right", i) = next
        /\ (Suits("signalled right", state_condvar[i]) => Suits("leave", state_condvar[i]))
    BY DEF Calls, Signalled, Inside, Where, Suits
  <2> QED BY <1>1, <2>1, <2>2, DownKeeps
<1>14. CASE PutLeave(i)
  <2>1. /\ pc[i] = "leave" /\ HandOn /\ GoTo(i, "think")
        /\ UNCHANGED <<next_count, count, state_condvar, iter>>
    BY <1>14 DEF PutLeave, LeaveMonitor
  <2>2. pc[i] \in Inside /\ Suits("think", state_condvar[i])
    BY <1>2, <2>1 DEF Inside, Suits, Signalled
  <2> QED BY <2>1, <2>2, HandOnKeeps
<1> QED BY <1>3, <1>4, <1>5, <1>6, <1>7, <1>8, <1>9, <1>10, <1>11, <1>12, <1>13, <1>14 DEF Step

LEMMA NextInv == Inv /\ [Next]_vars => Inv'
<1> SUFFICES ASSUME Inv, [Next]_vars PROVE Inv'
  OBVIOUS
<1>1. CASE Next
  BY <1>1, StepInv DEF Next
<1>2. CASE UNCHANGED vars
  <2>1. UNCHANGED <<value, queue, wait_state, wakeup_flags, pc, next_count, count,
                    state_condvar, iter>>
    BY <1>2 DEF vars, monVars, semVars
  <2>2. SemInv'
    BY <2>1 DEF Inv, SemInv, SemTypeOK, QueueOf, InDownOk, Asleep, InDown, At
  <2>3. OneActive'
    BY <2>1 DEF Inv, OneActive, Active, InDown, Asleep
  <2>4. CountInv'
    BY <2>1 DEF Inv, CountInv
  <2>5. StateInv'
    BY <2>1 DEF Inv, StateInv, StateOk, ForksOk, SignalOk, Active, InDown, Asleep, LEFT, RIGHT
  <2> QED BY <2>2, <2>3, <2>4, <2>5 DEF Inv
<1> QED BY <1>1, <1>2

\* Through every cond_wait, cond_signal and meal the monitor, its queues and counts and
\* the states of the philosophers agree.
THEOREM InvCorrect == Spec => []Inv
<1> QED BY InitInv, NextInv, PTL DEF Spec

-----------------------------------------------------------------------------
\* The monitor is handed from one to the next, and never lost or doubled: cond_wait,
\* cond_signal and the end of each routine leave it to one process or one semaphore.
THEOREM MonitorCorrect == Spec => []MonitorInv
<1>1. Inv => MonitorInv
  <2> SUFFICES ASSUME Inv PROVE MonitorInv
    OBVIOUS
  <2>1. TypeOK
    BY DEF Inv, SemInv, CountInv, StateInv, TypeOK, MonTypeOK
  <2>2. {i \in Phil : pc[i] \in {"declaring", "signalled left", "signalled right"}}
          = {i \in Phil : pc[i] \in Signalled}
    BY DEF Inv, SemInv, Labels, Inside, Calls, Signalled
  <2>3. CountsExact
    BY <2>2 DEF Inv, CountInv, CountsExact
  <2> QED BY <2>1, <2>3 DEF MonitorInv, Inv
<1> QED BY <1>1, InvCorrect, PTL

\* A philosopher that is woken in phi_take_forks_condvar has its forks: between the
\* signal and the woken process nobody gets into the monitor.
THEOREM WokenCorrect == Spec => []WokenMayEat
<1>1. Inv => WokenMayEat
  BY DEF Inv, StateInv, SignalOk, WokenMayEat, Active
<1> QED BY <1>1, InvCorrect, PTL

\* While a signaller waits in cond_signal the mutex is down, and who leaves the monitor
\* ups next: nobody comes in from outside before the signaller has gone on.
LEMMA StepSignallersFirst ==
    ASSUME Inv, NEW p \in Phil, Step(p), NEW i \in Phil,
           next_count > 0, pc[i] \in {"take", "eat"}, ~Active(i)
    PROVE  ~Active(i)'
<1>1. /\ SemInv /\ OneActive /\ pc \in [Phil -> Labels]
      /\ mutex \in Sems /\ next \in Sems /\ p \in Sems
      /\ mutex # next /\ ~(value[mutex] > 0)
      /\ At(i) = mutex
  <2>1. SemInv /\ OneActive /\ CountInv /\ pc \in [Phil -> Labels]
    BY DEF Inv, SemInv
  <2>2. next_count # 0
    OBVIOUS
  <2>3. ~(value[mutex] > 0)
    BY <2>1, <2>2 DEF CountInv
  <2>4. At(i) = mutex
    BY DEF At, Where, Signalled
  <2> QED BY <2>1, <2>3, <2>4, Apart
<1>2. ASSUME NEW s \in Sems, NEW from \in Calls, NEW to \in Inside, Down(s, p, from, to),
             pc[p] = from => At(p) = s
      PROVE  ~Active(i)'
  <2>1. \/ \A j \in Phil : Active(j)' = Active(j)
        \/ (\A j \in Phil : Active(j)' <=> j = p) /\ (value[s] > 0 \/ Active(p)) /\ pc[p] = from
    BY <1>1, <1>2, DownStep
  <2>2. CASE \A j \in Phil : Active(j)' = Active(j)
    BY <2>2
  <2>3. CASE (\A j \in Phil : Active(j)' <=> j = p) /\ (value[s] > 0 \/ Active(p)) /\ pc[p] = from
    BY <1>1, <1>2, <2>3
  <2> QED BY <2>1, <2>2, <2>3
<1>3. ASSUME NEW s \in Sems, s # mutex, Up(s), pc[p] \in Inside,
             NEW to \in Labels \ Inside, pc' = [pc EXCEPT ![p] = to]
      PROVE  ~Active(i)'
  <2>1. /\ ~InDown(p) /\ \A t \in Sems : value[t] = 0
        /\ \A j \in Phil : Active(j) => j = p
    BY <1>3, TheActive
  <2>2. \A j \in Phil : Active(j)' => At(j) = s
    BY <1>1, <1>3, <2>1, UpStep
  <2> QED BY <1>1, <1>3, <2>2
<1>4. ASSUME NEW to \in Labels, ~InDown(p), pc[p] \in Inside <=> to \in Inside,
             pc' = [pc EXCEPT ![p] = to], UNCHANGED <<value, queue, wait_state, wakeup_flags>>
      PROVE  ~Active(i)'
  BY <1>1, <1>4, QuietStep
<1>5. HandOn => Up(next)
  BY DEF HandOn
<1>6. ASSUME NEW j \in Phil, NEW st, NEW from \in Inside, NEW to \in Inside, NEW sig,
             phi_test_condvar(j, st, p, from, sig, to), sig \in Labels \ Inside
      PROVE  ~Active(i)'
  <2>1. pc[p] = from /\ ~InDown(p) /\ to \in Labels
    BY <1>6, TheActive DEF phi_test_condvar, CondSignal, CondSignalNobody, Labels
  <2>2. CASE GoTo(p, to) /\ UNCHANGED <<value, queue, wait_state, wakeup_flags>>
    BY <1>4, <2>1, <2>2 DEF GoTo
  <2>3. CASE Up(j) /\ GoTo(p, sig)
    <3>1. j \in Sems /\ j # mutex
      BY Apart
    <3> QED BY <1>3, <1>6, <2>1, <2>3, <3>1 DEF GoTo
  <2> QED BY <1>6, <2>2, <2>3 DEF phi_test_condvar, CondSignal, CondSignalNobody
<1>7. CASE Think(p)
  <2>1. ~InDown(p) /\ pc[p] \notin Inside
    BY <1>7 DEF Think, Inv, SemInv, InDownOk, Calls, Signalled, Inside
  <2>2. PICK to \in {"take", "quit"} : pc' = [pc EXCEPT ![p] = to]
    BY <1>7 DEF Think, GoTo
  <2>3. to \in Labels /\ to \notin Inside /\ UNCHANGED <<value, queue, wait_state, wakeup_flags>>
    BY <1>7 DEF Think, Labels, Calls, Inside
  <2> QED BY <1>4, <2>1, <2>2, <2>3
<1>8. CASE Take(p) \/ WaitBack(p) \/ Put(p) \/ LeftBack(p) \/ RightBack(p)
  <2>1. PICK from \in Calls, to \in Inside : Down(Where(from, p), p, from, to)
    BY <1>8 DEF Take, WaitBack, Put, LeftBack, RightBack, EnterMonitor, CondWaitBack,
                CondSignalBack, Calls, Signalled, Inside, Where
  <2>2. Where(from, p) \in Sems /\ (pc[p] = from => At(p) = Where(from, p))
    BY <1>1 DEF Where, At
  <2> QED BY <1>2, <2>1, <2>2
<1>9. CASE WaitForForks(p) \/ TakeLeave(p) \/ PutLeave(p)
  <2>1. PICK to \in {"waiting", "eat", "think"} : HandOn /\ pc[p] \in Inside /\ GoTo(p, to)
    BY <1>9 DEF WaitForForks, TakeLeave, PutLeave, CondWait, LeaveMonitor, Inside
  <2>2. to \in Labels \ Inside
    BY DEF Labels, Calls, Inside
  <2> QED BY <1>1, <1>3, <1>5, <2>1, <2>2 DEF GoTo
<1>10. CASE Declare(p)
  <2>1. pc[p] = "declare" /\ ~(count[p] > 0)
    BY <1>10 DEF Declare, phi_test_condvar, CondSignalNobody, CondSignal, Inv, CountInv
  <2>2. GoTo(p, "check") /\ UNCHANGED <<value, queue, wait_state, wakeup_flags>>
    BY <1>10, <2>1 DEF Declare, phi_test_condvar, CondSignalNobody, CondSignal
  <2>3. ~InDown(p) /\ "check" \in Labels /\ "check" \in Inside /\ pc[p] \in Inside
    BY <2>1, TheActive DEF Labels, Inside
  <2> QED BY <1>4, <2>2, <2>3 DEF GoTo
<1>11. CASE PutForks(p)
  <2>1. LEFT(p) \in Phil /\ {"put", "right"} \subseteq Inside /\ "signalled left" \in Labels \ Inside
    BY Neighbours DEF Labels, Calls, Inside, Signalled
  <2> QED BY <1>6, <1>11, <2>1 DEF PutForks
<1>12. CASE TestRight(p)
  <2>1. RIGHT(p) \in Phil /\ {"right", "leave"} \subseteq Inside /\ "signalled right" \in Labels \ Inside
    BY Neighbours DEF Labels, Calls, Inside, Signalled
  <2> QED BY <1>6, <1>12, <2>1 DEF TestRight
<1> QED BY <1>7, <1>8, <1>9, <1>10, <1>11, <1>12 DEF Step

\* While a signaller waits in cond_signal, a philosopher outside does not get in: the
\* monitor is handed on with next, and not with mutex.
THEOREM SignallersCorrect == Spec => SignallersFirst
<1> DEFINE A == \A i \in Phil :
                  next_count > 0 /\ pc[i] \in {"take", "eat"} /\ ~Active(i) => ~Active(i)'
<1>1. Inv /\ [Next]_vars => [A]_vars
  BY StepSignallersFirst DEF Next
<1> QED BY <1>1, InvCorrect, PTL DEF Spec, SignallersFirst

-----------------------------------------------------------------------------
\* What a philosopher does, as the refinement sees it.
PhaseOf(l) ==
    IF l \in {"eat", "put"} THEN "eating"
    ELSE IF l \in {"take", "declare", "declaring", "check", "waiting"} THEN "hungry" ELSE "thinking"

\* A step of i at which its place changes as said, and nobody else's does.
LEMMA PhaseStep ==
    ASSUME Inv, Inv', NEW i \in Phil, NEW to \in Labels,
           pc' = pc \/ pc' = [pc EXCEPT ![i] = to],
           PhaseOf(to) = "eating" => PhaseOf(pc[i]) # "thinking",
           PhaseOf(to) = "hungry" => PhaseOf(pc[i]) # "eating",
           PhaseOf(to) = "thinking" => PhaseOf(pc[i]) # "hungry"
    PROVE  [Table!DiningNext]_phase
<1>0. phase = [j \in Phil |-> PhaseOf(pc[j])]
  BY DEF phase, PhaseOf
<1>1. pc \in [Phil -> Labels] /\ LEFT(i) \in Phil /\ RIGHT(i) \in Phil /\ LEFT(i) # i /\ RIGHT(i) # i
  BY Neighbours DEF Inv, SemInv
<1>2. CASE pc' = pc \/ PhaseOf(to) = PhaseOf(pc[i])
  <2>1. phase' = phase
    BY <1>0, <1>1, <1>2 DEF phase, PhaseOf
  <2> QED BY <2>1
<1>3. CASE pc' = [pc EXCEPT ![i] = to] /\ PhaseOf(to) # PhaseOf(pc[i])
  <2>1. phase' = [phase EXCEPT ![i] = PhaseOf(to)]
    BY <1>0, <1>1, <1>3 DEF phase, PhaseOf
  <2>2. CASE PhaseOf(to) = "eating"
    <3>1. phase[i] = "hungry" /\ to \in {"eat", "put"}
      BY <1>0, <1>3, <2>2 DEF PhaseOf
    <3>2. state_condvar'[i] = "EATING"
      BY <1>1, <1>3, <3>1 DEF Inv, StateInv, StateOk, Suits
    <3>3. state_condvar'[LEFT(i)] # "EATING" /\ state_condvar'[RIGHT(i)] # "EATING"
      BY <3>2 DEF Inv, StateInv, ForksOk, LEFT, RIGHT
    <3>4. \A k \in {LEFT(i), RIGHT(i)} : phase[k] # "eating"
      BY <1>0, <1>1, <1>3, <3>3 DEF Inv, StateInv, StateOk, Suits, PhaseOf
    <3> QED BY <1>1, <2>1, <2>2, <3>1, <3>4 DEF Table!DiningNext, Table!PickUpForks,
                 Table!LEFT, Table!RIGHT, LEFT, RIGHT, Phil
  <2>3. CASE PhaseOf(to) = "hungry"
    <3>1. phase[i] = "thinking"
      BY <1>0, <1>3, <2>3 DEF PhaseOf
    <3> QED BY <2>1, <2>3, <3>1 DEF Table!DiningNext, Table!GetHungry, Phil
  <2>4. CASE PhaseOf(to) = "thinking"
    <3>1. phase[i] = "eating"
      BY <1>0, <1>3, <2>4 DEF PhaseOf
    <3> QED BY <2>1, <2>4, <3>1 DEF Table!DiningNext, Table!PutForksDown, Phil
  <2> QED BY <2>2, <2>3, <2>4 DEF PhaseOf
<1> QED BY <1>2, <1>3

\* A call of down() that returns, or does not.
LEMMA DownStepTo ==
    ASSUME Inv, NEW i \in Phil, NEW from \in Calls, NEW to \in Inside,
           Down(Where(from, i), i, from, to)
    PROVE  pc[i] = from /\ (pc' = pc \/ pc' = [pc EXCEPT ![i] = to])
<1>1. Where(from, i) \in Sems /\ (pc[i] = from => At(i) = Where(from, i))
  BY Apart DEF Where, At
<1> QED BY <1>1, DownStep DEF Inv

\* Every step is a step of Dining, or changes nothing that Dining sees.
LEMMA StepTable ==
    ASSUME Inv, Inv', NEW i \in Phil, Step(i)
    PROVE  [Table!DiningNext]_phase
<1> SUFFICES \E to \in Labels :
        /\ pc' = pc \/ pc' = [pc EXCEPT ![i] = to]
        /\ PhaseOf(to) = "eating" => PhaseOf(pc[i]) # "thinking"
        /\ PhaseOf(to) = "hungry" => PhaseOf(pc[i]) # "eating"
        /\ PhaseOf(to) = "thinking" => PhaseOf(pc[i]) # "hungry"
  BY PhaseStep
<1>1. CASE Think(i)
  BY <1>1 DEF Think, GoTo, Labels, Calls, PhaseOf
<1>2. CASE Take(i)
  <2>1. pc[i] = "take" /\ (pc' = pc \/ pc' = [pc EXCEPT ![i] = "declare"])
    BY <1>2, DownStepTo DEF Take, EnterMonitor, Where, Calls, Signalled, Inside
  <2> QED BY <2>1 DEF Labels, Inside, PhaseOf
<1>3. CASE Declare(i)
  <2>1. pc[i] = "declare" /\ \E to \in {"declaring", "check"} : pc' = [pc EXCEPT ![i] = to]
    BY <1>3 DEF Declare, phi_test_condvar, CondSignalNobody, CondSignal, GoTo
  <2>2. pc'[i] # "declaring" /\ pc \in [Phil -> Labels]
    BY DEF Inv, SemInv, Labels, Inside, Calls, Signalled
  <2>3. pc' = [pc EXCEPT ![i] = "check"]
    BY <2>1, <2>2
  <2> QED BY <2>1, <2>3 DEF Labels, Inside, PhaseOf
<1>4. CASE WaitForForks(i)
  BY <1>4 DEF WaitForForks, CondWait, GoTo, Labels, Calls, PhaseOf
<1>5. CASE WaitBack(i)
  <2>1. pc[i] = "waiting" /\ (pc' = pc \/ pc' = [pc EXCEPT ![i] = "check"])
    BY <1>5, DownStepTo DEF WaitBack, CondWaitBack, Where, Calls, Signalled, Inside
  <2> QED BY <2>1 DEF Labels, Inside, PhaseOf
<1>6. CASE TakeLeave(i)
  BY <1>6 DEF TakeLeave, LeaveMonitor, GoTo, Labels, Calls, PhaseOf
<1>7. CASE Put(i)
  <2>1. pc[i] = "eat" /\ (pc' = pc \/ pc' = [pc EXCEPT ![i] = "put"])
    BY <1>7, DownStepTo DEF Put, EnterMonitor, Where, Calls, Signalled, Inside
  <2> QED BY <2>1 DEF Labels, Inside, PhaseOf
<1>8. CASE PutForks(i)
  <2>1. pc[i] = "put" /\ \E to \in {"signalled left", "right"} : pc' = [pc EXCEPT ![i] = to]
    BY <1>8 DEF PutForks, phi_test_condvar, CondSignalNobody, CondSignal, GoTo
  <2> QED BY <2>1 DEF Labels, Inside, Calls, Signalled, PhaseOf
<1>9. CASE LeftBack(i)
  <2>1. pc[i] = "signalled left" /\ (pc' = pc \/ pc' = [pc EXCEPT ![i] = "right"])
    BY <1>9, DownStepTo DEF LeftBack, CondSignalBack, Where, Calls, Signalled, Inside
  <2> QED BY <2>1 DEF Labels, Inside, PhaseOf
<1>10. CASE TestRight(i)
  <2>1. pc[i] = "right" /\ \E to \in {"signalled right", "leave"} : pc' = [pc EXCEPT ![i] = to]
    BY <1>10 DEF TestRight, phi_test_condvar, CondSignalNobody, CondSignal, GoTo
  <2> QED BY <2>1 DEF Labels, Inside, Calls, Signalled, PhaseOf
<1>11. CASE RightBack(i)
  <2>1. pc[i] = "signalled right" /\ (pc' = pc \/ pc' = [pc EXCEPT ![i] = "leave"])
    BY <1>11, DownStepTo DEF RightBack, CondSignalBack, Where, Calls, Signalled, Inside
  <2> QED BY <2>1 DEF Labels, Inside, PhaseOf
<1>12. CASE PutLeave(i)
  BY <1>12 DEF PutLeave, LeaveMonitor, GoTo, Labels, PhaseOf
<1> QED BY <1>1, <1>2, <1>3, <1>4, <1>5, <1>6, <1>7, <1>8, <1>9, <1>10, <1>11, <1>12 DEF Step

\* The philosophers around the monitor keep what Dining promises: nobody eats beside a
\* neighbour that eats.
THEOREM ForksCorrect == Spec => EatsWithBothForks
<1>1. Init => Table!DiningInit
  BY DEF Init, Table!DiningInit, phase, Phil
<1>2. Inv /\ Inv' /\ [Next]_vars => [Table!DiningNext]_phase
  <2> SUFFICES ASSUME Inv, Inv', [Next]_vars PROVE [Table!DiningNext]_phase
    OBVIOUS
  <2>1. CASE Next
    BY <2>1, StepTable DEF Next
  <2>2. CASE UNCHANGED vars
    BY <2>2 DEF vars, monVars, semVars, phase
  <2> QED BY <2>1, <2>2
<1> QED BY <1>1, <1>2, InvCorrect, PTL DEF Spec, EatsWithBothForks, Table!DiningSpec
=============================================================================
