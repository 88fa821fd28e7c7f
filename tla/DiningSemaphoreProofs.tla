----------------------- MODULE DiningSemaphoreProofs -----------------------
(***************************************************************************)
(* Proofs about DiningSemaphore, for any number of philosophers and meals, *)
(* and about Stride, for any processes, priorities and width of the words. *)
(***************************************************************************)
EXTENDS DiningSemaphore, Stride, SequenceTheorems, FiniteSetTheorems, TLAPS

Labels == {"think", "take", "declare", "declared", "wait", "eat", "put", "right", "leave", "quit"}

\* The semaphore that a philosopher in down() waits for.
At(i) == IF pc[i] = "wait" THEN i ELSE mutex

\* A queue holds sleepers that wait for that semaphore, each once.
QueueOf(s) ==
    /\ \A k \in DOMAIN queue[s] : Asleep(queue[s][k]) /\ At(queue[s][k]) = s
    /\ \A k, l \in DOMAIN queue[s] : queue[s][k] = queue[s][l] => k = l

\* Where a philosopher may wait, and that who has been woken knows why.
InDownOk(i) ==
    /\ Asleep(i) => InDown(i)
    /\ InDown(i) => pc[i] \in {"take", "wait", "eat"}
    /\ InDown(i) /\ ~Asleep(i) => wakeup_flags[i] = "WT_KSEM"

\* The states are what the places in the code say.
StateOk(i) ==
    /\ pc[i] \in {"think", "take", "declare", "right", "leave", "quit"}
         => state_sema[i] = "THINKING"
    /\ pc[i] \in {"declared", "wait"} => state_sema[i] \in {"HUNGRY", "EATING"}
    /\ pc[i] \in {"eat", "put"} => state_sema[i] = "EATING"

\* Nobody is marked as eating beside a neighbour that is.
ForksOk(i) ==
    state_sema[i] = "EATING" =>
        state_sema[LEFT(i)] # "EATING" /\ state_sema[RIGHT(i)] # "EATING"

PermitOk(i) ==
    Permits(i) = IF state_sema[i] = "EATING" /\ pc[i] \in {"declared", "wait"} THEN 1 ELSE 0

Inv ==
    /\ TypeOK
    /\ pc \in [Phil -> Labels]
    /\ \A s \in Sems : QueueOf(s)
    /\ \A i \in Phil : InDownOk(i) /\ StateOk(i) /\ ForksOk(i) /\ PermitOk(i)

-----------------------------------------------------------------------------
\* The neighbours around the table.
LEMMA Neighbours ==
    ASSUME NEW i \in Phil
    PROVE  /\ LEFT(i) \in Phil /\ RIGHT(i) \in Phil
           /\ LEFT(i) # i /\ RIGHT(i) # i
           /\ LEFT(RIGHT(i)) = i /\ RIGHT(LEFT(i)) = i
<1>1. N \in Nat /\ N > 1 /\ i \in Int /\ 0 <= i /\ i < N
  BY DiningAssumption DEF Phil
<1>2. LEFT(i) = IF i = 0 THEN N - 1 ELSE i - 1
  BY <1>1 DEF LEFT
<1>3. RIGHT(i) = IF i = N - 1 THEN 0 ELSE i + 1
  BY <1>1 DEF RIGHT
<1>4. RIGHT(LEFT(i)) = i
  BY <1>1, <1>2 DEF RIGHT
<1>5. LEFT(RIGHT(i)) = i
  BY <1>1, <1>3 DEF LEFT
<1> QED BY <1>1, <1>2, <1>3, <1>4, <1>5 DEF Phil

\* What up() does to the philosophers: it leaves a permit, or wakes one that sleeps.
LEMMA UpFacts ==
    ASSUME Inv, NEW s \in Sems, Up(s)
    PROVE  \/ /\ value' = [value EXCEPT ![s] = @ + 1]
              /\ UNCHANGED <<queue, wait_state, wakeup_flags>>
           \/ \E p \in Phil :
                /\ UNCHANGED value
                /\ wait_state' = [wait_state EXCEPT ![p] = "0"]
                /\ wakeup_flags' = [wakeup_flags EXCEPT ![p] = "WT_KSEM"]
                /\ queue' = [queue EXCEPT ![s] = Tail(@)]
                /\ queue[s] # <<>>
                /\ queue[s][1] = p
                /\ Asleep(p) /\ InDown(p) /\ At(p) = s
<1>1. CASE queue[s] = <<>>
  BY <1>1 DEF Up
<1>2. CASE queue[s] # <<>>
  <2> DEFINE p == Head(queue[s])
  <2>1. queue[s] \in Seq(Phil)
    BY DEF Inv, TypeOK, SemTypeOK
  <2>2. 1 \in DOMAIN queue[s] /\ p = queue[s][1] /\ p \in Phil
    BY <2>1, <1>2, HeadTailProperties, EmptySeq, LenProperties
  <2>3. Asleep(p) /\ InDown(p) /\ At(p) = s
    BY <2>2 DEF Inv, QueueOf, InDownOk
  <2>4. UNCHANGED value /\ WakeupWait(s, p)
    BY <1>2 DEF Up
  <2> QED BY <1>2, <2>2, <2>3, <2>4 DEF WakeupWait
<1> QED BY <1>1, <1>2

\* The tail of a queue is the queue without its first member.
LEMMA TailFacts ==
    ASSUME NEW q \in Seq(Phil), q # <<>>
    PROVE  /\ Tail(q) \in Seq(Phil)
           /\ 1 \in DOMAIN q
           /\ \A k \in DOMAIN Tail(q) :
                k \in Int /\ k + 1 \in DOMAIN q /\ k + 1 # 1 /\ Tail(q)[k] = q[k + 1]
<1>1. /\ Tail(q) \in Seq(Phil)
      /\ Len(Tail(q)) = Len(q) - 1 /\ Len(q) \in Nat /\ Len(q) > 0
      /\ \A k \in 1 .. Len(Tail(q)) : Tail(q)[k] = q[k + 1]
  BY HeadTailProperties, EmptySeq, LenProperties
<1>2. DOMAIN q = 1 .. Len(q) /\ DOMAIN Tail(q) = 1 .. Len(Tail(q))
  BY <1>1, LenProperties
<1> QED BY <1>1, <1>2

\* A philosopher that is not in down() calls up() and goes on: nothing about the queues
\* and the waits is lost.
LEMMA UpKeeps ==
    ASSUME Inv, NEW s \in Sems, Up(s), NEW i \in Phil, ~InDown(i),
           NEW to \in Labels, pc' = [pc EXCEPT ![i] = to]
    PROVE  /\ SemTypeOK' /\ pc' \in [Phil -> Labels]
           /\ \A t \in Sems : QueueOf(t)'
           /\ \A p \in Phil : InDownOk(p)'
<1>1. /\ value \in [Sems -> Nat] /\ queue \in [Sems -> Seq(Phil)]
      /\ wait_state \in [Phil -> {"0", "WT_KSEM"}]
      /\ wakeup_flags \in [Phil -> {"none", "WT_INTERRUPTED", "WT_KSEM"}]
      /\ pc \in [Phil -> Labels]
  BY DEF Inv, TypeOK, SemTypeOK
<1>2. pc' \in [Phil -> Labels]
  BY <1>1
<1>3. \A t \in Sems : \A k \in DOMAIN queue[t] : queue[t][k] \in Phil /\ queue[t][k] # i
  <2> SUFFICES ASSUME NEW t \in Sems, NEW k \in DOMAIN queue[t]
               PROVE  queue[t][k] \in Phil /\ queue[t][k] # i
    OBVIOUS
  <2>1. queue[t][k] \in Phil
    BY <1>1, ElementOfSeq, LenProperties
  <2> QED BY <2>1 DEF Inv, QueueOf, InDownOk
<1>4. CASE /\ value' = [value EXCEPT ![s] = @ + 1]
           /\ UNCHANGED <<queue, wait_state, wakeup_flags>>
  <2>1. SemTypeOK'
    BY <1>1, <1>4 DEF SemTypeOK
  <2>2. \A t \in Sems : QueueOf(t)'
    BY <1>1, <1>3, <1>4 DEF Inv, QueueOf, Asleep, At
  <2>3. \A p \in Phil : InDownOk(p)'
    BY <1>1, <1>4 DEF Inv, InDownOk, Asleep, InDown
  <2> QED BY <1>2, <2>1, <2>2, <2>3
<1>5. ASSUME NEW q \in Phil,
             UNCHANGED value,
             wait_state' = [wait_state EXCEPT ![q] = "0"],
             wakeup_flags' = [wakeup_flags EXCEPT ![q] = "WT_KSEM"],
             queue' = [queue EXCEPT ![s] = Tail(@)],
             queue[s] # <<>>, queue[s][1] = q,
             Asleep(q), InDown(q), At(q) = s
      PROVE  SemTypeOK' /\ (\A t \in Sems : QueueOf(t)') /\ (\A p \in Phil : InDownOk(p)')
  <2>1. /\ Tail(queue[s]) \in Seq(Phil)
        /\ 1 \in DOMAIN queue[s]
        /\ \A k \in DOMAIN Tail(queue[s]) :
             k \in Int /\ k + 1 \in DOMAIN queue[s] /\ k + 1 # 1
               /\ Tail(queue[s])[k] = queue[s][k + 1]
    BY <1>1, <1>5, TailFacts
  <2>2. SemTypeOK'
    BY <1>1, <1>5, <2>1 DEF SemTypeOK
  <2>3. ASSUME NEW t \in Sems, t # s PROVE QueueOf(t)'
    <3>1. queue'[t] = queue[t]
      BY <1>1, <1>5, <2>3
    <3>2. \A k \in DOMAIN queue[t] : queue[t][k] # q /\ Asleep(queue[t][k]) /\ At(queue[t][k]) = t
      BY <1>5, <2>3 DEF Inv, QueueOf
    <3>3. \A k \in DOMAIN queue[t] : Asleep(queue[t][k])' /\ At(queue[t][k])' = t
      BY <1>1, <1>3, <1>5, <3>2 DEF Asleep, At
    <3> QED BY <3>1, <3>3 DEF Inv, QueueOf
  <2>4. QueueOf(s)'
    <3>1. queue'[s] = Tail(queue[s])
      BY <1>1, <1>5
    <3>2. \A k \in DOMAIN queue'[s] :
            queue'[s][k] # q /\ queue'[s][k] # i /\ queue'[s][k] \in Phil
              /\ wait_state[queue'[s][k]] # "0"
              /\ (IF pc[queue'[s][k]] = "wait" THEN queue'[s][k] ELSE mutex) = s
      <4> SUFFICES ASSUME NEW k \in DOMAIN Tail(queue[s]), NEW j \in DOMAIN queue[s],
                          j # 1, Tail(queue[s])[k] = queue[s][j]
                   PROVE  /\ queue[s][j] # q /\ queue[s][j] # i /\ queue[s][j] \in Phil
                          /\ wait_state[queue[s][j]] # "0"
                          /\ (IF pc[queue[s][j]] = "wait" THEN queue[s][j] ELSE mutex) = s
        BY <2>1, <3>1
      <4>1. QueueOf(s)
        BY DEF Inv
      <4> QED BY <1>3, <1>5, <2>1, <4>1 DEF QueueOf, Asleep, At
    <3>3. \A k \in DOMAIN queue'[s] :
            /\ wait_state'[queue'[s][k]] # "0"
            /\ (IF pc'[queue'[s][k]] = "wait" THEN queue'[s][k] ELSE mutex) = s
      BY <1>1, <1>5, <3>2 DEF Asleep, At
    <3>4. \A k, l \in DOMAIN queue'[s] : queue'[s][k] = queue'[s][l] => k = l
      BY <2>1, <3>1 DEF Inv, QueueOf
    <3> QED BY <3>3, <3>4 DEF QueueOf, Asleep, At
  <2>5. \A p \in Phil : InDownOk(p)'
    BY <1>1, <1>5 DEF Inv, InDownOk, Asleep, InDown
  <2> QED BY <2>2, <2>3, <2>4, <2>5
<1> QED BY <1>2, <1>4, <1>5, UpFacts

\* A queue with one more at its end.
LEMMA AppendFacts ==
    ASSUME NEW q \in Seq(Phil), NEW p \in Phil
    PROVE  /\ Append(q, p) \in Seq(Phil)
           /\ \A k \in DOMAIN Append(q, p) :
                \/ k \in DOMAIN q /\ Append(q, p)[k] = q[k]
                \/ k = Len(q) + 1 /\ Append(q, p)[k] = p
<1>1. /\ Append(q, p) \in Seq(Phil) /\ Len(Append(q, p)) = Len(q) + 1 /\ Len(q) \in Nat
      /\ \A k \in 1 .. Len(q) : Append(q, p)[k] = q[k]
      /\ Append(q, p)[Len(q) + 1] = p
  BY AppendProperties, LenProperties
<1>2. DOMAIN q = 1 .. Len(q) /\ DOMAIN Append(q, p) = 1 .. Len(q) + 1
  BY <1>1, LenProperties
<1> QED BY <1>1, <1>2

\* One step of a philosopher at a call of down(): it takes a permit, falls asleep, or
\* finds that it has been woken.
LEMMA DownKeeps ==
    ASSUME Inv, NEW i \in Phil, NEW from \in {"take", "wait", "eat"}, NEW to \in Labels,
           NEW s \in Sems, s = (IF from = "wait" THEN i ELSE mutex),
           Down(s, i, from, to)
    PROVE  /\ SemTypeOK' /\ pc' \in [Phil -> Labels]
           /\ \A t \in Sems : QueueOf(t)'
           /\ \A p \in Phil : InDownOk(p)'
           /\ \A p \in Phil \ {i} :
                wakeup_flags'[p] = wakeup_flags[p] /\ wait_state'[p] = wait_state[p]
           /\ pc[i] = from
           /\ \/ /\ pc' = pc /\ value' = value /\ value[s] = 0
                 /\ ~InDown(i) /\ wait_state'[i] # "0"
              \/ /\ pc' = [pc EXCEPT ![i] = to]
                 /\ \/ ~InDown(i) /\ value[s] > 0 /\ value' = [value EXCEPT ![s] = @ - 1]
                    \/ InDown(i) /\ ~Asleep(i) /\ value' = value
<1>1. /\ value \in [Sems -> Nat] /\ queue \in [Sems -> Seq(Phil)]
      /\ wait_state \in [Phil -> {"0", "WT_KSEM"}]
      /\ wakeup_flags \in [Phil -> {"none", "WT_INTERRUPTED", "WT_KSEM"}]
      /\ pc \in [Phil -> Labels] /\ pc[i] = from /\ At(i) = s
  BY DEF Inv, TypeOK, SemTypeOK, Down, At
<1>2. \A t \in Sems : \A k \in DOMAIN queue[t] :
        /\ queue[t][k] \in Phil
        /\ wait_state[queue[t][k]] # "0" /\ wakeup_flags[queue[t][k]] # "none"
        /\ (IF pc[queue[t][k]] = "wait" THEN queue[t][k] ELSE mutex) = t
  <2> SUFFICES ASSUME NEW t \in Sems, NEW k \in DOMAIN queue[t]
               PROVE  /\ queue[t][k] \in Phil
                      /\ wait_state[queue[t][k]] # "0" /\ wakeup_flags[queue[t][k]] # "none"
                      /\ (IF pc[queue[t][k]] = "wait" THEN queue[t][k] ELSE mutex) = t
    OBVIOUS
  <2>1. queue[t][k] \in Phil
    BY <1>1, ElementOfSeq, LenProperties
  <2>2. QueueOf(t)
    BY DEF Inv
  <2> QED BY <2>1, <2>2 DEF Inv, QueueOf, InDownOk, Asleep, InDown, At
<1>3. \A t \in Sems : \A k, l \in DOMAIN queue[t] : queue[t][k] = queue[t][l] => k = l
  BY DEF Inv, QueueOf
<1>4. CASE DownTakes(s, i, to)
  <2>1. /\ value' = [value EXCEPT ![s] = @ - 1] /\ value[s] > 0 /\ ~InDown(i)
        /\ pc' = [pc EXCEPT ![i] = to]
        /\ UNCHANGED <<queue, wait_state, wakeup_flags>>
    BY <1>4 DEF DownTakes, GoTo
  <2>2. SemTypeOK' /\ pc' \in [Phil -> Labels]
    BY <1>1, <2>1 DEF SemTypeOK
  <2>3. \A t \in Sems : \A k \in DOMAIN queue[t] : queue[t][k] # i
    BY <1>2, <2>1 DEF InDown
  <2>4. \A t \in Sems : QueueOf(t)'
    BY <1>1, <1>2, <1>3, <2>1, <2>3 DEF QueueOf, Asleep, At
  <2>5. \A p \in Phil : InDownOk(p)'
    BY <1>1, <2>1 DEF Inv, InDownOk, Asleep, InDown
  <2> QED BY <1>1, <2>1, <2>2, <2>4, <2>5
<1>5. CASE DownSleeps(s, i)
  <2>1. /\ ~InDown(i) /\ value[s] = 0 /\ UNCHANGED <<value, pc>>
        /\ queue' = [queue EXCEPT ![s] = Append(@, i)]
        /\ wait_state' = [wait_state EXCEPT ![i] = "WT_KSEM"]
        /\ wakeup_flags' = [wakeup_flags EXCEPT ![i] = "WT_INTERRUPTED"]
    BY <1>1, <1>5 DEF DownSleeps, WaitCurrentSet
  <2>2. /\ Append(queue[s], i) \in Seq(Phil)
        /\ \A k \in DOMAIN Append(queue[s], i) :
             \/ k \in DOMAIN queue[s] /\ Append(queue[s], i)[k] = queue[s][k]
             \/ k = Len(queue[s]) + 1 /\ Append(queue[s], i)[k] = i
    BY <1>1, AppendFacts
  <2>3. SemTypeOK' /\ pc' \in [Phil -> Labels]
    BY <1>1, <2>1, <2>2 DEF SemTypeOK
  <2>4. \A t \in Sems : \A k \in DOMAIN queue[t] : queue[t][k] # i
    BY <1>2, <2>1 DEF InDown
  <2>5. ASSUME NEW t \in Sems, t # s PROVE QueueOf(t)'
    <3>1. queue'[t] = queue[t]
      BY <1>1, <2>1, <2>5
    <3> QED BY <1>1, <1>2, <1>3, <2>1, <2>4, <3>1 DEF QueueOf, Asleep, At
  <2>6. QueueOf(s)'
    <3>1. queue'[s] = Append(queue[s], i)
      BY <1>1, <2>1
    <3>2. \A k \in DOMAIN queue'[s] :
            /\ wait_state'[queue'[s][k]] # "0"
            /\ (IF pc'[queue'[s][k]] = "wait" THEN queue'[s][k] ELSE mutex) = s
      <4> SUFFICES ASSUME NEW k \in DOMAIN Append(queue[s], i)
                   PROVE  LET p == Append(queue[s], i)[k]
                          IN  wait_state'[p] # "0" /\ (IF pc[p] = "wait" THEN p ELSE mutex) = s
        BY <2>1, <3>1
      <4>1. CASE k \in DOMAIN queue[s] /\ Append(queue[s], i)[k] = queue[s][k]
        BY <1>1, <1>2, <2>1, <2>4, <4>1
      <4>2. CASE Append(queue[s], i)[k] = i
        BY <1>1, <2>1, <4>2 DEF At
      <4> QED BY <2>2, <4>1, <4>2
    <3>3. \A k, l \in DOMAIN queue'[s] : queue'[s][k] = queue'[s][l] => k = l
      BY <1>3, <2>2, <2>4, <3>1
    <3> QED BY <3>2, <3>3 DEF QueueOf, Asleep, At
  <2>7. \A p \in Phil : InDownOk(p)'
    BY <1>1, <2>1 DEF Inv, InDownOk, Asleep, InDown
  <2> QED BY <1>1, <2>1, <2>3, <2>5, <2>6, <2>7
<1>6. CASE DownReturns(s, i, to)
  <2>1. \A t \in Sems : \A k \in DOMAIN queue[t] : queue[t][k] # i
    BY <1>2, <1>6 DEF DownReturns, Asleep
  <2>2. InDown(i) /\ ~Asleep(i) /\ wakeup_flags[i] = "WT_KSEM" /\ ~Queued(s, i)
    BY <1>6, <2>1 DEF DownReturns, Inv, InDownOk, Queued
  <2>3. /\ UNCHANGED <<queue, value, wait_state>>
        /\ wakeup_flags' = [wakeup_flags EXCEPT ![i] = "none"]
        /\ pc' = [pc EXCEPT ![i] = to]
    BY <1>6, <2>2 DEF DownReturns, GoTo
  <2>4. SemTypeOK' /\ pc' \in [Phil -> Labels]
    BY <1>1, <2>3 DEF SemTypeOK
  <2>5. \A t \in Sems : QueueOf(t)'
    BY <1>1, <1>2, <1>3, <2>1, <2>3 DEF QueueOf, Asleep, At
  <2>6. \A p \in Phil : InDownOk(p)'
    BY <1>1, <2>2, <2>3 DEF Inv, InDownOk, Asleep, InDown
  <2> QED BY <1>1, <2>2, <2>3, <2>4, <2>5, <2>6
<1> QED BY <1>4, <1>5, <1>6 DEF Down

-----------------------------------------------------------------------------
\* The number of the mutex is no philosopher's.
LEMMA MutexApart == mutex \notin Phil
  BY DEF mutex, Phil

\* What a test needs to keep the invariant, st being the states it looks at: whoever is
\* hungry in them has declared it and has no permit.
Sound(st) ==
    /\ st \in [Phil -> {"THINKING", "HUNGRY", "EATING"}]
    /\ \A k \in Phil :
         /\ st[k] = "EATING" => st[LEFT(k)] # "EATING" /\ st[RIGHT(k)] # "EATING"
         /\ pc'[k] \in {"think", "take", "declare", "right", "leave", "quit"}
              => st[k] = "THINKING"
         /\ pc'[k] \in {"declared", "wait"} => st[k] \in {"HUNGRY", "EATING"}
         /\ pc'[k] \in {"eat", "put"} => st[k] = "EATING"
         /\ Permits(k) = IF st[k] = "EATING" /\ pc'[k] \in {"declared", "wait"} THEN 1 ELSE 0

LEMMA TestKeeps ==
    ASSUME Inv, NEW i \in Phil, NEW j \in Phil, NEW st, phi_test_sema(j, st),
           pc[i] \in {"declare", "put", "right"}, NEW to \in {"declared", "right", "leave"},
           pc' = [pc EXCEPT ![i] = to], Sound(st), UNCHANGED iter
    PROVE  Inv'
<1>1. /\ value \in [Sems -> Nat] /\ pc \in [Phil -> Labels] /\ ~InDown(i) /\ j \in Sems
      /\ wait_state \in [Phil -> {"0", "WT_KSEM"}]
      /\ wakeup_flags \in [Phil -> {"none", "WT_INTERRUPTED", "WT_KSEM"}]
      /\ to \in Labels /\ iter' \in [Phil -> 0 .. TIMES]
      /\ Phil \subseteq Sems
  BY DEF Inv, TypeOK, SemTypeOK, InDownOk, Sems, Labels
<1>2. pc' \in [Phil -> Labels]
  BY <1>1
<1>3. CASE ~MayEat(j, st)
  <2>1. state_sema' = st /\ UNCHANGED <<value, queue, wait_state, wakeup_flags>>
    BY <1>3 DEF phi_test_sema
  <2>2. TypeOK'
    BY <1>1, <2>1 DEF Inv, TypeOK, SemTypeOK, Sound
  <2>3. \A s \in Sems : QueueOf(s)'
    <3>1. \A s \in Sems : \A k \in DOMAIN queue[s] : queue[s][k] \in Phil /\ queue[s][k] # i
      <4> SUFFICES ASSUME NEW s \in Sems, NEW k \in DOMAIN queue[s]
                   PROVE  queue[s][k] \in Phil /\ queue[s][k] # i
        OBVIOUS
      <4>1. queue[s][k] \in Phil
        BY ElementOfSeq, LenProperties DEF Inv, TypeOK, SemTypeOK
      <4> QED BY <1>1, <4>1 DEF Inv, QueueOf, InDownOk
    <3> QED BY <1>1, <2>1, <3>1 DEF Inv, QueueOf, Asleep, At
  <2>4. ASSUME NEW k \in Phil PROVE InDownOk(k)' /\ StateOk(k)' /\ ForksOk(k)' /\ PermitOk(k)'
    <3>1. InDownOk(k)'
      BY <1>1, <2>1 DEF Inv, InDownOk, Asleep, InDown
    <3>2. StateOk(k)' /\ ForksOk(k)'
      BY <2>1 DEF Sound, StateOk, ForksOk, LEFT, RIGHT
    <3>3. Permits(k)' = Permits(k)
      BY <1>1, <2>1 DEF Permits, InDown, Asleep
    <3>4. PermitOk(k)'
      BY <2>1, <3>3 DEF Sound, PermitOk
    <3> QED BY <3>1, <3>2, <3>4
  <2> QED BY <1>2, <2>2, <2>3, <2>4 DEF Inv
<1>4. CASE MayEat(j, st)
  <2>1. state_sema' = [st EXCEPT ![j] = "EATING"] /\ Up(j)
    BY <1>4 DEF phi_test_sema
  <2>2. /\ SemTypeOK' /\ \A s \in Sems : QueueOf(s)'
        /\ \A k \in Phil : InDownOk(k)'
    BY <1>1, <2>1, UpKeeps
  <2>3. TypeOK'
    BY <1>1, <2>1, <2>2 DEF TypeOK, Sound
  <2>4. ASSUME NEW k \in Phil PROVE StateOk(k)'
    <3>1. st[j] = "HUNGRY"
      BY <1>4 DEF MayEat
    <3> QED BY <1>2, <2>1, <3>1 DEF Sound, StateOk, Labels
  <2>5. ASSUME NEW k \in Phil PROVE ForksOk(k)'
    <3>1. /\ st \in [Phil -> {"THINKING", "HUNGRY", "EATING"}]
          /\ st[LEFT(j)] # "EATING" /\ st[RIGHT(j)] # "EATING"
          /\ st[k] = "EATING" => st[LEFT(k)] # "EATING" /\ st[RIGHT(k)] # "EATING"
      BY <1>4 DEF MayEat, Sound
    <3>2. /\ LEFT(k) \in Phil /\ RIGHT(k) \in Phil /\ LEFT(j) \in Phil /\ RIGHT(j) \in Phil
          /\ LEFT(j) # j /\ RIGHT(j) # j
          /\ LEFT(k) = j => k = RIGHT(j)
          /\ RIGHT(k) = j => k = LEFT(j)
      BY Neighbours
    <3>3. state_sema'[k] = "EATING" =>
            state_sema'[LEFT(k)] # "EATING" /\ state_sema'[RIGHT(k)] # "EATING"
      BY <2>1, <3>1, <3>2
    <3> QED BY <3>3 DEF ForksOk, LEFT, RIGHT
  <2>6. ASSUME NEW k \in Phil PROVE PermitOk(k)'
    <3>1. /\ Permits(k) = IF st[k] = "EATING" /\ pc'[k] \in {"declared", "wait"} THEN 1 ELSE 0
          /\ st[j] = "HUNGRY" /\ pc'[j] \in {"declared", "wait"}
      BY <1>2, <1>4 DEF MayEat, Sound, Labels
    <3>2. CASE /\ value' = [value EXCEPT ![j] = @ + 1]
               /\ UNCHANGED <<queue, wait_state, wakeup_flags>>
      <4>1. Permits(k)' = IF k = j THEN Permits(k) + 1 ELSE Permits(k)
        BY <1>1, <3>2 DEF Permits, InDown, Asleep
      <4> QED BY <2>1, <3>1, <4>1 DEF PermitOk, Sound
    <3>3. ASSUME NEW p \in Phil,
                 UNCHANGED value,
                 wait_state' = [wait_state EXCEPT ![p] = "0"],
                 wakeup_flags' = [wakeup_flags EXCEPT ![p] = "WT_KSEM"],
                 Asleep(p), InDown(p), At(p) = j
          PROVE  PermitOk(k)'
      <4>1. p = j /\ pc[j] = "wait" /\ j # i
        BY <1>1, <3>3, MutexApart DEF At
      <4>2. Permits(k)' = IF k = j THEN Permits(k) + 1 ELSE Permits(k)
        BY <1>1, <3>3, <4>1 DEF Permits, InDown, Asleep
      <4> QED BY <2>1, <3>1, <4>2 DEF PermitOk, Sound
    <3> QED BY <1>1, <2>1, <3>2, <3>3, UpFacts
  <2> QED BY <1>2, <2>2, <2>3, <2>4, <2>5, <2>6 DEF Inv
<1> QED BY <1>3, <1>4

\* up(&mutex) at the end of a section: whoever it wakes does not wait for forks.
LEMMA UpMutexKeeps ==
    ASSUME Inv, NEW i \in Phil,
           NEW from \in {"declared", "leave"}, NEW to \in {"wait", "think"},
           from = "declared" <=> to = "wait", UpMutex(i, from, to)
    PROVE  Inv'
<1>1. /\ value \in [Sems -> Nat] /\ pc \in [Phil -> Labels] /\ ~InDown(i)
      /\ wait_state \in [Phil -> {"0", "WT_KSEM"}]
      /\ wakeup_flags \in [Phil -> {"none", "WT_INTERRUPTED", "WT_KSEM"}]
      /\ to \in Labels /\ pc[i] = from /\ mutex \in Sems /\ mutex \notin Phil
  BY MutexApart DEF Inv, TypeOK, SemTypeOK, InDownOk, Sems, Labels, UpMutex
<1>2. Up(mutex) /\ pc' = [pc EXCEPT ![i] = to] /\ UNCHANGED <<state_sema, iter>>
  BY DEF UpMutex, GoTo
<1>3. /\ SemTypeOK' /\ pc' \in [Phil -> Labels] /\ \A s \in Sems : QueueOf(s)'
      /\ \A k \in Phil : InDownOk(k)'
  BY <1>1, <1>2, UpKeeps
<1>4. TypeOK'
  BY <1>2, <1>3 DEF Inv, TypeOK
<1>5. ASSUME NEW k \in Phil PROVE StateOk(k)' /\ ForksOk(k)'
  BY <1>1, <1>2 DEF Inv, StateOk, ForksOk, LEFT, RIGHT
<1>6. ASSUME NEW k \in Phil PROVE Permits(k)' = Permits(k)
  <2>1. CASE /\ value' = [value EXCEPT ![mutex] = @ + 1]
             /\ UNCHANGED <<queue, wait_state, wakeup_flags>>
    <3>1. value'[k] = value[k]
      BY <1>1, <2>1 DEF Sems
    <3> QED BY <1>1, <1>2, <2>1, <3>1 DEF Permits, InDown, Asleep
  <2>2. ASSUME NEW p \in Phil,
               UNCHANGED value,
               wait_state' = [wait_state EXCEPT ![p] = "0"],
               wakeup_flags' = [wakeup_flags EXCEPT ![p] = "WT_KSEM"],
               Asleep(p), InDown(p), At(p) = mutex
        PROVE  Permits(k)' = Permits(k)
    <3>1. pc[p] # "wait" /\ p # i
      BY <1>1, <2>2 DEF At
    <3> QED BY <1>1, <1>2, <2>2, <3>1 DEF Permits, InDown, Asleep
  <2> QED BY <1>1, <1>2, <2>1, <2>2, UpFacts
<1>7. ASSUME NEW k \in Phil PROVE PermitOk(k)'
  BY <1>1, <1>2, <1>6 DEF Inv, PermitOk
<1> QED BY <1>3, <1>4, <1>5, <1>7 DEF Inv

\* A call of down(): who gets past its own semaphore is marked as eating.
LEMMA DownStepKeeps ==
    ASSUME Inv, NEW i \in Phil, NEW s \in Sems,
           NEW from \in {"take", "wait", "eat"}, NEW to \in {"declare", "eat", "put"},
           \/ from = "take" /\ to = "declare" /\ s = mutex
           \/ from = "wait" /\ to = "eat" /\ s = i
           \/ from = "eat" /\ to = "put" /\ s = mutex,
           DownStep(s, i, from, to)
    PROVE  Inv' /\ (pc'[i] = "eat" => state_sema'[i] = "EATING")
<1> Down(s, i, from, to) /\ UNCHANGED <<state_sema, iter>>
  BY DEF DownStep
<1>1. /\ value \in [Sems -> Nat] /\ pc \in [Phil -> Labels]
      /\ wait_state \in [Phil -> {"0", "WT_KSEM"}]
      /\ wakeup_flags \in [Phil -> {"none", "WT_INTERRUPTED", "WT_KSEM"}]
      /\ to \in Labels /\ mutex \notin Phil /\ s = (IF from = "wait" THEN i ELSE mutex)
      /\ Phil \subseteq Sems
  BY MutexApart DEF Inv, TypeOK, SemTypeOK, Sems, Labels
<1>2. /\ SemTypeOK' /\ pc' \in [Phil -> Labels]
      /\ \A t \in Sems : QueueOf(t)'
      /\ \A p \in Phil : InDownOk(p)'
      /\ \A p \in Phil \ {i} :
           wakeup_flags'[p] = wakeup_flags[p] /\ wait_state'[p] = wait_state[p]
      /\ pc[i] = from
      /\ \/ /\ pc' = pc /\ value' = value /\ value[s] = 0
            /\ ~InDown(i) /\ wait_state'[i] # "0"
         \/ /\ pc' = [pc EXCEPT ![i] = to]
            /\ \/ ~InDown(i) /\ value[s] > 0 /\ value' = [value EXCEPT ![s] = @ - 1]
               \/ InDown(i) /\ ~Asleep(i) /\ value' = value
  BY <1>1, DownKeeps
<1>3. TypeOK'
  BY <1>2 DEF Inv, TypeOK
<1>4. \A k \in Phil : ForksOk(k)'
  BY DEF Inv, ForksOk, LEFT, RIGHT
<1>5. \A k \in Phil : PermitOk(k) /\ StateOk(k) /\ Permits(k) \in Nat
  BY <1>1 DEF Inv, Permits
<1>6. CASE pc' = pc /\ value' = value /\ value[s] = 0 /\ ~InDown(i) /\ wait_state'[i] # "0"
  <2>1. ASSUME NEW k \in Phil PROVE Permits(k)' = Permits(k)
    BY <1>1, <1>2, <1>6 DEF Permits, InDown, Asleep
  <2>2. \A k \in Phil : PermitOk(k)' /\ StateOk(k)'
    BY <1>5, <1>6, <2>1 DEF PermitOk, StateOk
  <2> QED BY <1>2, <1>3, <1>4, <1>6, <2>2 DEF Inv, StateOk
<1>7. CASE /\ pc' = [pc EXCEPT ![i] = to]
           /\ \/ ~InDown(i) /\ value[s] > 0 /\ value' = [value EXCEPT ![s] = @ - 1]
              \/ InDown(i) /\ ~Asleep(i) /\ value' = value
  <2>1. CASE from = "wait"
    <3>1. to = "eat" /\ s = i /\ pc[i] = "wait"
      BY <1>1, <1>2, <2>1
    <3>2. Permits(i) = 1 /\ value'[i] = 0 /\ state_sema[i] = "EATING"
      BY <1>1, <1>5, <1>7, <3>1 DEF Permits, PermitOk
    <3>3. ASSUME NEW k \in Phil \ {i} PROVE Permits(k)' = Permits(k)
      BY <1>1, <1>2, <1>7, <3>1 DEF Permits, InDown, Asleep
    <3>4. Permits(i)' = 0
      BY <1>1, <1>7, <3>1, <3>2 DEF Permits
    <3>5. \A k \in Phil : PermitOk(k)' /\ StateOk(k)'
      BY <1>1, <1>5, <1>7, <3>1, <3>2, <3>3, <3>4 DEF PermitOk, StateOk
    <3> QED BY <1>2, <1>3, <1>4, <3>2, <3>5 DEF Inv
  <2>2. CASE from # "wait"
    <3>1. to # "wait" /\ to # "eat" /\ s = mutex
      BY <1>1, <2>2
    <3>2. ASSUME NEW k \in Phil PROVE Permits(k)' = Permits(k)
      <4>1. value'[k] = value[k]
        BY <1>1, <1>7, <3>1
      <4> QED BY <1>1, <1>2, <1>7, <2>2, <3>1, <4>1 DEF Permits, InDown, Asleep
    <3>3. \A k \in Phil : PermitOk(k)' /\ StateOk(k)'
      BY <1>1, <1>2, <1>5, <1>7, <2>2, <3>1, <3>2 DEF PermitOk, StateOk
    <3> QED BY <1>1, <1>2, <1>3, <1>4, <1>7, <3>1, <3>3 DEF Inv
  <2> QED BY <2>1, <2>2
<1> QED BY <1>2, <1>6, <1>7

-----------------------------------------------------------------------------
LEMMA InitInv == Init => Inv
<1> SUFFICES ASSUME Init PROVE Inv
  OBVIOUS
<1>1. /\ value = [s \in Sems |-> IF s = mutex THEN 1 ELSE 0]
      /\ queue = [s \in Sems |-> <<>>]
      /\ wait_state = [i \in Phil |-> "0"] /\ wakeup_flags = [i \in Phil |-> "none"]
      /\ pc = [i \in Phil |-> "think"]
      /\ state_sema = [i \in Phil |-> "THINKING"] /\ iter = [i \in Phil |-> 0]
  BY DEF Init, SemInit
<1>2. TypeOK
  BY <1>1, DiningAssumption DEF TypeOK, SemTypeOK
<1>3. \A s \in Sems : QueueOf(s)
  BY <1>1 DEF QueueOf
<1>4. pc \in [Phil -> Labels]
  BY <1>1 DEF Labels
<1>5. ASSUME NEW i \in Phil PROVE InDownOk(i) /\ StateOk(i) /\ ForksOk(i) /\ PermitOk(i)
  <2>1. value[i] = 0
    BY <1>1, MutexApart DEF Sems
  <2> QED BY <1>1, <2>1 DEF InDownOk, StateOk, ForksOk, PermitOk, Permits, Asleep, InDown
<1> QED BY <1>2, <1>3, <1>4, <1>5 DEF Inv

\* The tests, with what they look at.
LEMMA TestSteps ==
    ASSUME Inv, NEW i \in Phil, Declare(i) \/ PutForks(i) \/ TestRight(i)
    PROVE  Inv'
<1>1. /\ value \in [Sems -> Nat] /\ pc \in [Phil -> Labels]
      /\ state_sema \in [Phil -> {"THINKING", "HUNGRY", "EATING"}]
      /\ \A k \in Phil : StateOk(k) /\ ForksOk(k) /\ PermitOk(k)
      /\ LEFT(i) \in Phil /\ RIGHT(i) \in Phil
  BY Neighbours DEF Inv, TypeOK, SemTypeOK
<1>2. CASE Declare(i)
  <2> DEFINE st == [state_sema EXCEPT ![i] = "HUNGRY"]
  <2>1. /\ phi_test_sema(i, st) /\ pc' = [pc EXCEPT ![i] = "declared"] /\ UNCHANGED iter
        /\ pc[i] = "declare"
    BY <1>2 DEF Declare, GoTo
  <2>2. \A k \in Phil : st[k] = "EATING" => state_sema[k] = "EATING"
    BY <1>1
  <2>3. \A k \in Phil : LEFT(k) \in Phil /\ RIGHT(k) \in Phil
    BY Neighbours
  <2>4. Sound(st)
    BY <1>1, <2>1, <2>2, <2>3 DEF Sound, StateOk, ForksOk, PermitOk
  <2> HIDE DEF st
  <2> QED BY <2>1, <2>4, TestKeeps
<1>3. CASE PutForks(i)
  <2> DEFINE st == [state_sema EXCEPT ![i] = "THINKING"]
  <2>1. /\ phi_test_sema(LEFT(i), st) /\ pc' = [pc EXCEPT ![i] = "right"] /\ UNCHANGED iter
        /\ pc[i] = "put"
    BY <1>3 DEF PutForks, GoTo
  <2>2. \A k \in Phil : st[k] = "EATING" => state_sema[k] = "EATING"
    BY <1>1
  <2>3. \A k \in Phil : LEFT(k) \in Phil /\ RIGHT(k) \in Phil
    BY Neighbours
  <2>4. Sound(st)
    BY <1>1, <2>1, <2>2, <2>3 DEF Sound, StateOk, ForksOk, PermitOk
  <2> HIDE DEF st
  <2> QED BY <1>1, <2>1, <2>4, TestKeeps
<1>4. CASE TestRight(i)
  <2>1. /\ phi_test_sema(RIGHT(i), state_sema) /\ pc' = [pc EXCEPT ![i] = "leave"]
        /\ UNCHANGED iter /\ pc[i] = "right"
    BY <1>4 DEF TestRight, GoTo
  <2>2. Sound(state_sema)
    BY <1>1, <2>1 DEF Sound, StateOk, ForksOk, PermitOk
  <2> QED BY <1>1, <2>1, <2>2, TestKeeps
<1> QED BY <1>2, <1>3, <1>4

LEMMA ThinkKeeps ==
    ASSUME Inv, NEW i \in Phil, Think(i)
    PROVE  Inv'
<1>1. /\ pc[i] = "think" /\ ~InDown(i)
      /\ UNCHANGED <<value, queue, wait_state, wakeup_flags, state_sema>>
      /\ pc \in [Phil -> Labels] /\ iter \in [Phil -> 0 .. TIMES]
  BY DEF Think, Inv, TypeOK, InDownOk
<1>2. PICK to \in {"take", "quit"} : pc' = [pc EXCEPT ![i] = to]
  BY DEF Think, GoTo
<1>3. iter' \in [Phil -> 0 .. TIMES]
  BY <1>1, DiningAssumption DEF Think
<1>4. pc' \in [Phil -> Labels] /\ TypeOK'
  BY <1>1, <1>2, <1>3 DEF Inv, TypeOK, SemTypeOK, Labels
<1>5. \A s \in Sems : QueueOf(s)'
  <2>1. \A s \in Sems : \A k \in DOMAIN queue[s] : queue[s][k] \in Phil /\ queue[s][k] # i
    <3> SUFFICES ASSUME NEW s \in Sems, NEW k \in DOMAIN queue[s]
                 PROVE  queue[s][k] \in Phil /\ queue[s][k] # i
      OBVIOUS
    <3>1. queue[s][k] \in Phil
      BY ElementOfSeq, LenProperties DEF Inv, TypeOK, SemTypeOK
    <3> QED BY <1>1, <3>1 DEF Inv, QueueOf, InDownOk
  <2> QED BY <1>1, <1>2, <2>1 DEF Inv, QueueOf, Asleep, At
<1>6. ASSUME NEW k \in Phil PROVE InDownOk(k)' /\ StateOk(k)' /\ ForksOk(k)' /\ PermitOk(k)'
  <2>1. InDownOk(k)' /\ StateOk(k)' /\ ForksOk(k)'
    BY <1>1, <1>2 DEF Inv, InDownOk, StateOk, ForksOk, Asleep, InDown, LEFT, RIGHT
  <2>2. Permits(k)' = Permits(k)
    BY <1>1, <1>2 DEF Permits, Asleep, InDown
  <2>3. PermitOk(k)'
    BY <1>1, <1>2, <2>2 DEF Inv, PermitOk
  <2> QED BY <2>1, <2>3
<1> QED BY <1>4, <1>5, <1>6 DEF Inv

\* Every step of a philosopher keeps the invariant.
LEMMA StepInv ==
    ASSUME Inv, NEW i \in Phil, Step(i)
    PROVE  Inv'
<1>1. i \in Sems /\ mutex \in Sems
  BY DEF Sems
<1>2. CASE Think(i)
  BY <1>2, ThinkKeeps
<1>3. CASE Take(i)
  BY <1>1, <1>3, DownStepKeeps DEF Take
<1>4. CASE Declare(i) \/ PutForks(i) \/ TestRight(i)
  BY <1>4, TestSteps
<1>5. CASE TakeLeave(i)
  BY <1>5, UpMutexKeeps DEF TakeLeave
<1>6. CASE WaitForForks(i)
  BY <1>1, <1>6, DownStepKeeps DEF WaitForForks
<1>7. CASE Put(i)
  BY <1>1, <1>7, DownStepKeeps DEF Put
<1>8. CASE PutLeave(i)
  BY <1>8, UpMutexKeeps DEF PutLeave
<1> QED BY <1>2, <1>3, <1>4, <1>5, <1>6, <1>7, <1>8 DEF Step

LEMMA NextInv == Inv /\ [Next]_vars => Inv'
<1> SUFFICES ASSUME Inv, [Next]_vars PROVE Inv'
  OBVIOUS
<1>1. CASE Next
  BY <1>1, StepInv DEF Next
<1>2. CASE UNCHANGED vars
  BY <1>2 DEF vars, semVars, Inv, TypeOK, SemTypeOK, QueueOf, InDownOk, StateOk, ForksOk,
              PermitOk, Permits, Asleep, InDown, At, LEFT, RIGHT
<1> QED BY <1>1, <1>2

\* Whoever tests a philosopher and whenever it runs, the states, the permits and the
\* queues of the semaphores agree.
THEOREM InvCorrect == Spec => []Inv
<1> QED BY InitInv, NextInv, PTL DEF Spec

\* A philosopher that is tested between its up(&mutex) and its down(&s[i]), or long
\* before it runs again, has one permit for the meal it was granted; nobody else has one.
THEOREM PermitCorrect == Spec => []PermitForEachMeal
<1>1. Inv => PermitForEachMeal
  BY DEF Inv, PermitForEachMeal, PermitOk
<1> QED BY <1>1, InvCorrect, PTL

-----------------------------------------------------------------------------
\* What a philosopher does, as the refinement sees it.
PhaseOf(l) ==
    IF l \in {"eat", "put"} THEN "eating"
    ELSE IF l \in {"take", "declare", "declared", "wait"} THEN "hungry" ELSE "thinking"

\* A step of i at which its place changes as said, and nobody else's does.
LEMMA PhaseStep ==
    ASSUME Inv, Inv', NEW i \in Phil, NEW to \in Labels,
           pc' = pc \/ pc' = [pc EXCEPT ![i] = to],
           PhaseOf(to) = "eating" => PhaseOf(pc[i]) # "thinking",
           PhaseOf(to) = "hungry" => PhaseOf(pc[i]) # "eating",
           PhaseOf(to) = "thinking" => PhaseOf(pc[i]) # "hungry"
    PROVE  [Table!DiningNext]_phase
<1>0. phase = [j \in Phil |-> PhaseOf(pc[j])]
  BY DEF phase, PhaseOf
<1>1. pc \in [Phil -> Labels] /\ LEFT(i) \in Phil /\ RIGHT(i) \in Phil /\ LEFT(i) # i /\ RIGHT(i) # i
  BY Neighbours DEF Inv
<1>2. CASE pc' = pc \/ PhaseOf(to) = PhaseOf(pc[i])
  <2>1. phase' = phase
    BY <1>0, <1>1, <1>2 DEF phase, PhaseOf
  <2> QED BY <2>1
<1>3. CASE pc' = [pc EXCEPT ![i] = to] /\ PhaseOf(to) # PhaseOf(pc[i])
  <2>1. phase' = [phase EXCEPT ![i] = PhaseOf(to)]
    BY <1>0, <1>1, <1>3 DEF phase, PhaseOf
  <2>2. CASE PhaseOf(to) = "eating"
    <3>1. phase[i] = "hungry" /\ to \in {"eat", "put"}
      BY <1>0, <1>3, <2>2 DEF PhaseOf
    <3>2. state_sema'[i] = "EATING"
      BY <1>1, <1>3, <3>1 DEF Inv, StateOk
    <3>3. state_sema'[LEFT(i)] # "EATING" /\ state_sema'[RIGHT(i)] # "EATING"
      BY <3>2 DEF Inv, ForksOk, LEFT, RIGHT
    <3>4. \A k \in {LEFT(i), RIGHT(i)} : phase[k] # "eating"
      BY <1>0, <1>1, <1>3, <3>3 DEF Inv, StateOk, PhaseOf
    <3> QED BY <1>1, <2>1, <2>2, <3>1, <3>4 DEF Table!DiningNext, Table!PickUpForks,
                 Table!LEFT, Table!RIGHT, LEFT, RIGHT, Phil
  <2>3. CASE PhaseOf(to) = "hungry"
    <3>1. phase[i] = "thinking"
      BY <1>0, <1>3, <2>3 DEF PhaseOf
    <3> QED BY <2>1, <2>3, <3>1 DEF Table!DiningNext, Table!GetHungry, Phil
  <2>4. CASE PhaseOf(to) = "thinking"
    <3>1. phase[i] = "eating"
      BY <1>0, <1>3, <2>4 DEF PhaseOf
    <3> QED BY <2>1, <2>4, <3>1 DEF Table!DiningNext, Table!PutForksDown, Phil
  <2> QED BY <2>2, <2>3, <2>4 DEF PhaseOf
<1> QED BY <1>2, <1>3

\* A call of down() that returns, or does not.
LEMMA DownStepTo ==
    ASSUME Inv, NEW i \in Phil, NEW s \in Sems, NEW from \in {"take", "wait", "eat"},
           NEW to \in Labels, s = (IF from = "wait" THEN i ELSE mutex),
           DownStep(s, i, from, to)
    PROVE  pc[i] = from /\ (pc' = pc \/ pc' = [pc EXCEPT ![i] = to])
  BY DownKeeps DEF DownStep

\* Every step is a step of Dining, or changes nothing that Dining sees.
LEMMA StepTable ==
    ASSUME Inv, Inv', NEW i \in Phil, Step(i)
    PROVE  [Table!DiningNext]_phase
<1> SUFFICES \E to \in Labels :
        /\ pc' = pc \/ pc' = [pc EXCEPT ![i] = to]
        /\ PhaseOf(to) = "eating" => PhaseOf(pc[i]) # "thinking"
        /\ PhaseOf(to) = "hungry" => PhaseOf(pc[i]) # "eating"
        /\ PhaseOf(to) = "thinking" => PhaseOf(pc[i]) # "hungry"
  BY PhaseStep
<1>1. i \in Sems /\ mutex \in Sems
  BY DEF Sems
<1>2. CASE Think(i)
  BY <1>2 DEF Think, GoTo, Labels, PhaseOf
<1>3. CASE Take(i)
  <2>1. pc[i] = "take" /\ (pc' = pc \/ pc' = [pc EXCEPT ![i] = "declare"])
    BY <1>1, <1>3, DownStepTo DEF Take, Labels
  <2> QED BY <2>1 DEF Labels, PhaseOf
<1>4. CASE Declare(i)
  BY <1>4 DEF Declare, GoTo, Labels, PhaseOf
<1>5. CASE TakeLeave(i)
  BY <1>5 DEF TakeLeave, UpMutex, GoTo, Labels, PhaseOf
<1>6. CASE WaitForForks(i)
  <2>1. pc[i] = "wait" /\ (pc' = pc \/ pc' = [pc EXCEPT ![i] = "eat"])
    BY <1>1, <1>6, DownStepTo DEF WaitForForks, Labels
  <2> QED BY <2>1 DEF Labels, PhaseOf
<1>7. CASE Put(i)
  <2>1. pc[i] = "eat" /\ (pc' = pc \/ pc' = [pc EXCEPT ![i] = "put"])
    BY <1>1, <1>7, DownStepTo DEF Put, Labels
  <2> QED BY <2>1 DEF Labels, PhaseOf
<1>8. CASE PutForks(i)
  BY <1>8 DEF PutForks, GoTo, Labels, PhaseOf
<1>9. CASE TestRight(i)
  BY <1>9 DEF TestRight, GoTo, Labels, PhaseOf
<1>10. CASE PutLeave(i)
  BY <1>10 DEF PutLeave, UpMutex, GoTo, Labels, PhaseOf
<1> QED BY <1>2, <1>3, <1>4, <1>5, <1>6, <1>7, <1>8, <1>9, <1>10 DEF Step

\* The philosophers with semaphores keep what Dining promises: nobody eats beside a
\* neighbour that eats.
THEOREM ForksCorrect == Spec => EatsWithBothForks
<1>1. Init => Table!DiningInit
  BY DEF Init, Table!DiningInit, phase, Phil
<1>2. Inv /\ Inv' /\ [Next]_vars => [Table!DiningNext]_phase
  <2> SUFFICES ASSUME Inv, Inv', [Next]_vars PROVE [Table!DiningNext]_phase
    OBVIOUS
  <2>1. CASE Next
    BY <2>1, StepTable DEF Next
  <2>2. CASE UNCHANGED vars
    BY <2>2 DEF vars, semVars, phase
  <2> QED BY <2>1, <2>2
<1> QED BY <1>1, <1>2, InvCorrect, PTL DEF Spec, EatsWithBothForks, Table!DiningSpec

-----------------------------------------------------------------------------
\* The stride scheduler, for any number of processes and any width of the strides.
NextCall(t, x) == Descend[t]

CallLoop == INSTANCE Passes WITH Step <- NextCall

\* The pointers of the processes in M make trees with the roots R, whose parents are
\* not looked at.
Forest(h, M, R) ==
    /\ h \in Heap /\ M \in SUBSET Proc /\ R \in SUBSET M
    /\ \A p \in M \ R : h.parent[p] \in M
    /\ \A p \in M :
         /\ h.left[p] \in (M \ R) \cup {NULL} /\ h.right[p] \in (M \ R) \cup {NULL}
         /\ h.left[p] = h.right[p] => h.left[p] = NULL
    /\ \A p \in M, c \in M \ R : h.parent[c] = p <=> h.left[p] = c \/ h.right[p] = c
    /\ \A X \in SUBSET (M \ R) : X # {} => \E p \in X : h.parent[p] \notin X

\* o orders the trees: nobody is smaller than the one above it.
Ordered(h, M, R, o) == \A c \in M \ R : o[h.parent[c]] <= o[c]

LEMMA NullIsNoProc == NULL \notin Proc
BY StrideAssumption

\* The fields of heaps.
LEMMA HeapFields ==
    ASSUME NEW h \in Heap
    PROVE  /\ h.root \in Link /\ h.left \in [Proc -> Link] /\ h.right \in [Proc -> Link]
           /\ h.parent \in [Proc -> Link]
BY DEF Heap

LEMMA ClearFacts ==
    ASSUME NEW h \in Heap, NEW p \in Proc, NEW g, g = Clear(h, p)
    PROVE  /\ g \in Heap /\ g.root = h.root
           /\ \A q \in Proc : /\ g.left[q] = IF q = p THEN NULL ELSE h.left[q]
                              /\ g.right[q] = IF q = p THEN NULL ELSE h.right[q]
                              /\ g.parent[q] = IF q = p THEN NULL ELSE h.parent[q]
<1>1. PICK l \in [Proc -> Link], r \in [Proc -> Link], f \in [Proc -> Link] :
         l = h.left /\ r = h.right /\ f = h.parent
  BY HeapFields
<1>2. g = [h EXCEPT !.left = [l EXCEPT ![p] = NULL], !.right = [r EXCEPT ![p] = NULL],
                    !.parent = [f EXCEPT ![p] = NULL]]
  BY <1>1 DEF Clear
<1>3. /\ [l EXCEPT ![p] = NULL] \in [Proc -> Link] /\ [r EXCEPT ![p] = NULL] \in [Proc -> Link]
      /\ [f EXCEPT ![p] = NULL] \in [Proc -> Link]
  BY DEF Link
<1>4. /\ g \in Heap /\ g.root = h.root
      /\ g.left = [l EXCEPT ![p] = NULL] /\ g.right = [r EXCEPT ![p] = NULL]
      /\ g.parent = [f EXCEPT ![p] = NULL]
  BY <1>2, <1>3 DEF Heap
<1> QED BY <1>1, <1>4

LEMMA HangRoot ==
    ASSUME NEW h \in Heap, NEW c \in Link, NEW g, g = Hang(h, NULL, c)
    PROVE  /\ g \in Heap /\ g.root = c /\ g.left = h.left /\ g.right = h.right
           /\ g.parent = h.parent
BY DEF Hang, Heap

IsLinked(g, h, x, c) ==
    /\ g \in Heap /\ g.root = h.root /\ g.right = h.right
    /\ \A q \in Proc : /\ g.left[q] = IF q = x THEN c ELSE h.left[q]
                       /\ g.parent[q] = IF q = c THEN x ELSE h.parent[q]

LEMMA HangBelow ==
    ASSUME NEW h \in Heap, NEW x \in Proc, NEW c \in Proc
    PROVE  IsLinked(Hang(h, x, c), h, x, c)
<1> DEFINE g == Hang(h, x, c)
<1>1. PICK l \in [Proc -> Link], f \in [Proc -> Link] : l = h.left /\ f = h.parent
  BY HeapFields
<1>2. g = [h EXCEPT !.left = [l EXCEPT ![x] = c], !.parent = [f EXCEPT ![c] = x]]
  BY <1>1, NullIsNoProc DEF Hang
<1>3. [l EXCEPT ![x] = c] \in [Proc -> Link] /\ [f EXCEPT ![c] = x] \in [Proc -> Link]
  BY DEF Link
<1>4. /\ g \in Heap /\ g.root = h.root /\ g.right = h.right
      /\ g.left = [l EXCEPT ![x] = c] /\ g.parent = [f EXCEPT ![c] = x]
  BY <1>2, <1>3 DEF Heap
<1> QED BY <1>1, <1>4 DEF IsLinked

LEMMA HangNothing ==
    ASSUME NEW h \in Heap, NEW x \in Proc, NEW g, g = Hang(h, x, NULL)
    PROVE  /\ g \in Heap /\ g.root = h.root /\ g.right = h.right /\ g.parent = h.parent
           /\ \A q \in Proc : g.left[q] = IF q = x THEN NULL ELSE h.left[q]
<1>1. PICK l \in [Proc -> Link] : l = h.left
  BY HeapFields
<1>2. g = [h EXCEPT !.left = [l EXCEPT ![x] = NULL]]
  BY <1>1, NullIsNoProc DEF Hang
<1>3. [l EXCEPT ![x] = NULL] \in [Proc -> Link]
  BY DEF Link
<1>4. /\ g \in Heap /\ g.root = h.root /\ g.right = h.right /\ g.parent = h.parent
      /\ g.left = [l EXCEPT ![x] = NULL]
  BY <1>2, <1>3 DEF Heap
<1> QED BY <1>1, <1>4

LEMMA TurnFacts ==
    ASSUME NEW h \in Heap, NEW p \in Proc, NEW g, g = Turn(h, p)
    PROVE  /\ g \in Heap /\ g.root = h.root /\ g.parent = h.parent
           /\ \A q \in Proc : /\ g.left[q] = IF q = p THEN NULL ELSE h.left[q]
                              /\ g.right[q] = IF q = p THEN h.left[p] ELSE h.right[q]
<1>1. PICK l \in [Proc -> Link], r \in [Proc -> Link] : l = h.left /\ r = h.right
  BY HeapFields
<1>2. g = [h EXCEPT !.left = [l EXCEPT ![p] = NULL], !.right = [r EXCEPT ![p] = l[p]]]
  BY <1>1 DEF Turn
<1>3. [l EXCEPT ![p] = NULL] \in [Proc -> Link] /\ [r EXCEPT ![p] = l[p]] \in [Proc -> Link]
  BY DEF Link
<1>4. /\ g \in Heap /\ g.root = h.root /\ g.parent = h.parent
      /\ g.left = [l EXCEPT ![p] = NULL] /\ g.right = [r EXCEPT ![p] = l[p]]
  BY <1>2, <1>3 DEF Heap
<1> QED BY <1>1, <1>4

-----------------------------------------------------------------------------
\* The tree of c gets below x, on its left, when x is in another tree: that of some D
\* which is closed upwards.
LEMMA LinkKeeps ==
    ASSUME NEW h, NEW M, NEW R, Forest(h, M, R), NEW x \in M, NEW c \in R, NEW g \in Heap,
           NEW D \in SUBSET M, x \in D, c \notin D, \A d \in D \ R : h.parent[d] \in D,
           h.left[x] = NULL,
           \A q \in M : /\ g.left[q] = IF q = x THEN c ELSE h.left[q]
                        /\ g.right[q] = h.right[q]
                        /\ g.parent[q] = IF q = c THEN x ELSE h.parent[q]
    PROVE  Forest(g, M, R \ {c})
<1>1. /\ M \in SUBSET Proc /\ R \in SUBSET M /\ NULL \notin M /\ x # c /\ c \in M
      /\ R \ {c} \in SUBSET M /\ M \ (R \ {c}) = (M \ R) \cup {c}
  BY NullIsNoProc DEF Forest
<1>2. \A p \in M \ (R \ {c}) : g.parent[p] \in M
  BY <1>1 DEF Forest
<1>3. ASSUME NEW p \in M
      PROVE  /\ g.left[p] \in (M \ (R \ {c})) \cup {NULL}
             /\ g.right[p] \in (M \ (R \ {c})) \cup {NULL}
             /\ g.left[p] = g.right[p] => g.left[p] = NULL
  BY <1>1 DEF Forest
<1>4. ASSUME NEW p \in M, NEW d \in M \ (R \ {c})
      PROVE  g.parent[d] = p <=> g.left[p] = d \/ g.right[p] = d
  <2>1. CASE d = c
    <3>1. h.left[p] # c /\ h.right[p] # c
      BY <1>1 DEF Forest
    <3> QED BY <1>1, <2>1, <3>1
  <2>2. CASE d # c
    <3>1. d \in M \ R /\ d # NULL
      BY <1>1, <2>2
    <3>2. h.parent[d] = p <=> h.left[p] = d \/ h.right[p] = d
      BY <3>1 DEF Forest
    <3> QED BY <1>1, <2>2, <3>1, <3>2
  <2> QED BY <2>1, <2>2
<1>5. ASSUME NEW X \in SUBSET (M \ (R \ {c})), X # {}, \A p \in X : g.parent[p] \in X
      PROVE  FALSE
  <2>1. CASE c \notin X
    <3>1. X \in SUBSET (M \ R) /\ \A p \in X : h.parent[p] \in X
      BY <1>1, <1>5, <2>1
    <3> QED BY <1>5, <3>1 DEF Forest
  <2>2. CASE c \in X
    <3>1. x \in X
      BY <1>1, <1>5, <2>2
    <3>2. x \in X \cap (D \ R)
      BY <1>1, <1>5, <3>1
    <3>3. \A p \in X \cap (D \ R) : h.parent[p] \in X \cap D
      BY <1>1, <1>5
    <3>4. X \cap (D \ R) = X \cap D
      BY <1>1, <1>5
    <3>5. X \cap (D \ R) \in SUBSET (M \ R)
      BY <1>1
    <3> QED BY <3>2, <3>3, <3>4, <3>5 DEF Forest
  <2> QED BY <2>1, <2>2
<1> QED BY <1>1, <1>2, <1>3, <1>4, <1>5 DEF Forest

\* What was on the left of p gets to its right, and what was there becomes a root.
LEMMA TurnKeeps ==
    ASSUME NEW h, NEW M, NEW R, Forest(h, M, R), NEW p \in M, NEW g \in Heap,
           g.parent = h.parent,
           \A q \in M : /\ g.left[q] = IF q = p THEN NULL ELSE h.left[q]
                        /\ g.right[q] = IF q = p THEN h.left[p] ELSE h.right[q]
    PROVE  Forest(g, M, R \cup ({h.right[p]} \ {NULL}))
<1> DEFINE S == R \cup ({h.right[p]} \ {NULL})
<1>1. /\ M \in SUBSET Proc /\ R \in SUBSET M /\ NULL \notin M
      /\ S \in SUBSET M /\ M \ S \subseteq M \ R
      /\ h.right[p] \in (M \ R) \cup {NULL}
  BY NullIsNoProc DEF Forest
<1>2. \A q \in M \ S : g.parent[q] \in M
  BY <1>1 DEF Forest
<1>3. ASSUME NEW q \in M, q # p
      PROVE  h.left[q] # h.right[p] \/ h.right[p] = NULL
  <2>1. ASSUME h.right[p] # NULL, h.left[q] = h.right[p] PROVE FALSE
    <3>1. PICK c \in M \ R : c = h.right[p]
      BY <1>1, <2>1
    <3>2. h.parent[c] = p /\ h.parent[c] = q
      BY <2>1, <3>1 DEF Forest
    <3> QED BY <1>3, <3>2
  <2> QED BY <2>1
<1>4. ASSUME NEW q \in M, q # p
      PROVE  h.right[q] # h.right[p] \/ h.right[p] = NULL
  <2>1. ASSUME h.right[p] # NULL, h.right[q] = h.right[p] PROVE FALSE
    <3>1. PICK c \in M \ R : c = h.right[p]
      BY <1>1, <2>1
    <3>2. h.parent[c] = p /\ h.parent[c] = q
      BY <2>1, <3>1 DEF Forest
    <3> QED BY <1>4, <3>2
  <2> QED BY <2>1
<1>5. ASSUME NEW q \in M
      PROVE  /\ g.left[q] \in (M \ S) \cup {NULL} /\ g.right[q] \in (M \ S) \cup {NULL}
             /\ g.left[q] = g.right[q] => g.left[q] = NULL
  <2>1. /\ h.left[q] \in (M \ R) \cup {NULL} /\ h.right[q] \in (M \ R) \cup {NULL}
        /\ h.left[q] = h.right[q] => h.left[q] = NULL
    BY DEF Forest
  <2>2. CASE q = p
    BY <2>1, <2>2
  <2>3. CASE q # p
    BY <1>3, <1>4, <2>1, <2>3
  <2> QED BY <2>2, <2>3
<1>6. ASSUME NEW q \in M, NEW c \in M \ S
      PROVE  g.parent[c] = q <=> g.left[q] = c \/ g.right[q] = c
  <2>1. h.parent[c] = q <=> h.left[q] = c \/ h.right[q] = c
    BY <1>1 DEF Forest
  <2>2. c # NULL /\ c # h.right[p]
    BY <1>1
  <2>3. CASE q = p
    BY <2>1, <2>2, <2>3
  <2>4. CASE q # p
    BY <2>1, <2>4
  <2> QED BY <2>3, <2>4
<1>7. ASSUME NEW X \in SUBSET (M \ S), X # {} PROVE \E q \in X : g.parent[q] \notin X
  <2>1. X \in SUBSET (M \ R)
    BY <1>1
  <2> QED BY <1>7, <2>1 DEF Forest
<1> HIDE DEF S
<1>8. Forest(g, M, S)
  BY <1>1, <1>2, <1>5, <1>6, <1>7 DEF Forest
<1> QED BY <1>8 DEF S

-----------------------------------------------------------------------------
\* What merge is called with: two trees over M, one of which may be empty, and, if
\* sorted is true, no more disorder than o has.
MergeArgs(s, h, a, b, M, o, sorted) ==
    /\ s \in [Proc -> Words] /\ a \in Link /\ b \in Link /\ (a = b => a = NULL)
    /\ Forest(h, M, {a, b} \ {NULL})
    /\ o \in [Proc -> Nat]
    /\ sorted => /\ \A p, q \in M : Before(s, p, q) <=> o[p] < o[q]
                 /\ Ordered(h, M, {a, b} \ {NULL}, o)

\* The roots of the trees while D are the processes merged so far.
Roots(t, D) == ({t.a, t.b} \cup (IF D = {} THEN {} ELSE {t.heap.root})) \ {NULL}

\* What the calls of merge find: D is closed upwards, up to the root.
CallFinds(t, D, s, h, a, b, M) ==
    /\ t \in Calls /\ t.stride = s
    /\ D \in SUBSET M
    /\ t.a \in (M \ D) \cup {NULL} /\ t.b \in (M \ D) \cup {NULL} /\ (t.a = t.b => t.a = NULL)
    /\ Forest(t.heap, M, Roots(t, D))
    /\ D = {} => t.at = NULL /\ t.a = a /\ t.b = b /\ t.heap = h
    /\ D # {} => /\ t.at \in D /\ t.heap.left[t.at] = NULL
                 /\ t.heap.root \in D /\ t.heap.root \in {a, b}
                 /\ t.heap.parent[t.heap.root] = h.parent[t.heap.root]
                 /\ \A d \in D \ {t.heap.root} : t.heap.parent[d] \in D

CallOrdered(t, D, M, o) ==
    /\ Ordered(t.heap, M, Roots(t, D), o)
    /\ D # {} => \A x \in {t.a, t.b} \ {NULL} : o[t.at] <= o[x]

LEMMA CallFields ==
    ASSUME NEW t \in Calls
    PROVE  /\ t.stride \in [Proc -> Words] /\ t.heap \in Heap
           /\ t.at \in Link /\ t.a \in Link /\ t.b \in Link
BY DEF Calls

\* A call that finds two trees: p is the smaller root, q the other, and u is what it
\* leaves for the next call.
LEMMA DescendFacts ==
    ASSUME NEW t \in Calls, t.a # NULL, t.b # NULL
    PROVE  \E p \in Proc, q \in Proc, g \in Heap, u \in Calls :
              /\ u = Descend[t] /\ u.stride = t.stride /\ u.heap = g /\ u.at = p
              /\ g = Turn(Hang(t.heap, t.at, p), p)
              /\ IF Before(t.stride, t.a, t.b) THEN p = t.a /\ q = t.b
                                               ELSE p = t.b /\ q = t.a
              /\ IF p = t.a THEN u.a = t.heap.right[p] /\ u.b = q
                            ELSE u.a = q /\ u.b = t.heap.right[p]
<1>1. PICK p, q : /\ IF Before(t.stride, t.a, t.b) THEN p = t.a /\ q = t.b
                                                   ELSE p = t.b /\ q = t.a
                  /\ p = IF Before(t.stride, t.a, t.b) THEN t.a ELSE t.b
  OBVIOUS
<1>2. p \in Proc /\ q \in Proc /\ t.heap \in Heap /\ t.at \in Link
  BY <1>1, CallFields DEF Link
<1>3. PICK f : f = Hang(t.heap, t.at, p)
  OBVIOUS
<1>4. f \in Heap
  <2>1. CASE t.at = NULL
    BY <1>2, <1>3, <2>1, HangRoot DEF Link
  <2>2. CASE t.at # NULL
    BY <1>2, <1>3, <2>2, HangBelow DEF Link, IsLinked
  <2> QED BY <2>1, <2>2
<1>5. PICK g : g = Turn(f, p)
  OBVIOUS
<1>6. g \in Heap
  BY <1>2, <1>4, <1>5, TurnFacts
<1>7. PICK below \in Link : below = t.heap.right[p]
  BY <1>2, HeapFields
<1>8. PICK u : u = [t EXCEPT !.heap = g, !.at = p,
                             !.a = IF p = t.a THEN below ELSE t.a,
                             !.b = IF p = t.a THEN t.b ELSE below]
  OBVIOUS
<1>9. u = Descend[t]
  <2>1. Descend[t] =
            LET pp == IF Before(t.stride, t.a, t.b) THEN t.a ELSE t.b
                bb == t.heap.right[pp]
            IN  IF NULL \in {t.a, t.b} THEN t
                ELSE [t EXCEPT !.heap = Turn(Hang(t.heap, t.at, pp), pp), !.at = pp,
                               !.a = IF pp = t.a THEN bb ELSE t.a,
                               !.b = IF pp = t.a THEN t.b ELSE bb]
    BY DEF Descend
  <2>2. Descend[t] = [t EXCEPT !.heap = Turn(Hang(t.heap, t.at, p), p), !.at = p,
                               !.a = IF p = t.a THEN t.heap.right[p] ELSE t.a,
                               !.b = IF p = t.a THEN t.b ELSE t.heap.right[p]]
    BY <1>1, <2>1
  <2> QED BY <1>3, <1>5, <1>7, <1>8, <2>2
<1>10. /\ u \in Calls /\ u.stride = t.stride /\ u.heap = g /\ u.at = p
       /\ u.a = IF p = t.a THEN below ELSE t.a
       /\ u.b = IF p = t.a THEN t.b ELSE below
  BY <1>2, <1>6, <1>8 DEF Calls, Link
<1>11. IF p = t.a THEN u.a = t.heap.right[p] /\ u.b = q
                  ELSE u.a = q /\ u.b = t.heap.right[p]
  BY <1>1, <1>7, <1>10
<1> QED BY <1>1, <1>2, <1>3, <1>5, <1>6, <1>9, <1>10, <1>11

\* A call keeps what the next one is to find, with p among the merged ones.
LEMMA DescendKeeps ==
    ASSUME NEW s, NEW h, NEW a, NEW b, NEW M, NEW o, NEW sorted,
           MergeArgs(s, h, a, b, M, o, sorted),
           NEW t, NEW D, CallFinds(t, D, s, h, a, b, M),
           sorted => CallOrdered(t, D, M, o),
           t.a # NULL, t.b # NULL
    PROVE  \E p \in M \ D : /\ CallFinds(Descend[t], D \cup {p}, s, h, a, b, M)
                            /\ sorted => CallOrdered(Descend[t], D \cup {p}, M, o)
<1>1. PICK p \in Proc, q \in Proc, g \in Heap, u \in Calls :
              /\ u = Descend[t] /\ u.stride = t.stride /\ u.heap = g /\ u.at = p
              /\ g = Turn(Hang(t.heap, t.at, p), p)
              /\ IF Before(t.stride, t.a, t.b) THEN p = t.a /\ q = t.b
                                               ELSE p = t.b /\ q = t.a
              /\ IF p = t.a THEN u.a = t.heap.right[p] /\ u.b = q
                            ELSE u.a = q /\ u.b = t.heap.right[p]
  BY DescendFacts DEF CallFinds
<1>2. PICK f : f = t.heap
  OBVIOUS
<1>3. PICK R : R = Roots(t, D)
  OBVIOUS
<1>4. /\ Forest(f, M, R) /\ f \in Heap /\ M \in SUBSET Proc /\ NULL \notin M
      /\ D \in SUBSET M /\ t.at \in Link
  BY <1>2, <1>3, NullIsNoProc DEF CallFinds, Forest, Calls
<1>5. /\ p \in M \ D /\ q \in M \ D /\ p # q /\ {t.a, t.b} = {p, q}
      /\ p \in R /\ q \in R
  BY <1>1, <1>3, <1>4 DEF CallFinds, Roots
<1>6. R = {p, q} \cup (IF D = {} THEN {} ELSE {f.root})
  BY <1>2, <1>3, <1>4, <1>5 DEF CallFinds, Roots
\* What was on the right of p is a root then.
<1>7. PICK below : below = f.right[p]
  OBVIOUS
<1>8. below \in (M \ R) \cup {NULL} /\ below # p /\ below # q
  BY <1>4, <1>5, <1>7 DEF Forest
<1>9. below \notin D
  <2>1. ASSUME below \in D PROVE FALSE
    <3>1. below # f.root /\ below \in M \ R
      BY <1>4, <1>6, <1>8, <2>1
    <3>2. f.parent[below] \in D
      BY <1>2, <2>1, <3>1 DEF CallFinds
    <3>3. f.parent[below] = p
      BY <1>4, <1>5, <1>7, <3>1 DEF Forest
    <3> QED BY <1>5, <3>2, <3>3
  <2> QED BY <2>1
<1>10. {u.a, u.b} = {below, q} /\ (u.a = u.b => u.a = NULL)
  BY <1>1, <1>2, <1>7, <1>8
<1>11. PICK e : e = Hang(f, t.at, p)
  OBVIOUS
\* The heap after Hang and Turn.
<1>12. /\ e \in Heap /\ e.right = f.right
       /\ D = {} => e.root = p /\ e.left = f.left /\ e.parent = f.parent
       /\ D # {} => /\ e.root = f.root
                    /\ \A x \in Proc : /\ e.left[x] = IF x = t.at THEN p ELSE f.left[x]
                                       /\ e.parent[x] = IF x = p THEN t.at ELSE f.parent[x]
  <2>1. CASE D = {}
    <3>1. t.at = NULL
      BY <2>1 DEF CallFinds
    <3> QED BY <1>1, <1>4, <1>11, <2>1, <3>1, HangRoot DEF Link
  <2>2. CASE D # {}
    <3>1. t.at \in Proc
      BY <1>4, <2>2 DEF CallFinds
    <3>2. PICK y \in Proc : y = t.at
      BY <3>1
    <3>3. f \in Heap /\ e = Hang(f, y, p)
      BY <1>4, <1>11, <3>2
    <3>4. IsLinked(e, f, y, p)
      BY <3>3, HangBelow
    <3> QED BY <2>2, <3>2, <3>4 DEF IsLinked
  <2> QED BY <2>1, <2>2
<1>13. /\ g = Turn(e, p) /\ g.root = e.root /\ g.parent = e.parent
       /\ \A x \in Proc : /\ g.left[x] = IF x = p THEN NULL ELSE e.left[x]
                          /\ g.right[x] = IF x = p THEN e.left[p] ELSE e.right[x]
  <2>1. g = Turn(e, p)
    BY <1>1, <1>2, <1>11
  <2> QED BY <1>1, <1>12, <2>1, TurnFacts
<1>14. PICK Q : Q = IF D = {} THEN R ELSE R \ {p}
  OBVIOUS
<1>15. Forest(e, M, Q)
  <2>1. CASE D = {}
    <3>1. \A x \in M : e.left[x] = f.left[x] /\ e.right[x] = f.right[x] /\ e.parent[x] = f.parent[x]
      BY <1>12, <2>1
    <3> QED BY <1>4, <1>12, <1>14, <2>1, <3>1 DEF Forest
  <2>2. CASE D # {}
    <3>1. t.at \in M /\ t.at \in D /\ f.left[t.at] = NULL
      BY <1>2, <1>4, <2>2 DEF CallFinds
    <3>2. \A d \in D \ R : f.parent[d] \in D
      BY <1>2, <1>6, <2>2 DEF CallFinds
    <3>3. \A x \in M : /\ e.left[x] = IF x = t.at THEN p ELSE f.left[x]
                       /\ e.right[x] = f.right[x]
                       /\ e.parent[x] = IF x = p THEN t.at ELSE f.parent[x]
      BY <1>4, <1>12, <2>2
    <3>4. Forest(e, M, R \ {p})
      BY <1>4, <1>5, <1>12, <3>1, <3>2, <3>3, LinkKeeps
    <3> QED BY <1>14, <2>2, <3>4
  <2> QED BY <2>1, <2>2
<1>16. e.right[p] = below
  BY <1>7, <1>12
<1>17. Forest(g, M, Q \cup ({below} \ {NULL}))
  <2>1. \A x \in M : /\ g.left[x] = IF x = p THEN NULL ELSE e.left[x]
                     /\ g.right[x] = IF x = p THEN e.left[p] ELSE e.right[x]
    BY <1>4, <1>13
  <2>2. p \in M /\ g.parent = e.parent
    BY <1>5, <1>13
  <2>3. Forest(g, M, Q \cup ({e.right[p]} \ {NULL}))
    BY <1>1, <1>15, <2>1, <2>2, TurnKeeps
  <2> QED BY <1>16, <2>3
<1>18. Roots(u, D \cup {p}) = Q \cup ({below} \ {NULL})
  <2>1. Roots(u, D \cup {p}) = ({below, q} \cup {g.root}) \ {NULL}
    <3>1. Roots(u, D \cup {p}) = ({u.a, u.b} \cup {u.heap.root}) \ {NULL}
      BY DEF Roots
    <3> QED BY <1>1, <1>10, <3>1
  <2>2. q # NULL /\ p # NULL
    BY <1>4, <1>5
  <2>3. CASE D = {}
    <3>1. g.root = p /\ Q = {p, q}
      BY <1>6, <1>12, <1>13, <1>14, <2>3
    <3> QED BY <2>1, <2>2, <3>1
  <2>4. CASE D # {}
    <3>1. g.root = f.root /\ f.root \in D /\ f.root # NULL /\ f.root # p
      BY <1>2, <1>4, <1>5, <1>12, <1>13, <2>4 DEF CallFinds
    <3>2. Q = {q, f.root}
      BY <1>5, <1>6, <1>14, <2>4, <3>1
    <3> QED BY <2>1, <2>2, <3>1, <3>2
  <2> QED BY <2>3, <2>4
<1>19. /\ g.root \in D \cup {p} /\ g.root \in {a, b} /\ g.parent[g.root] = h.parent[g.root]
       /\ \A d \in (D \cup {p}) \ {g.root} : g.parent[d] \in D \cup {p}
       /\ g.left[p] = NULL
  <2>1. CASE D = {}
    <3>1. g.root = p /\ g.parent = h.parent /\ {t.a, t.b} = {a, b}
      BY <1>2, <1>12, <1>13, <2>1 DEF CallFinds
    <3> QED BY <1>1, <1>5, <1>13, <2>1, <3>1
  <2>2. CASE D # {}
    <3>1. /\ t.at \in D /\ f.root \in D /\ f.root \in {a, b}
          /\ f.parent[f.root] = h.parent[f.root]
          /\ \A d \in D \ {f.root} : f.parent[d] \in D
      BY <1>2, <2>2 DEF CallFinds
    <3>2. g.root = f.root /\ \A x \in Proc : g.parent[x] = IF x = p THEN t.at ELSE f.parent[x]
      BY <1>12, <1>13, <2>2
    <3>3. g.left[p] = NULL
      BY <1>1, <1>13
    <3> QED BY <1>1, <1>4, <1>5, <3>1, <3>2, <3>3
  <2> QED BY <2>1, <2>2
<1>20. CallFinds(u, D \cup {p}, s, h, a, b, M)
  <2>1. u \in Calls /\ u.stride = s
    BY <1>1 DEF CallFinds
  <2>2. D \cup {p} \in SUBSET M /\ D \cup {p} # {}
    BY <1>4, <1>5
  <2>3. u.a \in (M \ (D \cup {p})) \cup {NULL} /\ u.b \in (M \ (D \cup {p})) \cup {NULL}
    BY <1>5, <1>8, <1>9, <1>10
  <2>4. Forest(u.heap, M, Roots(u, D \cup {p}))
    BY <1>1, <1>17, <1>18
  <2>5. u.at = p /\ u.heap = g
    BY <1>1
  <2> QED BY <1>10, <1>19, <2>1, <2>2, <2>3, <2>4, <2>5 DEF CallFinds
<1>21. ASSUME sorted PROVE CallOrdered(u, D \cup {p}, M, o)
  <2>1. /\ \A x, y \in M : Before(s, x, y) <=> o[x] < o[y]
        /\ o \in [Proc -> Nat]
    BY <1>21 DEF MergeArgs
  <2>2. /\ \A c \in M \ R : o[f.parent[c]] <= o[c]
        /\ D # {} => o[t.at] <= o[p] /\ o[t.at] <= o[q]
    BY <1>2, <1>3, <1>4, <1>5, <1>21 DEF CallOrdered, Ordered
  <2>3. o[p] <= o[q]
    <3>1. o[p] \in Nat /\ o[q] \in Nat /\ p \in M /\ q \in M
      BY <1>1, <1>5, <2>1
    <3>2. CASE Before(t.stride, t.a, t.b)
      <4>1. Before(s, p, q)
        BY <1>1, <3>2 DEF CallFinds
      <4> QED BY <2>1, <3>1, <4>1
    <3>3. CASE ~Before(t.stride, t.a, t.b)
      <4>1. ~Before(s, q, p)
        BY <1>1, <3>3 DEF CallFinds
      <4>2. ~(o[q] < o[p])
        BY <2>1, <3>1, <4>1
      <4> QED BY <3>1, <4>2
    <3> QED BY <3>2, <3>3
  <2>4. below # NULL => o[p] <= o[below]
    <3>1. ASSUME below # NULL PROVE o[p] <= o[below]
      <4>1. below \in M \ R /\ f.parent[below] = p
        BY <1>4, <1>5, <1>7, <1>8, <3>1 DEF Forest
      <4> QED BY <2>2, <4>1
    <3> QED BY <3>1
  <2>5. ASSUME NEW c \in M \ (Q \cup ({below} \ {NULL})) PROVE o[g.parent[c]] <= o[c]
    <3>1. CASE D = {}
      <4>1. c \in M \ R /\ g.parent = f.parent
        BY <1>12, <1>13, <1>14, <3>1
      <4> QED BY <2>2, <4>1
    <3>2. CASE D # {}
      <4>1. c \in M \ R \/ c = p
        BY <1>14, <3>2
      <4>2. g.parent[c] = IF c = p THEN t.at ELSE f.parent[c]
        BY <1>4, <1>12, <1>13, <3>2
      <4>3. c \in M \ R => c # p
        BY <1>5
      <4> QED BY <2>2, <3>2, <4>1, <4>2, <4>3
    <3> QED BY <3>1, <3>2
  <2>6. Ordered(u.heap, M, Roots(u, D \cup {p}), o)
    BY <1>1, <1>18, <2>5 DEF Ordered
  <2>7. \A x \in {u.a, u.b} \ {NULL} : o[u.at] <= o[x]
    BY <1>1, <1>10, <2>3, <2>4
  <2> QED BY <2>6, <2>7 DEF CallOrdered
<1> QED BY <1>1, <1>5, <1>20, <1>21

-----------------------------------------------------------------------------
\* What merge leaves, under the root of one of the two heaps, or nothing.
IsMerged(g, s, h, a, b, M, o, sorted) ==
    /\ Forest(g, M, {g.root} \ {NULL}) /\ g.root \in {a, b}
    /\ g.root # NULL => g.parent[g.root] = h.parent[g.root]
    /\ sorted => Ordered(g, M, {g.root} \ {NULL}, o)

\* When one of the two is empty, the other one ends the merge.
LEMMA HangEnds ==
    ASSUME NEW s, NEW h, NEW a, NEW b, NEW M, NEW o, NEW sorted,
           MergeArgs(s, h, a, b, M, o, sorted),
           NEW t, NEW D, CallFinds(t, D, s, h, a, b, M),
           sorted => CallOrdered(t, D, M, o),
           t.a = NULL \/ t.b = NULL
    PROVE  IsMerged(Hang(t.heap, t.at, IF t.a = NULL THEN t.b ELSE t.a), s, h, a, b, M, o, sorted)
<1>1. PICK c, f, x, R : /\ c = (IF t.a = NULL THEN t.b ELSE t.a) /\ f = t.heap /\ x = t.at
                        /\ R = Roots(t, D)
  OBVIOUS
<1>2. PICK g : g = Hang(f, x, c)
  OBVIOUS
<1>3. /\ Forest(f, M, R) /\ f \in Heap /\ M \in SUBSET Proc /\ NULL \notin M /\ D \in SUBSET M
      /\ c \in (M \ D) \cup {NULL} /\ c \in Link /\ x \in Link
  BY <1>1, NullIsNoProc DEF CallFinds, Forest, Calls, Link
<1>4. R = ({c} \cup (IF D = {} THEN {} ELSE {f.root})) \ {NULL}
  BY <1>1 DEF Roots
<1>5. sorted => Ordered(f, M, R, o)
  BY <1>1 DEF CallOrdered
<1>6. CASE D = {}
  <2>1. x = NULL /\ {t.a, t.b} = {a, b} /\ f = h
    BY <1>1, <1>6 DEF CallFinds
  <2>2. g.root = c /\ g \in Heap /\ g.left = f.left /\ g.right = f.right /\ g.parent = f.parent
    BY <1>2, <1>3, <2>1, HangRoot
  <2>3. R = {g.root} \ {NULL}
    BY <1>4, <1>6, <2>2
  <2>4. Forest(g, M, R)
    BY <1>3, <2>2 DEF Forest
  <2>5. sorted => Ordered(g, M, R, o)
    BY <1>5, <2>2 DEF Ordered
  <2>6. c \in {a, b}
    BY <1>1, <2>1
  <2> QED BY <1>1, <1>2, <2>1, <2>2, <2>3, <2>4, <2>5, <2>6 DEF IsMerged
<1>7. CASE D # {} /\ c = NULL
  <2>1. x \in D /\ f.left[x] = NULL /\ f.root \in D /\ f.root \in {a, b}
        /\ f.parent[f.root] = h.parent[f.root]
    BY <1>1, <1>7 DEF CallFinds
  <2>2. /\ g \in Heap /\ g.root = f.root /\ g.right = f.right /\ g.parent = f.parent
        /\ \A q \in Proc : g.left[q] = f.left[q]
    <3>1. x \in Proc
      BY <1>3, <2>1
    <3>2. /\ g \in Heap /\ g.root = f.root /\ g.right = f.right /\ g.parent = f.parent
          /\ \A q \in Proc : g.left[q] = IF q = x THEN NULL ELSE f.left[q]
      <4>1. g = Hang(f, x, NULL) /\ f \in Heap
        BY <1>2, <1>3, <1>7
      <4> QED BY ONLY <4>1, <3>1, HangNothing
    <3> QED BY <2>1, <3>2
  <2>3. R = {g.root} \ {NULL}
    BY <1>4, <1>7, <2>2
  <2>4. Forest(g, M, R)
    BY <1>3, <2>2 DEF Forest
  <2>5. sorted => Ordered(g, M, R, o)
    BY <1>5, <2>2 DEF Ordered
  <2> QED BY <1>1, <1>2, <2>1, <2>2, <2>3, <2>4, <2>5 DEF IsMerged
<1>8. CASE D # {} /\ c # NULL
  <2>1. x \in D /\ f.left[x] = NULL /\ f.root \in D /\ f.root \in {a, b}
        /\ f.parent[f.root] = h.parent[f.root]
        /\ \A d \in D \ {f.root} : f.parent[d] \in D
    BY <1>1, <1>8 DEF CallFinds
  <2>2. PICK y \in Proc, d \in Proc : y = x /\ d = c /\ y \in M /\ d \notin D /\ y \in D /\ d \in M
    BY <1>3, <1>8, <2>1
  <2>3. /\ g \in Heap /\ g.root = f.root
        /\ \A q \in M : /\ g.left[q] = IF q = y THEN d ELSE f.left[q]
                        /\ g.right[q] = f.right[q]
                        /\ g.parent[q] = IF q = d THEN y ELSE f.parent[q]
    <3>1. IsLinked(g, f, y, d)
      BY <1>2, <1>3, <2>2, HangBelow
    <3> QED BY <1>3, <3>1 DEF IsLinked
  <2>4. R = {d, f.root} /\ d \in R /\ f.root # d
    BY <1>3, <1>4, <1>8, <2>1, <2>2
  <2>5. Forest(g, M, R \ {d})
    <3>1. \A e \in D \ R : f.parent[e] \in D
      BY <2>1, <2>4
    <3> QED BY <1>3, <2>1, <2>2, <2>3, <2>4, <3>1, LinkKeeps
  <2>6. R \ {d} = {g.root} \ {NULL}
    BY <1>3, <2>1, <2>3, <2>4
  <2>7. ASSUME sorted PROVE Ordered(g, M, R \ {d}, o)
    <3>1. \A e \in M \ R : o[f.parent[e]] <= o[e]
      BY <1>5, <2>7 DEF Ordered
    <3>2. o[y] <= o[d]
      BY <1>1, <1>3, <1>8, <2>2, <2>7 DEF CallOrdered
    <3>3. ASSUME NEW e \in M \ (R \ {d}) PROVE o[g.parent[e]] <= o[e]
      <4>1. CASE e = d
        BY <2>2, <2>3, <3>2, <4>1
      <4>2. CASE e # d
        BY <2>3, <3>1, <4>2
      <4> QED BY <4>1, <4>2
    <3> QED BY <3>3 DEF Ordered
  <2>8. g.parent[g.root] = h.parent[g.root]
    BY <1>3, <2>1, <2>3, <2>4
  <2> QED BY <1>1, <1>2, <2>1, <2>3, <2>5, <2>6, <2>7, <2>8 DEF IsMerged
<1> QED BY <1>6, <1>7, <1>8

\* skew_heap_merge makes one tree of two.
LEMMA MergeKeeps ==
    ASSUME NEW s, NEW h, NEW a, NEW b, NEW M, NEW o, NEW sorted,
           MergeArgs(s, h, a, b, M, o, sorted)
    PROVE  IsMerged(skew_heap_merge(s, h, a, b), s, h, a, b, M, o, sorted)
<1>1. PICK n : n = Cardinality(Proc) /\ n \in Nat
  BY StrideAssumption, FS_CardinalityType
<1>2. PICK start : start = [stride |-> s, heap |-> h, at |-> NULL, a |-> a, b |-> b]
  OBVIOUS
<1>3. PICK call : call = CHOOSE c : c = [k \in 0 .. n |-> IF k = 0 THEN start ELSE Descend[c[k - 1]]]
  OBVIOUS
<1>4. call = [k \in 0 .. n |-> IF k = 0 THEN start ELSE Descend[call[k - 1]]]
  <2>1. PICK c : CallLoop!Computes(c, start, <<>>, n)
    BY <1>1, CallLoop!ComputesExist
  <2>2. c = [k \in 0 .. n |-> IF k = 0 THEN start ELSE Descend[c[k - 1]]]
    BY <2>1 DEF CallLoop!Computes, NextCall
  <2> QED BY <1>3, <2>2
<1>5. PICK t : t = call[n]
  OBVIOUS
<1> DEFINE Finds(u, k, D) ==
             /\ CallFinds(u, D, s, h, a, b, M) /\ (sorted => CallOrdered(u, D, M, o))
             /\ NULL \in {u.a, u.b} \/ Cardinality(D) = k
           P == {k \in 0 .. n : \E D : Finds(call[k], k, D)}
<1>6. M \in SUBSET Proc /\ IsFiniteSet(Proc) /\ \A D \in SUBSET M : IsFiniteSet(D)
  BY StrideAssumption, FS_Subset DEF MergeArgs, Forest
<1>7. 0 \in P
  <2>1. /\ start \in Calls /\ start.stride = s /\ start.heap = h /\ start.at = NULL
        /\ start.a = a /\ start.b = b
    BY <1>2 DEF MergeArgs, Forest, Calls, Link
  <2>2. Roots(start, {}) = {a, b} \ {NULL}
    BY <2>1 DEF Roots
  <2>3. CallFinds(start, {}, s, h, a, b, M)
    BY <2>1, <2>2 DEF CallFinds, MergeArgs, Forest
  <2>4. sorted => CallOrdered(start, {}, M, o)
    BY <2>1, <2>2 DEF CallOrdered, MergeArgs
  <2>5. Finds(start, 0, {})
    BY <2>3, <2>4, FS_EmptySet
  <2>6. call[0] = start
    BY <1>1, <1>4
  <2> QED BY <1>1, <2>5, <2>6
<1>8. ASSUME NEW k \in 1 .. n, k - 1 \in P PROVE k \in P
  <2>1. PICK u : u = call[k - 1]
    OBVIOUS
  <2>2. PICK D : Finds(u, k - 1, D)
    BY <1>8, <2>1
  <2>3. call[k] = Descend[u]
    BY <1>1, <1>4, <2>1
  <2>4. CASE NULL \in {u.a, u.b}
    <3>1. u \in Calls
      BY <2>2 DEF CallFinds
    <3>2. Descend[u] = u
      BY <2>4, <3>1 DEF Descend
    <3>3. Finds(Descend[u], k, D)
      BY <2>2, <2>4, <3>2
    <3> QED BY <1>1, <2>3, <3>3
  <2>5. CASE NULL \notin {u.a, u.b}
    <3>1. CallFinds(u, D, s, h, a, b, M) /\ (sorted => CallOrdered(u, D, M, o))
          /\ u.a # NULL /\ u.b # NULL /\ Cardinality(D) = k - 1
      BY <2>2, <2>5
    <3>2. PICK p \in M \ D : /\ CallFinds(Descend[u], D \cup {p}, s, h, a, b, M)
                             /\ sorted => CallOrdered(Descend[u], D \cup {p}, M, o)
      BY <3>1, DescendKeeps
    <3>3. Cardinality(D \cup {p}) = k
      <4>1. IsFiniteSet(D)
        BY <1>6, <3>1 DEF CallFinds
      <4>2. Cardinality(D \cup {p}) = Cardinality(D) + 1
        BY <3>2, <4>1, FS_AddElement
      <4> QED BY <3>1, <4>2
    <3>4. Finds(Descend[u], k, D \cup {p})
      BY <3>2, <3>3
    <3> QED BY <1>1, <2>3, <3>4
  <2> QED BY <2>4, <2>5
<1>9. n \in P
  <2> HIDE DEF P
  <2> QED BY <1>1, <1>7, <1>8, CallLoop!AllPasses
<1>10. PICK D : Finds(t, n, D)
  BY <1>5, <1>9
<1>11. NULL \in {t.a, t.b}
  <2>1. ASSUME NULL \notin {t.a, t.b} PROVE FALSE
    <3>1. D \in SUBSET M /\ t.a \in Proc \ D /\ Cardinality(D) = n
      BY <1>6, <1>10, <2>1 DEF CallFinds
    <3>2. IsFiniteSet(D) /\ IsFiniteSet(D \cup {t.a}) /\ D \cup {t.a} \subseteq Proc
      BY <1>6, <3>1, FS_AddElement
    <3>3. Cardinality(D \cup {t.a}) = n + 1
      BY <3>1, <3>2, FS_AddElement
    <3>4. Cardinality(D \cup {t.a}) <= n
      BY <1>1, <1>6, <3>2, FS_Subset
    <3> QED BY <1>1, <3>3, <3>4
  <2> QED BY <2>1
<1>12. t \in Calls
  BY <1>10 DEF CallFinds
<1>13. skew_heap_merge(s, h, a, b) = Hang(t.heap, t.at, IF t.a = NULL THEN t.b ELSE t.a)
  <2>1. skew_heap_merge(s, h, a, b) =
          [u \in Calls |-> Hang(u.heap, u.at, IF u.a = NULL THEN u.b ELSE u.a)][call[n]]
    BY <1>1, <1>2, <1>3, Zenon DEF skew_heap_merge
  <2> QED BY <1>5, <1>12, <2>1
<1> QED BY <1>10, <1>11, <1>13, HangEnds

-----------------------------------------------------------------------------
InTree(h, M) == h \in Heap /\ M \in SUBSET Proc /\ IsTree(h, M)

\* No process of M comes before its parent, under the strides s.
SortedIn(s, h, M) == \A p \in M : h.parent[p] # NULL => ~Before(s, p, h.parent[p])

\* The same, of those whose parents are in M too.
SortedWithin(s, h, M) == \A p \in M : h.parent[p] \in M => ~Before(s, p, h.parent[p])

\* o is the order of the processes of M by their strides.
Orders(o, s, M) == o \in [Proc -> Nat] /\ \A p, q \in M : Before(s, p, q) <=> o[p] < o[q]

\* A tree, as one of the forests.
LEMMA TreeIs ==
    ASSUME NEW h, NEW M
    PROVE  InTree(h, M) <=> /\ Forest(h, M, {h.root} \ {NULL})
                            /\ h.root # NULL => h.parent[h.root] = NULL
<1> DEFINE R == {h.root} \ {NULL}
<1>1. ASSUME InTree(h, M) PROVE Forest(h, M, R) /\ (h.root # NULL => h.parent[h.root] = NULL)
  <2>1. h \in Heap /\ M \in SUBSET Proc /\ NULL \notin M /\ {p \in M : h.parent[p] = NULL} = R
    BY <1>1, NullIsNoProc DEF InTree, IsTree
  <2>2. R \in SUBSET M /\ (h.root # NULL => h.parent[h.root] = NULL)
    BY <2>1
  <2>3. \A p \in M \ R : h.parent[p] \in M
    BY <1>1, <2>1 DEF InTree, IsTree
  <2>4. ASSUME NEW p \in M
        PROVE  /\ h.left[p] \in (M \ R) \cup {NULL} /\ h.right[p] \in (M \ R) \cup {NULL}
               /\ h.left[p] = h.right[p] => h.left[p] = NULL
               /\ \A c \in M \ R : h.parent[c] = p <=> h.left[p] = c \/ h.right[p] = c
    <3>1. /\ {h.left[p], h.right[p]} \ {NULL} = {c \in M : h.parent[c] = p}
          /\ h.left[p] = h.right[p] => h.left[p] = NULL
      BY <1>1 DEF InTree, IsTree
    <3>2. \A c : c \in {h.left[p], h.right[p]} \ {NULL} <=> c \in M /\ h.parent[c] = p
      BY <3>1
    <3>3. \A c \in M : h.parent[c] = p => c \in M \ R
      BY <2>1
    <3> QED BY <2>1, <3>1, <3>2, <3>3
  <2>5. \A X \in SUBSET (M \ R) : X # {} => \E p \in X : h.parent[p] \notin X
    BY <1>1 DEF InTree, IsTree
  <2> QED BY <2>1, <2>2, <2>3, <2>4, <2>5 DEF Forest
<1>2. ASSUME Forest(h, M, R), h.root # NULL => h.parent[h.root] = NULL PROVE InTree(h, M)
  <2>1. /\ h \in Heap /\ M \in SUBSET Proc /\ NULL \notin M /\ R \in SUBSET M
        /\ \A p \in M \ R : h.parent[p] \in M
    BY <1>2, NullIsNoProc DEF Forest
  <2>2. {p \in M : h.parent[p] = NULL} = R
    BY <1>2, <2>1
  <2>3. ASSUME NEW p \in M
        PROVE  /\ h.parent[p] \in M \cup {NULL}
               /\ {h.left[p], h.right[p]} \ {NULL} = {c \in M : h.parent[c] = p}
               /\ h.left[p] = h.right[p] => h.left[p] = NULL
    <3>1. /\ h.left[p] \in (M \ R) \cup {NULL} /\ h.right[p] \in (M \ R) \cup {NULL}
          /\ h.left[p] = h.right[p] => h.left[p] = NULL
          /\ \A c \in M \ R : h.parent[c] = p <=> h.left[p] = c \/ h.right[p] = c
      BY <1>2 DEF Forest
    <3>2. ASSUME NEW c PROVE c \in {h.left[p], h.right[p]} \ {NULL} <=> c \in M /\ h.parent[c] = p
      <4>1. CASE c \in M \ R
        BY <2>1, <3>1, <4>1
      <4>2. CASE c \notin M \ R
        <5>1. c \notin {h.left[p], h.right[p]} \ {NULL}
          BY <3>1, <4>2
        <5>2. c \in M => h.parent[c] = NULL
          BY <2>2, <4>2
        <5> QED BY <2>1, <5>1, <5>2
      <4> QED BY <4>1, <4>2
    <3> QED BY <2>1, <2>2, <3>1, <3>2
  <2>4. ASSUME NEW X \in SUBSET M, X # {} PROVE \E p \in X : h.parent[p] \notin X
    <3>1. CASE X \cap R = {}
      <4>1. X \in SUBSET (M \ R)
        BY <3>1
      <4> QED BY <1>2, <2>4, <4>1 DEF Forest
    <3>2. CASE X \cap R # {}
      <4>1. PICK p \in X : p \in R
        BY <3>2
      <4>2. h.parent[p] = NULL
        BY <2>2, <4>1
      <4> QED BY <2>1, <4>1, <4>2
    <3> QED BY <3>1, <3>2
  <2> QED BY <2>1, <2>2, <2>3, <2>4 DEF InTree, IsTree
<1> QED BY <1>1, <1>2

LEMMA SortedIs ==
    ASSUME NEW h, NEW M, InTree(h, M), NEW s, NEW o, Orders(o, s, M)
    PROVE  SortedIn(s, h, M) <=> Ordered(h, M, {h.root} \ {NULL}, o)
<1>1. /\ {p \in M : h.parent[p] = NULL} = {h.root} \ {NULL} /\ M \in SUBSET Proc
      /\ \A p \in M : h.parent[p] \in M \cup {NULL}
  BY DEF InTree, IsTree
<1>2. ASSUME NEW p \in M \ ({h.root} \ {NULL})
      PROVE  /\ h.parent[p] # NULL
             /\ ~Before(s, p, h.parent[p]) <=> o[h.parent[p]] <= o[p]
  <2>1. h.parent[p] # NULL /\ h.parent[p] \in M
    BY <1>1
  <2>2. PICK q \in M : q = h.parent[p]
    BY <2>1
  <2>3. Before(s, p, q) <=> o[p] < o[q]
    BY DEF Orders
  <2>4. o[p] \in Nat /\ o[q] \in Nat
    BY <1>1 DEF Orders
  <2>5. ~(o[p] < o[q]) <=> o[q] <= o[p]
    BY <2>4
  <2> QED BY <2>1, <2>2, <2>3, <2>5
<1>3. \A p \in M : h.parent[p] # NULL => p \in M \ ({h.root} \ {NULL})
  BY <1>1
<1> QED BY <1>2, <1>3 DEF SortedIn, Ordered

\* The root is the least.
LEMMA RootLeast ==
    ASSUME NEW h, NEW M, InTree(h, M), NEW s, NEW o, Orders(o, s, M), SortedIn(s, h, M)
    PROVE  \A p \in M : h.root \in M /\ o[h.root] <= o[p]
<1>1. /\ {p \in M : h.parent[p] = NULL} = {h.root} \ {NULL} /\ M \in SUBSET Proc
      /\ \A p \in M : h.parent[p] \in M \cup {NULL}
      /\ \A X \in SUBSET M : X # {} => \E p \in X : h.parent[p] \notin X
  BY DEF InTree, IsTree
<1>2. SUFFICES ASSUME NEW e \in M PROVE h.root \in M /\ o[h.root] <= o[e]
  OBVIOUS
<1>3. h.root \in M
  <2>1. PICK p \in M : h.parent[p] \notin M
    BY <1>1, <1>2
  <2> QED BY <1>1, <2>1
<1>4. PICK r \in M : r = h.root /\ r # NULL
  BY <1>1, <1>3, NullIsNoProc
<1> DEFINE X == {p \in M : o[p] < o[r]}
<1>5. \A p \in M : o[p] \in Nat
  BY <1>1 DEF Orders
<1>6. ASSUME NEW p \in X PROVE h.parent[p] \in X
  <2>1. p # r /\ p \in M
    BY <1>5
  <2>2. h.parent[p] # NULL
    BY <1>1, <1>4, <2>1
  <2>3. PICK q \in M : q = h.parent[p]
    BY <1>1, <2>1, <2>2
  <2>4. ~Before(s, p, q)
    BY <2>1, <2>2, <2>3 DEF SortedIn
  <2>5. ~(o[p] < o[q])
    BY <2>1, <2>4 DEF Orders
  <2>6. o[p] < o[r]
    OBVIOUS
  <2>7. o[q] < o[r]
    BY <1>5, <2>1, <2>5, <2>6
  <2> QED BY <2>3, <2>7
<1>7. X = {}
  <2> HIDE DEF X
  <2>1. X \in SUBSET M
    BY DEF X
  <2> QED BY <1>1, <1>6, <2>1
<1>8. ~(o[e] < o[r])
  BY <1>7
<1> QED BY <1>3, <1>4, <1>5, <1>8

-----------------------------------------------------------------------------
\* skew_heap_insert calls merge on the tree and a tree of one.
LEMMA InsertArgs ==
    ASSUME NEW s \in [Proc -> Words], NEW h, NEW M, InTree(h, M), NEW p \in Proc, p \notin M,
           NEW o \in [Proc -> Nat], NEW sorted,
           sorted => Orders(o, s, M \cup {p}) /\ SortedIn(s, h, M)
    PROVE  MergeArgs(s, Clear(h, p), h.root, p, M \cup {p}, o, sorted)
<1>1. /\ Forest(h, M, {h.root} \ {NULL}) /\ h \in Heap /\ M \in SUBSET Proc /\ NULL \notin M
      /\ {h.root} \ {NULL} \in SUBSET M /\ h.root \in Link /\ p # NULL /\ p # h.root
      /\ h.root # NULL => h.parent[h.root] = NULL
  BY TreeIs, NullIsNoProc DEF Forest, Link
<1>2. PICK r \in Link : r = h.root
  BY <1>1
<1>3. PICK g \in Heap : /\ g = Clear(h, p)
                        /\ \A q \in Proc :
                             /\ g.left[q] = IF q = p THEN NULL ELSE h.left[q]
                             /\ g.right[q] = IF q = p THEN NULL ELSE h.right[q]
                             /\ g.parent[q] = IF q = p THEN NULL ELSE h.parent[q]
  BY <1>1, ClearFacts
<1> DEFINE K == M \cup {p}
           R == {r} \ {NULL}
           Q == {r, p} \ {NULL}
<1>4. /\ K \in SUBSET Proc /\ Q \in SUBSET K /\ K \ Q = M \ R /\ R \in SUBSET M
      /\ p \notin M \ R
  BY <1>1, <1>2
<1>5. /\ \A q \in M : /\ g.left[q] = h.left[q] /\ g.right[q] = h.right[q]
                      /\ g.parent[q] = h.parent[q]
      /\ g.left[p] = NULL /\ g.right[p] = NULL
  BY <1>1, <1>3
<1>6. Forest(g, K, Q)
  <2>1. Forest(h, M, R)
    BY <1>1, <1>2
  <2> HIDE DEF R, Q, K
  <2>2. \A q \in M \ R : g.parent[q] \in M
    BY <1>5, <2>1 DEF Forest
  <2>3. \A q \in M : /\ g.left[q] \in (M \ R) \cup {NULL} /\ g.right[q] \in (M \ R) \cup {NULL}
                     /\ g.left[q] = g.right[q] => g.left[q] = NULL
    BY <1>5, <2>1 DEF Forest
  <2>4. \A q \in M, c \in M \ R : g.parent[c] = q <=> g.left[q] = c \/ g.right[q] = c
    BY <1>5, <2>1 DEF Forest
  <2>5. \A c \in M \ R : c # NULL /\ g.parent[c] # p
    BY <1>1, <2>2
  <2>6. \A X \in SUBSET (M \ R) : X # {} => \E q \in X : g.parent[q] \notin X
    BY <1>5, <2>1 DEF Forest
  <2>7. \A q \in K : q \in M \/ q = p
    BY DEF K
  <2>8. M \subseteq K
    BY DEF K
  <2>9. \A q \in K : /\ g.left[q] \in (K \ Q) \cup {NULL} /\ g.right[q] \in (K \ Q) \cup {NULL}
                     /\ g.left[q] = g.right[q] => g.left[q] = NULL
    BY <1>4, <1>5, <2>3, <2>7
  <2>10. \A q \in K, c \in K \ Q : g.parent[c] = q <=> g.left[q] = c \/ g.right[q] = c
    BY <1>4, <1>5, <2>4, <2>5, <2>7
  <2>11. /\ \A q \in K \ Q : g.parent[q] \in K
         /\ \A X \in SUBSET (K \ Q) : X # {} => \E q \in X : g.parent[q] \notin X
    BY <1>4, <2>2, <2>6, <2>8
  <2> QED BY <1>4, <2>9, <2>10, <2>11 DEF Forest
<1>7. ASSUME sorted PROVE (\A x, y \in K : Before(s, x, y) <=> o[x] < o[y]) /\ Ordered(g, K, Q, o)
  <2>1. Orders(o, s, K) /\ SortedIn(s, h, M)
    BY <1>7
  <2>2. Orders(o, s, M)
    BY <2>1 DEF Orders
  <2>3. Ordered(h, M, {h.root} \ {NULL}, o)
    BY <2>1, <2>2, SortedIs
  <2>4. \A c \in M \ R : o[h.parent[c]] <= o[c]
    BY <1>2, <2>3 DEF Ordered
  <2>5. Ordered(g, K, Q, o)
    BY <1>4, <1>5, <2>4 DEF Ordered
  <2> QED BY <2>1, <2>5 DEF Orders
<1> QED BY <1>1, <1>2, <1>3, <1>6, <1>7 DEF MergeArgs, Link

LEMMA InsertKeeps ==
    ASSUME NEW s \in [Proc -> Words], NEW h, NEW M, InTree(h, M), NEW p \in Proc, p \notin M,
           NEW g, g = skew_heap_insert(s, h, p)
    PROVE  /\ InTree(g, M \cup {p})
           /\ \A o : Orders(o, s, M \cup {p}) /\ SortedIn(s, h, M) => SortedIn(s, g, M \cup {p})
<1>1. h \in Heap /\ h.root \in Link /\ NULL \notin Proc
      /\ (h.root # NULL => h.parent[h.root] = NULL /\ h.root \in Proc)
  BY TreeIs, HeapFields, NullIsNoProc DEF InTree, Link
<1>2. Clear(h, p).parent[p] = NULL /\ (h.root # NULL => Clear(h, p).parent[h.root] = NULL)
  BY <1>1, ClearFacts
<1>3. ASSUME NEW o \in [Proc -> Nat], NEW sorted,
             sorted => Orders(o, s, M \cup {p}) /\ SortedIn(s, h, M)
      PROVE  /\ InTree(g, M \cup {p})
             /\ sorted => Ordered(g, M \cup {p}, {g.root} \ {NULL}, o)
  <2>1. MergeArgs(s, Clear(h, p), h.root, p, M \cup {p}, o, sorted)
    BY <1>3, InsertArgs
  <2>2. IsMerged(g, s, Clear(h, p), h.root, p, M \cup {p}, o, sorted)
    BY <2>1, MergeKeeps DEF skew_heap_insert
  <2>3. /\ Forest(g, M \cup {p}, {g.root} \ {NULL})
        /\ g.root # NULL => g.parent[g.root] = NULL
    BY <1>2, <2>2 DEF IsMerged
  <2>4. InTree(g, M \cup {p})
    BY <2>3, TreeIs
  <2> QED BY <2>2, <2>4 DEF IsMerged
<1>4. InTree(g, M \cup {p})
  <2>1. PICK o \in [Proc -> Nat] : o = [q \in Proc |-> 0]
    OBVIOUS
  <2> QED BY <1>3, <2>1
<1>5. ASSUME NEW o, Orders(o, s, M \cup {p}), SortedIn(s, h, M)
      PROVE  SortedIn(s, g, M \cup {p})
  <2>1. o \in [Proc -> Nat]
    BY <1>5 DEF Orders
  <2>2. Ordered(g, M \cup {p}, {g.root} \ {NULL}, o)
    BY <1>3, <1>5, <2>1
  <2> QED BY <1>4, <1>5, <2>2, SortedIs
<1> QED BY <1>4, <1>5

\* skew_heap_remove of the root calls merge on the two trees below it.
LEMMA RemoveArgs ==
    ASSUME NEW s \in [Proc -> Words], NEW h, NEW M, InTree(h, M), NEW p \in M, p = h.root,
           NEW o \in [Proc -> Nat], NEW sorted,
           sorted => Orders(o, s, M \ {p}) /\ SortedWithin(s, h, M \ {p})
    PROVE  MergeArgs(s, Clear(h, p), h.left[p], h.right[p], M \ {p}, o, sorted)
<1>1. /\ Forest(h, M, {p}) /\ h \in Heap /\ M \in SUBSET Proc /\ NULL \notin M
  <2>1. NULL \notin M /\ Forest(h, M, {h.root} \ {NULL})
    BY TreeIs, NullIsNoProc DEF InTree
  <2>2. {h.root} \ {NULL} = {p}
    BY <2>1
  <2> QED BY <2>1, <2>2 DEF Forest
<1>2. PICK a \in Link, b \in Link : a = h.left[p] /\ b = h.right[p]
  BY <1>1, HeapFields
<1>3. a \in (M \ {p}) \cup {NULL} /\ b \in (M \ {p}) \cup {NULL} /\ (a = b => a = NULL)
  BY <1>1, <1>2 DEF Forest
<1>4. PICK g \in Heap : /\ g = Clear(h, p)
                        /\ \A q \in Proc :
                             /\ g.left[q] = IF q = p THEN NULL ELSE h.left[q]
                             /\ g.right[q] = IF q = p THEN NULL ELSE h.right[q]
                             /\ g.parent[q] = IF q = p THEN NULL ELSE h.parent[q]
  BY <1>1, ClearFacts
<1> DEFINE K == M \ {p}
           Q == {a, b} \ {NULL}
<1>5. /\ K \in SUBSET Proc /\ Q \in SUBSET K /\ K \ Q \subseteq M \ {p} /\ K \subseteq M
      /\ K = M \ {p} /\ \A c \in K : c # p
  BY <1>1, <1>3
<1>6. \A q \in K : /\ g.left[q] = h.left[q] /\ g.right[q] = h.right[q]
                   /\ g.parent[q] = h.parent[q]
  BY <1>1, <1>4
<1>7. \A c \in K : h.parent[c] = p <=> c \in Q
  <2>1. \A c \in K : h.parent[c] = p <=> a = c \/ b = c
    BY <1>1, <1>2 DEF Forest
  <2> QED BY <1>1, <2>1
<1>8. \A c \in K \ Q : h.parent[c] \in K
  <2>1. \A c \in K : h.parent[c] \in M
    BY <1>1, <1>5 DEF Forest
  <2> QED BY <1>5, <1>7, <2>1
<1>9. ASSUME NEW q \in K
      PROVE  /\ h.left[q] \in (K \ Q) \cup {NULL} /\ h.right[q] \in (K \ Q) \cup {NULL}
             /\ h.left[q] = h.right[q] => h.left[q] = NULL
             /\ \A c \in K \ Q : h.parent[c] = q <=> h.left[q] = c \/ h.right[q] = c
  <2>1. /\ h.left[q] \in (M \ {p}) \cup {NULL} /\ h.right[q] \in (M \ {p}) \cup {NULL}
        /\ h.left[q] = h.right[q] => h.left[q] = NULL
        /\ \A c \in M \ {p} : h.parent[c] = q <=> h.left[q] = c \/ h.right[q] = c
    BY <1>1, <1>5 DEF Forest
  <2>2. ASSUME NEW c \in Q PROVE h.left[q] # c /\ h.right[q] # c
    <3>1. c \in M \ {p} /\ h.parent[c] = p /\ q # p
      BY <1>5, <1>7
    <3> QED BY <2>1, <3>1
  <2>3. ASSUME NEW x \in (M \ {p}) \cup {NULL}, \A c \in Q : x # c
        PROVE  x \in (K \ Q) \cup {NULL}
    BY <2>3, <1>5
  <2>4. h.left[q] \in (K \ Q) \cup {NULL} /\ h.right[q] \in (K \ Q) \cup {NULL}
    BY <2>1, <2>2, <2>3
  <2>5. \A c \in K \ Q : h.parent[c] = q <=> h.left[q] = c \/ h.right[q] = c
    BY <1>5, <2>1
  <2> QED BY <2>1, <2>4, <2>5
<1>10. ASSUME NEW X \in SUBSET (K \ Q), X # {} PROVE \E q \in X : h.parent[q] \notin X
  <2>1. X \in SUBSET (M \ {p})
    BY <1>5
  <2> QED BY <1>1, <1>10, <2>1 DEF Forest
<1>11. Forest(g, K, Q)
  <2> HIDE DEF K, Q
  <2>1. \A q \in K \ Q : g.parent[q] = h.parent[q]
    BY <1>6
  <2>2. \A q \in K \ Q : g.parent[q] \in K
    BY <1>8, <2>1
  <2>3. \A q \in K : /\ g.left[q] \in (K \ Q) \cup {NULL} /\ g.right[q] \in (K \ Q) \cup {NULL}
                     /\ g.left[q] = g.right[q] => g.left[q] = NULL
    BY <1>6, <1>9
  <2>4. \A q \in K, c \in K \ Q : g.parent[c] = q <=> g.left[q] = c \/ g.right[q] = c
    BY <1>6, <1>9, <2>1
  <2>5. \A X \in SUBSET (K \ Q) : X # {} => \E q \in X : g.parent[q] \notin X
    BY <1>10, <2>1
  <2> QED BY <1>5, <2>2, <2>3, <2>4, <2>5 DEF Forest
<1>12. ASSUME sorted PROVE (\A x, y \in K : Before(s, x, y) <=> o[x] < o[y]) /\ Ordered(g, K, Q, o)
  <2>1. /\ \A x, y \in K : Before(s, x, y) <=> o[x] < o[y]
        /\ \A c \in K : h.parent[c] \in K => ~Before(s, c, h.parent[c])
    BY <1>12 DEF Orders, SortedWithin
  <2>2. ASSUME NEW c \in K \ Q PROVE o[g.parent[c]] <= o[c]
    <3>1. PICK d \in K : d = h.parent[c] /\ d = g.parent[c]
      BY <1>6, <1>8
    <3>2. ~Before(s, c, d)
      BY <1>1, <2>1, <3>1
    <3>3. ~(o[c] < o[d]) /\ o[c] \in Nat /\ o[d] \in Nat
      BY <1>5, <2>1, <3>2
    <3> QED BY <3>1, <3>3
  <2> QED BY <2>1, <2>2 DEF Ordered
<1> QED BY <1>2, <1>3, <1>4, <1>11, <1>12 DEF MergeArgs

LEMMA RemoveKeeps ==
    ASSUME NEW s \in [Proc -> Words], NEW h, NEW M, InTree(h, M), NEW p \in M, p = h.root,
           NEW g, g = skew_heap_remove(s, h, p)
    PROVE  /\ InTree(g, M \ {p})
           /\ \A o : Orders(o, s, M \ {p}) /\ SortedWithin(s, h, M \ {p}) => SortedIn(s, g, M \ {p})
<1>1. h.parent[p] = NULL /\ NULL \notin Proc /\ p \in Proc /\ M \in SUBSET Proc
  <2>1. M \in SUBSET Proc /\ p \in M /\ IsTree(h, M)
    BY DEF InTree
  <2>2. p # NULL
    BY <2>1, NullIsNoProc
  <2>3. {q \in M : h.parent[q] = NULL} = {h.root} \ {NULL}
    BY <2>1 DEF IsTree
  <2>4. p \in {h.root} \ {NULL}
    BY <2>2
  <2> QED BY <2>1, <2>3, <2>4, NullIsNoProc
<1>2. PICK t : t = skew_heap_merge(s, Clear(h, p), h.left[p], h.right[p])
  OBVIOUS
<1>3. ASSUME NEW o \in [Proc -> Nat], NEW sorted,
             sorted => Orders(o, s, M \ {p}) /\ SortedWithin(s, h, M \ {p})
      PROVE  InTree(g, M \ {p}) /\ (sorted => Ordered(g, M \ {p}, {g.root} \ {NULL}, o))
  <2>1. MergeArgs(s, Clear(h, p), h.left[p], h.right[p], M \ {p}, o, sorted)
    BY <1>3, RemoveArgs
  <2>2. IsMerged(t, s, Clear(h, p), h.left[p], h.right[p], M \ {p}, o, sorted)
    BY <1>2, <2>1, MergeKeeps
  <2>3. /\ Forest(t, M \ {p}, {t.root} \ {NULL})
        /\ sorted => Ordered(t, M \ {p}, {t.root} \ {NULL}, o)
    BY <2>2 DEF IsMerged
  <2>4. g = IF t.root = NULL THEN t ELSE [t EXCEPT !.parent[t.root] = NULL]
    BY <1>1, <1>2 DEF skew_heap_remove
  <2>5. CASE t.root = NULL
    <3>1. g = t
      BY <2>4, <2>5
    <3>2. InTree(g, M \ {p})
      BY <2>3, <2>5, <3>1, TreeIs
    <3> QED BY <2>3, <3>1, <3>2
  <2>6. CASE t.root # NULL
    <3>1. PICK r \in Proc, f \in [Proc -> Link] : r = t.root /\ f = t.parent /\ t \in Heap
      BY <1>1, <2>3, <2>6, HeapFields DEF Forest, Link
    <3>2. g = [t EXCEPT !.parent = [f EXCEPT ![r] = NULL]]
      BY <2>4, <2>6, <3>1
    <3>3. [f EXCEPT ![r] = NULL] \in [Proc -> Link]
      BY DEF Link
    <3>4. /\ g \in Heap /\ g.root = r /\ g.left = t.left /\ g.right = t.right
          /\ g.parent = [f EXCEPT ![r] = NULL]
      BY <3>1, <3>2, <3>3 DEF Heap
    <3>5. g.parent[r] = NULL /\ \A q \in (M \ {p}) \ {r} : g.parent[q] = t.parent[q]
      BY <1>1, <3>1, <3>4
    <3>6. {t.root} \ {NULL} = {r} /\ {g.root} \ {NULL} = {r}
      BY <1>1, <3>1, <3>4
    <3>7. Forest(g, M \ {p}, {r})
      <4>1. Forest(t, M \ {p}, {r})
        BY <2>3, <3>6
      <4> QED BY <3>4, <3>5, <4>1 DEF Forest
    <3>8. InTree(g, M \ {p})
      BY <3>4, <3>5, <3>6, <3>7, TreeIs
    <3>9. sorted => Ordered(g, M \ {p}, {r}, o)
      BY <2>3, <3>5, <3>6 DEF Ordered
    <3> QED BY <3>6, <3>8, <3>9
  <2> QED BY <2>5, <2>6
<1>4. InTree(g, M \ {p})
  <2>1. PICK o \in [Proc -> Nat] : o = [q \in Proc |-> 0]
    OBVIOUS
  <2> QED BY <1>3, <2>1
<1>5. ASSUME NEW o, Orders(o, s, M \ {p}), SortedWithin(s, h, M \ {p})
      PROVE  SortedIn(s, g, M \ {p})
  <2>1. o \in [Proc -> Nat]
    BY <1>5 DEF Orders
  <2>2. Ordered(g, M \ {p}, {g.root} \ {NULL}, o)
    BY <1>3, <1>5, <2>1
  <2> QED BY <1>4, <1>5, <2>2, SortedIs
<1> QED BY <1>4, <1>5

-----------------------------------------------------------------------------
\* Words on a circle, of which half is less than HalfWords ahead.
LEMMA AheadIs ==
    ASSUME NEW a \in Words, NEW b \in Words
    PROVE  /\ Ahead(a, b) = IF b <= a THEN a - b ELSE a - b + 2 * HalfWords
           /\ Ahead(a, b) \in Words
<1>1. PICK K \in Nat \ {0} : K = 2 * HalfWords
  BY StrideAssumption
<1>2. a \in Nat /\ b \in Nat /\ a < K /\ b < K
  BY <1>1 DEF Words
<1>3. PICK d \in Int : d = a - b
  BY <1>2
<1>4. CASE b <= a
  <2>1. 0 <= d /\ d < K
    BY <1>2, <1>3, <1>4
  <2>2. d % K = d
    BY <2>1
  <2> QED BY <1>1, <1>3, <1>4, <2>1, <2>2 DEF Ahead, Words
<1>5. CASE ~(b <= a)
  <2>1. 0 <= d + K /\ d < 0 /\ -K <= d
    BY <1>2, <1>3, <1>5
  <2>2. d % K = d + K
    BY <2>1
  <2> QED BY <1>1, <1>3, <1>5, <2>1, <2>2 DEF Ahead, Words
<1> QED BY <1>4, <1>5

LEMMA WordsAreNat == Words \subseteq Nat
BY StrideAssumption DEF Words

\* Words less than HalfWords ahead of the word c are ordered by how far they are.
LEMMA HalfCircle ==
    ASSUME NEW a \in Words, NEW b \in Words, NEW c \in Words,
           Ahead(a, c) < HalfWords, Ahead(b, c) < HalfWords
    PROVE  /\ Ahead(a, b) >= HalfWords <=> Ahead(a, c) < Ahead(b, c)
           /\ Ahead(b, c) <= Ahead(a, c) => Ahead(a, b) = Ahead(a, c) - Ahead(b, c)
           /\ Ahead(a, c) \in Nat /\ Ahead(b, c) \in Nat
<1>1. HalfWords \in Nat \ {0} /\ Words \subseteq Nat /\ a < 2 * HalfWords /\ b < 2 * HalfWords /\ c < 2 * HalfWords
  BY StrideAssumption DEF Words
<1>2. PICK x, y, z : x = Ahead(a, c) /\ y = Ahead(b, c) /\ z = Ahead(a, b)
  OBVIOUS
<1>3. /\ x = IF c <= a THEN a - c ELSE a - c + 2 * HalfWords
      /\ y = IF c <= b THEN b - c ELSE b - c + 2 * HalfWords
      /\ z = IF b <= a THEN a - b ELSE a - b + 2 * HalfWords
      /\ x < HalfWords /\ y < HalfWords
  BY <1>2, AheadIs
<1>4. (z >= HalfWords <=> x < y) /\ (y <= x => z = x - y) /\ x \in Nat /\ y \in Nat
  BY <1>1, <1>3
<1> QED BY <1>2, <1>4

Close(s, M) == \E first \in M : \A p \in M : Ahead(s[p], s[first]) < HalfWords

\* Close strides are ordered.
LEMMA CloseOrders ==
    ASSUME NEW s \in [Proc -> Words], NEW M \in SUBSET Proc, Close(s, M)
    PROVE  \E o : /\ Orders(o, s, M)
                  /\ \A p, q \in M : /\ o[p] < HalfWords
                                     /\ o[q] <= o[p] => Ahead(s[p], s[q]) = o[p] - o[q]
<1>1. PICK first \in M : \A p \in M : Ahead(s[p], s[first]) < HalfWords
  BY DEF Close
<1>2. PICK o : o = [p \in Proc |-> Ahead(s[p], s[first])]
  OBVIOUS
<1>3. o \in [Proc -> Nat]
  <2>1. \A p \in Proc : Ahead(s[p], s[first]) \in Nat
    <3>1. \A p \in Proc : s[p] \in Words /\ s[first] \in Words
      OBVIOUS
    <3> QED BY <3>1, AheadIs, WordsAreNat
  <2> QED BY <1>2, <2>1
<1>4. ASSUME NEW p \in M, NEW q \in M
      PROVE  /\ Before(s, p, q) <=> o[p] < o[q]
             /\ o[p] < HalfWords
             /\ o[q] <= o[p] => Ahead(s[p], s[q]) = o[p] - o[q]
  <2>1. /\ s[p] \in Words /\ s[q] \in Words /\ s[first] \in Words
        /\ Ahead(s[p], s[first]) < HalfWords /\ Ahead(s[q], s[first]) < HalfWords
    BY <1>1
  <2>2. /\ Ahead(s[p], s[q]) >= HalfWords <=> Ahead(s[p], s[first]) < Ahead(s[q], s[first])
        /\ Ahead(s[q], s[first]) <= Ahead(s[p], s[first])
             => Ahead(s[p], s[q]) = Ahead(s[p], s[first]) - Ahead(s[q], s[first])
    BY <2>1, HalfCircle
  <2>3. o[p] = Ahead(s[p], s[first]) /\ o[q] = Ahead(s[q], s[first])
    BY <1>2
  <2> QED BY <2>1, <2>2, <2>3 DEF Before
<1> QED BY <1>3, <1>4 DEF Orders

\* Strides less than HalfWords ahead of one word, whosever it is, are close.
LEMMA CloseFrom ==
    ASSUME NEW s \in [Proc -> Words], NEW M \in SUBSET Proc, M # {}, NEW w \in Words,
           \A p \in M : Ahead(s[p], w) < HalfWords
    PROVE  Close(s, M)
<1> DEFINE T == {Ahead(s[p], w) : p \in M}
<1>1. T \in SUBSET Nat /\ T # {}
  <2>1. \A p \in M : s[p] \in Words
    OBVIOUS
  <2>2. \A p \in M : Ahead(s[p], w) \in Nat
    BY <2>1, AheadIs, WordsAreNat
  <2> QED BY <2>2
<1>2. PICK m \in T : \A n \in T : m <= n
  <2> HIDE DEF T
  <2> QED BY <1>1, CallLoop!LeastNat
<1>3. PICK first \in M : m = Ahead(s[first], w)
  OBVIOUS
<1>4. ASSUME NEW p \in M PROVE Ahead(s[p], s[first]) < HalfWords
  <2>1. /\ s[p] \in Words /\ s[first] \in Words
        /\ Ahead(s[p], w) < HalfWords /\ Ahead(s[first], w) < HalfWords
        /\ Ahead(s[first], w) <= Ahead(s[p], w)
    BY <1>2, <1>3
  <2>2. /\ Ahead(s[p], s[first]) = Ahead(s[p], w) - Ahead(s[first], w)
        /\ Ahead(s[p], w) \in Nat /\ Ahead(s[first], w) \in Nat
    BY <2>1, HalfCircle
  <2> QED BY <2>1, <2>2, StrideAssumption
<1> QED BY <1>4 DEF Close

-----------------------------------------------------------------------------
(***************************************************************************)
(* The invariant: a process on the CPU is runnable.  Nothing else can make *)
(* a member of the heap the current process.                               *)
(***************************************************************************)
Pools == Runnable \ {current}

StrideInv == HeapHoldsRunnable /\ (current \in Proc => state[current] = "runnable")

LEMMA StrideInvIs ==
    StrideInv <=> /\ StrideTypeOK /\ InTree(heap, Pools)
                  /\ current \in Proc => state[current] = "runnable"
BY DEF StrideInv, HeapHoldsRunnable, InTree, StrideTypeOK, Pools, Runnable

LEMMA EmptyTree == InTree(NoHeap, {})
<1>1. NoHeap \in Heap /\ NoHeap.root = NULL
  BY DEF NoHeap, NoLinks, Heap, Link
<1>2. \A X \in SUBSET {} : X = {}
  OBVIOUS
<1> QED BY <1>1, <1>2 DEF InTree, IsTree

LEMMA PassIs ==
    ASSUME StrideTypeOK, NEW p \in Proc
    PROVE  Pass(p) \in 0 .. HalfWords - 1
<1>1. PICK n \in Nat : n = priority[p]
  BY WordsAreNat DEF StrideTypeOK
<1>2. HalfWords \in Nat /\ HalfWords > 1 /\ BIG_STRIDE = HalfWords - 1 /\ BIG_STRIDE \in Nat
  BY StrideAssumption DEF BIG_STRIDE
<1>3. CASE n = 0
  BY <1>1, <1>2, <1>3 DEF Pass
<1>4. CASE n > BIG_STRIDE
  BY <1>1, <1>2, <1>4 DEF Pass
<1>5. CASE ~(n = 0) /\ ~(n > BIG_STRIDE)
  <2>1. \A m \in Nat : m \div n \in 0 .. m
    BY <1>5
  <2>2. BIG_STRIDE \div n \in 0 .. BIG_STRIDE
    BY <1>2, <2>1
  <2> QED BY <1>1, <1>2, <1>5, <2>2 DEF Pass
<1> QED BY <1>3, <1>4, <1>5

\* What schedule() leaves when it picks from the tree h of the processes M.
IsPicked(h, M) ==
    /\ stride' \in [Proc -> Words]
    /\ InTree(heap', M \ {current'})
    /\ IF M = {} THEN current' = Idle /\ stride' = stride
       ELSE /\ current' \in M /\ current' = h.root
            /\ \A p \in Proc :
                 stride'[p] = IF p = current' THEN (stride[p] + Pass(p)) % (2 * HalfWords)
                                              ELSE stride[p]
            /\ \A o : /\ Orders(o, stride', M \ {current'})
                      /\ SortedWithin(stride', h, M \ {current'})
                      => SortedIn(stride', heap', M \ {current'})

LEMMA PickKeeps ==
    ASSUME StrideTypeOK, NEW h, NEW M, InTree(h, M), PickNext(h)
    PROVE  IsPicked(h, M)
<1>1. /\ {p \in M : h.parent[p] = NULL} = {h.root} \ {NULL} /\ M \in SUBSET Proc
      /\ \A X \in SUBSET M : X # {} => \E p \in X : h.parent[p] \notin X
      /\ \A p \in M : h.parent[p] \in M \cup {NULL}
  BY DEF InTree, IsTree
<1>2. h.root = NULL <=> M = {}
  <2>1. h.root = NULL => \A p \in M : h.parent[p] \in M
    BY <1>1
  <2>2. NULL \notin M
    BY <1>1, NullIsNoProc
  <2> QED BY <1>1, <2>1, <2>2
<1>3. CASE M = {}
  <2>1. current' = Idle /\ heap' = h /\ stride' = stride
    BY <1>2, <1>3 DEF PickNext
  <2>2. M \ {current'} = M
    BY <1>3
  <2> QED BY <1>3, <2>1, <2>2 DEF IsPicked, StrideTypeOK
<1>4. CASE M # {}
  <2>1. /\ current' = h.root
        /\ stride' = [stride EXCEPT ![h.root] = (@ + Pass(h.root)) % (2 * HalfWords)]
        /\ heap' = skew_heap_remove(stride', h, h.root)
    BY <1>2, <1>4 DEF PickNext
  <2>2. PICK p \in M : p = h.root
    BY <1>1, <1>2, <1>4
  <2>3. (stride[p] + Pass(p)) % (2 * HalfWords) \in Words
    <3>1. stride[p] \in Nat /\ Pass(p) \in Nat
      <4>1. Pass(p) \in 0 .. HalfWords - 1
        BY <1>1, PassIs
      <4>2. stride[p] \in Words
        BY <1>1 DEF StrideTypeOK
      <4>3. Pass(p) \in Nat
        BY <4>1
      <4>4. stride[p] \in Nat
        BY <4>2, WordsAreNat
      <4> QED BY <4>3, <4>4
    <3>2. PICK K \in Nat \ {0} : K = 2 * HalfWords
      BY StrideAssumption
    <3>3. PICK d \in Nat : d = stride[p] + Pass(p)
      BY <3>1
    <3>4. d % K \in 0 .. K - 1
      OBVIOUS
    <3> QED BY <3>2, <3>3, <3>4 DEF Words
  <2>4. /\ stride' \in [Proc -> Words]
        /\ \A q \in Proc :
             stride'[q] = IF q = p THEN (stride[q] + Pass(q)) % (2 * HalfWords) ELSE stride[q]
    BY <1>1, <2>1, <2>2, <2>3 DEF StrideTypeOK
  <2>5. /\ InTree(heap', M \ {p})
        /\ \A o : /\ Orders(o, stride', M \ {p}) /\ SortedWithin(stride', h, M \ {p})
                  => SortedIn(stride', heap', M \ {p})
    <3>1. PICK s \in [Proc -> Words] : s = stride'
      BY <2>4
    <3>2. PICK g : g = heap' /\ g = skew_heap_remove(s, h, p)
      BY <2>1, <2>2, <3>1
    <3>3. /\ InTree(g, M \ {p})
          /\ \A o : Orders(o, s, M \ {p}) /\ SortedWithin(s, h, M \ {p}) => SortedIn(s, g, M \ {p})
      BY <2>2, <3>2, RemoveKeeps
    <3> QED BY <3>1, <3>2, <3>3
  <2> QED BY <1>4, <2>1, <2>2, <2>4, <2>5 DEF IsPicked
<1> QED BY <1>3, <1>4

LEMMA StrideInitInv == StrideInit => StrideInv
<1> SUFFICES ASSUME StrideInit PROVE StrideInv
  OBVIOUS
<1>1. PICK p \in Proc :
        /\ state = [q \in Proc |-> IF q = p THEN "runnable" ELSE "free"]
        /\ current = p
        /\ stride = [q \in Proc |-> IF q = p THEN BIG_STRIDE ELSE 0]
        /\ priority = [q \in Proc |-> 0]
        /\ heap = NoHeap
  BY DEF StrideInit
<1>2. BIG_STRIDE \in Words /\ 0 \in Words
  BY StrideAssumption DEF BIG_STRIDE, Words
<1>3. Pools = {}
  BY <1>1 DEF Pools, Runnable
<1>4. InTree(heap, Pools)
  BY <1>1, <1>3, EmptyTree
<1>5. StrideTypeOK
  BY <1>1, <1>2, EmptyTree DEF StrideTypeOK, InTree
<1> QED BY <1>1, <1>4, <1>5, StrideInvIs

\* The heap that schedule() picks from is a tree of all that are runnable.
LEMMA PoolIs ==
    ASSUME StrideInv
    PROVE  /\ InTree(Pool, Runnable)
           /\ \A o : Orders(o, stride, Runnable) /\ SortedIn(stride, heap, Pools)
                     => SortedIn(stride, Pool, Runnable)
<1>1. /\ InTree(heap, Pools) /\ stride \in [Proc -> Words]
      /\ Runnable \in SUBSET Proc
  BY StrideInvIs DEF StrideTypeOK, Runnable
<1>2. CASE current \in Runnable
  <2>1. PICK p \in Proc : p = current /\ p \notin Pools /\ Pools \cup {p} = Runnable
    BY <1>1, <1>2 DEF Pools
  <2>2. PICK g : g = skew_heap_insert(stride, heap, p)
    OBVIOUS
  <2>3. /\ InTree(g, Pools \cup {p})
        /\ \A o : Orders(o, stride, Pools \cup {p}) /\ SortedIn(stride, heap, Pools)
                  => SortedIn(stride, g, Pools \cup {p})
    BY <1>1, <2>1, <2>2, InsertKeeps
  <2>4. Pool = g
    BY <1>2, <2>1, <2>2 DEF Pool
  <2> QED BY <2>1, <2>3, <2>4
<1>3. CASE current \notin Runnable
  <2>1. Pools = Runnable /\ Pool = heap
    BY <1>3 DEF Pools, Pool
  <2> QED BY <1>1, <2>1
<1> QED BY <1>2, <1>3

LEMMA RescheduledIs ==
    ASSUME StrideInv, Resched
    PROVE  IsPicked(Pool, Runnable) /\ Runnable' = Runnable /\ state' = state /\ priority' = priority
<1>1. PickNext(Pool) /\ state' = state /\ priority' = priority
  BY DEF Resched
<1>2. InTree(Pool, Runnable)
  BY PoolIs
<1>3. StrideTypeOK
  BY StrideInvIs
<1>4. IsPicked(Pool, Runnable)
  BY <1>1, <1>2, <1>3, PickKeeps
<1> QED BY <1>1, <1>4 DEF Runnable

LEMMA LeftIs ==
    ASSUME StrideInv, Sleep \/ Exit
    PROVE  /\ IsPicked(heap, Pools) /\ Runnable' = Pools /\ priority' = priority
           /\ state' \in [Proc -> {"free", "runnable", "sleeping"}]
<1>1. PickNext(heap) /\ current \in Proc /\ priority' = priority
  BY DEF Sleep, Exit
<1>2. InTree(heap, Pools) /\ StrideTypeOK
  BY StrideInvIs
<1>3. IsPicked(heap, Pools)
  BY <1>1, <1>2, PickKeeps
<1>4. PICK x \in {"free", "sleeping"} : state' = [state EXCEPT ![current] = x]
  BY DEF Sleep, Exit
<1>5. state' \in [Proc -> {"free", "runnable", "sleeping"}]
  BY <1>2, <1>4 DEF StrideTypeOK
<1>6. \A p \in Proc : state'[p] = IF p = current THEN x ELSE state[p]
  BY <1>2, <1>4 DEF StrideTypeOK
<1>7. Runnable' = Pools
  BY <1>6 DEF Runnable, Pools
<1> QED BY <1>1, <1>3, <1>5, <1>7

\* A process that gets into the heap: p, which was asleep or free.
LEMMA JoinedIs ==
    ASSUME StrideInv, NEW p \in Proc, Wakeup(p) \/ Fork(p)
    PROVE  /\ p \notin Pools /\ p # current /\ Runnable' = Runnable \cup {p} /\ Pools' = Pools \cup {p}
           /\ state' \in [Proc -> {"free", "runnable", "sleeping"}]
           /\ stride' \in [Proc -> Words] /\ priority' \in [Proc -> Words]
           /\ current' = current /\ (current \in Proc => state'[current] = "runnable")
           /\ \A q \in Pools : stride'[q] = stride[q]
           /\ InTree(heap', Pools')
           /\ \A o : Orders(o, stride', Pools') /\ SortedIn(stride', heap, Pools)
                     => SortedIn(stride', heap', Pools')
<1>1. /\ InTree(heap, Pools) /\ StrideTypeOK /\ (current \in Proc => state[current] = "runnable")
  BY StrideInvIs
<1>2. /\ state[p] # "runnable" /\ state' = [state EXCEPT ![p] = "runnable"]
      /\ current' = current /\ heap' = skew_heap_insert(stride', heap, p)
      /\ \/ stride' = stride /\ priority' = priority
         \/ /\ stride' = [stride EXCEPT ![p] = 0]
            /\ priority' = [priority EXCEPT ![p] = 0]
  BY DEF Wakeup, Fork
<1>3. p \notin Pools /\ p # current
  BY <1>1, <1>2 DEF Pools, Runnable
<1>4. /\ state' \in [Proc -> {"free", "runnable", "sleeping"}]
      /\ \A q \in Proc : state'[q] = IF q = p THEN "runnable" ELSE state[q]
  BY <1>1, <1>2 DEF StrideTypeOK
<1>5. Runnable' = Runnable \cup {p}
  BY <1>4 DEF Runnable
<1>6. Pools' = Pools \cup {p}
  BY <1>2, <1>3, <1>5 DEF Pools
<1>7. 0 \in Words
  BY StrideAssumption DEF Words
<1>8. /\ stride' \in [Proc -> Words] /\ priority' \in [Proc -> Words]
      /\ \A q \in Proc : q # p => stride'[q] = stride[q]
  BY <1>1, <1>2, <1>7 DEF StrideTypeOK
<1>9. \A q \in Pools : stride'[q] = stride[q]
  BY <1>3, <1>8 DEF Pools, Runnable
<1>10. PICK s, g : /\ s \in [Proc -> Words] /\ s = stride'
                   /\ g = heap' /\ g = skew_heap_insert(s, heap, p)
  BY <1>2, <1>8
<1>11. /\ InTree(g, Pools \cup {p})
       /\ \A o : Orders(o, s, Pools \cup {p}) /\ SortedIn(s, heap, Pools)
                 => SortedIn(s, g, Pools \cup {p})
  BY <1>1, <1>3, <1>10, InsertKeeps
<1> QED BY <1>1, <1>2, <1>3, <1>4, <1>5, <1>6, <1>8, <1>9, <1>10, <1>11

LEMMA PrioritySetIs ==
    ASSUME StrideInv, NEW n \in Priorities, lab6_set_priority(n)
    PROVE  priority' \in [Proc -> Words] /\ UNCHANGED <<state, current, stride, heap>>
<1>1. n \in Words /\ 1 \in Words
  BY StrideAssumption DEF Words
<1>2. priority' = [priority EXCEPT ![current] = IF n = 0 THEN 1 ELSE n]
      /\ UNCHANGED <<state, current, stride, heap>>
  BY DEF lab6_set_priority
<1>3. priority \in [Proc -> Words]
  BY StrideInvIs DEF StrideTypeOK
<1> QED BY <1>1, <1>2, <1>3

LEMMA StrideNextInv == StrideInv /\ [StrideNext]_strideVars => StrideInv'
<1> SUFFICES ASSUME StrideInv, [StrideNext]_strideVars PROVE StrideInv'
  OBVIOUS
<1>1. /\ StrideTypeOK /\ InTree(heap, Pools)
      /\ current \in Proc => state[current] = "runnable"
  BY StrideInvIs
<1>2. SUFFICES /\ state' \in [Proc -> {"free", "runnable", "sleeping"}]
               /\ current' \in Proc \cup {Idle} /\ stride' \in [Proc -> Words]
               /\ priority' \in [Proc -> Words]
               /\ InTree(heap', Pools')
               /\ current' \in Proc => state'[current'] = "runnable"
  <2>1. InTree(heap', Pools') => heap' \in Heap /\ IsTree(heap', Pools')
    BY DEF InTree
  <2> QED BY <2>1 DEF StrideInv, HeapHoldsRunnable, StrideTypeOK, Pools, Runnable
\* What is left after schedule() has picked from a tree of the runnable ones.
<1>3. ASSUME NEW h, IsPicked(h, Runnable')
      PROVE  /\ current' \in Proc \cup {Idle} /\ stride' \in [Proc -> Words]
             /\ InTree(heap', Pools')
             /\ current' \in Proc => state'[current'] = "runnable"
  <2>1. InTree(heap', Pools') /\ stride' \in [Proc -> Words]
    BY <1>3 DEF IsPicked, Pools
  <2>2. current' = Idle \/ current' \in Runnable'
    BY <1>3 DEF IsPicked
  <2>3. current' \in Runnable' => current' \in Proc /\ state'[current'] = "runnable"
    BY DEF Runnable
  <2>4. Idle \notin Proc
    BY StrideAssumption
  <2> QED BY <2>1, <2>2, <2>3, <2>4
<1>4. CASE Resched
  <2>1. IsPicked(Pool, Runnable') /\ state' = state /\ priority' = priority
    BY <1>4, RescheduledIs
  <2> QED BY <1>1, <1>3, <2>1 DEF StrideTypeOK
<1>5. CASE Sleep \/ Exit
  <2>1. IsPicked(heap, Runnable') /\ priority' = priority
        /\ state' \in [Proc -> {"free", "runnable", "sleeping"}]
    BY <1>5, LeftIs
  <2> QED BY <1>1, <1>3, <2>1 DEF StrideTypeOK
<1>6. ASSUME NEW p \in Proc, Wakeup(p) \/ Fork(p)
      PROVE  /\ state' \in [Proc -> {"free", "runnable", "sleeping"}]
             /\ current' \in Proc \cup {Idle} /\ stride' \in [Proc -> Words]
             /\ priority' \in [Proc -> Words]
             /\ InTree(heap', Pools')
             /\ current' \in Proc => state'[current'] = "runnable"
  BY <1>1, <1>6, JoinedIs DEF StrideTypeOK
<1>7. ASSUME priority' \in [Proc -> Words], UNCHANGED <<state, current, stride, heap>>
      PROVE  /\ state' \in [Proc -> {"free", "runnable", "sleeping"}]
             /\ current' \in Proc \cup {Idle} /\ stride' \in [Proc -> Words]
             /\ priority' \in [Proc -> Words]
             /\ InTree(heap', Pools')
             /\ current' \in Proc => state'[current'] = "runnable"
  <2>1. Pools' = Pools
    BY <1>7 DEF Pools, Runnable
  <2> QED BY <1>1, <1>7, <2>1 DEF StrideTypeOK
<1>8. CASE \E n \in Priorities : lab6_set_priority(n)
  BY <1>7, <1>8, PrioritySetIs
<1>9. CASE UNCHANGED strideVars
  BY <1>1, <1>7, <1>9 DEF strideVars, StrideTypeOK
<1> QED BY <1>4, <1>5, <1>6, <1>8, <1>9 DEF StrideNext, Spin

\* The heap is always a tree of the runnable processes off the CPU (skew_heap_merge,
\* stride_enqueue, stride_dequeue), however many there are, and even while the strides
\* are no order.
THEOREM HeapCorrect == StrideSpec => []HeapHoldsRunnable
<1>1. StrideInv => HeapHoldsRunnable
  BY DEF StrideInv
<1> QED BY <1>1, StrideInitInv, StrideNextInv, PTL DEF StrideSpec

-----------------------------------------------------------------------------
LEMMA SortedPools ==
    /\ Sorted <=> SortedIn(stride, heap, Pools)
    /\ StridesClose <=> Close(stride, Runnable)
BY DEF Sorted, SortedIn, Pools, StridesClose, Close

\* Going on by less than half of the circle.
LEMMA AheadOf ==
    ASSUME NEW w \in Words, NEW d \in 0 .. HalfWords - 1
    PROVE  Ahead((w + d) % (2 * HalfWords), w) = d
<1>1. PICK K \in Nat \ {0} : K = 2 * HalfWords /\ HalfWords \in Nat
  BY StrideAssumption
<1>2. w \in Nat /\ w < K /\ d \in Nat /\ d < HalfWords
  BY <1>1 DEF Words
<1>3. PICK e \in Nat : e = w + d
  BY <1>2
<1>4. CASE e < K
  <2>1. e % K = e /\ e \in Words
    BY <1>1, <1>4 DEF Words
  <2>2. Ahead(e, w) = d
    BY <1>2, <1>3, <2>1, AheadIs
  <2> QED BY <1>1, <1>3, <2>1, <2>2
<1>5. CASE ~(e < K)
  <2>1. PICK f \in Nat : f = e - K /\ f < w
    BY <1>1, <1>2, <1>3, <1>5
  <2>2. e % K = f
    <3>1. K <= e /\ e < K + K
      BY <1>1, <1>2, <1>3, <1>5
    <3>2. e % K = e - K
      BY <3>1
    <3> QED BY <2>1, <3>2
  <2>3. f \in Words
    BY <1>1, <1>2, <2>1 DEF Words
  <2>4. Ahead(f, w) = f - w + 2 * HalfWords
    BY <1>2, <2>1, <2>3, AheadIs
  <2>5. f - w + 2 * HalfWords = d
    BY <1>1, <1>2, <1>3, <2>1
  <2> QED BY <1>1, <1>3, <2>2, <2>4, <2>5
<1> QED BY <1>4, <1>5

\* The heap that is left is sorted, if the one picked from was.
LEMMA PickedSorted ==
    ASSUME NEW h, NEW M \in SUBSET Proc, IsPicked(h, M), InTree(h, M), NEW o, Orders(o, stride, M),
           SortedIn(stride, h, M)
    PROVE  SortedIn(stride', heap', M \ {current'})
<1>1. CASE M = {}
  BY <1>1 DEF SortedIn
<1>2. CASE M # {}
  <2>1. \A p \in M \ {current'} : stride'[p] = stride[p]
    BY <1>2 DEF IsPicked
  <2>2. \A p, q \in M \ {current'} : Before(stride', p, q) <=> Before(stride, p, q)
    BY <2>1 DEF Before
  <2>3. Orders(o, stride', M \ {current'})
    BY <2>2 DEF Orders
  <2>4. SortedWithin(stride', h, M \ {current'})
    <3>1. ASSUME NEW p \in M \ {current'}, h.parent[p] \in M \ {current'}
          PROVE  ~Before(stride', p, h.parent[p])
      <4>1. h.parent[p] # NULL
        BY <3>1, NullIsNoProc
      <4>2. ~Before(stride, p, h.parent[p])
        BY <4>1 DEF SortedIn
      <4> QED BY <2>2, <3>1, <4>2
    <3> QED BY <3>1 DEF SortedWithin
  <2> QED BY <1>2, <2>3, <2>4 DEF IsPicked
<1> QED BY <1>1, <1>2

\* schedule(), when the strides are close and the heap is sorted.
LEMMA RescheduledOrder ==
    ASSUME StrideInv, Resched, StridesClose, Sorted
    PROVE  Minimal /\ StridesClose' /\ Sorted'
<1>1. /\ IsPicked(Pool, Runnable) /\ Runnable' = Runnable /\ InTree(Pool, Runnable)
      /\ Runnable \in SUBSET Proc
  BY RescheduledIs, PoolIs DEF Runnable
<1>2. /\ StrideTypeOK /\ stride \in [Proc -> Words] /\ Close(stride, Runnable)
      /\ SortedIn(stride, heap, Pools)
  BY StrideInvIs, SortedPools DEF StrideTypeOK
<1>3. PICK o : /\ Orders(o, stride, Runnable)
               /\ \A p, q \in Runnable :
                     /\ o[p] < HalfWords
                     /\ o[q] <= o[p] => Ahead(stride[p], stride[q]) = o[p] - o[q]
  BY <1>1, <1>2, CloseOrders
<1>4. SortedIn(stride, Pool, Runnable)
  BY <1>2, <1>3, PoolIs
<1>5. Runnable # {}
  BY <1>2 DEF Close
<1>6. PICK c \in Runnable : /\ c = current'
                            /\ \A p \in Runnable : o[c] <= o[p]
  <2>1. current' \in Runnable /\ current' = Pool.root
    BY <1>1, <1>5 DEF IsPicked
  <2>2. \A p \in Runnable : o[Pool.root] <= o[p]
    BY <1>1, <1>3, <1>4, RootLeast
  <2> QED BY <2>1, <2>2
<1>7. ASSUME NEW p \in Runnable PROVE Ahead(stride[p], stride[c]) < HalfWords
  <2>1. Ahead(stride[p], stride[c]) = o[p] - o[c] /\ o[p] < HalfWords
    BY <1>3, <1>6
  <2>2. o[p] \in Nat /\ o[c] \in Nat
    BY <1>1, <1>3 DEF Orders
  <2> QED BY <2>1, <2>2, StrideAssumption
<1>8. Minimal
  BY <1>6, <1>7 DEF Minimal
<1>9. StridesClose'
  <2>1. stride' \in [Proc -> Words]
    BY <1>1 DEF IsPicked
  <2>2. stride[c] \in Words /\ c \in Proc
    BY <1>1, <1>2
  <2>3. ASSUME NEW p \in Runnable PROVE Ahead(stride'[p], stride[c]) < HalfWords
    <3>1. p \in Proc /\ stride'[p] = IF p = c THEN (stride[p] + Pass(p)) % (2 * HalfWords) ELSE stride[p]
      BY <1>1, <1>5, <1>6 DEF IsPicked
    <3>2. CASE p = c
      <4>1. PICK d \in 0 .. HalfWords - 1 : d = Pass(p)
        BY <1>2, <3>1, PassIs
      <4>2. stride'[p] = (stride[c] + d) % (2 * HalfWords)
        BY <3>1, <3>2, <4>1
      <4>3. Ahead(stride'[p], stride[c]) = d
        BY <2>2, <4>2, AheadOf
      <4> QED BY <4>1, <4>3, StrideAssumption
    <3>3. CASE p # c
      BY <1>7, <3>1, <3>3
    <3> QED BY <3>2, <3>3
  <2>4. PICK s \in [Proc -> Words], w \in Words : s = stride' /\ w = stride[c]
    BY <2>1, <2>2
  <2>5. \A p \in Runnable : Ahead(s[p], w) < HalfWords
    BY <2>3, <2>4
  <2>6. Close(s, Runnable)
    BY <1>1, <1>5, <2>5, CloseFrom
  <2> QED BY <1>1, <2>4, <2>6 DEF StridesClose, Close
<1>10. Sorted'
  <2>1. SortedIn(stride', heap', Runnable \ {current'})
    BY <1>1, <1>3, <1>4, PickedSorted
  <2> QED BY <1>1, <2>1 DEF Sorted, SortedIn
<1> QED BY <1>8, <1>9, <1>10

\* A process that goes leaves the heap sorted.
LEMMA LeftOrder ==
    ASSUME StrideInv, Sleep \/ Exit, StridesClose, Sorted
    PROVE  Sorted'
<1>1. IsPicked(heap, Pools) /\ Runnable' = Pools
  BY LeftIs
<1>2. /\ InTree(heap, Pools) /\ stride \in [Proc -> Words] /\ Close(stride, Runnable)
      /\ SortedIn(stride, heap, Pools) /\ Runnable \in SUBSET Proc /\ Pools \subseteq Runnable
  BY StrideInvIs, SortedPools DEF StrideTypeOK, Runnable, Pools
<1>3. PICK o : Orders(o, stride, Runnable)
  BY <1>2, CloseOrders
<1>4. Orders(o, stride, Pools) /\ Pools \in SUBSET Proc
  BY <1>2, <1>3 DEF Orders
<1>5. SortedIn(stride', heap', Pools \ {current'})
  BY <1>1, <1>2, <1>4, PickedSorted
<1> QED BY <1>1, <1>5 DEF Sorted, SortedIn

\* One that comes is put in its place, unless it is too far away.
LEMMA JoinedOrder ==
    ASSUME StrideInv, NEW p \in Proc, Wakeup(p) \/ Fork(p), Sorted, StridesClose'
    PROVE  Sorted'
<1>1. /\ Pools' = Pools \cup {p} /\ stride' \in [Proc -> Words]
      /\ \A q \in Pools : stride'[q] = stride[q]
      /\ \A o : Orders(o, stride', Pools') /\ SortedIn(stride', heap, Pools)
                => SortedIn(stride', heap', Pools')
  BY JoinedIs
<1>2. InTree(heap, Pools) /\ SortedIn(stride, heap, Pools)
  BY StrideInvIs, SortedPools
<1>3. Runnable' \in SUBSET Proc /\ Pools' \subseteq Runnable'
  BY DEF Runnable, Pools
<1>4. PICK s \in [Proc -> Words], S \in SUBSET Proc : s = stride' /\ S = Runnable'
  BY <1>1, <1>3
<1>5. Close(s, S)
  BY <1>4 DEF StridesClose, Close
<1>6. PICK o : Orders(o, s, S)
  BY <1>5, CloseOrders
<1>7. Orders(o, stride', Pools')
  BY <1>3, <1>4, <1>6 DEF Orders
<1>8. SortedIn(stride', heap, Pools)
  <2>1. ASSUME NEW q \in Pools, heap.parent[q] # NULL
        PROVE  ~Before(stride', q, heap.parent[q])
    <3>1. heap.parent[q] \in Pools
      BY <1>2, <2>1 DEF InTree, IsTree
    <3>2. ~Before(stride, q, heap.parent[q])
      BY <1>2, <2>1 DEF SortedIn
    <3> QED BY <1>1, <3>1, <3>2 DEF Before
  <2> QED BY <2>1 DEF SortedIn
<1>9. SortedIn(stride', heap', Pools')
  BY <1>1, <1>7, <1>8
<1> QED BY <1>9 DEF Sorted, SortedIn, Pools

\* Close strides stay close while processes only compute, however often they wrap
\* around; schedule() picks the minimum; and the heap is sorted again after whatever
\* happens, unless a stride is too far away.
THEOREM OrderKept == StrideSpec => KeepsOrder
<1>1. ASSUME StrideInv, [StrideNext]_strideVars
      PROVE  [StridesClose /\ Sorted =>
                /\ Spin => StridesClose'
                /\ Resched => Minimal
                /\ (StridesClose => Sorted)']_strideVars
  <2>1. SUFFICES ASSUME StrideNext, StridesClose, Sorted
                 PROVE  /\ Spin => StridesClose'
                        /\ Resched => Minimal
                        /\ StridesClose' => Sorted'
    BY <1>1
  <2>2. ASSUME NEW n \in Priorities, lab6_set_priority(n) PROVE StridesClose' /\ Sorted'
    <3>1. UNCHANGED <<state, current, stride, heap>>
      BY <1>1, <2>2, PrioritySetIs
    <3> QED BY <2>1, <3>1 DEF StridesClose, Sorted, Runnable
  <2>3. Resched => Minimal /\ StridesClose' /\ Sorted'
    BY <1>1, <2>1, RescheduledOrder
  <2>4. Sleep \/ Exit => Sorted'
    BY <1>1, <2>1, LeftOrder
  <2>5. ASSUME NEW p \in Proc, Wakeup(p) \/ Fork(p), StridesClose' PROVE Sorted'
    BY <1>1, <2>1, <2>5, JoinedOrder
  <2> QED BY <2>1, <2>2, <2>3, <2>4, <2>5 DEF StrideNext, Spin
<1> QED BY <1>1, StrideInitInv, StrideNextInv, PTL DEF StrideSpec, KeepsOrder
=============================================================================
