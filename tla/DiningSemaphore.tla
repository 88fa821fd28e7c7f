-------------------------- MODULE DiningSemaphore --------------------------
(***************************************************************************)
(* philosopher_using_semaphore of check_sync.c: N kernel threads around a  *)
(* mutex, a semaphore for each, and their states.  A call of down() or     *)
(* up(), with the code before it, is one step.                             *)
(***************************************************************************)
EXTENDS Philosophers

VARIABLES
    value, queue, wait_state, wakeup_flags, pc,   \* see Semaphores
    state_sema,   \* THINKING, HUNGRY or EATING
    iter          \* meals begun

\* The semaphores by number: s[i] is i.
mutex == -1

Sems == Phil \cup {mutex}

INSTANCE Semaphores WITH Proc <- Phil, Sem <- Sems

vars == <<semVars, state_sema, iter>>

TypeOK ==
    /\ SemTypeOK
    /\ state_sema \in [Phil -> {"THINKING", "HUNGRY", "EATING"}]
    /\ iter \in [Phil -> 0 .. TIMES]

-----------------------------------------------------------------------------
\* phi_test_sema(i) on the given states: i gets its forks and the permit to eat.
phi_test_sema(i, state) ==
    IF MayEat(i, state)
    THEN state_sema' = [state EXCEPT ![i] = "EATING"] /\ Up(i)
    ELSE state_sema' = state /\ UNCHANGED <<value, queue, wait_state, wakeup_flags>>

\* The loop of philosopher_using_semaphore, at do_sleep: another round or none.
Think(i) ==
    /\ pc[i] = "think"
    /\ IF iter[i] < TIMES
       THEN iter' = [iter EXCEPT ![i] = @ + 1] /\ GoTo(i, "take")
       ELSE UNCHANGED iter /\ GoTo(i, "quit")
    /\ UNCHANGED <<value, queue, wait_state, wakeup_flags, state_sema>>

\* down() of a semaphore, and up(&mutex).
DownStep(s, i, from, to) == Down(s, i, from, to) /\ UNCHANGED <<state_sema, iter>>

UpMutex(i, from, to) ==
    /\ pc[i] = from
    /\ Up(mutex)
    /\ GoTo(i, to)
    /\ UNCHANGED <<state_sema, iter>>

\* phi_take_forks_sema: the mutex is free again before the wait for the forks.
Take(i) == DownStep(mutex, i, "take", "declare")

Declare(i) ==
    /\ pc[i] = "declare"
    /\ phi_test_sema(i, [state_sema EXCEPT ![i] = "HUNGRY"])
    /\ GoTo(i, "declared")
    /\ UNCHANGED iter

TakeLeave(i) == UpMutex(i, "declared", "wait")
WaitForForks(i) == DownStep(i, i, "wait", "eat")

\* phi_put_forks_sema, after the do_sleep of the meal.
Put(i) == DownStep(mutex, i, "eat", "put")

PutForks(i) ==
    /\ pc[i] = "put"
    /\ phi_test_sema(LEFT(i), [state_sema EXCEPT ![i] = "THINKING"])
    /\ GoTo(i, "right")
    /\ UNCHANGED iter

TestRight(i) ==
    /\ pc[i] = "right"
    /\ phi_test_sema(RIGHT(i), state_sema)
    /\ GoTo(i, "leave")
    /\ UNCHANGED iter

PutLeave(i) == UpMutex(i, "leave", "think")

Step(i) ==
    \/ Think(i) \/ Take(i) \/ Declare(i) \/ TakeLeave(i) \/ WaitForForks(i)
    \/ Put(i) \/ PutForks(i) \/ TestRight(i) \/ PutLeave(i)

\* check_sync initialises the semaphores; state_sema is all zeros, THINKING.
Init ==
    /\ SemInit([s \in Sems |-> IF s = mutex THEN 1 ELSE 0])
    /\ pc = [i \in Phil |-> "think"]
    /\ state_sema = [i \in Phil |-> "THINKING"]
    /\ iter = [i \in Phil |-> 0]

Next == \E i \in Phil : Step(i)

Spec == Init /\ [][Next]_vars

-----------------------------------------------------------------------------
\* A permit of i's own semaphore: not taken yet, or handed to i and i not run yet.
Permits(i) == value[i] + (IF pc[i] = "wait" /\ InDown(i) /\ ~Asleep(i) THEN 1 ELSE 0)

\* Whoever tests a philosopher between its up(&mutex) and its down(&s[i]), or long
\* before it runs again, leaves it one permit exactly: a philosopher marked as eating
\* that does not eat yet has one waiting, and nobody else has.  One too many would let
\* it eat in a later round without forks, one too few would leave the forks on the
\* table for ever.
PermitForEachMeal ==
    /\ TypeOK
    /\ \A i \in Phil :
         Permits(i) = IF state_sema[i] = "EATING" /\ pc[i] \in {"declared", "wait"} THEN 1 ELSE 0

\* What each philosopher really does, by its place in the code.
phase ==
    [i \in Phil |->
       IF pc[i] \in {"eat", "put"} THEN "eating"
       ELSE IF pc[i] \in {"take", "declare", "declared", "wait"} THEN "hungry" ELSE "thinking"]

\* Neighbours never eat at the same time.
Table == INSTANCE Dining WITH phase <- phase

EatsWithBothForks == Table!DiningSpec
=============================================================================
