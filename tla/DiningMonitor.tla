--------------------------- MODULE DiningMonitor ---------------------------
(***************************************************************************)
(* philosopher_using_condvar of check_sync.c: N kernel threads around a    *)
(* monitor with a condition per philosopher.  The code between two calls   *)
(* that can block is one step.                                             *)
(***************************************************************************)
EXTENDS Philosophers

VARIABLES
    value, queue, wait_state, wakeup_flags, pc, next_count, count,   \* see Monitor
    state_condvar,   \* THINKING, HUNGRY or EATING
    iter             \* meals begun

INSTANCE Monitor WITH Proc <- Phil, Cond <- Phil

vars == <<monVars, state_condvar, iter>>

TypeOK ==
    /\ MonTypeOK
    /\ state_condvar \in [Phil -> {"THINKING", "HUNGRY", "EATING"}]
    /\ iter \in [Phil -> 0 .. TIMES]

-----------------------------------------------------------------------------
\* Mutant: the signal is outside the if.
phi_test_condvar_Always(i, state, p, from, signalled, to) ==
    /\ state_condvar' = IF MayEat(i, state) THEN [state EXCEPT ![i] = "EATING"] ELSE state
    /\ CondSignalNobody(i, p, from, to) \/ CondSignal(i, p, from, signalled, to)

\* Mutant: it is marked, but not told.
phi_test_condvar_Silent(i, state, p, from, signalled, to) ==
    /\ pc[p] = from
    /\ state_condvar' = IF MayEat(i, state) THEN [state EXCEPT ![i] = "EATING"] ELSE state
    /\ GoTo(p, to)
    /\ UNCHANGED <<value, queue, wait_state, wakeup_flags, next_count, count>>

\* phi_test_condvar(i), called by p on the given states.
phi_test_condvar(i, state, p, from, signalled, to) ==
    \/ /\ MayEat(i, state)
       /\ state_condvar' = [state EXCEPT ![i] = "EATING"]
       /\ CondSignalNobody(i, p, from, to) \/ CondSignal(i, p, from, signalled, to)
    \/ /\ pc[p] = from
       /\ ~MayEat(i, state)
       /\ state_condvar' = state
       /\ GoTo(p, to)
       /\ UNCHANGED <<value, queue, wait_state, wakeup_flags, next_count, count>>

\* The loop of philosopher_using_condvar, at do_sleep: another round or none.
Think(i) ==
    /\ pc[i] = "think"
    /\ IF iter[i] < TIMES
       THEN iter' = [iter EXCEPT ![i] = @ + 1] /\ GoTo(i, "take")
       ELSE UNCHANGED iter /\ GoTo(i, "quit")
    /\ UNCHANGED <<value, queue, wait_state, wakeup_flags, next_count, count, state_condvar>>

\* phi_take_forks_condvar.  Its own signal finds nobody waiting.
Take(i) ==
    /\ EnterMonitor(i, "take", "declare")
    /\ UNCHANGED <<state_condvar, iter>>

Declare(i) ==
    /\ phi_test_condvar(i, [state_condvar EXCEPT ![i] = "HUNGRY"], i,
                        "declare", "declaring", "check")
    /\ UNCHANGED iter

WaitForForks(i) ==
    /\ state_condvar[i] # "EATING"
    /\ CondWait(i, i, "check", "waiting")
    /\ UNCHANGED <<state_condvar, iter>>

WaitBack(i) ==
    /\ CondWaitBack(i, i, "waiting", "check")
    /\ UNCHANGED <<state_condvar, iter>>

\* Mutant: the philosopher eats whatever its state is.
TakeLeave_Unchecked(i) ==
    /\ LeaveMonitor(i, "check", "eat")
    /\ UNCHANGED <<state_condvar, iter>>

TakeLeave(i) ==
    /\ state_condvar[i] = "EATING"
    /\ LeaveMonitor(i, "check", "eat")
    /\ UNCHANGED <<state_condvar, iter>>

\* phi_put_forks_condvar.
Put(i) ==
    /\ EnterMonitor(i, "eat", "put")
    /\ UNCHANGED <<state_condvar, iter>>

PutForks(i) ==
    /\ phi_test_condvar(LEFT(i), [state_condvar EXCEPT ![i] = "THINKING"], i,
                        "put", "signalled left", "right")
    /\ UNCHANGED iter

LeftBack(i) ==
    /\ CondSignalBack(i, "signalled left", "right")
    /\ UNCHANGED <<state_condvar, iter>>

TestRight(i) ==
    /\ phi_test_condvar(RIGHT(i), state_condvar, i, "right", "signalled right", "leave")
    /\ UNCHANGED iter

RightBack(i) ==
    /\ CondSignalBack(i, "signalled right", "leave")
    /\ UNCHANGED <<state_condvar, iter>>

PutLeave(i) ==
    /\ LeaveMonitor(i, "leave", "think")
    /\ UNCHANGED <<state_condvar, iter>>

Step(i) ==
    \/ Think(i) \/ Take(i) \/ Declare(i) \/ WaitForForks(i) \/ WaitBack(i) \/ TakeLeave(i)
    \/ Put(i) \/ PutForks(i) \/ LeftBack(i) \/ TestRight(i) \/ RightBack(i) \/ PutLeave(i)

Init ==
    /\ MonitorInit
    /\ pc = [i \in Phil |-> "think"]
    /\ state_condvar = [i \in Phil |-> "THINKING"]
    /\ iter = [i \in Phil |-> 0]

Next == \E i \in Phil : Step(i)

Spec == Init /\ [][Next]_vars

\* A kernel thread that can run is picked by schedule() again, and its do_sleep
\* ends (see Process).
FairSpec == Spec /\ \A i \in Phil : WF_vars(Step(i))

-----------------------------------------------------------------------------
\* Has the monitor: runs in it, or has been given it by up() and not run yet.
Active(i) ==
    IF InDown(i) THEN ~Asleep(i) ELSE pc[i] \in {"declare", "check", "put", "right", "leave"}

\* The monitor is in one hand: either one process is active and no semaphore is
\* up, or one semaphore is up, once, and nobody is active.  Two hands would be two
\* processes inside at once, and none a monitor that nobody can enter again.
OneActive ==
    \/ /\ \A s \in Sems : value[s] = 0
       /\ \E i \in Phil : Active(i) /\ \A j \in Phil : Active(j) => j = i
    \/ /\ \E s \in Sems : value[s] = 1 /\ \A t \in Sems \ {s} : value[t] = 0
       /\ \A i \in Phil : ~Active(i)

\* The counts, on which every decision of monitor.c rests, are those of the
\* processes inside cond_wait and cond_signal.
CountsExact ==
    /\ next_count = Cardinality({i \in Phil :
                        pc[i] \in {"declaring", "signalled left", "signalled right"}})
    /\ \A c \in Phil : count[c] = IF pc[c] = "waiting" THEN 1 ELSE 0

\* The monitor is handed from one to the next, and never lost or doubled.
MonitorInv == TypeOK /\ OneActive /\ CountsExact

\* While a signaller waits to go on, nobody comes in from outside.
SignallersFirst ==
    [][\A i \in Phil :
          next_count > 0 /\ pc[i] \in {"take", "eat"} /\ ~Active(i) => ~Active(i)']_vars

\* What the signaller saw still holds when the woken philosopher runs: nobody else
\* gets into the monitor in between, so it never goes round the loop of
\* phi_take_forks_condvar a second time.
WokenMayEat ==
    \A i \in Phil : pc[i] = "waiting" /\ InDown(i) /\ ~Asleep(i) => state_condvar[i] = "EATING"

\* What each philosopher really does, by its place in the code.
phase ==
    [i \in Phil |->
       IF pc[i] \in {"eat", "put"} THEN "eating"
       ELSE IF pc[i] \in {"take", "declare", "declaring", "check", "waiting"}
            THEN "hungry" ELSE "thinking"]

\* Neighbours never eat at the same time.
Table == INSTANCE Dining WITH phase <- phase

EatsWithBothForks == Table!DiningSpec

\* All meals are eaten: nobody is left behind in one of the semaphores.
EverybodyQuits == <>(\A i \in Phil : pc[i] = "quit")
=============================================================================
