------------------------------ MODULE Monitor ------------------------------
(***************************************************************************)
(* Monitors with condition variables in the style of Hoare (monitor.c),    *)
(* built from semaphores: mutex for coming in, next for signallers, which  *)
(* stay blocked while the process they woke runs, and one per condition.   *)
(* At any time one process is active in the monitor; it hands the monitor  *)
(* on with the semaphore it ups.                                           *)
(*                                                                         *)
(* This module has the state and the steps; the labels of the calls are    *)
(* those of the routines in the modules that use it.                       *)
(***************************************************************************)
EXTENDS Integers, Sequences, FiniteSets

CONSTANTS
    Proc,   \* the processes
    Cond    \* the condition variables, numbers in 0 .. num_cv - 1

VARIABLES
    value, queue, wait_state, wakeup_flags, pc,   \* see Semaphores
    next_count,   \* mtp->next_count, signallers that wait to go on
    count         \* cvp->count, waiters on each condition

\* The semaphores by number: cv[c].sem is c.
mutex == -1
next == -2
Sems == Cond \cup {mutex, next}

INSTANCE Semaphores WITH Sem <- Sems

monVars == <<semVars, next_count, count>>

MonTypeOK ==
    /\ SemTypeOK
    /\ next_count \in Nat
    /\ count \in [Cond -> Nat]

MonitorInit ==
    /\ SemInit([s \in Sems |-> IF s = mutex THEN 1 ELSE 0])
    /\ next_count = 0
    /\ count = [c \in Cond |-> 0]

-----------------------------------------------------------------------------
EnterMonitor(p, from, to) ==
    /\ Down(mutex, p, from, to)
    /\ UNCHANGED <<next_count, count>>

\* Mutant: the monitor is opened to newcomers as well.
HandOn_Both ==
    /\ value' = [value EXCEPT ![mutex] = @ + 1, ![next] = IF next_count > 0 THEN @ + 1 ELSE @]
    /\ UNCHANGED <<queue, wait_state, wakeup_flags>>

\* Who stops being active lets a signaller go on, or opens the monitor.
HandOn == IF next_count > 0 THEN Up(next) ELSE Up(mutex)

LeaveMonitor(p, from, to) ==
    /\ pc[p] = from
    /\ HandOn
    /\ GoTo(p, to)
    /\ UNCHANGED <<next_count, count>>

\* cond_wait(cv[c]): from its first line up to down(cv.sem), at the label asleep.
CondWait(c, p, from, asleep) ==
    /\ pc[p] = from
    /\ count' = [count EXCEPT ![c] = @ + 1]
    /\ HandOn
    /\ GoTo(p, asleep)
    /\ UNCHANGED next_count

\* The rest of cond_wait.
CondWaitBack(c, p, asleep, to) ==
    /\ Down(c, p, asleep, to)
    /\ count' = IF pc'[p] = asleep THEN count ELSE [count EXCEPT ![c] = @ - 1]
    /\ UNCHANGED next_count

\* cond_signal(cv[c]) with nobody waiting, and up to down(next).
CondSignalNobody(c, p, from, to) ==
    /\ pc[p] = from
    /\ ~(count[c] > 0)
    /\ GoTo(p, to)
    /\ UNCHANGED <<value, queue, wait_state, wakeup_flags, next_count, count>>

\* Mutant: the signaller goes on as well.
CondSignal_Goes(c, p, from, asleep, to) ==
    /\ pc[p] = from
    /\ count[c] > 0
    /\ Up(c)
    /\ GoTo(p, to)
    /\ UNCHANGED <<next_count, count>>

CondSignal(c, p, from, asleep, to) ==
    /\ pc[p] = from
    /\ count[c] > 0
    /\ next_count' = next_count + 1
    /\ Up(c)
    /\ GoTo(p, asleep)
    /\ UNCHANGED count

\* The rest of cond_signal.
CondSignalBack(p, asleep, to) ==
    /\ Down(next, p, asleep, to)
    /\ next_count' = IF pc'[p] = asleep THEN next_count ELSE next_count - 1
    /\ UNCHANGED count
=============================================================================
