----------------------------- MODULE Semaphores -----------------------------
(***************************************************************************)
(* The kernel's counting semaphores (sem.c) on their wait queues (wait.c): *)
(* the state and the steps that the modules about their users are built    *)
(* from.  A stretch of code with interrupts off is one step.               *)
(*                                                                         *)
(* pc says where a process is in its user's code.  A process that waits in *)
(* down() stays at the call; its wait_t, on its stack, exists meanwhile.   *)
(***************************************************************************)
EXTENDS Integers, Sequences, FiniteSets

CONSTANTS
    Proc,   \* the processes
    Sem     \* the semaphores

VARIABLES
    value,         \* sem->value
    queue,         \* the processes in sem->wait_queue, first in first out
    wait_state,    \* proc->wait_state; not "0" exactly while asleep
    wakeup_flags,  \* wait->wakeup_flags; "none": no wait_t, not in down()
    pc             \* program counter, with the labels of the using module

semVars == <<value, queue, wait_state, wakeup_flags, pc>>

\* The wait states that do_kill may interrupt.
WT_INTERRUPTED == {"WT_CHILD", "WT_TIMER", "WT_KBD"}

SemTypeOK ==
    /\ value \in [Sem -> Nat]
    /\ queue \in [Sem -> Seq(Proc)]
    /\ wait_state \in [Proc -> {"0", "WT_KSEM"}]
    /\ wakeup_flags \in [Proc -> {"none", "WT_INTERRUPTED", "WT_KSEM"}]

Asleep(p) == wait_state[p] # "0"

InDown(p) == wakeup_flags[p] # "none"

Queued(s, p) == \E i \in DOMAIN queue[s] : queue[s][i] = p

GoTo(p, to) == pc' = [pc EXCEPT ![p] = to]

SemInit(initial) ==
    /\ value = initial
    /\ queue = [s \in Sem |-> <<>>]
    /\ wait_state = [p \in Proc |-> "0"]
    /\ wakeup_flags = [p \in Proc |-> "none"]

-----------------------------------------------------------------------------
\* Mutant: the newcomer becomes the first in the queue.
WaitCurrentSet_Front(s, p) ==
    /\ queue' = [queue EXCEPT ![s] = <<p>> \o @]
    /\ wait_state' = [wait_state EXCEPT ![p] = "WT_KSEM"]
    /\ wakeup_flags' = [wakeup_flags EXCEPT ![p] = "WT_INTERRUPTED"]

\* wait_current_set: sleep as the last in the queue; nobody has answered yet.
WaitCurrentSet(s, p) ==
    /\ queue' = [queue EXCEPT ![s] = Append(@, p)]
    /\ wait_state' = [wait_state EXCEPT ![p] = "WT_KSEM"]
    /\ wakeup_flags' = [wakeup_flags EXCEPT ![p] = "WT_INTERRUPTED"]

\* Mutant: the waiter is woken but left in the queue.
WakeupWait_StaysQueued(s, p) ==
    /\ wakeup_flags' = [wakeup_flags EXCEPT ![p] = "WT_KSEM"]
    /\ wait_state' = [wait_state EXCEPT ![p] = "0"]
    /\ UNCHANGED queue

\* wakeup_wait, with del: off the queue, told why, and made runnable.
WakeupWait(s, p) ==
    /\ queue' = [queue EXCEPT ![s] = Tail(@)]
    /\ wakeup_flags' = [wakeup_flags EXCEPT ![p] = "WT_KSEM"]
    /\ wait_state' = [wait_state EXCEPT ![p] = "0"]

\* down() when there is a permit, and when there is none.
DownTakes(s, p, to) ==
    /\ ~InDown(p)
    /\ value[s] > 0
    /\ value' = [value EXCEPT ![s] = @ - 1]
    /\ GoTo(p, to)
    /\ UNCHANGED <<queue, wait_state, wakeup_flags>>

DownSleeps(s, p) ==
    /\ ~InDown(p)
    /\ ~(value[s] > 0)
    /\ WaitCurrentSet(s, p)
    /\ UNCHANGED <<value, pc>>

\* __down after schedule(): out of the queue if still in it.  The waker's
\* permit is the process' own now, and value is not looked at again; down()
\* asserts that it was up() that woke it.
DownReturns(s, p, to) ==
    /\ InDown(p)
    /\ ~Asleep(p)
    /\ queue' = IF Queued(s, p)
                THEN [queue EXCEPT ![s] = SelectSeq(@, LAMBDA q : q # p)] ELSE queue
    /\ wakeup_flags' = [wakeup_flags EXCEPT ![p] = "none"]
    /\ GoTo(p, IF wakeup_flags[p] = "WT_KSEM" THEN to ELSE "panic")
    /\ UNCHANGED <<value, wait_state>>

\* A call of down() at the label from, and whatever part of it comes next.
Down(s, p, from, to) ==
    /\ pc[p] = from
    /\ DownTakes(s, p, to) \/ DownSleeps(s, p) \/ DownReturns(s, p, to)

\* Mutant: the permit goes to the value as well as to the first waiter.
Up_Both(s) ==
    /\ value' = [value EXCEPT ![s] = @ + 1]
    /\ IF queue[s] = <<>>
       THEN UNCHANGED <<queue, wait_state, wakeup_flags>>
       ELSE WakeupWait(s, Head(queue[s]))

\* Mutant: the permit goes to the value, and no waiter is told.
Up_WakesNobody(s) ==
    /\ value' = [value EXCEPT ![s] = @ + 1]
    /\ UNCHANGED <<queue, wait_state, wakeup_flags>>

\* up(): the permit goes to the first waiter, or back into the value.
Up(s) ==
    IF queue[s] = <<>>
    THEN /\ value' = [value EXCEPT ![s] = @ + 1]
         /\ UNCHANGED <<queue, wait_state, wakeup_flags>>
    ELSE /\ WakeupWait(s, Head(queue[s]))
         /\ UNCHANGED value
=============================================================================
