------------------------------ MODULE Process ------------------------------
(***************************************************************************)
(* Processes of uCore (lab8): their life cycle and their scheduling on the *)
(* one CPU.  The kernel is not preemptible: the CPU moves to another       *)
(* process only inside schedule().  Interrupts stay enabled in the kernel  *)
(* (a system call enters through a trap gate), so the timer interrupt may  *)
(* run between any two steps of `current', here between any two actions;   *)
(* a local_intr_save section is one action.                                *)
(*                                                                         *)
(* A process is its struct proc_struct: a pid is the struct it names (the  *)
(* allocation of numbers is a concern of its own), a free struct has state *)
(* "NONE".  The stride policy is abstracted to "any queued process"; the   *)
(* delta list of timers to the ticks each process has left; memory and     *)
(* files to the failures they can cause.                                   *)
(***************************************************************************)
EXTENDS Integers, FiniteSets

CONSTANTS
    Proc,             \* the proc_structs kmalloc can hand out
    idleproc,         \* proc 0, runs when nothing else can
    initproc,         \* proc 1, adopts and reaps orphans
    NoProc,           \* the null pointer
    MAX_PROCESS,      \* bound tested by do_fork
    MAX_TIME_SLICE,   \* ticks a process runs before it must reschedule
    MaxSleep          \* bound on the argument of sleep (model only)

ASSUME ProcAssumption ==
    /\ idleproc \in Proc
    /\ initproc \in Proc
    /\ idleproc # initproc
    /\ NoProc \notin Proc

ASSUME NumberAssumption ==
    /\ IsFiniteSet(Proc)
    /\ MAX_PROCESS \in Nat
    /\ MAX_TIME_SLICE \in Nat \ {0}
    /\ MaxSleep \in Nat

VARIABLES
    state,         \* proc->state
    wait_state,    \* proc->wait_state
    exiting,       \* PF_EXITING \in proc->flags
    need_resched,  \* proc->need_resched
    time_slice,    \* proc->time_slice
    parent,        \* proc->parent
    timer,         \* ticks left of the process' timer, 0: not in timer_list
    nr_process,    \* processes in existence, idleproc included
    runq,          \* processes in rq->lab6_run_pool
    current,       \* the process on the CPU
    pc,            \* where each process is, or will go on when switched to
    arg,           \* the process a call in progress is about
    halted         \* why the machine stopped, "no" while it runs

vars == <<state, wait_state, exiting, need_resched, time_slice, parent, timer,
          nr_process, runq, current, pc, arg, halted>>

States     == {"NONE", "UNINIT", "SLEEPING", "RUNNABLE", "ZOMBIE"}
WaitStates == {"0", "WT_CHILD", "WT_TIMER"}
\* The wait states with the WT_INTERRUPTED bit.
WT_INTERRUPTED == {"WT_CHILD", "WT_TIMER"}

\* Control points.  A process that is not current is at one of Parked.
Parked == {"none", "user", "wait_back", "sleep_back", "dead", "wait", "idle", "fork"}
Labels == Parked \cup
    {"fork_wake", "wait_set", "wait_sched", "kill", "kill_wake", "sleep",
     "sleep_sched", "exit", "exit_notify", "exit_sched", "trapret",
     "init_sched", "init_end", "halted"}

Halts == {"no", "assert", "initexit", "boot", "shutdown"}
Running == halted = "no"

TypeOK ==
    /\ state \in [Proc -> States]
    /\ wait_state \in [Proc -> WaitStates]
    /\ exiting \in [Proc -> BOOLEAN]
    /\ need_resched \in [Proc -> BOOLEAN]
    /\ time_slice \in [Proc -> 0 .. MAX_TIME_SLICE]
    /\ parent \in [Proc -> Proc \cup {NoProc}]
    /\ timer \in [Proc -> 0 .. MaxSleep]
    /\ nr_process \in Int
    /\ runq \subseteq Proc
    /\ current \in Proc
    /\ pc \in [Proc -> Labels]
    /\ arg \in [Proc -> Proc \cup {NoProc}]
    /\ halted \in Halts

-----------------------------------------------------------------------------
\* The processes that find_proc and the cptr/optr chain can reach.
Live == {p \in Proc : state[p] # "NONE"}

Children(p) == {q \in Live : parent[q] = p}

\* set_links and remove_links, the lists reduced to the parent pointers.
SetLinks(child) ==
    /\ parent' = [parent EXCEPT ![child] = current]
    /\ nr_process' = nr_process + 1

RemoveLinks(q) ==
    /\ parent' = [parent EXCEPT ![q] = NoProc]
    /\ nr_process' = nr_process - 1

\* Mutant: the slice is added to what is left of the old one.
Refill_Adds(S) ==
    time_slice' = [p \in Proc |-> IF p \in S THEN time_slice[p] + MAX_TIME_SLICE
                                  ELSE time_slice[p]]

\* stride_enqueue refills the time slice of the processes it puts in the queue.
Refill(S) ==
    time_slice' = [p \in Proc |-> IF p \in S /\ time_slice[p] = 0
                                  THEN MAX_TIME_SLICE ELSE time_slice[p]]

\* wakeup_proc on every process of S, whose assertion ZombieFree(S) is.
ZombieFree(S) == \A p \in S : state[p] # "ZOMBIE"

\* Mutant: the process on the CPU is queued too.
Wakeup_QueuesCurrent(S) ==
    LET woken == {p \in S : state[p] # "RUNNABLE"}
    IN  /\ state' = [p \in Proc |-> IF p \in woken THEN "RUNNABLE" ELSE state[p]]
        /\ wait_state' = [p \in Proc |-> IF p \in woken THEN "0" ELSE wait_state[p]]
        /\ runq' = runq \cup (woken \ {idleproc})

\* Mutant: the reason for the wait is left behind.
Wakeup_KeepsReason(S) ==
    LET woken == {p \in S : state[p] # "RUNNABLE"}
    IN  /\ state' = [p \in Proc |-> IF p \in woken THEN "RUNNABLE" ELSE state[p]]
        /\ runq' = runq \cup (woken \ {current, idleproc})
        /\ UNCHANGED wait_state

Wakeup(S) ==
    LET woken == {p \in S : state[p] # "RUNNABLE"}
        queued == woken \ {current, idleproc}
    IN  /\ state' = [p \in Proc |-> IF p \in woken THEN "RUNNABLE" ELSE state[p]]
        /\ wait_state' = [p \in Proc |-> IF p \in woken THEN "0" ELSE wait_state[p]]
        /\ runq' = runq \cup queued

\* A failed assert() or a panic() stops the machine where it is.
Halt(why) ==
    /\ halted' = why
    /\ pc' = [pc EXCEPT ![current] = "halted"]
    /\ UNCHANGED <<state, wait_state, exiting, need_resched, time_slice, parent,
                   timer, nr_process, runq, current, arg>>

Goto(l) == pc' = [pc EXCEPT ![current] = l]

\* current leaves the kernel function it is in: init_main goes on with its
\* loop, a user process returns through trap().
Return == Goto(IF current = initproc THEN "wait" ELSE "trapret")

\* schedule(): current will go on at `back' when it is chosen again.
Schedule(back) ==
    LET requeued == IF state[current] = "RUNNABLE" THEN {current} \ {idleproc} ELSE {}
        q == runq \cup requeued
    IN  /\ need_resched' = [need_resched EXCEPT ![current] = FALSE]
        /\ Refill(requeued)
        /\ IF q = {}
           THEN current' = idleproc /\ runq' = {}
           ELSE \E next \in q : current' = next /\ runq' = q \ {next}
        /\ Goto(back)
        /\ UNCHANGED <<state, wait_state, exiting, parent, timer, nr_process, arg, halted>>

-----------------------------------------------------------------------------
(***************************************************************************)
(* System calls.  User code may make any call, at any time.                *)
(***************************************************************************)
SysEnter ==
    /\ pc[current] = "user"
    /\ \/ \E call \in {"fork", "kill", "sleep", "exit"} :
            Goto(call) /\ UNCHANGED arg
       \/ \E t \in Proc \cup {NoProc} :     \* NoProc: wait for any child
            Goto("wait") /\ arg' = [arg EXCEPT ![current] = t]
       \/ Goto("trapret") /\ UNCHANGED arg  \* a call that changes nothing here
    /\ UNCHANGED <<state, wait_state, exiting, need_resched, time_slice, parent,
                   timer, nr_process, runq, current, halted>>

SysYield ==                                          \* do_yield
    /\ pc[current] = "user"
    /\ need_resched' = [need_resched EXCEPT ![current] = TRUE]
    /\ Goto("trapret")
    /\ UNCHANGED <<state, wait_state, exiting, time_slice, parent, timer,
                   nr_process, runq, current, arg, halted>>

(***************************************************************************)
(* do_fork: the new struct is filled and linked, then woken up.            *)
(***************************************************************************)
ForkLink ==
    /\ pc[current] = "fork"
    /\ nr_process < MAX_PROCESS
    /\ IF wait_state[current] = "0"
       THEN /\ \E child \in Proc \ Live :
                 /\ state' = [state EXCEPT ![child] = "UNINIT"]
                 /\ SetLinks(child)
                 /\ pc' = [pc EXCEPT ![current] = "fork_wake", ![child] = "user"]
                 /\ arg' = [arg EXCEPT ![current] = child]
            /\ UNCHANGED <<wait_state, exiting, need_resched, time_slice, timer,
                           runq, current, halted>>
       ELSE Halt("assert")

ForkWake ==
    /\ pc[current] = "fork_wake"
    /\ IF ZombieFree({arg[current]})
       THEN /\ Wakeup({arg[current]})
            /\ Refill(runq' \ runq)
            /\ arg' = [arg EXCEPT ![current] = NoProc]
            /\ Return
            /\ UNCHANGED <<exiting, need_resched, parent, timer, nr_process,
                           current, halted>>
       ELSE Halt("assert")

\* The process limit, or no memory for the struct, its stack, files or mm.
ForkFail ==
    /\ pc[current] = "fork"
    /\ IF current = initproc
       THEN Halt("boot")                       \* create user_main failed
       ELSE /\ Return
            /\ UNCHANGED <<state, wait_state, exiting, need_resched, time_slice,
                           parent, timer, nr_process, runq, current, arg, halted>>

(***************************************************************************)
(* do_wait: reap a dead child, or sleep until one dies.                    *)
(***************************************************************************)
\* Mutant: a pid is looked up without asking whose child it is.
Awaited_Anyones(p) == {q \in Live \ {p} : arg[p] \in {NoProc, q}}

Awaited(p) == {q \in Children(p) : arg[p] \in {NoProc, q}}

WaitReap ==
    /\ pc[current] = "wait"
    /\ \E q \in Awaited(current) :
        /\ state[q] = "ZOMBIE"
        /\ state' = [state EXCEPT ![q] = "NONE"]
        /\ exiting' = [exiting EXCEPT ![q] = FALSE]
        /\ need_resched' = [need_resched EXCEPT ![q] = FALSE]
        /\ time_slice' = [time_slice EXCEPT ![q] = 0]
        /\ RemoveLinks(q)
        /\ arg' = [arg EXCEPT ![q] = NoProc, ![current] = NoProc]
        /\ pc' = [pc EXCEPT ![q] = "none",
                            ![current] = IF current = initproc THEN "init_sched"
                                         ELSE "trapret"]
    /\ UNCHANGED <<wait_state, timer, runq, current, halted>>

WaitNoChild ==
    /\ pc[current] = "wait"
    /\ Awaited(current) = {}
    /\ arg' = [arg EXCEPT ![current] = NoProc]
    /\ Goto(IF current = initproc THEN "init_end" ELSE "trapret")
    /\ UNCHANGED <<state, wait_state, exiting, need_resched, time_slice, parent,
                   timer, nr_process, runq, current, halted>>

WaitSleep ==                                         \* state = PROC_SLEEPING
    /\ pc[current] = "wait"
    /\ Awaited(current) # {}
    /\ \A q \in Awaited(current) : state[q] # "ZOMBIE"
    /\ state' = [state EXCEPT ![current] = "SLEEPING"]
    /\ Goto("wait_set")
    /\ UNCHANGED <<wait_state, exiting, need_resched, time_slice, parent, timer,
                   nr_process, runq, current, arg, halted>>

WaitSet ==                                           \* wait_state = WT_CHILD
    /\ pc[current] = "wait_set"
    /\ wait_state' = [wait_state EXCEPT ![current] = "WT_CHILD"]
    /\ Goto("wait_sched")
    /\ UNCHANGED <<state, exiting, need_resched, time_slice, parent, timer,
                   nr_process, runq, current, arg, halted>>

WaitBack ==
    /\ pc[current] = "wait_back"
    /\ Goto(IF exiting[current] THEN "exit" ELSE "wait")
    /\ UNCHANGED <<state, wait_state, exiting, need_resched, time_slice, parent,
                   timer, nr_process, runq, current, arg, halted>>

(***************************************************************************)
(* do_kill: mark the victim; wake it if its wait can be interrupted.       *)
(***************************************************************************)
\* Mutant: the victim is woken up whatever it is doing.
Kill_WakesAll(t) ==
    /\ pc[current] = "kill"
    /\ t \in Live \ {idleproc}
    /\ ~exiting[t]
    /\ exiting' = [exiting EXCEPT ![t] = TRUE]
    /\ arg' = [arg EXCEPT ![current] = t]
    /\ Goto("kill_wake")
    /\ UNCHANGED <<state, wait_state, need_resched, time_slice, parent, timer,
                   nr_process, runq, current, halted>>

Kill(t) ==
    /\ pc[current] = "kill"
    /\ t \in Live \ {idleproc}
    /\ ~exiting[t]
    /\ exiting' = [exiting EXCEPT ![t] = TRUE]
    /\ IF wait_state[t] \in WT_INTERRUPTED
       THEN arg' = [arg EXCEPT ![current] = t] /\ Goto("kill_wake")
       ELSE UNCHANGED arg /\ Goto("trapret")
    /\ UNCHANGED <<state, wait_state, need_resched, time_slice, parent, timer,
                   nr_process, runq, current, halted>>

\* No such process, or one that is being killed already.
KillFail ==
    /\ pc[current] = "kill"
    /\ Goto("trapret")
    /\ UNCHANGED <<state, wait_state, exiting, need_resched, time_slice, parent,
                   timer, nr_process, runq, current, arg, halted>>

KillWake ==
    /\ pc[current] = "kill_wake"
    /\ IF ZombieFree({arg[current]})
       THEN /\ Wakeup({arg[current]})
            /\ Refill(runq' \ runq)
            /\ arg' = [arg EXCEPT ![current] = NoProc]
            /\ Goto("trapret")
            /\ UNCHANGED <<exiting, need_resched, parent, timer, nr_process,
                           current, halted>>
       ELSE Halt("assert")

(***************************************************************************)
(* do_sleep: the timer is a variable on the sleeper's kernel stack.        *)
(***************************************************************************)
\* Mutant: the timer is not added.
Sleep_NoTimer ==
    /\ pc[current] = "sleep"
    /\ state' = [state EXCEPT ![current] = "SLEEPING"]
    /\ wait_state' = [wait_state EXCEPT ![current] = "WT_TIMER"]
    /\ Goto("sleep_sched")
    /\ UNCHANGED <<exiting, need_resched, time_slice, parent, timer, nr_process,
                   runq, current, arg, halted>>

Sleep ==
    /\ pc[current] = "sleep"
    /\ \E time \in 1 .. MaxSleep :
         timer' = [timer EXCEPT ![current] = time]   \* add_timer
    /\ state' = [state EXCEPT ![current] = "SLEEPING"]
    /\ wait_state' = [wait_state EXCEPT ![current] = "WT_TIMER"]
    /\ Goto("sleep_sched")
    /\ UNCHANGED <<exiting, need_resched, time_slice, parent, nr_process, runq,
                   current, arg, halted>>

SleepZero ==
    /\ pc[current] = "sleep"
    /\ Goto("trapret")
    /\ UNCHANGED <<state, wait_state, exiting, need_resched, time_slice, parent,
                   timer, nr_process, runq, current, arg, halted>>

\* Mutant: the timer is left in the list.
SleepBack_KeepsTimer ==
    /\ pc[current] = "sleep_back"
    /\ Goto("trapret")
    /\ UNCHANGED <<state, wait_state, exiting, need_resched, time_slice, parent,
                   timer, nr_process, runq, current, arg, halted>>

SleepBack ==                                         \* del_timer
    /\ pc[current] = "sleep_back"
    /\ timer' = [timer EXCEPT ![current] = 0]
    /\ Goto("trapret")
    /\ UNCHANGED <<state, wait_state, exiting, need_resched, time_slice, parent,
                   nr_process, runq, current, arg, halted>>

(***************************************************************************)
(* do_exit: become a zombie, then tell the parent and give the children to *)
(* initproc, then leave the CPU for ever.                                  *)
(***************************************************************************)
ExitZombie ==
    /\ pc[current] = "exit"
    /\ IF current \in {idleproc, initproc}
       THEN Halt("initexit")
       ELSE /\ state' = [state EXCEPT ![current] = "ZOMBIE"]
            /\ Goto("exit_notify")
            /\ UNCHANGED <<wait_state, exiting, need_resched, time_slice, parent,
                           timer, nr_process, runq, current, arg, halted>>

\* Mutant: only initproc is told, of what it inherits.
Told_NotParent ==
    IF \E q \in Children(current) : state[q] = "ZOMBIE" THEN {initproc} ELSE {}

\* The processes do_exit has news for.
Told ==
    {parent[current]} \cup
    (IF \E q \in Children(current) : state[q] = "ZOMBIE" THEN {initproc} ELSE {})

\* Mutant: the children keep their dead parent.
Adopted_Nobody == parent

\* The parents it leaves behind.
Adopted == [p \in Proc |-> IF p \in Children(current) THEN initproc ELSE parent[p]]

ExitNotify ==
    LET waiting == {p \in Told \cap Proc : wait_state[p] = "WT_CHILD"}
    IN  /\ pc[current] = "exit_notify"
        /\ IF ZombieFree(waiting)
           THEN /\ Wakeup(waiting)
                /\ Refill(runq' \ runq)
                /\ parent' = Adopted
                /\ arg' = [arg EXCEPT ![current] = NoProc]
                /\ Goto("exit_sched")
                /\ UNCHANGED <<exiting, need_resched, timer, nr_process, current,
                               halted>>
           ELSE Halt("assert")

(***************************************************************************)
(* trap(): on the way back to user mode a killed process exits, and one    *)
(* whose time slice is used up, or that yielded, calls schedule().         *)
(***************************************************************************)
\* Mutant: the return path of trap() does not look at PF_EXITING.
TrapReturn_Forgives ==
    /\ pc[current] = "trapret"
    /\ ~(~exiting[current] /\ need_resched[current])
    /\ Goto("user")
    /\ UNCHANGED <<state, wait_state, exiting, need_resched, time_slice, parent,
                   timer, nr_process, runq, current, arg, halted>>

TrapReturn ==
    /\ pc[current] = "trapret"
    /\ ~(~exiting[current] /\ need_resched[current])
    /\ Goto(IF exiting[current] THEN "exit" ELSE "user")
    /\ UNCHANGED <<state, wait_state, exiting, need_resched, time_slice, parent,
                   timer, nr_process, runq, current, arg, halted>>

\* Every call of schedule().
CallSchedule ==
    \/ pc[current] = "trapret" /\ ~exiting[current] /\ need_resched[current]
         /\ Schedule("user")
    \/ pc[current] = "wait_sched" /\ Schedule("wait_back")
    \/ pc[current] = "sleep_sched" /\ Schedule("sleep_back")
    \/ pc[current] = "exit_sched" /\ Schedule("dead")
    \/ pc[current] = "init_sched" /\ Schedule("wait")
    \/ pc[current] = "idle" /\ need_resched[current] /\ Schedule("idle")

\* The end of init_main: the assertions on what must be left, then shutdown.
InitEnd ==
    /\ pc[current] = "init_end"
    /\ Halt(IF /\ Children(initproc) = {}
               /\ Children(idleproc) = {initproc}
               /\ nr_process = 2
               /\ Live = {idleproc, initproc}
            THEN "shutdown" ELSE "assert")

(***************************************************************************)
(* The timer interrupt: run_timer_list, then the tick of current.  In user *)
(* mode it ends in trap()'s return path, in the kernel where it came from. *)
(***************************************************************************)
Tick ==
    LET fired == {p \in Proc : timer[p] = 1}
        left == IF time_slice[current] > 0 THEN time_slice[current] - 1 ELSE 0
        tickOver == current = idleproc \/ left = 0
    IN  /\ Running
        /\ IF ZombieFree(fired)
           THEN
             /\ timer' = [p \in Proc |-> IF timer[p] > 0 THEN timer[p] - 1 ELSE 0]
             /\ Wakeup(fired)
             /\ time_slice' =
                  [p \in Proc |->
                     IF p \in runq' \ runq /\ time_slice[p] = 0 THEN MAX_TIME_SLICE
                     ELSE IF p = current /\ p # idleproc THEN left
                     ELSE time_slice[p]]
             /\ need_resched' = [need_resched EXCEPT ![current] = @ \/ tickOver]
             /\ pc' = [pc EXCEPT ![current] = IF @ = "user" THEN "trapret" ELSE @]
             /\ UNCHANGED <<exiting, parent, nr_process, current, arg, halted>>
           ELSE Halt("assert")

-----------------------------------------------------------------------------
\* proc_init has made idleproc and initproc; idleproc is about to schedule.
Init ==
    /\ state = [p \in Proc |-> IF p \in {idleproc, initproc} THEN "RUNNABLE" ELSE "NONE"]
    /\ wait_state = [p \in Proc |-> "0"]
    /\ exiting = [p \in Proc |-> FALSE]
    /\ need_resched = [p \in Proc |-> p = idleproc]
    /\ time_slice = [p \in Proc |-> IF p = initproc THEN MAX_TIME_SLICE ELSE 0]
    /\ parent = [p \in Proc |-> IF p = initproc THEN idleproc ELSE NoProc]
    /\ timer = [p \in Proc |-> 0]
    /\ nr_process = 2
    /\ runq = {initproc}
    /\ current = idleproc
    /\ pc = [p \in Proc |-> IF p = idleproc THEN "idle"
                            ELSE IF p = initproc THEN "fork" ELSE "none"]
    /\ arg = [p \in Proc |-> NoProc]
    /\ halted = "no"

UserStep == SysEnter \/ SysYield

KernelStep ==
    \/ ForkLink \/ ForkWake \/ ForkFail
    \/ WaitReap \/ WaitNoChild \/ WaitSleep \/ WaitSet \/ WaitBack
    \/ (\E t \in Proc : Kill(t)) \/ KillFail \/ KillWake
    \/ Sleep \/ SleepZero \/ SleepBack
    \/ ExitZombie \/ ExitNotify
    \/ TrapReturn \/ CallSchedule \/ InitEnd

Stopped == ~Running /\ UNCHANGED vars

Next == UserStep \/ KernelStep \/ Tick \/ Stopped

Spec == Init /\ [][Next]_vars

\* The step that gives the CPU to p.
Dispatch(p) == CallSchedule /\ current' = p

(***************************************************************************)
(* Fairness: the CPU goes on executing kernel code (user code owes us      *)
(* nothing), the timer goes on ticking, and the stride scheduler does not  *)
(* overlook a queued process for ever.  The last is a fact about           *)
(* default_sched.c (NobodyStarves in Stride) as long as processes are not  *)
(* created for ever: each of them starts with stride 0, and could be       *)
(* picked before an old one.                                               *)
(***************************************************************************)
Fairness ==
    /\ WF_vars(KernelStep)
    /\ WF_vars(Tick)
    /\ \A p \in Proc : SF_vars(Dispatch(p))
    /\ <>[][~ForkLink]_vars

FairSpec == Spec /\ Fairness

-----------------------------------------------------------------------------
(***************************************************************************)
(* Safety.                                                                 *)
(***************************************************************************)

\* The run queue holds exactly the runnable processes that are neither on the
\* CPU nor idleproc: wakeup_proc and schedule never lose one, queue one twice
\* or queue one that must not run.
RunQueueInv ==
    \A p \in Proc : p \in runq <=> /\ state[p] = "RUNNABLE"
                                   /\ p # current
                                   /\ p # idleproc

\* No lost wakeup in do_wait: a parent that is off the CPU waiting for a child
\* has no dead child it waits for, except one that has yet to tell it, even
\* when the child it waits for was inherited from an exiting process.
NoLostWakeup ==
    \A p \in Proc :
        p # current /\ wait_state[p] = "WT_CHILD" =>
            \A q \in Awaited(p) : state[q] = "ZOMBIE" => pc[q] = "exit_notify"

\* A process' parent pointer never dangles: the parent exists, has not been
\* reaped, and unless it is about to give its children away is not dead.
NoDanglingParent ==
    \A q \in Live \ {idleproc} :
        /\ parent[q] \in Live \ {q}
        /\ state[parent[q]] = "ZOMBIE" => pc[parent[q]] = "exit_notify"

\* A timer in timer_list lives in the stack frame of a do_sleep that has not
\* returned: an early wakeup by do_kill never leaves it in the list behind
\* the process that owns the stack.
TimerOnStack ==
    \A p \in Proc : timer[p] > 0 => pc[p] \in {"sleep_sched", "sleep_back"}

\* wakeup_proc never gets a zombie, do_fork never runs with a wait_state, and
\* when init_main finds no child it is the only process left but idleproc.
NoAssertFails == halted # "assert"

\* nr_process, on which do_fork decides, counts the processes that exist.
CountInv == nr_process = Cardinality(Live)

\* What a process can be doing in each state.  wait_state names the reason of
\* every sleep and of nothing else (do_exit and do_kill decide on it alone
\* whether to wake a process up); who sleeps on a timer has one in timer_list;
\* only code on its way into schedule() runs in state PROC_SLEEPING; do_kill
\* wakes up a process that has not died since it looked.
ControlInv ==
    /\ \A p \in Proc :
        /\ p # current => pc[p] \in Parked
        /\ state[p] = "NONE" <=> pc[p] = "none"
        /\ state[p] = "ZOMBIE" <=> pc[p] \in {"exit_notify", "exit_sched", "dead"}
        /\ state[p] = "UNINIT" <=> pc[current] = "fork_wake" /\ p = arg[current]
        /\ state[p] = "UNINIT" => pc[p] = "user"
        /\ state[p] = "SLEEPING" => pc[p] \in {"wait_set", "wait_sched", "wait_back",
                                               "sleep_sched", "sleep_back"}
        /\ pc[p] \in {"wait_set", "wait_sched"} => state[p] = "SLEEPING"
        /\ wait_state[p] = "WT_CHILD" <=> /\ state[p] = "SLEEPING"
                                          /\ pc[p] \in {"wait_sched", "wait_back"}
        /\ wait_state[p] = "WT_TIMER" <=> /\ state[p] = "SLEEPING"
                                          /\ pc[p] \in {"sleep_sched", "sleep_back"}
        /\ wait_state[p] = "WT_TIMER" => timer[p] > 0
    /\ state[current] = "SLEEPING" =>
            pc[current] \in {"wait_set", "wait_sched", "sleep_sched"}
    /\ pc[current] = "kill_wake" =>
            /\ arg[current] \in Proc
            /\ state[arg[current]] \in {"SLEEPING", "RUNNABLE"}
    /\ Running <=> pc[current] # "halted"
    /\ state[idleproc] = "RUNNABLE" /\ pc[idleproc] = "idle"
    /\ state[initproc] \in {"RUNNABLE", "SLEEPING"}

\* A struct and its kernel stack are freed by the parent alone, and only when
\* the process has left the stack for the last time.
ReapedByParent ==
    [][\A p \in Proc : state[p] # "NONE" /\ state'[p] = "NONE" =>
          /\ state[p] = "ZOMBIE"
          /\ pc[p] = "dead"
          /\ current = parent[p]]_vars

(***************************************************************************)
(* Liveness.                                                               *)
(***************************************************************************)

\* do_sleep returns: a process that sleeps on a timer gets up again.
SleepEnds ==
    \A p \in Proc : wait_state[p] = "WT_TIMER" ~> (state[p] = "RUNNABLE" \/ ~Running)

\* A dead process that init has inherited, or forked, is reaped.
OrphanReaped ==
    \A p \in Proc : state[p] = "ZOMBIE" /\ parent[p] = initproc ~>
                        (state[p] = "NONE" \/ ~Running)

\* A process killed in an interruptible sleep exits.
KilledSleeperExits ==
    \A p \in Proc : exiting[p] /\ wait_state[p] = "WT_TIMER" ~>
                        (state[p] \in {"ZOMBIE", "NONE"} \/ ~Running)

\* What the comment on SYS_kill says: a killed process gets to do_exit.
KilledExits ==
    \A p \in Proc : exiting[p] ~> (state[p] \in {"ZOMBIE", "NONE"} \/ ~Running)
=============================================================================
