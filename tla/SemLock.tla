------------------------------ MODULE SemLock ------------------------------
(***************************************************************************)
(* One semaphore used the way the kernel uses mm_sem, fs_sem, io_sem,      *)
(* disk0_sem or the semaphore of an inode: down() or try_down(), a         *)
(* section, up().  Those locks have InitValue = 1.                         *)
(*                                                                         *)
(* Who has the CPU is left open: any process that is not asleep may take   *)
(* the next step, which includes every order schedule() can produce.       *)
(***************************************************************************)
EXTENDS Semaphores

CONSTANTS
    lock,        \* the semaphore
    InitValue    \* the value given to sem_init

ASSUME LockAssumption ==
    /\ IsFiniteSet(Proc)
    /\ Sem = {lock}
    /\ InitValue \in Nat

VARIABLE
    killed   \* PF_EXITING

lockVars == <<semVars, killed>>

LockTypeOK ==
    /\ SemTypeOK
    /\ pc \in [Proc -> {"out", "in", "panic"}]
    /\ killed \in [Proc -> BOOLEAN]

-----------------------------------------------------------------------------
Enter(p) ==
    /\ pc[p] = "out"
    /\ DownTakes(lock, p, "in")
    /\ UNCHANGED killed

Block(p) ==
    /\ pc[p] = "out"
    /\ DownSleeps(lock, p)
    /\ UNCHANGED killed

Granted(p) ==
    /\ pc[p] = "out"
    /\ DownReturns(lock, p, "in")
    /\ UNCHANGED killed

Leave(p) ==
    /\ pc[p] = "in"
    /\ Up(lock)
    /\ GoTo(p, "out")
    /\ UNCHANGED killed

\* Mutant: any sleeper is woken.
Kill_WakesAll(p) ==
    /\ ~killed[p]
    /\ killed' = [killed EXCEPT ![p] = TRUE]
    /\ wait_state' = [wait_state EXCEPT ![p] = "0"]
    /\ UNCHANGED <<value, queue, wakeup_flags, pc>>

\* do_kill by another process: WT_KSEM is no wait that it may interrupt.
Kill(p) ==
    /\ ~killed[p]
    /\ killed' = [killed EXCEPT ![p] = TRUE]
    /\ wait_state' = IF wait_state[p] \in WT_INTERRUPTED
                     THEN [wait_state EXCEPT ![p] = "0"] ELSE wait_state
    /\ UNCHANGED <<value, queue, wakeup_flags, pc>>

-----------------------------------------------------------------------------
LockInit ==
    /\ SemInit([s \in Sem |-> InitValue])
    /\ pc = [p \in Proc |-> "out"]
    /\ killed = [p \in Proc |-> FALSE]

LockNext == \E p \in Proc : Enter(p) \/ Block(p) \/ Granted(p) \/ Leave(p) \/ Kill(p)

LockSpec == LockInit /\ [][LockNext]_lockVars

\* A section ends some time, and who was woken runs again some time: every
\* runnable process is picked by schedule() over and over (see Process).
LockFairSpec == LockSpec /\ \A p \in Proc : WF_lockVars(Granted(p)) /\ WF_lockVars(Leave(p))

-----------------------------------------------------------------------------
\* Who owns a permit: up() makes a waiter an owner before it runs again.
Holders == {p \in Proc : pc[p] = "in" \/ (InDown(p) /\ ~Asleep(p))}

\* The wait queue and the sleepers are the same processes, each queued once, all
\* of them in down(); and who was woken knows that up() did it.  __up asserts
\* that the first in the queue sleeps, and __down leaves with its wait_t, which
\* lies on its stack, in no list.
QueueInv ==
    /\ LockTypeOK
    /\ \A p \in Proc :
         /\ Queued(lock, p) <=> Asleep(p)
         /\ Asleep(p) => InDown(p)
         /\ InDown(p) => pc[p] = "out"
         /\ InDown(p) /\ ~Asleep(p) => wakeup_flags[p] = "WT_KSEM"
    /\ \A i, j \in DOMAIN queue[lock] : queue[lock][i] = queue[lock][j] => i = j

\* No permit is made or lost, and none lies idle while somebody waits for it.
PermitsConserved ==
    /\ value[lock] + Cardinality(Holders) = InitValue
    /\ queue[lock] # <<>> => value[lock] = 0

\* The assert in down() holds: nothing but up() ends the wait, not even a kill.
DownNeverFails == \A p \in Proc : pc[p] # "panic"

\* Seen from outside, the semaphore is a pool of permits that are handed out
\* first come, first served: a process that begins to wait is overtaken by
\* nobody, although up() may run long before the woken process does.
Pool == INSTANCE PermitPool WITH holders <- Holders, waiting <- queue[lock]

HandsOutInOrder == Pool!PSpec

\* Who waits in down() gets in, if sections end.
WaiterEnters == \A p \in Proc : InDown(p) ~> pc[p] = "in"
=============================================================================
