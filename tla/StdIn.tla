------------------------------- MODULE StdIn -------------------------------
(***************************************************************************)
(* The stdin device (dev_stdin.c): a ring of characters that the keyboard  *)
(* interrupt fills and readers empty, sleeping on a wait queue while there *)
(* is nothing.  The interrupt handler is one step, and so is a reader's    *)
(* loop, which runs with interrupts off from where it starts or wakes up   *)
(* to where it returns or sleeps.                                          *)
(***************************************************************************)
EXTENDS Integers, Sequences, FiniteSets, SequencesExt

CONSTANTS
    Reader,          \* processes that read
    STDIN_BUFSIZE,   \* 4096 in the source
    MaxLen,          \* bound on the len of dev_stdin_read
    MaxTyped         \* bound on the number of characters typed

ASSUME StdInAssumption ==
    /\ IsFiniteSet(Reader)
    /\ STDIN_BUFSIZE \in Nat \ {0}
    /\ MaxLen \in Nat \ {0}
    /\ MaxTyped \in Nat

VARIABLES
    typed,           \* characters typed so far: the numbers 1 .. typed
    stdin_buffer,    \* the ring
    p_rpos, p_wpos,  \* offsets of the next read and write
    queue,           \* the wait queue
    wait_state,      \* proc->wait_state, not "0" exactly while asleep
    wakeup_flags,    \* of the wait_t of a reader; "none": there is no wait_t
    len,             \* characters a reader still wants, 0 outside read()
    buf,             \* what its current or last read() has got
    killed           \* PF_EXITING

vars == <<typed, stdin_buffer, p_rpos, p_wpos, queue, wait_state, wakeup_flags, len, buf, killed>>

Slots == 0 .. STDIN_BUFSIZE - 1

Asleep(r) == wait_state[r] # "0"

Reading(r) == len[r] > 0

-----------------------------------------------------------------------------
\* Mutant: nobody is woken.
WakeupQueue_Nobody == UNCHANGED <<queue, wait_state, wakeup_flags>>

\* wakeup_queue(wait_queue, WT_KBD, 1): everybody in the queue, asleep or not.
WakeupQueue ==
    LET waiters == {queue[i] : i \in DOMAIN queue}
    IN  /\ queue' = <<>>
        /\ wait_state' = [r \in Reader |-> IF r \in waiters THEN "0" ELSE wait_state[r]]
        /\ wakeup_flags' = [r \in Reader |-> IF r \in waiters THEN "WT_KBD" ELSE wakeup_flags[r]]

\* Mutant: a full ring forgets the character.
Store_Drops(c) ==
    IF p_wpos - p_rpos < STDIN_BUFSIZE
    THEN /\ stdin_buffer' = [stdin_buffer EXCEPT ![p_wpos % STDIN_BUFSIZE] = c]
         /\ p_wpos' = p_wpos + 1
    ELSE UNCHANGED <<stdin_buffer, p_wpos>>

Store(c) ==
    /\ stdin_buffer' = [stdin_buffer EXCEPT ![p_wpos % STDIN_BUFSIZE] = c]
    /\ p_wpos' = IF p_wpos - p_rpos < STDIN_BUFSIZE THEN p_wpos + 1 ELSE p_wpos

\* dev_stdin_write, from the keyboard or serial interrupt.
dev_stdin_write ==
    /\ typed < MaxTyped
    /\ typed' = typed + 1
    /\ Store(typed + 1)
    /\ WakeupQueue
    /\ UNCHANGED <<p_rpos, len, buf, killed>>

-----------------------------------------------------------------------------
\* The characters from p_rpos on.
Unread(n) == [i \in 1 .. n |-> stdin_buffer[(p_rpos + i - 1) % STDIN_BUFSIZE]]

\* The loop of dev_stdin_read for a reader that wants n more and has got before:
\* it takes what is there, and sleeps if that is not enough.
ReadLoop(r, n, before, others) ==
    LET k == Min({n, p_wpos - p_rpos})
    IN  /\ buf' = [buf EXCEPT ![r] = before \o Unread(k)]
        /\ p_rpos' = p_rpos + k
        /\ len' = [len EXCEPT ![r] = n - k]
        /\ IF k < n
           THEN /\ queue' = Append(others, r)
                /\ wait_state' = [wait_state EXCEPT ![r] = "WT_KBD"]
                /\ wakeup_flags' = [wakeup_flags EXCEPT ![r] = "WT_INTERRUPTED"]
           ELSE /\ queue' = others
                /\ wakeup_flags' = [wakeup_flags EXCEPT ![r] = "none"]
                /\ UNCHANGED wait_state
        /\ UNCHANGED <<typed, stdin_buffer, p_wpos, killed>>

\* A killed process makes no new call: trap() sees PF_EXITING on its way out.  (One
\* killed while it was preempted in user mode can make one more call, which is
\* what KilledExits in Process is about, and left out here.)
Read(r) ==
    /\ ~Reading(r)
    /\ ~killed[r]
    /\ \E n \in 1 .. MaxLen : ReadLoop(r, n, <<>>, queue)

\* After schedule(): out of the queue if still in it (wait_current_del).
Others(r) == RemoveFirst(queue, r)

\* It was a key: try again, PF_EXITING or not.
TryAgain(r) ==
    /\ Reading(r)
    /\ ~Asleep(r)
    /\ wakeup_flags[r] = "WT_KBD"
    /\ ReadLoop(r, len[r], buf[r], Others(r))

\* Mutant: the wait_t of an interrupted reader stays in the queue.
Interrupted_StaysQueued(r) ==
    /\ Reading(r)
    /\ ~Asleep(r)
    /\ wakeup_flags[r] = "WT_INTERRUPTED"
    /\ len' = [len EXCEPT ![r] = 0]
    /\ wakeup_flags' = [wakeup_flags EXCEPT ![r] = "none"]
    /\ UNCHANGED <<typed, stdin_buffer, p_rpos, p_wpos, queue, wait_state, buf, killed>>

\* It was do_kill: read() returns with what it has got.
Interrupted(r) ==
    /\ Reading(r)
    /\ ~Asleep(r)
    /\ wakeup_flags[r] = "WT_INTERRUPTED"
    /\ len' = [len EXCEPT ![r] = 0]
    /\ queue' = Others(r)
    /\ wakeup_flags' = [wakeup_flags EXCEPT ![r] = "none"]
    /\ UNCHANGED <<typed, stdin_buffer, p_rpos, p_wpos, wait_state, buf, killed>>

\* do_kill by another process: WT_KBD is an interruptible wait.
Kill(r) ==
    /\ ~killed[r]
    /\ killed' = [killed EXCEPT ![r] = TRUE]
    /\ wait_state' = [wait_state EXCEPT ![r] = "0"]
    /\ UNCHANGED <<typed, stdin_buffer, p_rpos, p_wpos, queue, wakeup_flags, len, buf>>

-----------------------------------------------------------------------------
Init ==
    /\ typed = 0
    /\ stdin_buffer = [s \in Slots |-> 0]
    /\ p_rpos = 0
    /\ p_wpos = 0
    /\ queue = <<>>
    /\ wait_state = [r \in Reader |-> "0"]
    /\ wakeup_flags = [r \in Reader |-> "none"]
    /\ len = [r \in Reader |-> 0]
    /\ buf = [r \in Reader |-> <<>>]
    /\ killed = [r \in Reader |-> FALSE]

Next ==
    \/ dev_stdin_write
    \/ \E r \in Reader : Read(r) \/ TryAgain(r) \/ Interrupted(r) \/ Kill(r)

Spec == Init /\ [][Next]_vars

\* A process that was woken runs some time (see Process).
FairSpec == Spec /\ \A r \in Reader : WF_vars(TryAgain(r) \/ Interrupted(r))

-----------------------------------------------------------------------------
TypeOK ==
    /\ typed \in 0 .. MaxTyped
    /\ stdin_buffer \in [Slots -> 0 .. MaxTyped]
    /\ p_rpos \in 0 .. p_wpos
    /\ p_wpos \in p_rpos .. p_rpos + STDIN_BUFSIZE
    /\ queue \in Seq(Reader)
    /\ wait_state \in [Reader -> {"0", "WT_KBD"}]
    /\ wakeup_flags \in [Reader -> {"none", "WT_INTERRUPTED", "WT_KBD"}]
    /\ len \in [Reader -> 0 .. MaxLen]
    /\ buf \in [Reader -> Seq(1 .. MaxTyped)]
    /\ killed \in [Reader -> BOOLEAN]

\* No lost wake-up: a reader is asleep only while there is nothing to read, and
\* nobody is in the wait queue twice or after its read() has returned, when its
\* wait_t is gone.
NobodySleepsOnData ==
    /\ TypeOK
    /\ \A r \in Reader : Asleep(r) => p_rpos = p_wpos /\ r \in {queue[i] : i \in DOMAIN queue}
    /\ \A i, j \in DOMAIN queue : Reading(queue[i]) /\ (queue[i] = queue[j] => i = j)

\* The ring and its two offsets are the queue of characters that Keyboard
\* promises.
Promise == INSTANCE Keyboard WITH
    BUFSIZE <- STDIN_BUFSIZE, pending <- Unread(p_wpos - p_rpos)

DeliversInOrder == Promise!KSpec

\* Characters do not stay in the ring beside a reader that waits for them.
DataIsRead ==
    \A r \in Reader : p_rpos < p_wpos /\ Reading(r) ~> p_rpos = p_wpos \/ ~Reading(r)

=============================================================================
