------------------------------- MODULE Timers -------------------------------
(***************************************************************************)
(* What the timers of uCore promise, whatever they are kept in: each       *)
(* sleeper has ticks left, every tick takes one from all of them, and the  *)
(* tick that takes the last one wakes the sleeper up.                      *)
(***************************************************************************)
EXTENDS Naturals

CONSTANTS
    Proc,      \* the processes that sleep
    MaxTime    \* bound on the argument of do_sleep (model only)

VARIABLES
    left,      \* ticks left of each timer, 0: the process has none
    awake      \* the processes that are not PROC_SLEEPING

tvars == <<left, awake>>

TInit ==
    /\ left = [p \in Proc |-> 0]
    /\ awake = Proc

\* do_sleep up to schedule().
TAdd(p, time) ==
    /\ p \in awake
    /\ left[p] = 0
    /\ left' = [left EXCEPT ![p] = time]
    /\ awake' = awake \ {p}

\* do_sleep after schedule(), for whatever reason the process was woken.
TDel(p) ==
    /\ p \in awake
    /\ left' = [left EXCEPT ![p] = 0]
    /\ UNCHANGED awake

\* do_kill wakes a sleeper before its time.
TWakeEarly(p) ==
    /\ p \notin awake
    /\ awake' = awake \cup {p}
    /\ UNCHANGED left

TTick ==
    /\ left' = [p \in Proc |-> IF left[p] > 0 THEN left[p] - 1 ELSE 0]
    /\ awake' = awake \cup {p \in Proc : left[p] = 1}

TNext ==
    \/ \E p \in Proc : (\E time \in 1 .. MaxTime : TAdd(p, time)) \/ TDel(p) \/ TWakeEarly(p)
    \/ TTick

TSpec == TInit /\ [][TNext]_tvars
=============================================================================
