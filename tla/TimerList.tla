----------------------------- MODULE TimerList -----------------------------
(***************************************************************************)
(* timer_list of sched.c: a list sorted by time in which every timer keeps *)
(* only the ticks between the timer before it and itself, so that a tick   *)
(* touches the head alone.  add_timer, del_timer and run_timer_list run    *)
(* with interrupts off: one action each.                                   *)
(***************************************************************************)
EXTENDS Integers, Sequences, FiniteSets, SequencesExt

CONSTANTS Sleeper, MaxTime

ASSUME TimerAssumption == MaxTime \in Nat

VARIABLES
    list,      \* timer_list: the sequence of <<proc, expires>>
    awake      \* the processes that are not PROC_SLEEPING

timerVars == <<list, awake>>

Timer == [proc : Sleeper, expires : 0 .. MaxTime]

TimerTypeOK ==
    /\ list \in Seq(Timer)
    /\ awake \subseteq Sleeper

Listed(p) == \E i \in DOMAIN list : list[i].proc = p
Position(p) == CHOOSE i \in DOMAIN list : list[i].proc = p

\* Ticks from now to the timer at position i: the deltas up to it.
TicksTo(i) ==
    LET ticks[k \in 0 .. Len(list)] == IF k = 0 THEN 0 ELSE ticks[k - 1] + list[k].expires
    IN  ticks[i]

-----------------------------------------------------------------------------
\* add_timer walks past every timer that expires no later than the new one.
InsertBefore(time) ==
    LET later == {i \in DOMAIN list : time < TicksTo(i)}
    IN  IF later = {} THEN Len(list) + 1 ELSE CHOOSE i \in later : \A j \in later : i <= j

\* The timer after the new one waits for the rest of its time only.
AddTimer(p, time) ==
    LET i == InsertBefore(time)
        delta == time - TicksTo(i - 1)
        timer == [proc |-> p, expires |-> delta]
        rest == IF i <= Len(list)
                THEN [list EXCEPT ![i].expires = @ - delta] ELSE list
    IN  list' = InsertAt(rest, i, timer)

\* Mutant: the timer after it loses the ticks of the removed one.
DelTimer_DropsTicks(p) ==
    list' = IF Listed(p) THEN RemoveAt(list, Position(p)) ELSE list

\* del_timer gives the removed timer's ticks to the one after it.
DelTimer(p) ==
    LET i == Position(p)
        rest == IF i < Len(list)
                THEN [list EXCEPT ![i + 1].expires = @ + list[i].expires] ELSE list
    IN  list' = IF Listed(p) THEN RemoveAt(rest, i) ELSE list

-----------------------------------------------------------------------------
\* do_sleep, before and after its schedule().
SleepFor(p, time) ==
    /\ p \in awake
    /\ ~Listed(p)
    /\ AddTimer(p, time)
    /\ awake' = awake \ {p}

Wake(p) ==
    /\ p \in awake
    /\ Listed(p)
    /\ DelTimer(p)
    /\ UNCHANGED awake

\* do_kill, of a process in an interruptible sleep.
WakeEarly(p) ==
    /\ p \notin awake
    /\ awake' = awake \cup {p}
    /\ UNCHANGED list

\* Mutant: one timer fires per tick.
Expired_One(ticked) ==
    IF ticked # <<>> /\ ticked[1].expires = 0 THEN {1} ELSE {}

\* The timers at the head with no ticks left.
Expired(ticked) ==
    {i \in DOMAIN ticked : \A j \in 1 .. i : ticked[j].expires = 0}

RunTimerList ==
    LET ticked == IF list = <<>> THEN list ELSE [list EXCEPT ![1].expires = @ - 1]
        fired == Expired(ticked)
    IN  /\ list' = SubSeq(ticked, Cardinality(fired) + 1, Len(ticked))
        /\ awake' = awake \cup {ticked[i].proc : i \in fired}

-----------------------------------------------------------------------------
TimerInit ==
    /\ list = <<>>
    /\ awake = Sleeper

TimerNext ==
    \/ \E p \in Sleeper : (\E time \in 1 .. MaxTime : SleepFor(p, time)) \/ Wake(p) \/ WakeEarly(p)
    \/ RunTimerList

TimerSpec == TimerInit /\ [][TimerNext]_timerVars

-----------------------------------------------------------------------------
\* run_timer_list asserts that the head has ticks left before it takes one;
\* an expired timer left at the head, after any add_timer or del_timer, would
\* make the unsigned count wrap.
HeadHasTicks == TimerTypeOK /\ (list # <<>> => list[1].expires > 0)

\* Every process sleeps exactly the ticks it asked for, whoever else starts or
\* stops sleeping in between: the deltas implement the ticks left of each.
Abstract == INSTANCE Timers WITH Proc <- Sleeper,
    left <- [p \in Sleeper |-> IF Listed(p) THEN TicksTo(Position(p)) ELSE 0]

SleepsItsTime == Abstract!TSpec
=============================================================================
