----------------------------- MODULE PermitPool -----------------------------
(***************************************************************************)
(* What a semaphore used as a lock promises: a pool of permits, handed out *)
(* in the order in which processes began to wait, and never to a newcomer  *)
(* while somebody waits.                                                   *)
(***************************************************************************)
EXTENDS Integers, Sequences, FiniteSets

CONSTANTS
    Proc,        \* the processes
    InitValue    \* the number of permits

VARIABLES
    holders,     \* who has a permit
    waiting      \* who waits for one, in order

poolVars == <<holders, waiting>>

PInit == holders = {} /\ waiting = <<>>

Waits(p) == \E i \in DOMAIN waiting : waiting[i] = p

\* A free permit is taken at once.
Take(p) ==
    /\ p \notin holders
    /\ ~Waits(p)
    /\ waiting = <<>>
    /\ Cardinality(holders) < InitValue
    /\ holders' = holders \cup {p}
    /\ UNCHANGED waiting

\* With all permits out, wait as the last.
Enqueue(p) ==
    /\ p \notin holders
    /\ ~Waits(p)
    /\ Cardinality(holders) = InitValue
    /\ waiting' = Append(waiting, p)
    /\ UNCHANGED holders

\* A permit is given back, to the first that waits.
GiveBack(p) ==
    /\ p \in holders
    /\ IF waiting = <<>>
       THEN /\ holders' = holders \ {p}
            /\ UNCHANGED waiting
       ELSE /\ holders' = (holders \ {p}) \cup {Head(waiting)}
            /\ waiting' = Tail(waiting)

PNext == \E p \in Proc : Take(p) \/ Enqueue(p) \/ GiveBack(p)

PSpec == PInit /\ [][PNext]_poolVars
=============================================================================
