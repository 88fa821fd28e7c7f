---------------------------- MODULE Philosophers ----------------------------
(***************************************************************************)
(* What the two versions of the dining philosophers in check_sync.c share. *)
(***************************************************************************)
EXTENDS Integers, Sequences, FiniteSets

CONSTANTS
    N,       \* philosophers; 5 in the source
    TIMES    \* meals of each; 4 in the source

ASSUME DiningAssumption == N \in Nat \ {0, 1} /\ TIMES \in Nat

Phil == 0 .. N - 1

LEFT(i) == (i - 1 + N) % N
RIGHT(i) == (i + 1) % N

\* What both tests look at, in the states of all philosophers.
MayEat(i, state) ==
    state[i] = "HUNGRY" /\ state[LEFT(i)] # "EATING" /\ state[RIGHT(i)] # "EATING"
=============================================================================
