------------------------------- MODULE Dining -------------------------------
(***************************************************************************)
(* What the dining philosophers of check_sync.c promise: a philosopher     *)
(* eats with both forks, so never beside a neighbour that eats.            *)
(***************************************************************************)
EXTENDS Integers

CONSTANT N   \* the number of philosophers

VARIABLE phase   \* what each philosopher does

DiningInit == phase = [i \in 0 .. N - 1 |-> "thinking"]

LEFT(i) == (i - 1 + N) % N
RIGHT(i) == (i + 1) % N

GetHungry(i) ==
    /\ phase[i] = "thinking"
    /\ phase' = [phase EXCEPT ![i] = "hungry"]

PickUpForks(i) ==
    /\ phase[i] = "hungry"
    /\ phase[LEFT(i)] # "eating"
    /\ phase[RIGHT(i)] # "eating"
    /\ phase' = [phase EXCEPT ![i] = "eating"]

PutForksDown(i) ==
    /\ phase[i] = "eating"
    /\ phase' = [phase EXCEPT ![i] = "thinking"]

DiningNext == \E i \in 0 .. N - 1 : GetHungry(i) \/ PickUpForks(i) \/ PutForksDown(i)

DiningSpec == DiningInit /\ [][DiningNext]_phase
=============================================================================
