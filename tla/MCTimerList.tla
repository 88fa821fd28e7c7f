---------------------------- MODULE MCTimerList ----------------------------
\* TimerList on interchangeable sleepers.
EXTENDS TimerList, TLC

Sleepers == Permutations(Sleeper)
=============================================================================
