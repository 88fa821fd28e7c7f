\* Four sleepers, up to 4 ticks: every order of equal and different deadlines.
CONSTANTS
    Sleeper = {p1, p2, p3, p4}
    MaxTime = 4
SYMMETRY Sleepers
SPECIFICATION TimerSpec
INVARIANTS
    HeadHasTicks
PROPERTY
    SleepsItsTime
