\* Four philosophers, two meals each.
CONSTANTS
    N = 4
    TIMES = 2
SPECIFICATION FairSpec
CHECK_DEADLOCK FALSE
INVARIANTS
    MonitorInv
    WokenMayEat
PROPERTIES
    SignallersFirst
    EatsWithBothForks
    EverybodyQuits
