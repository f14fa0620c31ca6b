CONSTANTS
    Signalers = {s1, s2}
    Waiters = {w1, w2}
    Grace = 1
    MaxSignals = 3
    MaxClock = 2
SPECIFICATION FairSpec
CHECK_DEADLOCK FALSE
INVARIANTS
    DeadlineReadable
    ForcedTakesTwo
    NoLostWakeup
    SharedDeadline
PROPERTIES
    Responsive
