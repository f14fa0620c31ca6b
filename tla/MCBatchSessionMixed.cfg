CONSTANTS
    A = A
    B = B
    C = C
    Ids = {1, 2, 3}
    MaxVersion = 2
    MaxWorkers = 2
    ExactRank = 10
    MaxCommands = 3
    MaxEdits = 2
    MaxClears = 1
    MaxFaults = 2
    Absent = Absent
    NoLock = NoLock
    Torn = Torn
    Worlds <- MixedWorlds
SPECIFICATION Spec
INVARIANT
    PolicyHolds
