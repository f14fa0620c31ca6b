CONSTANTS
    Ids = {1, 2, 3, 4, 5}
    MaxVersion = 2
    Prereleases = {}
    MaxWorkers = 3
    MaxRevisions = 4
    NoRange = NoRange
    Universes = "orphaned"
    Worlds <- MCWorlds
SPECIFICATION FairSpec
CHECK_DEADLOCK FALSE
INVARIANT
    NoLeftovers
