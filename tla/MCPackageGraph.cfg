CONSTANTS
    Ids = {1, 2, 3, 4, 5}
    MaxVersion = 3
    Prereleases = {3}
    MaxWorkers = 3
    MaxRevisions = 4
    NoRange = NoRange
    Universes = "steady"
    Worlds <- MCWorlds
SPECIFICATION FairSpec
CHECK_DEADLOCK FALSE
INVARIANTS
    SchedulerSound
    EdgesBacked
    NoLostWork
    ManifestsComplete
    OrderIndependent
    ErrorsAreFinal
    NoLeftovers
    NoSilentDowngrade
PROPERTIES
    RevisionsRetract
    Termination
