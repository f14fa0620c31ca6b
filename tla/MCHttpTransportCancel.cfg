CONSTANTS
    a = a
    b = b
    Sources = {a, b}
    Requests = {1, 2, 3}
    Providers = 2
    Worlds <- MCWorlds
SPECIFICATION FairSpec
CHECK_DEADLOCK FALSE
PROPERTIES
    CancelAsksProvider
