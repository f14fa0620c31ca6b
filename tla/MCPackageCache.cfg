CONSTANTS
    c1 = c1
    c2 = c2
    good = good
    lax = lax
    bad = bad
    Calls = {c1, c2}
    Archives = {good, lax, bad}
    Missing = Missing
    Retries = 3
    Worlds <- MCWorlds
SPECIFICATION FairSpec
CHECK_DEADLOCK FALSE
INVARIANTS
    MarkerMeansWhole
    AnswersHold
    PolicyHolds
PROPERTIES
    Implements
    Answered
