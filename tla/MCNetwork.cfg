CONSTANTS
    Alice = alice
    Bob = bob
    Bevs = {1, 2}
    NoPeer = noPeer
    NoBev = 0
    Overlap = FALSE
    MaxInbox = 4
    MaxNames = 2
    MaxTexts = 1
    MaxCuts = 2
SPECIFICATION FairSpec
INVARIANTS Agree
PROPERTIES DialsResolve
CHECK_DEADLOCK FALSE
