CONSTANTS
    Alice = alice
    Bob = bob
    Bevs = {1, 2}
    NoPeer = noPeer
    NoBev = 0
    Overlap = TRUE
    MaxInbox = 4
    MaxNames = 2
    MaxTexts = 0
    MaxCuts = 0
SPECIFICATION Spec
INVARIANTS Discovered
CHECK_DEADLOCK FALSE
