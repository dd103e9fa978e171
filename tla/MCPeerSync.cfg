CONSTANTS
    Peers = {p1, p2}
    Life = 2
    Interval = 2
    MaxAsked = 3
SPECIFICATION RoundFairSpec
INVARIANTS
    SyncSound
    LateListsRefused
PROPERTIES
    RoundEnds
    TimerStops
