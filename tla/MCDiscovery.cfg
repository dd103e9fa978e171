CONSTANTS
    anna = anna
    ben = ben
    Nodes = {anna, ben}
    Host <- OneComputer
    MaxUdp = 4
    MaxStarts = 3
SPECIFICATION FairSpec
CHECK_DEADLOCK FALSE
PROPERTIES
    SomebodyIsHeard
INVARIANTS
    DiscoverySound
