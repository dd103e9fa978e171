SPECIFICATION Spec
CONSTANTS
    NoPeer = NoPeer
    NoBev = NoBev
    Peers = {p1, p2}
    Bevs = {b1, b2, b3, b4}
    PacketKinds = {"text", "name"}
    Overlap = FALSE
    MaxCallers = 1
    MaxInbox = 3
SYMMETRY Symmetry
INVARIANTS
    OwnershipExact
    SessionSound
    DescriptorsClosedOnce
    WindowTellsTheTruth
    NeverWedged
PROPERTIES
    SessionsEndByTheirOwnQuit
CHECK_DEADLOCK FALSE
