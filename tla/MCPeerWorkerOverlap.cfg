SPECIFICATION Spec
CONSTANTS
    NoPeer = NoPeer
    NoBev = NoBev
    Peers = {p1, p2}
    Bevs = {b1, b2, b3}
    PacketKinds = {"text", "syncRequest"}
    Overlap = TRUE
    MaxCallers = 2
    MaxInbox = 2
SYMMETRY Symmetry
INVARIANTS
    TableSound
    SentToItsPeer
    SenderKnown
CHECK_DEADLOCK FALSE
