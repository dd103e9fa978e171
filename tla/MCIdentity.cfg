CONSTANTS
    Processes = {p1, p2, p3}
    UUIDs = {u1, u2, u3, u4, u5}
    MaxSlot = 3
    InUse = InUse
    Empty = Empty
    Null = Null
    Allow = Allow
    Tcp = Tcp
    Modes = {TRUE, FALSE}
    BasePort = 65535
    Overlapping = {FALSE}
    MayToggle = FALSE
    MayCrash = TRUE
SPECIFICATION Spec
SYMMETRY Symmetry
CHECK_DEADLOCK FALSE
INVARIANTS
    IdentitySound
    UniqueIdentity
