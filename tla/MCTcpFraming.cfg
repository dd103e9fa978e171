CONSTANTS
    MsgLens = {0, 1, 6}
    OtherLens = {0, 1, 2, 3, 5}
    Greetings <- SmallGreetings
    UuidLen = 1
    TypeLen = 2
    MsgLimit = 2
    Width = 8
    AuthLimit = 3
    MaxPackets = 4
    MaxStalls = 2
SPECIFICATION FairSpec
INVARIANTS FramingSound
PROPERTIES FramesPackets Recovers Arrives
CHECK_DEADLOCK FALSE
