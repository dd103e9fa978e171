CONSTANTS
    Peers = {anna, ben}
    Global = global
    NoItem = none
    MaxTransit = 2
SPECIFICATION FairSpec
INVARIANTS
    TypingSound
    BeliefIsRecent
    LineHasReason
PROPERTIES
    ForgottenText
    ForgottenTyping
