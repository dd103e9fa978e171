CONSTANTS
    Peers = {p1}
    Life = 2
    Interval = 2
    MaxAsked = 2
SPECIFICATION RoundSpec
INVARIANTS
    TimelyListsBelieved
