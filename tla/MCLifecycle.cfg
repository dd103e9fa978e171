CONSTANTS
    MaxAttempts = 3
SPECIFICATION LifeFairSpec
INVARIANTS LifecycleSound SlotGivenBackLast
PROPERTIES ShutsDown FailureIsTold
CHECK_DEADLOCK FALSE
