SPECIFICATION Spec
CONSTANTS
    Wrap = 1000
    U32 = 100
    Second = 3
    RegTimeout = 6
    AnswerTimeout = 9
    CancelGrace = 4
    AnswerDelay = 3
    MaxCall = 14
    Steps = {1, 2, 8}
    Start = 20
INVARIANT
    DifferencesMoveByTheStep
PROPERTY
    InstantsMoveByTheStep
CHECK_DEADLOCK FALSE
