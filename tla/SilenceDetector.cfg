SPECIFICATION Spec
CONSTANTS
    Levels = {0, 1}
    Threshold = 1
    Timeout = 3
    Gaps = {1, 2}
    MaxTime = 10
INVARIANTS
    FiresExactly
    KnowsTheStretch
