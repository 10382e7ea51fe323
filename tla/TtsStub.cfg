SPECIFICATION Spec
CONSTANTS
    samples_per_word = 3
    samples_pause = 2
    None = None
    Agents = {a, b}
    Texts = {0, 1, 2, 3, 4, 5, 6, 7, 8}
    U32 = 64
    MaxCalls = 2
INVARIANTS
    HeaderFits
    OneBeepPerWord
CHECK_DEADLOCK FALSE
