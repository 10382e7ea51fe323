SPECIFICATION Spec
CONSTANTS
    Pushers = {p1, p2}
    Wakers = {w}
    Receiver = rx
    None = None
    MaxCalls = 2
INVARIANTS
    NoLostWakeup
    InOrderOnce
PROPERTIES
    ImplementsHandover
    Prompt
