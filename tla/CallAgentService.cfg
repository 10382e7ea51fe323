SPECIFICATION Spec
CONSTANTS
    Rpcs = {r1, r2}
    Kinds = {"ExecuteCall", "Invalid"}
    Scripts <- FewScripts
    IdleShutdown = 0
    Second = 2
    Wrap = 64
    None = None
    MaxTime = 2
SYMMETRY RpcSymmetry
INVARIANTS
    TypeOK
    HandedOver
    OneExecutor
    AnnouncedIsIntact
PROPERTIES
    StartedWhenAnswered
    ImplementsApi
