SPECIFICATION FairSpec
CONSTANTS
    Rpcs = {r1}
    Kinds = {"ExecuteCall", "Invalid", "Health", "StreamAudio"}
    Scripts <- AllScripts
    IdleShutdown = 1
    Second = 1
    Wrap = 64
    None = None
    MaxTime = 1
PROPERTIES
    CallsEnd
    CancelForwarded
    ServerStops
