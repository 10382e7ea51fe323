SPECIFICATION ClaimSpec
CONSTANTS
    Rpcs = {r1}
    Kinds = {"ExecuteCall"}
    Scripts <- ShortScripts
    IdleShutdown = 1
    Second = 1
    Wrap = 64
    None = None
    MaxTime = 2
PROPERTY
    CallCountsAsActivity
