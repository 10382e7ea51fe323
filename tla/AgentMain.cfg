SPECIFICATION Spec
CONSTANTS
    None = None
    NaN = NaN
    U16 = 16
    U32 = 256
    DefaultPort = 5
    Inputs <- MCInputs
    Envs <- MCEnvs
    Requests <- MCRequests
    Runs <- MCRuns
INVARIANTS
    ModeAgrees
    CallsAreComplete
    FlagsBeatEnvironment
    SameCallEitherWay
