SPECIFICATION TimedSpec
CONSTANTS
    RegCodes = {200, 403}
    RejectCodes = {486}
    Levels = {0, 1}
    MaxRegResults = 1
    MaxEarly = 1
    MaxMediaUpdates = 2
    RegTimeout = 2
    AnswerTimeout = 2
    CancelGrace = 1
    AnswerDelay = 2
    SilenceTimeout = 2
    Threshold = 1
    MaxCall = 6
    Second = 2
    AudioSources <- AudioOk
    MaxTime = 8
INVARIANTS
    BillingBounded
PROPERTIES
    DeadlinesKept
    HangsUpOnSilence
