SPECIFICATION FairSpec
CONSTANTS
    RegCodes = {200}
    RejectCodes = {486}
    Levels = {0, 1}
    MaxRegResults = 1
    MaxEarly = 0
    MaxMediaUpdates = 1
    RegTimeout = 1
    AnswerTimeout = 1
    CancelGrace = 1
    AnswerDelay = 1
    SilenceTimeout = 1
    Threshold = 1
    MaxCall = 2
    Second = 2
    AudioSources <- AudioOk
    MaxTime = 2
PROPERTIES
    CancelEnds
    RunEnds
