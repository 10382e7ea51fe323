SPECIFICATION Spec
CONSTANTS
    RegCodes = {200, 403}
    RejectCodes = {486, 500}
    Levels = {0, 1}
    MaxRegResults = 1
    MaxEarly = 1
    MaxMediaUpdates = 2
    RegTimeout = 1
    AnswerTimeout = 1
    CancelGrace = 1
    AnswerDelay = 1
    SilenceTimeout = 1
    Threshold = 1
    MaxCall = 2
    Second = 2
    AudioSources <- AudioAny
    MaxTime = 4
INVARIANTS
    TypeOK
    OneResult
    ReturnMatchesStream
    AnsweredEarned
    NothingDropped
    LegOwned
    AnsweredInside
    RecordingComplete
PROPERTY
    ImplementsStream
