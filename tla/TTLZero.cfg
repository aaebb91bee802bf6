SPECIFICATION Spec
CONSTANTS
    Text <- OneWord
    Canonical <- OneWord
    Wildcard = Wildcard
    Blank = Blank
    TransactionalActions = {"deploy"}
    SideEffectActions = {"email"}
    DefaultKey = "default"
    NoKey = NoKey
    MalformedKey = MalformedKey
    MalformedSig = MalformedSig
    ClockSkew = 1
    FallbackTTL = 1
    None = None
    Unreadable = Unreadable
    Lines <- ReplayLines
    Policies <- ZeroTTL
    ClockMayStepBack = FALSE
    MaxClock = 2
    MaxLines = 3
    MaxEpoch = 0
    MaxLives = 0
CHECK_DEADLOCK FALSE
INVARIANT
    SingleExecution
