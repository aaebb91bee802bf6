SPECIFICATION Spec
CONSTANTS
    Text <- OneWord
    Canonical <- OneWord
    Wildcard = Wildcard
    Blank = Blank
    TransactionalActions = {"deploy"}
    SideEffectActions = {"email"}
    DefaultKey = "default"
    NoKey = NoKey
    MalformedKey = MalformedKey
    MalformedSig = MalformedSig
    ClockSkew = 1
    FallbackTTL = 1
    None = None
    Unreadable = Unreadable
    Lines <- FallbackLines
    Policies <- NarrowOnly
    ClockMayStepBack = FALSE
    MaxClock = 1
    MaxLines = 1
    MaxEpoch = 1
    MaxLives = 0
CHECK_DEADLOCK FALSE
INVARIANT
    FallbackBlocks
