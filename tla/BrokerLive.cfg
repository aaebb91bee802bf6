SPECIFICATION FairSpec
CONSTANTS
    Text <- OneWord
    Canonical <- OneWord
    Wildcard = Wildcard
    Blank = Blank
    TransactionalActions = {"deploy"}
    SideEffectActions = {"email"}
    DefaultKey = "default"
    NoKey = NoKey
    MalformedKey = MalformedKey
    MalformedSig = MalformedSig
    ClockSkew = 1
    FallbackTTL = 1
    None = None
    Unreadable = Unreadable
    Lines <- LiveLines
    Policies <- OncePolicies
    ClockMayStepBack = FALSE
    MaxClock = 2
    MaxLines = 2
    MaxEpoch = 1
    MaxLives = 1
CHECK_DEADLOCK FALSE
PROPERTIES
    EveryLineConcludes
    ImplementsExecuteOnce
