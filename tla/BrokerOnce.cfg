SPECIFICATION Spec
CONSTANTS
    Text <- OneWord
    Canonical <- OneWord
    Wildcard = Wildcard
    Blank = Blank
    TransactionalActions = {"deploy"}
    SideEffectActions = {"email"}
    DefaultKey = "default"
    NoKey = NoKey
    MalformedKey = MalformedKey
    MalformedSig = MalformedSig
    ClockSkew = 1
    FallbackTTL = 1
    None = None
    Unreadable = Unreadable
    Lines <- OnceLines
    Policies <- OncePolicies
    ClockMayStepBack = FALSE
    MaxClock = 3
    MaxLines = 3
    MaxEpoch = 1
    MaxLives = 1
CHECK_DEADLOCK FALSE
INVARIANTS
    TypeOK
    ClockedInv
    IntentSpacing
    SingleExecution
PROPERTIES
    ReservationsInWindow
