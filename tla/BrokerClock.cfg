SPECIFICATION Spec
CONSTANTS
    Text <- OneWord
    Canonical <- OneWord
    Wildcard = Wildcard
    Blank = Blank
    TransactionalActions = {"deploy"}
    SideEffectActions = {"email"}
    DefaultKey = "default"
    NoKey = NoKey
    MalformedKey = MalformedKey
    MalformedSig = MalformedSig
    ClockSkew = 1
    FallbackTTL = 1
    None = None
    Unreadable = Unreadable
    Lines <- ClockLines
    Policies <- ClockPolicies
    ClockMayStepBack = TRUE
    MaxClock = 2
    MaxLines = 3
    MaxEpoch = 1
    MaxLives = 0
CHECK_DEADLOCK FALSE
INVARIANTS
    UnclockedInv
    NothingUnverified
    NoPhantomReservation
    NoFalseReplay
    OneStaleForward
