SPECIFICATION Spec
CONSTANTS
    Text <- MCText
    Canonical <- MCCanonical
    Wildcard = Wildcard
    Blank = Blank
    TransactionalActions = {"deploy|action:email"}
    SideEffectActions = {"email", "deploy|action:email"}
    DefaultKey = "default"
    NoKey = NoKey
    MalformedKey = MalformedKey
    MalformedSig = MalformedSig
    ClockSkew = 1
    FallbackTTL = 1
    Actions = {"email", "deploy|action:email"}
    Targets = {staging, production}
    Intents = {"i1", "i1|action:deploy"}
    Digests = {d1, d2}
    Arguments <- MCArguments
    PolicyKey = "gate"
    IssueTime = 1
    TTLs = {0, 1}
    MaxClock = 4
SYMMETRY Interchangeable
CHECK_DEADLOCK FALSE
INVARIANTS
    AllowedAsIssued
    SuspendedReceiptIsDead
PROPERTIES
    ExpiryIsFinal
    TighteningNeverAllows
