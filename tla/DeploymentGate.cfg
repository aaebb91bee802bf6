SPECIFICATION Spec
CONSTANTS
    Text <- OneWord
    Canonical <- OneWord
    Wildcard = Wildcard
    Blank = Blank
    TransactionalActions = {"deploy", "db_migrate"}
    SideEffectActions = {"email"}
    DefaultKey = "default"
    NoKey = NoKey
    MalformedKey = MalformedKey
    MalformedSig = MalformedSig
    ClockSkew = 1
    FallbackTTL = 1
    Requests <- MCRequests
    Profiles <- MCProfiles
    GatePolicies <- MCGatePolicies
    EvidenceKey = "evidence"
    OtherKey = "other"
    GateKey = "gate"
    None = None
    EvidenceTTLs = {0, 1}
    MaxClock = 3
    MaxEnvelopes = 2
    MaxIssued = 1
    MaxExecuted = 1
CHECK_DEADLOCK FALSE
INVARIANTS
    TypeOK
    EvidenceAgeBounded
    ExecutedOnSoundEvidence
    GateAndBrokerAgree
    BrokerListsAsStrict
