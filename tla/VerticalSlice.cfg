SPECIFICATION FairSpec
CONSTANTS
    Text <- OneWord
    Canonical <- OneWord
    Wildcard = Wildcard
    Blank = Blank
    TransactionalActions = {"deploy"}
    SideEffectActions = {"email"}
    DefaultKey = "default"
    NoKey = NoKey
    MalformedKey = MalformedKey
    MalformedSig = MalformedSig
    ClockSkew = 1
    FallbackTTL = 2
    EvidenceKey = "evidence"
    GateKey = "gate"
    None = None
    DefaultPolicy <- MCDefaultPolicy
    Suites <- MCSuites
    Faults = TRUE
    MaxClock = 3
CHECK_DEADLOCK FALSE
INVARIANTS
    TypeOK
    AttackNeverDeploys
    VerdictFollowsDeployment
    TimelyVerdictIsPass
    ReturnedMeansReaped
    AnswersMatch
PROPERTIES
    SuiteEnds
