SPECIFICATION Spec
CONSTANTS
    Plans <- MCPlans
    Iterations = {0, 1, 2}
    MaxRuns = 2
CHECK_DEADLOCK FALSE
INVARIANTS
    TypeOK
    GateExecutesTheSound
    EnginesAreOrdered
    FixturesBehaveAsLabelled
    PublishedFigures
    EachAblationTells
    AblationsOnlyLoosen
    ArtifactsAgree
