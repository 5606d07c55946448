SPECIFICATION StageSpec
CONSTANTS
    Evidence = {e1, e2, e3}
    Held = {e1}
    MaxDecisions = 3
    MaxModelCalls = 3
    MaxToolCalls = 2
    MaxEvidence = 2
    None = None
    Runs = {r1, r2}
    Users = {u1, u2}
    Loops = {l1, l2}
    Docs = {d1}
    MaxGeneration = 2
    Layout <- MCLayout
    RouteDepth = 2
    Scores = {0, 1}
    RrfK = 2
    CandidateCount = 3
    TopK = 2
    MaxTokens = 6
    MaxSegments = 3
    Cited = {e1, e2}
    TaskCount = 2
    MaxLabels = 3
    MaxText = 2
    MaxAnswerCalls = 2
INVARIANTS
    EvidenceIsAudited
    OutcomeMatchesAudit
    SourcesHeld
    ContextIsFaithful
    AnswerIsSupported
PROPERTIES
    AttemptIsCall
    AttemptEnds
    RunEnds
CHECK_DEADLOCK FALSE
