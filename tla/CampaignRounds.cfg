SPECIFICATION RoundsFairSpec
CONSTANTS
    StrategyOrder <- MCStrategyOrder
    Mutable <- MCMutable
    Other = "other"
    MaxRounds = 2
    MutationBudget = 2
    Dice <- MCDice
    Severities <- MCSeverities
    VerifiedStatus <- MCVerifiedStatus
    MaxRuns = 2
    MaxDrift = 1
INVARIANTS
    RoundsTypeOK
    RoundsContiguous
    ExecutedOnce
    OneFindingPerRound
    ChainsLinear
    ChainsBounded
    MutationsBounded
    LostBounded
    UnconfirmedExplained
    ExploresFirst
    CompletedAllRounds
    TranscriptComplete
    FindingsHaveEvidence
    ReportAgreesWithMetrics
PROPERTIES
    RoundsNeverReopen
    RunEnds
CHECK_DEADLOCK FALSE
