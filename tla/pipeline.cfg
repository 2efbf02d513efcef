SPECIFICATION Spec
CONSTANTS
    Source <- MCSource
    Import <- MCImport
    Repositories <- MCRepositories
    ArchitectureAnswers <- MCArchitectureAnswers
    SecurityAnswers <- MCSecurityAnswers
    RecommendationAnswers <- MCRecommendationAnswers
    Points <- MCPoints
    PointInfo <- MCPointInfo
    HitScores = {80, 101}
    Grammars = {"Python", "JavaScript", "Go"}
    MaxAnalyzableFiles = 4
    FanInThreshold = 1
    FanOutThreshold = 1
    MaxUnreadable = 1
    MaxRagQueries = 3
    TopK = 2
    MaxExcerpts = 1
    MaxRecommendations = 4
INVARIANTS
    TypeOK
    ReportAgrees
    CitationsTraceable
    OnlyKnownRefusals
    WorstQueriedFirst
PROPERTIES
    ImplementsLedger
\* Every run is over in the end.
CHECK_DEADLOCK FALSE
