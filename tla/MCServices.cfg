CONSTANTS
    Postings = {1, 2}
    SiteOf <- MCSiteOf
    JobOf <- MCJobOf
    Orders <- MCOrders
    Pages <- ReadPages
    MaxTexts = 2
    MaxPending = 1
    MaxNew = 2
    MaxCandidates = 2
    CheckpointEvery = 1
    OcrWorkers = {"o1", "o2"}
    Imports <- MCImports
    MaxAttempts = 2
    Writers = {w1, w2}
    Batches <- MCBatches
    SourceOf <- MCSourceOf
    Scripts = {"additive", "replacing", "stale"}
    WindowSize = 2
    Callers = {"c1", "c2"}
    Scores <- MCScores
    MaxQuestions = 4
    MaxSessions = 2
    Evidence = {"e"}
    Extractors = {"x1", "x2"}
    Verifiers = {"v1", "v2"}
    Profiles <- MCProfiles
    Reads <- MCReads
    MaxClaims = 3
    MaxRetries = 1
SPECIFICATION ServicesSpec
SYMMETRY WriterSymmetry
CHECK_DEADLOCK FALSE
INVARIANTS EachStageIsWhole EachAnswerIsBound EachVerdictIsEarned
PROPERTIES EachStepKeeps
