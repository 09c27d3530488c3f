SPECIFICATION CareerSpec
CHECK_DEADLOCK FALSE
SYMMETRY JobSymmetry
CONSTANTS
    Jobs = {j1, j2}
    NoJob = NoJob
    NoDuration = NoDuration
    MaxPositions = 2
    Kinds = {"NEW_GRADUATE"}
    Requirements = {}
    MaxDiscoveries = 2
    MaxRetries = 0
    MaxEvidence = 1
INVARIANTS EachJobIsAsAsked EachGraphAnswersRightly EachPlanIsComplete EachFitIsConsistent
  EachReadingIsFaithful
PROPERTIES EachFitOnlyGains EachRefusedAfterEveryReader
