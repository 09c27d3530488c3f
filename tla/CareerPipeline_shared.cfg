\* Two jobs of one posting, of which the users choose different positions.
SPECIFICATION Spec
CHECK_DEADLOCK FALSE
CONSTANTS
    Jobs = {j1, j2}
    NoJob = NoJob
    MaxPositions = 2
    Kinds = {"NEW_GRADUATE_OR_EXPERIENCED"}
    Requirements = {}
    MaxDiscoveries = 2
    MaxRetries = 0
    MaxEvidence = 3
INVARIANTS
    ReviewedPositionIsInterpreted
