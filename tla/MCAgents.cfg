CONSTANTS
    Threads = {"t1", "t2"}
    Operator = "operator"
    MaxPairs = 3
    Sizes <- MCSizes
    Streams <- MCStreams
    People <- MCPeople
    Drafts <- MCDrafts
    Requirements <- MCRequirements
    Gaps <- MCGaps
    MinSentences = 2
    MaxSentences = 3
    MaxFacts = 3
    LetterSteps = 4
    PracticeSteps = 3
    IntakeSteps = 2
    Findings <- MCVerdicts
    MaxPerKind = 1
    Said <- MCSaid
    RoleLike = {"data", "backend"}
    MinDimensions = 2
    MaxProbes = 2
    Asked <- MCPostings
    Roadmaps <- MCRoadmaps
    Tokens <- MCTokens
    Analyses <- MCAnalyses
    CompanyOf <- MCCompanyOf
    RoleOf <- MCRoleOf
    WebTurns = 2
    MaxEntries = 1
    Asking <- MCAsking
    ChatSessions = {"u1"}
    MaxChats = 1
SPECIFICATION AgentsSpec
CHECK_DEADLOCK FALSE
INVARIANTS EachAccountIsHonest EachSessionSurvives EachAgentKeepsToItsLoop EachReportIsEarned
PROPERTIES EachTurnDelivers
