CONSTANTS
  MaxInsertDepth = 2
  MaxParallel = 3
  Postings <- MCPostings
  Resumes <- MCResumes
  Stored <- MCStored
  Careers <- MCCareers
  Plans <- MCPlans
  Submissions <- MCSubmissions
  Turns <- MCTurns
  MaxSteps = 3
  RequestTurns = 2
  Unified = FALSE
  Overlap = FALSE
  StreamAgents = {"fit", "plan"}
  Budget = 9
  Rounds = 2
  StreamPlans = 3
  Mixed <- MCMixed
  MaxOptions = 4
  MaxQuestions = 3
  EngineTurns = 2
SPECIFICATION AssistantSpec
CHECK_DEADLOCK FALSE
INVARIANTS EachVerdictIsTold EachPathIsSettledByTheUser EachStreamIsAliveAndBounded
  EachProposalIsAccepted EachJudgementIsSound
PROPERTIES EachAgentMayRun EachTurnIsKept
