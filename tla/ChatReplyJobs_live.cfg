\* Two messages of a conversation under fairness, one process after another.
SPECIFICATION FairSpec
CONSTANTS
    w1 = w1
    w2 = w2
    NoWorker = NoWorker
    Jobs = {1, 2}
    Conversation <- OneConversation
    Workers = {w1, w2}
    MaxAttempts = 2
    Bypass = TRUE
    Overlap = FALSE
    MaxResumes = 0
INVARIANTS
    AttemptBudget
PROPERTIES
    RunningEnds
    QueuedIsServed
