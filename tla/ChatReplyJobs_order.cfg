\* Two messages of a conversation, two processes at the same time.
SPECIFICATION Spec
CONSTANTS
    w1 = w1
    w2 = w2
    NoWorker = NoWorker
    Jobs = {1, 2}
    Conversation <- OneConversation
    Workers = {w1, w2}
    MaxAttempts = 1
    Bypass = TRUE
    Overlap = TRUE
    MaxResumes = 1
INVARIANTS
    TypeOK
    AnsweredOnce
    RunningCanBeRecovered
    ConversationOrder
SYMMETRY WorkerSymmetry
