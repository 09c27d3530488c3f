\* A cancellation between the claim and loadRequest.
SPECIFICATION Spec
CONSTANTS
    w1 = w1
    w2 = w2
    NoWorker = NoWorker
    Jobs = {1}
    Conversation <- OneConversation
    Workers = {w1}
    MaxAttempts = 2
    Bypass = TRUE
    Overlap = FALSE
    MaxResumes = 0
PROPERTIES
    CancelledStaysCancelled
