\* One UNIFIED job, retried, answered and cancelled, and two worker processes.
SPECIFICATION Spec
CONSTANTS
    w1 = w1
    w2 = w2
    alice = alice
    bob = bob
    NoWorker = NoWorker
    Jobs = {1}
    Users = {alice}
    Owner <- OneUser
    Unified = {1}
    Workers = {w1, w2}
    MaxAttempts = 2
    UserSlots = 1
    MaxConcurrent = 2
    QuestionLimit <- OneQuestion
    MaxResumes = 2
INVARIANTS
    TypeOK
    QueueMatchesStatus
    AttemptBudget
    WaitingCanBeAnswered
    RunCompletedIffSucceeded
PROPERTIES
    CancelledRevivedOnlyByUser
    ForeignExecutionFenced
    LifecycleSpec
SYMMETRY WorkerSymmetry
