\* Two jobs of one user who may have one RUNNING, under fairness.
SPECIFICATION FairSpec
CONSTANTS
    w1 = w1
    w2 = w2
    alice = alice
    bob = bob
    NoWorker = NoWorker
    Jobs = {1, 2}
    Users = {alice}
    Owner <- OneUser
    Unified = {1}
    Workers = {w1, w2}
    MaxAttempts = 2
    UserSlots = 1
    MaxConcurrent = 1
    QuestionLimit <- NoQuestions
    MaxResumes = 0
PROPERTIES
    QueuedIsServed
    RunningEnds
