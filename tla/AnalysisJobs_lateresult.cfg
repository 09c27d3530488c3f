\* An execution of a job its user cancelled and retried, in one process.
SPECIFICATION Spec
CONSTANTS
    w1 = w1
    w2 = w2
    alice = alice
    bob = bob
    NoWorker = NoWorker
    Jobs = {1}
    Users = {alice}
    Owner <- OneUser
    Unified = {1}
    Workers = {w1}
    MaxAttempts = 2
    UserSlots = 1
    MaxConcurrent = 2
    QuestionLimit <- NoQuestions
    MaxResumes = 1
PROPERTIES
    LateResultDropped
