\* Three jobs of one user who may have two RUNNING, two worker processes.
SPECIFICATION Spec
CONSTANTS
    w1 = w1
    w2 = w2
    alice = alice
    bob = bob
    NoWorker = NoWorker
    Jobs = {1, 2, 3}
    Users = {alice}
    Owner <- OneUser
    Unified = {1}
    Workers = {w1, w2}
    MaxAttempts = 2
    UserSlots = 2
    MaxConcurrent = 2
    QuestionLimit <- NoQuestions
    MaxResumes = 0
INVARIANTS
    UserSlotsRespected
