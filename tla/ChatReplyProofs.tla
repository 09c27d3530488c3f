-------------------------- MODULE ChatReplyProofs --------------------------
(***************************************************************************)
(* Proofs about ChatReplyJobs, for every number of messages, conversations *)
(* and processes, however these overlap and whether or not the functions'  *)
(* owner bypasses row security: the types, the number of attempts, the     *)
(* order in which the messages of a conversation are taken up, and, while  *)
(* one process replaces another, that a message is answered once and a     *)
(* running one can be recovered.                                           *)
(***************************************************************************)
EXTENDS ChatReplyJobs, FiniteSetTheorems, TLAPS

USE DEF Open, Ended

\* The rows that the operations write are rows of the tables.
LEMMA RowTypes ==
    /\ NoQueueRow \in QueueRows /\ NewQueueRow \in QueueRows
    /\ \A row \in JobRows, s \in Open \cup Ended : Released(row, s) \in JobRows
    /\ \A row \in QueueRows : Unlocked(row) \in QueueRows
BY DEF NoQueueRow, NewQueueRow, QueueRows, Released, Unlocked, JobRows

\* Init builds a state of the right type.
LEMMA TypeInit == Init => TypeOK
<1> SUFFICES ASSUME Init PROVE TypeOK
  OBVIOUS
<1>1. [status |-> "NONE", worker |-> NoWorker, attempt |-> 0] \in JobRows
  BY DEF JobRows
<1> QED
  BY <1>1, RowTypes DEF Init, TypeOK

\* A transaction of a user, and the signal that follows a cancellation, leave
\* rows of the right type.
LEMMA TypeUser ==
    ASSUME TypeOK, User \/ \E s \in signals : Signal(s)
    PROVE  TypeOK'
<1> USE ChatAssumption, RowTypes
<1>1. ASSUME NEW j \in Jobs, Enqueue(j) PROVE TypeOK'
  <2>1. [job[j] EXCEPT !.status = "QUEUED"] \in JobRows
    BY DEF TypeOK, JobRows
  <2> QED
    BY <1>1, <2>1 DEF Enqueue, TypeOK
<1>2. ASSUME NEW j \in Jobs, Retry(j) PROVE TypeOK'
  <2>1. queue' \in [Jobs -> QueueRows]
    <3> DEFINE row == IF queue[j].listed THEN Unlocked(queue[j]) ELSE NewQueueRow
    <3>1. row \in QueueRows
      BY DEF TypeOK
    <3>2. queue' = [queue EXCEPT ![j] = row]
      BY <1>2 DEF Retry
    <3> HIDE DEF row
    <3> QED
      BY <3>1, <3>2 DEF TypeOK
  <2>2. resumes' \in [Jobs -> Nat]
    BY <1>2 DEF Retry, TypeOK
  <2>3. job' \in [Jobs -> JobRows]
    BY <1>2 DEF Retry, TypeOK
  <2> QED
    BY <1>2, <2>1, <2>2, <2>3 DEF Retry, TypeOK
<1>3. ASSUME NEW w \in Workers, NEW j \in Jobs, Cancel(w, j) PROVE TypeOK'
  <2>1. signals' \subseteq Signals
    BY <1>3 DEF Cancel, TypeOK, Signals
  <2>2. job' \in [Jobs -> JobRows] /\ queue' \in [Jobs -> QueueRows]
    BY <1>3 DEF Cancel, Finish, TypeOK
  <2> QED
    BY <1>3, <2>1, <2>2 DEF Cancel, TypeOK
<1>4. ASSUME NEW s \in signals, Signal(s) PROVE TypeOK'
  BY <1>4 DEF Signal, TypeOK
<1> QED
  BY <1>1, <1>2, <1>3, <1>4 DEF User

\* So does a poll of a worker.
LEMMA TypePolling ==
    ASSUME TypeOK, NEW w \in Workers, Polling(w)
    PROVE  TypeOK'
<1>1. CASE ClaimThrows(w)
  BY <1>1 DEF ClaimThrows, TypeOK
<1>2. ASSUME NEW j \in Jobs, Claim(w, j) PROVE TypeOK'
  <2> DEFINE n == queue[j].attempt + 1
  <2>1. n \in Nat /\ queue[j] \in QueueRows
    BY DEF TypeOK, QueueRows
  <2>2. [queue[j] EXCEPT !.worker = w, !.lock = "live", !.attempt = n] \in QueueRows
    BY <2>1 DEF QueueRows
  <2>3. [job |-> j, worker |-> w, attempt |-> n, pc |-> "claimed"] \in Tasks
    BY <2>1 DEF Tasks
  <2> HIDE DEF n
  <2>4. queue' \in [Jobs -> QueueRows] /\ tasks' \subseteq Tasks
    BY <1>2, <2>2, <2>3 DEF Claim, TypeOK, n
  <2> QED
    BY <1>2, <2>4 DEF Claim, TypeOK
<1> QED
  BY <1>1, <1>2 DEF Polling

\* So does each transaction of a task.
LEMMA TypeExecuting ==
    ASSUME TypeOK, NEW t \in tasks, Executing(t)
    PROVE  TypeOK'
<1> USE RowTypes
<1>0. /\ t \in Tasks /\ t.job \in Jobs /\ t.worker \in Workers /\ t.attempt \in Nat
      /\ job[t.job] \in JobRows /\ queue[t.job] \in QueueRows
  BY DEF TypeOK, Tasks
<1>1. End(t) => tasks' \subseteq Tasks /\ active' \in [Workers -> BOOLEAN]
  BY DEF End, TypeOK
<1>2. \A s \in Ended : [job[t.job] EXCEPT !.status = s] \in JobRows
  BY <1>0 DEF JobRows
<1>3. CASE Submit(t)
  <2>1. [t EXCEPT !.pc = "submitted"] \in Tasks
    BY <1>0 DEF Tasks
  <2> QED
    BY <1>3, <2>1 DEF Submit, TypeOK
<1>4. CASE LoadRequest(t)
  <2>1. [t EXCEPT !.pc = "running"] \in Tasks
    BY <1>0 DEF Tasks
  <2>2. [status |-> "RUNNING", worker |-> t.worker, attempt |-> t.attempt] \in JobRows
    BY <1>0 DEF JobRows
  <2> QED
    BY <1>0, <1>4, <2>1, <2>2 DEF LoadRequest, TypeOK
<1>5. CASE Complete(t)
  BY <1>0, <1>1, <1>2, <1>5 DEF Complete, Finish, TypeOK
<1>6. CASE RetryLater(t)
  <2>1. job' \in [Jobs -> JobRows]
    BY <1>0, <1>6 DEF RetryLater, TypeOK
  <2>2. queue' \in [Jobs -> QueueRows]
    BY <1>0, <1>6 DEF RetryLater, TypeOK
  <2> QED
    BY <1>1, <1>6, <2>1, <2>2 DEF RetryLater, TypeOK
<1>7. CASE Fail(t)
  BY <1>0, <1>1, <1>2, <1>7 DEF Fail, Finish, TypeOK
<1>8. CASE Discard(t)
  BY <1>1, <1>8 DEF Discard, TypeOK
<1> QED
  BY <1>3, <1>4, <1>5, <1>6, <1>7, <1>8 DEF Executing, Ends

\* An interrupt hands an attempt back to the rows of its process.
LEMMA TypeInterrupted ==
    ASSUME TypeOK, NEW w \in Workers, Interrupted(w)
    PROVE  job' \in [Jobs -> JobRows] /\ queue' \in [Jobs -> QueueRows]
<1>1. job' \in [Jobs -> JobRows]
  BY RowTypes DEF Interrupted, TypeOK
<1> DEFINE n(j) == IF queue[j].attempt > 0 THEN queue[j].attempt - 1 ELSE 0
<1>2. \A j \in Jobs : n(j) \in Nat
  BY DEF TypeOK, QueueRows
<1>3. \A j \in Jobs : [Unlocked(queue[j]) EXCEPT !.attempt = n(j)] \in QueueRows
  BY <1>2, RowTypes DEF TypeOK, QueueRows, Unlocked
<1> QED
  BY <1>1, <1>3 DEF Interrupted, TypeOK

\* So do the clock, recovery and the life of a process.
LEMMA TypeEnvironment ==
    ASSUME TypeOK,
           \/ \E j \in Jobs : QueueLockExpires(j)
           \/ Recover
           \/ \E w \in Workers : Lifetime(w)
    PROVE  TypeOK'
<1> USE ChatAssumption, RowTypes
<1>1. ASSUME NEW j \in Jobs, QueueLockExpires(j) PROVE TypeOK'
  <2>1. [queue[j] EXCEPT !.lock = "expired"] \in QueueRows
    BY DEF TypeOK, QueueRows
  <2> QED
    BY <1>1, <2>1 DEF QueueLockExpires, TypeOK
<1>2. CASE Recover
  <2>1. job' \in [Jobs -> JobRows]
    BY <1>2 DEF Recover, TypeOK
  <2>2. queue' \in [Jobs -> QueueRows]
    BY <1>2 DEF Recover, TypeOK
  <2> QED
    BY <1>2, <2>1, <2>2 DEF Recover, TypeOK
<1>3. ASSUME NEW w \in Workers, StartProcess(w) \/ Vanish(w) PROVE TypeOK'
  <2>1. CASE StartProcess(w)
    BY <2>1 DEF StartProcess, TypeOK
  <2>2. CASE Vanish(w)
    <3>1. process' \in [Workers -> {"new", "up", "stopping", "stopped", "crashed"}]
      BY <2>2 DEF Vanish, TypeOK
    <3> QED
      BY <2>2, <3>1 DEF Vanish, TypeOK
  <2> QED
    BY <1>3, <2>1, <2>2
<1>4. ASSUME NEW w \in Workers, Shutdown(w) PROVE TypeOK'
  <2>1. job' \in [Jobs -> JobRows] /\ queue' \in [Jobs -> QueueRows]
    BY <1>4, TypeInterrupted DEF Shutdown, TypeOK
  <2> QED
    BY <1>4, <2>1 DEF Shutdown, TypeOK
<1> QED
  BY <1>1, <1>2, <1>3, <1>4 DEF Lifetime

\* Every reachable state is a state of the tables and the processes.
THEOREM TypeCorrect == Spec => []TypeOK
<1>1. TypeOK /\ [Next]_vars => TypeOK'
  <2> SUFFICES ASSUME TypeOK, [Next]_vars PROVE TypeOK'
    OBVIOUS
  <2>1. CASE UNCHANGED vars
    BY <2>1 DEF vars, TypeOK
  <2> QED
    BY <2>1, TypeUser, TypePolling, TypeExecuting, TypeEnvironment DEF Next
<1> QED
  BY TypeInit, <1>1, PTL DEF Spec

-----------------------------------------------------------------------------
(* What a step does to one job.  Spent are the attempts that its queue row   *)
(* counts; Granted are those its user's requests are worth.                  *)

Granted(j) == MaxAttempts * (resumes[j] + 1)

HandedBack == Cardinality(Shutdowns)

JobInv(j) ==
    /\ job[j].status = "NONE" => claims[j] = 0
    /\ job[j].status \notin Open => queue[j].worker = NoWorker
    /\ claims[j] <= Granted(j) + HandedBack
    /\ queue[j].listed =>
         /\ queue[j].attempt <= MaxAttempts
         /\ claims[j] + MaxAttempts <= Granted(j) + HandedBack + queue[j].attempt

\* A task has a job, and the messages of a conversation are sent in order.
TaskInv == \A t \in tasks : job[t.job].status # "NONE"
SentInv == \A j \in Jobs : job[j].status # "NONE" =>
               \A i \in Earlier(j) : job[i].status # "NONE"

Inv == /\ TypeOK /\ TaskInv /\ SentInv
       /\ \A j \in Jobs : JobInv(j)
       /\ ConversationOrder

Counts(j, c, r) == claims'[j] = claims[j] + c /\ resumes'[j] = resumes[j] + r

\* The row may be released and relocked, within QUEUED and RUNNING.
Same(j) ==
    /\ job'[j].status # job[j].status =>
         job[j].status \in Open /\ job'[j].status \in Open
    /\ queue'[j].worker \in {queue[j].worker, NoWorker}
    /\ queue'[j].listed = queue[j].listed
    /\ queue'[j].attempt = queue[j].attempt
    /\ Counts(j, 0, 0)

Sent(j) ==
    /\ job[j].status = "NONE" /\ job'[j].status = "QUEUED"
    /\ \A i \in Earlier(j) : job[i].status # "NONE"
    /\ queue'[j] = NewQueueRow
    /\ Counts(j, 0, 0)

Retried(j) ==
    /\ job[j].status \in {"FAILED", "CANCELLED"} /\ job'[j].status = "QUEUED"
    /\ queue'[j].worker = NoWorker
    /\ queue'[j].attempt = IF queue[j].listed THEN queue[j].attempt ELSE 0
    /\ Counts(j, 0, 1)

Closed(j) ==
    /\ job[j].status \in Open /\ job'[j].status \in Ended
    /\ queue'[j] = NoQueueRow
    /\ Counts(j, 0, 0)

Claimed(j) ==
    /\ Claimable(j)
    /\ job' = job
    /\ queue'[j].listed
    /\ queue'[j].attempt = queue[j].attempt + 1
    /\ Counts(j, 1, 0)

Loaded(j) ==
    /\ job[j].status # "NONE" /\ job'[j].status = "RUNNING"
    /\ queue'[j] = queue[j]
    /\ j \in strayed' \/ queue[j].worker # NoWorker
    /\ Counts(j, 0, 0)

Interrupting(j) ==
    /\ job'[j].status # job[j].status =>
         job[j].status \in Open /\ job'[j].status \in Open
    /\ queue'[j].worker = NoWorker
    /\ queue'[j].listed = queue[j].listed
    /\ queue'[j].attempt = IF queue[j].attempt > 0 THEN queue[j].attempt - 1 ELSE 0
    /\ HandedBack' = HandedBack + 1
    /\ Counts(j, 0, 0)

Shape(j) == \/ Same(j) \/ Sent(j) \/ Retried(j) \/ Closed(j)
            \/ Claimed(j) \/ Loaded(j) \/ Interrupting(j)

\* The types of one job's rows, in the form the steps below cite.
LEMMA JobTypes ==
    ASSUME TypeOK, NEW j \in Jobs
    PROVE  /\ job[j] \in JobRows /\ queue[j] \in QueueRows
           /\ queue[j].attempt \in Nat /\ queue[j].listed \in BOOLEAN
           /\ claims[j] \in Nat /\ resumes[j] \in Nat
           /\ MaxAttempts \in Nat \ {0} /\ MaxAttempts \in Nat
           /\ Granted(j) \in Nat
           /\ claims[j] + 0 = claims[j] /\ resumes[j] + 0 = resumes[j]
BY ChatAssumption DEF TypeOK, JobRows, QueueRows, Granted

\* Shutdowns are finite in number.
LEMMA Finite == IsFiniteSet(Shutdowns) /\ HandedBack \in Nat
<1>1. IsFiniteSet(Shutdowns)
  BY ChatAssumption, FS_Subset DEF Shutdowns
<1> QED
  BY <1>1, FS_CardinalityType DEF HandedBack

\* A step that leaves a job's rows and counts alone leaves the job as it is.
LEMMA Untouched ==
    ASSUME TypeOK, NEW j \in Jobs, job'[j] = job[j], queue'[j] = queue[j],
           claims'[j] = claims[j], resumes'[j] = resumes[j]
    PROVE  Same(j)
BY JobTypes DEF Same, Counts

\* The transactions of a user move a job in one of the seven ways.
LEMMA ShapeUser ==
    ASSUME Inv, User, NEW j \in Jobs
    PROVE  Shape(j)
<1> USE DEF Shape
<1>0. TypeOK /\ JobInv(j)
  BY DEF Inv
<1> USE <1>0, JobTypes
<1>1. ASSUME NEW i \in Jobs, Enqueue(i) PROVE Shape(j)
  <2>1. CASE i # j
    BY <1>1, <2>1, Untouched DEF Enqueue, TypeOK
  <2>2. CASE i = j
    BY <1>1, <2>2 DEF Enqueue, Sent, Counts, TypeOK, JobRows
  <2> QED
    BY <2>1, <2>2
<1>2. ASSUME NEW i \in Jobs, Retry(i) PROVE Shape(j)
  <2>1. CASE i # j
    BY <1>2, <2>1, Untouched DEF Retry, TypeOK
  <2>2. CASE i = j
    <3>1. /\ queue'[j].worker = NoWorker
          /\ queue'[j].attempt = IF queue[j].listed THEN queue[j].attempt ELSE 0
      BY <1>2, <2>2 DEF Retry, Unlocked, NewQueueRow, NoQueueRow, TypeOK, QueueRows
    <3>2. Counts(j, 0, 1) /\ job'[j].status = "QUEUED"
      BY <1>2, <2>2 DEF Retry, Counts, Released, TypeOK, JobRows
    <3> QED
      BY <1>2, <2>2, <3>1, <3>2 DEF Retry, Retried
  <2> QED
    BY <2>1, <2>2
<1>3. ASSUME NEW w \in Workers, NEW i \in Jobs, Cancel(w, i) PROVE Shape(j)
  <2>1. CASE i # j
    BY <1>3, <2>1, Untouched DEF Cancel, Finish, TypeOK
  <2>2. CASE i = j
    BY <1>3, <2>2 DEF Cancel, Finish, Closed, Counts, Released, TypeOK, JobRows
  <2> QED
    BY <2>1, <2>2
<1> QED
  BY <1>1, <1>2, <1>3 DEF User

\* A poll claims one job and leaves the others.
LEMMA ShapePolling ==
    ASSUME Inv, NEW w \in Workers, Polling(w), NEW j \in Jobs
    PROVE  Shape(j)
<1> USE DEF Shape
<1>0. TypeOK /\ JobInv(j)
  BY DEF Inv
<1> USE <1>0, JobTypes
<1>1. CASE ClaimThrows(w)
  BY <1>1, Untouched DEF ClaimThrows
<1>2. ASSUME NEW i \in Jobs, Claim(w, i) PROVE Shape(j)
  <2>1. CASE i # j
    BY <1>2, <2>1, Untouched DEF Claim, TypeOK
  <2>2. CASE i = j
    <3>1. queue'[j].listed /\ queue'[j].attempt = queue[j].attempt + 1
      BY <1>2, <2>2 DEF Claim, Claimable, TypeOK, QueueRows
    <3>2. Claimable(j) /\ job' = job /\ Counts(j, 1, 0)
      BY <1>2, <2>2 DEF Claim, Counts, TypeOK
    <3> QED
      BY <3>1, <3>2 DEF Claimed
  <2> QED
    BY <2>1, <2>2
<1> QED
  BY <1>1, <1>2 DEF Polling

\* A task loads, closes or hands back its job, and leaves the others.
LEMMA ShapeExecuting ==
    ASSUME Inv, NEW t \in tasks, Executing(t), NEW j \in Jobs
    PROVE  Shape(j)
<1> USE DEF Shape
<1>0. /\ TypeOK /\ JobInv(j)
      /\ t.job \in Jobs /\ t.worker \in Workers /\ job[t.job].status # "NONE"
  BY DEF Inv, TaskInv, TypeOK, Tasks
<1> USE <1>0, JobTypes
<1>1. CASE Submit(t) \/ Discard(t)
  BY <1>1, Untouched DEF Submit, Discard
<1>2. CASE LoadRequest(t)
  <2>1. CASE t.job # j
    BY <1>2, <2>1, Untouched DEF LoadRequest, TypeOK
  <2>2. CASE t.job = j
    <3>1. j \in strayed' \/ queue[j].worker # NoWorker
      BY <1>2, <2>2, ChatAssumption DEF LoadRequest
    <3> QED
      BY <1>2, <2>2, <3>1 DEF LoadRequest, Loaded, Counts, TypeOK
  <2> QED
    BY <2>1, <2>2
<1>3. CASE Complete(t) \/ Fail(t)
  <2>1. CASE t.job # j
    BY <1>3, <2>1, Untouched DEF Complete, Fail, Finish, TypeOK
  <2>2. CASE t.job = j
    BY <1>3, <2>2 DEF Complete, Fail, Finish, Holds, Closed, Counts, TypeOK, JobRows
  <2> QED
    BY <2>1, <2>2
<1>4. CASE RetryLater(t)
  <2>1. CASE t.job # j
    BY <1>4, <2>1, Untouched DEF RetryLater, TypeOK
  <2>2. CASE t.job = j
    <3>1. job'[j].status # job[j].status =>
            job[j].status \in Open /\ job'[j].status \in Open
      BY <1>4, <2>2 DEF RetryLater, Holds, Released, TypeOK, JobRows
    <3>2. /\ queue'[j].worker \in {queue[j].worker, NoWorker}
          /\ queue'[j].listed = queue[j].listed
          /\ queue'[j].attempt = queue[j].attempt
      BY <1>4, <2>2 DEF RetryLater, Unlocked, TypeOK, QueueRows
    <3> QED
      BY <1>4, <3>1, <3>2 DEF RetryLater, Same, Counts
  <2> QED
    BY <2>1, <2>2
<1> QED
  BY <1>1, <1>2, <1>3, <1>4 DEF Executing, Ends

\* Recovery, the clock and the end of a process move each job in such a way.
LEMMA ShapeEnvironment ==
    ASSUME Inv, NEW j \in Jobs,
           \/ \E s \in signals : Signal(s)
           \/ \E i \in Jobs : QueueLockExpires(i)
           \/ Recover
           \/ \E w \in Workers : Lifetime(w)
    PROVE  Shape(j)
<1> USE DEF Shape
<1>0. TypeOK /\ JobInv(j)
  BY DEF Inv
<1> USE <1>0, JobTypes
<1>1. ASSUME NEW s \in signals, Signal(s) PROVE Shape(j)
  BY <1>1, Untouched DEF Signal
<1>2. ASSUME NEW i \in Jobs, QueueLockExpires(i) PROVE Shape(j)
  BY <1>2 DEF QueueLockExpires, Same, Counts, TypeOK, QueueRows
<1>3. CASE Recover
  <2>1. Counts(j, 0, 0)
    BY <1>3 DEF Recover, Counts
  <2>2. CASE j \in Exhausted
    BY <1>3, <2>1, <2>2 DEF Recover, Exhausted, Closed, Released, TypeOK, JobRows
  <2>3. CASE j \notin Exhausted
    <3>1. job'[j].status # job[j].status =>
            job[j].status \in Open /\ job'[j].status \in Open
      BY <1>3, <2>3 DEF Recover, Released, JobRows
    <3>2. /\ queue'[j].worker \in {queue[j].worker, NoWorker}
          /\ queue'[j].listed = queue[j].listed
          /\ queue'[j].attempt = queue[j].attempt
      BY <1>3, <2>3 DEF Recover, Unlocked, QueueRows
    <3> QED
      BY <2>1, <3>1, <3>2 DEF Same
  <2> QED
    BY <2>2, <2>3
<1>4. ASSUME NEW w \in Workers, StartProcess(w) \/ Vanish(w) PROVE Shape(j)
  BY <1>4, Untouched DEF StartProcess, Vanish
<1>5. ASSUME NEW w \in Workers, Shutdown(w) PROVE Shape(j)
  <2>1. Counts(j, 0, 0)
    BY <1>5 DEF Shutdown, Counts
  <2>2. CASE UNCHANGED <<job, queue>>
    BY <1>5, <2>2, Untouched DEF Shutdown
  <2>3. CASE Interrupted(w)
    <3>1. job'[j].status # job[j].status =>
            job[j].status \in Open /\ job'[j].status \in Open
      BY <2>3 DEF Interrupted, Released, JobRows
    <3>2. CASE queue[j].worker = w
      <4>1. /\ queue'[j].worker = NoWorker
            /\ queue'[j].listed = queue[j].listed
            /\ queue'[j].attempt =
                 IF queue[j].attempt > 0 THEN queue[j].attempt - 1 ELSE 0
        BY <2>3, <3>2 DEF Interrupted, Unlocked, QueueRows
      <4>2. Shutdowns' = Shutdowns \cup {w} /\ w \notin Shutdowns
        BY <1>5 DEF Shutdown, Shutdowns, TypeOK
      <4>3. HandedBack' = HandedBack + 1
        BY <4>2, Finite, FS_AddElement DEF HandedBack
      <4> QED
        BY <2>1, <3>1, <4>1, <4>3 DEF Interrupting
    <3>3. CASE queue[j].worker # w
      BY <2>1, <2>3, <3>1, <3>3 DEF Interrupted, Same
    <3> QED
      BY <3>2, <3>3
  <2> QED
    BY <1>5, <2>2, <2>3 DEF Shutdown
<1> QED
  BY <1>1, <1>2, <1>3, <1>4, <1>5 DEF Lifetime

\* Every step moves every job in one of the seven ways.
LEMMA StepShapes ==
    ASSUME Inv, [Next]_vars
    PROVE  \A j \in Jobs : Shape(j)
<1> SUFFICES ASSUME NEW j \in Jobs PROVE Shape(j)
  OBVIOUS
<1>1. CASE UNCHANGED vars
  BY <1>1, Untouched DEF vars, Inv, Shape
<1> QED
  BY <1>1, ShapeUser, ShapePolling, ShapeExecuting, ShapeEnvironment DEF Next

-----------------------------------------------------------------------------
(* The invariant is inductive. *)

\* The number of orderly shutdowns never falls.
LEMMA ShutdownsStay ==
    ASSUME TypeOK, [Next]_vars
    PROVE  HandedBack' \in Nat /\ HandedBack <= HandedBack'
<1>1. Shutdowns \subseteq Shutdowns'
  <2>1. ASSUME NEW w \in Workers, Lifetime(w) PROVE Shutdowns \subseteq Shutdowns'
    BY <2>1 DEF Lifetime, StartProcess, Shutdown, Vanish, Shutdowns, TypeOK
  <2>2. ASSUME process' = process PROVE Shutdowns \subseteq Shutdowns'
    BY <2>2 DEF Shutdowns
  <2>3. User \/ Recover \/ UNCHANGED vars => process' = process
    BY DEF User, Enqueue, Retry, Cancel, Recover, vars
  <2>4. \A s \in signals : Signal(s) => process' = process
    BY DEF Signal
  <2>5. \A j \in Jobs : QueueLockExpires(j) => process' = process
    BY DEF QueueLockExpires
  <2>6. \A w \in Workers : Polling(w) => process' = process
    BY DEF Polling, Claim, ClaimThrows
  <2>7. \A t \in tasks : Executing(t) => process' = process
    BY DEF Executing, Ends, Submit, LoadRequest, Complete, RetryLater, Fail, Discard
  <2> QED
    BY <2>1, <2>2, <2>3, <2>4, <2>5, <2>6, <2>7 DEF Next
<1>2. IsFiniteSet(Shutdowns')
  BY ChatAssumption, FS_Subset DEF Shutdowns
<1> QED
  BY <1>1, <1>2, FS_Subset, FS_CardinalityType DEF HandedBack

\* Each of the seven ways keeps a job's part of the invariant: a request of the
\* user grants MaxAttempts more, a shutdown hands one back, and nothing else
\* adds to what may be spent.
LEMMA ShapeKeepsJobInv ==
    ASSUME TypeOK, TypeOK', NEW j \in Jobs, JobInv(j), Shape(j),
           HandedBack' \in Nat, HandedBack <= HandedBack'
    PROVE  JobInv(j)'
<1> DEFINE G == Granted(j)
<1> DEFINE H == HandedBack
<1>0. /\ G \in Nat /\ H \in Nat /\ claims[j] \in Nat /\ queue[j].attempt \in Nat
      /\ H' \in Nat /\ H <= H'
      /\ MaxAttempts \in Nat \ {0} /\ MaxAttempts \in Nat
      /\ claims[j] + 0 = claims[j] /\ resumes[j] + 0 = resumes[j]
  BY JobTypes, Finite
<1>1. resumes'[j] = resumes[j] => G' = G
  BY DEF Granted
<1>2. resumes'[j] = resumes[j] + 1 => G' = G + MaxAttempts
  BY JobTypes DEF Granted
<1>3. /\ job[j].status = "NONE" => claims[j] = 0
      /\ job[j].status \notin Open => queue[j].worker = NoWorker
      /\ claims[j] <= G + H
      /\ queue[j].listed => /\ queue[j].attempt <= MaxAttempts
                            /\ claims[j] + MaxAttempts <= G + H + queue[j].attempt
  BY DEF JobInv
<1>4. MaxAttempts <= G
  <2>1. MaxAttempts * (resumes[j] + 1) = MaxAttempts * resumes[j] + MaxAttempts
    BY JobTypes
  <2>2. MaxAttempts * resumes[j] \in Nat
    BY JobTypes
  <2> QED
    BY <1>0, <2>1, <2>2 DEF Granted
<1>5. SUFFICES /\ job'[j].status = "NONE" => claims'[j] = 0
               /\ job'[j].status \notin Open => queue'[j].worker = NoWorker
               /\ claims'[j] <= G' + H'
               /\ queue'[j].listed =>
                    /\ queue'[j].attempt <= MaxAttempts
                    /\ claims'[j] + MaxAttempts <= G' + H' + queue'[j].attempt
  BY DEF JobInv
<1> HIDE DEF G, H
<1> USE <1>0, <1>1, <1>2, <1>3 DEF Counts
<1>6. CASE Same(j)
  BY <1>6 DEF Same
<1>7. CASE Sent(j)
  BY <1>4, <1>7 DEF Sent, NewQueueRow, NoQueueRow
<1>8. CASE Retried(j)
  <2>1. claims'[j] <= G' + H' /\ claims'[j] + MaxAttempts <= G' + H'
    BY <1>8 DEF Retried
  <2>2. /\ queue'[j].attempt \in Nat /\ queue'[j].attempt <= MaxAttempts
        /\ job'[j].status = "QUEUED"
    BY <1>8 DEF Retried
  <2>3. G' \in Nat /\ claims'[j] \in Nat
    BY <1>8 DEF Retried
  <2> QED
    BY <2>1, <2>2, <2>3
<1>9. CASE Closed(j)
  BY <1>9 DEF Closed, NoQueueRow
<1>10. CASE Claimed(j)
  <2>1. queue[j].listed /\ queue[j].attempt < MaxAttempts /\ job'[j].status = "QUEUED"
    BY <1>10 DEF Claimed, Claimable
  <2> QED
    BY <1>10, <2>1 DEF Claimed
<1>11. CASE Loaded(j)
  BY <1>11 DEF Loaded
<1>12. CASE Interrupting(j)
  <2>1. H' = H + 1
    BY <1>12 DEF Interrupting, H
  <2>2. /\ queue'[j].attempt \in Nat /\ queue'[j].attempt <= queue[j].attempt
        /\ queue[j].attempt <= queue'[j].attempt + 1
    BY <1>12 DEF Interrupting
  <2>3. claims'[j] <= G' + H'
    BY <1>12, <2>1 DEF Interrupting
  <2>4. queue'[j].listed =>
          /\ queue'[j].attempt <= MaxAttempts
          /\ claims'[j] + MaxAttempts <= G' + H' + queue'[j].attempt
    BY <1>12, <2>1, <2>2 DEF Interrupting
  <2>5. /\ job'[j].status = "NONE" => claims'[j] = 0
        /\ job'[j].status \notin Open => queue'[j].worker = NoWorker
    BY <1>12 DEF Interrupting
  <2> QED
    BY <2>3, <2>4, <2>5
<1> QED
  BY <1>6, <1>7, <1>8, <1>9, <1>10, <1>11, <1>12 DEF Shape

\* A message that was sent stays sent.
LEMMA StaysSent ==
    ASSUME NEW j \in Jobs, Shape(j), job[j].status # "NONE"
    PROVE  job'[j].status # "NONE"
BY DEF Shape, Same, Sent, Retried, Closed, Claimed, Loaded, Interrupting

\* A task is begun by a claim, and keeps its job.
LEMMA TasksSent ==
    ASSUME Inv, [Next]_vars, NEW t \in tasks'
    PROVE  t.job \in Jobs /\ job[t.job].status # "NONE"
<1> USE DEF Inv, TaskInv
<1>0. \A s \in tasks : s.job \in Jobs /\ job[s.job].status # "NONE"
  BY DEF TypeOK, Tasks
<1>1. CASE t \in tasks
  BY <1>0, <1>1
<1>2. CASE t \notin tasks
  <2>1. ASSUME NEW w \in Workers, NEW j \in Jobs, Claim(w, j)
        PROVE  t.job \in Jobs /\ job[t.job].status # "NONE"
    BY <1>2, <2>1 DEF Claim, Claimable
  <2>2. ASSUME NEW s \in tasks, Submit(s) \/ LoadRequest(s)
        PROVE  t.job \in Jobs /\ job[t.job].status # "NONE"
    <3>1. t = [s EXCEPT !.pc = "submitted"] \/ t = [s EXCEPT !.pc = "running"]
      BY <1>2, <2>2 DEF Submit, LoadRequest
    <3>2. s \in Tasks
      BY DEF TypeOK
    <3>3. t.job = s.job
      BY <3>1, <3>2 DEF Tasks
    <3> QED
      BY <1>0, <3>3
  <2>3. ASSUME tasks' \subseteq tasks PROVE FALSE
    BY <1>2, <2>3
  <2>4. User \/ Recover \/ UNCHANGED vars => tasks' \subseteq tasks
    BY DEF User, Enqueue, Retry, Cancel, Recover, vars
  <2>5. \A s \in signals : Signal(s) => tasks' \subseteq tasks
    BY DEF Signal
  <2>6. \A j \in Jobs : QueueLockExpires(j) => tasks' \subseteq tasks
    BY DEF QueueLockExpires
  <2>7. \A w \in Workers : ClaimThrows(w) \/ Lifetime(w) => tasks' \subseteq tasks
    BY DEF ClaimThrows, Lifetime, StartProcess, Shutdown, Vanish
  <2>8. \A s \in tasks : Ends(s) => tasks' \subseteq tasks
    BY DEF Ends, Complete, RetryLater, Fail, Discard, End
  <2> QED
    BY <2>1, <2>2, <2>3, <2>4, <2>5, <2>6, <2>7, <2>8 DEF Next, Polling, Executing
<1> QED
  BY <1>1, <1>2

\* What the order excuses is never taken back.
LEMMA ExcusesStay ==
    ASSUME TypeOK, [Next]_vars
    PROVE  strayed \subseteq strayed'
<1>1. \A t \in tasks : LoadRequest(t) => strayed \subseteq strayed'
  BY DEF LoadRequest
<1>2. User \/ Recover \/ UNCHANGED vars => strayed' = strayed
  BY DEF User, Enqueue, Retry, Cancel, Recover, vars
<1>3. \A s \in signals : Signal(s) => strayed' = strayed
  BY DEF Signal
<1>4. \A j \in Jobs : QueueLockExpires(j) => strayed' = strayed
  BY DEF QueueLockExpires
<1>5. \A w \in Workers : Polling(w) \/ Lifetime(w) => strayed' = strayed
  BY DEF Polling, Claim, ClaimThrows, Lifetime, StartProcess, Shutdown, Vanish
<1>6. \A t \in tasks : Submit(t) \/ Ends(t) => strayed' = strayed
  BY DEF Submit, Ends, Complete, RetryLater, Fail, Discard
<1> QED
  BY <1>1, <1>2, <1>3, <1>4, <1>5, <1>6 DEF Next, Executing

\* A message is claimed when those before it are closed.  They can be opened
\* again by their user, or by a task that a cancellation overtook.
LEMMA OrderKeptByStep ==
    ASSUME Inv, TypeOK', \A j \in Jobs : Shape(j), strayed \subseteq strayed'
    PROVE  ConversationOrder'
<1> SUFFICES ASSUME NEW j \in Jobs, NEW i \in Earlier(j),
                    claims'[j] > 0, job'[i].status \in Open
             PROVE  resumes'[i] > 0 \/ i \in strayed'
  BY DEF ConversationOrder, Earlier
<1>0. /\ i \in Jobs /\ TypeOK /\ Shape(i) /\ Shape(j) /\ JobInv(i) /\ JobInv(j)
  BY DEF Inv, Earlier
<1>1. /\ resumes[i] \in Nat /\ claims[j] \in Nat /\ resumes[i] + 0 = resumes[i]
      /\ claims[j] + 0 = claims[j]
  BY <1>0, JobTypes
<1>2. resumes[i] > 0 => resumes'[i] > 0
  BY <1>0, <1>1 DEF Shape, Same, Sent, Retried, Closed, Claimed, Loaded,
                    Interrupting, Counts
<1>3. CASE claims[j] > 0 /\ job[i].status \in Open
  BY <1>2, <1>3 DEF Inv, ConversationOrder
<1>4. CASE ~(claims[j] > 0)
  <2>1. Claimed(j)
    BY <1>0, <1>1, <1>4 DEF Shape, Same, Sent, Retried, Closed, Loaded,
                            Interrupting, Counts
  <2> QED
    BY <2>1 DEF Claimed, Claimable
<1>5. CASE claims[j] > 0 /\ job[i].status \notin Open
  <2>1. CASE Sent(i)
    <3>1. job[j].status # "NONE"
      BY <1>0, <1>5 DEF JobInv
    <3> QED
      BY <2>1, <3>1 DEF Inv, SentInv, Sent
  <2>2. CASE Retried(i)
    BY <1>1, <2>2 DEF Retried, Counts
  <2>3. CASE Loaded(i)
    BY <1>0, <1>5, <2>3 DEF Loaded, JobInv
  <2> QED
    BY <1>0, <1>5, <2>1, <2>2, <2>3 DEF Shape, Same, Closed, Claimed, Claimable,
                                        Interrupting
<1> QED
  BY <1>3, <1>4, <1>5

\* The inductive invariant.
THEOREM InvHolds == Spec => []Inv
<1>1. Init => Inv
  <2> SUFFICES ASSUME Init PROVE Inv
    OBVIOUS
  <2>1. TypeOK
    BY TypeInit
  <2>2. ASSUME NEW j \in Jobs PROVE JobInv(j)
    BY <2>1, <2>2, JobTypes, Finite DEF Init, JobInv, NoQueueRow
  <2> QED
    BY <2>1, <2>2 DEF Inv, Init, TaskInv, SentInv, ConversationOrder
<1>2. Inv /\ [Next]_vars /\ TypeOK' => Inv'
  <2> SUFFICES ASSUME Inv, [Next]_vars, TypeOK' PROVE Inv'
    OBVIOUS
  <2>1. \A j \in Jobs : Shape(j)
    BY StepShapes
  <2>2. HandedBack' \in Nat /\ HandedBack <= HandedBack'
    BY ShutdownsStay DEF Inv
  <2>3. \A j \in Jobs : JobInv(j)'
    BY <2>1, <2>2, ShapeKeepsJobInv DEF Inv
  <2>4. \A j \in Jobs : job[j].status # "NONE" => job'[j].status # "NONE"
    BY <2>1, StaysSent
  <2>5. TaskInv'
    BY <2>4, TasksSent DEF TaskInv
  <2>6. SentInv'
    <3> SUFFICES ASSUME NEW j \in Jobs, NEW i \in Earlier(j), job'[j].status # "NONE"
                 PROVE  job'[i].status # "NONE"
      BY DEF SentInv, Earlier
    <3>1. i \in Jobs
      BY DEF Earlier
    <3>2. job[i].status # "NONE"
      <4>1. CASE job[j].status # "NONE"
        BY <4>1 DEF Inv, SentInv
      <4>2. CASE job[j].status = "NONE"
        <5>1. Sent(j)
          BY <2>1, <4>2 DEF Shape, Same, Retried, Closed, Claimed, Loaded, Interrupting
        <5> QED
          BY <5>1 DEF Sent
      <4> QED
        BY <4>1, <4>2
    <3> QED
      BY <2>4, <3>1, <3>2
  <2>7. ConversationOrder'
    BY <2>1, ExcusesStay, OrderKeptByStep DEF Inv
  <2> QED
    BY <2>3, <2>5, <2>6, <2>7 DEF Inv
<1> QED
  BY <1>1, <1>2, TypeCorrect, PTL DEF Spec

\* However processes crash, overlap and hand attempts back, and whatever a late
\* task requeues, a message is sent to the AI server at most MaxAttempts times
\* for each request of its user, and once more for each orderly shutdown.
THEOREM AttemptsBounded == Spec => []AttemptBudget
<1>1. Inv => AttemptBudget
  BY DEF Inv, JobInv, Granted, HandedBack, AttemptBudget
<1> QED
  BY InvHolds, <1>1, PTL

\* No process takes up a message before those sent earlier in its conversation.
THEOREM OrderKept == Spec => []ConversationOrder
<1>1. Inv => ConversationOrder
  BY DEF Inv
<1> QED
  BY InvHolds, <1>1, PTL

-----------------------------------------------------------------------------
(* While one process replaces another.  `Alone' says what that means for the *)
(* tasks: one process lives at a time, and it has one task at most, because  *)
(* the flag `active' is set while there is one.                              *)

\* A task belongs to a process that lives and is busy with this task alone.
TaskAlone ==
    \A t \in tasks : /\ t.worker \in Alive /\ active[t.worker]
                     /\ \A u \in tasks : u.worker = t.worker => u = t

ProcessAlone == \A v, w \in Alive : v = w

\* An answered message is closed, and no task is left that could revive it.
AnsweredInv ==
    \A j \in Jobs : \/ replies[j] = 0
                    \/ /\ replies[j] = 1 /\ job[j].status = "SUCCEEDED"
                       /\ \A t \in tasks : t.job # j

\* The worker of a queue row has its lock; a task that runs is the one its row
\* names, if the row is still RUNNING; the row's queue entry is then the worker's,
\* unless the task had lost it before it was loaded.
LockInv == \A j \in Jobs : queue[j].worker # NoWorker => queue[j].listed /\ queue[j].lock # "none"
OwnerInv ==
    \A t \in tasks : t.pc = "running" /\ job[t.job].status = "RUNNING" => job[t.job].worker = t.worker
RecoverableInv ==
    \A j \in Jobs : job[j].status = "RUNNING" =>
        j \in strayed \/ (queue[j].worker = job[j].worker /\ job[j].worker # NoWorker)

AloneInv ==
    /\ TaskAlone /\ LockInv
    /\ ~overlapped => ProcessAlone /\ AnsweredInv /\ OwnerInv
    /\ ~overlapped /\ Bypass => RecoverableInv

\* The tasks of a process: begun by a claim while it is idle, replaced by
\* themselves, and gone with it.
LEMMA TasksStayAlone ==
    ASSUME TypeOK, TaskAlone, [Next]_vars
    PROVE  TaskAlone'
<1> USE DEF TaskAlone, Alive
<1>0. \A t \in tasks : t \in Tasks /\ t.worker \in Workers
  BY DEF TypeOK, Tasks
<1>1. ASSUME tasks' \subseteq tasks, active' = active, process' = process PROVE TaskAlone'
  BY <1>1
<1>2. User \/ Recover \/ UNCHANGED vars => TaskAlone'
  BY <1>1 DEF User, Enqueue, Retry, Cancel, Recover, vars
<1>3. \A s \in signals : Signal(s) => TaskAlone'
  BY <1>1 DEF Signal
<1>4. \A j \in Jobs : QueueLockExpires(j) => TaskAlone'
  BY <1>1 DEF QueueLockExpires
<1>5. ASSUME NEW w \in Workers, Polling(w) PROVE TaskAlone'
  <2>1. CASE ClaimThrows(w)
    BY <1>0, <2>1 DEF ClaimThrows, TypeOK
  <2>2. ASSUME NEW j \in Jobs, Claim(w, j) PROVE TaskAlone'
    <3>1. w \in Alive /\ \A t \in tasks : t.worker # w
      BY <2>2 DEF Claim, Free
    <3>2. PICK new : new.worker = w /\ tasks' = tasks \cup {new}
      BY <2>2 DEF Claim
    <3>3. /\ active' = [active EXCEPT ![w] = TRUE] /\ process' = process
          /\ active \in [Workers -> BOOLEAN]
      BY <2>2 DEF Claim, TypeOK
    <3> QED
      BY <1>0, <3>1, <3>2, <3>3
  <2> QED
    BY <1>5, <2>1, <2>2 DEF Polling
<1>6. ASSUME NEW t \in tasks, Executing(t) PROVE TaskAlone'
  <2>1. CASE Submit(t) \/ LoadRequest(t)
    <3>1. PICK new : new.worker = t.worker /\ tasks' = (tasks \ {t}) \cup {new}
      BY <1>0, <2>1 DEF Submit, LoadRequest, Tasks
    <3>2. active' = active /\ process' = process
      BY <2>1 DEF Submit, LoadRequest
    <3> QED
      BY <3>1, <3>2
  <2>2. CASE Ends(t)
    <3>1. /\ tasks' = tasks \ {t} /\ active' = [active EXCEPT ![t.worker] = FALSE]
          /\ process' = process
      BY <2>2 DEF Ends, Complete, RetryLater, Fail, Discard, End
    <3> QED
      BY <1>0, <3>1 DEF TypeOK
  <2> QED
    BY <1>6, <2>1, <2>2 DEF Executing
<1>7. ASSUME NEW w \in Workers, Lifetime(w) PROVE TaskAlone'
  <2>1. CASE StartProcess(w)
    BY <1>0, <2>1 DEF StartProcess, TypeOK
  <2>2. CASE Shutdown(w)
    BY <1>0, <2>2 DEF Shutdown, TypeOK
  <2>3. CASE Vanish(w)
    BY <1>0, <2>3 DEF Vanish, TypeOK
  <2> QED
    BY <1>7, <2>1, <2>2, <2>3 DEF Lifetime
<1> QED
  BY <1>2, <1>3, <1>4, <1>5, <1>6, <1>7 DEF Next

\* An overlap is remembered, and without one a process starts when none lives.
LEMMA ProcessesStayAlone ==
    ASSUME TypeOK, ~overlapped => ProcessAlone, [Next]_vars, ~overlapped'
    PROVE  ~overlapped /\ ProcessAlone'
<1> USE DEF ProcessAlone, Alive
<1>1. ASSUME NEW w \in Workers, StartProcess(w) PROVE ~overlapped /\ ProcessAlone'
  BY <1>1 DEF StartProcess, TypeOK
<1>2. ASSUME NEW w \in Workers, Shutdown(w) \/ Vanish(w) PROVE ~overlapped /\ ProcessAlone'
  BY <1>2 DEF Shutdown, Vanish, TypeOK
<1>3. ASSUME process' = process, overlapped' = overlapped PROVE ~overlapped /\ ProcessAlone'
  BY <1>3
<1>4. User \/ Recover \/ UNCHANGED vars => process' = process /\ overlapped' = overlapped
  BY DEF User, Enqueue, Retry, Cancel, Recover, vars
<1>5. \A s \in signals : Signal(s) => process' = process /\ overlapped' = overlapped
  BY DEF Signal
<1>6. \A j \in Jobs : QueueLockExpires(j) => process' = process /\ overlapped' = overlapped
  BY DEF QueueLockExpires
<1>7. \A w \in Workers : Polling(w) => process' = process /\ overlapped' = overlapped
  BY DEF Polling, Claim, ClaimThrows
<1>8. \A t \in tasks : Executing(t) => process' = process /\ overlapped' = overlapped
  BY DEF Executing, Ends, Submit, LoadRequest, Complete, RetryLater, Fail, Discard
<1> QED
  BY <1>1, <1>2, <1>3, <1>4, <1>5, <1>6, <1>7, <1>8 DEF Next, Lifetime

\* The lock of a queue row is set and cleared with its worker.
LEMMA LocksStay ==
    ASSUME TypeOK, LockInv, [Next]_vars
    PROVE  LockInv'
<1> USE DEF LockInv
<1> SUFFICES ASSUME NEW j \in Jobs, queue'[j].worker # NoWorker
             PROVE  queue'[j].listed /\ queue'[j].lock # "none"
  OBVIOUS
<1>0. queue[j] \in QueueRows /\ (queue[j].worker # NoWorker => queue[j].listed /\ queue[j].lock # "none")
  BY DEF TypeOK
<1>1. ASSUME queue'[j] \in {queue[j], NoQueueRow, NewQueueRow, Unlocked(queue[j])}
      PROVE  queue'[j].listed /\ queue'[j].lock # "none"
  <2>1. /\ NoQueueRow.worker = NoWorker /\ NewQueueRow.worker = NoWorker
        /\ Unlocked(queue[j]).worker = NoWorker
    BY <1>0 DEF NoQueueRow, NewQueueRow, Unlocked, QueueRows
  <2> QED
    BY <1>0, <1>1, <2>1
<1>2. User => queue'[j] \in {queue[j], NoQueueRow, NewQueueRow, Unlocked(queue[j])}
  BY DEF User, Enqueue, Retry, Cancel, Finish, TypeOK
<1>3. Recover \/ UNCHANGED vars => queue'[j] \in {queue[j], NoQueueRow, Unlocked(queue[j])}
  BY DEF Recover, vars
<1>4. \A s \in signals : Signal(s) => queue' = queue
  BY DEF Signal
<1>5. ASSUME NEW i \in Jobs, QueueLockExpires(i)
      PROVE  queue'[j].listed /\ queue'[j].lock # "none"
  BY <1>0, <1>5 DEF QueueLockExpires, TypeOK, QueueRows
<1>6. ASSUME NEW w \in Workers, Polling(w)
      PROVE  queue'[j].listed /\ queue'[j].lock # "none"
  <2>1. CASE ClaimThrows(w)
    BY <1>0, <2>1 DEF ClaimThrows
  <2>2. ASSUME NEW i \in Jobs, Claim(w, i)
        PROVE  queue'[j].listed /\ queue'[j].lock # "none"
    <3>1. CASE i = j
      BY <1>0, <2>2, <3>1 DEF Claim, Claimable, TypeOK, QueueRows
    <3>2. CASE i # j
      BY <1>0, <2>2, <3>2 DEF Claim, TypeOK
    <3> QED
      BY <3>1, <3>2
  <2> QED
    BY <1>6, <2>1, <2>2 DEF Polling
<1>7. ASSUME NEW t \in tasks, Executing(t)
      PROVE  queue'[j] \in {queue[j], NoQueueRow, Unlocked(queue[j])}
  <2>1. t.job \in Jobs
    BY DEF TypeOK, Tasks
  <2> QED
    BY <1>7, <2>1 DEF Executing, Ends, Submit, LoadRequest, Complete, RetryLater, Fail, Discard,
                      Finish, TypeOK
<1>8. ASSUME NEW w \in Workers, Lifetime(w)
      PROVE  queue'[j].listed /\ queue'[j].lock # "none"
  <2>1. StartProcess(w) \/ Vanish(w) => queue' = queue
    BY DEF StartProcess, Vanish
  <2>2. ASSUME Interrupted(w) PROVE queue'[j] = queue[j]
    <3>1. CASE queue[j].worker = w
      BY <1>0, <2>2, <3>1 DEF Interrupted, Unlocked, QueueRows
    <3>2. CASE queue[j].worker # w
      BY <2>2, <3>2 DEF Interrupted
    <3> QED
      BY <3>1, <3>2
  <2> QED
    BY <1>0, <1>8, <2>1, <2>2 DEF Lifetime, Shutdown
<1> QED
  BY <1>0, <1>1, <1>2, <1>3, <1>4, <1>5, <1>6, <1>7, <1>8 DEF Next

\* With one task, no other can revive what it has answered, nor hand back what
\* it runs.
LEMMA AnsweredStays ==
    ASSUME TypeOK, \A t, u \in tasks : t = u, AnsweredInv, [Next]_vars
    PROVE  AnsweredInv'
<1> USE DEF AnsweredInv
<1> SUFFICES ASSUME NEW j \in Jobs
             PROVE  \/ replies'[j] = 0
                    \/ /\ replies'[j] = 1 /\ job'[j].status = "SUCCEEDED"
                       /\ \A t \in tasks' : t.job # j
  OBVIOUS
<1> DEFINE Answered == replies[j] = 1 /\ job[j].status = "SUCCEEDED" /\ \A t \in tasks : t.job # j
<1>0. /\ (replies[j] = 0 \/ Answered) /\ replies[j] \in Nat
      /\ job \in [Jobs -> JobRows] /\ job[j] \in JobRows
      /\ \A t \in tasks : t \in Tasks /\ t.job \in Jobs
  BY DEF TypeOK, Tasks
<1>1. CASE UNCHANGED vars \/ \E s \in signals : Signal(s)
  BY <1>0, <1>1 DEF vars, Signal
<1>2. CASE User
  <2>1. replies' = replies /\ tasks' = tasks
    BY <1>2 DEF User, Enqueue, Retry, Cancel
  <2>2. job[j].status = "SUCCEEDED" => job'[j] = job[j]
    BY <1>0, <1>2 DEF User, Enqueue, Retry, Cancel
  <2> QED
    BY <1>0, <2>1, <2>2
<1>3. CASE \E i \in Jobs : QueueLockExpires(i)
  BY <1>0, <1>3 DEF QueueLockExpires
<1>4. CASE Recover
  <2>1. job[j].status = "SUCCEEDED" => job'[j] = job[j]
    BY <1>4 DEF Recover, Exhausted
  <2> QED
    BY <1>0, <1>4, <2>1 DEF Recover
<1>5. ASSUME NEW w \in Workers, Polling(w) PROVE Answered' \/ replies'[j] = 0
  <2>1. replies' = replies /\ job' = job
    BY <1>5 DEF Polling, Claim, ClaimThrows
  <2>2. \A t \in tasks' : t \in tasks \/ job[t.job].status = "QUEUED"
    <3>1. CASE ClaimThrows(w)
      BY <3>1 DEF ClaimThrows
    <3>2. ASSUME NEW i \in Jobs, Claim(w, i)
          PROVE  \A t \in tasks' : t \in tasks \/ job[t.job].status = "QUEUED"
      BY <3>2 DEF Claim, Claimable
    <3> QED
      BY <1>5, <3>1, <3>2 DEF Polling
  <2> QED
    BY <1>0, <2>1, <2>2
<1>6. ASSUME NEW w \in Workers, Lifetime(w) PROVE Answered' \/ replies'[j] = 0
  <2>1. replies' = replies /\ tasks' \subseteq tasks
    BY <1>6 DEF Lifetime, StartProcess, Shutdown, Vanish
  <2>2. job[j].status = "SUCCEEDED" => job'[j] = job[j]
    BY <1>6 DEF Lifetime, StartProcess, Shutdown, Vanish, Interrupted
  <2> QED
    BY <1>0, <2>1, <2>2
<1>7. ASSUME NEW t \in tasks, Executing(t) PROVE Answered' \/ replies'[j] = 0
  <2>1. CASE t.job # j
    <3>1. replies'[j] = replies[j] /\ job'[j] = job[j]
      BY <1>0, <1>7, <2>1 DEF Executing, Ends, Submit, LoadRequest, Complete, RetryLater, Fail,
                              Discard, TypeOK
    <3>2. \A u \in tasks' : u \in tasks \/ u.job = t.job
      BY <1>0, <1>7 DEF Executing, Ends, Submit, LoadRequest, Complete, RetryLater, Fail, Discard,
                        End, Tasks
    <3> QED
      BY <1>0, <2>1, <3>1, <3>2
  <2>2. CASE t.job = j
    <3>1. replies[j] = 0
      BY <1>0, <2>2
    <3>2. CASE Complete(t)
      <4>1. replies'[j] = 1 /\ job'[j].status = "SUCCEEDED"
        BY <1>0, <2>2, <3>1, <3>2 DEF Complete, TypeOK, JobRows
      <4>2. tasks' = {}
        BY <3>2 DEF Complete, End
      <4> QED
        BY <4>1, <4>2
    <3>3. CASE ~Complete(t)
      BY <1>7, <3>1, <3>3 DEF Executing, Ends, Submit, LoadRequest, RetryLater, Fail, Discard
    <3> QED
      BY <3>2, <3>3
  <2> QED
    BY <2>1, <2>2
<1> QED
  BY <1>1, <1>2, <1>3, <1>4, <1>5, <1>6, <1>7 DEF Next

\* A row that runs is that of the only task, if there is one.
LEMMA OwnersStay ==
    ASSUME TypeOK, \A t, u \in tasks : t = u, OwnerInv, [Next]_vars
    PROVE  OwnerInv'
<1> USE DEF OwnerInv
<1>0. /\ \A t \in tasks : t \in Tasks /\ t.job \in Jobs
      /\ job \in [Jobs -> JobRows] /\ \A j \in Jobs : job[j] \in JobRows
  BY DEF TypeOK, Tasks
<1>1. ASSUME tasks' \subseteq tasks,
             \A j \in Jobs : job'[j] = job[j] \/ job'[j].status # "RUNNING"
      PROVE  OwnerInv'
  BY <1>0, <1>1
<1>2. \A s \in {"QUEUED", "FAILED", "CANCELLED"}, j \in Jobs :
        Released(job[j], s).status # "RUNNING"
  BY <1>0 DEF Released, JobRows
<1>3. CASE UNCHANGED vars \/ \E s \in signals : Signal(s)
  BY <1>1, <1>3 DEF vars, Signal
<1>4. CASE User
  <2>1. tasks' = tasks
    BY <1>4 DEF User, Enqueue, Retry, Cancel
  <2>2. \A j \in Jobs : job'[j] = job[j] \/ job'[j].status # "RUNNING"
    BY <1>0, <1>2, <1>4 DEF User, Enqueue, Retry, Cancel, JobRows
  <2> QED
    BY <1>1, <2>1, <2>2
<1>5. CASE \E i \in Jobs : QueueLockExpires(i)
  BY <1>1, <1>5 DEF QueueLockExpires
<1>6. CASE Recover
  BY <1>1, <1>2, <1>6 DEF Recover
<1>7. ASSUME NEW w \in Workers, Polling(w) PROVE OwnerInv'
  <2>1. job' = job
    BY <1>7 DEF Polling, Claim, ClaimThrows
  <2>2. \A t \in tasks' : t \in tasks \/ t.pc = "claimed"
    <3>1. CASE ClaimThrows(w)
      BY <3>1 DEF ClaimThrows
    <3>2. ASSUME NEW i \in Jobs, Claim(w, i)
          PROVE  \A t \in tasks' : t \in tasks \/ t.pc = "claimed"
      BY <3>2 DEF Claim
    <3> QED
      BY <1>7, <3>1, <3>2 DEF Polling
  <2> QED
    BY <2>1, <2>2
<1>8. ASSUME NEW w \in Workers, Lifetime(w) PROVE OwnerInv'
  <2>1. tasks' \subseteq tasks
    BY <1>8 DEF Lifetime, StartProcess, Shutdown, Vanish
  <2>2. \A j \in Jobs : job'[j] = job[j] \/ job'[j].status # "RUNNING"
    BY <1>2, <1>8 DEF Lifetime, StartProcess, Shutdown, Vanish, Interrupted
  <2> QED
    BY <1>1, <2>1, <2>2
<1>9. ASSUME NEW t \in tasks, Executing(t) PROVE OwnerInv'
  <2>1. tasks \ {t} = {}
    OBVIOUS
  <2>2. CASE Submit(t)
    BY <1>0, <2>1, <2>2 DEF Submit, Tasks
  <2>3. CASE LoadRequest(t)
    BY <1>0, <2>1, <2>3 DEF LoadRequest, Tasks
  <2>4. CASE Ends(t)
    BY <2>1, <2>4 DEF Ends, Complete, RetryLater, Fail, Discard, End
  <2> QED
    BY <1>9, <2>2, <2>3, <2>4 DEF Executing
<1> QED
  BY <1>3, <1>4, <1>5, <1>6, <1>7, <1>8, <1>9 DEF Next

\* Where recovery sees the rows, whatever takes a queue row from its worker takes
\* the job row back with it, or the job was never the worker's.
LEMMA RecoverableStays ==
    ASSUME TypeOK, Bypass, OwnerInv, RecoverableInv, [Next]_vars
    PROVE  RecoverableInv'
<1> SUFFICES ASSUME NEW j \in Jobs, job'[j].status = "RUNNING"
             PROVE  j \in strayed' \/ (queue'[j].worker = job'[j].worker /\ job'[j].worker # NoWorker)
  BY DEF RecoverableInv
<1> DEFINE Kept == /\ job'[j].worker = job[j].worker /\ job[j].status = "RUNNING"
                   /\ queue'[j].worker = queue[j].worker
<1>0. /\ \A t \in tasks : t \in Tasks /\ t.job \in Jobs /\ t.worker \in Workers
      /\ job \in [Jobs -> JobRows] /\ job[j] \in JobRows
      /\ queue \in [Jobs -> QueueRows] /\ queue[j] \in QueueRows
      /\ strayed \subseteq strayed' /\ NoWorker \notin Workers
  BY ExcusesStay, ChatAssumption DEF TypeOK, Tasks
<1>1. ASSUME Kept
      PROVE  j \in strayed' \/ (queue'[j].worker = job'[j].worker /\ job'[j].worker # NoWorker)
  BY <1>0, <1>1 DEF RecoverableInv
<1> HIDE DEF Kept
<1>2. \A s \in {"QUEUED", "FAILED", "CANCELLED"} : Released(job[j], s).status # "RUNNING"
  BY <1>0 DEF Released, JobRows
<1>3. UNCHANGED vars \/ (\E s \in signals : Signal(s)) => Kept
  BY DEF vars, Signal, Kept
<1>4. User => Kept
  BY <1>0, <1>2 DEF User, Enqueue, Retry, Cancel, Finish, JobRows, Kept
<1>5. (\E i \in Jobs : QueueLockExpires(i)) => Kept
  BY <1>0 DEF QueueLockExpires, QueueRows, Kept
<1>6. ASSUME Recover PROVE Kept
  <2>1. job'[j] = job[j] /\ j \notin Exhausted /\ ~(j \in Abandoned /\ job[j].status = "RUNNING")
    BY <1>2, <1>6 DEF Recover
  <2> QED
    BY <1>6, <2>1 DEF Recover, Kept
<1>7. ASSUME NEW w \in Workers, Polling(w) PROVE Kept
  <2>1. job' = job
    BY <1>7 DEF Polling, Claim, ClaimThrows
  <2>2. queue'[j] = queue[j]
    BY <1>0, <1>7, <2>1 DEF Polling, Claim, ClaimThrows, Claimable
  <2> QED
    BY <2>1, <2>2 DEF Kept
<1>8. ASSUME NEW w \in Workers, Lifetime(w)
      PROVE  j \in strayed' \/ (queue'[j].worker = job'[j].worker /\ job'[j].worker # NoWorker)
  <2>1. StartProcess(w) \/ Vanish(w) => Kept
    BY DEF StartProcess, Vanish, Kept
  <2>2. ASSUME Shutdown(w), Interrupted(w) PROVE j \in strayed \/ Kept
    <3>1. job'[j] = job[j] /\ job[j].worker # w
      BY <1>2, <2>2 DEF Interrupted
    <3>2. j \notin strayed => queue[j].worker = job[j].worker
      BY <3>1 DEF RecoverableInv
    <3> QED
      BY <2>2, <3>1, <3>2 DEF Interrupted, Kept
  <2>3. Shutdown(w) /\ UNCHANGED <<job, queue>> => Kept
    BY DEF Kept
  <2> QED
    BY <1>0, <1>1, <1>8, <2>1, <2>2, <2>3 DEF Lifetime, Shutdown
<1>9. ASSUME NEW t \in tasks, Executing(t)
      PROVE  j \in strayed' \/ (queue'[j].worker = job'[j].worker /\ job'[j].worker # NoWorker)
  <2>1. CASE t.job # j
    BY <1>0, <1>1, <1>9, <2>1 DEF Executing, Ends, Submit, LoadRequest, Complete, RetryLater, Fail,
                                  Discard, Finish, Kept
  <2>2. CASE t.job = j
    <3>1. Submit(t) \/ Discard(t) => Kept
      BY DEF Submit, Discard, Kept
    <3>2. LoadRequest(t) => j \in strayed' \/ (/\ queue'[j].worker = job'[j].worker
                                               /\ job'[j].worker # NoWorker)
      BY <1>0, <2>2 DEF LoadRequest
    <3>3. Complete(t) \/ Fail(t) => FALSE
      BY <1>0, <2>2 DEF Complete, Fail, JobRows
    <3>4. RetryLater(t) => FALSE
      BY <1>0, <1>2, <2>2 DEF RetryLater, Holds, OwnerInv
    <3> QED
      BY <1>1, <1>9, <3>1, <3>2, <3>3, <3>4 DEF Executing, Ends
  <2> QED
    BY <2>1, <2>2
<1> QED
  BY <1>1, <1>3, <1>4, <1>5, <1>6, <1>7, <1>8, <1>9 DEF Next

\* The inductive invariant of one process after another.
THEOREM AloneHolds == Spec => []AloneInv
<1>1. Init => AloneInv
  BY DEF Init, AloneInv, TaskAlone, LockInv, NoQueueRow, ProcessAlone, Alive, AnsweredInv, OwnerInv,
         RecoverableInv
<1>2. TypeOK /\ AloneInv /\ [Next]_vars => AloneInv'
  <2> SUFFICES ASSUME TypeOK, AloneInv, [Next]_vars PROVE AloneInv'
    OBVIOUS
  <2>1. TaskAlone' /\ LockInv'
    BY TasksStayAlone, LocksStay DEF AloneInv
  <2>2. ASSUME ~overlapped'
        PROVE  ProcessAlone' /\ AnsweredInv' /\ OwnerInv' /\ (Bypass => RecoverableInv')
    <3>1. ~overlapped /\ ProcessAlone'
      BY <2>2, ProcessesStayAlone DEF AloneInv
    <3>2. \A t, u \in tasks : t = u
      BY <3>1 DEF AloneInv, TaskAlone, ProcessAlone
    <3> QED
      BY <3>1, <3>2, AnsweredStays, OwnersStay, RecoverableStays DEF AloneInv
  <2> QED
    BY <2>1, <2>2 DEF AloneInv
<1> QED
  BY <1>1, <1>2, TypeCorrect, PTL DEF Spec

\* While one process replaces another, no crash, cancellation, retry or revived
\* job makes the assistant answer a message twice.
THEOREM AnsweredAtMostOnce == Spec => []AnsweredOnce
<1>1. AloneInv => AnsweredOnce
  BY DEF AloneInv, AnsweredInv, AnsweredOnce
<1> QED
  BY AloneHolds, <1>1, PTL

\* Where the functions' owner bypasses row security, a RUNNING job of a lone
\* process never loses the queue row recovery finds it by, unless the job was
\* started by a task a cancellation had already taken off the queue.
THEOREM RecoveryFindsRunning == Bypass => (Spec => []RunningCanBeRecovered)
<1> SUFFICES ASSUME Bypass PROVE Spec => []RunningCanBeRecovered
  OBVIOUS
<1>1. AloneInv => RunningCanBeRecovered
  BY DEF AloneInv, LockInv, RecoverableInv, RunningCanBeRecovered
<1> QED
  BY AloneHolds, <1>1, PTL
=============================================================================
