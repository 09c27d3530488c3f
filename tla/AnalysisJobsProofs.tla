------------------------- MODULE AnalysisJobsProofs -------------------------
(***************************************************************************)
(* Proofs about AnalysisJobs, for every number of jobs, users and workers  *)
(* and every limit: its types, the inductive invariant of the queue and    *)
(* what follows from it, the slots of a user, and the fences of workers.   *)
(***************************************************************************)
EXTENDS AnalysisJobs, FiniteSetTheorems, TLAPS

USE DEF Statuses, Locks

\* The rows that the operations write are rows of the tables.
LEMMA RowTypes ==
    /\ NoQueueRow \in QueueRows /\ NewQueueRow \in QueueRows
    /\ Idle \in Claims
    /\ \A row \in JobRows, s \in Statuses : Released(row, s) \in JobRows
BY DEF NoQueueRow, NewQueueRow, QueueRows, Idle, Claims, Released, JobRows

\* Init builds a state of the right type.
LEMMA TypeInit == Init => TypeOK
<1> SUFFICES ASSUME Init PROVE TypeOK
  OBVIOUS
<1>1. [status |-> "NONE", worker |-> NoWorker, lock |-> "none",
       attempt |-> 0, questions |-> 0] \in JobRows
  BY DEF JobRows
<1>2. [revision |-> 0, state |-> "NONE"] \in Runs
  BY DEF Runs
<1> QED
  BY <1>1, <1>2, RowTypes DEF Init, TypeOK

\* A transaction of a user leaves rows of the right type.
LEMMA TypeUser ==
    ASSUME TypeOK, NEW j \in Jobs,
           Submit(j) \/ Retry(j) \/ Cancel(j) \/ Answer(j) \/ CancelReview(j)
    PROVE  TypeOK'
<1> USE ConstantsAssumption, RowTypes
<1>1. CASE Submit(j)
  <2>1. job[j] \in JobRows
    BY DEF TypeOK
  <2>2. [job[j] EXCEPT !.status = "QUEUED"] \in JobRows
    BY <2>1 DEF JobRows
  <2>3. job' \in [Jobs -> JobRows] /\ queue' \in [Jobs -> QueueRows]
    BY <1>1, <2>2 DEF Submit, TypeOK
  <2> QED
    BY <1>1, <2>3 DEF Submit, TypeOK
<1>2. Requeue(j) => queue' \in [Jobs -> QueueRows]
  <2>1. [queue[j] EXCEPT !.worker = NoWorker, !.lock = "none"] \in QueueRows
    BY DEF TypeOK, QueueRows
  <2> DEFINE row == IF queue[j].listed
                    THEN [queue[j] EXCEPT !.worker = NoWorker, !.lock = "none"]
                    ELSE NewQueueRow
  <2>2. row \in QueueRows
    BY <2>1
  <2>3. Requeue(j) => queue' = [queue EXCEPT ![j] = row]
    BY DEF Requeue
  <2> HIDE DEF row
  <2> QED
    BY <2>2, <2>3 DEF TypeOK
<1>3. Finish(j) => queue' \in [Jobs -> QueueRows]
  BY DEF TypeOK, Finish
<1>4. CASE Retry(j)
  BY <1>2, <1>4 DEF Retry, TypeOK
<1>5. CASE Cancel(j)
  BY <1>3, <1>5 DEF Cancel, TypeOK
<1>6. CASE Answer(j)
  BY <1>2, <1>6 DEF Answer, TypeOK
<1>7. CASE CancelReview(j)
  BY <1>3, <1>7 DEF CancelReview, TypeOK
<1> QED
  BY <1>1, <1>4, <1>5, <1>6, <1>7

\* So does a poll of a worker.
LEMMA TypePolling ==
    ASSUME TypeOK, NEW w \in Workers, Polling(w)
    PROVE  TypeOK'
<1> USE ConstantsAssumption, RowTypes
<1>1. CASE Snapshot(w)
  BY <1>1 DEF Snapshot, TypeOK, Claims
<1>2. CASE LockUsers(w)
  BY <1>2 DEF LockUsers, TypeOK, Claims
<1>3. CASE Claim(w)
  <2>1. PICK j \in claiming[w].jobs : ClaimRow(w, j)
    BY <1>3 DEF Claim
  <2>2. j \in Jobs /\ claiming' \in [Workers -> Claims]
    BY <1>3, <2>1 DEF Claim, TypeOK, Claims
  <2>3. queue' \in [Jobs -> QueueRows] /\ job' \in [Jobs -> JobRows]
    <3>1. queue[j] \in QueueRows /\ job[j] \in JobRows
      BY <2>2 DEF TypeOK
    <3> DEFINE n == queue[j].attempt + 1
    <3>2. n \in Nat
      BY <3>1 DEF QueueRows
    <3>3. queue' = [queue EXCEPT ![j] = [@ EXCEPT !.worker = w, !.lock = "live",
                                                  !.attempt = n]]
      BY <2>1 DEF ClaimRow
    <3>4. job' = [job EXCEPT ![j] = [@ EXCEPT !.status = "RUNNING", !.worker = w,
                                              !.lock = "live", !.attempt = n]]
      BY <2>1 DEF ClaimRow
    <3> HIDE DEF n
    <3>5. [queue[j] EXCEPT !.worker = w, !.lock = "live", !.attempt = n] \in QueueRows
      BY <3>1, <3>2 DEF QueueRows
    <3>6. [job[j] EXCEPT !.status = "RUNNING", !.worker = w,
                         !.lock = "live", !.attempt = n] \in JobRows
      BY <3>1, <3>2 DEF JobRows
    <3> QED
      BY <2>2, <3>3, <3>4, <3>5, <3>6 DEF TypeOK
  <2>4. claims' \in [Jobs -> Nat] /\ threads' \subseteq Executions
    <3>1. job[j].questions \in Nat
      BY <2>2 DEF TypeOK, JobRows
    <3> QED
      BY <2>1, <2>2, <3>1 DEF ClaimRow, TypeOK, Executions
  <2> QED
    BY <1>3, <2>2, <2>3, <2>4 DEF Claim, TypeOK
<1>4. CASE ClaimNothing(w)
  BY <1>4 DEF ClaimNothing, TypeOK
<1> QED
  BY <1>1, <1>2, <1>3, <1>4 DEF Polling

\* So does a transaction of an execution.
LEMMA TypeExecuting ==
    ASSUME TypeOK, NEW t \in threads, Executing(t)
    PROVE  TypeOK'
<1> USE ConstantsAssumption, RowTypes
<1>0. t \in Executions /\ t.job \in Jobs /\ job[t.job] \in JobRows /\ run[t.job] \in Runs
  BY DEF TypeOK, Executions
<1>1. CASE LoadRequest(t)
  BY <1>0, <1>1 DEF LoadRequest, TypeOK, Executions
<1>2. CASE BeginRun(t)
  <2>1. [revision |-> run[t.job].revision + 1, state |-> "RUNNING"] \in Runs
    BY <1>0 DEF Runs
  <2>2. run' \in [Jobs -> Runs]
    BY <1>0, <1>2, <2>1 DEF BeginRun, TypeOK, Runs
  <2>3. [t EXCEPT !.pc = "running", !.revision = run[t.job].revision + 1] \in Executions
    <3>1. run[t.job].revision + 1 \in Nat
      BY <1>0 DEF Runs
    <3> QED
      BY <1>0, <3>1 DEF Executions
  <2> QED
    BY <1>2, <2>2, <2>3 DEF BeginRun, TypeOK
<1>3. CASE RecordProgress(t)
  BY <1>0, <1>3 DEF RecordProgress, TypeOK, JobRows
<1>4. Finish(t.job) => queue' \in [Jobs -> QueueRows]
  BY <1>0 DEF TypeOK, Finish
<1>5. CASE PauseForQuestion(t)
  <2>1. Asking(job[t.job]) \in JobRows
    <3>1. Released(job[t.job], "WAITING_FOR_INPUT") \in JobRows
      BY <1>0
    <3>2. job[t.job].questions + 1 \in Nat
      BY <1>0 DEF JobRows
    <3> QED
      BY <3>1, <3>2 DEF Asking, JobRows
  <2> QED
    BY <1>0, <1>4, <1>5, <2>1 DEF PauseForQuestion, TypeOK, Runs
<1>6. CASE Complete(t)
  <2>1. LegacySucceeded(job[t.job]) \in JobRows
    BY <1>0 DEF LegacySucceeded, JobRows
  <2> QED
    BY <1>0, <1>4, <1>6, <2>1 DEF Complete, TypeOK, Runs
<1>7. CASE Fail(t)
  <2>1. [job[t.job] EXCEPT !.status = "FAILED", !.lock = "none"] \in JobRows
    BY <1>0 DEF JobRows
  <2> QED
    BY <1>0, <1>4, <1>7, <2>1 DEF Fail, TypeOK
<1>8. CASE Discard(t)
  BY <1>8 DEF Discard, TypeOK
<1>9. CASE CancelUnstarted(t)
  BY <1>0, <1>9 DEF CancelUnstarted, TypeOK, Executions
<1> QED
  BY <1>1, <1>2, <1>3, <1>5, <1>6, <1>7, <1>8, <1>9 DEF Executing, Ends

\* So do the clock, the recovery of stale jobs and the life of a worker.
LEMMA TypeEnvironment ==
    ASSUME TypeOK, Clock \/ Recovery \/ \E w \in Workers : Lifetime(w)
    PROVE  TypeOK'
<1> USE ConstantsAssumption, RowTypes
<1>1. CASE Clock
  <2>1. ASSUME NEW j \in Jobs, QueueLockExpires(j) PROVE TypeOK'
    <3>1. queue[j] \in QueueRows
      BY DEF TypeOK
    <3>2. [queue[j] EXCEPT !.lock = "expired"] \in QueueRows
      BY <3>1 DEF QueueRows
    <3> QED
      BY <2>1, <3>2 DEF QueueLockExpires, TypeOK
  <2>2. ASSUME NEW j \in Jobs, JobLockExpires(j) PROVE TypeOK'
    <3>1. job[j] \in JobRows
      BY DEF TypeOK
    <3>2. [job[j] EXCEPT !.lock = "expired"] \in JobRows
      BY <3>1 DEF JobRows
    <3> QED
      BY <2>2, <3>2 DEF JobLockExpires, TypeOK
  <2> QED
    BY <1>1, <2>1, <2>2 DEF Clock
<1>2. ASSUME NEW S \in SUBSET {j \in Jobs : Stale(j)}, Recover(S) PROVE TypeOK'
  <2>1. \A j \in Jobs : RecoveredRow(j) \in QueueRows
    BY DEF TypeOK, RecoveredRow, NewQueueRow, NoQueueRow, JobRows, QueueRows
  <2>2. \A j \in Jobs : [queue[j] EXCEPT !.worker = NoWorker, !.lock = "none"] \in QueueRows
    BY DEF TypeOK, QueueRows
  <2>3. queue' \in [Jobs -> QueueRows]
    BY <1>2, <2>1, <2>2 DEF Recover, TypeOK
  <2>4. job' \in [Jobs -> JobRows]
    BY <1>2 DEF Recover, TypeOK
  <2> QED
    BY <1>2, <2>3, <2>4 DEF Recover, TypeOK
<1>3. ASSUME NEW w \in Workers, StartWorker(w) \/ Stop(w) PROVE TypeOK'
  <2>1. CASE StartWorker(w)
    BY <2>1 DEF StartWorker, TypeOK
  <2>2. CASE Stop(w)
    BY <2>2 DEF Stop, TypeOK
  <2> QED
    BY <1>3, <2>1, <2>2
<1>4. ASSUME NEW w \in Workers, NEW S \in SUBSET HeldBy(w), Interrupt(w, S) PROVE TypeOK'
  BY <1>4 DEF Interrupt, TypeOK
<1> QED
  BY <1>1, <1>2, <1>3, <1>4 DEF Recovery, Lifetime

\* Every reachable state is a state of the tables and the processes.
THEOREM TypeCorrect == Spec => []TypeOK
<1>1. TypeOK /\ [Next]_vars => TypeOK'
  <2> SUFFICES ASSUME TypeOK, [Next]_vars PROVE TypeOK'
    OBVIOUS
  <2>1. CASE UNCHANGED vars
    BY <2>1 DEF vars, TypeOK
  <2> QED
    BY <2>1, TypeUser, TypePolling, TypeExecuting, TypeEnvironment DEF Next, User
<1> QED
  BY TypeInit, <1>1, PTL DEF Spec

-----------------------------------------------------------------------------
(***************************************************************************)
(* The inductive invariant of the analysis queue and what follows from it: *)
(* the two tables agree, no job is executed more often than its user asked *)
(* for, only its user revives a cancelled job, and every job goes through  *)
(* the life cycle of JobLifecycle.                                         *)
(*                                                                         *)
(* The proofs share one lemma: whatever transaction is made, each job is   *)
(* moved by it in one of seven ways (Shapes).                              *)
(***************************************************************************)

\* The attempts that are used up of those its user's last request granted.
Spent(j) ==
    IF queue[j].listed THEN queue[j].attempt
    ELSE IF job[j].status = "NONE" THEN 0 ELSE MaxAttempts

Granted(j) == MaxAttempts * resumes[j]

JobInv(j) ==
    /\ job[j].status = "QUEUED" =>
         /\ queue[j].listed /\ queue[j].worker = NoWorker
         /\ queue[j].lock = "none" /\ queue[j].attempt < MaxAttempts
    /\ job[j].status = "RUNNING" =>
         /\ queue[j].listed /\ queue[j].worker = job[j].worker
         /\ queue[j].attempt = job[j].attempt
         /\ job[j].attempt <= MaxAttempts
    /\ queue[j].listed => job[j].status \in {"QUEUED", "RUNNING"}
    /\ ~queue[j].listed => queue[j] = NoQueueRow
    /\ claims[j] <= Granted(j) + Spent(j)

Inv == TypeOK /\ \A j \in Jobs : JobInv(j)

Counts(j, c, r) == claims'[j] = claims[j] + c /\ resumes'[j] = resumes[j] + r

\* The seven ways a job moves.
Same(j) ==
    /\ job'[j].status = job[j].status
    /\ job'[j].worker = job[j].worker
    /\ job'[j].attempt = job[j].attempt
    /\ \/ queue'[j] = queue[j]
       \/ job[j].status = "RUNNING" /\ queue'[j] = [queue[j] EXCEPT !.lock = "expired"]
    /\ Counts(j, 0, 0)

Submitted(j) ==
    /\ job[j].status = "NONE" /\ job'[j].status = "QUEUED"
    /\ queue'[j] = NewQueueRow
    /\ Counts(j, 0, 0)

Resumed(j) ==
    /\ job[j].status \in {"WAITING_FOR_INPUT", "FAILED", "CANCELLED"}
    /\ job'[j].status = "QUEUED"
    /\ queue'[j] = NewQueueRow
    /\ Counts(j, 0, 1)

Claimed(j) ==
    /\ job[j].status = "QUEUED" /\ job'[j].status = "RUNNING"
    /\ queue[j].attempt < MaxAttempts
    /\ queue'[j].listed
    /\ queue'[j].worker = job'[j].worker
    /\ queue'[j].attempt = queue[j].attempt + 1
    /\ job'[j].attempt = queue[j].attempt + 1
    /\ Counts(j, 1, 0)

Recovered(j) ==
    /\ job[j].status = "RUNNING" /\ job'[j].status = "QUEUED"
    /\ queue[j].attempt < MaxAttempts
    /\ queue'[j] = [NewQueueRow EXCEPT !.attempt = queue[j].attempt]
    /\ Counts(j, 0, 0)

Ended(j) ==
    /\ job[j].status = "RUNNING"
    /\ job'[j].status \in {"WAITING_FOR_INPUT", "SUCCEEDED", "FAILED"}
    /\ queue'[j] = NoQueueRow
    /\ Counts(j, 0, 0)

Cancelled(j) ==
    /\ job[j].status \in {"QUEUED", "RUNNING", "WAITING_FOR_INPUT"}
    /\ job'[j].status = "CANCELLED"
    /\ queue'[j] = NoQueueRow
    /\ Counts(j, 0, 0)

Shape(j) == \/ Same(j) \/ Submitted(j) \/ Resumed(j) \/ Claimed(j)
            \/ Recovered(j) \/ Ended(j) \/ Cancelled(j)

\* The types of one job's rows, in the form the steps below cite.
LEMMA JobTypes ==
    ASSUME TypeOK, NEW j \in Jobs
    PROVE  /\ job[j] \in JobRows /\ queue[j] \in QueueRows
           /\ queue[j].attempt \in Nat /\ job[j].attempt \in Nat
           /\ queue[j].listed \in BOOLEAN
           /\ claims[j] \in Nat /\ resumes[j] \in Nat
           /\ MaxAttempts \in Nat /\ Granted(j) \in Nat
BY ConstantsAssumption DEF TypeOK, JobRows, QueueRows, Granted

-----------------------------------------------------------------------------
\* A step that leaves a job's rows and counts alone leaves the job as it is.
LEMMA Untouched ==
    ASSUME TypeOK, NEW j \in Jobs, job'[j] = job[j], queue'[j] = queue[j],
           claims'[j] = claims[j], resumes'[j] = resumes[j]
    PROVE  Same(j)
BY JobTypes DEF Same, Counts

\* The transactions of a user move a job in one of the seven ways.
LEMMA ShapeUser ==
    ASSUME Inv, User, NEW j \in Jobs
    PROVE  Shape(j)
<1> USE DEF Shape
<1>0. TypeOK /\ JobInv(j)
  BY DEF Inv
<1>1. PICK i \in Jobs : \/ Submit(i) \/ Retry(i) \/ Cancel(i)
                        \/ Answer(i) \/ CancelReview(i)
  BY DEF User
<1>2. CASE i # j
  <2>1. job'[j] = job[j] /\ queue'[j] = queue[j]
    BY <1>0, <1>1, <1>2 DEF TypeOK, Submit, Retry, Cancel, Answer, CancelReview,
                            Requeue, Finish
  <2>2. claims'[j] = claims[j] /\ resumes'[j] = resumes[j]
    BY <1>0, <1>1, <1>2 DEF TypeOK, Submit, Retry, Cancel, Answer, CancelReview
  <2> QED
    BY <1>0, <2>1, <2>2, Untouched
<1>3. CASE i = j
  <2> USE <1>0, <1>3, JobTypes
  <2>1. CASE Submit(j)
    BY <2>1 DEF Submit, Submitted, Counts, TypeOK
  <2>2. Finish(j) => queue'[j] = NoQueueRow
    BY DEF Finish, TypeOK
  <2>3. Requeue(j) /\ ~queue[j].listed => queue'[j] = NewQueueRow
    BY DEF Requeue, TypeOK
  <2>4. CASE Retry(j)
    BY <2>3, <2>4 DEF Retry, Resumed, Counts, TypeOK, JobInv, Released
  <2>5. CASE Answer(j)
    BY <2>3, <2>5 DEF Answer, Resumed, Counts, TypeOK, JobInv, Released, JobRows
  <2>6. CASE Cancel(j)
    BY <2>2, <2>6 DEF Cancel, Cancelled, Counts, TypeOK, Released, JobRows
  <2>7. CASE CancelReview(j)
    BY <2>2, <2>7 DEF CancelReview, Cancelled, Counts, TypeOK, Released, JobRows
  <2> QED
    BY <1>1, <2>1, <2>4, <2>5, <2>6, <2>7
<1> QED
  BY <1>2, <1>3

\* So do the polls of a worker: a claim moves the one job it takes.
LEMMA ShapePolling ==
    ASSUME Inv, NEW w \in Workers, Polling(w), NEW j \in Jobs
    PROVE  Shape(j)
<1> USE DEF Shape
<1>0. TypeOK /\ JobInv(j)
  BY DEF Inv
<1>1. CASE Snapshot(w) \/ LockUsers(w) \/ ClaimNothing(w)
  BY <1>0, <1>1, Untouched DEF Snapshot, LockUsers, ClaimNothing
<1>2. CASE Claim(w)
  <2>0. claiming[w].jobs \subseteq Jobs
    BY <1>0 DEF TypeOK, Claims
  <2>1. CASE UNCHANGED <<job, queue, claims>>
    BY <1>0, <1>2, <2>1, Untouched DEF Claim
  <2>2. PICK i \in claiming[w].jobs : Claimable(i) /\ ClaimRow(w, i)
    BY <1>2 DEF Claim
  <2>3. i \in Jobs /\ resumes' = resumes
    BY <1>2, <2>0, <2>2 DEF Claim
  <2>4. CASE i # j
    BY <1>0, <2>2, <2>3, <2>4, Untouched DEF ClaimRow, TypeOK
  <2>5. CASE i = j
    BY <1>0, <2>2, <2>3, <2>5, JobTypes
       DEF ClaimRow, Claimable, Claimed, Counts, TypeOK, JobRows, QueueRows
  <2> QED
    BY <2>4, <2>5
<1> QED
  BY <1>1, <1>2 DEF Polling

\* So do the transactions of an execution, each fenced by the RUNNING row.
LEMMA ShapeExecuting ==
    ASSUME Inv, NEW t \in threads, Executing(t), NEW j \in Jobs
    PROVE  Shape(j)
<1> USE DEF Shape
<1>0. TypeOK /\ JobInv(j) /\ t.job \in Jobs
  BY DEF Inv, TypeOK, Executions
<1>1. CASE LoadRequest(t) \/ BeginRun(t) \/ Discard(t) \/ CancelUnstarted(t)
  BY <1>0, <1>1, Untouched DEF LoadRequest, BeginRun, Discard, CancelUnstarted
<1>2. CASE RecordProgress(t)
  BY <1>0, <1>2, JobTypes DEF RecordProgress, Same, Counts, TypeOK, JobRows
<1>3. CASE PauseForQuestion(t) \/ Complete(t) \/ Fail(t)
  <2>1. job[t.job].status = "RUNNING" /\ UNCHANGED <<claims, resumes>>
    BY <1>3 DEF PauseForQuestion, Complete, Fail, CurrentRun, CurrentWorker
  <2>2. queue' = [queue EXCEPT ![t.job] = NoQueueRow]
    BY <1>3 DEF PauseForQuestion, Complete, Fail, Finish
  <2>3. CASE t.job # j
    <3>1. job'[j] = job[j]
      BY <1>0, <1>3, <2>3 DEF PauseForQuestion, Complete, Fail, TypeOK
    <3> QED
      BY <1>0, <2>1, <2>2, <2>3, <3>1, Untouched DEF TypeOK
  <2>4. CASE t.job = j
    <3>1. job'[j].status \in {"WAITING_FOR_INPUT", "SUCCEEDED", "FAILED"}
      <4> USE <1>0, <2>4, JobTypes DEF Released, TypeOK, JobRows
      <4>1. CASE PauseForQuestion(t)
        BY <4>1 DEF PauseForQuestion, Asking
      <4>2. CASE Complete(t)
        BY <4>2 DEF Complete, LegacySucceeded
      <4>3. CASE Fail(t)
        BY <4>3 DEF Fail
      <4> QED
        BY <1>3, <4>1, <4>2, <4>3
    <3> QED
      BY <1>0, <2>1, <2>2, <2>4, <3>1, JobTypes DEF Ended, Counts, TypeOK
  <2> QED
    BY <2>3, <2>4
<1> QED
  BY <1>1, <1>2, <1>3 DEF Executing, Ends

\* So do recovery, the clock, and the processes that come and go.
LEMMA ShapeEnvironment ==
    ASSUME Inv, Clock \/ Recovery \/ (\E w \in Workers : Lifetime(w)), NEW j \in Jobs
    PROVE  Shape(j)
<1> USE DEF Shape
<1>0. TypeOK /\ JobInv(j)
  BY DEF Inv
<1>1. ASSUME NEW i \in Jobs, QueueLockExpires(i) PROVE Shape(j)
  <2>1. CASE i # j
    BY <1>0, <1>1, <2>1, Untouched DEF QueueLockExpires, TypeOK
  <2>2. CASE i = j
    <3>1. job[j].status = "RUNNING"
      BY <1>0, <1>1, <2>2 DEF QueueLockExpires, JobInv, NoQueueRow
    <3> QED
      BY <1>0, <1>1, <2>2, <3>1, JobTypes DEF QueueLockExpires, Same, Counts, TypeOK
  <2> QED
    BY <2>1, <2>2
<1>2. ASSUME NEW i \in Jobs, JobLockExpires(i) PROVE Shape(j)
  BY <1>0, <1>2, JobTypes DEF JobLockExpires, Same, Counts, TypeOK, JobRows
<1>3. ASSUME NEW S \in SUBSET {i \in Jobs : Stale(i)}, Recover(S) PROVE Shape(j)
  <2>0. /\ claims'[j] = claims[j] /\ resumes'[j] = resumes[j]
        /\ ~Exhausted(j)
        /\ j \in S => job[j].status = "RUNNING"
    <3>1. claims' = claims /\ resumes' = resumes
      BY <1>3 DEF Recover
    <3>2. ~Exhausted(j)
      BY <1>0, JobTypes DEF Exhausted, JobInv
    <3> QED
      BY <1>3, <3>1, <3>2 DEF Stale
  <2>1. CASE j \notin S
    <3>1. ~LeftLocked(j)
      BY <1>0 DEF JobInv, LeftLocked
    <3>2. job'[j] = job[j] /\ queue'[j] = queue[j]
      BY <1>3, <2>0, <2>1, <3>1 DEF Recover
    <3> QED
      BY <1>0, <2>0, <3>2, Untouched
  <2>2. CASE j \in S /\ job[j].attempt < MaxAttempts
    <3>1. job'[j] = Released(job[j], "QUEUED") /\ queue'[j] = RecoveredRow(j)
      BY <1>3, <2>2 DEF Recover
    <3>2. RecoveredRow(j) = [NewQueueRow EXCEPT !.attempt = queue[j].attempt]
      BY <1>0, <2>0, <2>2, JobTypes DEF RecoveredRow, JobInv
    <3>3. job'[j].status = "QUEUED"
      BY <1>0, <3>1, JobTypes DEF Released, JobRows
    <3> QED
      BY <1>0, <2>0, <2>2, <3>1, <3>2, <3>3, JobTypes DEF Recovered, Counts, JobInv
  <2>3. CASE j \in S /\ ~(job[j].attempt < MaxAttempts)
    <3>1. job'[j] = Released(job[j], "FAILED") /\ queue'[j] = NoQueueRow
      BY <1>3, <2>3 DEF Recover
    <3>2. job'[j].status = "FAILED"
      BY <1>0, <3>1, JobTypes DEF Released, JobRows
    <3> QED
      BY <1>0, <2>0, <2>3, <3>1, <3>2, JobTypes DEF Ended, Counts
  <2> QED
    BY <2>1, <2>2, <2>3
<1>4. ASSUME NEW w \in Workers, StartWorker(w) \/ Stop(w) PROVE Shape(j)
  BY <1>0, <1>4, Untouched DEF StartWorker, Stop
<1>5. ASSUME NEW w \in Workers, NEW S \in SUBSET HeldBy(w), Interrupt(w, S)
      PROVE  Shape(j)
  <2>1. CASE j \in S
    <3>1. job[j].status = "RUNNING"
      BY <2>1 DEF HeldBy
    <3>2. job'[j].status = "FAILED"
      BY <1>0, <1>5, <2>1, JobTypes DEF Interrupt, Released, JobRows
    <3> QED
      BY <1>0, <1>5, <2>1, <3>1, <3>2, JobTypes DEF Interrupt, Ended, Counts
  <2>2. CASE j \notin S
    BY <1>0, <1>5, <2>2, Untouched DEF Interrupt
  <2> QED
    BY <2>1, <2>2
<1> QED
  BY <1>1, <1>2, <1>3, <1>4, <1>5 DEF Clock, Recovery, Lifetime

\* Whatever the step, every job moves in one of the seven ways.
LEMMA StepShapes ==
    ASSUME Inv, [Next]_vars
    PROVE  \A j \in Jobs : Shape(j)
<1> SUFFICES ASSUME NEW j \in Jobs PROVE Shape(j)
  OBVIOUS
<1>1. CASE UNCHANGED vars
  BY <1>1, Untouched DEF vars, Inv, Shape
<1> QED
  BY <1>1, ShapeUser, ShapePolling, ShapeExecuting, ShapeEnvironment DEF Next

-----------------------------------------------------------------------------
\* The invariant holds of the empty tables.
LEMMA InvInit == Init => Inv
<1> SUFFICES ASSUME Init PROVE Inv
  OBVIOUS
<1>1. TypeOK
  BY TypeInit
<1>2. ASSUME NEW j \in Jobs PROVE JobInv(j)
  <2>1. Granted(j) \in Nat
    BY <1>1, <1>2, JobTypes
  <2> QED
    BY <1>2, <2>1 DEF Init, JobInv, Spent, NoQueueRow
<1> QED
  BY <1>1, <1>2 DEF Inv

\* Each of the seven ways keeps a job's part of the invariant.  A request of
\* the user grants MaxAttempts more; nothing else adds to what may be spent.
LEMMA ShapeKeepsJobInv ==
    ASSUME TypeOK, TypeOK', NEW j \in Jobs, JobInv(j), Shape(j)
    PROVE  JobInv(j)'
<1> DEFINE G == Granted(j)
<1>0. /\ G \in Nat /\ claims[j] \in Nat /\ queue[j].attempt \in Nat
      /\ MaxAttempts \in Nat \ {0} /\ MaxAttempts \in Nat
      /\ queue[j] \in QueueRows /\ job[j].attempt \in Nat
  BY JobTypes, ConstantsAssumption
<1>1. resumes'[j] = resumes[j] => Granted(j)' = G
  BY DEF Granted
<1>2. resumes'[j] = resumes[j] + 1 => Granted(j)' = G + MaxAttempts
  BY JobTypes DEF Granted
<1>3. resumes[j] + 0 = resumes[j] /\ claims[j] + 0 = claims[j]
  BY JobTypes
<1>4. queue[j].listed => queue[j].attempt <= MaxAttempts
  BY <1>0 DEF JobInv
<1> HIDE DEF G
<1>5. claims[j] <= G + Spent(j)
  BY DEF JobInv, G
<1>6. claims[j] <= G + MaxAttempts
  BY <1>0, <1>4, <1>5 DEF Spent
<1> USE <1>0, <1>1, <1>2, <1>3 DEF Counts
<1>7. CASE Same(j)
  <2>1. queue'[j].listed = queue[j].listed /\ queue'[j].attempt = queue[j].attempt
        /\ queue'[j].worker = queue[j].worker
    BY <1>7 DEF Same, QueueRows
  <2>2. Spent(j)' = Spent(j)
    BY <1>7, <2>1 DEF Same, Spent
  <2> QED
    BY <1>5, <1>7, <2>1, <2>2 DEF Same, JobInv
<1>8. CASE Submitted(j)
  <2>1. ~queue[j].listed
    BY <1>8 DEF Submitted, JobInv
  <2>2. claims[j] <= G
    BY <1>5, <1>8, <2>1 DEF Submitted, Spent
  <2> QED
    BY <1>8, <2>2 DEF Submitted, JobInv, Spent, NewQueueRow, NoQueueRow
<1>9. CASE Resumed(j)
  BY <1>6, <1>9 DEF Resumed, JobInv, Spent, NewQueueRow, NoQueueRow
<1>10. CASE Claimed(j)
  <2>1. queue[j].listed
    BY <1>10 DEF Claimed, JobInv
  <2>2. claims[j] <= G + queue[j].attempt
    BY <1>5, <2>1 DEF Spent
  <2>3. claims'[j] <= G + queue'[j].attempt
    BY <1>10, <2>2 DEF Claimed
  <2> QED
    BY <1>10, <2>3 DEF Claimed, JobInv, Spent
<1>11. CASE Recovered(j)
  <2>1. queue[j].listed
    BY <1>11 DEF Recovered, JobInv
  <2>2. claims[j] <= G + queue[j].attempt
    BY <1>5, <2>1 DEF Spent
  <2> QED
    BY <1>11, <2>2 DEF Recovered, JobInv, Spent, NewQueueRow, NoQueueRow
<1>12. CASE Ended(j)
  BY <1>6, <1>12 DEF Ended, JobInv, Spent, NoQueueRow
<1>13. CASE Cancelled(j)
  BY <1>6, <1>13 DEF Cancelled, JobInv, Spent, NoQueueRow
<1> QED
  BY <1>7, <1>8, <1>9, <1>10, <1>11, <1>12, <1>13 DEF Shape

\* The inductive invariant.
THEOREM InvHolds == Spec => []Inv
<1>1. Inv /\ [Next]_vars /\ TypeOK' => Inv'
  <2> SUFFICES ASSUME Inv, [Next]_vars, TypeOK' PROVE Inv'
    OBVIOUS
  <2>1. \A j \in Jobs : Shape(j)
    BY StepShapes
  <2>2. \A j \in Jobs : JobInv(j)'
    BY <2>1, ShapeKeepsJobInv DEF Inv
  <2> QED
    BY <2>2 DEF Inv
<1> QED
  BY InvInit, <1>1, TypeCorrect, PTL DEF Spec

\* No transaction leaves a QUEUED job out of the queue, or locked, or without
\* an attempt, and none leaves a row behind of a job that is not to be run.
THEOREM TablesAgree == Spec => []QueueMatchesStatus
<1>1. Inv => QueueMatchesStatus
  BY DEF Inv, JobInv, QueueMatchesStatus
<1> QED
  BY InvHolds, <1>1, PTL

\* However workers crash, stall and are recovered, a job is executed at most
\* MaxAttempts times for each request of its user.
THEOREM AttemptsBounded == Spec => []AttemptBudget
<1>1. Inv => AttemptBudget
  <2> SUFFICES ASSUME Inv, NEW j \in Jobs
               PROVE  claims[j] <= MaxAttempts * (resumes[j] + 1)
    BY DEF AttemptBudget
  <2>0. /\ TypeOK /\ claims[j] <= Granted(j) + Spent(j)
        /\ queue[j].listed => queue[j].attempt <= MaxAttempts
    BY JobTypes DEF Inv, JobInv
  <2>1. Spent(j) <= MaxAttempts
    BY <2>0, JobTypes DEF Spent
  <2>2. Spent(j) \in Nat
    BY <2>0, JobTypes DEF Spent
  <2>3. MaxAttempts * (resumes[j] + 1) = Granted(j) + MaxAttempts
    BY <2>0, JobTypes DEF Granted
  <2> QED
    BY <2>0, <2>1, <2>2, <2>3, JobTypes
<1> QED
  BY InvHolds, <1>1, PTL

\* D041: only a retry by its user takes a job out of CANCELLED.
THEOREM CancelledStays == Spec => CancelledRevivedOnlyByUser
<1>1. Inv /\ [Next]_vars =>
        [\A j \in Jobs : /\ job[j].status = "CANCELLED"
                         /\ job'[j].status # "CANCELLED"
                         => resumes'[j] > resumes[j]]_vars
  <2> SUFFICES ASSUME Inv, [Next]_vars, NEW j \in Jobs,
                      job[j].status = "CANCELLED", job'[j].status # "CANCELLED"
               PROVE  resumes'[j] > resumes[j]
    OBVIOUS
  <2>1. Shape(j) /\ resumes[j] \in Nat
    BY StepShapes, JobTypes DEF Inv
  <2> QED
    BY <2>1 DEF Shape, Same, Submitted, Resumed, Claimed, Recovered, Ended,
                Cancelled, Counts
<1> QED
  BY InvHolds, <1>1, PTL DEF Spec, CancelledRevivedOnlyByUser

\* Every step of the queue is, for every job, a step of its documented life
\* cycle: the detailed specification implements JobLifecycle.
THEOREM ImplementsLifecycle == Spec => LifecycleSpec
<1>1. Init => Lifecycle!Init
  BY ConstantsAssumption DEF Init, Lifecycle!Init, NoQueueRow
<1>2. Inv /\ Inv' /\ [Next]_vars => [Lifecycle!Next]_Lifecycle!vars
  <2> SUFFICES ASSUME Inv, Inv', [Next]_vars PROVE Lifecycle!Next
    BY DEF Lifecycle!vars
  <2> SUFFICES ASSUME NEW j \in Jobs
               PROVE  \/ Lifecycle!Submit(j) \/ Lifecycle!Start(j)
                      \/ Lifecycle!Interrupted(j) \/ Lifecycle!End(j)
                      \/ Lifecycle!Cancel(j) \/ Lifecycle!Resume(j)
                      \/ Lifecycle!Rests(j)
    BY DEF Lifecycle!Next
  <2>1. Shape(j) /\ TypeOK /\ JobInv(j)
    BY StepShapes DEF Inv
  <2> USE <2>1, JobTypes DEF Lifecycle!Moves
  <2>2. CASE Same(j)
    <3>1. queue'[j].attempt = queue[j].attempt
      BY <2>2 DEF Same, QueueRows
    <3> QED
      BY <2>2, <3>1 DEF Same, Lifecycle!Rests
  <2>3. CASE Submitted(j)
    BY <2>3 DEF Submitted, Lifecycle!Submit, NewQueueRow, NoQueueRow
  <2>4. CASE Resumed(j)
    BY <2>4 DEF Resumed, Lifecycle!Resume, NewQueueRow, NoQueueRow
  <2>5. CASE Claimed(j)
    <3>1. MaxAttempts - queue'[j].attempt = (MaxAttempts - queue[j].attempt) - 1
      BY <2>5 DEF Claimed
    <3>2. MaxAttempts - queue[j].attempt > 0
      BY <2>5 DEF Claimed
    <3> QED
      BY <2>5, <3>1, <3>2 DEF Claimed, Lifecycle!Start
  <2>6. CASE Recovered(j)
    <3>1. MaxAttempts - queue'[j].attempt = MaxAttempts - queue[j].attempt
      BY <2>6 DEF Recovered, NewQueueRow, NoQueueRow
    <3>2. MaxAttempts - queue[j].attempt > 0
      BY <2>6 DEF Recovered
    <3> QED
      BY <2>6, <3>1, <3>2 DEF Recovered, Lifecycle!Interrupted
  <2>7. CASE Ended(j)
    BY <2>7 DEF Ended, Lifecycle!End, NoQueueRow
  <2>8. CASE Cancelled(j)
    BY <2>8 DEF Cancelled, Lifecycle!Cancel, NoQueueRow
  <2> QED
    BY <2>2, <2>3, <2>4, <2>5, <2>6, <2>7, <2>8 DEF Shape
<1> QED
  BY InvHolds, <1>1, <1>2, PTL DEF Spec, LifecycleSpec, Lifecycle!Spec

-----------------------------------------------------------------------------
(***************************************************************************)
(* How far claim_analysis_job keeps one user to UserSlots RUNNING jobs.    *)
(* The claim counts the user's RUNNING jobs in its snapshot, so every      *)
(* claim under way may add one job to a count it did not see: a RUNNING    *)
(* job or a claim in progress of the user is a slot in use, and the slots  *)
(* in use never exceed UserSlots - 1 and one per worker.                   *)
(***************************************************************************)

\* The workers whose claim under way has seen a job of the user.
Claimers(u) == {w \in Workers : /\ claiming[w].phase # "idle"
                                /\ \E j \in claiming[w].jobs : Owner[j] = u}

SlotInv == \A u \in Users :
    Cardinality(Running(u)) + Cardinality(Claimers(u))
        <= UserSlots - 1 + Cardinality(Workers)

\* Both sets are finite.
LEMMA Finite ==
    ASSUME NEW u
    PROVE  /\ IsFiniteSet(Running(u)) /\ Cardinality(Running(u)) \in Nat
           /\ IsFiniteSet(Claimers(u)) /\ Cardinality(Claimers(u)) \in Nat
           /\ Cardinality(Claimers(u)) <= Cardinality(Workers)
           /\ IsFiniteSet(Workers) /\ Cardinality(Workers) \in Nat
           /\ UserSlots \in Nat \ {0} /\ UserSlots \in Nat
<1>1. Running(u) \subseteq Jobs /\ Claimers(u) \subseteq Workers
  BY DEF Running, Claimers
<1> QED
  BY <1>1, ConstantsAssumption, FS_Subset, FS_CardinalityType

\* The same one state later.
LEMMA FiniteNext ==
    ASSUME NEW u
    PROVE  /\ IsFiniteSet(Running(u)') /\ Cardinality(Running(u)') \in Nat
           /\ IsFiniteSet(Claimers(u)') /\ Cardinality(Claimers(u)') \in Nat
           /\ Cardinality(Claimers(u)') <= Cardinality(Workers)
<1>1. Running(u)' \subseteq Jobs /\ Claimers(u)' \subseteq Workers
  BY DEF Running, Claimers
<1> QED
  BY <1>1, ConstantsAssumption, FS_Subset, FS_CardinalityType

\* A step that gives a user no new RUNNING job and no new claim in progress
\* uses no new slot.
LEMMA SlotsShrink ==
    ASSUME NEW u \in Users, SlotInv,
           Running(u)' \subseteq Running(u), Claimers(u)' \subseteq Claimers(u)
    PROVE  (Cardinality(Running(u)) + Cardinality(Claimers(u))
                <= UserSlots - 1 + Cardinality(Workers))'
<1>1. /\ Cardinality(Running(u)') <= Cardinality(Running(u))
      /\ Cardinality(Claimers(u)') <= Cardinality(Claimers(u))
  BY Finite, FS_Subset
<1> QED
  BY <1>1, Finite, FiniteNext DEF SlotInv

\* It is enough that no job becomes RUNNING and no claim sees more.
LEMMA NoMore ==
    ASSUME NEW u,
           \A j \in Jobs : job'[j].status = "RUNNING" => job[j].status = "RUNNING",
           \A w \in Workers :
               claiming'[w].phase # "idle" => /\ claiming[w].phase # "idle"
                                             /\ claiming'[w].jobs \subseteq claiming[w].jobs
    PROVE  Running(u)' \subseteq Running(u) /\ Claimers(u)' \subseteq Claimers(u)
BY DEF Running, Claimers

\* The user, an execution, recovery and the clock make no job RUNNING.
LEMMA OnlyClaimsRun ==
    ASSUME TypeOK, NEW j \in Jobs, job[j].status # "RUNNING",
           \/ User
           \/ \E t \in threads : Executing(t)
           \/ Clock \/ Recovery
           \/ \E w \in Workers : Lifetime(w)
    PROVE  job'[j].status # "RUNNING"
<1>0. /\ Released(job[j], "QUEUED").status = "QUEUED"
      /\ Released(job[j], "FAILED").status = "FAILED"
      /\ Released(job[j], "CANCELLED").status = "CANCELLED"
      /\ Released(job[j], "SUCCEEDED").status = "SUCCEEDED"
      /\ Released(job[j], "WAITING_FOR_INPUT").status = "WAITING_FOR_INPUT"
  BY JobTypes DEF Released, JobRows
<1> USE JobTypes DEF TypeOK
<1>1. ASSUME NEW i \in Jobs, \/ Submit(i) \/ Retry(i) \/ Cancel(i)
                             \/ Answer(i) \/ CancelReview(i)
      PROVE  job'[j].status # "RUNNING"
  <2>1. \/ job'[j] = job[j]
        \/ i = j /\ job'[j] = [job[j] EXCEPT !.status = "QUEUED"]
        \/ job'[j] \in {Released(job[j], "QUEUED"), Released(job[j], "CANCELLED")}
    BY <1>1 DEF Submit, Retry, Cancel, Answer, CancelReview
  <2> QED
    BY <2>1, <1>0 DEF JobRows
<1>2. ASSUME NEW t \in threads, Executing(t) PROVE job'[j].status # "RUNNING"
  <2>0. t.job \in Jobs
    BY DEF Executions
  <2> USE <1>0, <2>0 DEF JobRows
  <2>1. CASE LoadRequest(t) \/ BeginRun(t) \/ Discard(t) \/ CancelUnstarted(t)
    BY <2>1 DEF LoadRequest, BeginRun, Discard, CancelUnstarted
  <2>2. CASE RecordProgress(t)
    BY <2>2 DEF RecordProgress
  <2>3. CASE PauseForQuestion(t)
    BY <2>3 DEF PauseForQuestion, Asking
  <2>4. CASE Complete(t)
    BY <2>4 DEF Complete, LegacySucceeded
  <2>5. CASE Fail(t)
    BY <2>5 DEF Fail
  <2> QED
    BY <1>2, <2>1, <2>2, <2>3, <2>4, <2>5 DEF Executing, Ends
<1>3. CASE Clock
  BY <1>3 DEF Clock, QueueLockExpires, JobLockExpires, JobRows
<1>4. CASE Recovery
  <2>1. PICK S \in SUBSET {i \in Jobs : Stale(i)} : Recover(S)
    BY <1>4 DEF Recovery
  <2>2. job'[j] \in {job[j], Released(job[j], "QUEUED"), Released(job[j], "FAILED")}
    BY <2>1 DEF Recover
  <2> QED
    BY <2>2, <1>0
<1>5. ASSUME NEW w \in Workers, Lifetime(w) PROVE job'[j].status # "RUNNING"
  <2>1. job'[j] \in {job[j], Released(job[j], "FAILED")}
    BY <1>5 DEF Lifetime, StartWorker, Stop, Interrupt
  <2> QED
    BY <2>1, <1>0
<1> QED
  BY <1>1, <1>2, <1>3, <1>4, <1>5 DEF User

\* They begin no claim either; a process that stops ends its own.
LEMMA OnlyPollsClaim ==
    ASSUME TypeOK, NEW v \in Workers,
           \/ User
           \/ \E t \in threads : Executing(t)
           \/ Clock \/ Recovery
           \/ \E w \in Workers : Lifetime(w)
    PROVE  claiming'[v] = claiming[v] \/ claiming'[v].phase = "idle"
<1>1. CASE User
  BY <1>1 DEF User, Submit, Retry, Cancel, Answer, CancelReview
<1>2. CASE \E t \in threads : Executing(t)
  BY <1>2 DEF Executing, Ends, LoadRequest, BeginRun, RecordProgress,
              PauseForQuestion, Complete, Fail, Discard, CancelUnstarted
<1>3. CASE Clock
  BY <1>3 DEF Clock, QueueLockExpires, JobLockExpires
<1>4. CASE Recovery
  BY <1>4 DEF Recovery, Recover
<1>5. ASSUME NEW w \in Workers, Lifetime(w)
      PROVE  claiming'[v] = claiming[v] \/ claiming'[v].phase = "idle"
  <2>1. CASE Stop(w)
    BY <2>1 DEF Stop, TypeOK, Idle
  <2> QED
    BY <1>5, <2>1 DEF Lifetime, StartWorker, Interrupt
<1> QED
  BY <1>1, <1>2, <1>3, <1>4, <1>5

\* A snapshot takes a job of a user only while a slot of that user is free.
LEMMA SlotsSnapshot ==
    ASSUME Inv, SlotInv, NEW w \in Workers, Snapshot(w), NEW u \in Users
    PROVE  (Cardinality(Running(u)) + Cardinality(Claimers(u))
                <= UserSlots - 1 + Cardinality(Workers))'
<1>0. TypeOK /\ Running(u)' = Running(u)
  BY DEF Inv, Snapshot, Running
<1>1. CASE Cardinality(Running(u)) < UserSlots
  BY <1>0, <1>1, Finite, FiniteNext
<1>2. CASE ~(Cardinality(Running(u)) < UserSlots)
  <2>1. Claimers(u)' \subseteq Claimers(u)
    <3> SUFFICES ASSUME NEW v \in Workers, claiming'[v].phase # "idle",
                        NEW j \in claiming'[v].jobs, Owner[j] = u
                 PROVE  v \in Claimers(u)
      BY DEF Claimers
    <3>1. CASE v = w
      BY <1>0, <1>2, <3>1 DEF Snapshot, TypeOK
    <3>2. CASE v # w
      BY <1>0, <3>2 DEF Snapshot, TypeOK, Claimers
    <3> QED
      BY <3>1, <3>2
  <2> QED
    BY <1>0, <2>1, SlotsShrink
<1> QED
  BY <1>1, <1>2

\* A claim turns the worker's claim in progress into a RUNNING job.
LEMMA SlotsClaim ==
    ASSUME Inv, SlotInv, NEW w \in Workers, Claim(w), NEW u \in Users
    PROVE  (Cardinality(Running(u)) + Cardinality(Claimers(u))
                <= UserSlots - 1 + Cardinality(Workers))'
<1>0. TypeOK /\ claiming[w].jobs \subseteq Jobs
  BY DEF Inv, TypeOK, Claims
<1>1. PICK j \in claiming[w].jobs : ClaimRow(w, j)
  BY DEF Claim
<1>2. /\ claiming[w].phase = "locked"
      /\ claiming' = [claiming EXCEPT ![w] = Idle]
  BY DEF Claim
<1>3. Claimers(u)' \subseteq Claimers(u)
  BY <1>0, <1>2 DEF Claimers, TypeOK, Idle
<1>4. CASE Owner[j] # u
  <2>1. Running(u)' \subseteq Running(u)
    BY <1>0, <1>1, <1>4 DEF Running, ClaimRow, TypeOK
  <2> QED
    BY <1>3, <2>1, SlotsShrink
<1>5. CASE Owner[j] = u
  <2>1. w \in Claimers(u)
    BY <1>2, <1>5 DEF Claimers
  <2>2. Claimers(u)' \subseteq Claimers(u) \ {w}
    BY <1>0, <1>2 DEF Claimers, TypeOK, Idle
  <2>3. Cardinality(Claimers(u)') <= Cardinality(Claimers(u)) - 1
    <3>1. /\ IsFiniteSet(Claimers(u) \ {w})
          /\ Cardinality(Claimers(u) \ {w}) = Cardinality(Claimers(u)) - 1
      BY <2>1, Finite, FS_RemoveElement
    <3>2. Cardinality(Claimers(u)') <= Cardinality(Claimers(u) \ {w})
      BY <2>2, <3>1, FS_Subset
    <3> QED
      BY <3>1, <3>2
  <2>4. Running(u)' \subseteq Running(u) \cup {j}
    BY <1>0, <1>1 DEF Running, ClaimRow, TypeOK
  <2>5. Cardinality(Running(u)') <= Cardinality(Running(u)) + 1
    <3>1. /\ IsFiniteSet(Running(u) \cup {j})
          /\ \/ Cardinality(Running(u) \cup {j}) = Cardinality(Running(u))
             \/ Cardinality(Running(u) \cup {j}) = Cardinality(Running(u)) + 1
      BY Finite, FS_AddElement
    <3>2. Cardinality(Running(u)') <= Cardinality(Running(u) \cup {j})
      BY <2>4, <3>1, FS_Subset
    <3> QED
      BY <3>1, <3>2, Finite, FiniteNext
  <2> QED
    BY <2>3, <2>5, Finite, FiniteNext DEF SlotInv
<1> QED
  BY <1>4, <1>5

\* A user's RUNNING jobs exceed UserSlots by at most one per further worker.
THEOREM SlotsBounded == Spec => []UserSlotBound
<1>1. Init => SlotInv
  <2> SUFFICES ASSUME Init, NEW u \in Users
               PROVE  Cardinality(Running(u)) + Cardinality(Claimers(u))
                          <= UserSlots - 1 + Cardinality(Workers)
    BY DEF SlotInv
  <2>1. Running(u) = {}
    BY DEF Init, Running
  <2> QED
    BY <2>1, Finite, FS_EmptySet
<1>2. Inv /\ SlotInv /\ [Next]_vars => SlotInv'
  <2> SUFFICES ASSUME Inv, SlotInv, [Next]_vars, NEW u \in Users
               PROVE  (Cardinality(Running(u)) + Cardinality(Claimers(u))
                          <= UserSlots - 1 + Cardinality(Workers))'
    BY DEF SlotInv
  <2>0. TypeOK
    BY DEF Inv
  <2>1. CASE UNCHANGED vars
    BY <2>1, SlotsShrink DEF vars, Running, Claimers
  <2>2. CASE \E w \in Workers : Snapshot(w)
    BY <2>2, SlotsSnapshot
  <2>3. CASE \E w \in Workers : Claim(w)
    BY <2>3, SlotsClaim
  <2>4. ASSUME NEW w \in Workers, LockUsers(w) \/ ClaimNothing(w)
        PROVE  Running(u)' \subseteq Running(u) /\ Claimers(u)' \subseteq Claimers(u)
    BY <2>0, <2>4 DEF LockUsers, ClaimNothing, Running, Claimers, TypeOK, Idle
  <2>5. CASE \/ User \/ (\E t \in threads : Executing(t)) \/ Clock
             \/ Recovery \/ \E w \in Workers : Lifetime(w)
    BY <2>0, <2>5, OnlyClaimsRun, OnlyPollsClaim, NoMore, SlotsShrink
  <2> QED
    BY <2>1, <2>2, <2>3, <2>4, <2>5, SlotsShrink DEF Next, Polling
<1>3. SlotInv => UserSlotBound
  <2> SUFFICES ASSUME SlotInv, NEW u \in Users
               PROVE  Cardinality(Running(u)) <= UserSlots - 1 + Cardinality(Workers)
    BY DEF UserSlotBound
  <2> QED
    BY Finite DEF SlotInv
<1> QED
  BY InvHolds, <1>1, <1>2, <1>3, PTL DEF Spec

-----------------------------------------------------------------------------
(***************************************************************************)
(* What the fences of the analysis workers achieve: the run of a UNIFIED   *)
(* job keeps step with the job, a waiting job keeps its open question, and *)
(* an execution that lost its job to another process changes nothing.      *)
(***************************************************************************)

RunInv(j) ==
    /\ job[j].status = "WAITING_FOR_INPUT" =>
         j \in pending /\ (j \in Unified => run[j].state = "AWAITING")
    /\ j \in Unified => (run[j].state = "COMPLETED" <=> job[j].status = "SUCCEEDED")

\* A step that does not begin or end an execution's hold on the job keeps the
\* run and the question in step, for the job neither waits nor has succeeded
\* afterwards unless it did before.
LEMMA RunKept ==
    ASSUME NEW j \in Jobs, RunInv(j), run'[j] = run[j],
           \/ /\ job'[j].status = job[j].status
              /\ j \in pending => j \in pending'
           \/ /\ job'[j].status \notin {"WAITING_FOR_INPUT", "SUCCEEDED"}
              /\ job[j].status # "SUCCEEDED"
    PROVE  RunInv(j)'
BY DEF RunInv

\* The transactions of a user keep them in step.
LEMMA RunUser ==
    ASSUME TypeOK, User, NEW j \in Jobs, RunInv(j)
    PROVE  RunInv(j)'
<1>1. PICK i \in Jobs : \/ Submit(i) \/ Retry(i) \/ Cancel(i)
                        \/ Answer(i) \/ CancelReview(i)
  BY DEF User
<1>2. run' = run
  BY <1>1 DEF Submit, Retry, Cancel, Answer, CancelReview
<1>3. CASE i # j
  BY <1>1, <1>2, <1>3, RunKept DEF TypeOK, Submit, Retry, Cancel, Answer, CancelReview
<1>4. CASE i = j
  <2>1. /\ Released(job[j], "QUEUED").status = "QUEUED"
        /\ Released(job[j], "CANCELLED").status = "CANCELLED"
    BY JobTypes DEF Released, JobRows
  <2>2. /\ job'[j].status \in {"QUEUED", "CANCELLED"}
        /\ job[j].status # "SUCCEEDED"
    BY <1>1, <1>4, <2>1, JobTypes
       DEF TypeOK, JobRows, Submit, Retry, Cancel, Answer, CancelReview
  <2> QED
    BY <1>2, <2>2, RunKept
<1> QED
  BY <1>3, <1>4

\* So do the transactions of an execution: only the holder of the RUNNING row
\* opens a revision, and the transaction that completes it completes the job.
LEMMA RunExecuting ==
    ASSUME TypeOK, NEW t \in threads, Executing(t), NEW j \in Jobs, RunInv(j)
    PROVE  RunInv(j)'
<1>0. t.job \in Jobs /\ job[t.job] \in JobRows /\ run[t.job] \in Runs
  BY DEF TypeOK, Executions
<1>1. CASE LoadRequest(t) \/ Discard(t) \/ CancelUnstarted(t)
  BY <1>1, RunKept DEF LoadRequest, Discard, CancelUnstarted
<1>2. CASE RecordProgress(t)
  <2>1. job'[j].status = job[j].status
    BY <1>0, <1>2, JobTypes DEF RecordProgress, TypeOK, JobRows
  <2> QED
    BY <1>2, <2>1, RunKept DEF RecordProgress
<1>3. CASE t.job # j
  <2>1. /\ job'[j] = job[j] /\ run'[j] = run[j]
        /\ j \in pending => j \in pending'
    BY <1>0, <1>3 DEF TypeOK, Executing, Ends, LoadRequest, BeginRun, RecordProgress,
                      PauseForQuestion, Complete, Fail, Discard, CancelUnstarted
  <2> QED
    BY <2>1, RunKept
<1>4. CASE t.job = j
  <2> USE <1>0, <1>4 DEF CurrentRun, CurrentWorker
  <2>1. CASE BeginRun(t)
    <3>1. run'[j].state = "RUNNING" /\ job' = job /\ job[j].status = "RUNNING"
      BY <2>1 DEF BeginRun, TypeOK
    <3> QED
      BY <3>1 DEF RunInv
  <2>2. CASE PauseForQuestion(t)
    <3>1. job'[j].status = "WAITING_FOR_INPUT" /\ j \in pending'
      BY <2>2 DEF PauseForQuestion, Asking, Released, TypeOK, JobRows
    <3>2. j \in Unified => run'[j].state = "AWAITING"
      BY <2>2 DEF PauseForQuestion, TypeOK, Runs
    <3> QED
      BY <3>1, <3>2 DEF RunInv
  <2>3. CASE Complete(t)
    <3>1. job'[j].status = "SUCCEEDED"
      BY <2>3 DEF Complete, LegacySucceeded, Released, TypeOK, JobRows
    <3>2. j \in Unified => run'[j].state = "COMPLETED"
      BY <2>3 DEF Complete, TypeOK, Runs
    <3> QED
      BY <3>1, <3>2 DEF RunInv
  <2>4. CASE Fail(t)
    <3>1. job[j].status = "RUNNING" /\ job'[j].status = "FAILED" /\ run' = run
      BY <2>4 DEF Fail, TypeOK, JobRows
    <3> QED
      BY <3>1, RunKept
  <2> QED
    BY <1>1, <1>2, <2>1, <2>2, <2>3, <2>4 DEF Executing, Ends
<1> QED
  BY <1>3, <1>4

\* The other steps leave runs and questions alone, and a job that waits or
\* has succeeded too.
LEMMA RunElsewhere ==
    ASSUME Inv, NEW j \in Jobs, RunInv(j),
           \/ \E w \in Workers : Polling(w) \/ Lifetime(w)
           \/ Clock \/ Recovery
    PROVE  RunInv(j)'
<1>0. TypeOK /\ JobInv(j)
  BY DEF Inv
<1>1. run' = run /\ pending' = pending
  BY DEF Polling, Lifetime, Clock, Recovery, Snapshot, LockUsers, Claim, ClaimNothing,
         StartWorker, Interrupt, Stop, QueueLockExpires, JobLockExpires, Recover
<1>2. Shape(j)
  BY ShapePolling, ShapeEnvironment
<1>3. CASE Ended(j)
  <2>1. job'[j].status \in {"RUNNING", "FAILED", "QUEUED"}
    <3>1. /\ Released(job[j], "QUEUED").status = "QUEUED"
          /\ Released(job[j], "FAILED").status = "FAILED"
      BY <1>0, JobTypes DEF Released, JobRows
    <3>2. CASE \E w \in Workers : Polling(w)
      <4>1. ASSUME NEW w \in Workers, Claim(w) PROVE job'[j].status \in {job[j].status, "RUNNING"}
        <5>0. claiming[w].jobs \subseteq Jobs
          BY <1>0 DEF TypeOK, Claims
        <5>1. PICK i \in claiming[w].jobs : ClaimRow(w, i)
          BY <4>1 DEF Claim
        <5> QED
          BY <1>0, <5>0, <5>1 DEF ClaimRow, TypeOK, JobRows
      <4> QED
        BY <1>3, <3>2, <4>1 DEF Ended, Polling, Snapshot, LockUsers, ClaimNothing
    <3>3. CASE \E w \in Workers : Lifetime(w)
      <4>1. job'[j] \in {job[j], Released(job[j], "FAILED")}
        BY <3>3 DEF Lifetime, StartWorker, Stop, Interrupt
      <4> QED
        BY <1>3, <3>1, <4>1 DEF Ended
    <3>4. CASE Recovery
      <4>1. PICK S \in SUBSET {i \in Jobs : Stale(i)} : Recover(S)
        BY <3>4 DEF Recovery
      <4>2. job'[j] \in {job[j], Released(job[j], "QUEUED"), Released(job[j], "FAILED")}
        BY <4>1 DEF Recover
      <4> QED
        BY <1>3, <3>1, <4>2 DEF Ended
    <3>5. CASE Clock
      BY <1>0, <1>3, <3>5, JobTypes
         DEF Ended, Clock, QueueLockExpires, JobLockExpires, TypeOK, JobRows
    <3> QED
      BY <3>2, <3>3, <3>4, <3>5
  <2> QED
    BY <1>1, <1>3, <2>1, RunKept DEF Ended
<1>4. CASE ~Ended(j)
  BY <1>1, <1>2, <1>4, RunKept
     DEF Shape, Same, Submitted, Resumed, Claimed, Recovered, Cancelled
<1> QED
  BY <1>3, <1>4

\* Every waiting job can be answered, and a UNIFIED job has succeeded exactly
\* when its run is COMPLETED.
THEOREM RunsKeepStep == Spec => [](WaitingCanBeAnswered /\ RunCompletedIffSucceeded)
<1> DEFINE RunsInv == \A j \in Jobs : RunInv(j)
<1>1. Init => RunsInv
  BY ConstantsAssumption DEF Init, RunInv
<1>2. Inv /\ RunsInv /\ [Next]_vars => RunsInv'
  <2> SUFFICES ASSUME Inv, RunsInv, [Next]_vars, NEW j \in Jobs PROVE RunInv(j)'
    OBVIOUS
  <2>0. TypeOK /\ RunInv(j)
    BY DEF Inv
  <2>1. CASE UNCHANGED vars
    BY <2>0, <2>1, RunKept DEF vars
  <2>2. CASE User
    BY <2>0, <2>2, RunUser
  <2>3. CASE \E t \in threads : Executing(t)
    BY <2>0, <2>3, RunExecuting
  <2>4. CASE \/ (\E w \in Workers : Polling(w) \/ Lifetime(w))
             \/ Clock \/ Recovery
    BY <2>0, <2>4, RunElsewhere
  <2> QED
    BY <2>1, <2>2, <2>3, <2>4 DEF Next
<1>3. RunsInv => WaitingCanBeAnswered /\ RunCompletedIffSucceeded
  BY ConstantsAssumption DEF RunInv, WaitingCanBeAnswered, RunCompletedIffSucceeded
<1> QED
  BY InvHolds, <1>1, <1>2, <1>3, PTL DEF Spec

\* A job that waits can always be answered, and the run of a UNIFIED one waits
\* with it.
THEOREM WaitingAnswerable == Spec => []WaitingCanBeAnswered
BY RunsKeepStep, PTL

\* However late executions open and lose revisions of its run, a UNIFIED job has
\* succeeded exactly when the run is COMPLETED.
THEOREM CompletedHasSucceeded == Spec => []RunCompletedIffSucceeded
BY RunsKeepStep, PTL

\* An execution that ends after its job went to another process leaves the
\* job, its queue row and its run as they are.
THEOREM ForeignFenced == Spec => ForeignExecutionFenced
<1>1. TypeOK /\ [Next]_vars =>
        [\A t \in threads \ threads' :
             job[t.job].worker # t.worker => /\ job'[t.job] = job[t.job]
                                             /\ queue'[t.job] = queue[t.job]
                                             /\ run'[t.job] = run[t.job]]_vars
  <2> SUFFICES ASSUME TypeOK, [Next]_vars, NEW t \in threads \ threads',
                      job[t.job].worker # t.worker
               PROVE  /\ job'[t.job] = job[t.job] /\ queue'[t.job] = queue[t.job]
                      /\ run'[t.job] = run[t.job]
    OBVIOUS
  <2>1. CASE UNCHANGED vars
    BY <2>1 DEF vars
  <2>2. CASE User
    BY <2>2 DEF User, Submit, Retry, Cancel, Answer, CancelReview
  <2>3. ASSUME NEW w \in Workers, Polling(w) PROVE FALSE
    BY <2>3 DEF Polling, Snapshot, LockUsers, Claim, ClaimNothing, ClaimRow
  <2>4. ASSUME NEW w \in Workers, Lifetime(w)
        PROVE  job' = job /\ queue' = queue /\ run' = run
    BY <2>4 DEF Lifetime, StartWorker, Interrupt, Stop
  <2>5. CASE Clock \/ Recovery
    BY <2>5 DEF Clock, Recovery, QueueLockExpires, JobLockExpires, Recover
  <2>6. ASSUME NEW s \in threads, Executing(s)
        PROVE  job' = job /\ queue' = queue /\ run' = run
    <3>1. t = s
      BY <2>6 DEF Executing, Ends, LoadRequest, BeginRun, RecordProgress,
                  PauseForQuestion, Complete, Fail, Discard, CancelUnstarted
    <3>2. Discard(s) \/ CancelUnstarted(s)
      BY <2>6, <3>1 DEF Executing, Ends, LoadRequest, BeginRun, RecordProgress,
                  PauseForQuestion, Complete, Fail, CurrentRun, CurrentWorker
    <3> QED
      BY <3>2 DEF Discard, CancelUnstarted
  <2> QED
    BY <2>1, <2>2, <2>3, <2>4, <2>5, <2>6 DEF Next
<1> QED
  BY TypeCorrect, <1>1, PTL DEF Spec, ForeignExecutionFenced
=============================================================================
