---------------------------- MODULE AnalysisJobs ----------------------------
(***************************************************************************)
(* The posting-analysis queue of the backend: the rows of analysis_jobs    *)
(* and analysis_job_queue, the user operations of AnalysisJobService, the  *)
(* polling workers of AnalysisWorker with the two ways a job is executed   *)
(* (the LEGACY pipeline and the UNIFIED one of V3AnalysisJobProcessor),    *)
(* and the three SECURITY DEFINER functions of V76 that claim, recover and *)
(* interrupt jobs.                                                         *)
(*                                                                         *)
(* One action is one database transaction.  Only claim_analysis_job is     *)
(* split, because its statement reads from a snapshot taken before it      *)
(* obtains the advisory locks.  now() is not modelled: a lock is live      *)
(* until an action of its own says that its fifteen minutes are over.      *)
(***************************************************************************)
EXTENDS Integers, FiniteSets

CONSTANTS
    Jobs,           \* analysis jobs, numbered in (created_at, id) order
    Users,
    Owner,          \* the user of each job
    Unified,        \* the jobs with analysis_provider = 'UNIFIED'
    Workers,        \* worker ids: host name and a fresh UUID per process
    NoWorker,       \* a NULL worker_id
    MaxAttempts,    \* 3 in the code
    UserSlots,      \* 2 in the code: RUNNING jobs one user may have
    MaxConcurrent,  \* jobiss.ai.max-concurrent-analyses
    QuestionLimit,  \* per job: 3 for LEGACY, 10 for UNIFIED
    MaxResumes      \* bound of the model: retries and answers per job

ASSUME ConstantsAssumption ==
    /\ Jobs \subseteq Nat /\ IsFiniteSet(Jobs)
    /\ Owner \in [Jobs -> Users]
    /\ Unified \subseteq Jobs
    /\ IsFiniteSet(Workers)
    /\ NoWorker \notin Workers
    /\ MaxAttempts \in Nat \ {0}
    /\ UserSlots \in Nat \ {0}
    /\ MaxConcurrent \in Nat \ {0}
    /\ QuestionLimit \in [Jobs -> Nat]
    /\ MaxResumes \in Nat

VARIABLES
    job,       \* analysis_jobs: one record per job
    queue,     \* analysis_job_queue: one record per job, listed or not
    run,       \* ai_v3_analysis_runs: revision and state, UNIFIED jobs only
    pending,   \* the jobs that have a PENDING row in analysis_questions
    threads,   \* the executions of process(job) alive in some worker
    worker,    \* the life of each worker process
    claiming,  \* what each worker's claim statement has seen so far
    claims,    \* history: how often each job was claimed
    resumes    \* history: how often each job's user retried or answered

vars == <<job, queue, run, pending, threads, worker, claiming, claims, resumes>>

Locks == {"none", "live", "expired"}

Statuses == {"NONE", "QUEUED", "RUNNING", "WAITING_FOR_INPUT",
             "SUCCEEDED", "FAILED", "CANCELLED"}

JobRows == [status: Statuses, worker: Workers \cup {NoWorker}, lock: Locks,
            attempt: Nat, questions: Nat]

QueueRows == [listed: BOOLEAN, worker: Workers \cup {NoWorker}, lock: Locks,
              attempt: Nat]

Runs == [revision: Nat, state: {"NONE", "RUNNING", "AWAITING", "COMPLETED"}]

\* An execution knows its job, its worker, the claim that started it, the count of
\* questions it read then and, once begun, the run revision it was given.  One that is "lost" never ran, and
\* holds its slot in activeAnalyses as long as its process lives.
Executions == [job: Jobs, worker: Workers, claim: Nat, asked: Nat, revision: Nat,
               pc: {"claimed", "running", "lost"}]

Claims == [phase: {"idle", "snapshot", "locked"}, jobs: SUBSET Jobs]

TypeOK ==
    /\ job \in [Jobs -> JobRows]
    /\ queue \in [Jobs -> QueueRows]
    /\ run \in [Jobs -> Runs]
    /\ pending \subseteq Jobs
    /\ threads \subseteq Executions
    /\ worker \in [Workers -> {"new", "up", "stopping", "down"}]
    /\ claiming \in [Workers -> Claims]
    /\ claims \in [Jobs -> Nat]
    /\ resumes \in [Jobs -> Nat]

NoQueueRow == [listed |-> FALSE, worker |-> NoWorker, lock |-> "none", attempt |-> 0]
NewQueueRow == [NoQueueRow EXCEPT !.listed = TRUE]
Idle == [phase |-> "idle", jobs |-> {}]

Init ==
    /\ job = [j \in Jobs |-> [status |-> "NONE", worker |-> NoWorker,
                              lock |-> "none", attempt |-> 0, questions |-> 0]]
    /\ queue = [j \in Jobs |-> NoQueueRow]
    /\ run = [j \in Jobs |-> [revision |-> 0, state |-> "NONE"]]
    /\ pending = {}
    /\ threads = {}
    /\ worker = [w \in Workers |-> "new"]
    /\ claiming = [w \in Workers |-> Idle]
    /\ claims = [j \in Jobs |-> 0]
    /\ resumes = [j \in Jobs |-> 0]

-----------------------------------------------------------------------------
(* Rows *)

\* A job row that leaves the hands of its worker.
Released(row, status) ==
    [row EXCEPT !.status = status, !.worker = NoWorker, !.lock = "none"]

\* finish_analysis_job
Finish(j) == queue' = [queue EXCEPT ![j] = NoQueueRow]

\* Mutants: a requeue that hands the last attempt back; one that is an UPDATE.
RefundingRequeue(j) ==
    queue' = [queue EXCEPT ![j] = [NewQueueRow EXCEPT !.attempt = queue[j].attempt - 1]]
UpdatingRequeue(j) ==
    queue' = [queue EXCEPT ![j] = [@ EXCEPT !.worker = NoWorker, !.lock = "none"]]

\* requeue_analysis_job: the INSERT takes the column default of attempt_count;
\* only a row that is still there keeps its count.
Requeue(j) ==
    queue' = [queue EXCEPT ![j] =
        IF @.listed THEN [@ EXCEPT !.worker = NoWorker, !.lock = "none"]
                    ELSE NewQueueRow]

Running(u) == {j \in Jobs : Owner[j] = u /\ job[j].status = "RUNNING"}

\* Mutant: the fence looks at the status only.
StatusFence(t) == job[t.job].status = "RUNNING"

\* requireCurrentWorker, and the WHERE clause of every write of a worker
CurrentWorker(t) ==
    /\ job[t.job].status = "RUNNING"
    /\ job[t.job].worker = t.worker

\* Mutant: the fence looks at the run and not at the job.
RunFence(t) == t.job \in Unified /\ run[t.job].revision = t.revision
                                /\ run[t.job].state = "RUNNING"

\* requireCurrentRun
CurrentRun(t) ==
    /\ CurrentWorker(t)
    /\ t.job \in Unified =>
         /\ run[t.job].revision = t.revision
         /\ run[t.job].state = "RUNNING"

-----------------------------------------------------------------------------
(* The user: JobPostingService and AnalysisJobService *)

\* The insert into analysis_jobs and its trigger enqueue_analysis_job.
Submit(j) ==
    /\ job[j].status = "NONE"
    /\ job' = [job EXCEPT ![j].status = "QUEUED"]
    /\ queue' = [queue EXCEPT ![j] = NewQueueRow]
    /\ UNCHANGED <<run, pending, threads, worker, claiming, claims, resumes>>

Retry(j) ==
    /\ job[j].status \in {"FAILED", "CANCELLED"}
    /\ job[j].attempt < MaxAttempts
    /\ resumes[j] < MaxResumes
    /\ job' = [job EXCEPT ![j] = Released(@, "QUEUED")]
    /\ Requeue(j)
    /\ resumes' = [resumes EXCEPT ![j] = @ + 1]
    /\ UNCHANGED <<run, pending, threads, worker, claiming, claims>>

Cancel(j) ==
    /\ job[j].status \in {"QUEUED", "RUNNING", "WAITING_FOR_INPUT"}
    /\ job' = [job EXCEPT ![j] = Released(@, "CANCELLED")]
    /\ Finish(j)
    /\ UNCHANGED <<run, pending, threads, worker, claiming, claims, resumes>>

Answer(j) ==
    /\ job[j].status = "WAITING_FOR_INPUT"
    /\ j \in pending
    /\ resumes[j] < MaxResumes
    /\ pending' = pending \ {j}
    /\ job' = [job EXCEPT ![j] = Released(@, "QUEUED")]
    /\ Requeue(j)
    /\ resumes' = [resumes EXCEPT ![j] = @ + 1]
    /\ UNCHANGED <<run, threads, worker, claiming, claims>>

\* The answer CANCEL to the posting review of a UNIFIED job.
CancelReview(j) ==
    /\ j \in Unified
    /\ job[j].status = "WAITING_FOR_INPUT"
    /\ j \in pending
    /\ pending' = pending \ {j}
    /\ job' = [job EXCEPT ![j] = Released(@, "CANCELLED")]
    /\ Finish(j)
    /\ UNCHANGED <<run, threads, worker, claiming, claims, resumes>>

-----------------------------------------------------------------------------
(* claim_analysis_job *)

Claimable(j) ==
    /\ job[j].status = "QUEUED"
    /\ queue[j].listed
    /\ queue[j].lock # "live"
    /\ queue[j].attempt < MaxAttempts

\* The statement begins: the rows and the RUNNING counts it will judge by.
Snapshot(w) ==
    /\ worker[w] = "up"
    /\ claiming[w].phase = "idle"
    /\ Cardinality({t \in threads : t.worker = w}) < MaxConcurrent
    /\ claiming' = [claiming EXCEPT ![w] =
         [phase |-> "snapshot",
          jobs  |-> {j \in Jobs : /\ Claimable(j)
                                  /\ Cardinality(Running(Owner[j])) < UserSlots}]]
    /\ UNCHANGED <<job, queue, run, pending, threads, worker, claims, resumes>>

\* pg_try_advisory_xact_lock for the user of every row seen: a row whose user
\* another transaction holds is dropped.
LockUsers(w) ==
    LET held == {Owner[j] : j \in UNION {claiming[v].jobs :
                    v \in {v \in Workers : claiming[v].phase = "locked"}}}
    IN  /\ claiming[w].phase = "snapshot"
        /\ claiming' = [claiming EXCEPT ![w] =
             [phase |-> "locked", jobs |-> {j \in @.jobs : Owner[j] \notin held}]]
        /\ UNCHANGED <<job, queue, run, pending, threads, worker, claims, resumes>>

ClaimRow(w, j) ==
    /\ queue' = [queue EXCEPT ![j] = [@ EXCEPT !.worker = w, !.lock = "live",
                                               !.attempt = queue[j].attempt + 1]]
    /\ job' = [job EXCEPT ![j] = [@ EXCEPT !.status = "RUNNING", !.worker = w,
                                           !.lock = "live",
                                           !.attempt = queue[j].attempt + 1]]
    /\ claims' = [claims EXCEPT ![j] = @ + 1]
    /\ threads' = threads \cup
         {[job |-> j, worker |-> w, claim |-> claims[j] + 1,
           asked |-> job[j].questions, revision |-> 0, pc |-> "claimed"]}

\* FOR UPDATE re-reads a row that changed since the snapshot, but not the
\* RUNNING count; the first row in order that still qualifies is taken.
Claim(w) ==
    /\ claiming[w].phase = "locked"
    /\ \E j \in claiming[w].jobs :
         /\ Claimable(j)
         /\ \A i \in claiming[w].jobs : Claimable(i) => j <= i
         /\ ClaimRow(w, j)
    /\ claiming' = [claiming EXCEPT ![w] = Idle]
    /\ UNCHANGED <<run, pending, worker, resumes>>

\* No row is left: claim() returns null and the polling loop ends.
ClaimNothing(w) ==
    /\ claiming[w].phase = "locked"
    /\ \A j \in claiming[w].jobs : ~Claimable(j)
    /\ claiming' = [claiming EXCEPT ![w] = Idle]
    /\ UNCHANGED <<job, queue, run, pending, threads, worker, claims, resumes>>

-----------------------------------------------------------------------------
(* An execution: AnalysisWorker.process and V3AnalysisJobProcessor.process *)

\* LEGACY: loadRequest
LoadRequest(t) ==
    /\ t.pc = "claimed" /\ t.job \notin Unified
    /\ CurrentWorker(t)
    /\ threads' = (threads \ {t}) \cup {[t EXCEPT !.pc = "running"]}
    /\ UNCHANGED <<job, queue, run, pending, worker, claiming, claims, resumes>>

\* Mutant: beginRun opens a revision without requireCurrentWorker.
UnfencedBeginRun(t) ==
    /\ t.pc = "claimed" /\ t.job \in Unified
    /\ run' = [run EXCEPT ![t.job] = [revision |-> @.revision + 1, state |-> "RUNNING"]]
    /\ threads' = (threads \ {t}) \cup
         {[t EXCEPT !.pc = "running", !.revision = run[t.job].revision + 1]}
    /\ UNCHANGED <<job, queue, pending, worker, claiming, claims, resumes>>

\* UNIFIED: beginRun takes the next revision for whoever passes the fence.
BeginRun(t) ==
    /\ t.pc = "claimed" /\ t.job \in Unified
    /\ CurrentWorker(t)
    /\ run' = [run EXCEPT ![t.job] = [revision |-> @.revision + 1, state |-> "RUNNING"]]
    /\ threads' = (threads \ {t}) \cup
         {[t EXCEPT !.pc = "running", !.revision = run[t.job].revision + 1]}
    /\ UNCHANGED <<job, queue, pending, worker, claiming, claims, resumes>>

\* recordProgress renews the lock of the job row, never that of the queue row.
RecordProgress(t) ==
    /\ t.pc = "running"
    /\ CurrentRun(t)
    /\ job' = [job EXCEPT ![t.job].lock = "live"]
    /\ UNCHANGED <<queue, run, pending, threads, worker, claiming, claims, resumes>>

\* The row of a job that asks its user; the two pipelines write the same.
Asking(row) ==
    [Released(row, "WAITING_FOR_INPUT") EXCEPT !.questions = row.questions + 1]

\* pauseForQuestion.  analysis_questions_one_pending_per_job_idx and the
\* question limit abort the transaction; the exception then leads to Fail.  The
\* UNIFIED pipeline judges the limit by the count its request was made with.
PauseForQuestion(t) ==
    /\ t.pc = "running"
    /\ CurrentRun(t)
    /\ t.job \notin pending
    /\ (IF t.job \in Unified THEN t.asked ELSE job[t.job].questions) < QuestionLimit[t.job]
    /\ pending' = pending \cup {t.job}
    /\ job' = [job EXCEPT ![t.job] = Asking(@)]
    /\ run' = IF t.job \in Unified THEN [run EXCEPT ![t.job].state = "AWAITING"] ELSE run
    /\ Finish(t.job)
    /\ threads' = threads \ {t}
    /\ UNCHANGED <<worker, claiming, claims, resumes>>

\* complete of the LEGACY pipeline leaves worker_id in the row.
LegacySucceeded(row) == [row EXCEPT !.status = "SUCCEEDED", !.lock = "none"]

Complete(t) ==
    /\ t.pc = "running"
    /\ CurrentRun(t)
    /\ job' = [job EXCEPT ![t.job] =
         IF t.job \in Unified THEN Released(@, "SUCCEEDED") ELSE LegacySucceeded(@)]
    /\ run' = IF t.job \in Unified THEN [run EXCEPT ![t.job].state = "COMPLETED"] ELSE run
    /\ Finish(t.job)
    /\ threads' = threads \ {t}
    /\ UNCHANGED <<pending, worker, claiming, claims, resumes>>

\* Mutant: the failure is written whatever became of the job.
UnfencedFail(t) ==
    /\ t.pc # "lost"
    /\ job' = [job EXCEPT ![t.job] = [@ EXCEPT !.status = "FAILED", !.lock = "none"]]
    /\ Finish(t.job)
    /\ threads' = threads \ {t}
    /\ UNCHANGED <<run, pending, worker, claiming, claims, resumes>>

\* fail: any exception of the execution, a refused fence of the UNIFIED
\* pipeline (ANALYSIS_STALE_RESULT) included, ends in this transaction.
Fail(t) ==
    /\ t.pc # "lost"
    /\ CurrentWorker(t)
    /\ job' = [job EXCEPT ![t.job] = [@ EXCEPT !.status = "FAILED", !.lock = "none"]]
    /\ Finish(t.job)
    /\ threads' = threads \ {t}
    /\ UNCHANGED <<run, pending, worker, claiming, claims, resumes>>

\* The execution ends and writes nothing: SupersededAnalysisException, a
\* failure that finds no row to update, or one that could not be persisted.
Discard(t) ==
    /\ t.pc # "lost"
    /\ threads' = threads \ {t}
    /\ UNCHANGED <<job, queue, run, pending, worker, claiming, claims, resumes>>

\* taskRegistry.cancel reaches the task before a thread of the executor has begun it:
\* its finally block never runs and activeAnalyses keeps the slot.  The signal is sent
\* after the commit of cancel, and may meet the task of a later claim of the job.
CancelUnstarted(t) ==
    /\ t.pc = "claimed"
    /\ job[t.job].status = "CANCELLED" \/ resumes[t.job] > 0
    /\ threads' = (threads \ {t}) \cup {[t EXCEPT !.pc = "lost"]}
    /\ UNCHANGED <<job, queue, run, pending, worker, claiming, claims, resumes>>

-----------------------------------------------------------------------------
(* Time, recovery and the life of a worker process *)

QueueLockExpires(j) ==
    /\ queue[j].lock = "live"
    /\ queue' = [queue EXCEPT ![j].lock = "expired"]
    /\ UNCHANGED <<job, run, pending, threads, worker, claiming, claims, resumes>>

\* Both locks are set at the claim and only the job's is ever renewed, so the
\* queue's runs out first.
JobLockExpires(j) ==
    /\ job[j].lock = "live"
    /\ queue[j].lock # "live"
    /\ job' = [job EXCEPT ![j].lock = "expired"]
    /\ UNCHANGED <<queue, run, pending, threads, worker, claiming, claims, resumes>>

\* Mutant: a lock is stale only when it was cleared.
ClearedLock(j) == job[j].status = "RUNNING" /\ job[j].lock = "none"

Stale(j) == job[j].status = "RUNNING" /\ job[j].lock # "live"

Exhausted(j) ==
    /\ job[j].status = "QUEUED"
    /\ queue[j].listed
    /\ queue[j].attempt >= MaxAttempts
    /\ queue[j].lock # "live"

\* Mutants: recovery starts the count again; recovery forgets the queue row.
FreshRow(j) == NewQueueRow
DroppedRow(j) == NoQueueRow

\* The row a recovered job returns to: the attempts it used stay used.
RecoveredRow(j) ==
    [NewQueueRow EXCEPT !.attempt = IF queue[j].attempt > job[j].attempt
                                    THEN queue[j].attempt ELSE job[j].attempt]

\* A QUEUED row that a claim locked and left.
LeftLocked(j) ==
    /\ job[j].status = "QUEUED" /\ queue[j].worker # NoWorker
    /\ queue[j].lock = "expired" /\ queue[j].attempt < MaxAttempts

\* recover_stale_analysis_jobs over the stale rows no other transaction holds:
\* requeue what has attempts left, fail the rest, then unlock or fail the
\* QUEUED rows a claim left behind.
Recover(S) ==
    LET requeued == {j \in S : job[j].attempt < MaxAttempts}
        failed   == (S \ requeued) \cup {j \in Jobs : Exhausted(j)}
    IN  /\ \E w \in Workers : worker[w] = "up"
        /\ job' = [j \in Jobs |-> IF j \in requeued THEN Released(job[j], "QUEUED")
                                  ELSE IF j \in failed THEN Released(job[j], "FAILED")
                                  ELSE job[j]]
        /\ queue' = [j \in Jobs |->
             IF j \in requeued THEN RecoveredRow(j)
             ELSE IF j \in failed THEN NoQueueRow
             ELSE IF LeftLocked(j) THEN [queue[j] EXCEPT !.worker = NoWorker, !.lock = "none"]
             ELSE queue[j]]
        /\ UNCHANGED <<run, pending, threads, worker, claiming, claims, resumes>>

StartWorker(w) ==
    /\ worker[w] = "new"
    /\ worker' = [worker EXCEPT ![w] = "up"]
    /\ UNCHANGED <<job, queue, run, pending, threads, claiming, claims, resumes>>

\* Another process is there to take over.  Worker ids are never reused.
Replaced(w) == \E v \in Workers \ {w} : worker[v] \in {"new", "up"}

HeldBy(w) == {j \in Jobs : job[j].status = "RUNNING" /\ job[j].worker = w}

\* shutdown: interrupt_analysis_jobs closes the rows it can lock.
Interrupt(w, S) ==
    /\ worker[w] = "up" /\ claiming[w].phase = "idle" /\ Replaced(w)
    /\ worker' = [worker EXCEPT ![w] = "stopping"]
    /\ job' = [j \in Jobs |-> IF j \in S THEN Released(job[j], "FAILED") ELSE job[j]]
    /\ queue' = [j \in Jobs |-> IF j \in S THEN NoQueueRow ELSE queue[j]]
    /\ UNCHANGED <<run, pending, threads, claiming, claims, resumes>>

\* The process is gone, after a shutdown or by a crash.
Stop(w) ==
    /\ \/ worker[w] = "stopping"
       \/ worker[w] = "up" /\ Replaced(w)
    /\ worker' = [worker EXCEPT ![w] = "down"]
    /\ threads' = {t \in threads : t.worker # w}
    /\ claiming' = [claiming EXCEPT ![w] = Idle]
    /\ UNCHANGED <<job, queue, run, pending, claims, resumes>>

-----------------------------------------------------------------------------
Ends(t) == PauseForQuestion(t) \/ Complete(t) \/ Fail(t) \/ Discard(t)

User == \E j \in Jobs : \/ Submit(j) \/ Retry(j) \/ Cancel(j)
                        \/ Answer(j) \/ CancelReview(j)

Polling(w) == Snapshot(w) \/ LockUsers(w) \/ Claim(w) \/ ClaimNothing(w)

Executing(t) ==
    LoadRequest(t) \/ BeginRun(t) \/ RecordProgress(t) \/ Ends(t) \/ CancelUnstarted(t)

Clock == \E j \in Jobs : QueueLockExpires(j) \/ JobLockExpires(j)

Recovery == \E S \in SUBSET {j \in Jobs : Stale(j)} : Recover(S)

Lifetime(w) ==
    \/ StartWorker(w)
    \/ \E S \in SUBSET HeldBy(w) : Interrupt(w, S)
    \/ Stop(w)

Next ==
    \/ User
    \/ \E w \in Workers : Polling(w) \/ Lifetime(w)
    \/ \E t \in threads : Executing(t)
    \/ Clock
    \/ Recovery

Spec == Init /\ [][Next]_vars

\* Polling is a fixed-delay schedule, an execution ends because the AI client
\* times out, time passes, a new process is started when one is gone, and
\* every poll recovers what is stale.
Fairness ==
    /\ \A w \in Workers : /\ WF_vars(Snapshot(w))
                          /\ WF_vars(LockUsers(w))
                          /\ WF_vars(Claim(w) \/ ClaimNothing(w))
                          /\ WF_vars(StartWorker(w))
                          /\ WF_vars(\E t \in threads : t.worker = w /\ Ends(t))
    /\ \A j \in Jobs : /\ WF_vars(QueueLockExpires(j))
                       /\ WF_vars(JobLockExpires(j))
    /\ WF_vars(Recover({j \in Jobs : Stale(j)}))

FairSpec == Spec /\ Fairness
-----------------------------------------------------------------------------
(* What must hold *)

\* The two tables agree: a QUEUED job is one that the next poll can claim, a
\* RUNNING job is counted alike on both sides, and no other job is in the
\* queue.  A QUEUED job that breaks it waits for ever (V75's defect).
QueueMatchesStatus ==
    \A j \in Jobs :
        /\ job[j].status = "QUEUED" =>
             /\ queue[j].listed /\ queue[j].worker = NoWorker
             /\ queue[j].lock = "none" /\ queue[j].attempt < MaxAttempts
        /\ job[j].status = "RUNNING" =>
             /\ queue[j].listed /\ queue[j].worker = job[j].worker
             /\ queue[j].attempt = job[j].attempt
             /\ job[j].attempt <= MaxAttempts
        /\ queue[j].listed => job[j].status \in {"QUEUED", "RUNNING"}

\* Claims of one user that began before the limit was reached may each add a
\* job; so the limit of claim_analysis_job is exceeded by at most one job per
\* further worker process, and is exact when there is one process.
UserSlotBound ==
    \A u \in Users : Cardinality(Running(u)) <= UserSlots - 1 + Cardinality(Workers)

\* Between two requests of its user a job is executed at most MaxAttempts
\* times, however often workers crash, stall or are recovered.
AttemptBudget ==
    \A j \in Jobs : claims[j] <= MaxAttempts * (resumes[j] + 1)

\* A job that waits has the one open question answerQuestion asks for: it can
\* always be answered, and the run of a UNIFIED job waits with it.
WaitingCanBeAnswered ==
    \A j \in Jobs : job[j].status = "WAITING_FOR_INPUT" =>
        /\ j \in pending
        /\ j \in Unified => run[j].state = "AWAITING"

\* A UNIFIED job has succeeded exactly when its run is COMPLETED, although late
\* executions may have opened and lost revisions of that run.
RunCompletedIffSucceeded ==
    \A j \in Unified : run[j].state = "COMPLETED" <=> job[j].status = "SUCCEEDED"

\* D041: neither a worker, nor recovery, nor a restart revives a job that its
\* user cancelled; only an explicit retry does.
CancelledRevivedOnlyByUser ==
    [][\A j \in Jobs : /\ job[j].status = "CANCELLED"
                       /\ job'[j].status # "CANCELLED"
                       => resumes'[j] > resumes[j]]_vars

\* An execution whose job was recovered and given to another process changes
\* nothing when it comes back.
ForeignExecutionFenced ==
    [][\A t \in threads \ threads' :
         job[t.job].worker # t.worker => /\ job'[t.job] = job[t.job]
                                         /\ queue'[t.job] = queue[t.job]
                                         /\ run'[t.job] = run[t.job]]_vars

\* All slots of a process are held by executions that never ran.
Jammed(w) ==
    worker[w] = "up" /\ Cardinality({t \in threads : t.worker = w /\ t.pc = "lost"}) >= MaxConcurrent

\* A queued job is claimed, cancelled or closed in the end, as long as one process
\* lives that has a slot left: each cancellation that comes before the task has begun
\* takes one away (AnalysisWorker.dispatchAvailable).
QueuedIsServed ==
    \A j \in Jobs : job[j].status = "QUEUED" ~>
        \/ job[j].status # "QUEUED"
        \/ \A w \in Workers : worker[w] \in {"new", "up"} => Jammed(w)

\* A running job ends or is recovered, whatever happens to its worker.
RunningEnds ==
    \A j \in Jobs : job[j].status = "RUNNING" ~> job[j].status # "RUNNING"

\* Every job goes through the life cycle of JobLifecycle, within its attempts.
Lifecycle == INSTANCE JobLifecycle WITH
    Attempts <- MaxAttempts,
    status <- [j \in Jobs |-> job[j].status],
    left <- [j \in Jobs |-> MaxAttempts - queue[j].attempt]

LifecycleSpec == Lifecycle!Spec

-----------------------------------------------------------------------------
(* What the documents say and the code does not do *)

Superseded(t) == t.claim < claims[t.job]

\* D029: the late result of a cancelled revision is not stored.
LateResultDropped ==
    [][\A t \in threads \ threads' :
         Superseded(t) => \/ job'[t.job].status = job[t.job].status
                          \/ job'[t.job].status = "FAILED"]_vars

\* V60: one user may consume at most UserSlots worker slots.
UserSlotsRespected ==
    \A u \in Users : Cardinality(Running(u)) <= UserSlots
=============================================================================
