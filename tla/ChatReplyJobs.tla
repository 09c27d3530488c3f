---------------------------- MODULE ChatReplyJobs ----------------------------
(***************************************************************************)
(* The chat reply queue of the backend: the rows of chat_reply_jobs and    *)
(* chat_reply_job_queue, the user operations of ChatReplyJobService, the   *)
(* single-threaded ChatReplyWorker of each backend process with its flag   *)
(* `active' and its registry of cancellable tasks, and the functions of    *)
(* V73 and V40 that claim, recover and interrupt jobs.                     *)
(*                                                                         *)
(* One action is one transaction or one step of a worker between two.  The *)
(* lock of the job row is not modelled: persistProgress renews it, and no  *)
(* code reads it.  available_at is not either: it delays a claim for some  *)
(* seconds, and here a claim may always be late.                           *)
(***************************************************************************)
EXTENDS Integers, FiniteSets

CONSTANTS
    Jobs,          \* chat reply jobs, numbered in (created_at, id) order
    Conversation,  \* the conversation of each job
    Workers,       \* worker ids: one per backend process that is ever started
    NoWorker,      \* a NULL worker_id
    MaxAttempts,   \* 3 in the code
    Bypass,        \* does the owner of the V40 functions bypass row security?
    Overlap,       \* may two backend processes live at the same time?
    MaxResumes     \* bound of the model: retries per job

ASSUME ChatAssumption ==
    /\ Jobs \subseteq Nat
    /\ Conversation \in [Jobs -> Nat]
    /\ IsFiniteSet(Workers)
    /\ NoWorker \notin Workers
    /\ MaxAttempts \in Nat \ {0}
    /\ Bypass \in BOOLEAN
    /\ Overlap \in BOOLEAN
    /\ MaxResumes \in Nat

VARIABLES
    job,       \* chat_reply_jobs
    queue,     \* chat_reply_job_queue
    tasks,     \* the FutureTasks that are not done, one at most per process
    active,    \* ChatReplyWorker.active of each process
    process,   \* the life of each process
    signals,   \* calls of taskRegistry.cancel that have yet to be made
    replies,   \* the ASSISTANT messages written for each job
    claims,    \* history: how often each job was claimed
    resumes,   \* history: how often each job's user retried
    strayed,   \* history: the jobs run by a task that had lost its queue row
    overlapped \* history: have two processes lived at the same time?

vars == <<job, queue, tasks, active, process, signals, replies,
          claims, resumes, strayed, overlapped>>

Open == {"QUEUED", "RUNNING"}
Ended == {"SUCCEEDED", "FAILED", "CANCELLED"}

JobRows == [status: {"NONE"} \cup Open \cup Ended,
            worker: Workers \cup {NoWorker}, attempt: Nat]

QueueRows == [listed: BOOLEAN, worker: Workers \cup {NoWorker},
              lock: {"none", "live", "expired"}, attempt: Nat]

Tasks == [job: Jobs, worker: Workers, attempt: Nat,
          pc: {"claimed", "submitted", "running"}]

Signals == [job: Jobs, worker: Workers]

TypeOK ==
    /\ job \in [Jobs -> JobRows]
    /\ queue \in [Jobs -> QueueRows]
    /\ tasks \subseteq Tasks
    /\ active \in [Workers -> BOOLEAN]
    /\ process \in [Workers -> {"new", "up", "stopping", "stopped", "crashed"}]
    /\ signals \subseteq Signals
    /\ replies \in [Jobs -> Nat]
    /\ claims \in [Jobs -> Nat]
    /\ resumes \in [Jobs -> Nat]
    /\ strayed \subseteq Jobs
    /\ overlapped \in BOOLEAN

NoQueueRow == [listed |-> FALSE, worker |-> NoWorker, lock |-> "none", attempt |-> 0]
NewQueueRow == [NoQueueRow EXCEPT !.listed = TRUE]

Init ==
    /\ job = [j \in Jobs |-> [status |-> "NONE", worker |-> NoWorker, attempt |-> 0]]
    /\ queue = [j \in Jobs |-> NoQueueRow]
    /\ tasks = {}
    /\ active = [w \in Workers |-> FALSE]
    /\ process = [w \in Workers |-> "new"]
    /\ signals = {}
    /\ replies = [j \in Jobs |-> 0]
    /\ claims = [j \in Jobs |-> 0]
    /\ resumes = [j \in Jobs |-> 0]
    /\ strayed = {}
    /\ overlapped = FALSE

-----------------------------------------------------------------------------
(* Rows *)

Released(row, status) == [row EXCEPT !.status = status, !.worker = NoWorker]

Unlocked(row) == [row EXCEPT !.worker = NoWorker, !.lock = "none"]

\* finish_chat_reply_job
Finish(j) == queue' = [queue EXCEPT ![j] = NoQueueRow]

\* WHERE id = ... AND status = 'RUNNING' AND worker_id = ...
Holds(t) == job[t.job].status = "RUNNING" /\ job[t.job].worker = t.worker

\* The messages of the same conversation before that of j.
Earlier(j) == {i \in Jobs : Conversation[i] = Conversation[j] /\ i < j}

-----------------------------------------------------------------------------
(* The user: ChatReplyJobService *)

\* The insert and its trigger enqueue_chat_reply_job.  A user sends a message
\* of a conversation after the one before it has been stored.
Enqueue(j) ==
    /\ job[j].status = "NONE"
    /\ \A i \in Earlier(j) : job[i].status # "NONE"
    /\ job' = [job EXCEPT ![j].status = "QUEUED"]
    /\ queue' = [queue EXCEPT ![j] = NewQueueRow]
    /\ UNCHANGED <<tasks, active, process, signals, replies, claims, resumes, strayed, overlapped>>

\* retry, and the two-argument requeue_chat_reply_job.
Retry(j) ==
    /\ job[j].status \in {"FAILED", "CANCELLED"}
    /\ job[j].attempt < MaxAttempts
    /\ resumes[j] < MaxResumes
    /\ job' = [job EXCEPT ![j] = Released(@, "QUEUED")]
    /\ queue' = [queue EXCEPT ![j] = IF @.listed THEN Unlocked(@) ELSE NewQueueRow]
    /\ resumes' = [resumes EXCEPT ![j] = @ + 1]
    /\ UNCHANGED <<tasks, active, process, signals, replies, claims, strayed, overlapped>>

\* cancel, served by some process: the transaction, and the call of the
\* registry of that process which is to follow.
Cancel(w, j) ==
    /\ process[w] = "up"
    /\ job[j].status \in Open
    /\ job' = [job EXCEPT ![j] = Released(@, "CANCELLED")]
    /\ Finish(j)
    /\ signals' = signals \cup {[job |-> j, worker |-> w]}
    /\ UNCHANGED <<tasks, active, process, replies, claims, resumes, strayed, overlapped>>

\* taskRegistry.cancel: a FutureTask that has not started never runs, nor does
\* its finally block.  One that runs is interrupted and may go on or end.
Signal(s) ==
    /\ signals' = signals \ {s}
    /\ tasks' = tasks \ {t \in tasks : /\ t.job = s.job /\ t.worker = s.worker
                                       /\ t.pc = "submitted"}
    /\ UNCHANGED <<job, queue, active, process, replies, claims, resumes, strayed, overlapped>>

-----------------------------------------------------------------------------
(* The worker: ChatReplyWorker *)

\* Mutant: the flag is not looked at.
BusyOrFree(w) == process[w] = "up"

\* processOne gets past active.compareAndSet.
Free(w) == process[w] = "up" /\ ~active[w]

\* Mutant: only a QUEUED message holds the conversation up.
OvertakingClaimable(j) ==
    /\ job[j].status = "QUEUED" /\ queue[j].listed /\ queue[j].lock # "live"
    /\ queue[j].attempt < MaxAttempts
    /\ \A i \in Earlier(j) : job[i].status # "QUEUED"

Claimable(j) ==
    /\ job[j].status = "QUEUED"
    /\ queue[j].listed
    /\ queue[j].lock # "live"
    /\ queue[j].attempt < MaxAttempts
    /\ \A i \in Earlier(j) : job[i].status \notin Open

\* claim_chat_reply_job: it leaves the job row alone.
Claim(w, j) ==
    /\ Free(w)
    /\ Claimable(j)
    /\ queue' = [queue EXCEPT ![j] = [@ EXCEPT !.worker = w, !.lock = "live",
                                               !.attempt = queue[j].attempt + 1]]
    /\ active' = [active EXCEPT ![w] = TRUE]
    /\ tasks' = tasks \cup {[job |-> j, worker |-> w,
                             attempt |-> queue[j].attempt + 1, pc |-> "claimed"]}
    /\ claims' = [claims EXCEPT ![j] = @ + 1]
    /\ UNCHANGED <<job, process, signals, replies, resumes, strayed, overlapped>>

\* The claim throws: processOne ends with active still set.
ClaimThrows(w) ==
    /\ Free(w)
    /\ active' = [active EXCEPT ![w] = TRUE]
    /\ UNCHANGED <<job, queue, tasks, process, signals, replies, claims, resumes, strayed, overlapped>>

\* taskRegistry.register, executor.execute
Submit(t) ==
    /\ t.pc = "claimed" /\ process[t.worker] = "up"
    /\ tasks' = (tasks \ {t}) \cup {[t EXCEPT !.pc = "submitted"]}
    /\ UNCHANGED <<job, queue, active, process, signals, replies, claims, resumes, strayed, overlapped>>

\* loadRequest writes RUNNING whatever the status was.
LoadRequest(t) ==
    /\ t.pc = "submitted"
    /\ job' = [job EXCEPT ![t.job] = [status |-> "RUNNING", worker |-> t.worker,
                                      attempt |-> t.attempt]]
    /\ strayed' = IF queue[t.job].worker = t.worker THEN strayed ELSE strayed \cup {t.job}
    /\ tasks' = (tasks \ {t}) \cup {[t EXCEPT !.pc = "running"]}
    /\ UNCHANGED <<queue, active, process, signals, replies, claims, resumes, overlapped>>

\* The finally block of the task.
End(t) ==
    /\ tasks' = tasks \ {t}
    /\ active' = [active EXCEPT ![t.worker] = FALSE]

Complete(t) ==
    /\ t.pc = "running"
    /\ Holds(t)
    /\ job' = [job EXCEPT ![t.job].status = "SUCCEEDED"]
    /\ replies' = [replies EXCEPT ![t.job] = @ + 1]
    /\ Finish(t.job)
    /\ End(t)
    /\ UNCHANGED <<process, signals, claims, resumes, strayed, overlapped>>

\* Mutant: the requeue inserts, which V26 refuses to do.
InsertingRetry(t) ==
    /\ t.pc = "running" /\ t.attempt < MaxAttempts
    /\ job' = IF Holds(t) THEN [job EXCEPT ![t.job] = Released(@, "QUEUED")] ELSE job
    /\ queue' = [queue EXCEPT ![t.job] = IF @.listed THEN Unlocked(@) ELSE NewQueueRow]
    /\ End(t)
    /\ UNCHANGED <<process, signals, replies, claims, resumes, strayed, overlapped>>

\* requeue, when the AI server was not reached: the update of the job row is
\* guarded, that of the queue row is not and never inserts.
RetryLater(t) ==
    /\ t.pc = "running"
    /\ t.attempt < MaxAttempts
    /\ job' = IF Holds(t) THEN [job EXCEPT ![t.job] = Released(@, "QUEUED")] ELSE job
    /\ queue' = [queue EXCEPT ![t.job] = IF @.listed THEN Unlocked(@) ELSE @]
    /\ End(t)
    /\ UNCHANGED <<process, signals, replies, claims, resumes, strayed, overlapped>>

Fail(t) ==
    /\ t.pc # "claimed"
    /\ Holds(t)
    /\ job' = [job EXCEPT ![t.job].status = "FAILED"]
    /\ Finish(t.job)
    /\ End(t)
    /\ UNCHANGED <<process, signals, replies, claims, resumes, strayed, overlapped>>

\* complete and fail find no row that is still theirs, or cannot write at all.
Discard(t) ==
    /\ t.pc # "claimed"
    /\ End(t)
    /\ UNCHANGED <<job, queue, process, signals, replies, claims, resumes, strayed, overlapped>>

-----------------------------------------------------------------------------
(* Time, recovery and the life of a process *)

\* Fifteen minutes have passed since the claim; nothing renews the lock.
QueueLockExpires(j) ==
    /\ queue[j].lock = "live"
    /\ queue' = [queue EXCEPT ![j].lock = "expired"]
    /\ UNCHANGED <<job, tasks, active, process, signals, replies, claims, resumes, strayed, overlapped>>

\* Mutants: attempts compared off by one, with the next one and the one before.
LateExhausted ==
    {j \in Jobs : /\ Bypass /\ job[j].status \in Open /\ queue[j].listed
                  /\ queue[j].attempt > MaxAttempts /\ queue[j].lock # "live"}
EarlyAbandoned ==
    {j \in Jobs : /\ queue[j].listed /\ queue[j].attempt + 1 < MaxAttempts
                  /\ queue[j].worker # NoWorker /\ queue[j].lock = "expired"}

\* Row security hides the job rows of every user from an owner without BYPASSRLS.
Exhausted ==
    {j \in Jobs : /\ Bypass /\ job[j].status \in Open
                  /\ queue[j].listed /\ queue[j].attempt >= MaxAttempts
                  /\ queue[j].lock # "live"}

\* The queue rows whose lock ran out with attempts left.
Abandoned ==
    {j \in Jobs : /\ queue[j].listed /\ queue[j].attempt < MaxAttempts
                  /\ queue[j].worker # NoWorker /\ queue[j].lock = "expired"}

\* recover_stale_auxiliary_ai_jobs
Recover ==
    /\ \E w \in Workers : process[w] = "up"
    /\ job' = [j \in Jobs |->
         IF j \in Exhausted THEN Released(job[j], "FAILED")
         ELSE IF Bypass /\ j \in Abandoned /\ job[j].status = "RUNNING"
              THEN Released(job[j], "QUEUED")
         ELSE job[j]]
    /\ queue' = [j \in Jobs |-> IF j \in Exhausted THEN NoQueueRow
                                ELSE IF j \in Abandoned THEN Unlocked(queue[j])
                                ELSE queue[j]]
    /\ UNCHANGED <<tasks, active, process, signals, replies, claims, resumes, strayed, overlapped>>

Alive == {v \in Workers : process[v] \in {"up", "stopping"}}

StartProcess(w) ==
    /\ process[w] = "new"
    /\ Overlap \/ Alive = {}
    /\ process' = [process EXCEPT ![w] = "up"]
    /\ overlapped' = (overlapped \/ Alive # {})
    /\ UNCHANGED <<job, queue, tasks, active, signals, replies, claims, resumes, strayed>>

\* Mutants: an interrupt that hands every row an attempt back; one that only
\* knows the queue.
GenerousInterrupt(w) ==
    /\ UNCHANGED job
    /\ queue' = [j \in Jobs |-> [Unlocked(queue[j]) EXCEPT !.attempt = queue[j].attempt - 1]]
QueueOnlyInterrupt(w) ==
    /\ UNCHANGED job
    /\ queue' = [j \in Jobs |-> IF queue[j].worker = w THEN Unlocked(queue[j]) ELSE queue[j]]

\* interrupt_auxiliary_ai_jobs hands the attempt back.
Interrupted(w) ==
    /\ job' = [j \in Jobs |->
         IF Bypass /\ job[j].status = "RUNNING" /\ job[j].worker = w
         THEN Released(job[j], "QUEUED") ELSE job[j]]
    /\ queue' = [j \in Jobs |->
         IF queue[j].worker = w
         THEN [Unlocked(queue[j]) EXCEPT
                 !.attempt = IF queue[j].attempt > 0 THEN queue[j].attempt - 1 ELSE 0]
         ELSE queue[j]]

\* A new process follows this one.
Replaced(w) == \E v \in Workers \ {w} : process[v] \in {"new", "up"}

\* shutdown: the interrupt, which may fail, then cancelAll and shutdownNow; a
\* task that runs is interrupted but may get on until the process is gone.
Shutdown(w) ==
    /\ process[w] = "up" /\ Replaced(w)
    /\ process' = [process EXCEPT ![w] = "stopping"]
    /\ Interrupted(w) \/ UNCHANGED <<job, queue>>
    /\ tasks' = {t \in tasks : t.worker # w \/ t.pc = "running"}
    /\ UNCHANGED <<active, signals, replies, claims, resumes, strayed, overlapped>>

\* The process is gone, after its shutdown or by a crash.
Vanish(w) ==
    /\ \/ /\ process[w] = "stopping"
          /\ process' = [process EXCEPT ![w] = "stopped"]
       \/ /\ process[w] = "up" /\ Replaced(w)
          /\ process' = [process EXCEPT ![w] = "crashed"]
    /\ tasks' = {t \in tasks : t.worker # w}
    /\ signals' = {s \in signals : s.worker # w}
    /\ UNCHANGED <<job, queue, active, replies, claims, resumes, strayed, overlapped>>

-----------------------------------------------------------------------------
Ends(t) == Complete(t) \/ RetryLater(t) \/ Fail(t) \/ Discard(t)

Executing(t) == Submit(t) \/ LoadRequest(t) \/ Ends(t)

User == \/ \E j \in Jobs : Enqueue(j) \/ Retry(j)
        \/ \E w \in Workers, j \in Jobs : Cancel(w, j)

Polling(w) == ClaimThrows(w) \/ \E j \in Jobs : Claim(w, j)

Lifetime(w) == StartProcess(w) \/ Shutdown(w) \/ Vanish(w)

Next ==
    \/ User
    \/ \E s \in signals : Signal(s)
    \/ \E w \in Workers : Polling(w) \/ Lifetime(w)
    \/ \E t \in tasks : Executing(t)
    \/ \E j \in Jobs : QueueLockExpires(j)
    \/ Recover

Spec == Init /\ [][Next]_vars

\* Polling and recovery are fixed-delay schedules, the executor runs what it is
\* given, a call of the AI server times out, time passes, and a process that is
\* gone is started anew.
Fairness ==
    /\ \A w \in Workers :
         /\ WF_vars(\E j \in Jobs : Claim(w, j))
         /\ WF_vars(\E t \in tasks : t.worker = w /\ (Submit(t) \/ LoadRequest(t)))
         /\ WF_vars(\E t \in tasks : t.worker = w /\ t.pc = "running" /\ Ends(t))
         /\ WF_vars(StartProcess(w))
         /\ WF_vars(process[w] = "stopping" /\ Vanish(w))
    /\ \A j \in Jobs : WF_vars(QueueLockExpires(j))
    /\ WF_vars(Recover)

FairSpec == Spec /\ Fairness
-----------------------------------------------------------------------------
(* What must hold *)

Shutdowns == {w \in Workers : process[w] \in {"stopping", "stopped"}}

\* Between two retries of its user a job is sent to the AI server at most
\* MaxAttempts times, and once more for each orderly shutdown, which hands an
\* attempt back; V26 keeps the late requeue of a job from starting a new count.
AttemptBudget ==
    \A j \in Jobs :
        claims[j] <= MaxAttempts * (resumes[j] + 1) + Cardinality(Shutdowns)

\* While one process replaces another, a message is answered once, in spite of
\* cancellations, retries, crashes and the jobs that loadRequest revives.
AnsweredOnce == overlapped \/ \A j \in Jobs : replies[j] <= 1

\* V5: a message is not taken up while an earlier one of its conversation is
\* open, unless that one was opened again by its user or by a stray task.
ConversationOrder ==
    \A j \in Jobs : \A i \in Earlier(j) :
        claims[j] > 0 /\ job[i].status \in Open => resumes[i] > 0 \/ i \in strayed

\* While one process replaces another and recovery sees the rows, a RUNNING job
\* has the queue row that recovery needs, unless loadRequest started it for a
\* task that a cancellation had already taken off the queue.
RunningCanBeRecovered ==
    \A j \in Jobs : job[j].status = "RUNNING" =>
        \/ queue[j].listed /\ queue[j].worker = job[j].worker /\ queue[j].lock # "none"
        \/ j \in strayed
        \/ overlapped

\* ASYNC-001: so it ends or goes back to the queue although its process was
\* killed.  Where the functions' owner obeys row security it does not.
RunningEnds ==
    \A j \in Jobs : job[j].status = "RUNNING" ~>
        job[j].status # "RUNNING" \/ j \in strayed

\* The flag of a process that runs nothing is set for good.
Jammed(w) == process[w] = "up" /\ active[w] /\ \A t \in tasks : t.worker # w

\* A queued job is taken up, cancelled or closed in the end; the exceptions are
\* a worker that jammed and a conversation blocked by a stray task.
QueuedIsServed ==
    \A j \in Jobs : job[j].status = "QUEUED" ~>
        \/ job[j].status # "QUEUED"
        \/ \E w \in Workers : Jammed(w)
        \/ \E i \in Earlier(j) \cup {j} : i \in strayed

-----------------------------------------------------------------------------
(* What the documents say and the code does not do *)

\* D041: no worker, recovery or restart makes a cancelled job QUEUED or RUNNING.
CancelledStaysCancelled ==
    [][\A j \in Jobs : /\ job[j].status = "CANCELLED"
                       /\ job'[j].status # "CANCELLED"
                       => resumes'[j] > resumes[j]]_vars
=============================================================================
