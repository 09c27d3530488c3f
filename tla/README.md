# A verification project for JOBIS

JOBIS turns job postings and the records of a career into an analysis of fit, a conversation, a
roadmap and assessments. The browser talks to a Spring backend (`src/backend`), which keeps
everything in PostgreSQL and does its long work in *queues*: a row in a job table says what the
user sees, a row in a queue table says who works on it. The workers call an AI service over HTTP
(`src/AI`), which runs the career pipeline, the assistant with its agents, and the judgement engine. Postings
come from crawlers (`src/DATA`) and a search index (`src/RAG`). This directory holds TLA+ models of these parts, the TLC
runs that check them on small instances, and proofs for all instances that TLAPS checks.

* [Inventory](#inventory) of the system and where it is hard
* [Modules](#modules) and how they correspond to the code
* [Runs](#runs), their bounds and what they show
* [Fairness](#fairness)
* [Proofs](#proofs)
* [Disagreements between code and documents](#disagreements-between-code-and-documents)
* [What the code does not keep](#what-the-code-does-not-keep)
* [Limits](#limits): abstractions, what is only model-checked, what is not modelled
* [Plan](#plan)

Java paths below leave out `src/backend/src/main/java/com/jobiss/`, `V*.sql` lies in
`src/backend/src/main/resources/db/migration/`, and Python paths leave out `src/AI/src/jobis_ai/`
unless they begin with `DATA` or `RAG`.

## Inventory

| part | state it keeps | operations | what makes it correct |
|---|---|---|---|
| analysis queue: `analysis/AnalysisJobService`, `AnalysisWorker`, `v3/V3AnalysisJobProcessor`, V1, V60, V76 | `analysis_jobs`, `analysis_job_queue`, `analysis_questions`, `ai_v3_analysis_runs` | submit, retry, cancel, answer; claim, begin, progress, pause, complete, fail; recover, interrupt | the two tables agree; attempts are bounded; an execution that lost its job changes nothing; a cancelled job stays so until its user retries; everything queued is served |
| chat reply queue: `conversation/ChatReplyJobService`, `ChatReplyWorker`, `ChatReplyTaskRegistry`, V4, V26, V40, V73 | `chat_reply_jobs`, `chat_reply_job_queue`, the flag `active` and the task registry of each process | enqueue, retry, cancel; claim, load, complete, requeue, fail; recover, interrupt | replies come in the order of their messages, once each; attempts are bounded; nothing stays RUNNING |
| career and evidence queues: `career/repository/`, `evidence/`, V4, V40 | sources with fragments, evidence, their queue rows | as for replies, with a review by the user | nothing waits without a row; what the user confirmed stands; progress rests on evidence |
| career pipeline: `career_pipeline/`, `analysis/v3/` | the structure of a posting, its lease and cache, answers, the run of a job | discover, resolve, detail, review, plan, normalize, match, compose; pause, answer, cancel, retry | planned from what the user confirmed; no answer is stale; a run ends as cancelled only by a call of cancel that came while it ran |
| posting sources and their reading: `career_pipeline/source`, `interpretation` | segments, snapshots, drafts of a model | fetch, read tiles, call readers, repair, validate | nothing that was read is lost, nothing is invented |
| capability graph, planning, fit: `career_pipeline/capability_graph`, `project_planning`, `normalization`, `fit` | releases; requests and results | load, query; compile; match, ask, assess | closures are right, no requirement is forgotten, more evidence never hurts |
| roadmap versions: `analysis/v3/V3RoadmapService`, `V3RoadmapCompiler`, `career_pipeline/roadmap` | drafts, versions, proved capabilities | propose, compile, apply, cancel, restore, reset | a removal takes what it names and no more; what was proved stays proved |
| chat turn: `orchestrator/`, `v2bridge/service.py` | the session of a conversation | plan, run agents, observe, ask consent, deliver | heavy work only when asked; consent is remembered; the backend keeps what the turn changed |
| chat output: `v2bridge/service.py`, `ChatReplyWorker` | products, actions, facts | assemble, bind, store | an action without consent is bound to what was asked |
| loops of the agents: `agents/` | drafts, interview, preferences | a bounded loop of tools | the loop ends; a draft shown is the draft verified |
| analysis behind the v2 contract: `v2bridge/`, `role_catalog.py` | answers, a session per job, the progress stream | analyze, ask, finalize; stage, heartbeat | questions end; the stream is alive within its budget |
| judgement engine: `graph/`, `gap_matcher.py`, `grade_*.py` | the state of one run | read, compare, retry, grade, schedule | the grade agrees with the judgements |
| model calls and the Codex session: `structured.py`, `codex_*` | attempts, usage; the token file | request, repair, retry; refresh, save, log in and out | retried with a reason, accounted unless cancelled; the session survives refreshes that do not meet or fail |
| web bridge: `webbridge/` | a thread per analysis, a store of reports | start, ask, answer, close, recall | each analysis ends once, with its own report |
| crawlers, OCR, index, search: `DATA/`, `RAG/` | site files, `job_postings`, chunks | collect, merge, load, read, embed, search | what was collected stays unless its file is cut off; what can be read is read; an answer fits its question |
| assessment: `assessment/CompetencyAssessmentService` | sessions, questions, scores | start, answer, finish | both sides decide alike; a verified level was earned |
| conversations, sessions and tokens, accounts, usage limits, notifications, administration, frontend, deployment | | | not modelled, see `PROJECT.json` |

**Interaction.** Web requests and workers meet in the database only, each in transactions of
`db/RlsTransactionExecutor`; the task registries live in the memory of one process, so that a cancellation served by
another process does not interrupt the thread. Several backend
processes may run. A worker claims a job in one transaction, calls the AI service for minutes without one,
and comes back with a result in another. The AI service keeps sessions and registries in memory and is sent
what it needs with every request; the career pipeline of one job never sees another job except through what the backend
shares of a posting. Crawlers hand files to a database, workers and an index read it.

**Hard behaviour.** Late results after cancel, retry, recovery and a second claim; a process killed
or stopped between any two steps; locks renewed in one table and not in the other;
attempt counters copied between two tables, one of which is deleted and inserted again; limits
counted from a snapshot; the order of a conversation when several processes poll; a flag in memory
that must be given back on every path; a posting's structure shared by jobs that are each in a dialogue with their own user; a token file
refreshed by several threads; a model that may return anything, between rules that promise something
about the result; version after version of a roadmap. `PROJECT.json` lists each hazard at its line, with the
property that watches it or the reason why none does.

## Modules

Four groups, each with modules for its components and one that puts instances of them together for
TLC. In a *composite* (`MCAssistant`, `MCCareerAnalysis`, `MCAgents`, `MCServices`) the variable `part` chooses one component in
the first state, and the behaviour is one of that component; the components of a composite share no state. What one hands to the next
is a choice of the next one's first state, over small sets.

| module | what it models |
|---|---|
| `AnalysisJobs` | the analysis queue: state, actions, fairness, properties |
| `JobLifecycle` | the documented life of a job; abstract specification of `AnalysisJobs` |
| `ChatReplyJobs` | the chat reply queue |
| `CareerPipeline` | the career analysis of one posting by several jobs, with the backend around it |
| `SourceAcquisition`, `PostingInterpretation` | how a posting's text is obtained; what may be said of it |
| `CapabilityGraph`, `CareerPlanning` (extends it) | releases and queries; from a position to a project and a roadmap proposal |
| `CareerFit` | the match of evidence with requirements, and the questions |
| `AgentPlan`, `ChatTurn` (extends it) | plans and observation rules; the turns of a conversation |
| `AnalysisBridge`, `AnalysisStream` | one analysis behind the v2 contract; its progress stream |
| `CompetencyProposal`, `JudgementGraph` | what a map is made of; the judgement engine |
| `ModelCalls`, `CodexSession` | requests to a model; the token file |
| `AgentLoop`; `CoverLetter`, `InterviewPractice`, `PreferenceIntake` (extend it) | the loop of an agent; three agents |
| `WebBridge`, `WebReport` | the connection and its workers; the report |
| `PostingCrawl`; `PostingIntake`, `DailyUpdate` (use it) | one crawler; the table and its OCR workers; the run of a day |
| `PostingIndex`, `PostingSearch` | the index and its writers; a search and its advice |
| `ChatOutput` | what is made and kept of an answer |
| `RoadmapVersions` | the roadmap of a user, version by version |
| `CompetencyAssessment`, `CareerEvidence` | assessments; sources and evidence with their queues |
| `MC...` | instances for TLC |
| `AnalysisJobsProofs`, `ChatReplyProofs`, `CareerProofs`, `CareerEvidenceProofs` | theorems about a component, for all its constants |
| `AssistantProofs`, `AgentsProofs`, `ServicesProofs`, `CareerAnalysisProofs` | theorems about the parts of a composite |

### The queues

One action is one transaction. In `AnalysisJobs`, `job` and `queue` are the two tables with the columns that decide
anything (status, worker, lock, attempts); `run` is the revision and state of `ai_v3_analysis_runs`;
`pending` the jobs with a PENDING question; `threads` the executions alive in some process, each with the claim that started it, the run revision it was
given and whether a question was open when it began; `claiming` what a claim statement has seen.

* `claim_analysis_job` is split into `Snapshot`, `LockUsers` and `Claim`: under READ COMMITTED the
  statement judges by a snapshot taken before `pg_try_advisory_xact_lock` succeeds.
* `LoadRequest` (LEGACY) and `BeginRun` (UNIFIED) start an execution; `RecordProgress`,
  `PauseForQuestion`, `Complete` and `Fail` are its further transactions, each behind the fence the code has: `CurrentWorker`
  is `requireCurrentWorker`, `CurrentRun` is `requireCurrentRun`.
* A cancelled execution that its executor had not started never runs its finally block, so that its slot is lost (`CancelUnstarted`, the
  counter `activeAnalyses`); a process all of whose slots are lost is `Jammed` and polls no more.
* Time is in two actions, `QueueLockExpires` and `JobLockExpires`; there is no clock.
* `Recover` may skip rows others have locked. `Interrupt` and `Stop` are an orderly shutdown, `Stop` alone is a crash. Worker ids carry a fresh
  UUID, so a restarted process is a new element of `Workers`.

In `ChatReplyJobs`, `tasks` is the task of each process between the claim and the end of its
finally block, `active` the flag that keeps a process from polling, `signals` the calls of `taskRegistry.cancel` that follow the transaction of a cancel. The job row becomes RUNNING in `LoadRequest`, a transaction after the claim and without a look at its status.
Two constants describe a deployment. `Bypass`: does the owner of the V40 functions bypass
row security? It does with the superuser of `compose.yaml`, and does not with the roles that
`src/ops/bootstrap-jobis-v2-database` creates. `Overlap`: may a new process start while another still
lives? `strayed` and `overlapped` are history: they name the exceptions without which a property would be false.

`CareerEvidence` has the two other queues with one set of actions for what they share (`Claim`, `Expire`, recovery, `Crash`, `Shutdown`) and
`Extract`/`Verify` for what differs; `strayed` again holds what a worker went on with after it had lost it.

### The career analysis

`CareerPipeline` keeps a row per job (`job`: status, what it structured, answers, confirmation, questions), a row per run of the AI service (`run`: stage, structure, position, track, plan, stages shown, outcome), the
`cache` and `lease` of the posting, and the registry of `cancellation.py`: `cancelled` marks, and `abandoned` runs that a retry left behind.
Each stage of `AnalysisPipelineService.run` is an action whose outcomes are what its code path allows; `Deliver` is the whole of the
processor's reaction, `Pause`, completion or failure. The other modules of the group are functions of a request where the code is (fit, planning): the state is what the user
adds between two calls, and the choices are the drafts a model may return, over small sets that contain the
irregular ones: truncated identifiers, uncited items, cyclic relations, contradictory claims.

### The assistant, the agents, the services

`ChatTurn` has a session that is copied at the start of a turn and written at its end, the turn in progress, and what the backend keeps; agents are steps
with the assets they read and write. `JudgementGraph` runs supersteps: nodes that are due together see the same state, and their updates are merged as `merge_dicts` does.
`AnalysisStream` separates the engine's thread, the queue and the builder with its budget; `Observe` is the look at the plan after a batch, which shows its last agent at work once more.
`CompetencyProposal` cuts competencies and requirements off at their limits, as `mapping.py` does, before the contract is applied. In `ModelCalls` a turn may be cancelled at any time; what was sent is then cut off. `CodexSession` has the bytes of the token file and of the temporary file as sequences, so that
an interleaved write leaves what it leaves; an answer to a refresh may be lost or have no token, and a write may fail. `WebBridge` has the worker thread, the answer channel with late answers, and the store with its fallback.
`PostingIntake` and `DailyUpdate` crash between any two statements that commit. Files are written in place: each write of `DailyUpdate` may be cut off (`cut`), and nothing in the code repairs
such a file; who reads it fails. `met` and, in `PostingIndex`, `back` are history, as `mishap` is in `CodexSession`.
`PostingIndex` has three ways of writing: `run_ingest_additive.py`, `run_embed.py`, which replaces, and `run_rechunk_stale.py`. `ChatOutput` runs up to three agents of a plan at a time. `RoadmapVersions` compiles as both compilers
do (`compiler_reference.py`, `V3RoadmapCompiler`), on graphs of capabilities with prerequisites.

## Runs

| run | instance | checks |
|---|---|---|
| `analysis_one` | 1 UNIFIED job, 2 processes, 2 attempts, 2 resumes, 1 question | `TypeOK`, `QueueMatchesStatus`, `AttemptBudget`, `WaitingCanBeAnswered`, `RunCompletedIffSucceeded`, `CancelledRevivedOnlyByUser`, `ForeignExecutionFenced`, `LifecycleSpec` |
| `analysis_live` | 2 jobs of one user, one of each kind, 2 processes, 1 slot each that a cancellation may take, fairness | `QueuedIsServed`, `RunningEnds` |
| `chat_order` | 2 messages of a conversation, 2 overlapping processes, 1 retry | `TypeOK`, `AnsweredOnce`, `RunningCanBeRecovered`, `ConversationOrder` |
| `chat_live` | 2 messages, a process and its successor, 2 attempts, fairness | `AttemptBudget`, `RunningEnds`, `QueuedIsServed` |
| `career` | 2 jobs of a posting, or 1 with 2 retries; 12 kinds of source, graphs of 4 capabilities, plans, fits | `EachJobIsAsAsked`, `EachGraphAnswersRightly`, `EachPlanIsComplete`, `EachFitIsConsistent`, `EachReadingIsFaithful`, `EachFitOnlyGains`, `EachRefusedAfterEveryReader` |
| `assistant` | turns of a conversation, an analysis with 3 questions, a stream of 9 events, a proposal within and beyond its limits, an engine run | `EachVerdictIsTold`, `EachAgentMayRun`, `EachTurnIsKept`, `EachPathIsSettledByTheUser`, `EachStreamIsAliveAndBounded`, `EachProposalIsAccepted`, `EachJudgementIsSound` |
| `agents` | 4 providers with 3 attempts and a cancellation, 2 threads on the session, 3 agents with 2 to 4 steps, 2 analyses of the web | `EachAccountIsHonest`, `EachSessionSurvives`, `EachAgentKeepsToItsLoop`, `EachTurnDelivers`, `EachReportIsEarned` |
| `services` | 2 or 3 postings on 1 or 2 sites, one daily run, or two on one posting, 2 workers, 2 imports of old postings, 3 index scripts with 2 writers, 2 conversations with batches of up to 3 agents, 3 roadmap versions, 4 questions, 1 source, 1 piece of evidence | `EachStageIsWhole`, `EachStepKeeps`, `EachAnswerIsBound`, `EachVerdictIsEarned` |
| `analysis_lateresult` | 1 job, 1 process | refutes `LateResultDropped` |
| `analysis_slots` | 3 jobs of one user, 2 slots, 2 processes | refutes `UserSlotsRespected` |
| `chat_cancelled` | 1 message, 1 process | refutes `CancelledStaysCancelled` |
| `career_shared` | 2 jobs of a posting of 2 positions | refutes `ReviewedPositionIsInterpreted` |

The properties of a composite run are the conjunctions, by part, of the properties that the component's module states; each is
named and explained there.

**Bounds.** `MaxAttempts` is 3 in the code and 2 in most runs: with 2 an attempt can be lost, repeated
and be the last one (`chat_order`, whose subject is the order, has 1). Two processes suffice for the races of one job, because a job has one owner and what matters is
the owner and one other. `MaxResumes` and `MaxRetries` bound the user; two resumes allow an execution to survive a cancel, a retry and a further claim.
Three jobs are the least that exceed a limit of two. Two jobs are enough to disturb each other through the cache and the lease of a posting; the
one that is retried twice meets runs of its own that were left behind. The limits of the AI service are smaller than in the code, by the same ratio of what is normal to what is too much: 9 events for 60, 2 facts for 20,
3 candidates for 30. The inputs of the pure parts contain each branch of the code at least once; every action of every module fires in some run.
Workers and jobs are symmetric in the safety runs of the queues, writers of the index in `services`, which states no liveness; runs of liveness use no symmetry. The composite runs switch the deadlock check off,
because their parts come to an end (an analysis is done, an engine has judged); the queues do not, recovery is always enabled there.

Each property of a passing run has at least one mutant in `PROJECT.json`, a plausible error in one
definition that TLC finds through that property. The mutants stand before the definition they change.

## Fairness

Weak fairness, of what the code schedules itself: polling (`@Scheduled` with a fixed delay; each of
the steps of a claim), the next step of an execution (the AI client has timeouts, so every call
returns), the passing of time, recovery (run by each poll), and the start of another process
when one is gone (the restart policy of the deployment). Nothing is assumed of the user, of crashes, or of which way an
execution ends. In the chat module the flag `active` is part of the guard, in that of the analyses the number of slots taken: a process whose flag was
left set, or whose slots are all lost, is not polling any more and fairness does not help it. The composites state no liveness: their parts end because each
step uses up something bounded, or wait for a user.

## Proofs

TLAPS proves, for all values of the constants that satisfy the modules' assumptions (which TLC evaluates on every run):

| theorem | module | property |
|---|---|---|
| `TypeCorrect` | `AnalysisJobsProofs` | `TypeOK` |
| `InvHolds` | `AnalysisJobsProofs` | the inductive invariant `Inv` |
| `TablesAgree`, `AttemptsBounded`, `CancelledStays` | `AnalysisJobsProofs` | `QueueMatchesStatus`, `AttemptBudget`, `CancelledRevivedOnlyByUser` |
| `ImplementsLifecycle` | `AnalysisJobsProofs` | `LifecycleSpec`: the queue implements `JobLifecycle` |
| `SlotsBounded` | `AnalysisJobsProofs` | `UserSlotBound`: what does hold of the limit per user |
| `WaitingAnswerable`, `CompletedHasSucceeded`, `ForeignFenced` | `AnalysisJobsProofs` | `WaitingCanBeAnswered`, `RunCompletedIffSucceeded`, `ForeignExecutionFenced` |
| `TypeCorrect`, `AttemptsBounded`, `OrderKept` | `ChatReplyProofs` | `TypeOK`, `AttemptBudget`, `ConversationOrder` |
| `AnsweredAtMostOnce` | `ChatReplyProofs` | `AnsweredOnce` |
| `RecoveryFindsRunning` | `ChatReplyProofs` | `RunningCanBeRecovered`, where `Bypass` |
| `StreamsAreAliveAndBounded` | `AssistantProofs` | `EachStreamIsAliveAndBounded` |
| `PathsAreSettled` | `AssistantProofs` | `EachPathIsSettledByTheUser` |
| `VerdictsAreTold` | `AssistantProofs` | `EachVerdictIsTold`, also where turns run on beside one another |
| `TurnsAreKept` | `AssistantProofs` | `EachTurnIsKept`, where no turn begins beside an abandoned one (`~Overlap`) |
| `SessionsSurvive` | `AgentsProofs` | `EachSessionSurvives`, while no refresh has met another or failed (`mishap`) |
| `AgentsKeepToTheirLoops` | `AgentsProofs` | `EachAgentKeepsToItsLoop` |
| `TurnsDeliver` | `AgentsProofs` | `EachTurnDelivers` |
| `ReportsAreEarned` | `AgentsProofs` | `EachReportIsEarned` |
| `CareerIsProven`, `ConfirmedStands` | `CareerEvidenceProofs` | `NothingIsForgotten`, `FragmentsAreReviewed`, `ProgressIsProven`; `ConfirmedStandsStep` |
| `VerdictsAreEarned` | `ServicesProofs` | `EachVerdictIsEarned` |
| `IndexIsWhole` | `ServicesProofs` | `OneSpace`, `WindowsKeepEachOther` of `PostingIndex` |
| `PostingsAreKept` | `ServicesProofs` | `UnreadCanBeRead`, `TextsAreKept` of `PostingIntake` |
| `CareerAsAsked` | `CareerProofs` | `PlannedAsConfirmed`, `NoStaleAnswer`, `CancelOnlyWhatWasAsked` |
| `CareerIsToldAndBounded` | `CareerProofs` | `StagesTellOutcome`, `QuestionsSuffice` |
| `JobsAreAsAsked` | `CareerAnalysisProofs` | `EachJobIsAsAsked` |

*The analysis queue.* `QueueMatchesStatus` is not inductive alone: that a claim
keeps `queue.attempt = job.attempt` needs the relation between attempts used, claims made and resumes granted, and that an execution
finds its row needs the relation between status and worker. `Inv` adds those. Each action touches the rows of one job,
or maps each job separately (`Recover`, `Interrupt`); the lemmas `Shape...` say what one
step can do to the rows of one job, and that every shape keeps the invariant of one
job is a single lemma (`ShapeKeepsJobInv`); the refinement of `JobLifecycle` reuses the shapes.
For the slots, the invariant bounds the RUNNING jobs of a user plus the
processes that hold a snapshot naming one of that user's jobs; that sum grows only when a snapshot is taken,
and then there is room.

*Replies.* The attempts claimed for a job are not bounded by the column `attempt`: an
orderly stop hands one back, a resume starts a new row. `Inv` therefore bounds the claims of a job by
`Granted`, the attempts of its first request and of its resumes, plus `HandedBack`, the number of processes that
stopped in order, less what the queue row has left. The order of
answers follows: a message overtakes an earlier one only if that one was resumed or strayed, and
neither mark is ever taken back. `AnsweredOnce` and `RunningCanBeRecovered` speak of the time while no two processes have lived together (`overlapped`) and need a further invariant, `AloneInv`:
then every task belongs to the one process that lives, a queue row that has a worker is listed and has a lock
(`LockInv`), a job with a task that may still write its answer has not been answered since it was last sent (`AnsweredInv`), and an unstrayed RUNNING job is owned by that
process or can be found by recovery (`OwnerInv`, `RecoverableInv`). The hypothesis `Bypass` of `RecoveryFindsRunning` is a deployment; without it the property is false.

*The stream.* `StreamInv` relates what was declared, what was sent and what is still in the queue: the last stage is repeated, unless the
sequence has reached the budget, and the stage of an agent on the screen is that of the engine, or was set back by an observation whose update came after its end (`setBack`).

*The bridge.* `BridgeInv` says of every question that was asked that it was answered, but for the one that waits, and of each answer that it
belongs to its question. How many questions are left is counted by the options the posting offers, which are therefore finite (`BridgeFits`);
so a posting for several paths is decided without the user only when no question is left.

*The turns.* A verdict carries a ghost, `keyed`: was it written together with its key? `TurnsInv` says that in every session, and in every set of changes
on its way into one, the key and the analysis belong together (`Keyed`). That is closed under laying changes over a session (`KeyedOverKeyed`) and, less obviously, under merging the
changes of a batch that ran in parallel: there the analysis and the key are written by different agents, and of the two the last writer counts, by the order of the
plan; the greatest position of a finite set is found by well-founded induction. `Alone` is for what is kept of a turn: when a turn does not begin beside an abandoned one,
at most one is not at rest, and the session is the one it was given until it writes its changes. Without `~Overlap` that is false: the thread of
an abandoned turn runs on, and writes what it has over what the next turn wrote.

*The session.* `SessionInv` has a part that holds always (`RequestInv`: what a request in hand may do next, and that a refused one is not sent a second time)
and one that holds as long as nobody saves beside another (`~mishap => FileInv`): who saves has the temporary file for himself, and the file is the text of a
pair the service accepts, unless its successor is on the way. `mishap` is the weakness of the code: two refreshes of separate threads share one
temporary file and one refresh token, and a refresh whose answer is lost, has no token or cannot be written costs the token it sent. The bounded instance admits a second pair after a mishap, so that what follows one is explored too.

*The career pipeline.* The heart of `CareerInv` is `Structured`: what a job has answered fits what it has structured (each question once, with what was offered, nothing that it
does not ask), and the run of a job works on a structure of the same positions. It is kept although the jobs share a cache, because a job with answers
has a structure of its own, which comes before the cache (`Checkpoint`), and details never change the positions. A late cancel, an abandoned run and a
retry touch only marks. `StoryInv` adds for the progress shown (`Shown`) which stages are settled before each
point of a run, so that the way it ends says how they end; and for the questions (`Kept`, `Limited`) that what was asked belongs to what is structured: at most one
question of each kind beside one question per piece of evidence. A review is asked about once, because what it shows is
a function of the structure, the position and the track.

*The assessment.* `AssessmentInv` keeps the sessions of a user in order (only the last can be open), the requests of a session in the order of its questions,
and relates each kept score to an answer that was given before it, so that a verified level has the answers it is said to rest on.

*Sources and evidence.* The heart of `EvidenceInv` is that a worker which was not `strayed` owns the row it works on, and that what waits has a row
that is open; hence nothing is forgotten and a capability is held by verified evidence, as long as nobody strayed. That fragments come from one reading holds in any case,
because a source that is being read has none; that the reading is the one the user waits for does not hold (`OnlyItsReaderStores`).

*The index.* `IndexInv` says of every chunk of a posting that has always been in use (`AlwaysInUse`) that it is a vector of the model the profile names, and of every run (`RunFits`) what it may still write.
A posting that was taken out of use and came back is outside of it: nobody looked at its chunks when the model changed. The windows of an ingestion are disjoint in their postings, so that what one
removes is not what another wrote.

*The intake.* `IntakeInv` says of each row (`RowFits`) that it is at rest, held by a worker or can be claimed, in terms of what the crawler, the loader, the import and the trigger of the table may leave;
`Follows` is what one step may do to a row, proved for every action. A row is never left without a text, unclaimable and untried, unless it came without its images: then the trigger had called it dead, and the import that
fills the images leaves it so. A worker writes only while it holds the posting (`HoldsStill`), by its lease and by the images it read.

*The loops.* Each step of a loop adds one request to the model and one observation of a tool, which bounds both; of the
interview the questions asked stay in their order (`InOrder`), of the preferences the answers stay sorted and each slot is asked for once more at most.
What a turn delivers rests on what is kept being taken up again: a letter that was recorded is never emptied (`LetterInv`), what was practised goes on as a prefix (`GoesOn`),
and nothing a user named is taken back (`NothingTakenBack`). The strengths of a letter that is shown were restricted to sentences the person can prove, whichever way the loop ended.

*The web.* `AnalysisFits` relates the thread of an analysis, its connection and its session: who waits, for what, and that the end is told once. `StoreFits` says that the last report
stored is the newest, and the only one of its age; the store is a numbered set for that reason. A plan is whole because its routes come from `Routes` and every text is either written or a fallback.

*Composites.* The career pipeline and the evidence are proved in modules of their own, and a composite's property follows through an instance of the proof module with the same substitution: the
first state and every step of the composite's part are those of the instance (by definition), the
assumptions are proved of the constants, and the invariant carries over under `part = "..."`. The other components are proved about directly where they are composed. The
composite declares their constants and states their assumptions (`StreamFits`, `BridgeFits`, `SessionsFit`, `AgentsFit`, `WebFits`, `IntakeFits`, `IndexFits`), so the theorems hold for all values of them,
not for those of the run.

TLC checked each of these invariants on the instances of the runs before it was proved.

## Disagreements between code and documents

1. **A late result is stored** (`analysis_lateresult`). `requireCurrentRun`
   (`V3AnalysisJobProcessor.java:1106`) tells executions apart by worker id, which is that of the process. Cancel,
   retry and claim again in the same process, and the cancelled execution, still on its thread, can open the next
   run and store its answer (`docs/결정-기록.md:294`: "취소된 revision의 늦은 결과는 저장하지 않는다.").
   `ForeignExecutionFenced` shows that between *processes* the fence holds. The failure of such an execution closes the
   new attempt by the same gap (`AnalysisWorker.java:1653`).
2. **Two slots can become three** (`analysis_slots`). The comment of V60 says the advisory lock closes the
   race of the count; the count is read before the lock. `UserSlotBound` is what does hold.
3. **A cancelled reply runs again** (`chat_cancelled`). `loadRequest` does not look at the status
   (`ChatReplyWorker.java:200`), against D041 (`docs/결정-기록.md:524`).
4. **A review shows what nobody interpreted** (`career_shared`). The cache of a posting keeps the structure as it was detailed for
   the position one user selected; the job of another user, who selects a different position, is sent it as detailed (`V3AnalysisJobProcessor.java:1069`, D011).

## What the code does not keep

While modelling, these formulas turned out false of the code. Each is stated in its module with the reason, is checked by no
run, and proved nowhere. Comments of the code suggest most of them; the four runs above are the disagreements that matter most.

| formula | module | what the code does |
|---|---|---|
| `AnalysedAsChosen` | `AnalysisBridge` | the backend stores a game server path as a backend path, so that the analysis is made for another than the user chose |
| `AnalysisOfActiveAssets` | `ChatTurn` | a switch of the posting keeps the verdict made from the old one |
| `ReusedVerdictIsTheirs` | `ChatTurn` | a comparison replaces the analysis and leaves the key, so that after switching back the verdict on another posting is given as that of the active one; `EachVerdictIsTold` is what holds |
| `InputsPresent` | `ChatTurn` | an agent runs without its inputs when the posting could not be collected in this turn; `EachAgentMayRun` is what holds |
| `CancelEndsItsOwnAttempt` | `CareerPipeline` | the cancel of an attempt is sent after its transaction and names the job only: it may end the attempt a retry has begun since; `CancelOnlyWhatWasAsked` is what holds |
| `NoAgentLeftAtWork` | `AnalysisStream` | the observation after the last batch shows its last agent at work again, and nothing ends it; `WorkIsTold` is what holds |
| `LongProposalIsAccepted` | `CompetencyProposal` | beyond 100 competencies or 200 requirements what is left names what was cut off, and the contract refuses it |
| `EverythingSentIsAccounted` | `ModelCalls` | a request that is cancelled after it was sent is not accounted |
| `RequiredAtItsLevel` | `CompetencyProposal` | a required skill that was preferred before stays at the lower level |
| `LessUrgentYields` | `JudgementGraph` | what is too long for the schedule is passed over for something shorter and less urgent |
| `EachReportIsOwn` | `WebBridge` | a chat of the same user changes the posting of the session an analysis waits with |
| `GoalIsAhead`, `ApplyNowIsAllMet` | `WebReport` | a goal may lie below where one stands; to apply now is advised with a requirement uncertain |
| `NothingCollectedIsLost` | `DailyUpdate` | a write that is cut off leaves a file nobody can read, and of two runs one writes over what the other collected; `CollectedStays` is what holds |
| `OneRunAtATime` | `DailyUpdate` | two runs look for the lock file before either makes it |
| `NoneIsGivenUpUntried` | `PostingIntake` | an imported posting without images is dead, and stays so when a later import brings its images |
| `PassedOverWhileFull` | `PostingIntake` | the file of a site still counts as waiting what OCR has read since |
| `AllInUseInOneSpace` | `PostingIndex` | a posting that was out of use when the model changed comes back with the vectors it had |
| `OnlyOutdatedGoes` | `PostingIndex` | a run removes the chunks it has not embedded itself, unchanged ones too |
| `AskedWithinLimits` | `PostingSearch` | more is asked for than the server accepts, and the assistant's own postings answer |
| `FormalIsKept` | `PostingInterpretation` | repetitions are taken out before categories are refined, and a language requirement is lost |

Of the queues the code also does not keep these:

* The file of the Codex session loses its token when two refreshes meet, when the answer to one is lost or has no token, and when it cannot be written (`mishap` in `CodexSession`).
* A source or a piece of evidence that was cancelled and tried again while it was being read loses its queue row, and a late refusal takes the place of what was verified (`strayed` in `CareerEvidence`).
* The cancelled reading of a source stores its fragments in place of the ones the user waits for (`OnlyItsReaderStores` in `CareerEvidence`).
* A process whose tasks were cancelled before they began, once for each of its slots, polls for no more analyses (`AnalysisWorker.java:88`); `QueuedIsServed` of analyses is stated for the others.
* A reply that is worked on longer than fifteen minutes is claimed and answered a second time (`overlapped` in `ChatReplyJobs`).
* A reply of a killed process stays RUNNING with the roles of `src/ops` (`Bypass = FALSE`): V40 does not set `app.worker_context`, as V76 had to for analyses. A process whose `claim()` throws, or whose task is cancelled before its
  thread starts it, does not poll any more (`ChatReplyWorker.java:78`); `QueuedIsServed` of replies is stated for the others.

## Limits

*Abstractions.* Rows keep the columns that guards read. What a model answers is a choice. Transactions are atomic except for the claim of an analysis; skipped locks are a choice of subset.
A lock may expire at any time after it is taken: an over-approximation that can only add behaviours. A bounded number of processes is ever started, and the last one neither
crashes nor stops (`Replaced`), for a queue without processes promises nothing. The run of the turns has no turn beside an abandoned one (`Overlap = FALSE`). Parts of a composite are not
interleaved with each other, since they share no state.

*Bounded data.* The run of `RoadmapVersions` uses one release of the graph; with two, the union of what two versions brought in may
form a cycle, which both compilers refuse (V3_ROADMAP_CYCLE). Texts are sets or sequences of a few words.

*Only model-checked*, and why:

* liveness (`QueuedIsServed`, `RunningEnds`), which needs ENABLED and fairness: beyond the prover;
* what folds, `SelectSeq` and recursive functions compute for every input. That needs induction over data; where a formula is fixed, a least counterexample (`LeastNatural`) can stand in for it, and
  does in the proofs of the assessment and the turns, but not for an operator in general. Hence `EachGraphAnswersRightly`, `EachPlanIsComplete`, `EachFitIsConsistent`, `EachFitOnlyGains`, `EachReadingIsFaithful`, `EachRefusedAfterEveryReader`,
  `EachProposalIsAccepted` and `EachJudgementIsSound`, whose parts are such functions; `EachAgentMayRun`, whose plans are recursive (`PlanAt`) and filtered (`DropUnrunnable`); `EachAccountIsHonest`, which sums and concatenates;
  `EachAnswerIsBound`, `EachStageIsWhole` and `EachStepKeeps`, which sort, group and merge; of the last two the parts `index`, `intake` and `sources` are proved;
* the refutations.

*Not modelled*, with the reason in `PROJECT.json`: the interruption of threads by the analysis
worker, message intake, deletion of postings, conversations and accounts, sessions and refresh tokens, usage limits, notifications, administration, the
frontend, deployment, and the evaluation scripts of the search.

## Plan

1. Queues, their abstract specification and proofs: done.
2. The career pipeline, the assistant, the agents, the services: modelled. Proved: the pipeline, sources and evidence, the stream, the bridge, the turns, the session, the loops, the web, the assessment, the index, the OCR workers.
3. Next proofs, in this order: what the daily run keeps (`CollectedStays`); the binding of an answer (`AutomaticIsBound`); what an engine asks and how often it reads (`AskedInsteadOfJudged`, `ReadsAreBounded`).
4. Next components: message intake composed with the reply queue; rotation of refresh tokens.
