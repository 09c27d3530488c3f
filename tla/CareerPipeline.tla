-------------------------- MODULE CareerPipeline --------------------------
(***************************************************************************)
(* The career analysis of one posting by several jobs: what the backend    *)
(* sends (V3AnalysisRequestFactory, V3AnalysisJobProcessor), the stages of  *)
(* AnalysisPipelineService.run, what it stops for, and the registry        *)
(* (cancellation.py) through which a running analysis is cancelled.  The   *)
(* backend keeps what a job has structured, and shares it with the other   *)
(* jobs of the posting.  What the language model finds in the posting, the *)
(* graph and the career evidence are choices.                              *)
(***************************************************************************)
EXTENDS Naturals, Sequences, FiniteSets, SequencesExt, TLC

CONSTANTS
    Jobs, NoJob,
    MaxPositions,           \* positions a discovery finds
    Kinds,                  \* the experience kinds of an instance
    Requirements,           \* formal requirements a user may be asked about
    MaxDiscoveries,         \* bounds the discoveries of a behaviour
    MaxRetries,             \* bounds the retries of a job
    MaxEvidence             \* skipRemainingEvidenceQuestions: 3

ASSUME CareerBounds ==
    /\ NoJob \notin Jobs
    /\ {MaxPositions, MaxDiscoveries, MaxRetries, MaxEvidence} \subseteq Nat
    /\ Kinds \subseteq {"NEW_GRADUATE", "EXPERIENCE_REQUIRED", "RANGE",
                        "NEW_GRADUATE_OR_EXPERIENCED", "NO_RESTRICTION", "UNKNOWN"}

VARIABLES
    cache,          \* ai_v3_posting_structure_cache, one posting
    lease,          \* ai_v3_posting_structure_leases: owner and expiry
    job,            \* analysis_jobs, ai_v3_analysis_runs, analysis_questions
    run,            \* the attempt the worker of a job is in
    cancelled,      \* cancellation._cancelled
    abandoned,      \* jobs an earlier attempt of which still runs
    found           \* the discoveries made so far
vars == <<cache, lease, job, run, cancelled, abandoned, found>>

\* A structured posting: the discovery it stems from, the experience kind of
\* each position, and the one position whose duties were interpreted.
NoStructure == [version |-> 0, kinds |-> <<>>, detail |-> 0]
\* _is_discovery_checkpoint
IsDiscovery(s) == s.detail = 0

Stages ==
    {"POSITION_DISCOVERY", "AWAITING_POSITION_SELECTION", "AWAITING_EXPERIENCE_TRACK_SELECTION",
     "POSTING_DETAIL", "AWAITING_POSTING_CONFIRMATION", "PROJECT_PLANNING",
     "CAPABILITY_NORMALIZATION", "CAPABILITY_GRAPH_LOOKUP", "FIT_ANALYSIS",
     "AWAITING_USER_EVIDENCE", "ROADMAP_PROPOSAL", "RESULT_ASSEMBLY"}
WaitingStages ==
    {"AWAITING_POSITION_SELECTION", "AWAITING_EXPERIENCE_TRACK_SELECTION",
     "AWAITING_POSTING_CONFIRMATION", "AWAITING_USER_EVIDENCE"}
NoStages == [x \in Stages |-> "NONE"]

Tracks == {"NEW_GRADUATE", "EXPERIENCED"}
NoKey == <<"none", 0>>
PositionKey(s) == <<"position", Len(s.kinds)>>
TrackKey(p) == <<"track", p>>
NoReview == [version |-> 0, position |-> 0, track |-> "UNKNOWN", detail |-> 0]

NewJob ==
    [status |-> "NEW", own |-> NoStructure, answers |-> {}, confirmed |-> NoReview,
     asked |-> {}, settled |-> {}, active |-> NoKey, evidence |-> 0,
     retries |-> 0, telling |-> FALSE]
NewRun ==
    [pc |-> "off", structure |-> NoStructure, position |-> 0,
     track |-> "UNKNOWN", planned |-> NoReview, stages |-> NoStages,
     outcome |-> "NONE", ask |-> NoKey, told |-> FALSE]

-----------------------------------------------------------------------------
(* Resolving the posting: which position, which track *)

Answered(answers, key) == {a.value : a \in {b \in answers : b.key = key}}

\* A posting of several positions needs a choice; 0 if there is none.
PositionOf(s, answers) ==
    LET chosen == IF Len(s.kinds) = 1 THEN {1} ELSE Answered(answers, PositionKey(s))
    IN  IF chosen = {} THEN 0 ELSE CHOOSE p \in chosen : TRUE

KindOf(s, p) == IF p \in 1 .. Len(s.kinds) THEN s.kinds[p] ELSE "UNSPECIFIED"

\* A position for both kinds of applicants needs a second choice.
TrackOf(s, p, answers) ==
    CASE KindOf(s, p) = "NEW_GRADUATE" -> {"NEW_GRADUATE"}
      [] KindOf(s, p) \in {"EXPERIENCE_REQUIRED", "RANGE"} -> {"EXPERIENCED"}
      [] KindOf(s, p) = "NEW_GRADUATE_OR_EXPERIENCED" -> Answered(answers, TrackKey(p))
      [] OTHER -> {"UNKNOWN"}

\* What is asked of a posting; an answer to anything else is stale.
KeysOf(s, p) ==
    (IF Len(s.kinds) = 1 THEN {} ELSE {PositionKey(s)})
      \cup (IF KindOf(s, p) = "NEW_GRADUATE_OR_EXPERIENCED" THEN {TrackKey(p)} ELSE {})

\* PostingResolutionService.resolve. Only offered values are answers.
Resolve(s, answers) ==
    LET p == PositionOf(s, answers)
        valid == p \in 1 .. Len(s.kinds)
        track == TrackOf(s, p, answers)
        stale == \E a \in answers : a.key \notin KeysOf(s, p)
        Result(status, ask, t) == [status |-> status, ask |-> ask, position |-> p, track |-> t]
    IN  CASE p # 0 /\ ~valid -> Result("AMBIGUITY_UNRESOLVED", NoKey, "UNKNOWN")
          [] p = 0 /\ ~stale -> Result("AWAITING_ANSWER", PositionKey(s), "UNKNOWN")
          [] valid /\ ~stale /\ track = {} -> Result("AWAITING_ANSWER", TrackKey(p), "UNKNOWN")
          [] valid /\ ~stale /\ track # {} -> Result("READY", NoKey, CHOOSE t \in track : TRUE)
          [] OTHER -> Result("ANALYSIS_STALE_RESULT", NoKey, "UNKNOWN")

\* _posting_review: the id is a hash of all the user is shown.
Review(s, position, track) ==
    [version |-> s.version, position |-> position, track |-> track,
     detail |-> IF s.detail = position THEN position ELSE 0]

-----------------------------------------------------------------------------
(* The backend: the request of a run *)

With(row, changes) ==
    [f \in DOMAIN row |-> IF f \in DOMAIN changes THEN changes[f] ELSE row[f]]
Set(j, changes) == job' = [job EXCEPT ![j] = With(@, changes)]
Run(j, changes) == run' = [run EXCEPT ![j] = With(@, changes)]
Mark(j, changes) == [run[j].stages EXCEPT ![changes[1]] = changes[2]]

\* Mutant: what the jobs of the posting share comes first.
SharedFirst(j) == IF cache # NoStructure THEN cache ELSE job[j].own

\* The checkpoint of the request: what this job has structured, or what is shared.
Checkpoint(j) == IF job[j].own # NoStructure THEN job[j].own ELSE cache

\* V3AnalysisRequestFactory.create.
Create(j) ==
    /\ job[j].status = "QUEUED" /\ run[j].pc = "off"
    /\ Set(j, [status |-> "RUNNING"])
    /\ Run(j, [pc |-> IF Checkpoint(j) = NoStructure THEN "load" ELSE "bind",
               structure |-> Checkpoint(j)])
    /\ UNCHANGED <<cache, lease, cancelled, abandoned, found>>

\* prepareSharedStructure: what another job has stored meanwhile is used.
LoadShared(j) ==
    /\ run[j].pc = "load"
    /\ Run(j, IF cache # NoStructure THEN [pc |-> "bind", structure |-> cache]
              ELSE [pc |-> "acquire"])
    /\ UNCHANGED <<cache, lease, job, cancelled, abandoned, found>>

\* tryAcquireStructureLease, a statement of its own: the cache is not read again.
AcquireLease(j) ==
    /\ run[j].pc = "acquire"
    /\ IF lease.owner = NoJob \/ lease.expired
       THEN Run(j, [pc |-> "bind"]) /\ lease' = [owner |-> j, expired |-> FALSE]
       ELSE Run(j, [pc |-> "load"]) /\ UNCHANGED lease
    /\ UNCHANGED <<cache, job, cancelled, abandoned, found>>

\* A lease that was not given back in five minutes may be taken by another job.
ExpireLease ==
    /\ lease.owner # NoJob /\ ~lease.expired
    /\ lease' = [lease EXCEPT !.expired = TRUE]
    /\ UNCHANGED <<cache, job, run, cancelled, abandoned, found>>

\* Who has waited as long gives up.
WaitTooLong(j) ==
    /\ run[j].pc = "load" /\ lease.owner \notin {j, NoJob}
    /\ Set(j, [status |-> "FAILED"])
    /\ run' = [run EXCEPT ![j] = NewRun]
    /\ UNCHANGED <<cache, lease, cancelled, abandoned, found>>

Released(j) == IF lease.owner = j THEN [owner |-> NoJob, expired |-> FALSE] ELSE lease

-----------------------------------------------------------------------------
(* The analysis service *)

\* stream_pipeline: the worker thread binds the job, and only then can it be
\* cancelled; a mark of earlier is dropped.
Bind(j) ==
    /\ run[j].pc = "bind"
    /\ cancelled' = cancelled \ {j}
    /\ Run(j, [pc |-> IF run[j].structure = NoStructure THEN "discover" ELSE "resolve"])
    /\ UNCHANGED <<cache, lease, job, abandoned, found>>

Finish(j, outcome, changes) ==
    /\ run' = [run EXCEPT ![j] = With(With(@, changes), [pc |-> "done", outcome |-> outcome])]
    /\ cancelled' = cancelled \ {j}

\* A call of the language model that fails. A cancelled one is stopped by the
\* next heartbeat, or its process is killed and the failure of the call is all
\* that is known.
FailStage(j, stage) ==
    \/ \E code \in {"AI_PROVIDER_UNAVAILABLE", "CONTRACT_VALIDATION_FAILED"} :
         Finish(j, code, [stages |-> Mark(j, <<stage, "FAILED">>)])
    \/ /\ j \in cancelled
       /\ Finish(j, "ANALYSIS_CANCELLED", [stages |-> Mark(j, <<stage, "RUNNING">>)])

\* Discovery: company and positions.
Discover(j) ==
    /\ run[j].pc = "discover"
    /\ \/ FailStage(j, "POSITION_DISCOVERY") /\ UNCHANGED found
       \/ /\ found < MaxDiscoveries
          /\ found' = found + 1
          /\ \E kinds \in BoundedSeq(Kinds, MaxPositions) \ {<<>>} :
               Run(j, [pc |-> "resolve", stages |-> Mark(j, <<"POSITION_DISCOVERY", "COMPLETED">>),
                       structure |-> [version |-> found + 1, kinds |-> kinds, detail |-> 0]])
          /\ UNCHANGED cancelled
    /\ UNCHANGED <<cache, lease, job, abandoned>>

\* Stops for an answer of the user. The last event of a stage that waits says so.
Await(j, stage, key) ==
    Finish(j, stage, [ask |-> key, stages |-> Mark(j, <<stage, "WAITING">>)])

ResolvePosting(j) ==
    LET r == Resolve(run[j].structure, job[j].answers)
    IN  /\ run[j].pc = "resolve"
        /\ CASE r.status = "AWAITING_ANSWER" ->
                  Await(j, IF r.ask[1] = "position" THEN "AWAITING_POSITION_SELECTION"
                           ELSE "AWAITING_EXPERIENCE_TRACK_SELECTION", r.ask)
             [] r.status = "READY" ->
                  /\ Run(j, [pc |-> IF IsDiscovery(run[j].structure) THEN "detail" ELSE "review",
                             position |-> r.position, track |-> r.track])
                  /\ UNCHANGED cancelled
             [] OTHER -> Finish(j, r.status, [ask |-> NoKey])
        /\ UNCHANGED <<cache, lease, job, abandoned, found>>

\* The duties of the selected position; the experience is what it was.
Detail(j) ==
    /\ run[j].pc = "detail"
    /\ \/ FailStage(j, "POSTING_DETAIL")
       \/ /\ Run(j, [pc |-> "review", structure |-> [run[j].structure EXCEPT !.detail = run[j].position],
                     stages |-> Mark(j, <<"POSTING_DETAIL", "COMPLETED">>)])
          /\ UNCHANGED cancelled
    /\ UNCHANGED <<cache, lease, job, abandoned, found>>

\* requiresPostingConfirmation
Requires(j) == job[j].confirmed = NoReview
Stops(j, review) ==
    /\ job[j].confirmed # review
    /\ Requires(j) \/ job[j].confirmed # NoReview

\* The user confirms what the analysis will be made from; then the catalog of
\* the graph is read, which may be unreachable or hold something else.
ReviewPosting(j) ==
    LET review == Review(run[j].structure, run[j].position, run[j].track)
        stage == "AWAITING_POSTING_CONFIRMATION"
    IN  /\ run[j].pc = "review"
        /\ IF Stops(j, review)
           THEN Await(j, stage, <<"review", review>>)
           ELSE \/ \E code \in {"CAPABILITY_NOT_AVAILABLE", "CONTRACT_VALIDATION_FAILED"} :
                     Finish(j, code, [stages |-> Mark(j, <<stage, "SKIPPED">>)])
                \/ /\ Run(j, [pc |-> "plan", stages |-> Mark(j, <<stage, "SKIPPED">>)])
                   /\ UNCHANGED cancelled
        /\ UNCHANGED <<cache, lease, job, abandoned, found>>

\* The project of the company. Without an interpreted position there is
\* nothing a task could refer to.
Plan(j) ==
    LET s == run[j].structure
    IN  /\ run[j].pc = "plan"
        /\ \/ FailStage(j, "PROJECT_PLANNING")
           \/ /\ s.detail = run[j].position
              /\ Run(j, [pc |-> "graph", planned |-> Review(s, run[j].position, run[j].track),
                         stages |-> Mark(j, <<"PROJECT_PLANNING", "COMPLETED">>)])
              /\ UNCHANGED cancelled
        /\ UNCHANGED <<cache, lease, job, abandoned, found>>

\* Normalization and the learning closure; neither reports its failure.
Normalize(j) ==
    LET normalized == Mark(j, <<"CAPABILITY_NORMALIZATION", "COMPLETED">>)
    IN  /\ run[j].pc = "graph"
        /\ \/ Finish(j, "CONTRACT_VALIDATION_FAILED",
                     [stages |-> Mark(j, <<"CAPABILITY_NORMALIZATION", "RUNNING">>)])
           \/ \E code \in {"CAPABILITY_NOT_AVAILABLE", "CONTRACT_VALIDATION_FAILED"} :
                Finish(j, code, [stages |-> [normalized EXCEPT !["CAPABILITY_GRAPH_LOOKUP"] = "RUNNING"]])
           \/ /\ Run(j, [pc |-> "fit",
                         stages |-> [normalized EXCEPT !["CAPABILITY_GRAPH_LOOKUP"] = "COMPLETED"]])
              /\ UNCHANGED cancelled
        /\ UNCHANGED <<cache, lease, job, abandoned, found>>

\* Mutant: the limit is found only by the question that is one too many.
SkipsLate(j) == job[j].evidence > MaxEvidence

\* skipRemainingEvidenceQuestions
Skip(j) == job[j].evidence >= MaxEvidence

\* The user's evidence against the requirements: a formal requirement that is
\* unknown and that no answer of the user has settled is asked about.
Fit(j) ==
    LET unsettled == Requirements \ job[j].settled
        waiting == [Mark(j, <<"FIT_ANALYSIS", "RUNNING">>)
                      EXCEPT !["AWAITING_USER_EVIDENCE"] = "WAITING"]
    IN  /\ run[j].pc = "fit"
        /\ \/ /\ ~Skip(j)
              /\ \E r \in unsettled :
                   Finish(j, "AWAITING_USER_EVIDENCE",
                          [ask |-> <<"evidence", r>>, stages |-> waiting])
           \/ /\ Run(j, [pc |-> "roadmap",
                         stages |-> [waiting EXCEPT !["AWAITING_USER_EVIDENCE"] = "SKIPPED",
                                                    !["FIT_ANALYSIS"] = "COMPLETED"]])
              /\ UNCHANGED cancelled
        /\ UNCHANGED <<cache, lease, job, abandoned, found>>

\* A company without a name ends the run before the draft of the roadmap; a
\* draft without a project, an opportunity or a task ends it after.
Compose(j) ==
    /\ run[j].pc = "roadmap"
    /\ \/ Finish(j, "POSTING_STRUCTURE_INVALID", [ask |-> NoKey])
       \/ Finish(j, "CONTRACT_VALIDATION_FAILED",
                 [stages |-> Mark(j, <<"ROADMAP_PROPOSAL", "RUNNING">>)])
       \/ Finish(j, "COMPLETED",
                 [stages |-> [Mark(j, <<"ROADMAP_PROPOSAL", "COMPLETED">>)
                                EXCEPT !["RESULT_ASSEMBLY"] = "COMPLETED"]])
    /\ UNCHANGED <<cache, lease, job, abandoned, found>>

-----------------------------------------------------------------------------
(* The backend: the outcome of a run *)

\* What is stored is stored for every job of the posting.
Pause(j) ==
    LET key == run[j].ask
    IN  IF key \in job[j].asked
        THEN /\ Set(j, [status |-> "FAILED"]) /\ UNCHANGED cache
        ELSE /\ Set(j, [status |-> "WAITING", own |-> run[j].structure, active |-> key,
                        asked |-> job[j].asked \cup {key},
                        evidence |-> job[j].evidence
                                       + (IF key[1] = "evidence" THEN 1 ELSE 0)])
             /\ cache' = run[j].structure

\* pauseForQuestion, pauseForPostingConfirmation, complete, and the failure of
\* the run; nothing of a run the job has left is stored.
Deliver(j) ==
    /\ run[j].pc = "done"
    /\ CASE job[j].status # "RUNNING" -> UNCHANGED <<job, cache>>
         [] job[j].status = "RUNNING" /\ run[j].outcome \in WaitingStages -> Pause(j)
         [] job[j].status = "RUNNING" /\ run[j].outcome = "COMPLETED" ->
              /\ Set(j, [status |-> "COMPLETED", own |-> run[j].structure])
              /\ cache' = run[j].structure
         [] OTHER -> Set(j, [status |-> "FAILED"]) /\ UNCHANGED cache
    /\ lease' = Released(j)
    /\ run' = [run EXCEPT ![j] = NewRun]
    /\ UNCHANGED <<cancelled, abandoned, found>>

-----------------------------------------------------------------------------
(* The user *)

Request(j) ==
    /\ job[j].status = "NEW"
    /\ Set(j, [status |-> "QUEUED"])
    /\ UNCHANGED <<cache, lease, run, cancelled, abandoned, found>>

\* The answers the question offers.
Offered(j) ==
    LET key == job[j].active
    IN  CASE key[1] = "position" -> 1 .. Len(job[j].own.kinds)
          [] key[1] = "track" -> Tracks
          [] key[1] = "review" -> {"CONFIRM", "CANCEL"}
          [] OTHER -> {"claim-present"}

\* Answering the review with CANCEL ends the job.
Answer(j) ==
    LET key == job[j].active
        reviewed == key[1] = "review"
    IN  /\ job[j].status = "WAITING"
        /\ \E v \in Offered(j) :
             Set(j, [status |-> IF reviewed /\ v = "CANCEL" THEN "CANCELLED" ELSE "QUEUED",
                     active |-> NoKey,
                     answers |-> IF key[1] \in {"position", "track"}
                                 THEN job[j].answers \cup {[key |-> key, value |-> v]}
                                 ELSE job[j].answers,
                     settled |-> IF key[1] = "evidence" THEN job[j].settled \cup {key[2]}
                                 ELSE job[j].settled,
                     confirmed |-> IF reviewed /\ v = "CONFIRM" THEN key[2] ELSE job[j].confirmed])
        /\ UNCHANGED <<cache, lease, run, cancelled, abandoned, found>>

\* AnalysisJobService.cancel: first the job, whose worker is interrupted and
\* gives its lease back.
Cancel(j) ==
    /\ job[j].status \in {"QUEUED", "RUNNING", "WAITING"}
    /\ Set(j, [status |-> "CANCELLED", active |-> NoKey, telling |-> TRUE])
    /\ lease' = Released(j)
    /\ run' = IF run[j].pc \in {"load", "acquire"} THEN [run EXCEPT ![j] = NewRun] ELSE run
    /\ UNCHANGED <<cache, cancelled, abandoned, found>>

\* Then the service is told, in a call of its own, which may be lost. It knows
\* job ids only, and hits the attempt that runs when it arrives.
CancelCall(j) ==
    /\ job[j].telling
    /\ Set(j, [telling |-> FALSE])
    /\ \/ /\ cancelled' = cancelled \cup {j}
          /\ run' = [run EXCEPT ![j].told = run[j].pc \notin {"off", "load", "acquire", "bind"}]
       \/ UNCHANGED <<cancelled, run>>
    /\ UNCHANGED <<cache, lease, abandoned, found>>

\* AnalysisJobService.retry: the questions and what was structured stay. An
\* attempt that has not ended runs on under the same job id.
Retry(j) ==
    /\ job[j].status \in {"FAILED", "CANCELLED"}
    /\ job[j].retries < MaxRetries
    /\ Set(j, [status |-> "QUEUED", retries |-> job[j].retries + 1])
    /\ run' = [run EXCEPT ![j] = NewRun]
    /\ abandoned' = IF run[j].pc = "off" THEN abandoned ELSE abandoned \cup {j}
    /\ UNCHANGED <<cache, lease, cancelled, found>>

\* The registry knows job ids only: the end of the old attempt drops the mark
\* of the new one.
AbandonedEnds(j) ==
    /\ j \in abandoned
    /\ abandoned' = abandoned \ {j}
    /\ cancelled' = cancelled \ {j}
    /\ UNCHANGED <<cache, lease, job, run, found>>

-----------------------------------------------------------------------------
Init ==
    /\ cache = NoStructure
    /\ lease = [owner |-> NoJob, expired |-> FALSE]
    /\ job = [j \in Jobs |-> NewJob]
    /\ run = [j \in Jobs |-> NewRun]
    /\ cancelled = {} /\ abandoned = {} /\ found = 0

Next ==
    \/ ExpireLease
    \/ \E j \in Jobs :
         \/ Request(j) \/ Create(j) \/ LoadShared(j) \/ AcquireLease(j) \/ WaitTooLong(j)
         \/ Bind(j) \/ Discover(j) \/ ResolvePosting(j) \/ Detail(j) \/ ReviewPosting(j)
         \/ Plan(j) \/ Normalize(j) \/ Fit(j) \/ Compose(j) \/ Deliver(j)
         \/ Answer(j) \/ Cancel(j) \/ CancelCall(j) \/ Retry(j) \/ AbandonedEnds(j)

Spec == Init /\ [][Next]_vars

-----------------------------------------------------------------------------
(* Properties *)

\* A project is planned from exactly what the user was shown and has confirmed,
\* for the position and the track the user chose: service.py:258-305, however
\* many stops, retries and other jobs of the posting lie between.
PlannedAsConfirmed ==
    \A j \in Jobs :
      LET plan == run[j].planned
          answers == job[j].answers
      IN  plan # NoReview /\ job[j].status = "RUNNING" =>
            /\ plan = job[j].confirmed
            /\ \A a \in answers : a.key = PositionKey(run[j].structure) => a.value = plan.position
            /\ \A a \in answers : a.key = TrackKey(plan.position) => a.value = plan.track

\* An answer the user gave always fits the posting it is sent with: a job keeps
\* what it has structured (V3AnalysisRequestFactory.java:99), so no run ends
\* with ANALYSIS_STALE_RESULT (resolution/service.py:157).
NoStaleAnswer ==
    \A j \in Jobs : run[j].outcome \notin {"ANALYSIS_STALE_RESULT", "AMBIGUITY_UNRESOLVED"}

\* The progress the user saw agrees with how the run ended: a finished run left
\* no stage open, one that waits has exactly the stage it waits in waiting.
StagesTellOutcome ==
    \A j \in Jobs :
      LET In(status) == {x \in Stages : run[j].stages[x] = status}
      IN  run[j].pc = "done" =>
            /\ In("WAITING") = {run[j].outcome} \cap WaitingStages
            /\ run[j].outcome = "COMPLETED" => In("RUNNING") \cup In("FAILED") = {}
            /\ In("FAILED") = {} \/ run[j].outcome \in {"AI_PROVIDER_UNAVAILABLE",
                                                        "CONTRACT_VALIDATION_FAILED"}
            /\ run[j].outcome = "AI_PROVIDER_UNAVAILABLE" => Cardinality(In("FAILED")) = 1

\* The questions of a job stay far from the limit that ends it
\* (ANALYSIS_QUESTION_LIMIT): a choice of each kind, one review and the evidence
\* questions, whatever is retried.
QuestionsSuffice == \A j \in Jobs : Cardinality(job[j].asked) <= 3 + MaxEvidence

\* A run ends as cancelled only when a call to cancel reached the service while it
\* ran: neither a mark that was there before it began, nor a call that came too
\* early for it, stops it (cancellation.py:23-27).  The call may have been sent for
\* an earlier attempt of the job.
CancelOnlyWhatWasAsked ==
    \A j \in Jobs : run[j].outcome = "ANALYSIS_CANCELLED" => run[j].told

\* What ends as cancelled is what the user cancelled.  Refuted: the call is sent
\* after the job is cancelled in the database, names the job only, and may reach
\* the attempt that a retry has started since (AnalysisJobService.java:357-361).
CancelEndsItsOwnAttempt ==
    \A j \in Jobs : run[j].outcome = "ANALYSIS_CANCELLED" => job[j].status = "CANCELLED"

\* The review shows the duties and the requirements of the position the user
\* selected. Refuted: the structure the jobs of a posting share is interpreted
\* for the position of the job that stored it.
ReviewedPositionIsInterpreted ==
    \A j \in Jobs :
      run[j].outcome = "AWAITING_POSTING_CONFIRMATION" =>
        run[j].ask[2].detail = run[j].ask[2].position
=============================================================================
