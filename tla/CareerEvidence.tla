--------------------------- MODULE CareerEvidence ---------------------------
(***************************************************************************)
(* What the user hands in to prove himself: a career source that is cut    *)
(* into fragments he then confirms, and the evidence for a node of his     *)
(* map.  Both wait in a queue with leases (CareerExtractionWorker,         *)
(* EvidenceVerificationWorker), whose recovery they share                  *)
(* (recover_stale_auxiliary_ai_jobs), and both are read by the AI service  *)
(* (extract_career and verify_evidence of v2bridge/service.py).            *)
(*                                                                         *)
(* A worker is one run of a server's thread: its name is not used again.   *)
(***************************************************************************)
EXTENDS Integers, FiniteSets

CONSTANTS
    Source,         \* the career source
    Evidence,       \* what was handed in for the node
    Extractors,     \* the workers that read sources
    Verifiers,      \* and those that read evidence
    Profiles,       \* what the model finds in a source: sets of entries
    Reads,          \* what the model says of evidence: verdict and percent
    MaxClaims,      \* the queue's attempt limit: 3
    MaxRetries      \* bound on the retries of a behaviour

VARIABLES
    source,         \* career_sources and career_fragments
    evidence,       \* evidence
    rows,           \* the rows of the two queues
    task,           \* what each worker is at
    progress,       \* node_progress
    retries,        \* the retries so far
    strayed         \* history: what a worker ended that it did not have at work
evidenceVars == <<source, evidence, rows, task, progress, retries, strayed>>

Items == {Source} \cup Evidence
Workers == Extractors \cup Verifiers
WorkersOf(i) == IF i = Source THEN Extractors ELSE Verifiers
Nobody == "nobody"
NoRow == [claims |-> 0, worker |-> Nobody, expired |-> FALSE, there |-> FALSE]
NewRow == [NoRow EXCEPT !.there = TRUE]
Idle == [at |-> "idle", item |-> Source, claims |-> 0]
NoRead == [verdict |-> "none", percent |-> 0]

EvidenceInit ==
    /\ source = [status |-> "NEW", claims |-> 0, worker |-> Nobody, fragments |-> {}]
    /\ evidence = [e \in Evidence |-> [status |-> "NEW", claims |-> 0, result |-> NoRead]]
    /\ rows = [i \in Items |-> NoRow] /\ task = [w \in Workers |-> Idle]
    /\ progress = "NOT_STARTED" /\ retries = 0 /\ strayed = {}

-----------------------------------------------------------------------------
(* What the AI service answers *)

\* fragments_from_profile: an entry without a title is left out
KindOf(entry) ==
    CASE entry.section = "skills" -> "SKILL"
      [] entry.section = "projects" -> "PROJECT"
      [] entry.section = "experiences" -> "EXPERIENCE"
      [] entry.section \in {"education", "bootcamp"} -> "EDUCATION"
      [] entry.section \in {"certifications", "languages"} -> "CREDENTIAL"
      [] OTHER -> "ACHIEVEMENT"
Fragments(profile) ==
    {[kind |-> KindOf(x), title |-> x.title, review |-> "SUGGESTED"] : x \in {y \in profile : y.title # ""}}

\* extract_career: what it may answer; a source in which nothing is found is a failure
Extracted == {Fragments(profile) : profile \in Profiles} \ {{}}

\* verify_evidence: an unknown verdict needs work, the confidence lies within its bounds
Answer(read) ==
    [verdict |-> IF read.verdict \in {"VERIFIED", "NEEDS_WORK", "REJECTED"} THEN read.verdict ELSE "NEEDS_WORK",
     percent |-> IF read.percent < 0 THEN 0 ELSE IF read.percent > 100 THEN 100 ELSE read.percent]

\* Mutant: what the service says is taken at its word
TakenAtItsWord(answer) == answer.verdict

\* normalizeVerdict: the worker wants confidence before it believes
Verdict(answer) ==
    IF answer.verdict = "VERIFIED" /\ answer.percent < 75 THEN "NEEDS_WORK" ELSE answer.verdict

\* career_text: what the analyses are told of a node
CareerText(status) ==
    CASE status = "COMPLETED" -> "held" [] status = "NOT_STARTED" -> "gap" [] OTHER -> "nothing"

-----------------------------------------------------------------------------
(* The user *)

Create ==
    /\ source.status = "NEW" /\ source' = [source EXCEPT !.status = "QUEUED"]
    /\ rows' = [rows EXCEPT ![Source] = NewRow]
    /\ UNCHANGED <<evidence, task, progress, retries, strayed>>

Submit(e) ==
    /\ evidence[e].status = "NEW" /\ evidence' = [evidence EXCEPT ![e].status = "PENDING"]
    /\ rows' = [rows EXCEPT ![e] = NewRow]
    /\ UNCHANGED <<source, task, progress, retries, strayed>>

\* requeue_...: a row that is still there keeps its count and is unlocked
Requeued(row) == [row EXCEPT !.worker = Nobody, !.expired = FALSE, !.there = TRUE]

RetrySource ==
    /\ source.status \in {"FAILED", "CANCELLED"} /\ source.claims < MaxClaims
    /\ source' = [source EXCEPT !.status = "QUEUED", !.worker = Nobody]
    /\ rows' = [rows EXCEPT ![Source] = Requeued(@)]
    /\ retries < MaxRetries /\ retries' = retries + 1
    /\ UNCHANGED <<evidence, task, progress, strayed>>

RetryEvidence(e) ==
    /\ evidence[e].status = "FAILED" /\ evidence[e].claims < MaxClaims
    /\ evidence' = [evidence EXCEPT ![e].status = "PENDING"]
    /\ rows' = [rows EXCEPT ![e] = Requeued(@)]
    /\ retries < MaxRetries /\ retries' = retries + 1
    /\ UNCHANGED <<source, task, progress, strayed>>

CancelSource ==
    /\ source.status \in {"QUEUED", "RUNNING"}
    /\ source' = [source EXCEPT !.status = "CANCELLED", !.worker = Nobody]
    /\ rows' = [rows EXCEPT ![Source] = NoRow]
    /\ UNCHANGED <<evidence, task, progress, retries, strayed>>

\* confirmSource: what was suggested and not chosen is rejected
Confirm ==
    /\ source.status \in {"REVIEW_READY", "CONFIRMED"}
    /\ \E chosen \in SUBSET source.fragments :
         /\ chosen # {}
         /\ source' = [source EXCEPT
              !.status = "CONFIRMED",
              !.fragments = {IF f.review # "SUGGESTED" THEN f
                             ELSE [f EXCEPT !.review = IF f \in chosen THEN "CONFIRMED" ELSE "REJECTED"] : f \in @}]
    /\ UNCHANGED <<evidence, rows, task, progress, retries, strayed>>

DeleteSource ==
    /\ source.status \notin {"NEW", "RUNNING", "DELETED"}
    /\ source' = [source EXCEPT !.status = "DELETED", !.fragments = {}]
    /\ rows' = [rows EXCEPT ![Source] = NoRow]
    /\ UNCHANGED <<evidence, task, progress, retries, strayed>>

-----------------------------------------------------------------------------
(* The workers *)

Claim(w, i) ==
    /\ task[w].at = "idle" /\ w \in WorkersOf(i)
    /\ rows[i].there /\ (rows[i].worker = Nobody \/ rows[i].expired) /\ rows[i].claims < MaxClaims
    /\ rows' = [rows EXCEPT ![i] = [NewRow EXCEPT !.claims = rows[i].claims + 1, !.worker = w]]
    /\ task' = [task EXCEPT ![w] = [at |-> "claimed", item |-> i, claims |-> rows[i].claims + 1]]
    /\ UNCHANGED <<source, evidence, progress, retries, strayed>>

At(w, places) == task[w].at \in places
Owns(w) == rows[task[w].item].there /\ rows[task[w].item].worker = w

\* A step on what may have passed into other hands
Handles(w) == strayed' = IF Owns(w) THEN strayed ELSE strayed \cup {task[w].item}

\* loadRequest refuses what is not queued any more, load of evidence asks nothing
Load(w) ==
    /\ At(w, {"claimed"}) /\ Handles(w)
    /\ IF task[w].item = Source
       THEN /\ UNCHANGED evidence
            /\ IF source.status = "QUEUED"
               THEN /\ source' = [source EXCEPT !.status = "RUNNING", !.worker = w, !.claims = task[w].claims]
                    /\ task' = [task EXCEPT ![w].at = "asked"]
               ELSE task' = [task EXCEPT ![w].at = "broken"] /\ UNCHANGED source
       ELSE /\ evidence' = [evidence EXCEPT ![task[w].item].status = "RUNNING",
                                            ![task[w].item].claims = task[w].claims]
            /\ task' = [task EXCEPT ![w].at = "asked"] /\ UNCHANGED source
    /\ UNCHANGED <<rows, progress, retries>>

\* finish_...: the row goes, whoever has it
Finished(w) ==
    /\ rows' = [rows EXCEPT ![task[w].item] = NoRow]
    /\ task' = [task EXCEPT ![w] = Idle] /\ UNCHANGED retries

\* Mutant: the fragments of a source are replaced whatever became of it
StoresBlindly(found) == source' = [source EXCEPT !.status = "REVIEW_READY", !.fragments = found]

\* complete: only a source that is still being read gets its fragments, in place
\* of those nobody has confirmed
Stores(found) ==
    IF source.status # "RUNNING" THEN UNCHANGED source
    ELSE source' = [source EXCEPT !.status = "REVIEW_READY",
                                  !.fragments = {f \in @ : f.review = "CONFIRMED"} \cup found]

Extract(w) ==
    /\ At(w, {"asked"}) /\ task[w].item = Source
    /\ \E found \in Extracted : Stores(found)
    /\ Handles(w) /\ Finished(w) /\ UNCHANGED <<evidence, progress>>

\* What is verified completes the node
Verify(w) ==
    /\ At(w, {"asked"}) /\ task[w].item # Source
    /\ \E read \in Reads :
         LET answer == Answer(read)
         IN  /\ evidence' = [evidence EXCEPT ![task[w].item].status = Verdict(answer),
                                             ![task[w].item].result = answer]
             /\ progress' = IF Verdict(answer) = "VERIFIED" THEN "COMPLETED" ELSE progress
    /\ Handles(w) /\ Finished(w) /\ UNCHANGED source

\* fail: a source fails only while it is being read, evidence in any case; a source
\* that could not even be loaded stays queued, without its row
Fail(w) ==
    /\ At(w, {"claimed", "asked", "broken"})
    /\ IF task[w].item = Source
       THEN /\ source' = IF source.status = "RUNNING" THEN [source EXCEPT !.status = "FAILED"] ELSE source
            /\ UNCHANGED evidence
       ELSE evidence' = [evidence EXCEPT ![task[w].item].status = "FAILED"] /\ UNCHANGED source
    /\ IF task[w].item = Source /\ source.status = "QUEUED" THEN strayed' = strayed \cup {Source} ELSE Handles(w)
    /\ Finished(w) /\ UNCHANGED progress

-----------------------------------------------------------------------------
(* Servers that stop, and leases *)

Crash(w) ==
    /\ At(w, {"claimed", "asked", "broken"}) /\ task' = [task EXCEPT ![w] = [Idle EXCEPT !.at = "gone"]]
    /\ UNCHANGED <<source, evidence, rows, progress, retries, strayed>>

Released(i) == rows[i].there /\ rows[i].claims < MaxClaims /\ rows[i].worker # Nobody /\ rows[i].expired
Exhausted(i) == rows[i].there /\ rows[i].claims >= MaxClaims /\ (rows[i].worker = Nobody \/ rows[i].expired)

\* What a source or evidence becomes that is given back, or given up
Back(i) ==
    IF i = Source THEN IF source.status = "RUNNING" THEN "QUEUED" ELSE source.status
    ELSE IF evidence[i].status = "RUNNING" THEN "PENDING" ELSE evidence[i].status
GivenUp(i) ==
    IF i = Source THEN IF source.status \in {"QUEUED", "RUNNING"} THEN "FAILED" ELSE source.status
    ELSE IF evidence[i].status \in {"PENDING", "RUNNING"} THEN "FAILED" ELSE evidence[i].status

\* shutdown: interrupt_auxiliary_ai_jobs gives back what the worker has, and the
\* claim does not count; its thread, interrupted, ends or comes to its fail
Shutdown(w) ==
    /\ At(w, {"claimed", "asked", "broken"})
    /\ LET mine == {i \in Items : rows[i].there /\ rows[i].worker = w}
       IN  /\ rows' = [i \in Items |-> IF i \in mine THEN [NewRow EXCEPT !.claims = rows[i].claims - 1] ELSE rows[i]]
           /\ evidence' = [e \in Evidence |-> [evidence[e] EXCEPT !.status = IF e \in mine THEN Back(e) ELSE @]]
           /\ source' = IF source.status = "RUNNING" /\ source.worker = w
                        THEN [source EXCEPT !.status = "QUEUED", !.worker = Nobody] ELSE source
    /\ \E after \in {"gone", "broken"} : task' = [task EXCEPT ![w].at = after]
    /\ UNCHANGED <<progress, retries, strayed>>

Expire(i) ==
    /\ rows[i].there /\ rows[i].worker # Nobody /\ ~rows[i].expired
    /\ rows' = [rows EXCEPT ![i].expired = TRUE]
    /\ UNCHANGED <<source, evidence, task, progress, retries, strayed>>

\* recover_stale_auxiliary_ai_jobs, every thirty seconds
Recover ==
    /\ \E i \in Items : Released(i) \/ Exhausted(i)
    /\ rows' = [i \in Items |-> IF Exhausted(i) /\ GivenUp(i) = "FAILED" THEN NoRow
                                ELSE IF Released(i) THEN [NewRow EXCEPT !.claims = rows[i].claims] ELSE rows[i]]
    /\ source' = IF Exhausted(Source) THEN [source EXCEPT !.status = GivenUp(Source), !.worker = Nobody]
                 ELSE IF Released(Source) THEN [source EXCEPT !.status = Back(Source), !.worker = Nobody] ELSE source
    /\ evidence' = [e \in Evidence |-> [evidence[e] EXCEPT !.status =
                      IF Exhausted(e) THEN GivenUp(e) ELSE IF Released(e) THEN Back(e) ELSE @]]
    /\ UNCHANGED <<task, progress, retries, strayed>>

EvidenceNext ==
    \/ Create \/ RetrySource \/ CancelSource \/ Confirm \/ DeleteSource \/ Recover
    \/ \E e \in Evidence : Submit(e) \/ RetryEvidence(e)
    \/ \E i \in Items : Expire(i) \/ \E w \in Workers : Claim(w, i)
    \/ \E w \in Workers : Load(w) \/ Extract(w) \/ Verify(w) \/ Fail(w) \/ Crash(w) \/ Shutdown(w)

-----------------------------------------------------------------------------
(* Properties *)

\* As long as no worker goes on with what has passed out of its hands, whatever
\* waits or is at work is in the queue, where the claims and the recovery look for
\* it, and the analyses are told that a capability is held only because of evidence
\* that stands as verified, with confidence (V40__recover_auxiliary_ai_jobs.sql;
\* EvidenceVerificationWorker, complete; career_text)
NothingIsForgotten ==
    /\ Source \notin strayed /\ source.status \in {"QUEUED", "RUNNING"} => rows[Source].there
    /\ \A e \in Evidence \ strayed : evidence[e].status \in {"PENDING", "RUNNING"} => rows[e].there
ProgressIsProven ==
    CareerText(progress) = "held" /\ strayed \cap Evidence = {} =>
      \E e \in Evidence : evidence[e].status = "VERIFIED" /\ evidence[e].result.percent >= 75

\* The fragments the user sees are those of one reading, never a mix of two,
\* however many readers were at the source, and in a source he confirmed nothing
\* waits for him (CareerExtractionWorker, complete; CareerRepositoryService,
\* confirmSource). That one reading may be one he cancelled: see below.
FragmentsAreReviewed ==
    /\ source.fragments # {} <=> source.status \in {"REVIEW_READY", "CONFIRMED"}
    /\ source.status = "CONFIRMED" => \A f \in source.fragments : f.review # "SUGGESTED"
    /\ source.status = "REVIEW_READY" => source.fragments \in Extracted
\* What the user confirmed stands until he deletes its source
\* (CareerRepositoryService, confirmSource; CareerExtractionWorker, complete)
ConfirmedStandsStep ==
    source'.status # "DELETED" =>
      {f \in source.fragments : f.review = "CONFIRMED"} \subseteq source'.fragments

\* Not so: only the reading that a source is at stores fragments. complete asks
\* whether the source is being read, not who reads it: a reading the user cancelled
\* before he retried stores what it found in place of the one he is waiting for.
OnlyItsReaderStores ==
    \A w \in Extractors :
      task[w].at = "asked" /\ source.status = "RUNNING" /\ source'.status = "REVIEW_READY"
        /\ task'[w].at = "idle" => source.worker = w
=============================================================================
