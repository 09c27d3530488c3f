------------------------ MODULE CareerEvidenceProofs ------------------------
(***************************************************************************)
(* What is proved of the sources and the evidence of a user, for every     *)
(* number of workers, of pieces of evidence, of attempts and retries, and  *)
(* whatever the model reads.                                               *)
(***************************************************************************)
EXTENDS CareerEvidence, TLAPS

EvidenceSpec == EvidenceInit /\ [][EvidenceNext]_evidenceVars

\* The names differ, and a model that answers names a percentage (VerifyEvidenceResponse)
EvidenceBounds ==
    /\ Source \notin Evidence /\ Extractors \cap Verifiers = {} /\ Nobody \notin Workers
    /\ MaxClaims \in Nat \ {0} /\ \A read \in Reads : read.percent \in Int

-----------------------------------------------------------------------------
(* The inductive invariant *)

Titles == {x.title : x \in UNION Profiles}
Kinds == {"SKILL", "PROJECT", "EXPERIENCE", "EDUCATION", "CREDENTIAL", "ACHIEVEMENT"}
Fragment == [kind : Kinds, title : Titles, review : {"SUGGESTED", "CONFIRMED", "REJECTED"}]
SourceRow ==
    [status : {"NEW", "QUEUED", "RUNNING", "REVIEW_READY", "CONFIRMED", "FAILED", "CANCELLED", "DELETED"},
     claims : Int, worker : Workers \cup {Nobody}, fragments : SUBSET Fragment]
Answers == [verdict : {"VERIFIED", "NEEDS_WORK", "REJECTED", "none"}, percent : Int]
EvidenceRow ==
    [status : {"NEW", "PENDING", "RUNNING", "VERIFIED", "NEEDS_WORK", "REJECTED", "FAILED"},
     claims : Int, result : Answers]
QueueRow == [claims : Int, worker : Workers \cup {Nobody}, expired : BOOLEAN, there : BOOLEAN]
Task == [at : {"idle", "claimed", "asked", "broken", "gone"}, item : Items, claims : Int]

TypeInv ==
    /\ source \in SourceRow /\ evidence \in [Evidence -> EvidenceRow]
    /\ rows \in [Items -> QueueRow] /\ task \in [Workers -> Task]
    /\ progress \in {"NOT_STARTED", "COMPLETED"} /\ strayed \subseteq Items


\* A worker that still has the source it asked about is the one it is running with
RunsWithOwner ==
    \A w \in Workers :
      task[w].at = "asked" /\ task[w].item = Source /\ Owns(w) =>
        source.status = "RUNNING" /\ source.worker = w

\* Evidence in the queue waits or is at work
QueuedIsOpen == \A e \in Evidence : rows[e].there => evidence[e].status \in {"PENDING", "RUNNING"}

EvidenceInv ==
    /\ TypeInv /\ RunsWithOwner /\ QueuedIsOpen
    /\ NothingIsForgotten /\ ProgressIsProven /\ FragmentsAreReviewed

-----------------------------------------------------------------------------
(* Facts about the operators *)

LEMMA ExtractedFit == \A found \in Extracted : found \in SUBSET Fragment /\ found # {}
<1> SUFFICES ASSUME NEW profile \in Profiles, Fragments(profile) # {}
             PROVE  Fragments(profile) \in SUBSET Fragment
  BY DEF Extracted
<1>1. ASSUME NEW x \in profile PROVE KindOf(x) \in Kinds /\ x.title \in Titles
  <2>1. KindOf(x) \in Kinds BY DEF KindOf, Kinds
  <2>2. x \in UNION Profiles BY <1>1
  <2> QED BY <2>1, <2>2 DEF Titles
<1>2. SUFFICES ASSUME NEW f \in Fragments(profile) PROVE f \in Fragment
  OBVIOUS
<1>3. PICK x \in profile : f = [kind |-> KindOf(x), title |-> x.title, review |-> "SUGGESTED"]
  BY <1>2 DEF Fragments
<1>4. KindOf(x) \in Kinds /\ x.title \in Titles BY <1>1
<1> QED BY <1>3, <1>4 DEF Fragment

LEMMA AnswerFits ==
  ASSUME EvidenceBounds, NEW read \in Reads
  PROVE  /\ Answer(read) \in Answers /\ Answer(read).verdict # "none"
         /\ Verdict(Answer(read)) \in {"VERIFIED", "NEEDS_WORK", "REJECTED"}
         /\ Verdict(Answer(read)) = "VERIFIED" => Answer(read).percent >= 75
<1>1. read.percent \in Int BY DEF EvidenceBounds
<1> QED BY <1>1 DEF Answer, Answers, Verdict

LEMMA RowsFit == NoRow \in QueueRow /\ NewRow \in QueueRow /\ NoRow.there = FALSE /\ NewRow.there = TRUE
<1>1. NoRow \in QueueRow /\ NoRow.there = FALSE BY DEF NoRow, QueueRow
<1> QED BY <1>1 DEF NewRow, QueueRow

LEMMA ItemsSplit ==
  ASSUME EvidenceBounds
  PROVE  /\ Source \in Items /\ Evidence \subseteq Items /\ \A i \in Items : i = Source \/ i \in Evidence
         /\ Nobody \notin Workers /\ Source \notin Evidence
BY DEF Items, EvidenceBounds

-----------------------------------------------------------------------------
(* Every action keeps the invariant *)

LEMMA CareerStarts == ASSUME EvidenceBounds, EvidenceInit PROVE EvidenceInv
<1> USE ItemsSplit, RowsFit DEF EvidenceInit
<1>1. TypeInv
  BY DEF TypeInv, SourceRow, EvidenceRow, Answers, NoRead, Task, Idle
<1> QED BY <1>1 DEF EvidenceInv, RunsWithOwner, QueuedIsOpen, NothingIsForgotten, ProgressIsProven,
             CareerText, FragmentsAreReviewed, Idle, NoRow

LEMMA CreateKeeps == ASSUME EvidenceBounds, EvidenceInv, Create PROVE EvidenceInv'
<1> USE ItemsSplit, RowsFit DEF Create, EvidenceInv
<1>1. TypeInv' BY DEF TypeInv, SourceRow
<1>2. RunsWithOwner' BY DEF TypeInv, RunsWithOwner, Owns, NewRow, NoRow
<1>3. QueuedIsOpen' BY DEF TypeInv, QueuedIsOpen
<1>4. NothingIsForgotten' BY DEF TypeInv, NothingIsForgotten, SourceRow
<1>5. ProgressIsProven' BY DEF ProgressIsProven
<1>6. FragmentsAreReviewed' BY DEF TypeInv, FragmentsAreReviewed, SourceRow
<1> QED BY <1>1, <1>2, <1>3, <1>4, <1>5, <1>6

LEMMA SubmitKeeps ==
  ASSUME EvidenceBounds, EvidenceInv, NEW e \in Evidence, Submit(e) PROVE EvidenceInv'
<1> USE ItemsSplit, RowsFit DEF Submit, EvidenceInv
<1>1. TypeInv' BY DEF TypeInv, EvidenceRow
<1>2. RunsWithOwner' BY DEF TypeInv, RunsWithOwner, Owns
<1>3. QueuedIsOpen' BY DEF TypeInv, QueuedIsOpen, EvidenceRow
<1>4. NothingIsForgotten' BY DEF TypeInv, NothingIsForgotten, EvidenceRow
<1>5. ProgressIsProven' BY DEF TypeInv, ProgressIsProven, EvidenceRow
<1>6. FragmentsAreReviewed' BY DEF FragmentsAreReviewed
<1> QED BY <1>1, <1>2, <1>3, <1>4, <1>5, <1>6

LEMMA RetrySourceKeeps == ASSUME EvidenceBounds, EvidenceInv, RetrySource PROVE EvidenceInv'
<1> USE ItemsSplit, RowsFit DEF RetrySource, EvidenceInv, Requeued
<1>1. TypeInv' BY DEF TypeInv, SourceRow, QueueRow
<1>2. RunsWithOwner' BY DEF TypeInv, RunsWithOwner, Owns, SourceRow, QueueRow
<1>3. QueuedIsOpen' BY DEF TypeInv, QueuedIsOpen
<1>4. NothingIsForgotten' BY DEF TypeInv, NothingIsForgotten, SourceRow, QueueRow
<1>5. ProgressIsProven' BY DEF ProgressIsProven
<1>6. FragmentsAreReviewed' BY DEF TypeInv, FragmentsAreReviewed, SourceRow
<1> QED BY <1>1, <1>2, <1>3, <1>4, <1>5, <1>6

LEMMA RetryEvidenceKeeps ==
  ASSUME EvidenceBounds, EvidenceInv, NEW e \in Evidence, RetryEvidence(e) PROVE EvidenceInv'
<1> USE ItemsSplit, RowsFit DEF RetryEvidence, EvidenceInv, Requeued
<1>1. TypeInv' BY DEF TypeInv, EvidenceRow, QueueRow
<1>2. RunsWithOwner' BY DEF TypeInv, RunsWithOwner, Owns
<1>3. QueuedIsOpen' BY DEF TypeInv, QueuedIsOpen, EvidenceRow
<1>4. NothingIsForgotten' BY DEF TypeInv, NothingIsForgotten, EvidenceRow, QueueRow
<1>5. ProgressIsProven' BY DEF TypeInv, ProgressIsProven, EvidenceRow
<1>6. FragmentsAreReviewed' BY DEF FragmentsAreReviewed
<1> QED BY <1>1, <1>2, <1>3, <1>4, <1>5, <1>6

LEMMA CancelKeeps == ASSUME EvidenceBounds, EvidenceInv, CancelSource PROVE EvidenceInv'
<1> USE ItemsSplit, RowsFit DEF CancelSource, EvidenceInv
<1>1. TypeInv' BY DEF TypeInv, SourceRow
<1>2. RunsWithOwner' BY DEF TypeInv, RunsWithOwner, Owns
<1>3. QueuedIsOpen' BY DEF TypeInv, QueuedIsOpen
<1>4. NothingIsForgotten' BY DEF TypeInv, NothingIsForgotten, SourceRow
<1>5. ProgressIsProven' BY DEF ProgressIsProven
<1>6. FragmentsAreReviewed' BY DEF TypeInv, FragmentsAreReviewed, SourceRow
<1> QED BY <1>1, <1>2, <1>3, <1>4, <1>5, <1>6

LEMMA DeleteKeeps == ASSUME EvidenceBounds, EvidenceInv, DeleteSource PROVE EvidenceInv'
<1> USE ItemsSplit, RowsFit DEF DeleteSource, EvidenceInv
<1>1. TypeInv' BY DEF TypeInv, SourceRow
<1>2. RunsWithOwner' BY DEF TypeInv, RunsWithOwner, Owns
<1>3. QueuedIsOpen' BY DEF TypeInv, QueuedIsOpen
<1>4. NothingIsForgotten' BY DEF TypeInv, NothingIsForgotten, SourceRow
<1>5. ProgressIsProven' BY DEF ProgressIsProven
<1>6. FragmentsAreReviewed' BY DEF TypeInv, FragmentsAreReviewed, SourceRow
<1> QED BY <1>1, <1>2, <1>3, <1>4, <1>5, <1>6

Decided(fragments, chosen) ==
    {IF f.review # "SUGGESTED" THEN f
     ELSE [f EXCEPT !.review = IF f \in chosen THEN "CONFIRMED" ELSE "REJECTED"] : f \in fragments}

\* A review decides what was suggested, and nothing else
LEMMA Reviewed ==
  ASSUME NEW fragments \in SUBSET Fragment, NEW chosen
  PROVE  /\ Decided(fragments, chosen) \in SUBSET Fragment
         /\ Decided(fragments, chosen) = {} <=> fragments = {}
         /\ \A f \in Decided(fragments, chosen) : f.review # "SUGGESTED"
<1>1. \A f \in fragments :
        LET g == IF f.review # "SUGGESTED" THEN f
                 ELSE [f EXCEPT !.review = IF f \in chosen THEN "CONFIRMED" ELSE "REJECTED"]
        IN  g \in Fragment /\ g.review # "SUGGESTED"
  BY DEF Fragment
<1>2. Decided(fragments, chosen) \in SUBSET Fragment BY <1>1 DEF Decided
<1>3. \A f \in Decided(fragments, chosen) : f.review # "SUGGESTED" BY <1>1 DEF Decided
<1> QED BY <1>2, <1>3 DEF Decided

LEMMA ConfirmKeeps == ASSUME EvidenceBounds, EvidenceInv, Confirm PROVE EvidenceInv'
<1> USE DEF EvidenceInv
<1>0. source \in SourceRow /\ source.fragments \in SUBSET Fragment BY DEF TypeInv, SourceRow
<1>1. PICK chosen : source' = [source EXCEPT !.status = "CONFIRMED",
                                             !.fragments = Decided(source.fragments, chosen)]
  BY DEF Confirm, Decided
<1>2. UNCHANGED <<evidence, rows, task, progress, strayed>> /\ source.status \in {"REVIEW_READY", "CONFIRMED"}
  BY DEF Confirm
<1>3. /\ source' \in SourceRow /\ source'.status = "CONFIRMED" /\ source'.fragments # {}
      /\ \A f \in source'.fragments : f.review # "SUGGESTED"
  <2>1. Decided(source.fragments, chosen) # {} BY <1>0, <1>2, Reviewed DEF FragmentsAreReviewed
  <2>2. Decided(source.fragments, chosen) \in SUBSET Fragment BY <1>0, Reviewed
  <2>3. \A f \in Decided(source.fragments, chosen) : f.review # "SUGGESTED" BY <1>0, Reviewed
  <2> QED BY <1>0, <1>1, <2>1, <2>2, <2>3 DEF SourceRow
<1>4. TypeInv' BY <1>2, <1>3 DEF TypeInv
<1>5. RunsWithOwner' BY <1>2 DEF RunsWithOwner, Owns
<1>6. QueuedIsOpen' BY <1>2 DEF QueuedIsOpen
<1>7. NothingIsForgotten' BY <1>2, <1>3 DEF NothingIsForgotten
<1>8. ProgressIsProven' BY <1>2 DEF ProgressIsProven
<1>9. FragmentsAreReviewed' BY <1>3 DEF FragmentsAreReviewed
<1> QED BY <1>4, <1>5, <1>6, <1>7, <1>8, <1>9

LEMMA ExpireKeeps ==
  ASSUME EvidenceBounds, EvidenceInv, NEW i \in Items, Expire(i) PROVE EvidenceInv'
<1> USE ItemsSplit DEF Expire, EvidenceInv
<1>1. /\ rows' \in [Items -> QueueRow]
      /\ \A j \in Items : rows'[j].there = rows[j].there /\ rows'[j].worker = rows[j].worker
  BY DEF TypeInv, QueueRow
<1>2. TypeInv' BY <1>1 DEF TypeInv
<1>3. RunsWithOwner' BY <1>1 DEF RunsWithOwner, Owns
<1>4. QueuedIsOpen' BY <1>1 DEF QueuedIsOpen
<1>5. NothingIsForgotten' BY <1>1 DEF NothingIsForgotten
<1>6. ProgressIsProven' BY DEF ProgressIsProven
<1>7. FragmentsAreReviewed' BY DEF FragmentsAreReviewed
<1> QED BY <1>2, <1>3, <1>4, <1>5, <1>6, <1>7

LEMMA ClaimKeeps ==
  ASSUME EvidenceBounds, EvidenceInv, NEW i \in Items, NEW w \in Workers, Claim(w, i)
  PROVE  EvidenceInv'
<1> USE ItemsSplit, RowsFit DEF Claim, EvidenceInv
<1>0. rows[i].claims + 1 \in Int BY DEF TypeInv, QueueRow
<1>1. /\ rows' \in [Items -> QueueRow] /\ rows'[i].worker = w
      /\ \A j \in Items : rows'[j].there = rows[j].there /\ (j # i => rows'[j] = rows[j])
  BY <1>0 DEF TypeInv, QueueRow
<1>2. /\ task' \in [Workers -> Task] /\ task'[w].at = "claimed"
      /\ \A v \in Workers : v # w => task'[v] = task[v]
  BY <1>0 DEF TypeInv, Task
<1>3. TypeInv' BY <1>1, <1>2 DEF TypeInv
<1>4. RunsWithOwner' BY <1>1, <1>2 DEF TypeInv, RunsWithOwner, Owns
<1>5. QueuedIsOpen' BY <1>1 DEF QueuedIsOpen
<1>6. NothingIsForgotten' BY <1>1 DEF NothingIsForgotten
<1>7. ProgressIsProven' BY DEF ProgressIsProven
<1>8. FragmentsAreReviewed' BY DEF FragmentsAreReviewed
<1> QED BY <1>3, <1>4, <1>5, <1>6, <1>7, <1>8

\* What a worker strays from it does not have, and what strayed stays so
LEMMA Strays ==
  ASSUME TypeInv, NEW w \in Workers, Handles(w)
  PROVE  /\ strayed' \subseteq Items /\ strayed \subseteq strayed'
         /\ task[w].item \notin strayed' => Owns(w) /\ rows[task[w].item].there
BY DEF TypeInv, Handles, Owns, Task

LEMMA LoadKeeps ==
  ASSUME EvidenceBounds, EvidenceInv, NEW w \in Workers, Load(w) PROVE EvidenceInv'
<1> USE ItemsSplit DEF EvidenceInv
<1>1. /\ strayed' \subseteq Items /\ strayed \subseteq strayed'
      /\ task[w].item \notin strayed' => Owns(w) /\ rows[task[w].item].there
  BY Strays DEF Load
<1>2. UNCHANGED <<rows, progress>> /\ task[w].at = "claimed" /\ task[w].claims \in Int /\ task[w].item \in Items
  BY DEF Load, At, TypeInv, Task
<1>3. CASE task[w].item = Source /\ source.status = "QUEUED"
  <2>1. /\ source' \in SourceRow /\ source'.status = "RUNNING" /\ source'.worker = w
        /\ source'.fragments = source.fragments /\ UNCHANGED evidence
    BY <1>2, <1>3 DEF Load, TypeInv, SourceRow
  <2>2. /\ task' \in [Workers -> Task] /\ task'[w].at = "asked" /\ task'[w].item = task[w].item
        /\ \A v \in Workers : v # w => task'[v] = task[v]
    BY <1>2, <1>3 DEF Load, TypeInv, Task
  <2>3. TypeInv' BY <1>1, <1>2, <2>1, <2>2 DEF TypeInv
  <2>4. RunsWithOwner' BY <1>2, <1>3, <2>1, <2>2 DEF RunsWithOwner, Owns
  <2>5. QueuedIsOpen' BY <1>2, <2>1 DEF QueuedIsOpen
  <2>6. NothingIsForgotten' BY <1>1, <1>2, <1>3, <2>1 DEF NothingIsForgotten
  <2>7. ProgressIsProven' BY <1>1, <1>2, <2>1 DEF ProgressIsProven
  <2>8. FragmentsAreReviewed' BY <1>3, <2>1 DEF FragmentsAreReviewed
  <2> QED BY <2>3, <2>4, <2>5, <2>6, <2>7, <2>8
<1>4. CASE task[w].item = Source /\ source.status # "QUEUED"
  <2>1. UNCHANGED <<source, evidence>> BY <1>4 DEF Load
  <2>2. /\ task' \in [Workers -> Task] /\ task'[w].at = "broken"
        /\ \A v \in Workers : v # w => task'[v] = task[v]
    BY <1>2, <1>4 DEF Load, TypeInv, Task
  <2>3. TypeInv' BY <1>1, <1>2, <2>1, <2>2 DEF TypeInv
  <2>4. RunsWithOwner' BY <1>2, <2>1, <2>2 DEF RunsWithOwner, Owns
  <2>5. QueuedIsOpen' BY <1>2, <2>1 DEF QueuedIsOpen
  <2>6. NothingIsForgotten' BY <1>1, <1>2, <2>1 DEF NothingIsForgotten
  <2>7. ProgressIsProven' BY <1>1, <1>2, <2>1 DEF ProgressIsProven
  <2>8. FragmentsAreReviewed' BY <2>1 DEF FragmentsAreReviewed
  <2> QED BY <2>3, <2>4, <2>5, <2>6, <2>7, <2>8
<1>5. CASE task[w].item # Source
  <2> DEFINE e == task[w].item
  <2>0. e \in Evidence BY <1>2, <1>5
  <2>1. /\ evidence' \in [Evidence -> EvidenceRow] /\ evidence'[e].status = "RUNNING" /\ UNCHANGED source
        /\ \A d \in Evidence : d # e => evidence'[d] = evidence[d]
    BY <1>2, <1>5, <2>0 DEF Load, TypeInv, EvidenceRow
  <2>2. /\ task' \in [Workers -> Task] /\ task'[w].item # Source
        /\ \A v \in Workers : v # w => task'[v] = task[v]
    BY <1>2, <1>5 DEF Load, TypeInv, Task
  <2>3. TypeInv' BY <1>1, <1>2, <2>1, <2>2 DEF TypeInv
  <2>4. RunsWithOwner' BY <1>2, <2>1, <2>2 DEF RunsWithOwner, Owns
  <2>5. QueuedIsOpen' BY <1>2, <2>1 DEF QueuedIsOpen
  <2>6. NothingIsForgotten' BY <1>1, <1>2, <2>1 DEF NothingIsForgotten
  <2>7. ProgressIsProven'
    <3>1. SUFFICES ASSUME CareerText(progress) = "held", strayed' \cap Evidence = {}
                   PROVE  \E d \in Evidence : evidence'[d].status = "VERIFIED" /\ evidence'[d].result.percent >= 75
      BY <1>2 DEF ProgressIsProven
    <3>2. PICK d \in Evidence : evidence[d].status = "VERIFIED" /\ evidence[d].result.percent >= 75
      BY <1>1, <3>1 DEF ProgressIsProven
    <3>3. d # e BY <1>1, <2>0, <3>1, <3>2 DEF QueuedIsOpen
    <3> QED BY <2>1, <3>2, <3>3
  <2>8. FragmentsAreReviewed' BY <2>1 DEF FragmentsAreReviewed
  <2> QED BY <2>3, <2>4, <2>5, <2>6, <2>7, <2>8
<1> QED BY <1>3, <1>4, <1>5

\* A worker that finishes takes the row of its item out of the queue
LEMMA Finishing ==
  ASSUME EvidenceBounds, TypeInv, NEW w \in Workers, Finished(w)
  PROVE  /\ rows' \in [Items -> QueueRow] /\ task' \in [Workers -> Task]
         /\ task[w].item \in Items /\ ~rows'[task[w].item].there /\ task'[w].at = "idle"
         /\ \A i \in Items : i # task[w].item => rows'[i] = rows[i]
         /\ \A v \in Workers : v # w => task'[v] = task[v]
<1>1. Idle \in Task BY ItemsSplit DEF Idle, Task
<1> QED BY <1>1, RowsFit DEF TypeInv, Finished, Task, Idle

LEMMA ExtractKeeps ==
  ASSUME EvidenceBounds, EvidenceInv, NEW w \in Workers, Extract(w) PROVE EvidenceInv'
<1> USE ItemsSplit DEF EvidenceInv
<1>1. /\ strayed' \subseteq Items /\ strayed \subseteq strayed'
      /\ task[w].item \notin strayed' => Owns(w) /\ rows[task[w].item].there
  BY Strays DEF Extract
<1>2. /\ rows' \in [Items -> QueueRow] /\ task' \in [Workers -> Task]
      /\ ~rows'[Source].there /\ task'[w].at = "idle" /\ task[w].at = "asked" /\ task[w].item = Source
      /\ \A i \in Items : i # Source => rows'[i] = rows[i]
      /\ \A v \in Workers : v # w => task'[v] = task[v]
  BY Finishing DEF Extract, At
<1>3. UNCHANGED <<evidence, progress>> BY DEF Extract
<1>4. PICK found \in Extracted : Stores(found) BY DEF Extract
<1>5. /\ source' \in SourceRow
      /\ source.status # "RUNNING" => source' = source
      /\ source.status = "RUNNING" => source'.status = "REVIEW_READY" /\ source'.fragments = found
  <2>1. CASE source.status # "RUNNING" BY <1>4, <2>1 DEF TypeInv, Stores
  <2>2. CASE source.status = "RUNNING"
    <3>1. source.fragments = {} BY <2>2 DEF FragmentsAreReviewed
    <3>2. source' = [source EXCEPT !.status = "REVIEW_READY", !.fragments = found]
      BY <1>4, <2>2, <3>1 DEF Stores, TypeInv, SourceRow
    <3> QED BY <2>2, <3>2, ExtractedFit DEF TypeInv, SourceRow
  <2> QED BY <2>1, <2>2
<1>6. found # {} BY ExtractedFit
<1>7. TypeInv' BY <1>1, <1>2, <1>3, <1>5 DEF TypeInv
<1>8. RunsWithOwner' BY <1>2 DEF TypeInv, RunsWithOwner, Owns
<1>9. QueuedIsOpen' BY <1>2, <1>3 DEF QueuedIsOpen
<1>10. NothingIsForgotten'
  <2>1. Source \notin strayed' => source'.status \notin {"QUEUED", "RUNNING"}
    BY <1>1, <1>2, <1>5 DEF RunsWithOwner
  <2> QED BY <1>1, <1>2, <1>3, <2>1 DEF NothingIsForgotten
<1>11. ProgressIsProven' BY <1>1, <1>3 DEF ProgressIsProven
<1>12. FragmentsAreReviewed' BY <1>5, <1>6 DEF FragmentsAreReviewed
<1> QED BY <1>7, <1>8, <1>9, <1>10, <1>11, <1>12

LEMMA VerifyKeeps ==
  ASSUME EvidenceBounds, EvidenceInv, NEW w \in Workers, Verify(w) PROVE EvidenceInv'
<1> USE ItemsSplit DEF EvidenceInv
<1> DEFINE e == task[w].item
<1>1. strayed' \subseteq Items /\ strayed \subseteq strayed'
      /\ (e \notin strayed' => rows[e].there)
  BY Strays DEF Verify
<1>2. /\ rows' \in [Items -> QueueRow] /\ task' \in [Workers -> Task] /\ e \in Evidence
      /\ ~rows'[e].there /\ task'[w].at = "idle"
      /\ \A i \in Items : i # e => rows'[i] = rows[i]
      /\ \A v \in Workers : v # w => task'[v] = task[v]
  BY Finishing DEF Verify
<1>3. UNCHANGED source BY DEF Verify
<1>4. PICK read \in Reads :
        /\ evidence' = [evidence EXCEPT ![e].status = Verdict(Answer(read)), ![e].result = Answer(read)]
        /\ progress' = IF Verdict(Answer(read)) = "VERIFIED" THEN "COMPLETED" ELSE progress
  BY DEF Verify
<1>5. /\ evidence' \in [Evidence -> EvidenceRow]
      /\ evidence'[e].status = Verdict(Answer(read)) /\ evidence'[e].result = Answer(read)
      /\ \A d \in Evidence : d # e => evidence'[d] = evidence[d]
  BY <1>2, <1>4, AnswerFits DEF TypeInv, EvidenceRow
<1>6. TypeInv' BY <1>1, <1>2, <1>3, <1>4, <1>5 DEF TypeInv
<1>7. RunsWithOwner' BY <1>2, <1>3 DEF TypeInv, RunsWithOwner, Owns
<1>8. QueuedIsOpen' BY <1>2, <1>5 DEF QueuedIsOpen
<1>9. NothingIsForgotten' BY <1>1, <1>2, <1>3, <1>5, AnswerFits DEF NothingIsForgotten
<1>10. ProgressIsProven'
  <2>1. CASE Verdict(Answer(read)) = "VERIFIED"
    BY <1>2, <1>5, <2>1, AnswerFits DEF ProgressIsProven
  <2>2. CASE Verdict(Answer(read)) # "VERIFIED"
    <3>1. SUFFICES ASSUME CareerText(progress) = "held", strayed' \cap Evidence = {}
                   PROVE  \E d \in Evidence : evidence'[d].status = "VERIFIED" /\ evidence'[d].result.percent >= 75
      BY <1>4, <2>2 DEF ProgressIsProven
    <3>2. PICK d \in Evidence : evidence[d].status = "VERIFIED" /\ evidence[d].result.percent >= 75
      BY <1>1, <3>1 DEF ProgressIsProven
    <3>3. d # e BY <1>1, <1>2, <3>1, <3>2 DEF QueuedIsOpen
    <3> QED BY <1>5, <3>2, <3>3
  <2> QED BY <2>1, <2>2
<1>11. FragmentsAreReviewed' BY <1>3 DEF FragmentsAreReviewed
<1> QED BY <1>6, <1>7, <1>8, <1>9, <1>10, <1>11

LEMMA FailKeeps ==
  ASSUME EvidenceBounds, EvidenceInv, NEW w \in Workers, Fail(w) PROVE EvidenceInv'
<1> USE ItemsSplit DEF EvidenceInv
<1>1. /\ rows' \in [Items -> QueueRow] /\ task' \in [Workers -> Task] /\ task[w].item \in Items
      /\ ~rows'[task[w].item].there /\ task'[w].at = "idle"
      /\ \A i \in Items : i # task[w].item => rows'[i] = rows[i]
      /\ \A v \in Workers : v # w => task'[v] = task[v]
  BY Finishing DEF Fail
<1>2. UNCHANGED progress BY DEF Fail
<1>3. CASE task[w].item = Source
  <2>1. /\ strayed' \subseteq Items /\ strayed \subseteq strayed'
        /\ source.status = "QUEUED" => Source \in strayed'
    BY <1>3, Strays DEF Fail, TypeInv
  <2>2. /\ source' \in SourceRow /\ source'.status # "RUNNING" /\ source'.fragments = source.fragments
        /\ source.status = "RUNNING" => source'.status = "FAILED"
        /\ source.status # "RUNNING" => source'.status = source.status
    BY <1>3 DEF Fail, TypeInv, SourceRow
  <2>3. UNCHANGED evidence BY <1>3 DEF Fail
  <2>4. TypeInv' BY <1>1, <1>2, <2>1, <2>2, <2>3 DEF TypeInv
  <2>5. RunsWithOwner' BY <1>1, <1>3 DEF TypeInv, RunsWithOwner, Owns
  <2>6. QueuedIsOpen' BY <1>1, <1>3, <2>3 DEF QueuedIsOpen
  <2>7. NothingIsForgotten' BY <1>1, <1>3, <2>1, <2>2, <2>3 DEF NothingIsForgotten
  <2>8. ProgressIsProven' BY <1>2, <2>1, <2>3 DEF ProgressIsProven
  <2>9. FragmentsAreReviewed' BY <2>2 DEF FragmentsAreReviewed
  <2> QED BY <2>4, <2>5, <2>6, <2>7, <2>8, <2>9
<1>4. CASE task[w].item # Source
  <2> DEFINE e == task[w].item
  <2>0. e \in Evidence BY <1>1, <1>4
  <2>1. /\ strayed' \subseteq Items /\ strayed \subseteq strayed'
        /\ e \notin strayed' => rows[e].there
    BY <1>4, Strays DEF Fail, TypeInv
  <2>2. /\ evidence' \in [Evidence -> EvidenceRow] /\ evidence'[e].status = "FAILED"
        /\ \A d \in Evidence : d # e => evidence'[d] = evidence[d]
    BY <1>4, <2>0 DEF Fail, TypeInv, EvidenceRow
  <2>3. UNCHANGED source BY <1>4 DEF Fail
  <2>4. TypeInv' BY <1>1, <1>2, <2>1, <2>2, <2>3 DEF TypeInv
  <2>5. RunsWithOwner' BY <1>1, <1>4, <2>3 DEF TypeInv, RunsWithOwner, Owns
  <2>6. QueuedIsOpen' BY <1>1, <2>2 DEF QueuedIsOpen
  <2>7. NothingIsForgotten' BY <1>1, <1>4, <2>1, <2>2, <2>3 DEF NothingIsForgotten
  <2>8. ProgressIsProven'
    <3>1. SUFFICES ASSUME CareerText(progress) = "held", strayed' \cap Evidence = {}
                   PROVE  \E d \in Evidence : evidence'[d].status = "VERIFIED" /\ evidence'[d].result.percent >= 75
      BY <1>2 DEF ProgressIsProven
    <3>2. PICK d \in Evidence : evidence[d].status = "VERIFIED" /\ evidence[d].result.percent >= 75
      BY <2>1, <3>1 DEF ProgressIsProven
    <3>3. d # e BY <2>0, <2>1, <3>1, <3>2 DEF QueuedIsOpen
    <3> QED BY <2>2, <3>2, <3>3
  <2>9. FragmentsAreReviewed' BY <2>3 DEF FragmentsAreReviewed
  <2> QED BY <2>4, <2>5, <2>6, <2>7, <2>8, <2>9
<1> QED BY <1>3, <1>4

LEMMA CrashKeeps ==
  ASSUME EvidenceBounds, EvidenceInv, NEW w \in Workers, Crash(w) PROVE EvidenceInv'
<1> USE ItemsSplit DEF EvidenceInv, Crash
<1>1. /\ task' \in [Workers -> Task] /\ task'[w].at = "gone"
      /\ \A v \in Workers : v # w => task'[v] = task[v]
  BY DEF TypeInv, Task, Idle
<1>2. TypeInv' BY <1>1 DEF TypeInv
<1>3. RunsWithOwner' BY <1>1 DEF TypeInv, RunsWithOwner, Owns
<1>4. QueuedIsOpen' BY DEF QueuedIsOpen
<1>5. NothingIsForgotten' BY DEF NothingIsForgotten
<1>6. ProgressIsProven' BY DEF ProgressIsProven
<1>7. FragmentsAreReviewed' BY DEF FragmentsAreReviewed
<1> QED BY <1>2, <1>3, <1>4, <1>5, <1>6, <1>7

LEMMA ShutdownKeeps ==
  ASSUME EvidenceBounds, EvidenceInv, NEW w \in Workers, Shutdown(w) PROVE EvidenceInv'
<1> USE ItemsSplit DEF EvidenceInv
<1> DEFINE Mine(i) == rows[i].there /\ rows[i].worker = w
<1>1. /\ rows' \in [Items -> QueueRow]
      /\ \A i \in Items : /\ rows'[i].there = rows[i].there
                          /\ Mine(i) => rows'[i].worker = Nobody
                          /\ ~Mine(i) => rows'[i] = rows[i]
  <2>1. rows' = [i \in Items |-> IF Mine(i) THEN [NewRow EXCEPT !.claims = rows[i].claims - 1] ELSE rows[i]]
    BY DEF Shutdown
  <2>2. \A i \in Items : rows[i] \in QueueRow /\ rows[i].claims - 1 \in Int BY DEF TypeInv, QueueRow
  <2> QED BY <2>1, <2>2, RowsFit DEF QueueRow, NewRow, NoRow
<1>2. /\ task' \in [Workers -> Task] /\ task'[w].at # "asked"
      /\ \A v \in Workers : v # w => task'[v] = task[v]
  BY DEF Shutdown, TypeInv, Task
<1>3. /\ evidence' \in [Evidence -> EvidenceRow]
      /\ \A e \in Evidence :
           /\ evidence'[e].result = evidence[e].result
           /\ \/ evidence'[e].status = evidence[e].status
              \/ evidence[e].status = "RUNNING" /\ evidence'[e].status = "PENDING"
  BY DEF Shutdown, TypeInv, EvidenceRow, Back
<1>4. /\ source' \in SourceRow /\ source'.fragments = source.fragments
      /\ \/ source' = source
         \/ source.status = "RUNNING" /\ source.worker = w /\ source'.status = "QUEUED"
  BY DEF Shutdown, TypeInv, SourceRow
<1>5. UNCHANGED <<progress, strayed>> BY DEF Shutdown
<1>6. TypeInv' BY <1>1, <1>2, <1>3, <1>4, <1>5 DEF TypeInv
<1>7. RunsWithOwner'
  <2>1. SUFFICES ASSUME NEW v \in Workers, task'[v].at = "asked", task'[v].item = Source, Owns(v)'
                 PROVE  source'.status = "RUNNING" /\ source'.worker = v
    BY DEF RunsWithOwner
  <2>2. v # w /\ task'[v] = task[v] BY <1>2, <2>1
  <2>3. rows'[Source] = rows[Source] BY <1>1, <2>1, <2>2 DEF Owns
  <2>4. Owns(v) BY <2>1, <2>2, <2>3 DEF Owns
  <2> QED BY <1>4, <2>1, <2>2, <2>4 DEF RunsWithOwner
<1>8. QueuedIsOpen' BY <1>1, <1>3 DEF QueuedIsOpen
<1>9. NothingIsForgotten' BY <1>1, <1>3, <1>4, <1>5 DEF NothingIsForgotten
<1>10. ProgressIsProven' BY <1>3, <1>5 DEF ProgressIsProven
<1>11. FragmentsAreReviewed' BY <1>4 DEF FragmentsAreReviewed
<1> QED BY <1>6, <1>7, <1>8, <1>9, <1>10, <1>11

LEMMA RecoverKeeps == ASSUME EvidenceBounds, EvidenceInv, Recover PROVE EvidenceInv'
<1> USE ItemsSplit DEF EvidenceInv
<1>1. /\ rows' \in [Items -> QueueRow]
      /\ \A i \in Items :
           /\ rows'[i].there <=> rows[i].there /\ ~(Exhausted(i) /\ GivenUp(i) = "FAILED")
           /\ Released(i) /\ rows'[i].there /\ ~Exhausted(i) => rows'[i].worker = Nobody
           /\ ~Released(i) /\ rows'[i].there => rows'[i] = rows[i]
  <2>1. rows' = [i \in Items |-> IF Exhausted(i) /\ GivenUp(i) = "FAILED" THEN NoRow
                                 ELSE IF Released(i) THEN [NewRow EXCEPT !.claims = rows[i].claims] ELSE rows[i]]
    BY DEF Recover
  <2>2. \A i \in Items : rows[i] \in QueueRow /\ rows[i].claims \in Int /\ (Released(i) => rows[i].there)
    BY DEF TypeInv, QueueRow, Released
  <2> QED BY <2>1, <2>2, RowsFit DEF QueueRow, NewRow, NoRow
<1>2. \A i \in Items : ~(Exhausted(i) /\ Released(i))
  BY DEF TypeInv, QueueRow, Exhausted, Released, EvidenceBounds
<1>3. /\ source' \in SourceRow /\ source'.fragments = source.fragments
      /\ Exhausted(Source) => source'.status = GivenUp(Source)
      /\ ~Exhausted(Source) /\ Released(Source) => source'.status = Back(Source)
      /\ ~Exhausted(Source) /\ ~Released(Source) => source' = source
  BY DEF Recover, TypeInv, SourceRow, GivenUp, Back
<1>4. /\ evidence' \in [Evidence -> EvidenceRow]
      /\ \A e \in Evidence :
           /\ evidence'[e].result = evidence[e].result
           /\ Exhausted(e) => evidence'[e].status = GivenUp(e)
           /\ ~Exhausted(e) /\ Released(e) => evidence'[e].status = Back(e)
           /\ ~Exhausted(e) /\ ~Released(e) => evidence'[e] = evidence[e]
  BY DEF Recover, TypeInv, EvidenceRow, GivenUp, Back
<1>5. UNCHANGED <<task, progress, strayed>> BY DEF Recover
<1>6. \A e \in Evidence : e # Source BY ItemsSplit
<1>7. TypeInv' BY <1>1, <1>3, <1>4, <1>5 DEF TypeInv
<1>8. RunsWithOwner'
  <2>1. SUFFICES ASSUME NEW v \in Workers, task[v].at = "asked", task[v].item = Source, Owns(v)'
                 PROVE  source'.status = "RUNNING" /\ source'.worker = v
    BY <1>5 DEF RunsWithOwner
  <2>2. rows'[Source].there /\ rows'[Source].worker = v /\ v # Nobody BY <1>5, <2>1 DEF Owns
  <2>3. ~Released(Source) BY <1>1, <1>2, <2>2
  <2>4. rows'[Source] = rows[Source] BY <1>1, <2>2, <2>3
  <2>5. source.status = "RUNNING" /\ source.worker = v BY <2>1, <2>2, <2>4 DEF RunsWithOwner, Owns
  <2>6. ~Exhausted(Source) BY <1>1, <2>2, <2>5 DEF GivenUp
  <2> QED BY <1>3, <2>3, <2>5, <2>6
<1>9. QueuedIsOpen' BY <1>1, <1>2, <1>4, <1>6 DEF QueuedIsOpen, GivenUp, Back
<1>10. NothingIsForgotten'
  <2>1. source'.status \in {"QUEUED", "RUNNING"} /\ rows[Source].there => rows'[Source].there
    BY <1>1, <1>3
  <2>2. source'.status \in {"QUEUED", "RUNNING"} => source.status \in {"QUEUED", "RUNNING"}
    BY <1>3 DEF GivenUp, Back
  <2>3. \A e \in Evidence :
          evidence'[e].status \in {"PENDING", "RUNNING"} =>
            evidence[e].status \in {"PENDING", "RUNNING"} /\ (rows[e].there => rows'[e].there)
    BY <1>1, <1>4, <1>6 DEF GivenUp, Back
  <2> QED BY <1>5, <2>1, <2>2, <2>3 DEF NothingIsForgotten
<1>11. ProgressIsProven'
  <2>1. \A e \in Evidence : evidence[e].status = "VERIFIED" => evidence'[e].status = "VERIFIED"
    BY <1>4, <1>6 DEF GivenUp, Back
  <2> QED BY <1>4, <1>5, <2>1 DEF ProgressIsProven
<1>12. FragmentsAreReviewed'
  <2>1. source.status \in {"REVIEW_READY", "CONFIRMED"} => source'.status = source.status
    BY <1>3 DEF GivenUp, Back
  <2>2. source'.status \in {"REVIEW_READY", "CONFIRMED"} => source'.status = source.status
    BY <1>3 DEF GivenUp, Back
  <2> QED BY <1>3, <2>1, <2>2 DEF FragmentsAreReviewed
<1> QED BY <1>7, <1>8, <1>9, <1>10, <1>11, <1>12

LEMMA CareerStays ==
  ASSUME EvidenceBounds, EvidenceInv, [EvidenceNext]_evidenceVars PROVE EvidenceInv'
<1>1. CASE UNCHANGED evidenceVars
  BY <1>1 DEF EvidenceInv, evidenceVars, TypeInv, RunsWithOwner, Owns, QueuedIsOpen, NothingIsForgotten,
              ProgressIsProven, FragmentsAreReviewed
<1>2. CASE EvidenceNext
  BY <1>2, CreateKeeps, RetrySourceKeeps, CancelKeeps, ConfirmKeeps, DeleteKeeps, RecoverKeeps,
     SubmitKeeps, RetryEvidenceKeeps, ExpireKeeps, ClaimKeeps, LoadKeeps, ExtractKeeps, VerifyKeeps,
     FailKeeps, CrashKeeps, ShutdownKeeps
     DEF EvidenceNext
<1> QED BY <1>1, <1>2

-----------------------------------------------------------------------------
(* What is proved *)

\* Nothing that waits is forgotten, what is shown as held was proved, and the
\* fragments of a source are those of one reading
THEOREM CareerIsProven ==
  EvidenceBounds =>
    (EvidenceSpec => [](NothingIsForgotten /\ ProgressIsProven /\ FragmentsAreReviewed))
<1> SUFFICES ASSUME EvidenceBounds
             PROVE  EvidenceSpec => [](NothingIsForgotten /\ ProgressIsProven /\ FragmentsAreReviewed)
  OBVIOUS
<1>1. EvidenceInit => EvidenceInv BY CareerStarts
<1>2. EvidenceInv /\ [EvidenceNext]_evidenceVars => EvidenceInv' BY CareerStays
<1>3. EvidenceInv => NothingIsForgotten /\ ProgressIsProven /\ FragmentsAreReviewed BY DEF EvidenceInv
<1> QED BY <1>1, <1>2, <1>3, PTL DEF EvidenceSpec

\* What the user confirmed stands until he deletes the source
LEMMA ConfirmedStays ==
  ASSUME EvidenceBounds, EvidenceInv, [EvidenceNext]_evidenceVars PROVE ConfirmedStandsStep
<1>0. source \in SourceRow /\ source.fragments \in SUBSET Fragment BY DEF EvidenceInv, TypeInv, SourceRow
<1>1. ASSUME source'.fragments = source.fragments PROVE ConfirmedStandsStep
  BY <1>1 DEF ConfirmedStandsStep
<1>2. CASE Confirm
  <2>1. PICK chosen : source'.fragments = Decided(source.fragments, chosen)
    BY <1>0, <1>2 DEF Confirm, Decided, SourceRow
  <2>2. \A f \in source.fragments : f.review = "CONFIRMED" => f \in Decided(source.fragments, chosen)
    BY DEF Decided
  <2> QED BY <2>1, <2>2 DEF ConfirmedStandsStep
<1>3. CASE DeleteSource BY <1>0, <1>3 DEF DeleteSource, ConfirmedStandsStep, SourceRow
<1>4. ASSUME NEW w \in Workers, Extract(w) PROVE ConfirmedStandsStep
  <2>1. source.status = "RUNNING" => source.fragments = {} BY DEF EvidenceInv, FragmentsAreReviewed
  <2>2. source.status # "RUNNING" => source' = source BY <1>4 DEF Extract, Stores
  <2> QED BY <1>1, <2>1, <2>2 DEF ConfirmedStandsStep
<1>5. ASSUME NEW w \in Workers, Load(w) \/ Verify(w) \/ Fail(w) \/ Crash(w) \/ Shutdown(w)
      PROVE  source'.fragments = source.fragments
  BY <1>0, <1>5 DEF Load, Verify, Fail, Crash, Shutdown, SourceRow
<1>6. ASSUME Create \/ RetrySource \/ CancelSource \/ Recover PROVE source'.fragments = source.fragments
  BY <1>0, <1>6 DEF Create, RetrySource, CancelSource, Recover, SourceRow
<1>7. ASSUME NEW e \in Evidence, Submit(e) \/ RetryEvidence(e) PROVE source'.fragments = source.fragments
  BY <1>7 DEF Submit, RetryEvidence
<1>8. ASSUME NEW i \in Items, Expire(i) \/ \E w \in Workers : Claim(w, i)
      PROVE  source'.fragments = source.fragments
  BY <1>8 DEF Expire, Claim
<1>9. CASE UNCHANGED evidenceVars BY <1>1, <1>9 DEF evidenceVars
<1> QED BY <1>1, <1>2, <1>3, <1>4, <1>5, <1>6, <1>7, <1>8, <1>9 DEF EvidenceNext

\* The same of every behaviour (CareerExtractionWorker, complete; confirmSource)
THEOREM ConfirmedStands ==
  EvidenceBounds => (EvidenceSpec => [][ConfirmedStandsStep]_evidenceVars)
<1> SUFFICES ASSUME EvidenceBounds PROVE EvidenceSpec => [][ConfirmedStandsStep]_evidenceVars
  OBVIOUS
<1>1. EvidenceInit => EvidenceInv BY CareerStarts
<1>2. EvidenceInv /\ [EvidenceNext]_evidenceVars => EvidenceInv' BY CareerStays
<1>3. EvidenceInv /\ [EvidenceNext]_evidenceVars => [ConfirmedStandsStep]_evidenceVars BY ConfirmedStays
<1> QED BY <1>1, <1>2, <1>3, PTL DEF EvidenceSpec
=============================================================================
