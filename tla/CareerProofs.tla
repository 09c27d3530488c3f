--------------------------- MODULE CareerProofs ---------------------------
(***************************************************************************)
(* What CareerPipeline promises the users of any number of jobs, however   *)
(* often they retry and whatever the language model finds.  The heart of   *)
(* it is the invariant Structured: what a job has answered fits what it    *)
(* has structured, and the run of a job works on a structure of the same   *)
(* positions.                                                              *)
(***************************************************************************)
EXTENDS CareerPipeline, FiniteSetTheorems, TLAPS

JobFields == {"status", "own", "answers", "confirmed", "asked", "settled", "active", "evidence", "retries",
              "telling"}
RunFields == {"pc", "structure", "position", "track", "planned", "stages", "outcome",
              "ask", "told"}
Shape ==
    /\ DOMAIN job = Jobs /\ \A j \in Jobs : DOMAIN job[j] = JobFields
    /\ DOMAIN run = Jobs /\ \A j \in Jobs : DOMAIN run[j] = RunFields

\* A structure that is there has at least one position
Whole(s) ==
    DOMAIN s = {"version", "kinds", "detail"} /\ (s # NoStructure => Len(s.kinds) \in Nat \ {0})

\* What was answered about a structure: each question once, with what was offered,
\* and nothing that it does not ask.
Fits(s, answers) ==
    /\ s = NoStructure => answers = {}
    /\ \A a, b \in answers : a.key = b.key => a.value = b.value
    /\ \A a \in answers : a.key = PositionKey(s) => a.value \in 1 .. Len(s.kinds)
    /\ s # NoStructure => Resolve(s, answers).status \in {"READY", "AWAITING_ANSWER"}

Asks(s, answers, key) ==
    /\ s # NoStructure
    /\ key[1] \in {"position", "track"} =>
         Resolve(s, answers).status = "AWAITING_ANSWER" /\ Resolve(s, answers).ask = key

Bound == {"discover", "resolve", "detail", "review", "plan", "graph", "fit", "roadmap"}
Planned == {"graph", "fit", "roadmap", "done"}

\* Where a run may be, and what it may end with
Life(j) ==
    /\ job[j].status \in {"NEW", "QUEUED", "WAITING"} => run[j].pc = "off"
    /\ run[j].pc # "done" => run[j].outcome = "NONE"
    /\ run[j].planned # NoReview => run[j].pc \in Planned
    /\ run[j].outcome \notin {"ANALYSIS_STALE_RESULT", "AMBIGUITY_UNRESOLVED"}

\* A mark that is there while a run is bound was set while it was
Marked(j) ==
    /\ run[j].pc \in Bound /\ j \in cancelled => run[j].told
    /\ run[j].outcome = "ANALYSIS_CANCELLED" => run[j].told

Structured(j) ==
    /\ Whole(job[j].own) /\ Whole(run[j].structure) /\ Fits(job[j].own, job[j].answers)
    /\ run[j].pc \in {"load", "acquire", "discover"} => run[j].structure = NoStructure
    /\ run[j].pc # "off" /\ job[j].own # NoStructure =>
         run[j].structure # NoStructure /\ run[j].structure.kinds = job[j].own.kinds
    /\ run[j].pc \in Bound \ {"discover"} => run[j].structure # NoStructure
    /\ run[j].outcome = "COMPLETED" => run[j].structure # NoStructure

\* What is asked is open: by a run that stops, and by a job that waits
Open(j) ==
    /\ run[j].outcome \in WaitingStages => Asks(run[j].structure, job[j].answers, run[j].ask)
    /\ job[j].status = "WAITING" => Asks(job[j].own, job[j].answers, job[j].active)

Chosen(s, answers, position, track) ==
    LET r == Resolve(s, answers)
    IN  r.status = "READY" /\ r.position = position /\ r.track = track

\* A run past its resolution has the position and the track that were chosen, and
\* past the review it has what was confirmed
Settled(j) ==
    /\ run[j].pc \in {"detail", "review", "plan"} =>
         Chosen(run[j].structure, job[j].answers, run[j].position, run[j].track)
    /\ run[j].pc = "plan" =>
         job[j].confirmed = Review(run[j].structure, run[j].position, run[j].track)
    /\ run[j].planned # NoReview =>
         /\ run[j].planned = job[j].confirmed
         /\ Chosen(run[j].structure, job[j].answers, run[j].planned.position, run[j].planned.track)

JobInv(j) == Life(j) /\ Marked(j) /\ Structured(j) /\ Open(j) /\ Settled(j)

CareerInv == Shape /\ Whole(cache) /\ \A j \in Jobs : JobInv(j)

-----------------------------------------------------------------------------
(* Resolving a posting *)

\* Only the positions of a structure matter.
LEMMA SameKinds ==
    ASSUME NEW s, NEW t, NEW answers, s.kinds = t.kinds
    PROVE  /\ Resolve(s, answers) = Resolve(t, answers) /\ PositionKey(s) = PositionKey(t)
           /\ PositionOf(s, answers) = PositionOf(t, answers)
<1>1. PositionKey(s) = PositionKey(t)
  BY DEF PositionKey
<1>2. PositionOf(s, answers) = PositionOf(t, answers)
  BY <1>1 DEF PositionOf
<1>3. \A p : KindOf(s, p) = KindOf(t, p)
  BY DEF KindOf
<1>4. \A p : TrackOf(s, p, answers) = TrackOf(t, p, answers) /\ KeysOf(s, p) = KeysOf(t, p)
  BY <1>1, <1>3 DEF TrackOf, KeysOf
<1> QED BY <1>1, <1>2, <1>4 DEF Resolve

\* The question of a posting that asks, and the choices of one that does not.
LEMMA Resolved ==
    ASSUME NEW s, NEW answers, NEW p, p = PositionOf(s, answers),
           Len(s.kinds) \in Nat
    PROVE  /\ Resolve(s, answers).status \in {"READY", "AWAITING_ANSWER", "AMBIGUITY_UNRESOLVED",
                                              "ANALYSIS_STALE_RESULT"}
           /\ Resolve(s, answers).position = p
           /\ Resolve(s, answers).status = "AWAITING_ANSWER" <=>
                /\ \A a \in answers : a.key \in KeysOf(s, p)
                /\ p = 0 \/ (p \in 1 .. Len(s.kinds) /\ TrackOf(s, p, answers) = {})
           /\ Resolve(s, answers).status = "READY" <=>
                /\ \A a \in answers : a.key \in KeysOf(s, p)
                /\ p \in 1 .. Len(s.kinds) /\ TrackOf(s, p, answers) # {}
           /\ Resolve(s, answers).status = "AWAITING_ANSWER" =>
                Resolve(s, answers).ask = IF p = 0 THEN PositionKey(s) ELSE TrackKey(p)
           /\ Resolve(s, answers).status = "READY" =>
                Resolve(s, answers).track \in TrackOf(s, p, answers)
<1> DEFINE stale == \E a \in answers : a.key \notin KeysOf(s, p)
           valid == p \in 1 .. Len(s.kinds)
           track == TrackOf(s, p, answers)
           Result(status, ask, t) == [status |-> status, ask |-> ask, position |-> p, track |-> t]
           r == Resolve(s, answers)
<1>1. r = CASE p # 0 /\ ~valid -> Result("AMBIGUITY_UNRESOLVED", NoKey, "UNKNOWN")
            [] p = 0 /\ ~stale -> Result("AWAITING_ANSWER", PositionKey(s), "UNKNOWN")
            [] valid /\ ~stale /\ track = {} -> Result("AWAITING_ANSWER", TrackKey(p), "UNKNOWN")
            [] valid /\ ~stale /\ track # {} -> Result("READY", NoKey, CHOOSE t \in track : TRUE)
            [] OTHER -> Result("ANALYSIS_STALE_RESULT", NoKey, "UNKNOWN")
  BY DEF Resolve
<1> HIDE DEF r
<1>2. p = 0 => ~valid
  BY DEF valid
<1> HIDE DEF stale, valid
<1>3. CASE p # 0 /\ ~valid
  BY <1>1, <1>2, <1>3 DEF r, stale, valid
<1>4. CASE p = 0 /\ ~stale
  BY <1>1, <1>2, <1>4 DEF r, stale, valid
<1>5. CASE p = 0 /\ stale
  BY <1>1, <1>2, <1>5 DEF r, stale, valid
<1>6. CASE valid /\ stale
  BY <1>1, <1>2, <1>6 DEF r, stale, valid
<1>7. CASE valid /\ ~stale /\ track = {}
  BY <1>1, <1>2, <1>7 DEF r, stale, valid
<1>8. CASE valid /\ ~stale /\ track # {}
  BY <1>1, <1>2, <1>8 DEF r, stale, valid
<1> QED BY <1>3, <1>4, <1>5, <1>6, <1>7, <1>8

\* The position of a posting of one is that one, and of several the one answered.
LEMMA Positioned ==
    ASSUME NEW s, NEW answers, Len(s.kinds) \in Nat
    PROVE  /\ Len(s.kinds) = 1 => PositionOf(s, answers) = 1
           /\ Len(s.kinds) # 1 /\ Answered(answers, PositionKey(s)) = {} => PositionOf(s, answers) = 0
           /\ Len(s.kinds) # 1 /\ Answered(answers, PositionKey(s)) # {} =>
                PositionOf(s, answers) \in Answered(answers, PositionKey(s))
BY DEF PositionOf

\* A posting about which nothing was answered asks, or needs no answer.
LEMMA NothingAnswered ==
    ASSUME NEW s, Len(s.kinds) \in Nat \ {0} PROVE Fits(s, {})
<1> DEFINE p == PositionOf(s, {})
<1>1. p = 0 \/ p \in 1 .. Len(s.kinds)
  BY Positioned DEF Answered
<1>2. Resolve(s, {}).status \in {"READY", "AWAITING_ANSWER"}
  BY <1>1, Resolved
<1> QED BY <1>2 DEF Fits

\* The question that is open has no answer yet; whichever is given, the posting asks
\* the next question or none.
LEMMA AnswerFits ==
    ASSUME NEW s, s # NoStructure, Len(s.kinds) \in Nat \ {0}, NEW answers, Fits(s, answers),
           Resolve(s, answers).status = "AWAITING_ANSWER", NEW key, key = Resolve(s, answers).ask,
           NEW v, key[1] = "position" => v \in 1 .. Len(s.kinds)
    PROVE  Fits(s, answers \cup {[key |-> key, value |-> v]})
<1> DEFINE p == PositionOf(s, answers)
           more == answers \cup {[key |-> key, value |-> v]}
           q == PositionOf(s, more)
<1>1. /\ \A a \in answers : a.key \in KeysOf(s, p)
      /\ p = 0 \/ (p \in 1 .. Len(s.kinds) /\ TrackOf(s, p, answers) = {})
      /\ key = IF p = 0 THEN PositionKey(s) ELSE TrackKey(p)
  BY Resolved
<1>2. ASSUME \A a \in answers : a.key # key,
             key = PositionKey(s) => v \in 1 .. Len(s.kinds),
             q \in 1 .. Len(s.kinds), \A a \in more : a.key \in KeysOf(s, q)
      PROVE  Fits(s, more)
  <2>1. Resolve(s, more).status \in {"READY", "AWAITING_ANSWER"}
    <3>1. q = PositionOf(s, more) /\ (TrackOf(s, q, more) = {} \/ TrackOf(s, q, more) # {})
      OBVIOUS
    <3> HIDE DEF more, q
    <3> QED BY <1>2, <3>1, Resolved
  <2>2. \A a, b \in more : a.key = b.key => a.value = b.value
    BY <1>2 DEF Fits
  <2>3. \A a \in more : a.key = PositionKey(s) => a.value \in 1 .. Len(s.kinds)
    BY <1>2 DEF Fits
  <2> QED BY <2>1, <2>2, <2>3 DEF Fits
<1>3. CASE p = 0
  <2>1. key = PositionKey(s) /\ key[1] = "position" /\ Len(s.kinds) # 1
    <3>1. key = PositionKey(s)
      BY <1>1, <1>3
    <3>2. key[1] = "position"
      BY <3>1 DEF PositionKey
    <3>3. Len(s.kinds) # 1
      BY <1>3, Positioned
    <3> QED BY <3>1, <3>2, <3>3
  <2>2. KindOf(s, p) = "UNSPECIFIED"
    BY <1>3 DEF KindOf
  <2>3. \A a \in answers : a.key = PositionKey(s)
    BY <1>1, <2>2 DEF KeysOf
  <2>4. answers = {}
    <3> SUFFICES ASSUME NEW a \in answers PROVE FALSE
      OBVIOUS
    <3>1. a.value \in Answered(answers, PositionKey(s)) /\ a.value \in 1 .. Len(s.kinds)
      BY <2>3 DEF Answered, Fits
    <3>2. p \in Answered(answers, PositionKey(s))
      BY <2>1, <3>1, Positioned
    <3>3. p \in 1 .. Len(s.kinds)
      BY <3>2 DEF Answered, Fits
    <3> QED BY <1>3, <3>3
  <2>5. Answered(more, PositionKey(s)) = {v}
    <3>1. \A b \in more : b.key = PositionKey(s) /\ b.value = v
      BY <2>1, <2>4
    <3>2. \E b \in more : TRUE
      OBVIOUS
    <3> HIDE DEF more
    <3> QED BY <3>1, <3>2 DEF Answered
  <2>6. q = v /\ v \in 1 .. Len(s.kinds)
    BY <2>1, <2>5, Positioned
  <2>7. \A a \in more : a.key \in KeysOf(s, q)
    BY <2>1, <2>4 DEF KeysOf
  <2> QED BY <1>2, <2>4, <2>6, <2>7
<1>4. CASE p # 0
  <2>1. p \in 1 .. Len(s.kinds) /\ TrackOf(s, p, answers) = {} /\ key = TrackKey(p)
    BY <1>1, <1>4
  <2>2. KindOf(s, p) = "NEW_GRADUATE_OR_EXPERIENCED" /\ Answered(answers, key) = {}
    BY <2>1 DEF TrackOf
  <2>3. key # PositionKey(s) /\ \A a \in answers : a.key # key
    <3>1. key # PositionKey(s)
      BY <2>1 DEF TrackKey, PositionKey
    <3>2. \A a \in answers : a.key = key => a.value \in Answered(answers, key)
      BY DEF Answered
    <3> QED BY <2>2, <3>1, <3>2
  <2>4. Answered(more, PositionKey(s)) = Answered(answers, PositionKey(s))
    BY <2>3 DEF Answered
  <2>5. q = p
    <3> HIDE DEF more
    <3> QED BY <2>4 DEF PositionOf
  <2>6. \A a \in more : a.key \in KeysOf(s, q)
    BY <1>1, <2>1, <2>2, <2>5 DEF KeysOf
  <2> QED BY <1>2, <2>1, <2>3, <2>5, <2>6
<1> QED BY <1>3, <1>4

\* The choices of a resolved posting are what was answered.
LEMMA ChosenIsAnswered ==
    ASSUME NEW s, s # NoStructure, Len(s.kinds) \in Nat \ {0}, NEW answers, Fits(s, answers),
           NEW position, NEW track, Chosen(s, answers, position, track)
    PROVE  /\ \A a \in answers : a.key = PositionKey(s) => a.value = position
           /\ \A a \in answers : a.key = TrackKey(position) => a.value = track
<1> DEFINE p == PositionOf(s, answers)
<1>1. /\ p = position /\ track \in TrackOf(s, p, answers) /\ p \in 1 .. Len(s.kinds)
      /\ \A a \in answers : a.key \in KeysOf(s, p)
  BY Resolved DEF Chosen
<1>2. PositionKey(s) # TrackKey(position)
  BY DEF PositionKey, TrackKey
<1>3. ASSUME NEW a \in answers, a.key = PositionKey(s) PROVE a.value = position
  <2>1. Len(s.kinds) # 1
    BY <1>1, <1>2, <1>3 DEF KeysOf
  <2>2. p \in Answered(answers, PositionKey(s))
    BY <1>3, <2>1, Positioned DEF Answered
  <2> QED BY <1>1, <1>3, <2>2 DEF Answered, Fits
<1>4. ASSUME NEW a \in answers, a.key = TrackKey(position) PROVE a.value = track
  <2>1. KindOf(s, p) = "NEW_GRADUATE_OR_EXPERIENCED"
    BY <1>1, <1>2, <1>4 DEF KeysOf
  <2>2. track \in Answered(answers, TrackKey(position))
    BY <1>1, <2>1 DEF TrackOf
  <2> QED BY <1>4, <2>2 DEF Answered, Fits
<1> QED BY <1>3, <1>4

-----------------------------------------------------------------------------
(* Rows *)

LEMMA SetDoes ==
    ASSUME Shape, NEW j \in Jobs, NEW changes, Set(j, changes)
    PROVE  /\ DOMAIN job' = Jobs /\ \A i \in Jobs : DOMAIN job'[i] = JobFields
           /\ \A i \in Jobs \ {j} : job'[i] = job[i]
           /\ job'[j].status = IF "status" \in DOMAIN changes THEN changes.status ELSE job[j].status
           /\ job'[j].own = IF "own" \in DOMAIN changes THEN changes.own ELSE job[j].own
           /\ job'[j].answers = IF "answers" \in DOMAIN changes THEN changes.answers ELSE job[j].answers
           /\ job'[j].confirmed =
                IF "confirmed" \in DOMAIN changes THEN changes.confirmed ELSE job[j].confirmed
           /\ job'[j].active = IF "active" \in DOMAIN changes THEN changes.active ELSE job[j].active
           /\ job'[j].asked = IF "asked" \in DOMAIN changes THEN changes.asked ELSE job[j].asked
           /\ job'[j].evidence =
                IF "evidence" \in DOMAIN changes THEN changes.evidence ELSE job[j].evidence
<1>1. job' = [job EXCEPT ![j] = With(job[j], changes)] /\ DOMAIN job = Jobs /\ DOMAIN job[j] = JobFields
  BY DEF Set, Shape
<1>2. job'[j] = With(job[j], changes) /\ \A i \in Jobs \ {j} : job'[i] = job[i]
  BY <1>1
<1>3. \A f \in JobFields : job'[j][f] = IF f \in DOMAIN changes THEN changes[f] ELSE job[j][f]
  BY <1>1, <1>2 DEF With
<1>4. DOMAIN job' = Jobs /\ \A i \in Jobs : DOMAIN job'[i] = JobFields
  BY <1>1, <1>2 DEF With, Shape
<1> QED BY <1>2, <1>3, <1>4 DEF JobFields

\* What a run becomes when its row is rewritten
Became(j, changes) ==
    /\ DOMAIN run' = Jobs /\ \A i \in Jobs : DOMAIN run'[i] = RunFields
    /\ \A i \in Jobs \ {j} : run'[i] = run[i]
    /\ run'[j].pc = IF "pc" \in DOMAIN changes THEN changes.pc ELSE run[j].pc
    /\ run'[j].structure =
         IF "structure" \in DOMAIN changes THEN changes.structure ELSE run[j].structure
    /\ run'[j].position = IF "position" \in DOMAIN changes THEN changes.position ELSE run[j].position
    /\ run'[j].track = IF "track" \in DOMAIN changes THEN changes.track ELSE run[j].track
    /\ run'[j].planned = IF "planned" \in DOMAIN changes THEN changes.planned ELSE run[j].planned
    /\ run'[j].outcome = IF "outcome" \in DOMAIN changes THEN changes.outcome ELSE run[j].outcome
    /\ run'[j].ask = IF "ask" \in DOMAIN changes THEN changes.ask ELSE run[j].ask
    /\ run'[j].told = IF "told" \in DOMAIN changes THEN changes.told ELSE run[j].told
    /\ run'[j].stages = IF "stages" \in DOMAIN changes THEN changes.stages ELSE run[j].stages

LEMMA RunDoes ==
    ASSUME Shape, NEW j \in Jobs, NEW changes, Run(j, changes) PROVE Became(j, changes)
<1>1. run' = [run EXCEPT ![j] = With(run[j], changes)] /\ DOMAIN run = Jobs /\ DOMAIN run[j] = RunFields
  BY DEF Run, Shape
<1>2. run'[j] = With(run[j], changes) /\ \A i \in Jobs \ {j} : run'[i] = run[i]
  BY <1>1
<1>3. \A f \in RunFields : run'[j][f] = IF f \in DOMAIN changes THEN changes[f] ELSE run[j][f]
  BY <1>1, <1>2 DEF With
<1>4. DOMAIN run' = Jobs /\ \A i \in Jobs : DOMAIN run'[i] = RunFields
  BY <1>1, <1>2 DEF With, Shape
<1> QED BY <1>2, <1>3, <1>4 DEF RunFields, Became

LEMMA FinishDoes ==
    ASSUME Shape, NEW j \in Jobs, NEW outcome, NEW changes, Finish(j, outcome, changes),
           DOMAIN changes \subseteq {"ask", "stages"}
    PROVE  /\ DOMAIN run' = Jobs /\ \A i \in Jobs : DOMAIN run'[i] = RunFields
           /\ \A i \in Jobs \ {j} : run'[i] = run[i]
           /\ run'[j].pc = "done" /\ run'[j].outcome = outcome
           /\ run'[j].structure = run[j].structure /\ run'[j].planned = run[j].planned
           /\ run'[j].told = run[j].told
           /\ "ask" \in DOMAIN changes => run'[j].ask = changes.ask
           /\ run'[j].stages = IF "stages" \in DOMAIN changes THEN changes.stages ELSE run[j].stages
           /\ cancelled' = cancelled \ {j}
<1> DEFINE first == With(run[j], changes)
           last == [pc |-> "done", outcome |-> outcome]
<1>1. /\ run' = [run EXCEPT ![j] = With(first, last)] /\ DOMAIN run = Jobs
      /\ DOMAIN run[j] = RunFields /\ cancelled' = cancelled \ {j}
  BY DEF Finish, Shape
<1>2. DOMAIN first = RunFields
      /\ \A f \in RunFields : first[f] = IF f \in DOMAIN changes THEN changes[f] ELSE run[j][f]
  BY <1>1 DEF With
<1>3. run'[j] = With(first, last) /\ \A i \in Jobs \ {j} : run'[i] = run[i]
  BY <1>1
<1> HIDE DEF first
<1>4. \A f \in RunFields : run'[j][f] = IF f \in DOMAIN last THEN last[f] ELSE first[f]
  BY <1>2, <1>3 DEF With
<1>5. DOMAIN run' = Jobs /\ \A i \in Jobs : DOMAIN run'[i] = RunFields
  BY <1>1, <1>2, <1>3 DEF With, Shape
<1> QED BY <1>1, <1>2, <1>3, <1>4, <1>5 DEF RunFields

\* A step of one job leaves the others as they were.
LEMMA OneMoves ==
    ASSUME CareerInv, NEW j \in Jobs, Shape', Whole(cache'), JobInv(j)',
           \A i \in Jobs \ {j} : job'[i] = job[i] /\ run'[i] = run[i]
                                 /\ (i \in cancelled' => i \in cancelled)
    PROVE  CareerInv'
<1> SUFFICES ASSUME NEW i \in Jobs \ {j} PROVE JobInv(i)'
  BY DEF CareerInv
<1>1. JobInv(i) /\ job'[i] = job[i] /\ run'[i] = run[i] /\ (i \in cancelled' => i \in cancelled)
  BY DEF CareerInv
<1> QED BY <1>1 DEF JobInv, Life, Marked, Structured, Open, Settled

\* A job no run of which is under way
LEMMA OffHolds ==
    ASSUME NEW j \in Jobs, run'[j].pc = "off", run'[j].outcome = "NONE", run'[j].planned = NoReview,
           Whole(run'[j].structure), Whole(job'[j].own), Fits(job'[j].own, job'[j].answers),
           job'[j].status = "WAITING" => Asks(job'[j].own, job'[j].answers, job'[j].active)
    PROVE  JobInv(j)'
BY DEF JobInv, Life, Marked, Structured, Open, Settled, Bound, WaitingStages

\* What a run has structured fits what its job has answered.
LEMMA RunFits ==
    ASSUME CareerInv, NEW j \in Jobs, run[j].pc # "off", run[j].structure # NoStructure
    PROVE  Fits(run[j].structure, job[j].answers)
<1> DEFINE s == run[j].structure
           own == job[j].own
<1>1. /\ Whole(s) /\ Whole(own) /\ Fits(own, job[j].answers)
      /\ own # NoStructure => s.kinds = own.kinds
  BY DEF CareerInv, JobInv, Structured
<1>2. CASE own = NoStructure
  BY <1>1, <1>2, NothingAnswered DEF Whole, Fits
<1>3. CASE own # NoStructure
  <2>1. Resolve(s, job[j].answers) = Resolve(own, job[j].answers) /\ PositionKey(s) = PositionKey(own)
        /\ s.kinds = own.kinds
    BY <1>1, <1>3, SameKinds
  <2> QED BY <1>1, <1>3, <2>1 DEF Fits
<1> QED BY <1>2, <1>3

-----------------------------------------------------------------------------
(* The backend before a run is bound *)

LEMMA RequestKeeps == ASSUME CareerInv, NEW j \in Jobs, Request(j) PROVE CareerInv'
<1>1. Shape /\ JobInv(j) /\ job[j].status = "NEW" /\ Set(j, [status |-> "QUEUED"])
      /\ UNCHANGED <<cache, lease, run, cancelled, abandoned, found>>
  BY DEF CareerInv, Request
<1>2. /\ DOMAIN job' = Jobs /\ \A i \in Jobs : DOMAIN job'[i] = JobFields
      /\ \A i \in Jobs \ {j} : job'[i] = job[i]
      /\ job'[j].status = "QUEUED" /\ job'[j].own = job[j].own /\ job'[j].answers = job[j].answers
  BY <1>1, SetDoes
<1>3. JobInv(j)'
  BY <1>1, <1>2, OffHolds DEF JobInv, Life, Structured, Planned
<1> QED BY <1>1, <1>2, <1>3, OneMoves DEF CareerInv, Shape

LEMMA CreateKeeps == ASSUME CareerInv, NEW j \in Jobs, Create(j) PROVE CareerInv'
<1>1. /\ Shape /\ JobInv(j) /\ job[j].status = "QUEUED" /\ run[j].pc = "off" /\ Whole(cache)
      /\ Set(j, [status |-> "RUNNING"])
      /\ Run(j, [pc |-> IF Checkpoint(j) = NoStructure THEN "load" ELSE "bind",
                 structure |-> Checkpoint(j)])
      /\ UNCHANGED <<cache, lease, cancelled, abandoned, found>>
  BY DEF CareerInv, Create
<1>2. /\ DOMAIN job' = Jobs /\ \A i \in Jobs : DOMAIN job'[i] = JobFields
      /\ \A i \in Jobs \ {j} : job'[i] = job[i]
      /\ job'[j].status = "RUNNING" /\ job'[j].own = job[j].own /\ job'[j].answers = job[j].answers
  BY <1>1, SetDoes
<1>3. /\ DOMAIN run' = Jobs /\ \A i \in Jobs : DOMAIN run'[i] = RunFields
      /\ \A i \in Jobs \ {j} : run'[i] = run[i]
      /\ run'[j].pc = (IF Checkpoint(j) = NoStructure THEN "load" ELSE "bind")
      /\ run'[j].structure = Checkpoint(j)
      /\ run'[j].planned = run[j].planned /\ run'[j].outcome = run[j].outcome
  BY <1>1, RunDoes DEF Became
<1>4. run[j].outcome = "NONE" /\ run[j].planned = NoReview
  BY <1>1 DEF JobInv, Life, Planned
<1>5. Life(j)' /\ Marked(j)' /\ Open(j)' /\ Settled(j)'
  BY <1>2, <1>3, <1>4 DEF Life, Marked, Open, Settled, Bound, WaitingStages
<1>6. Structured(j)'
  BY <1>1, <1>2, <1>3, <1>4 DEF JobInv, Structured, Checkpoint, Bound
<1> QED BY <1>1, <1>2, <1>3, <1>5, <1>6, OneMoves DEF CareerInv, Shape, JobInv

\* A run that has not been bound goes on without one, or with what it found.
LEMMA BeforeBound ==
    ASSUME CareerInv, NEW j \in Jobs, run[j].pc \in {"load", "acquire"}, NEW changes, Run(j, changes),
           DOMAIN changes \subseteq {"pc", "structure"},
           run'[j].pc \in {"load", "acquire", "bind"},
           run'[j].structure # NoStructure => run'[j].pc = "bind" /\ run'[j].structure = cache,
           UNCHANGED <<cache, job, cancelled>>
    PROVE  CareerInv'
<1>1. Shape /\ JobInv(j) /\ Whole(cache)
  BY DEF CareerInv
<1>2. /\ DOMAIN run' = Jobs /\ \A i \in Jobs : DOMAIN run'[i] = RunFields
      /\ \A i \in Jobs \ {j} : run'[i] = run[i]
      /\ run'[j].planned = run[j].planned /\ run'[j].outcome = run[j].outcome
  BY <1>1, RunDoes DEF Became
<1>3. /\ run[j].outcome = "NONE" /\ run[j].planned = NoReview /\ run[j].structure = NoStructure
      /\ job[j].own = NoStructure /\ job[j].status \notin {"NEW", "QUEUED", "WAITING"}
  BY <1>1 DEF JobInv, Life, Structured, Planned
<1>4. Life(j)' /\ Marked(j)' /\ Open(j)' /\ Settled(j)'
  BY <1>2, <1>3 DEF Life, Marked, Open, Settled, Bound, WaitingStages
<1>5. Whole(NoStructure) /\ Whole(run'[j].structure)
  BY <1>1 DEF Whole, NoStructure
<1>6. Structured(j)'
  BY <1>1, <1>2, <1>3, <1>5 DEF JobInv, Structured, Bound
<1> QED BY <1>1, <1>2, <1>4, <1>6, OneMoves DEF Shape, JobInv

LEMMA LoadKeeps == ASSUME CareerInv, NEW j \in Jobs, LoadShared(j) PROVE CareerInv'
<1>1. run[j].pc = "load" /\ UNCHANGED <<cache, job, cancelled>> /\ Shape /\ JobInv(j)
  BY DEF CareerInv, LoadShared
<1>2. run[j].structure = NoStructure
  BY <1>1 DEF JobInv, Structured
<1>3. CASE cache # NoStructure
  <2>1. Run(j, [pc |-> "bind", structure |-> cache])
    BY <1>3 DEF LoadShared
  <2>2. run'[j].pc = "bind" /\ run'[j].structure = cache
    BY <1>1, <2>1, RunDoes DEF Became
  <2> QED BY <1>1, <2>1, <2>2, BeforeBound
<1>4. CASE cache = NoStructure
  <2>1. Run(j, [pc |-> "acquire"])
    BY <1>4 DEF LoadShared
  <2>2. run'[j].pc = "acquire" /\ run'[j].structure = NoStructure
    BY <1>1, <1>2, <2>1, RunDoes DEF Became
  <2> QED BY <1>1, <2>1, <2>2, BeforeBound
<1> QED BY <1>3, <1>4

LEMMA AcquireKeeps == ASSUME CareerInv, NEW j \in Jobs, AcquireLease(j) PROVE CareerInv'
<1>1. run[j].pc = "acquire" /\ UNCHANGED <<cache, job, cancelled>> /\ Shape /\ JobInv(j)
  BY DEF CareerInv, AcquireLease
<1>2. run[j].structure = NoStructure
  BY <1>1 DEF JobInv, Structured
<1>3. PICK pc \in {"bind", "load"} : Run(j, [pc |-> pc])
  BY DEF AcquireLease
<1>4. run'[j].pc = pc /\ run'[j].structure = NoStructure
  BY <1>1, <1>2, <1>3, RunDoes DEF Became
<1> QED BY <1>1, <1>3, <1>4, BeforeBound

\* The run of a job is over; what the job has is fit to be asked about.
LEMMA RunEnds ==
    ASSUME CareerInv, NEW j \in Jobs, run' = [run EXCEPT ![j] = NewRun],
           DOMAIN job' = Jobs, \A i \in Jobs : DOMAIN job'[i] = JobFields,
           \A i \in Jobs \ {j} : job'[i] = job[i] /\ (i \in cancelled' => i \in cancelled),
           Whole(cache'), Whole(job'[j].own), Fits(job'[j].own, job'[j].answers),
           job'[j].status = "WAITING" => Asks(job'[j].own, job'[j].answers, job'[j].active)
    PROVE  CareerInv'
<1>1. Shape
  BY DEF CareerInv
<1>2. /\ DOMAIN run' = Jobs /\ run'[j] = NewRun /\ \A i \in Jobs \ {j} : run'[i] = run[i]
  BY <1>1 DEF Shape
<1>3. /\ DOMAIN NewRun = RunFields /\ NewRun.pc = "off" /\ NewRun.outcome = "NONE"
      /\ NewRun.planned = NoReview /\ NewRun.structure = NoStructure /\ Whole(NoStructure)
  BY DEF NewRun, RunFields, Whole, NoStructure
<1>4. JobInv(j)'
  BY <1>2, <1>3, OffHolds
<1> QED BY <1>1, <1>2, <1>3, <1>4, OneMoves DEF Shape

LEMMA WaitKeeps == ASSUME CareerInv, NEW j \in Jobs, WaitTooLong(j) PROVE CareerInv'
<1>1. /\ Shape /\ JobInv(j) /\ Whole(cache) /\ Set(j, [status |-> "FAILED"])
      /\ run' = [run EXCEPT ![j] = NewRun] /\ UNCHANGED <<cache, cancelled>>
  BY DEF CareerInv, WaitTooLong
<1>2. /\ DOMAIN job' = Jobs /\ \A i \in Jobs : DOMAIN job'[i] = JobFields
      /\ \A i \in Jobs \ {j} : job'[i] = job[i]
      /\ job'[j].status = "FAILED" /\ job'[j].own = job[j].own /\ job'[j].answers = job[j].answers
  BY <1>1, SetDoes
<1>3. Whole(job[j].own) /\ Fits(job[j].own, job[j].answers)
  BY <1>1 DEF JobInv, Structured
<1> QED BY <1>1, <1>2, <1>3, RunEnds

-----------------------------------------------------------------------------
(* The stages *)

\* A stage that ends the run
LEMMA FinishKeeps ==
    ASSUME CareerInv, NEW j \in Jobs, NEW outcome, NEW changes, Finish(j, outcome, changes),
           DOMAIN changes \subseteq {"ask", "stages"}, run[j].pc \in Bound,
           UNCHANGED <<cache, job>>,
           outcome \notin {"ANALYSIS_STALE_RESULT", "AMBIGUITY_UNRESOLVED"},
           outcome = "ANALYSIS_CANCELLED" => j \in cancelled,
           outcome = "COMPLETED" => run[j].structure # NoStructure,
           outcome \in WaitingStages =>
             "ask" \in DOMAIN changes /\ Asks(run[j].structure, job[j].answers, changes.ask)
    PROVE  CareerInv'
<1>1. Shape /\ Whole(cache) /\ JobInv(j)
  BY DEF CareerInv
<1>2. /\ DOMAIN run' = Jobs /\ \A i \in Jobs : DOMAIN run'[i] = RunFields
      /\ \A i \in Jobs \ {j} : run'[i] = run[i]
      /\ run'[j].pc = "done" /\ run'[j].outcome = outcome
      /\ run'[j].structure = run[j].structure /\ run'[j].planned = run[j].planned
      /\ run'[j].told = run[j].told
      /\ "ask" \in DOMAIN changes => run'[j].ask = changes.ask
      /\ cancelled' = cancelled \ {j}
  BY <1>1, FinishDoes
<1>3. run[j].pc # "off" /\ job[j].status \notin {"NEW", "QUEUED", "WAITING"}
  BY <1>1 DEF JobInv, Life, Bound
<1>4. Life(j)'
  BY <1>1, <1>2, <1>3 DEF JobInv, Life, Planned
<1>5. Marked(j)'
  BY <1>1, <1>2 DEF JobInv, Marked, Bound
<1>6. Structured(j)'
  BY <1>1, <1>2, <1>3 DEF JobInv, Structured, Bound
<1>7. Open(j)'
  BY <1>1, <1>2, <1>3 DEF JobInv, Open
<1>8. Settled(j)'
  BY <1>1, <1>2 DEF JobInv, Settled
<1> QED BY <1>1, <1>2, <1>4, <1>5, <1>6, <1>7, <1>8, OneMoves DEF Shape, JobInv

\* A stage that goes on to the next
LEMMA StageKeeps ==
    ASSUME CareerInv, NEW j \in Jobs, NEW changes, Run(j, changes), run[j].pc \in Bound \cup {"bind"},
           DOMAIN changes \cap {"outcome", "told", "ask"} = {}, run'[j].pc \in Bound,
           UNCHANGED <<cache, job>>, cancelled' \in {cancelled, cancelled \ {j}},
           run[j].pc = "bind" => cancelled' = cancelled \ {j},
           Whole(run'[j].structure), run'[j].pc # "discover" => run'[j].structure # NoStructure,
           run'[j].pc = "discover" => run'[j].structure = NoStructure,
           job[j].own # NoStructure =>
             run'[j].structure # NoStructure /\ run'[j].structure.kinds = job[j].own.kinds,
           run'[j].planned # NoReview => run'[j].pc \in Planned,
           Settled(j)'
    PROVE  CareerInv'
<1>1. Shape /\ Whole(cache) /\ JobInv(j)
  BY DEF CareerInv
<1>2. /\ DOMAIN run' = Jobs /\ \A i \in Jobs : DOMAIN run'[i] = RunFields
      /\ \A i \in Jobs \ {j} : run'[i] = run[i]
      /\ run'[j].outcome = run[j].outcome /\ run'[j].told = run[j].told
  BY <1>1, RunDoes DEF Became
<1>3. /\ run[j].outcome = "NONE" /\ job[j].status \notin {"NEW", "QUEUED", "WAITING"}
  BY <1>1 DEF JobInv, Life, Bound
<1>4. Life(j)'
  BY <1>1, <1>2, <1>3 DEF Life, Bound
<1>5. Marked(j)'
  <2>1. CASE run[j].pc = "bind"
    BY <1>2, <1>3, <2>1 DEF Marked
  <2>2. CASE run[j].pc \in Bound
    BY <1>1, <1>2, <1>3, <2>2 DEF JobInv, Marked
  <2> QED BY <2>1, <2>2
<1>6. Structured(j)'
  BY <1>1, <1>2, <1>3 DEF JobInv, Structured, Bound
<1>7. Open(j)'
  BY <1>2, <1>3 DEF Open, WaitingStages
<1> QED BY <1>1, <1>2, <1>4, <1>5, <1>6, <1>7, OneMoves DEF Shape, JobInv

LEMMA FailKeeps ==
    ASSUME CareerInv, NEW j \in Jobs, NEW stage, FailStage(j, stage), run[j].pc \in Bound,
           UNCHANGED <<cache, job>>
    PROVE  CareerInv'
<1>1. \A x : DOMAIN [stages |-> x] \subseteq {"ask", "stages"}
  OBVIOUS
<1>2. ASSUME NEW code \in {"AI_PROVIDER_UNAVAILABLE", "CONTRACT_VALIDATION_FAILED"},
             Finish(j, code, [stages |-> Mark(j, <<stage, "FAILED">>)])
      PROVE  CareerInv'
  BY <1>1, <1>2, FinishKeeps DEF WaitingStages
<1>3. CASE j \in cancelled /\ Finish(j, "ANALYSIS_CANCELLED", [stages |-> Mark(j, <<stage, "RUNNING">>)])
  BY <1>1, <1>3, FinishKeeps DEF WaitingStages
<1> QED BY <1>2, <1>3 DEF FailStage

LEMMA BindKeeps == ASSUME CareerInv, NEW j \in Jobs, Bind(j) PROVE CareerInv'
<1> DEFINE changes == [pc |-> IF run[j].structure = NoStructure THEN "discover" ELSE "resolve"]
<1>1. /\ Shape /\ JobInv(j) /\ run[j].pc = "bind" /\ Run(j, changes)
      /\ cancelled' = cancelled \ {j} /\ UNCHANGED <<cache, job>>
  BY DEF CareerInv, Bind
<1>2. /\ run'[j].pc = (IF run[j].structure = NoStructure THEN "discover" ELSE "resolve")
      /\ run'[j].structure = run[j].structure /\ run'[j].planned = run[j].planned
  BY <1>1, RunDoes DEF Became
<1>3. /\ run[j].planned = NoReview /\ Whole(run[j].structure)
      /\ job[j].own # NoStructure =>
           run[j].structure # NoStructure /\ run[j].structure.kinds = job[j].own.kinds
  BY <1>1 DEF JobInv, Life, Structured, Planned
<1>4. Settled(j)'
  BY <1>2, <1>3 DEF Settled
<1>5. DOMAIN changes \cap {"outcome", "told", "ask"} = {} /\ run'[j].pc \in Bound
  BY <1>2 DEF Bound
<1> HIDE DEF changes
<1> QED BY <1>1, <1>2, <1>3, <1>4, <1>5, StageKeeps

LEMMA DiscoverKeeps == ASSUME CareerInv, NEW j \in Jobs, Discover(j) PROVE CareerInv'
<1>1. Shape /\ JobInv(j) /\ run[j].pc = "discover" /\ UNCHANGED <<cache, job>>
  BY DEF CareerInv, Discover
<1>2. CASE FailStage(j, "POSITION_DISCOVERY")
  BY <1>1, <1>2, FailKeeps DEF Bound
<1>3. ASSUME NEW kinds \in BoundedSeq(Kinds, MaxPositions) \ {<<>>}, cancelled' = cancelled,
             Run(j, [pc |-> "resolve", stages |-> Mark(j, <<"POSITION_DISCOVERY", "COMPLETED">>),
                     structure |-> [version |-> found + 1, kinds |-> kinds, detail |-> 0]])
      PROVE  CareerInv'
  <2> DEFINE new == [version |-> found + 1, kinds |-> kinds, detail |-> 0]
             changes == [pc |-> "resolve", structure |-> new,
                         stages |-> Mark(j, <<"POSITION_DISCOVERY", "COMPLETED">>)]
  <2>1. Run(j, changes) /\ DOMAIN changes \cap {"outcome", "told", "ask"} = {}
    BY <1>3
  <2>2. run'[j].pc = "resolve" /\ run'[j].structure = new /\ run'[j].planned = run[j].planned
    BY <1>1, <2>1, RunDoes DEF Became
  <2>3. Len(kinds) \in Nat \ {0}
    <3>1. PICK m \in 0 .. MaxPositions : kinds \in [1 .. m -> Kinds]
      BY <1>3 DEF BoundedSeq, SeqOf
    <3>2. kinds \in Seq(Kinds) /\ kinds # <<>>
      BY <1>3, <3>1
    <3> QED BY <3>2
  <2>4. Whole(new) /\ new # NoStructure
    BY <1>3, <2>3 DEF Whole, NoStructure
  <2>5. job[j].own = NoStructure /\ run[j].planned = NoReview
    BY <1>1 DEF JobInv, Life, Structured, Planned
  <2> HIDE DEF changes, new
  <2>6. Settled(j)' /\ run'[j].pc \in Bound
    BY <2>2, <2>5 DEF Settled, Bound
  <2> QED BY <1>1, <1>3, <2>1, <2>2, <2>4, <2>5, <2>6, StageKeeps DEF Bound
<1> QED BY <1>2, <1>3 DEF Discover

\* What a bound run past its discovery has
LEMMA AtStage ==
    ASSUME CareerInv, NEW j \in Jobs, run[j].pc \in Bound \ {"discover"}
    PROVE  /\ Shape /\ JobInv(j) /\ Whole(run[j].structure) /\ run[j].structure # NoStructure
           /\ Len(run[j].structure.kinds) \in Nat \ {0}
           /\ job[j].own # NoStructure => run[j].structure.kinds = job[j].own.kinds
           /\ Fits(run[j].structure, job[j].answers)
           /\ run[j].planned # NoReview => run[j].pc \in {"graph", "fit", "roadmap"}
<1>1. Shape /\ JobInv(j)
  BY DEF CareerInv
<1>2. /\ Whole(run[j].structure) /\ run[j].structure # NoStructure /\ run[j].pc # "off"
      /\ job[j].own # NoStructure => run[j].structure.kinds = job[j].own.kinds
      /\ run[j].planned # NoReview => run[j].pc \in {"graph", "fit", "roadmap"}
  BY <1>1 DEF JobInv, Structured, Life, Planned, Bound
<1> QED BY <1>1, <1>2, RunFits DEF Whole

LEMMA ResolveKeeps == ASSUME CareerInv, NEW j \in Jobs, ResolvePosting(j) PROVE CareerInv'
<1> DEFINE s == run[j].structure
           r == Resolve(s, job[j].answers)
<1>1. run[j].pc = "resolve" /\ run[j].pc \in Bound \ {"discover"} /\ UNCHANGED <<cache, job>>
  BY DEF ResolvePosting, Bound
<1>2. /\ Shape /\ JobInv(j) /\ Whole(s) /\ s # NoStructure /\ run[j].planned = NoReview
      /\ job[j].own # NoStructure => s.kinds = job[j].own.kinds
      /\ r.status \in {"READY", "AWAITING_ANSWER"}
  BY <1>1, AtStage DEF Fits
<1>3. CASE r.status = "AWAITING_ANSWER"
  <2>1. PICK stage \in {"AWAITING_POSITION_SELECTION", "AWAITING_EXPERIENCE_TRACK_SELECTION"} :
          Await(j, stage, r.ask)
    BY <1>3 DEF ResolvePosting
  <2>2. Finish(j, stage, [ask |-> r.ask, stages |-> Mark(j, <<stage, "WAITING">>)])
    BY <2>1 DEF Await
  <2>3. Asks(s, job[j].answers, r.ask)
    BY <1>2, <1>3 DEF Asks
  <2> HIDE DEF r
  <2> DEFINE changes == [ask |-> r.ask, stages |-> Mark(j, <<stage, "WAITING">>)]
  <2>4. DOMAIN changes = {"ask", "stages"} /\ changes.ask = r.ask
    OBVIOUS
  <2> HIDE DEF changes
  <2> QED BY <1>1, <2>2, <2>3, <2>4, FinishKeeps DEF changes
<1>4. CASE r.status = "READY"
  <2> DEFINE changes == [pc |-> IF IsDiscovery(s) THEN "detail" ELSE "review",
                         position |-> r.position, track |-> r.track]
  <2>1. Run(j, changes) /\ cancelled' = cancelled
    BY <1>4 DEF ResolvePosting
  <2>2. /\ run'[j].pc \in {"detail", "review"} /\ run'[j].structure = s
        /\ run'[j].planned = NoReview /\ run'[j].position = r.position /\ run'[j].track = r.track
    <3> HIDE DEF r
    <3> QED BY <1>2, <2>1, RunDoes DEF Became
  <2>3. DOMAIN changes \cap {"outcome", "told", "ask"} = {}
    OBVIOUS
  <2>4. Settled(j)' /\ run'[j].pc \in Bound /\ run'[j].pc # "discover"
    BY <1>1, <1>4, <2>2 DEF Settled, Chosen, Bound
  <2> HIDE DEF changes
  <2> QED BY <1>1, <1>2, <2>1, <2>2, <2>3, <2>4, StageKeeps
<1> QED BY <1>2, <1>3, <1>4

LEMMA DetailKeeps == ASSUME CareerInv, NEW j \in Jobs, Detail(j) PROVE CareerInv'
<1> DEFINE s == run[j].structure
           new == [s EXCEPT !.detail = run[j].position]
<1>1. run[j].pc = "detail" /\ run[j].pc \in Bound \ {"discover"} /\ UNCHANGED <<cache, job>>
  BY DEF Detail, Bound
<1>2. /\ Shape /\ JobInv(j) /\ Whole(s) /\ s # NoStructure /\ run[j].planned = NoReview
      /\ job[j].own # NoStructure => s.kinds = job[j].own.kinds
      /\ Len(s.kinds) \in Nat \ {0}
  BY <1>1, AtStage
<1>3. CASE FailStage(j, "POSTING_DETAIL")
  BY <1>1, <1>3, FailKeeps
<1>4. ASSUME cancelled' = cancelled,
             Run(j, [pc |-> "review", structure |-> new,
                     stages |-> Mark(j, <<"POSTING_DETAIL", "COMPLETED">>)])
      PROVE  CareerInv'
  <2> DEFINE changes == [pc |-> "review", structure |-> new,
                         stages |-> Mark(j, <<"POSTING_DETAIL", "COMPLETED">>)]
  <2>1. Run(j, changes) /\ DOMAIN changes \cap {"outcome", "told", "ask"} = {}
    BY <1>4
  <2>2. /\ run'[j].pc = "review" /\ run'[j].structure = new /\ run'[j].planned = NoReview
        /\ run'[j].position = run[j].position /\ run'[j].track = run[j].track
    BY <1>2, <2>1, RunDoes DEF Became
  <2>3. new.kinds = s.kinds /\ DOMAIN new = {"version", "kinds", "detail"}
    BY <1>2 DEF Whole
  <2>4. new # NoStructure
    BY <1>2, <2>3 DEF NoStructure
  <2>5. Resolve(new, job[j].answers) = Resolve(s, job[j].answers)
    <3> HIDE DEF new, s
    <3> QED BY <2>3, SameKinds
  <2> HIDE DEF changes, new
  <2>6. Settled(j)' /\ run'[j].pc \in Bound
    BY <1>1, <1>2, <2>2, <2>5 DEF JobInv, Settled, Chosen, Bound
  <2>7. Whole(new)
    BY <1>2, <2>3 DEF Whole
  <2> QED BY <1>1, <1>2, <1>4, <2>1, <2>2, <2>3, <2>4, <2>6, <2>7, StageKeeps
<1> QED BY <1>3, <1>4 DEF Detail

LEMMA ReviewKeeps == ASSUME CareerInv, NEW j \in Jobs, ReviewPosting(j) PROVE CareerInv'
<1> DEFINE s == run[j].structure
           review == Review(s, run[j].position, run[j].track)
           stage == "AWAITING_POSTING_CONFIRMATION"
<1>1. run[j].pc = "review" /\ run[j].pc \in Bound \ {"discover"} /\ UNCHANGED <<cache, job>>
  BY DEF ReviewPosting, Bound
<1>2. /\ Shape /\ JobInv(j) /\ Whole(s) /\ s # NoStructure /\ run[j].planned = NoReview
      /\ job[j].own # NoStructure => s.kinds = job[j].own.kinds
  BY <1>1, AtStage
<1>3. CASE Stops(j, review)
  <2> DEFINE changes == [ask |-> <<"review", review>>, stages |-> Mark(j, <<stage, "WAITING">>)]
  <2>1. Finish(j, stage, changes)
    BY <1>3 DEF ReviewPosting, Await
  <2>2. Asks(s, job[j].answers, <<"review", review>>)
    BY <1>2 DEF Asks
  <2>3. DOMAIN changes = {"ask", "stages"} /\ changes.ask = <<"review", review>>
    OBVIOUS
  <2> HIDE DEF changes
  <2> QED BY <1>1, <2>1, <2>2, <2>3, FinishKeeps
<1>4. CASE \E code \in {"CAPABILITY_NOT_AVAILABLE", "CONTRACT_VALIDATION_FAILED"} :
             Finish(j, code, [stages |-> Mark(j, <<stage, "SKIPPED">>)])
  <2>1. \A x : DOMAIN [stages |-> x] \subseteq {"ask", "stages"}
    OBVIOUS
  <2> QED BY <1>1, <1>4, <2>1, FinishKeeps DEF WaitingStages
<1>5. CASE /\ ~Stops(j, review) /\ cancelled' = cancelled
           /\ Run(j, [pc |-> "plan", stages |-> Mark(j, <<stage, "SKIPPED">>)])
  <2> DEFINE changes == [pc |-> "plan", stages |-> Mark(j, <<stage, "SKIPPED">>)]
  <2>1. Run(j, changes) /\ DOMAIN changes \cap {"outcome", "told", "ask"} = {}
    BY <1>5
  <2>2. /\ run'[j].pc = "plan" /\ run'[j].structure = s /\ run'[j].planned = NoReview
        /\ run'[j].position = run[j].position /\ run'[j].track = run[j].track
    BY <1>2, <2>1, RunDoes DEF Became
  <2>3. job[j].confirmed = review
    BY <1>5 DEF Stops, Requires
  <2> HIDE DEF changes
  <2>4. Settled(j)' /\ run'[j].pc \in Bound
    BY <1>1, <1>2, <2>2, <2>3 DEF JobInv, Settled, Bound
  <2> QED BY <1>1, <1>2, <1>5, <2>1, <2>2, <2>4, StageKeeps
<1> QED BY <1>3, <1>4, <1>5 DEF ReviewPosting

LEMMA PlanKeeps == ASSUME CareerInv, NEW j \in Jobs, Plan(j) PROVE CareerInv'
<1> DEFINE s == run[j].structure
           review == Review(s, run[j].position, run[j].track)
<1>1. run[j].pc = "plan" /\ run[j].pc \in Bound \ {"discover"} /\ UNCHANGED <<cache, job>>
  BY DEF Plan, Bound
<1>2. /\ Shape /\ JobInv(j) /\ Whole(s) /\ s # NoStructure
      /\ job[j].own # NoStructure => s.kinds = job[j].own.kinds
  BY <1>1, AtStage
<1>3. CASE FailStage(j, "PROJECT_PLANNING")
  BY <1>1, <1>3, FailKeeps
<1>4. ASSUME cancelled' = cancelled,
             Run(j, [pc |-> "graph", planned |-> review,
                     stages |-> Mark(j, <<"PROJECT_PLANNING", "COMPLETED">>)])
      PROVE  CareerInv'
  <2> DEFINE changes == [pc |-> "graph", planned |-> review,
                         stages |-> Mark(j, <<"PROJECT_PLANNING", "COMPLETED">>)]
  <2>1. Run(j, changes) /\ DOMAIN changes \cap {"outcome", "told", "ask"} = {}
    BY <1>4
  <2>2. run'[j].pc = "graph" /\ run'[j].structure = s /\ run'[j].planned = review
    <3> HIDE DEF review
    <3> QED BY <1>2, <2>1, RunDoes DEF Became
  <2>3. review.position = run[j].position /\ review.track = run[j].track
    BY DEF Review
  <2> HIDE DEF changes
  <2>4. Settled(j)'
    BY <1>1, <1>2, <2>2, <2>3 DEF JobInv, Settled
  <2>5. run'[j].pc \in Bound /\ run'[j].pc \in Planned
    BY <2>2 DEF Bound, Planned
  <2> QED BY <1>1, <1>2, <1>4, <2>1, <2>2, <2>4, <2>5, StageKeeps
<1> QED BY <1>3, <1>4 DEF Plan

\* A stage after planning keeps the plan.
LEMMA LaterStage ==
    ASSUME CareerInv, NEW j \in Jobs, run[j].pc \in {"graph", "fit"}, NEW x, NEW pc \in {"fit", "roadmap"},
           Run(j, [pc |-> pc, stages |-> x]), cancelled' = cancelled, UNCHANGED <<cache, job>>
    PROVE  CareerInv'
<1> DEFINE changes == [pc |-> pc, stages |-> x]
<1>1. run[j].pc \in Bound \ {"discover"} /\ DOMAIN changes \cap {"outcome", "told", "ask"} = {}
  BY DEF Bound
<1>2. /\ Shape /\ JobInv(j) /\ Whole(run[j].structure) /\ run[j].structure # NoStructure
      /\ job[j].own # NoStructure => run[j].structure.kinds = job[j].own.kinds
  BY <1>1, AtStage
<1>3. /\ run'[j].pc = pc /\ run'[j].structure = run[j].structure
      /\ run'[j].planned = run[j].planned
  BY <1>2, RunDoes DEF Became
<1>4. Settled(j)'
  BY <1>2, <1>3 DEF JobInv, Settled
<1>5. run'[j].pc \in Bound /\ run'[j].pc \in Planned
  BY <1>3 DEF Bound, Planned
<1> HIDE DEF changes
<1> QED BY <1>1, <1>2, <1>3, <1>4, <1>5, StageKeeps DEF changes

LEMMA NormalizeKeeps == ASSUME CareerInv, NEW j \in Jobs, Normalize(j) PROVE CareerInv'
<1>1. run[j].pc = "graph" /\ run[j].pc \in Bound /\ UNCHANGED <<cache, job>>
  BY DEF Normalize, Bound
<1>2. \A x : DOMAIN [stages |-> x] \subseteq {"ask", "stages"}
  OBVIOUS
<1>3. ASSUME NEW x, Run(j, [pc |-> "fit", stages |-> x]), cancelled' = cancelled PROVE CareerInv'
  BY <1>1, <1>3, LaterStage
<1>4. ASSUME NEW x, NEW code \in {"CAPABILITY_NOT_AVAILABLE", "CONTRACT_VALIDATION_FAILED"},
             Finish(j, code, [stages |-> x])
      PROVE  CareerInv'
  BY <1>1, <1>2, <1>4, FinishKeeps DEF WaitingStages
<1> DEFINE normalized == Mark(j, <<"CAPABILITY_NORMALIZATION", "COMPLETED">>)
           failed == [normalized EXCEPT !["CAPABILITY_GRAPH_LOOKUP"] = "RUNNING"]
           looked == [normalized EXCEPT !["CAPABILITY_GRAPH_LOOKUP"] = "COMPLETED"]
           open == Mark(j, <<"CAPABILITY_NORMALIZATION", "RUNNING">>)
<1>5. \/ Finish(j, "CONTRACT_VALIDATION_FAILED", [stages |-> open])
      \/ \E code \in {"CAPABILITY_NOT_AVAILABLE", "CONTRACT_VALIDATION_FAILED"} :
           Finish(j, code, [stages |-> failed])
      \/ Run(j, [pc |-> "fit", stages |-> looked]) /\ cancelled' = cancelled
  BY DEF Normalize
<1> HIDE DEF failed, looked, open
<1> QED BY <1>3, <1>4, <1>5

LEMMA FitKeeps == ASSUME CareerInv, NEW j \in Jobs, Fit(j) PROVE CareerInv'
<1>1. run[j].pc = "fit" /\ run[j].pc \in Bound \ {"discover"} /\ UNCHANGED <<cache, job>>
  BY DEF Fit, Bound
<1>2. run[j].structure # NoStructure
  BY <1>1, AtStage
<1>3. CASE \E x : Run(j, [pc |-> "roadmap", stages |-> x]) /\ cancelled' = cancelled
  BY <1>1, <1>3, LaterStage
<1>4. ASSUME NEW x, NEW q, Finish(j, "AWAITING_USER_EVIDENCE", [ask |-> <<"evidence", q>>, stages |-> x])
      PROVE  CareerInv'
  <2> DEFINE changes == [ask |-> <<"evidence", q>>, stages |-> x]
  <2>1. DOMAIN changes = {"ask", "stages"} /\ changes.ask = <<"evidence", q>>
    OBVIOUS
  <2>2. Asks(run[j].structure, job[j].answers, <<"evidence", q>>)
    BY <1>2 DEF Asks
  <2> HIDE DEF changes
  <2> QED BY <1>1, <1>4, <2>1, <2>2, FinishKeeps DEF changes
<1> QED BY <1>3, <1>4 DEF Fit

LEMMA ComposeKeeps == ASSUME CareerInv, NEW j \in Jobs, Compose(j) PROVE CareerInv'
<1>1. run[j].pc = "roadmap" /\ run[j].pc \in Bound \ {"discover"} /\ UNCHANGED <<cache, job>>
  BY DEF Compose, Bound
<1>2. run[j].structure # NoStructure
  BY <1>1, AtStage
<1>3. \A x : DOMAIN [stages |-> x] \subseteq {"ask", "stages"} /\ DOMAIN [ask |-> x] \subseteq {"ask", "stages"}
  OBVIOUS
<1>4. CASE Finish(j, "POSTING_STRUCTURE_INVALID", [ask |-> NoKey])
  BY <1>1, <1>3, <1>4, FinishKeeps DEF WaitingStages
<1>5. ASSUME NEW x, NEW code \in {"CONTRACT_VALIDATION_FAILED", "COMPLETED"},
             Finish(j, code, [stages |-> x])
      PROVE  CareerInv'
  BY <1>1, <1>2, <1>3, <1>5, FinishKeeps DEF WaitingStages
<1> DEFINE broken == Mark(j, <<"ROADMAP_PROPOSAL", "RUNNING">>)
           drawn == [Mark(j, <<"ROADMAP_PROPOSAL", "COMPLETED">>) EXCEPT !["RESULT_ASSEMBLY"] = "COMPLETED"]
<1>6. \/ Finish(j, "POSTING_STRUCTURE_INVALID", [ask |-> NoKey])
      \/ Finish(j, "CONTRACT_VALIDATION_FAILED", [stages |-> broken])
      \/ Finish(j, "COMPLETED", [stages |-> drawn])
  BY DEF Compose
<1> HIDE DEF broken, drawn
<1> QED BY <1>4, <1>5, <1>6

-----------------------------------------------------------------------------
(* The outcome of a run *)

LEMMA DeliverKeeps == ASSUME CareerInv, NEW j \in Jobs, Deliver(j) PROVE CareerInv'
<1> DEFINE s == run[j].structure
           key == run[j].ask
<1>1. /\ Shape /\ JobInv(j) /\ Whole(cache) /\ run[j].pc = "done"
      /\ run' = [run EXCEPT ![j] = NewRun] /\ cancelled' = cancelled
  BY DEF CareerInv, Deliver
<1>2. /\ Whole(s) /\ Whole(job[j].own) /\ Fits(job[j].own, job[j].answers)
      /\ job[j].status # "WAITING"
      /\ s # NoStructure => Fits(s, job[j].answers)
  BY <1>1, RunFits DEF JobInv, Structured, Life
<1>3. CASE UNCHANGED <<job, cache>>
  BY <1>1, <1>2, <1>3, RunEnds DEF Shape
<1>4. CASE Set(j, [status |-> "FAILED"]) /\ UNCHANGED cache
  <2>1. /\ DOMAIN job' = Jobs /\ \A i \in Jobs : DOMAIN job'[i] = JobFields
        /\ \A i \in Jobs \ {j} : job'[i] = job[i]
        /\ job'[j].status = "FAILED" /\ job'[j].own = job[j].own /\ job'[j].answers = job[j].answers
    BY <1>1, <1>4, SetDoes
  <2> QED BY <1>1, <1>2, <1>4, <2>1, RunEnds
<1>5. CASE /\ run[j].outcome = "COMPLETED" /\ cache' = s
           /\ Set(j, [status |-> "COMPLETED", own |-> run[j].structure])
  <2>1. /\ DOMAIN job' = Jobs /\ \A i \in Jobs : DOMAIN job'[i] = JobFields
        /\ \A i \in Jobs \ {j} : job'[i] = job[i]
        /\ job'[j].status = "COMPLETED" /\ job'[j].own = s /\ job'[j].answers = job[j].answers
    BY <1>1, <1>5, SetDoes
  <2>2. s # NoStructure
    BY <1>1, <1>5 DEF JobInv, Structured
  <2> QED BY <1>1, <1>2, <1>5, <2>1, <2>2, RunEnds
<1>6. ASSUME NEW asked, NEW evidence, run[j].outcome \in WaitingStages, cache' = s,
             Set(j, [status |-> "WAITING", own |-> run[j].structure, active |-> key,
                     asked |-> asked, evidence |-> evidence])
      PROVE  CareerInv'
  <2>1. /\ DOMAIN job' = Jobs /\ \A i \in Jobs : DOMAIN job'[i] = JobFields
        /\ \A i \in Jobs \ {j} : job'[i] = job[i]
        /\ job'[j].own = s /\ job'[j].answers = job[j].answers /\ job'[j].active = key
    BY <1>1, <1>6, SetDoes
  <2>2. Asks(s, job[j].answers, key) /\ s # NoStructure
    BY <1>1, <1>6 DEF JobInv, Open, Asks
  <2> QED BY <1>1, <1>2, <1>6, <2>1, <2>2, RunEnds
<1>7. CASE Pause(j) /\ run[j].outcome \in WaitingStages
  <2>1. CASE key \in job[j].asked
    BY <1>4, <1>7, <2>1 DEF Pause
  <2>2. CASE key \notin job[j].asked
    <3> DEFINE asked == job[j].asked \cup {key}
               evidence == job[j].evidence + (IF key[1] = "evidence" THEN 1 ELSE 0)
    <3>1. /\ Set(j, [status |-> "WAITING", own |-> run[j].structure, active |-> key,
                     asked |-> asked, evidence |-> evidence])
          /\ cache' = run[j].structure
      BY <1>7, <2>2 DEF Pause
    <3> HIDE DEF asked, evidence
    <3> QED BY <1>6, <1>7, <3>1
  <2> QED BY <2>1, <2>2
<1>8. \/ UNCHANGED <<job, cache>>
      \/ Pause(j) /\ run[j].outcome \in WaitingStages
      \/ /\ run[j].outcome = "COMPLETED" /\ cache' = s
         /\ Set(j, [status |-> "COMPLETED", own |-> run[j].structure])
      \/ Set(j, [status |-> "FAILED"]) /\ UNCHANGED cache
  BY DEF Deliver
<1> QED BY <1>3, <1>4, <1>5, <1>7, <1>8

-----------------------------------------------------------------------------
(* The user *)

LEMMA AnswerKeeps == ASSUME CareerInv, NEW j \in Jobs, Answer(j) PROVE CareerInv'
<1> DEFINE key == job[j].active
           own == job[j].own
<1>1. /\ Shape /\ JobInv(j) /\ Whole(cache) /\ job[j].status = "WAITING"
      /\ UNCHANGED <<cache, run, cancelled>>
  BY DEF CareerInv, Answer
<1>2. /\ run[j].pc = "off" /\ run[j].outcome = "NONE" /\ run[j].planned = NoReview
      /\ Whole(run[j].structure) /\ Whole(own) /\ Fits(own, job[j].answers)
      /\ Asks(own, job[j].answers, key)
  BY <1>1 DEF JobInv, Life, Structured, Open, Planned
<1>3. PICK v, status, confirmed, answers, settled :
        /\ v \in Offered(j) /\ status \in {"CANCELLED", "QUEUED"}
        /\ answers \in {job[j].answers, job[j].answers \cup {[key |-> key, value |-> v]}}
        /\ answers # job[j].answers => key[1] \in {"position", "track"}
        /\ Set(j, [status |-> status, active |-> NoKey, answers |-> answers,
                   settled |-> settled, confirmed |-> confirmed])
  <2>1. PICK v \in Offered(j) :
          Set(j, [status |-> IF key[1] = "review" /\ v = "CANCEL" THEN "CANCELLED" ELSE "QUEUED",
                  active |-> NoKey,
                  answers |-> IF key[1] \in {"position", "track"}
                              THEN job[j].answers \cup {[key |-> key, value |-> v]}
                              ELSE job[j].answers,
                  settled |-> IF key[1] = "evidence" THEN job[j].settled \cup {key[2]}
                              ELSE job[j].settled,
                  confirmed |-> IF key[1] = "review" /\ v = "CONFIRM" THEN key[2]
                                ELSE job[j].confirmed])
    BY DEF Answer
  <2> DEFINE status == IF key[1] = "review" /\ v = "CANCEL" THEN "CANCELLED" ELSE "QUEUED"
             answers == IF key[1] \in {"position", "track"}
                        THEN job[j].answers \cup {[key |-> key, value |-> v]}
                        ELSE job[j].answers
             settled == IF key[1] = "evidence" THEN job[j].settled \cup {key[2]}
                        ELSE job[j].settled
             confirmed == IF key[1] = "review" /\ v = "CONFIRM" THEN key[2] ELSE job[j].confirmed
  <2>2. /\ status \in {"CANCELLED", "QUEUED"}
        /\ answers \in {job[j].answers, job[j].answers \cup {[key |-> key, value |-> v]}}
        /\ answers # job[j].answers => key[1] \in {"position", "track"}
    OBVIOUS
  <2>3. Set(j, [status |-> status, active |-> NoKey, answers |-> answers, settled |-> settled,
                confirmed |-> confirmed])
    BY <2>1
  <2> HIDE DEF status, answers, settled, confirmed
  <2> QED BY <2>1, <2>2, <2>3
<1>4. /\ DOMAIN job' = Jobs /\ \A i \in Jobs : DOMAIN job'[i] = JobFields
      /\ \A i \in Jobs \ {j} : job'[i] = job[i]
      /\ job'[j].status = status /\ job'[j].own = own /\ job'[j].answers = answers
  BY <1>1, <1>3, SetDoes
<1>5. Fits(own, answers)
  <2>1. CASE answers = job[j].answers
    BY <1>2, <2>1
  <2>2. CASE answers # job[j].answers
    <3>1. /\ key[1] \in {"position", "track"} /\ own # NoStructure
          /\ Resolve(own, job[j].answers).status = "AWAITING_ANSWER"
          /\ key = Resolve(own, job[j].answers).ask
          /\ answers = job[j].answers \cup {[key |-> key, value |-> v]}
      BY <1>2, <1>3, <2>2 DEF Asks
    <3>2. key[1] = "position" => v \in 1 .. Len(own.kinds)
      BY <1>3 DEF Offered
    <3>3. Len(own.kinds) \in Nat \ {0}
      BY <1>2, <3>1 DEF Whole
    <3> HIDE DEF key, own
    <3> QED BY <1>2, <3>1, <3>2, <3>3, AnswerFits DEF own
  <2> QED BY <2>1, <2>2
<1>6. JobInv(j)'
  BY <1>1, <1>2, <1>3, <1>4, <1>5, OffHolds
<1> QED BY <1>1, <1>4, <1>6, OneMoves DEF Shape

\* A job is marked, moved or told about; its run goes on, or never was.
LEMMA RunStays ==
    ASSUME CareerInv, NEW j \in Jobs, run' = run, cache' = cache,
           DOMAIN job' = Jobs, \A i \in Jobs : DOMAIN job'[i] = JobFields,
           \A i \in Jobs \ {j} : job'[i] = job[i],
           cancelled' \subseteq cancelled,
           job'[j].own = job[j].own, job'[j].answers = job[j].answers,
           job'[j].confirmed = job[j].confirmed,
           \/ job'[j].status = job[j].status /\ job'[j].active = job[j].active
           \/ job'[j].status \notin {"NEW", "QUEUED", "WAITING"}
    PROVE  CareerInv'
<1>1. Shape /\ JobInv(j) /\ Whole(cache)
  BY DEF CareerInv
<1>2. Life(j)' /\ Marked(j)' /\ Structured(j)'
  BY <1>1 DEF JobInv, Life, Marked, Structured
<1>3. Open(j)' /\ Settled(j)'
  BY <1>1 DEF JobInv, Open, Settled
<1> QED BY <1>1, <1>2, <1>3, OneMoves DEF Shape, JobInv

LEMMA CancelKeeps == ASSUME CareerInv, NEW j \in Jobs, Cancel(j) PROVE CareerInv'
<1>1. /\ Shape /\ JobInv(j) /\ Whole(cache) /\ UNCHANGED <<cache, cancelled>>
      /\ Set(j, [status |-> "CANCELLED", active |-> NoKey, telling |-> TRUE])
      /\ run' = IF run[j].pc \in {"load", "acquire"} THEN [run EXCEPT ![j] = NewRun] ELSE run
  BY DEF CareerInv, Cancel
<1>2. /\ DOMAIN job' = Jobs /\ \A i \in Jobs : DOMAIN job'[i] = JobFields
      /\ \A i \in Jobs \ {j} : job'[i] = job[i]
      /\ job'[j].status = "CANCELLED" /\ job'[j].own = job[j].own /\ job'[j].answers = job[j].answers
      /\ job'[j].confirmed = job[j].confirmed
  BY <1>1, SetDoes
<1>3. Whole(job[j].own) /\ Fits(job[j].own, job[j].answers)
  BY <1>1 DEF JobInv, Structured
<1>4. CASE run[j].pc \in {"load", "acquire"}
  BY <1>1, <1>2, <1>3, <1>4, RunEnds
<1>5. CASE run[j].pc \notin {"load", "acquire"}
  BY <1>1, <1>2, <1>5, RunStays
<1> QED BY <1>4, <1>5

LEMMA CancelCallKeeps == ASSUME CareerInv, NEW j \in Jobs, CancelCall(j) PROVE CareerInv'
<1>1. Shape /\ JobInv(j) /\ Whole(cache) /\ cache' = cache /\ Set(j, [telling |-> FALSE])
  BY DEF CareerInv, CancelCall
<1>2. /\ DOMAIN job' = Jobs /\ \A i \in Jobs : DOMAIN job'[i] = JobFields
      /\ \A i \in Jobs \ {j} : job'[i] = job[i]
      /\ job'[j].status = job[j].status /\ job'[j].own = job[j].own
      /\ job'[j].answers = job[j].answers /\ job'[j].confirmed = job[j].confirmed
      /\ job'[j].active = job[j].active
  BY <1>1, SetDoes
<1>3. CASE UNCHANGED <<cancelled, run>>
  BY <1>1, <1>2, <1>3, RunStays
<1>4. CASE /\ cancelled' = cancelled \cup {j}
           /\ run' = [run EXCEPT ![j].told = run[j].pc \notin {"off", "load", "acquire", "bind"}]
  <2> DEFINE told == run[j].pc \notin {"off", "load", "acquire", "bind"}
  <2>1. run' = [run EXCEPT ![j] = [run[j] EXCEPT !.told = told]]
    BY <1>4
  <2>2. run'[j] = [run[j] EXCEPT !.told = told] /\ DOMAIN run' = Jobs
        /\ \A i \in Jobs \ {j} : run'[i] = run[i]
    BY <1>1, <2>1 DEF Shape
  <2>3. run'[j].told <=> told
    BY <1>1, <2>2 DEF Shape, RunFields
  <2> HIDE DEF told
  <2>4. /\ DOMAIN run'[j] = RunFields
        /\ run'[j].pc = run[j].pc /\ run'[j].structure = run[j].structure
        /\ run'[j].position = run[j].position /\ run'[j].track = run[j].track
        /\ run'[j].planned = run[j].planned /\ run'[j].outcome = run[j].outcome
        /\ run'[j].ask = run[j].ask
    BY <1>1, <2>2 DEF Shape, RunFields
  <2>5. Life(j)' /\ Structured(j)'
    BY <1>1, <1>2, <2>4 DEF JobInv, Life, Structured
  <2>6. Open(j)' /\ Settled(j)'
    BY <1>1, <1>2, <2>4 DEF JobInv, Open, Settled
  <2>7. Marked(j)'
    <3>1. run[j].outcome = "ANALYSIS_CANCELLED" => run[j].pc = "done"
      BY <1>1 DEF JobInv, Life
    <3> QED BY <2>3, <2>4, <3>1 DEF Marked, Bound, told
  <2>8. Shape'
    BY <1>1, <1>2, <2>2, <2>4 DEF Shape
  <2> QED BY <1>1, <1>2, <1>4, <2>2, <2>5, <2>6, <2>7, <2>8, OneMoves DEF JobInv
<1> QED BY <1>3, <1>4 DEF CancelCall

LEMMA RetryKeeps == ASSUME CareerInv, NEW j \in Jobs, Retry(j) PROVE CareerInv'
<1>1. /\ Shape /\ JobInv(j) /\ Whole(cache) /\ UNCHANGED <<cache, cancelled>>
      /\ Set(j, [status |-> "QUEUED", retries |-> job[j].retries + 1])
      /\ run' = [run EXCEPT ![j] = NewRun]
  BY DEF CareerInv, Retry
<1>2. /\ DOMAIN job' = Jobs /\ \A i \in Jobs : DOMAIN job'[i] = JobFields
      /\ \A i \in Jobs \ {j} : job'[i] = job[i]
      /\ job'[j].status = "QUEUED" /\ job'[j].own = job[j].own /\ job'[j].answers = job[j].answers
  BY <1>1, SetDoes
<1>3. Whole(job[j].own) /\ Fits(job[j].own, job[j].answers)
  BY <1>1 DEF JobInv, Structured
<1> QED BY <1>1, <1>2, <1>3, RunEnds

LEMMA OthersKeep ==
    ASSUME CareerInv, UNCHANGED <<cache, job, run>>, cancelled' \subseteq cancelled PROVE CareerInv'
<1>1. ASSUME NEW j \in Jobs PROVE JobInv(j)'
  BY DEF CareerInv, JobInv, Life, Marked, Structured, Open, Settled
<1> QED BY <1>1 DEF CareerInv, Shape

-----------------------------------------------------------------------------
(* The theorem *)

LEMMA CareerBegins == Init => CareerInv
<1> SUFFICES ASSUME Init PROVE CareerInv
  OBVIOUS
<1>1. /\ DOMAIN NewRun = RunFields /\ NewRun.pc = "off" /\ NewRun.outcome = "NONE"
      /\ NewRun.planned = NoReview /\ NewRun.structure = NoStructure /\ Whole(NoStructure)
  BY DEF NewRun, RunFields, Whole, NoStructure
<1>2. /\ DOMAIN NewJob = JobFields /\ NewJob.status = "NEW" /\ NewJob.own = NoStructure
      /\ NewJob.answers = {}
  BY DEF NewJob, JobFields
<1>3. Shape /\ cache = NoStructure /\ \A j \in Jobs : job[j] = NewJob /\ run[j] = NewRun
  BY <1>1, <1>2 DEF Init, Shape
<1>4. Fits(NoStructure, {})
  BY DEF Fits
<1>5. ASSUME NEW j \in Jobs PROVE JobInv(j)
  BY <1>1, <1>2, <1>3, <1>4
     DEF JobInv, Life, Marked, Structured, Open, Settled, Bound, WaitingStages
<1> QED BY <1>1, <1>3, <1>5 DEF CareerInv

LEMMA CareerStep == CareerInv /\ [Next]_vars => CareerInv'
<1> SUFFICES ASSUME CareerInv, [Next]_vars PROVE CareerInv'
  OBVIOUS
<1>1. ASSUME NEW j \in Jobs,
             \/ Request(j) \/ Create(j) \/ LoadShared(j) \/ AcquireLease(j) \/ WaitTooLong(j)
             \/ Bind(j) \/ Discover(j) \/ ResolvePosting(j) \/ Detail(j) \/ ReviewPosting(j)
      PROVE  CareerInv'
  BY <1>1, RequestKeeps, CreateKeeps, LoadKeeps, AcquireKeeps, WaitKeeps, BindKeeps, DiscoverKeeps,
     ResolveKeeps, DetailKeeps, ReviewKeeps
<1>2. ASSUME NEW j \in Jobs,
             \/ Plan(j) \/ Normalize(j) \/ Fit(j) \/ Compose(j) \/ Deliver(j)
             \/ Answer(j) \/ Cancel(j) \/ CancelCall(j) \/ Retry(j)
      PROVE  CareerInv'
  BY <1>2, PlanKeeps, NormalizeKeeps, FitKeeps, ComposeKeeps, DeliverKeeps, AnswerKeeps, CancelKeeps,
     CancelCallKeeps, RetryKeeps
<1>3. CASE ExpireLease \/ (\E j \in Jobs : AbandonedEnds(j)) \/ UNCHANGED vars
  <2>1. UNCHANGED <<cache, job, run>> /\ cancelled' \subseteq cancelled
    BY <1>3 DEF ExpireLease, AbandonedEnds, vars
  <2> QED BY <2>1, OthersKeep
<1> QED BY <1>1, <1>2, <1>3 DEF Next

\* The invariant implies what the users are promised.
LEMMA CareerPromises ==
    ASSUME CareerInv PROVE PlannedAsConfirmed /\ NoStaleAnswer /\ CancelOnlyWhatWasAsked
<1>1. NoStaleAnswer /\ CancelOnlyWhatWasAsked
  BY DEF CareerInv, JobInv, Life, Marked, NoStaleAnswer, CancelOnlyWhatWasAsked
<1>2. ASSUME NEW j \in Jobs, run[j].planned # NoReview
      PROVE  /\ run[j].planned = job[j].confirmed
             /\ \A a \in job[j].answers :
                  a.key = PositionKey(run[j].structure) => a.value = run[j].planned.position
             /\ \A a \in job[j].answers :
                  a.key = TrackKey(run[j].planned.position) => a.value = run[j].planned.track
  <2> DEFINE s == run[j].structure
             plan == run[j].planned
  <2>1. JobInv(j) /\ run[j].pc \in Planned
    BY <1>2 DEF CareerInv, JobInv, Life
  <2>2. plan = job[j].confirmed /\ Chosen(s, job[j].answers, plan.position, plan.track)
    BY <1>2, <2>1 DEF JobInv, Settled
  <2>3. run[j].pc # "off" /\ Whole(s)
    BY <2>1 DEF Planned, JobInv, Structured
  <2>4. CASE s = NoStructure
    <3>1. job[j].own = NoStructure
      BY <2>1, <2>3, <2>4 DEF JobInv, Structured
    <3>2. job[j].answers = {}
      BY <2>1, <3>1 DEF JobInv, Structured, Fits
    <3> QED BY <2>2, <3>2
  <2>5. CASE s # NoStructure
    <3>1. Fits(s, job[j].answers) /\ Len(s.kinds) \in Nat \ {0}
      BY <2>3, <2>5, RunFits DEF Whole
    <3> HIDE DEF s, plan
    <3>2. /\ \A a \in job[j].answers : a.key = PositionKey(s) => a.value = plan.position
          /\ \A a \in job[j].answers : a.key = TrackKey(plan.position) => a.value = plan.track
      BY <2>2, <2>5, <3>1, ChosenIsAnswered
    <3> QED BY <2>2, <3>2 DEF s, plan
  <2> QED BY <2>4, <2>5
<1> QED BY <1>1, <1>2 DEF PlannedAsConfirmed

-----------------------------------------------------------------------------
(* What the user is shown of a run, and what a job is asked *)

\* A stage that is neither reported as running nor left open
Calm(stages) ==
    /\ DOMAIN stages = Stages
    /\ \A x \in Stages : stages[x] \notin {"RUNNING", "WAITING", "FAILED"}

Tells(stages, outcome) ==
    LET Failed == {x \in Stages : stages[x] = "FAILED"}
    IN  /\ \A x \in Stages : stages[x] = "WAITING" <=> x = outcome /\ outcome \in WaitingStages
        /\ outcome = "COMPLETED" => \A x \in Stages : stages[x] \notin {"RUNNING", "FAILED"}
        /\ Failed = {} \/ outcome \in {"AI_PROVIDER_UNAVAILABLE", "CONTRACT_VALIDATION_FAILED"}
        /\ outcome = "AI_PROVIDER_UNAVAILABLE" => \E x \in Stages : Failed = {x}

\* A run under way has no stage open; one that has ended tells how.
Shown(j) ==
    IF run[j].pc = "done" THEN Tells(run[j].stages, run[j].outcome) ELSE Calm(run[j].stages)

ReviewKey(s, answers, key) ==
    /\ s.detail # 0
    /\ Chosen(s, answers, key[2].position, key[2].track)
    /\ key = <<"review", Review(s, key[2].position, key[2].track)>>

\* A question about a structure: one key for its positions, one for the track of the
\* position that was chosen, one for the review of what was chosen.
Belongs(s, answers, key) ==
    /\ s # NoStructure
    /\ key[1] \in {"position", "track", "review", "evidence"}
    /\ key[1] = "position" => key = PositionKey(s)
    /\ key[1] = "track" => PositionOf(s, answers) # 0 /\ key = TrackKey(PositionOf(s, answers))
    /\ key[1] = "review" => ReviewKey(s, answers, key)

\* What a job has reviewed stays as it is, and a run past the details has a position
\* to review; a run that stops asks what belongs to its structure.
Kept(j) ==
    /\ run[j].pc # "off" /\ job[j].own # NoStructure /\ job[j].own.detail # 0 =>
         run[j].structure = job[j].own
    /\ run[j].pc = "detail" => run[j].structure.detail = 0
    /\ run[j].pc = "review" => run[j].structure.detail # 0
    /\ run[j].outcome \in WaitingStages =>
         /\ Belongs(run[j].structure, job[j].answers, run[j].ask)
         /\ run[j].ask[1] = "evidence" => job[j].evidence < MaxEvidence

Kind(asked, kind) == {key \in asked : key[1] = kind}

\* Everything a job was asked belongs to what it has structured.
Limited(j) ==
    /\ IsFiniteSet(job[j].asked)
    /\ \A key \in job[j].asked : Belongs(job[j].own, job[j].answers, key)
    /\ job[j].evidence \in 0 .. MaxEvidence
    /\ Cardinality(Kind(job[j].asked, "evidence")) <= job[j].evidence

StoryInv == \A j \in Jobs : Shown(j) /\ Kept(j) /\ Limited(j)

\* One mark more, on stages none of which is open.
LEMMA MarkTells ==
    ASSUME NEW stages, Calm(stages), NEW stage \in Stages, NEW status, NEW outcome,
           outcome \in WaitingStages => outcome = stage /\ status = "WAITING",
           status = "WAITING" => outcome \in WaitingStages,
           status = "FAILED" => outcome \in {"AI_PROVIDER_UNAVAILABLE", "CONTRACT_VALIDATION_FAILED"},
           outcome = "AI_PROVIDER_UNAVAILABLE" => status = "FAILED",
           outcome = "COMPLETED" => status \notin {"RUNNING", "FAILED"}
    PROVE  Tells([stages EXCEPT ![stage] = status], outcome)
<1> DEFINE new == [stages EXCEPT ![stage] = status]
           Failed == {x \in Stages : new[x] = "FAILED"}
<1>1. /\ new[stage] = status
      /\ \A x \in Stages \ {stage} : new[x] \notin {"RUNNING", "WAITING", "FAILED"}
  BY DEF Calm
<1> HIDE DEF new
<1>2. Failed = IF status = "FAILED" THEN {stage} ELSE {}
  BY <1>1
<1>3. \A x \in Stages : new[x] = "WAITING" <=> x = outcome /\ outcome \in WaitingStages
  BY <1>1
<1>4. outcome = "COMPLETED" => \A x \in Stages : new[x] \notin {"RUNNING", "FAILED"}
  BY <1>1
<1>5. outcome = "AI_PROVIDER_UNAVAILABLE" => \E x \in Stages : Failed = {x}
  BY <1>2
<1> QED BY <1>2, <1>3, <1>4, <1>5 DEF Tells, new

LEMMA MarkCalm ==
    ASSUME NEW stages, Calm(stages), NEW stage \in Stages, NEW status \in {"COMPLETED", "SKIPPED"}
    PROVE  Calm([stages EXCEPT ![stage] = status])
BY DEF Calm

\* A question belongs to a structure with the same positions, once it is reviewed to
\* that one.
LEMMA SameBelongs ==
    ASSUME NEW s, NEW t, NEW answers, NEW key, Belongs(s, answers, key), t # NoStructure,
           s.kinds = t.kinds, s.detail # 0 => t = s
    PROVE  Belongs(t, answers, key)
<1>1. PositionKey(s) = PositionKey(t) /\ PositionOf(s, answers) = PositionOf(t, answers)
  BY SameKinds
<1> QED BY <1>1 DEF Belongs, ReviewKey

\* An answer to the open question leaves what was asked before.
Answering(answers, key, v) == answers \cup {[key |-> key, value |-> v]}

LEMMA AnsweredBelongs ==
    ASSUME NEW s, NEW answers, NEW key, Asks(s, answers, key), key[1] \in {"position", "track"},
           Len(s.kinds) \in Nat \ {0}, NEW v, NEW k, Belongs(s, answers, k)
    PROVE  Belongs(s, Answering(answers, key, v), k)
<1> DEFINE p == PositionOf(s, answers)
           more == Answering(answers, key, v)
<1>1. /\ Resolve(s, answers).status = "AWAITING_ANSWER"
      /\ key = IF p = 0 THEN PositionKey(s) ELSE TrackKey(p)
  BY Resolved DEF Asks
<1>2. p # 0 => PositionOf(s, more) = p
  <2> SUFFICES ASSUME p # 0 PROVE PositionOf(s, more) = p
    OBVIOUS
  <2>1. key # PositionKey(s)
    BY <1>1 DEF TrackKey, PositionKey
  <2>2. Answered(more, PositionKey(s)) = Answered(answers, PositionKey(s))
    BY <2>1 DEF Answered, Answering
  <2> HIDE DEF more
  <2> QED BY <2>2 DEF PositionOf
<1>3. k[1] # "review"
  BY <1>1 DEF Belongs, ReviewKey, Chosen
<1>4. k[1] = "track" => p # 0 /\ k = TrackKey(p)
  BY DEF Belongs
<1> HIDE DEF more
<1>5. Belongs(s, more, k)
  BY <1>2, <1>3, <1>4 DEF Belongs
<1> QED BY <1>5 DEF more

\* Three questions, and the evidence
LEMMA UnionBound ==
    ASSUME NEW S, NEW T, IsFiniteSet(S), IsFiniteSet(T), NEW m \in Nat, NEW n \in Nat,
           Cardinality(S) <= m, Cardinality(T) <= n
    PROVE  IsFiniteSet(S \cup T) /\ Cardinality(S \cup T) <= m + n
<1>1. IsFiniteSet(S \cap T) /\ S \cap T \in SUBSET S
  BY FS_Subset
<1>2. Cardinality(S \cup T) = Cardinality(S) + Cardinality(T) - Cardinality(S \cap T)
  BY FS_Union
<1>3. /\ Cardinality(S) \in Nat /\ Cardinality(T) \in Nat /\ Cardinality(S \cap T) \in Nat
      /\ IsFiniteSet(S \cup T)
  BY <1>1, FS_CardinalityType, FS_Union
<1> QED BY <1>2, <1>3

LEMMA AtMostOne ==
    ASSUME NEW x, NEW S, S \subseteq {x} PROVE IsFiniteSet(S) /\ Cardinality(S) <= 1
<1>1. IsFiniteSet({x}) /\ Cardinality({x}) = 1 /\ S \in SUBSET {x}
  BY FS_Singleton
<1> QED BY <1>1, FS_Subset

LEMMA FewQuestions ==
    ASSUME NEW j \in Jobs, Limited(j)
    PROVE  Cardinality(job[j].asked) <= 3 + MaxEvidence
<1> DEFINE asked == job[j].asked
           own == job[j].own
           answers == job[j].answers
           r == Resolve(own, answers)
           K(kind) == Kind(asked, kind)
<1>1. asked = (K("position") \cup K("track")) \cup (K("review") \cup K("evidence"))
  BY DEF Limited, Belongs, Kind
<1>2. K("position") \subseteq {PositionKey(own)}
  BY DEF Limited, Belongs, Kind
<1>3. K("track") \subseteq {TrackKey(PositionOf(own, answers))}
  BY DEF Limited, Belongs, Kind
<1>4. K("review") \subseteq {<<"review", Review(own, r.position, r.track)>>}
  BY DEF Limited, Belongs, ReviewKey, Chosen, Kind
<1>5. IsFiniteSet(K("evidence")) /\ Cardinality(K("evidence")) <= MaxEvidence /\ MaxEvidence \in Nat
  <2>1. IsFiniteSet(K("evidence")) /\ Cardinality(K("evidence")) \in Nat
    BY FS_Subset, FS_CardinalityType DEF Limited, Kind
  <2> QED BY <2>1, CareerBounds DEF Limited
<1> HIDE DEF K
<1>6. /\ IsFiniteSet(K("position") \cup K("track"))
      /\ Cardinality(K("position") \cup K("track")) <= 2
  <2>1. /\ IsFiniteSet(K("position")) /\ Cardinality(K("position")) <= 1
        /\ IsFiniteSet(K("track")) /\ Cardinality(K("track")) <= 1
    BY <1>2, <1>3, AtMostOne
  <2>2. /\ IsFiniteSet(K("position") \cup K("track"))
        /\ Cardinality(K("position") \cup K("track")) <= 1 + 1
    BY <2>1, UnionBound
  <2> QED BY <2>2
<1>7. /\ IsFiniteSet(K("review") \cup K("evidence"))
      /\ Cardinality(K("review") \cup K("evidence")) <= 1 + MaxEvidence
  <2>1. IsFiniteSet(K("review")) /\ Cardinality(K("review")) <= 1
    BY <1>4, AtMostOne
  <2> QED BY <1>5, <2>1, UnionBound
<1>8. Cardinality(asked) <= 2 + (1 + MaxEvidence)
  <2>1. 1 + MaxEvidence \in Nat
    BY <1>5
  <2> QED BY <1>1, <1>6, <1>7, <2>1, UnionBound
<1> QED BY <1>5, <1>8

\* A step of one job leaves the story of the others.
LEMMA OneTold ==
    ASSUME StoryInv, NEW j \in Jobs, Shown(j)', Kept(j)', Limited(j)',
           \A i \in Jobs \ {j} : job'[i] = job[i] /\ run'[i] = run[i]
    PROVE  StoryInv'
<1> SUFFICES ASSUME NEW i \in Jobs \ {j} PROVE Shown(i)' /\ Kept(i)' /\ Limited(i)'
  BY DEF StoryInv
<1>1. Shown(i) /\ Kept(i) /\ Limited(i) /\ job'[i] = job[i] /\ run'[i] = run[i]
  BY DEF StoryInv
<1> QED BY <1>1 DEF Shown, Kept, Limited

\* The row of the job stays, or is not asked anything more.
LEMMA SameLimits ==
    ASSUME NEW j \in Jobs, Limited(j), job'[j].asked = job[j].asked, job'[j].own = job[j].own,
           job'[j].answers = job[j].answers, job'[j].evidence = job[j].evidence
    PROVE  Limited(j)'
BY DEF Limited

\* A run that goes on
LEMMA GoesOn ==
    ASSUME CareerInv, StoryInv, NEW j \in Jobs, NEW changes, Run(j, changes), run[j].pc # "done",
           "outcome" \notin DOMAIN changes, UNCHANGED job, run'[j].pc # "done",
           "stages" \in DOMAIN changes => Calm(changes.stages),
           job[j].own # NoStructure /\ job[j].own.detail # 0 => run'[j].structure = job[j].own,
           run'[j].pc = "detail" => run'[j].structure.detail = 0,
           run'[j].pc = "review" => run'[j].structure.detail # 0
    PROVE  StoryInv'
<1>1. Shape /\ Life(j) /\ Shown(j) /\ Limited(j)
  BY DEF CareerInv, JobInv, StoryInv
<1>2. /\ \A i \in Jobs \ {j} : run'[i] = run[i]
      /\ run'[j].outcome = run[j].outcome
      /\ run'[j].stages = IF "stages" \in DOMAIN changes THEN changes.stages ELSE run[j].stages
  BY <1>1, RunDoes DEF Became
<1>3. Shown(j)'
  BY <1>1, <1>2 DEF Shown
<1>4. Kept(j)'
  BY <1>1, <1>2 DEF Life, Kept, WaitingStages
<1>5. Limited(j)'
  BY <1>1, SameLimits
<1> QED BY <1>2, <1>3, <1>4, <1>5, OneTold

\* A run that ends
LEMMA IsOver ==
    ASSUME CareerInv, StoryInv, NEW j \in Jobs, NEW outcome, NEW changes, Finish(j, outcome, changes),
           DOMAIN changes \subseteq {"ask", "stages"}, run[j].pc \in Bound, UNCHANGED job,
           Tells(IF "stages" \in DOMAIN changes THEN changes.stages ELSE run[j].stages, outcome),
           outcome \in WaitingStages =>
             /\ "ask" \in DOMAIN changes /\ Belongs(run[j].structure, job[j].answers, changes.ask)
             /\ changes.ask[1] = "evidence" => job[j].evidence < MaxEvidence
    PROVE  StoryInv'
<1>1. Shape /\ Kept(j) /\ Limited(j) /\ run[j].pc # "off"
  BY DEF CareerInv, StoryInv, Bound
<1>2. /\ \A i \in Jobs \ {j} : run'[i] = run[i]
      /\ run'[j].pc = "done" /\ run'[j].outcome = outcome /\ run'[j].structure = run[j].structure
      /\ "ask" \in DOMAIN changes => run'[j].ask = changes.ask
      /\ run'[j].stages = IF "stages" \in DOMAIN changes THEN changes.stages ELSE run[j].stages
  BY <1>1, FinishDoes
<1>3. Shown(j)'
  BY <1>2 DEF Shown
<1>4. Kept(j)'
  BY <1>1, <1>2 DEF Kept
<1>5. Limited(j)'
  BY <1>1, SameLimits
<1> QED BY <1>2, <1>3, <1>4, <1>5, OneTold

\* A job whose run is over, or never was
LEMMA RowOnly ==
    ASSUME CareerInv, StoryInv, NEW j \in Jobs, Limited(j)',
           \A i \in Jobs \ {j} : job'[i] = job[i],
           \/ run' = [run EXCEPT ![j] = NewRun]
           \/ /\ run' = run /\ run[j].pc = "off"
           \/ /\ run' = run
              /\ job'[j].own = job[j].own /\ job'[j].answers = job[j].answers
              /\ job'[j].evidence = job[j].evidence
    PROVE  StoryInv'
<1>1. Shape /\ Life(j) /\ Shown(j) /\ Kept(j)
  BY DEF CareerInv, JobInv, StoryInv
<1>2. CASE run' = [run EXCEPT ![j] = NewRun]
  <2>1. run'[j] = NewRun /\ \A i \in Jobs \ {j} : run'[i] = run[i]
    BY <1>1, <1>2 DEF Shape
  <2>2. Calm(NoStages)
    BY DEF Calm, NoStages
  <2>3. Shown(j)' /\ Kept(j)'
    BY <2>1, <2>2 DEF Shown, Kept, NewRun, WaitingStages
  <2> QED BY <2>1, <2>3, OneTold
<1>3. CASE run' = run /\ run[j].pc = "off"
  <2>1. Shown(j)' /\ Kept(j)'
    BY <1>1, <1>3 DEF Shown, Kept, Life, WaitingStages
  <2> QED BY <1>3, <2>1, OneTold
<1>4. CASE /\ run' = run
           /\ job'[j].own = job[j].own /\ job'[j].answers = job[j].answers
           /\ job'[j].evidence = job[j].evidence
  <2>1. Shown(j)' /\ Kept(j)'
    BY <1>1, <1>4 DEF Shown, Kept
  <2> QED BY <1>4, <2>1, OneTold
<1> QED BY <1>2, <1>3, <1>4

LEMMA StoryBefore ==
    ASSUME CareerInv, StoryInv, NEW j \in Jobs,
           Request(j) \/ Create(j) \/ LoadShared(j) \/ AcquireLease(j) \/ WaitTooLong(j) \/ Bind(j)
    PROVE  StoryInv'
<1>1. Shape /\ Life(j) /\ Structured(j) /\ Shown(j) /\ Kept(j) /\ Limited(j)
  BY DEF CareerInv, JobInv, StoryInv
<1>2. CASE Request(j)
  <2>1. Set(j, [status |-> "QUEUED"]) /\ run' = run
    BY <1>2 DEF Request
  <2>2. /\ \A i \in Jobs \ {j} : job'[i] = job[i]
        /\ job'[j].asked = job[j].asked /\ job'[j].own = job[j].own
        /\ job'[j].answers = job[j].answers /\ job'[j].evidence = job[j].evidence
    BY <1>1, <2>1, SetDoes
  <2> QED BY <1>1, <2>1, <2>2, SameLimits, RowOnly
<1>3. CASE Create(j)
  <2> DEFINE changes == [pc |-> IF Checkpoint(j) = NoStructure THEN "load" ELSE "bind",
                         structure |-> Checkpoint(j)]
  <2>1. Set(j, [status |-> "RUNNING"]) /\ Run(j, changes) /\ run[j].pc = "off"
    BY <1>3 DEF Create
  <2>2. /\ \A i \in Jobs \ {j} : job'[i] = job[i]
        /\ job'[j].asked = job[j].asked /\ job'[j].own = job[j].own
        /\ job'[j].answers = job[j].answers /\ job'[j].evidence = job[j].evidence
    BY <1>1, <2>1, SetDoes
  <2>3. /\ \A i \in Jobs \ {j} : run'[i] = run[i]
        /\ run'[j].pc \in {"load", "bind"} /\ run'[j].structure = Checkpoint(j)
        /\ run'[j].outcome = run[j].outcome /\ run'[j].stages = run[j].stages
    BY <1>1, <2>1, RunDoes DEF Became
  <2>4. Shown(j)'
    BY <1>1, <2>1, <2>3 DEF Shown
  <2>5. Kept(j)'
    BY <1>1, <2>1, <2>2, <2>3 DEF Kept, Life, Checkpoint, WaitingStages
  <2> QED BY <1>1, <2>2, <2>3, <2>4, <2>5, SameLimits, OneTold
<1>4. CASE LoadShared(j) \/ AcquireLease(j)
  <2>1. PICK changes : /\ Run(j, changes) /\ "outcome" \notin DOMAIN changes
                       /\ "stages" \notin DOMAIN changes /\ "pc" \in DOMAIN changes
                       /\ changes.pc \in {"load", "acquire", "bind"}
    <3>1. \/ Run(j, [pc |-> "bind", structure |-> cache]) \/ Run(j, [pc |-> "acquire"])
          \/ Run(j, [pc |-> "bind"]) \/ Run(j, [pc |-> "load"])
      BY <1>4 DEF LoadShared, AcquireLease
    <3> QED BY <3>1
  <2>2. run[j].pc \in {"load", "acquire"} /\ job' = job
    BY <1>4 DEF LoadShared, AcquireLease
  <2>3. job[j].own = NoStructure
    BY <1>1, <2>2 DEF Structured
  <2>4. run'[j].pc \in {"load", "acquire", "bind"}
    BY <1>1, <2>1, RunDoes DEF Became
  <2> QED BY <2>1, <2>2, <2>3, <2>4, GoesOn
<1>5. CASE WaitTooLong(j)
  <2>1. Set(j, [status |-> "FAILED"]) /\ run' = [run EXCEPT ![j] = NewRun]
    BY <1>5 DEF WaitTooLong
  <2>2. /\ \A i \in Jobs \ {j} : job'[i] = job[i]
        /\ job'[j].asked = job[j].asked /\ job'[j].own = job[j].own
        /\ job'[j].answers = job[j].answers /\ job'[j].evidence = job[j].evidence
    BY <1>1, <2>1, SetDoes
  <2> QED BY <1>1, <2>1, <2>2, SameLimits, RowOnly
<1>6. CASE Bind(j)
  <2> DEFINE changes == [pc |-> IF run[j].structure = NoStructure THEN "discover" ELSE "resolve"]
  <2>1. Run(j, changes) /\ run[j].pc = "bind" /\ job' = job
    BY <1>6 DEF Bind
  <2>2. run'[j].pc \in {"discover", "resolve"} /\ run'[j].structure = run[j].structure
    BY <1>1, <2>1, RunDoes DEF Became
  <2>3. DOMAIN changes = {"pc"}
    OBVIOUS
  <2>4. job[j].own # NoStructure /\ job[j].own.detail # 0 => run[j].structure = job[j].own
    BY <1>1, <2>1 DEF Kept
  <2> HIDE DEF changes
  <2> QED BY <2>1, <2>2, <2>3, <2>4, GoesOn
<1> QED BY <1>2, <1>3, <1>4, <1>5, <1>6

\* A stage that fails, or is stopped
LEMMA StoryFails ==
    ASSUME CareerInv, StoryInv, NEW j \in Jobs, run[j].pc \in Bound, UNCHANGED job,
           NEW stage \in Stages, FailStage(j, stage)
    PROVE  StoryInv'
<1>1. Calm(run[j].stages)
  BY DEF StoryInv, Shown, Bound
<1>2. ASSUME NEW outcome, NEW status, Finish(j, outcome, [stages |-> Mark(j, <<stage, status>>)]),
             \/ /\ outcome \in {"AI_PROVIDER_UNAVAILABLE", "CONTRACT_VALIDATION_FAILED"}
                /\ status = "FAILED"
             \/ outcome = "ANALYSIS_CANCELLED" /\ status = "RUNNING"
      PROVE  StoryInv'
  <2> DEFINE changes == [stages |-> Mark(j, <<stage, status>>)]
  <2>1. changes.stages = [run[j].stages EXCEPT ![stage] = status] /\ DOMAIN changes = {"stages"}
    BY DEF Mark
  <2>2. outcome \notin WaitingStages
    BY <1>2 DEF WaitingStages
  <2>3. Tells(changes.stages, outcome)
    BY <1>1, <1>2, <2>1, <2>2, MarkTells
  <2> HIDE DEF changes
  <2> QED BY <1>2, <2>1, <2>2, <2>3, IsOver DEF changes
<1> QED BY <1>2 DEF FailStage

\* Two marks are enough to see what stands of the stages of a run that stops.
LEMMA AwaitTells ==
    ASSUME NEW j \in Jobs, Calm(run[j].stages), NEW stage \in WaitingStages
    PROVE  Tells(Mark(j, <<stage, "WAITING">>), stage)
<1>1. stage \in Stages /\ stage \notin {"AI_PROVIDER_UNAVAILABLE", "COMPLETED"}
  BY DEF WaitingStages, Stages
<1> QED BY <1>1, MarkTells DEF Mark

LEMMA StoryDiscover == ASSUME CareerInv, StoryInv, NEW j \in Jobs, Discover(j) PROVE StoryInv'
<1>1. run[j].pc = "discover" /\ job' = job /\ Shape /\ Structured(j) /\ Shown(j)
  BY DEF CareerInv, JobInv, StoryInv, Discover
<1>2. CASE FailStage(j, "POSITION_DISCOVERY")
  BY <1>1, <1>2, StoryFails DEF Bound, Stages
<1>3. CASE \E new : Run(j, [pc |-> "resolve", structure |-> new,
                            stages |-> Mark(j, <<"POSITION_DISCOVERY", "COMPLETED">>)])
  <2>1. PICK new : Run(j, [pc |-> "resolve", structure |-> new,
                           stages |-> Mark(j, <<"POSITION_DISCOVERY", "COMPLETED">>)])
    BY <1>3
  <2> DEFINE changes == [pc |-> "resolve", structure |-> new,
                         stages |-> Mark(j, <<"POSITION_DISCOVERY", "COMPLETED">>)]
  <2>2. run'[j].pc = "resolve"
    BY <1>1, <2>1, RunDoes DEF Became
  <2>3. job[j].own = NoStructure
    BY <1>1 DEF Structured
  <2>4. Calm(changes.stages)
    BY <1>1, MarkCalm DEF Shown, Mark, Stages
  <2>5. "outcome" \notin DOMAIN changes
    OBVIOUS
  <2> HIDE DEF changes
  <2> QED BY <1>1, <2>1, <2>2, <2>3, <2>4, <2>5, GoesOn DEF changes
<1>4. FailStage(j, "POSITION_DISCOVERY")
      \/ \E new : Run(j, [pc |-> "resolve", structure |-> new,
                          stages |-> Mark(j, <<"POSITION_DISCOVERY", "COMPLETED">>)])
  <2>1. \A kinds : [pc |-> "resolve", stages |-> Mark(j, <<"POSITION_DISCOVERY", "COMPLETED">>),
                    structure |-> [version |-> found + 1, kinds |-> kinds, detail |-> 0]]
                 = [pc |-> "resolve", structure |-> [version |-> found + 1, kinds |-> kinds, detail |-> 0],
                    stages |-> Mark(j, <<"POSITION_DISCOVERY", "COMPLETED">>)]
    OBVIOUS
  <2> QED BY <2>1 DEF Discover
<1> QED BY <1>2, <1>3, <1>4

LEMMA StoryResolve == ASSUME CareerInv, StoryInv, NEW j \in Jobs, ResolvePosting(j) PROVE StoryInv'
<1> DEFINE s == run[j].structure
           r == Resolve(s, job[j].answers)
           p == PositionOf(s, job[j].answers)
<1>1. run[j].pc = "resolve" /\ run[j].pc \in Bound \ {"discover"} /\ job' = job
  BY DEF ResolvePosting, Bound
<1>2. /\ Shape /\ s # NoStructure /\ Len(s.kinds) \in Nat \ {0}
      /\ r.status \in {"READY", "AWAITING_ANSWER"} /\ Calm(run[j].stages) /\ Kept(j)
  BY <1>1, AtStage DEF Fits, StoryInv, Shown
<1>3. CASE r.status = "AWAITING_ANSWER"
  <2>1. PICK stage \in {"AWAITING_POSITION_SELECTION", "AWAITING_EXPERIENCE_TRACK_SELECTION"} :
          Await(j, stage, r.ask)
    BY <1>3 DEF ResolvePosting
  <2> DEFINE changes == [ask |-> r.ask, stages |-> Mark(j, <<stage, "WAITING">>)]
  <2>2. Finish(j, stage, changes)
    BY <2>1 DEF Await
  <2>3. r.ask = IF p = 0 THEN PositionKey(s) ELSE TrackKey(p)
    BY <1>2, <1>3, Resolved
  <2>4. Belongs(s, job[j].answers, r.ask) /\ r.ask[1] # "evidence"
    <3> HIDE DEF r, s, p
    <3> QED BY <1>2, <2>3 DEF Belongs, PositionKey, TrackKey, p
  <2>5. Tells(changes.stages, stage)
    BY <1>2, AwaitTells DEF WaitingStages
  <2>6. DOMAIN changes = {"ask", "stages"} /\ changes.ask = r.ask
    OBVIOUS
  <2> HIDE DEF changes, r
  <2> QED BY <1>1, <2>2, <2>4, <2>5, <2>6, IsOver
<1>4. CASE r.status = "READY"
  <2> DEFINE changes == [pc |-> IF IsDiscovery(s) THEN "detail" ELSE "review",
                         position |-> r.position, track |-> r.track]
  <2>1. Run(j, changes)
    BY <1>4 DEF ResolvePosting
  <2>2. /\ run'[j].pc = (IF IsDiscovery(s) THEN "detail" ELSE "review")
        /\ run'[j].structure = s
    <3> HIDE DEF r
    <3> QED BY <1>2, <2>1, RunDoes DEF Became
  <2>3. "outcome" \notin DOMAIN changes /\ "stages" \notin DOMAIN changes
    OBVIOUS
  <2>4. job[j].own # NoStructure /\ job[j].own.detail # 0 => s = job[j].own
    BY <1>1, <1>2 DEF Kept
  <2> HIDE DEF changes
  <2> QED BY <1>1, <2>1, <2>2, <2>3, <2>4, GoesOn DEF IsDiscovery
<1> QED BY <1>2, <1>3, <1>4

LEMMA StoryDetail == ASSUME CareerInv, StoryInv, NEW j \in Jobs, Detail(j) PROVE StoryInv'
<1> DEFINE s == run[j].structure
           new == [s EXCEPT !.detail = run[j].position]
<1>1. run[j].pc = "detail" /\ run[j].pc \in Bound \ {"discover"} /\ job' = job
  BY DEF Detail, Bound
<1>2. /\ Shape /\ Whole(s) /\ Len(s.kinds) \in Nat /\ Settled(j) /\ Calm(run[j].stages) /\ Kept(j)
      /\ s # NoStructure
  BY <1>1, AtStage DEF StoryInv, Shown, JobInv
<1>3. CASE FailStage(j, "POSTING_DETAIL")
  BY <1>1, <1>3, StoryFails DEF Stages
<1>4. CASE Run(j, [pc |-> "review", structure |-> new,
                   stages |-> Mark(j, <<"POSTING_DETAIL", "COMPLETED">>)])
  <2> DEFINE changes == [pc |-> "review", structure |-> new,
                         stages |-> Mark(j, <<"POSTING_DETAIL", "COMPLETED">>)]
  <2>1. Run(j, changes) /\ "outcome" \notin DOMAIN changes
    BY <1>4
  <2>2. run'[j].pc = "review" /\ run'[j].structure = new
    BY <1>2, <2>1, RunDoes DEF Became
  <2>3. new.detail # 0
    <3>1. run[j].position # 0
      BY <1>1, <1>2, Resolved DEF Settled, Chosen
    <3> QED BY <1>2, <3>1 DEF Whole
  <2>4. Calm(changes.stages)
    BY <1>2, MarkCalm DEF Mark, Stages
  <2>5. ~(job[j].own # NoStructure /\ job[j].own.detail # 0)
    BY <1>1, <1>2 DEF Kept
  <2> HIDE DEF changes, new
  <2> QED BY <1>1, <2>1, <2>2, <2>3, <2>4, <2>5, GoesOn
<1> QED BY <1>3, <1>4 DEF Detail

LEMMA StoryReview == ASSUME CareerInv, StoryInv, NEW j \in Jobs, ReviewPosting(j) PROVE StoryInv'
<1> DEFINE s == run[j].structure
           review == Review(s, run[j].position, run[j].track)
           stage == "AWAITING_POSTING_CONFIRMATION"
<1>1. run[j].pc = "review" /\ run[j].pc \in Bound \ {"discover"} /\ job' = job
  BY DEF ReviewPosting, Bound
<1>2. /\ Shape /\ s # NoStructure /\ Settled(j) /\ Calm(run[j].stages) /\ Kept(j)
      /\ stage \in Stages
  BY <1>1, AtStage DEF StoryInv, Shown, JobInv, Stages
<1>3. CASE Stops(j, review)
  <2> DEFINE changes == [ask |-> <<"review", review>>, stages |-> Mark(j, <<stage, "WAITING">>)]
  <2>1. Finish(j, stage, changes)
    BY <1>3 DEF ReviewPosting, Await
  <2>2. review.position = run[j].position /\ review.track = run[j].track
    BY DEF Review
  <2>3. Belongs(s, job[j].answers, <<"review", review>>)
    <3> DEFINE key == <<"review", review>>
    <3>1. key[1] = "review" /\ key[2] = review
      OBVIOUS
    <3>2. ReviewKey(s, job[j].answers, key)
      BY <1>1, <1>2, <2>2, <3>1 DEF ReviewKey, Kept, Settled
    <3> HIDE DEF key
    <3> QED BY <1>2, <3>1, <3>2 DEF Belongs, key
  <2>4. Tells(changes.stages, stage)
    BY <1>2, AwaitTells DEF WaitingStages
  <2>5. DOMAIN changes = {"ask", "stages"} /\ changes.ask = <<"review", review>>
        /\ changes.ask[1] = "review"
    OBVIOUS
  <2> HIDE DEF changes, review
  <2> QED BY <1>1, <2>1, <2>3, <2>4, <2>5, IsOver
<1>4. ASSUME NEW code \in {"CAPABILITY_NOT_AVAILABLE", "CONTRACT_VALIDATION_FAILED"},
             Finish(j, code, [stages |-> Mark(j, <<stage, "SKIPPED">>)])
      PROVE  StoryInv'
  <2> DEFINE changes == [stages |-> Mark(j, <<stage, "SKIPPED">>)]
  <2>1. Tells(changes.stages, code)
    BY <1>2, MarkTells DEF Mark, WaitingStages
  <2>2. DOMAIN changes = {"stages"}
    OBVIOUS
  <2> HIDE DEF changes
  <2> QED BY <1>1, <1>4, <2>1, <2>2, IsOver DEF WaitingStages, changes
<1>5. CASE Run(j, [pc |-> "plan", stages |-> Mark(j, <<stage, "SKIPPED">>)])
  <2> DEFINE changes == [pc |-> "plan", stages |-> Mark(j, <<stage, "SKIPPED">>)]
  <2>1. run'[j].pc = "plan" /\ run'[j].structure = s
    BY <1>2, <1>5, RunDoes DEF Became
  <2>2. Calm(changes.stages) /\ "outcome" \notin DOMAIN changes
    BY <1>2, MarkCalm DEF Mark
  <2>3. job[j].own # NoStructure /\ job[j].own.detail # 0 => s = job[j].own
    BY <1>1, <1>2 DEF Kept
  <2> HIDE DEF changes
  <2> QED BY <1>1, <1>5, <2>1, <2>2, <2>3, GoesOn DEF changes
<1> QED BY <1>3, <1>4, <1>5 DEF ReviewPosting

\* A run that goes on with what it has structured
LEMMA Proceeds ==
    ASSUME CareerInv, StoryInv, NEW j \in Jobs, run[j].pc \in Bound \ {"discover"}, UNCHANGED job,
           NEW changes, Run(j, changes), DOMAIN changes \subseteq {"pc", "planned", "stages"},
           {"pc", "stages"} \subseteq DOMAIN changes, Calm(changes.stages),
           changes.pc \in {"graph", "fit", "roadmap"}
    PROVE  StoryInv'
<1>1. Shape /\ Kept(j) /\ run[j].pc # "done" /\ run[j].pc # "off"
  BY DEF CareerInv, StoryInv, Bound
<1>2. run'[j].pc = changes.pc /\ run'[j].structure = run[j].structure
  BY <1>1, RunDoes DEF Became
<1>3. job[j].own # NoStructure /\ job[j].own.detail # 0 => run'[j].structure = job[j].own
  BY <1>1, <1>2 DEF Kept
<1> QED BY <1>1, <1>2, <1>3, GoesOn

\* A run that ends without a question
LEMMA EndsUnasked ==
    ASSUME CareerInv, StoryInv, NEW j \in Jobs, run[j].pc \in Bound, UNCHANGED job,
           NEW outcome, outcome \notin WaitingStages, NEW stages, Tells(stages, outcome),
           Finish(j, outcome, [stages |-> stages])
    PROVE  StoryInv'
<1> DEFINE changes == [stages |-> stages]
<1>1. DOMAIN changes = {"stages"} /\ changes.stages = stages
  OBVIOUS
<1> HIDE DEF changes
<1> QED BY <1>1, IsOver DEF changes

LEMMA StoryPlan == ASSUME CareerInv, StoryInv, NEW j \in Jobs, Plan(j) PROVE StoryInv'
<1> DEFINE review == Review(run[j].structure, run[j].position, run[j].track)
<1>1. run[j].pc = "plan" /\ run[j].pc \in Bound \ {"discover"} /\ job' = job /\ Shown(j)
  BY DEF Plan, Bound, StoryInv
<1>2. CASE FailStage(j, "PROJECT_PLANNING")
  BY <1>1, <1>2, StoryFails DEF Stages
<1>3. CASE Run(j, [pc |-> "graph", planned |-> review,
                   stages |-> Mark(j, <<"PROJECT_PLANNING", "COMPLETED">>)])
  <2> DEFINE changes == [pc |-> "graph", planned |-> review,
                         stages |-> Mark(j, <<"PROJECT_PLANNING", "COMPLETED">>)]
  <2>1. Calm(changes.stages)
    BY <1>1, MarkCalm DEF Shown, Mark, Stages
  <2>2. DOMAIN changes = {"pc", "planned", "stages"} /\ changes.pc = "graph"
    OBVIOUS
  <2> HIDE DEF changes
  <2> QED BY <1>1, <1>3, <2>1, <2>2, Proceeds DEF changes
<1> QED BY <1>2, <1>3 DEF Plan

LEMMA StoryNormalize == ASSUME CareerInv, StoryInv, NEW j \in Jobs, Normalize(j) PROVE StoryInv'
<1> DEFINE normalized == Mark(j, <<"CAPABILITY_NORMALIZATION", "COMPLETED">>)
           failed == [normalized EXCEPT !["CAPABILITY_GRAPH_LOOKUP"] = "RUNNING"]
           looked == [normalized EXCEPT !["CAPABILITY_GRAPH_LOOKUP"] = "COMPLETED"]
           open == Mark(j, <<"CAPABILITY_NORMALIZATION", "RUNNING">>)
<1>1. run[j].pc = "graph" /\ run[j].pc \in Bound \ {"discover"} /\ job' = job
  BY DEF Normalize, Bound
<1>2. Calm(run[j].stages) /\ {"CAPABILITY_NORMALIZATION", "CAPABILITY_GRAPH_LOOKUP"} \subseteq Stages
  BY <1>1 DEF StoryInv, Shown, Stages
<1>3. Calm(normalized)
  BY <1>2, MarkCalm DEF Mark
<1>4. Calm(looked) /\ Tells(open, "CONTRACT_VALIDATION_FAILED")
  <2>1. Calm(looked)
    BY <1>2, <1>3, MarkCalm
  <2>2. Tells(open, "CONTRACT_VALIDATION_FAILED")
    BY <1>2, MarkTells DEF Mark, WaitingStages
  <2> QED BY <2>1, <2>2
<1>5. /\ Tells(failed, "CAPABILITY_NOT_AVAILABLE") /\ Tells(failed, "CONTRACT_VALIDATION_FAILED")
      /\ {"CAPABILITY_NOT_AVAILABLE", "CONTRACT_VALIDATION_FAILED"} \cap WaitingStages = {}
  BY <1>2, <1>3, MarkTells DEF WaitingStages
<1>6. \/ Finish(j, "CONTRACT_VALIDATION_FAILED", [stages |-> open])
      \/ \E code \in {"CAPABILITY_NOT_AVAILABLE", "CONTRACT_VALIDATION_FAILED"} :
           Finish(j, code, [stages |-> failed])
      \/ Run(j, [pc |-> "fit", stages |-> looked])
  BY DEF Normalize
<1> HIDE DEF failed, looked, open, normalized
<1>7. CASE Run(j, [pc |-> "fit", stages |-> looked])
  <2> DEFINE changes == [pc |-> "fit", stages |-> looked]
  <2>1. DOMAIN changes = {"pc", "stages"} /\ changes.pc = "fit" /\ Calm(changes.stages)
    BY <1>4
  <2> HIDE DEF changes
  <2> QED BY <1>1, <1>7, <2>1, Proceeds DEF changes
<1> QED BY <1>1, <1>4, <1>5, <1>6, <1>7, EndsUnasked

LEMMA StoryFit == ASSUME CareerInv, StoryInv, NEW j \in Jobs, Fit(j) PROVE StoryInv'
<1> DEFINE running == Mark(j, <<"FIT_ANALYSIS", "RUNNING">>)
           waiting == [running EXCEPT !["AWAITING_USER_EVIDENCE"] = "WAITING"]
           fitted == [waiting EXCEPT !["AWAITING_USER_EVIDENCE"] = "SKIPPED",
                                     !["FIT_ANALYSIS"] = "COMPLETED"]
<1>1. run[j].pc = "fit" /\ run[j].pc \in Bound \ {"discover"} /\ job' = job
  BY DEF Fit, Bound
<1>2. /\ Calm(run[j].stages) /\ {"FIT_ANALYSIS", "AWAITING_USER_EVIDENCE"} \subseteq Stages
      /\ run[j].structure # NoStructure /\ Limited(j)
  BY <1>1, AtStage DEF StoryInv, Shown, Stages
<1>3. \/ /\ ~Skip(j)
         /\ \E q : Finish(j, "AWAITING_USER_EVIDENCE", [ask |-> <<"evidence", q>>, stages |-> waiting])
      \/ Run(j, [pc |-> "roadmap", stages |-> fitted])
  BY DEF Fit
<1>4. Tells(waiting, "AWAITING_USER_EVIDENCE")
  <2>1. /\ waiting["AWAITING_USER_EVIDENCE"] = "WAITING" /\ waiting["FIT_ANALYSIS"] = "RUNNING"
        /\ \A x \in Stages \ {"FIT_ANALYSIS", "AWAITING_USER_EVIDENCE"} :
             waiting[x] \notin {"RUNNING", "WAITING", "FAILED"}
    BY <1>2 DEF Calm, Mark
  <2> HIDE DEF waiting
  <2> QED BY <2>1 DEF Tells, WaitingStages
<1>5. Calm(fitted)
  BY <1>2 DEF Calm, Mark
<1> HIDE DEF waiting, fitted
<1>6. CASE Run(j, [pc |-> "roadmap", stages |-> fitted])
  <2> DEFINE changes == [pc |-> "roadmap", stages |-> fitted]
  <2>1. DOMAIN changes = {"pc", "stages"} /\ changes.pc = "roadmap" /\ Calm(changes.stages)
    BY <1>5
  <2> HIDE DEF changes
  <2> QED BY <1>1, <1>6, <2>1, Proceeds DEF changes
<1>7. ASSUME ~Skip(j), NEW q,
             Finish(j, "AWAITING_USER_EVIDENCE", [ask |-> <<"evidence", q>>, stages |-> waiting])
      PROVE  StoryInv'
  <2> DEFINE key == <<"evidence", q>>
             changes == [ask |-> key, stages |-> waiting]
  <2>1. key[1] = "evidence"
    OBVIOUS
  <2>2. Belongs(run[j].structure, job[j].answers, key)
    BY <1>2, <2>1 DEF Belongs
  <2>3. job[j].evidence < MaxEvidence
    BY <1>2, <1>7, CareerBounds DEF Skip, Limited
  <2>4. DOMAIN changes = {"ask", "stages"} /\ changes.ask = key /\ changes.stages = waiting
    OBVIOUS
  <2> HIDE DEF changes, key
  <2> QED BY <1>1, <1>4, <1>7, <2>2, <2>3, <2>4, IsOver DEF changes, key
<1> QED BY <1>3, <1>6, <1>7

LEMMA StoryCompose == ASSUME CareerInv, StoryInv, NEW j \in Jobs, Compose(j) PROVE StoryInv'
<1> DEFINE drawn == Mark(j, <<"ROADMAP_PROPOSAL", "COMPLETED">>)
           whole == [drawn EXCEPT !["RESULT_ASSEMBLY"] = "COMPLETED"]
           broken == Mark(j, <<"ROADMAP_PROPOSAL", "RUNNING">>)
<1>1. run[j].pc = "roadmap" /\ run[j].pc \in Bound /\ job' = job
  BY DEF Compose, Bound
<1>2. Calm(run[j].stages) /\ {"ROADMAP_PROPOSAL", "RESULT_ASSEMBLY"} \subseteq Stages
  BY <1>1 DEF StoryInv, Shown, Stages
<1>3. Calm(drawn)
  BY <1>2, MarkCalm DEF Mark
<1>4. Tells(broken, "CONTRACT_VALIDATION_FAILED")
  BY <1>2, MarkTells DEF Mark, WaitingStages
<1>5. /\ "COMPLETED" \notin WaitingStages /\ "CONTRACT_VALIDATION_FAILED" \notin WaitingStages
      /\ "POSTING_STRUCTURE_INVALID" \notin WaitingStages
  BY DEF WaitingStages
<1>6. Tells(whole, "COMPLETED")
  BY <1>2, <1>3, <1>5, MarkTells
<1>7. Tells(run[j].stages, "POSTING_STRUCTURE_INVALID")
  BY <1>2, <1>5 DEF Calm, Tells
<1>8. \/ Finish(j, "POSTING_STRUCTURE_INVALID", [ask |-> NoKey])
      \/ Finish(j, "CONTRACT_VALIDATION_FAILED", [stages |-> broken])
      \/ Finish(j, "COMPLETED", [stages |-> whole])
  BY DEF Compose
<1> HIDE DEF drawn, whole, broken
<1>9. CASE Finish(j, "POSTING_STRUCTURE_INVALID", [ask |-> NoKey])
  <2> DEFINE changes == [ask |-> NoKey]
  <2>1. DOMAIN changes = {"ask"}
    OBVIOUS
  <2> HIDE DEF changes
  <2> QED BY <1>1, <1>5, <1>7, <1>9, <2>1, IsOver DEF changes
<1> QED BY <1>1, <1>4, <1>5, <1>6, <1>8, <1>9, EndsUnasked

\* What a run has structured fits the questions the job was asked before.
LEMMA RunBelongs ==
    ASSUME CareerInv, StoryInv, NEW j \in Jobs, run[j].pc = "done", run[j].structure # NoStructure,
           NEW key \in job[j].asked
    PROVE  Belongs(run[j].structure, job[j].answers, key)
<1>1. Structured(j) /\ Kept(j) /\ Belongs(job[j].own, job[j].answers, key)
  BY DEF CareerInv, JobInv, StoryInv, Limited
<1>2. job[j].own # NoStructure
  BY <1>1 DEF Belongs
<1>3. /\ run[j].structure.kinds = job[j].own.kinds
      /\ job[j].own.detail # 0 => run[j].structure = job[j].own
  BY <1>1, <1>2 DEF Structured, Kept
<1> QED BY <1>1, <1>3, SameBelongs

LEMMA StoryDeliver == ASSUME CareerInv, StoryInv, NEW j \in Jobs, Deliver(j) PROVE StoryInv'
<1> DEFINE s == run[j].structure
           key == run[j].ask
<1>1. /\ Shape /\ Structured(j) /\ Kept(j) /\ Limited(j) /\ run[j].pc = "done"
      /\ run' = [run EXCEPT ![j] = NewRun]
  BY DEF CareerInv, JobInv, StoryInv, Deliver
<1>2. \/ job' = job
      \/ Set(j, [status |-> "FAILED"])
      \/ Pause(j) /\ run[j].outcome \in WaitingStages
      \/ run[j].outcome = "COMPLETED" /\ Set(j, [status |-> "COMPLETED", own |-> s])
  BY DEF Deliver
<1>3. CASE job' = job
  BY <1>1, <1>3, SameLimits, RowOnly
<1>4. CASE Set(j, [status |-> "FAILED"])
  <2>1. /\ \A i \in Jobs \ {j} : job'[i] = job[i]
        /\ job'[j].asked = job[j].asked /\ job'[j].own = job[j].own
        /\ job'[j].answers = job[j].answers /\ job'[j].evidence = job[j].evidence
    BY <1>1, <1>4, SetDoes
  <2> QED BY <1>1, <2>1, SameLimits, RowOnly
<1>5. CASE run[j].outcome = "COMPLETED" /\ Set(j, [status |-> "COMPLETED", own |-> s])
  <2>1. /\ \A i \in Jobs \ {j} : job'[i] = job[i]
        /\ job'[j].asked = job[j].asked /\ job'[j].own = s
        /\ job'[j].answers = job[j].answers /\ job'[j].evidence = job[j].evidence
    BY <1>1, <1>5, SetDoes
  <2>2. s # NoStructure
    BY <1>1, <1>5 DEF Structured
  <2>3. Limited(j)'
    BY <1>1, <2>1, <2>2, RunBelongs DEF Limited
  <2> QED BY <1>1, <2>1, <2>3, RowOnly
<1>6. CASE Pause(j) /\ run[j].outcome \in WaitingStages /\ key \notin job[j].asked
  <2> DEFINE asked == job[j].asked \cup {key}
             more == IF key[1] = "evidence" THEN 1 ELSE 0
  <2>1. Set(j, [status |-> "WAITING", own |-> s, active |-> key, asked |-> asked,
                evidence |-> job[j].evidence + more])
    BY <1>6 DEF Pause
  <2>2. /\ \A i \in Jobs \ {j} : job'[i] = job[i]
        /\ job'[j].asked = asked /\ job'[j].own = s
        /\ job'[j].answers = job[j].answers /\ job'[j].evidence = job[j].evidence + more
    <3> HIDE DEF asked, more
    <3> QED BY <1>1, <2>1, SetDoes
  <2>3. /\ Belongs(s, job[j].answers, key) /\ s # NoStructure
        /\ key[1] = "evidence" => job[j].evidence < MaxEvidence
        /\ MaxEvidence \in Nat /\ job[j].evidence \in 0 .. MaxEvidence
    BY <1>1, <1>6, CareerBounds DEF Kept, Belongs, Limited
  <2>4. job'[j].evidence \in 0 .. MaxEvidence
    BY <2>2, <2>3
  <2>5. IsFiniteSet(asked)
    BY <1>1, FS_AddElement DEF Limited
  <2>6. Cardinality(Kind(asked, "evidence")) <= job[j].evidence + more
    <3> DEFINE old == Kind(job[j].asked, "evidence")
    <3>1. IsFiniteSet(old) /\ Cardinality(old) \in Nat /\ Cardinality(old) <= job[j].evidence
      BY <1>1, FS_Subset, FS_CardinalityType DEF Limited, Kind
    <3>2. CASE key[1] = "evidence"
      <4>1. Kind(asked, "evidence") = old \cup {key}
        BY <3>2 DEF Kind
      <4>2. Cardinality(old \cup {key}) <= Cardinality(old) + 1
        BY <3>1, FS_AddElement
      <4>3. Cardinality(old \cup {key}) \in Nat
        BY <3>1, FS_AddElement, FS_CardinalityType
      <4>4. more = 1
        BY <3>2
      <4> HIDE DEF old, asked, more
      <4>5. Cardinality(Kind(asked, "evidence")) <= Cardinality(old) + 1
        BY <4>1, <4>2 DEF asked
      <4>6. Cardinality(Kind(asked, "evidence")) \in Nat
        BY <4>1, <4>3 DEF asked
      <4>7. job[j].evidence \in Nat
        BY <2>3
      <4> QED BY <3>1, <4>4, <4>5, <4>6, <4>7
    <3>3. CASE key[1] # "evidence"
      <4>1. Kind(asked, "evidence") = old
        BY <3>3 DEF Kind
      <4> HIDE DEF old
      <4> QED BY <2>3, <3>1, <3>3, <4>1
    <3> QED BY <3>2, <3>3
  <2>7. \A k \in asked : Belongs(s, job[j].answers, k)
    BY <1>1, <2>3, RunBelongs
  <2> HIDE DEF asked, more
  <2>8. Limited(j)'
    BY <2>2, <2>4, <2>5, <2>6, <2>7 DEF Limited
  <2> QED BY <1>1, <2>2, <2>8, RowOnly
<1>7. Pause(j) /\ key \in job[j].asked => Set(j, [status |-> "FAILED"])
  BY DEF Pause
<1> QED BY <1>2, <1>3, <1>4, <1>5, <1>6, <1>7

LEMMA StoryAnswer == ASSUME CareerInv, StoryInv, NEW j \in Jobs, Answer(j) PROVE StoryInv'
<1> DEFINE key == job[j].active
           own == job[j].own
<1>1. /\ Shape /\ Life(j) /\ Structured(j) /\ Open(j) /\ Limited(j) /\ job[j].status = "WAITING"
      /\ run' = run
  BY DEF CareerInv, JobInv, StoryInv, Answer
<1>2. run[j].pc = "off" /\ Asks(own, job[j].answers, key) /\ own # NoStructure
  BY <1>1 DEF Life, Open, Asks
<1>3. PICK v, status, confirmed, answers, settled :
        /\ v \in Offered(j) /\ status \in {"CANCELLED", "QUEUED"}
        /\ answers \in {job[j].answers, job[j].answers \cup {[key |-> key, value |-> v]}}
        /\ answers # job[j].answers => key[1] \in {"position", "track"}
        /\ Set(j, [status |-> status, active |-> NoKey, answers |-> answers,
                   settled |-> settled, confirmed |-> confirmed])
  <2>1. PICK v \in Offered(j) :
          Set(j, [status |-> IF key[1] = "review" /\ v = "CANCEL" THEN "CANCELLED" ELSE "QUEUED",
                  active |-> NoKey,
                  answers |-> IF key[1] \in {"position", "track"}
                              THEN job[j].answers \cup {[key |-> key, value |-> v]}
                              ELSE job[j].answers,
                  settled |-> IF key[1] = "evidence" THEN job[j].settled \cup {key[2]}
                              ELSE job[j].settled,
                  confirmed |-> IF key[1] = "review" /\ v = "CONFIRM" THEN key[2]
                                ELSE job[j].confirmed])
    BY DEF Answer
  <2> DEFINE status == IF key[1] = "review" /\ v = "CANCEL" THEN "CANCELLED" ELSE "QUEUED"
             answers == IF key[1] \in {"position", "track"}
                        THEN job[j].answers \cup {[key |-> key, value |-> v]}
                        ELSE job[j].answers
             settled == IF key[1] = "evidence" THEN job[j].settled \cup {key[2]}
                        ELSE job[j].settled
             confirmed == IF key[1] = "review" /\ v = "CONFIRM" THEN key[2] ELSE job[j].confirmed
  <2>2. /\ status \in {"CANCELLED", "QUEUED"}
        /\ answers \in {job[j].answers, job[j].answers \cup {[key |-> key, value |-> v]}}
        /\ answers # job[j].answers => key[1] \in {"position", "track"}
    OBVIOUS
  <2>3. Set(j, [status |-> status, active |-> NoKey, answers |-> answers, settled |-> settled,
                confirmed |-> confirmed])
    BY <2>1
  <2> HIDE DEF status, answers, settled, confirmed
  <2> QED BY <2>1, <2>2, <2>3
<1>4. /\ \A i \in Jobs \ {j} : job'[i] = job[i]
      /\ job'[j].asked = job[j].asked /\ job'[j].own = own
      /\ job'[j].answers = answers /\ job'[j].evidence = job[j].evidence
  BY <1>1, <1>3, SetDoes
<1>5. \A k \in job[j].asked : Belongs(own, answers, k)
  <2>1. CASE answers = job[j].answers
    BY <1>1, <2>1 DEF Limited
  <2>2. CASE answers # job[j].answers
    <3>1. answers = job[j].answers \cup {[key |-> key, value |-> v]} /\ key[1] \in {"position", "track"}
      BY <1>3, <2>2
    <3>2. Len(own.kinds) \in Nat \ {0}
      BY <1>1, <1>2 DEF Structured, Whole
    <3>3. \A k \in job[j].asked : Belongs(own, job[j].answers, k)
      BY <1>1 DEF Limited
    <3> HIDE DEF key
    <3>4. answers = Answering(job[j].answers, key, v)
      BY <3>1 DEF Answering
    <3>5. Asks(own, job[j].answers, key) /\ key[1] \in {"position", "track"}
      BY <1>2, <3>1
    <3>6. ASSUME NEW k \in job[j].asked PROVE Belongs(own, Answering(job[j].answers, key, v), k)
      <4>1. Belongs(own, job[j].answers, k)
        BY <3>3
      <4> QED BY <3>2, <3>5, <4>1, AnsweredBelongs
    <3> QED BY <3>4, <3>6
  <2> QED BY <2>1, <2>2
<1>6. Limited(j)'
  BY <1>1, <1>4, <1>5 DEF Limited
<1> QED BY <1>1, <1>2, <1>4, <1>6, RowOnly

LEMMA StoryStopped ==
    ASSUME CareerInv, StoryInv, NEW j \in Jobs, Cancel(j) \/ CancelCall(j) \/ Retry(j)
    PROVE  StoryInv'
<1>1. Shape /\ Shown(j) /\ Kept(j) /\ Limited(j)
  BY DEF CareerInv, StoryInv
<1>2. /\ \A i \in Jobs \ {j} : job'[i] = job[i]
      /\ job'[j].asked = job[j].asked /\ job'[j].own = job[j].own
      /\ job'[j].answers = job[j].answers /\ job'[j].evidence = job[j].evidence
  <2>1. \/ Set(j, [status |-> "CANCELLED", active |-> NoKey, telling |-> TRUE])
        \/ Set(j, [telling |-> FALSE])
        \/ Set(j, [status |-> "QUEUED", retries |-> job[j].retries + 1])
    BY DEF Cancel, CancelCall, Retry
  <2> QED BY <1>1, <2>1, SetDoes
<1>3. Limited(j)'
  BY <1>1, <1>2, SameLimits
<1>4. CASE run' = run \/ run' = [run EXCEPT ![j] = NewRun]
  BY <1>2, <1>3, <1>4, RowOnly
<1>5. CASE \E t : run' = [run EXCEPT ![j].told = t]
  <2>1. PICK t : run' = [run EXCEPT ![j].told = t]
    BY <1>5
  <2>2. run'[j] = [run[j] EXCEPT !.told = t] /\ \A i \in Jobs \ {j} : run'[i] = run[i]
    BY <1>1, <2>1 DEF Shape
  <2>3. /\ run'[j].pc = run[j].pc /\ run'[j].structure = run[j].structure
        /\ run'[j].outcome = run[j].outcome /\ run'[j].ask = run[j].ask
        /\ run'[j].stages = run[j].stages
    BY <1>1, <2>2 DEF Shape, RunFields
  <2>4. Shown(j)' /\ Kept(j)'
    BY <1>1, <1>2, <2>3 DEF Shown, Kept
  <2> QED BY <1>2, <1>3, <2>2, <2>4, OneTold
<1>6. \/ run' = run \/ run' = [run EXCEPT ![j] = NewRun]
      \/ \E t : run' = [run EXCEPT ![j].told = t]
  BY DEF Cancel, CancelCall, Retry
<1> QED BY <1>4, <1>5, <1>6

LEMMA StoryBegins == Init => StoryInv
<1> SUFFICES ASSUME Init, NEW j \in Jobs PROVE Shown(j) /\ Kept(j) /\ Limited(j)
  BY DEF StoryInv
<1>1. job[j] = NewJob /\ run[j] = NewRun
  BY DEF Init
<1>2. Calm(NoStages)
  BY DEF Calm, NoStages
<1>3. Shown(j) /\ Kept(j)
  BY <1>1, <1>2 DEF Shown, Kept, NewRun, WaitingStages
<1>4. Kind({}, "evidence") = {} /\ IsFiniteSet({}) /\ Cardinality({}) = 0
  BY FS_EmptySet DEF Kind
<1>5. Limited(j)
  BY <1>1, <1>4, CareerBounds DEF Limited, NewJob
<1> QED BY <1>3, <1>5

LEMMA StoryStep == CareerInv /\ StoryInv /\ [Next]_vars => StoryInv'
<1> SUFFICES ASSUME CareerInv, StoryInv, [Next]_vars PROVE StoryInv'
  OBVIOUS
<1>1. ASSUME NEW j \in Jobs,
             \/ Request(j) \/ Create(j) \/ LoadShared(j) \/ AcquireLease(j) \/ WaitTooLong(j)
             \/ Bind(j) \/ Discover(j) \/ ResolvePosting(j) \/ Detail(j) \/ ReviewPosting(j)
      PROVE  StoryInv'
  BY <1>1, StoryBefore, StoryDiscover, StoryResolve, StoryDetail, StoryReview
<1>2. ASSUME NEW j \in Jobs,
             \/ Plan(j) \/ Normalize(j) \/ Fit(j) \/ Compose(j) \/ Deliver(j)
             \/ Answer(j) \/ Cancel(j) \/ CancelCall(j) \/ Retry(j)
      PROVE  StoryInv'
  BY <1>2, StoryPlan, StoryNormalize, StoryFit, StoryCompose, StoryDeliver, StoryAnswer, StoryStopped
<1>3. CASE ExpireLease \/ (\E j \in Jobs : AbandonedEnds(j)) \/ UNCHANGED vars
  <2>1. UNCHANGED <<job, run>>
    BY <1>3 DEF ExpireLease, AbandonedEnds, vars
  <2> QED BY <2>1 DEF StoryInv, Shown, Kept, Limited
<1> QED BY <1>1, <1>2, <1>3 DEF Next

LEMMA StoryPromises == StoryInv => StagesTellOutcome /\ QuestionsSuffice
<1> SUFFICES ASSUME StoryInv PROVE StagesTellOutcome /\ QuestionsSuffice
  OBVIOUS
<1>1. QuestionsSuffice
  BY FewQuestions DEF StoryInv, QuestionsSuffice
<1>2. ASSUME NEW j \in Jobs, run[j].pc = "done"
      PROVE  LET In(status) == {x \in Stages : run[j].stages[x] = status}
             IN  /\ In("WAITING") = {run[j].outcome} \cap WaitingStages
                 /\ run[j].outcome = "COMPLETED" => In("RUNNING") \cup In("FAILED") = {}
                 /\ In("FAILED") = {} \/ run[j].outcome \in {"AI_PROVIDER_UNAVAILABLE",
                                                             "CONTRACT_VALIDATION_FAILED"}
                 /\ run[j].outcome = "AI_PROVIDER_UNAVAILABLE" => Cardinality(In("FAILED")) = 1
  <2> DEFINE In(status) == {x \in Stages : run[j].stages[x] = status}
  <2>1. Tells(run[j].stages, run[j].outcome)
    BY <1>2 DEF StoryInv, Shown
  <2>2. In("WAITING") = {run[j].outcome} \cap WaitingStages
    BY <2>1 DEF Tells, WaitingStages, Stages
  <2>3. run[j].outcome = "COMPLETED" => In("RUNNING") \cup In("FAILED") = {}
    BY <2>1 DEF Tells
  <2>4. run[j].outcome = "AI_PROVIDER_UNAVAILABLE" => \E x : In("FAILED") = {x}
    BY <2>1 DEF Tells
  <2>5. In("FAILED") = {} \/ run[j].outcome \in {"AI_PROVIDER_UNAVAILABLE",
                                                 "CONTRACT_VALIDATION_FAILED"}
    BY <2>1 DEF Tells
  <2> HIDE DEF In
  <2>6. run[j].outcome = "AI_PROVIDER_UNAVAILABLE" => Cardinality(In("FAILED")) = 1
    BY <2>4, FS_Singleton
  <2> QED BY <2>2, <2>3, <2>5, <2>6 DEF In
<1> QED BY <1>1, <1>2 DEF StagesTellOutcome

\* Whatever fails, is retried or is shared with other jobs: the plan is of what the user
\* chose and confirmed, no answer is stale, and a run ends as cancelled only by a call that
\* came while it ran (AnalysisPipelineService.run, V3AnalysisJobProcessor, cancellation.py).
THEOREM CareerAsAsked ==
    Spec => [](PlannedAsConfirmed /\ NoStaleAnswer /\ CancelOnlyWhatWasAsked)
<1> QED BY CareerBegins, CareerStep, CareerPromises, PTL DEF Spec

\* What the user saw of a run agrees with how it ended, and a job is asked no more than
\* a choice of each kind, one review and the evidence questions, whatever fails, is
\* retried or is shared (AnalysisPipelineService.run, V3AnalysisJobProcessor).
THEOREM CareerIsToldAndBounded == Spec => [](StagesTellOutcome /\ QuestionsSuffice)
<1> QED BY CareerBegins, StoryBegins, CareerStep, StoryStep, StoryPromises, PTL DEF Spec
===========================================================================
