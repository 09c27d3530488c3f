----------------------------- MODULE CareerFit -----------------------------
(***************************************************************************)
(* How well a user meets a position (career_pipeline/fit): the requirements *)
(* that count, the match of each with what the user has (by the project of *)
(* the company, project_overlay.py, or by a language model, service.py),   *)
(* the assessment of each requirement, the next question, the metrics and  *)
(* the verdict.  The analysis is a function of its request; what changes   *)
(* is the evidence, which the user extends between two analyses.           *)
(***************************************************************************)
EXTENDS Integers, SequencesExt

CONSTANTS
    FitPositions,       \* selected positions, with the tracks and matches offered
    Competencies,       \* competency keys a user can have a record of
    FormalFacts,        \* the states a formal fact can be in, by fact
    NoDuration          \* durationMonths of a fact that has none

VARIABLES wanted, evidence

fitVars == <<wanted, evidence>>

FormalCategories == {"CREDENTIAL", "CERTIFICATION", "LANGUAGE", "EXPERIENCE"}
Verified == {"VERIFIED", "PARTIALLY_VERIFIED"}

-----------------------------------------------------------------------------
(* contracts/fit.py: the evidence of a user *)

AcceptedCompetency(r) ==
    r.verification \in Verified => r.evidenced

CompetencyRecords ==
    {r \in [claimed: BOOLEAN, evidenced: BOOLEAN,
            verification: {"NOT_VERIFIED"} \cup Verified] : AcceptedCompetency(r)}

AcceptedReport(r) == r.claim = "NOT_CLAIMED" => ~r.evidenced

Reports == {r \in [claim: {"CLAIMED", "NOT_CLAIMED", "UNKNOWN"}, evidenced: BOOLEAN] :
              AcceptedReport(r)}

\* The tracks that go with the experience a position asks for.
AcceptedTrack(kind, track) ==
    CASE kind = "NEW_GRADUATE" -> track \in {"NONE", "NEW_GRADUATE"}
      [] kind \in {"EXPERIENCE_REQUIRED", "RANGE"} -> track \in {"NONE", "EXPERIENCED"}
      [] kind = "NEW_GRADUATE_OR_EXPERIENCED" -> track # "NONE"
      [] OTHER -> TRUE

-----------------------------------------------------------------------------
(* The requirements that count, and the matches *)

ExperienceId == "req-experience"

MinimumMonths(w) ==
    CASE w.kind \in {"EXPERIENCE_REQUIRED", "RANGE"} /\ w.track # "NEW_GRADUATE" -> {w.months}
      [] w.kind = "NEW_GRADUATE_OR_EXPERIENCED" /\ w.track = "EXPERIENCED" -> {w.months}
      [] OTHER -> {}

\* _requirements_for_request: the requirements of the position and those the
\* posting shares with it, after the experience the track asks for.
Contexts(w) ==
    [i \in 1 .. Cardinality(MinimumMonths(w)) |->
       [id |-> ExperienceId, category |-> "EXPERIENCE", obligation |-> "REQUIRED", caps |-> <<>>]]
      \o w.requirements \o SelectSeq(w.shared, LAMBDA c : c.applies)

HasUserState(r) == r.verification \in Verified \/ r.evidenced \/ r.claimed

FormalFactMatches(c, f) ==
    CASE c.category = "EXPERIENCE" -> f.kind = "ROLE_EXPERIENCE" /\ ExperienceId \in f.overlaps
      [] c.category = "CREDENTIAL" -> f.kind \in {"EDUCATION", "CERTIFICATE"} /\ c.id \in f.overlaps
      [] c.category = "CERTIFICATION" -> f.kind = "CERTIFICATE" /\ c.id \in f.overlaps
      [] c.category = "PORTFOLIO" -> f.kind = "PORTFOLIO"
      [] OTHER -> FALSE

FactOrder == SetToSortSeq(DOMAIN FormalFacts, <)

\* Mutant: the capabilities the user has no record of are not missed.
RecordedMatch(c, e) ==
    LET present == SelectSeq(c.caps, LAMBDA k : k \in DOMAIN e.competencies)
        facts == SelectSeq(FactOrder, LAMBDA f :
                   f \in DOMAIN e.facts /\ FormalFactMatches(c, e.facts[f]))
        direct == \A i \in DOMAIN present : HasUserState(e.competencies[present[i]])
    IN  [competencies |-> [i \in DOMAIN present |->
                             [of |-> present[i], relation |-> IF direct THEN "DIRECT" ELSE "PARTIAL"]],
         facts |-> [i \in DOMAIN facts |-> [of |-> facts[i], relation |-> "DIRECT"]]]

\* compile_project_fit: the match of a requirement follows from the
\* capabilities of the tasks that refer to it.
OverlayMatch(c, e) ==
    LET present == SelectSeq(c.caps, LAMBDA k : k \in DOMAIN e.competencies)
        facts == SelectSeq(FactOrder, LAMBDA f :
                   f \in DOMAIN e.facts /\ FormalFactMatches(c, e.facts[f]))
        all == /\ c.caps # <<>> /\ present = c.caps
               /\ \A k \in ToSet(c.caps) : HasUserState(e.competencies[k])
    IN  [competencies |-> [i \in DOMAIN present |->
                             [of |-> present[i], relation |-> IF all THEN "DIRECT" ELSE "PARTIAL"]],
         facts |-> [i \in DOMAIN facts |-> [of |-> facts[i], relation |-> "DIRECT"]]]

\* FitAnalysisService.analyze: a language model proposes the matches; it must
\* match every requirement and name only what the user has.
StaleReports(w, e) ==
    DOMAIN e.reports \ {Contexts(w)[i].id : i \in DOMAIN Contexts(w)}

ValidMatches(w, e) ==
    /\ DOMAIN w.draft = {Contexts(w)[i].id : i \in DOMAIN Contexts(w)}
    /\ \A q \in DOMAIN w.draft :
         /\ \A m \in ToSet(w.draft[q].competencies) : m.of \in DOMAIN e.competencies
         /\ \A m \in ToSet(w.draft[q].facts) : m.of \in DOMAIN e.facts

-----------------------------------------------------------------------------
(* The assessment of a requirement *)

Assessment(c, status, basis) ==
    [id |-> c.id, required |-> c.obligation = "REQUIRED", status |-> status, basis |-> basis,
     counted |-> status \notin {"UNKNOWN", "NOT_APPLICABLE"}]

Unknown(c) == Assessment(c, "UNKNOWN", "NO_INFORMATION")
Absent(c) == Assessment(c, "NOT_MET", "EXPLICIT_ABSENCE")

FromCompetency(c, relation, r) ==
    CASE r.verification \in Verified /\ (relation = "PARTIAL" \/ r.verification = "PARTIALLY_VERIFIED") ->
           Assessment(c, "PARTIAL", "VERIFIED_PARTIAL")
      [] r.verification = "VERIFIED" /\ relation = "DIRECT" ->
           Assessment(c, "VERIFIED_MET", "VERIFIED_COMPETENCY")
      [] r.verification \notin Verified /\ r.evidenced ->
           Assessment(c, IF relation = "PARTIAL" THEN "PARTIAL" ELSE "EVIDENCED", "CAREER_EVIDENCE")
      [] r.verification \notin Verified /\ ~r.evidenced /\ r.claimed ->
           Assessment(c, IF relation = "PARTIAL" THEN "PARTIAL" ELSE "CLAIMED_ONLY", "USER_CLAIM")
      [] OTHER -> Unknown(c)

Backing(f) == IF f.evidenced THEN "CAREER_EVIDENCE" ELSE "USER_CLAIM"

FromFormalFact(c, relation, f) ==
    CASE f.state = "ABSENT" -> Absent(c)
      [] f.state = "UNKNOWN" -> Unknown(c)
      [] f.state = "PRESENT" /\ relation = "PARTIAL" ->
           Assessment(c, "PARTIAL",
             IF f.verification \in Verified THEN "VERIFIED_PARTIAL" ELSE Backing(f))
      [] f.state = "PRESENT" /\ relation # "PARTIAL" ->
           CASE f.verification = "VERIFIED" -> Assessment(c, "VERIFIED_MET", "VERIFIED_FORMAL_FACT")
             [] f.verification = "PARTIALLY_VERIFIED" -> Assessment(c, "PARTIAL", "VERIFIED_PARTIAL")
             [] OTHER -> Assessment(c, IF f.evidenced THEN "EVIDENCED" ELSE "CLAIMED_ONLY", Backing(f))

\* max(facts, key=duration): no duration and a duration of zero come last, the
\* first of the longest is taken.
Longest(facts) ==
    LET Length(f) == IF f.months = NoDuration \/ f.months = 0 THEN -1 ELSE f.months
    IN  facts[CHOOSE i \in DOMAIN facts :
                \A k \in DOMAIN facts :
                  Length(facts[k]) < Length(facts[i]) \/ (Length(facts[k]) = Length(facts[i]) /\ i <= k)]

CompileExperience(c, minimum, facts, denied) ==
    LET f == Longest(facts)
    IN  CASE facts = <<>> -> IF denied THEN Absent(c) ELSE Unknown(c)
          [] facts # <<>> /\ f.state = "ABSENT" -> Absent(c)
          [] facts # <<>> /\ f.state # "ABSENT" /\ f.months = NoDuration -> Unknown(c)
          [] OTHER ->
               CASE f.months < minimum /\ f.verification = "VERIFIED" ->
                      Assessment(c, "NOT_MET", "VERIFIED_INSUFFICIENCY")
                 [] f.months < minimum /\ f.verification # "VERIFIED" ->
                      Assessment(c, "PARTIAL", Backing(f))
                 [] f.months >= minimum /\ f.verification = "VERIFIED" ->
                      Assessment(c, "VERIFIED_MET", "VERIFIED_FORMAL_FACT")
                 [] OTHER -> Assessment(c, IF f.evidenced THEN "EVIDENCED" ELSE "CLAIMED_ONLY", Backing(f))

StatusRank(status) ==
    CASE status = "VERIFIED_MET" -> 6 [] status = "EVIDENCED" -> 5
      [] status = "CLAIMED_ONLY" -> 4 [] status = "PARTIAL" -> 3
      [] status = "UNKNOWN" -> 1 [] OTHER -> 0

\* max over the positive assessments: the first of the highest status.
Best(found) ==
    found[CHOOSE i \in DOMAIN found :
            \A k \in DOMAIN found :
              \/ StatusRank(found[k].status) < StatusRank(found[i].status)
              \/ StatusRank(found[k].status) = StatusRank(found[i].status) /\ i <= k]

\* _compile_assessment: the best of what speaks for it, then what the user says
\* of the requirement itself.
CompileAssessment(c, match, e, minimum) ==
    LET facts == [i \in DOMAIN match.facts |-> e.facts[match.facts[i].of]]
        Reported(claim) == c.id \in DOMAIN e.reports /\ e.reports[c.id].claim = claim
        found == [i \in DOMAIN match.competencies |->
                    FromCompetency(c, match.competencies[i].relation,
                                   e.competencies[match.competencies[i].of])]
                 \o [i \in DOMAIN facts |-> FromFormalFact(c, match.facts[i].relation, facts[i])]
        positive == SelectSeq(found, LAMBDA a : a.status \notin {"UNKNOWN", "NOT_MET"})
    IN  IF c.id = ExperienceId
        THEN CompileExperience(c, minimum,
               SelectSeq(facts, LAMBDA f : f.kind = "ROLE_EXPERIENCE"), Reported("NOT_CLAIMED"))
        ELSE IF positive # <<>> THEN Best(positive)
        ELSE IF Reported("NOT_CLAIMED") THEN Absent(c)
        ELSE IF Reported("CLAIMED")
             THEN IF e.reports[c.id].evidenced THEN Assessment(c, "EVIDENCED", "CAREER_EVIDENCE")
                  ELSE Assessment(c, "CLAIMED_ONLY", "USER_CLAIM")
        ELSE Unknown(c)

Assessments(w, e) ==
    LET MatchOf(c) == IF w.matcher = "overlay" THEN OverlayMatch(c, e) ELSE w.draft[c.id]
        cs == Contexts(w)
    IN  [i \in DOMAIN cs |-> CompileAssessment(cs[i], MatchOf(cs[i]), e, w.months)]

-----------------------------------------------------------------------------
(* The question, the metrics and the verdict *)

Formal(c) == c.obligation = "REQUIRED" /\ c.category \in FormalCategories

\* next_formal_evidence_question: the first formal requirement nothing is known
\* of and the user was not asked about.
NextQuestion(w, e, found) ==
    LET cs == Contexts(w)
        open == {i \in DOMAIN cs : /\ Formal(cs[i]) /\ found[i].status = "UNKNOWN"
                                   /\ cs[i].id \notin DOMAIN e.reports}
    IN  IF w.skip \/ open = {} THEN {} ELSE {cs[Min(open)].id}

\* Mutant: any partial match counts for half in the verified tier.
LenientCredit(tier, a) ==
    CASE a.status = "VERIFIED_MET" -> 2
      [] a.status = "EVIDENCED" -> IF tier = "verified" THEN 0 ELSE 2
      [] a.status = "CLAIMED_ONLY" -> IF tier = "claimed" THEN 2 ELSE 0
      [] a.status = "PARTIAL" -> IF tier = "evidenced" /\ a.basis = "USER_CLAIM" THEN 0 ELSE 1
      [] OTHER -> 0

\* What an assessment adds to a readiness, in halves.
Credit(tier, a) ==
    CASE a.status = "VERIFIED_MET" -> 2
      [] a.status = "EVIDENCED" -> IF tier = "verified" THEN 0 ELSE 2
      [] a.status = "CLAIMED_ONLY" -> IF tier = "claimed" THEN 2 ELSE 0
      [] a.status = "PARTIAL" ->
           IF \/ tier = "claimed"
              \/ tier = "evidenced" /\ a.basis # "USER_CLAIM"
              \/ tier = "verified" /\ a.basis \in {"VERIFIED_PARTIAL", "VERIFIED_INSUFFICIENCY"}
           THEN 1 ELSE 0
      [] OTHER -> 0

CapabilityCredit(a) ==
    CASE a.status = "VERIFIED_MET" -> 100 [] a.status = "EVIDENCED" -> 70
      [] a.status = "CLAIMED_ONLY" -> 30
      [] a.status = "PARTIAL" ->
           CASE a.basis \in {"VERIFIED_PARTIAL", "VERIFIED_INSUFFICIENCY"} -> 50
             [] a.basis = "USER_CLAIM" -> 15
             [] OTHER -> 35
      [] OTHER -> 0

\* A percentage with one decimal, in tenths.
Rounded(numerator, denominator) == (2 * numerator + denominator) \div (2 * denominator)

Metrics(found) ==
    LET required == SelectSeq(found, LAMBDA a : a.required)
        known == SelectSeq(required, LAMBDA a : a.counted)
        Total(Of(_)) == FoldLeft(LAMBDA sum, a : sum + Of(a), 0, known)
        Readiness(tier) ==
          IF known = <<>> THEN {} ELSE {Rounded(Total(LAMBDA a : Credit(tier, a)) * 500, Len(known))}
    IN  [total |-> Len(required), known |-> Len(known),
         verifiedMet |-> Len(SelectSeq(known, LAMBDA a : a.status = "VERIFIED_MET")),
         claimed |-> Readiness("claimed"), evidenced |-> Readiness("evidenced"),
         verified |-> Readiness("verified"),
         capability |-> IF known = <<>> THEN {} ELSE {Rounded(Total(CapabilityCredit) * 10, Len(known))},
         unavailable |-> CASE required = <<>> -> "NO_REQUIRED_REQUIREMENTS"
                           [] required # <<>> /\ known = <<>> -> "REQUIRED_EVIDENCE_UNKNOWN"
                           [] OTHER -> "NONE"]

FormalEligibility(w, found) ==
    LET cs == Contexts(w)
        statuses == {found[i].status : i \in {k \in DOMAIN cs : Formal(cs[k])}}
        order == <<"NOT_MET", "UNKNOWN", "PARTIAL", "CLAIMED_ONLY", "EVIDENCED">>
        present == {i \in DOMAIN order : order[i] \in statuses}
    IN  IF statuses = {} THEN "NOT_APPLICABLE"
        ELSE IF present = {} THEN "VERIFIED_MET" ELSE order[Min(present)]

Verdict(found, m, eligibility) ==
    LET required == SelectSeq(found, LAMBDA a : a.required)
        unknown == Len(SelectSeq(required, LAMBDA a : a.status = "UNKNOWN"))
    IN  CASE eligibility = "NOT_MET" -> "ALTERNATIVE_PATH"
          [] eligibility # "NOT_MET" /\ (m.known = 0 \/ 2 * unknown > m.total) -> "UNKNOWN"
          [] OTHER ->
               IF /\ \A a \in ToSet(required) : a.status # "NOT_MET"
                  /\ eligibility \notin {"UNKNOWN", "PARTIAL"}
                  /\ \A r \in m.evidenced : r >= 800
               THEN "APPLY_NOW" ELSE "STRENGTHEN_THEN_APPLY"

Analysed(status, ask, found, verdict) ==
    [status |-> status, ask |-> ask, found |-> found, verdict |-> verdict]

Analyze(w, e) ==
    IF w.matcher = "model" /\ StaleReports(w, e) # {}
    THEN Analysed("ANALYSIS_STALE_RESULT", {}, <<>>, {})
    ELSE IF w.matcher = "model" /\ ~ValidMatches(w, e)
    THEN Analysed("CONTRACT_VALIDATION_FAILED", {}, <<>>, {})
    ELSE LET found == Assessments(w, e)
             ask == NextQuestion(w, e, found)
         IN  Analysed(IF ask # {} THEN "AWAITING_USER_EVIDENCE" ELSE "COMPLETED", ask, found,
                      IF ask # {} THEN {}
                      ELSE {Verdict(found, Metrics(found), FormalEligibility(w, found))})

-----------------------------------------------------------------------------
(* The evidence of a user between two analyses *)

\* The user, or the verification of a project, changes the state of a competency.
Record(k, r) ==
    /\ \E i \in DOMAIN Contexts(wanted) : k \in ToSet(Contexts(wanted)[i].caps)
    /\ evidence' = [evidence EXCEPT !.competencies = (k :> r) @@ @]
    /\ UNCHANGED wanted

StateFact(f, state) ==
    /\ \E i \in DOMAIN Contexts(wanted) : FormalFactMatches(Contexts(wanted)[i], state)
    /\ evidence' = [evidence EXCEPT !.facts = (f :> state) @@ @]
    /\ UNCHANGED wanted

\* The answer to the question comes back as a self report.
AnswerFit(q, report) ==
    /\ q \in Analyze(wanted, evidence).ask
    /\ evidence' = [evidence EXCEPT !.reports = (q :> report) @@ @]
    /\ UNCHANGED wanted

FitInit ==
    /\ wanted \in {w \in FitPositions : AcceptedTrack(w.kind, w.track)}
    /\ evidence = [competencies |-> <<>>, facts |-> <<>>, reports |-> <<>>]

FitNext ==
    \/ \E k \in Competencies, r \in CompetencyRecords : Record(k, r)
    \/ \E f \in DOMAIN FormalFacts : \E state \in FormalFacts[f] : StateFact(f, state)
    \/ \E q \in {Contexts(wanted)[i].id : i \in DOMAIN Contexts(wanted)}, r \in Reports : AnswerFit(q, r)

-----------------------------------------------------------------------------
(* Properties *)

\* What is compiled is accepted by the contracts of the result: nothing unknown
\* counts, a failure has an explicit reason, and the counts agree.
AcceptedAssessment(a) ==
    /\ a.status = "UNKNOWN" => ~a.counted /\ a.basis = "NO_INFORMATION"
    /\ a.status = "NOT_APPLICABLE" => ~a.counted /\ a.basis = "POLICY_NOT_APPLICABLE"
    /\ a.status = "NOT_MET" => a.basis \in {"EXPLICIT_ABSENCE", "VERIFIED_INSUFFICIENCY"}
    /\ a.status = "VERIFIED_MET" => a.basis \in {"VERIFIED_COMPETENCY", "VERIFIED_FORMAL_FACT"}

AcceptedMetrics(m) ==
    /\ m.known <= m.total /\ m.verifiedMet <= m.known
    /\ m.unavailable = (CASE m.total = 0 -> "NO_REQUIRED_REQUIREMENTS"
                          [] m.total # 0 /\ m.known = 0 -> "REQUIRED_EVIDENCE_UNKNOWN"
                          [] OTHER -> "NONE")
    /\ \A value \in {m.claimed, m.evidenced, m.verified} : value = {} <=> m.unavailable # "NONE"
    /\ m.unavailable # "NONE" => m.capability = {}
    /\ \A p \in m.claimed \cup m.evidenced \cup m.verified \cup m.capability : p \in 0 .. 1000

\* Verified readiness never exceeds the evidenced one, nor that the claimed one.
TiersOrdered(m) ==
    /\ \A v \in m.verified, e \in m.evidenced : v <= e
    /\ \A e \in m.evidenced, c \in m.claimed : e <= c

\* Whatever the evidence, the contracts of the result accept what is compiled of
\* it, and a weaker tier of readiness never stands below a stronger one.
FitIsConsistent ==
    LET a == Analyze(wanted, evidence)
    IN  /\ \A i \in DOMAIN a.found : AcceptedAssessment(a.found[i])
        /\ AcceptedMetrics(Metrics(a.found)) /\ TiersOrdered(Metrics(a.found))

\* A question the user answered is not asked again.
AnswerSettlesStep ==
    \A q \in {Contexts(wanted)[i].id : i \in DOMAIN Contexts(wanted)} :
      q \in DOMAIN evidence'.reports /\ q \in Analyze(wanted, evidence).ask =>
        q \notin Analyze(wanted, evidence').ask

AtLeast(new, old) ==
    /\ old.claimed => new.claimed /\ (old.evidenced => new.evidenced)
    /\ old.evidenced => new.evidenced
    /\ new.verification = "PARTIALLY_VERIFIED" => old.verification = "PARTIALLY_VERIFIED"
    /\ old.verification = "VERIFIED" => new.verification = "VERIFIED"

NoRecord == [claimed |-> FALSE, evidenced |-> FALSE, verification |-> "NOT_VERIFIED"]

RecordOf(e, k) == IF k \in DOMAIN e.competencies THEN e.competencies[k] ELSE NoRecord

\* More claims, more evidence and a full verification never lower the status of
\* a requirement. A partial verification may (it turns what was evidenced into
\* PARTIAL), and so may a claim where the user reported evidence of the
\* requirement itself (the match of the competency is preferred to the report).
MoreIsNeverLessStep ==
    LET old == Analyze(wanted, evidence).found
        new == Analyze(wanted, evidence').found
    IN  (/\ evidence'.facts = evidence.facts /\ evidence'.reports = evidence.reports
         /\ \A k \in Competencies : AtLeast(RecordOf(evidence', k), RecordOf(evidence, k))
         /\ old # <<>> /\ new # <<>>) =>
          \A i \in DOMAIN old :
            \/ old[i].id \in DOMAIN evidence.reports
            \/ StatusRank(old[i].status) <= StatusRank(new[i].status)
=============================================================================
