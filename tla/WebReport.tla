------------------------------ MODULE WebReport ------------------------------
(***************************************************************************)
(* From the judgement of the requirements to what the web shows: the score *)
(* of the categories (gap_matcher.py), whether to apply and along which    *)
(* route (agents/application_plan.py), the report with its expected gains  *)
(* (webbridge/adapter.py), the roadmap of a route with the tokens a link   *)
(* must show, and the verdict on a submitted link                          *)
(* (webbridge/http_handlers.py).  Numbers are percentages.                 *)
(***************************************************************************)
EXTENDS Integers, Sequences, FiniteSets, SequencesExt, FiniteSetsExt, Functions

CONSTANTS
    Asked,          \* postings: [requirement -> [kind, type : STRING, hard : BOOLEAN]]
    Roadmaps,       \* the requirements each step of a roadmap is related to
    Tokens          \* [requirement -> the skills it lacks]

VARIABLES
    posting,    \* the requirements of the posting
    judged,     \* the judgement of each of them: [status, backed]
    steps,      \* the roadmap of the analysis
    plan,       \* what application_plan made of it
    report,     \* what the web stores with DONE
    path,       \* the roadmap of a route
    verdicts    \* what /reassess said of each step

reportVars == <<posting, judged, steps, plan, report, path, verdicts>>

None == "none"
NoScore == -1
Unmade == [made |-> FALSE]
Statuses == {"met", "partially_met", "not_met", "uncertain"}
Reqs == DOMAIN posting

-----------------------------------------------------------------------------
(* The score *)

Points == [met |-> 100, partially_met |-> 50, not_met |-> 0]
Decided(rs) == {r \in rs : judged[r].status \in DOMAIN Points}
TypeWeight(r) == IF posting[r].type = "required" THEN 2 ELSE 1
Rounded(a, b) == (2 * a + b) \div (2 * b)

\* _weighted_score and _evidence_backed_ratio
Weighted(rs) ==
    LET of == Decided(rs)
    IN  IF of = {} THEN NoScore
        ELSE Rounded(MapThenSumSet(LAMBDA r : TypeWeight(r) * Points[judged[r].status], of),
                     MapThenSumSet(TypeWeight, of))
BackedRatio ==
    LET of == Decided(Reqs)
    IN  IF of = {} THEN NoScore ELSE Rounded(100 * Cardinality({r \in of : judged[r].backed}), Cardinality(of))

\* _score_basis
Basis ==
    LET ofKind(k) == {r \in Reqs : posting[r].kind = k}
    IN  [techSkill |-> Weighted(ofKind("text")), projectExperience |-> BackedRatio,
         roleRelevance |-> Weighted(ofKind("seniority")), domainFit |-> Weighted(ofKind("domain_keyword")),
         certLanguage |-> Weighted(ofKind("cert"))]
CategoryWeight ==
    [techSkill |-> 35, projectExperience |-> 25, roleRelevance |-> 15, domainFit |-> 15, certLanguage |-> 10]
\* overall_fit: the categories that could be computed, weighted among themselves
Overall ==
    LET present == {c \in DOMAIN Basis : Basis[c] # NoScore}
    IN  IF present = {} THEN NoScore
        ELSE Rounded(MapThenSumSet(LAMBDA c : Basis[c] * CategoryWeight[c], present),
                     MapThenSumSet(LAMBDA c : CategoryWeight[c], present))

-----------------------------------------------------------------------------
(* application_plan *)

\* to_gap_payload and _requirement_rows
Unmet == {r \in Reqs : judged[r].status \in {"not_met", "partially_met"}}
HardUnmet == {r \in Unmet : posting[r].type = "required" /\ posting[r].hard}

\* A fault for the check: a condition that nothing makes up for counts like any other
DecidedByScore(score) ==
    IF score = NoScore THEN "UNDETERMINED"
    ELSE IF score >= 70 THEN (IF Unmet = {} THEN "APPLY_NOW" ELSE "APPLY_WITH_POLISH")
    ELSE IF score >= 40 THEN "REINFORCE_FIRST"
    ELSE "MID_TERM_TARGET"
\* _decide_status
DecidedStatus(score) ==
    IF score = NoScore THEN "UNDETERMINED"
    ELSE IF HardUnmet # {} THEN "MID_TERM_TARGET"
    ELSE IF score >= 70 THEN (IF Unmet = {} THEN "APPLY_NOW" ELSE "APPLY_WITH_POLISH")
    ELSE IF score >= 40 THEN "REINFORCE_FIRST"
    ELSE "MID_TERM_TARGET"

Routes == <<"as_is", "reinforce", "parallel">>
\* run: what each route asks for is a rule
Effort == [as_is |-> "low", reinforce |-> "mid", parallel |-> "high"]
HardRisk(route) == route # "parallel" /\ HardUnmet # {}

\* What the model writes: nothing; or a headline and a text for some routes, any of them blank
\* or with a forbidden expression; a route may have a name that was not asked for, or come twice
Writings ==
    {[ok |-> FALSE]} \cup
    [ok : {TRUE}, headline : {"written", "", "firm"},
     routes : {<<>>, <<[id |-> "as_is", text |-> "written"]>>,
               <<[id |-> "as_is", text |-> ""], [id |-> "other", text |-> "written"]>>,
               <<[id |-> "parallel", text |-> "firm"]>>,
               <<[id |-> "reinforce", text |-> "written"], [id |-> "reinforce", text |-> ""]>>}]
Forbidden(w) == w.headline = "firm" \/ \E i \in DOMAIN w.routes : w.routes[i].text = "firm"
\* _write_plan: one forbidden expression, and nothing of it is used; what is blank is filled,
\* what is missing is added; the last of two with one name counts
Given(w, route) ==
    {w.routes[i].text : i \in {i \in DOMAIN w.routes :
        w.routes[i].id = route /\ \A j \in DOMAIN w.routes : j > i => w.routes[j].id # route}}
RouteText(w, route) ==
    IF ~w.ok \/ Forbidden(w) \/ Given(w, route) \subseteq {""} THEN "fallback"
    ELSE CHOOSE text \in Given(w, route) : text # ""
Headline(w) == IF ~w.ok \/ Forbidden(w) \/ w.headline = "" THEN "fallback" ELSE w.headline

-----------------------------------------------------------------------------
(* The report *)

Soft == {r \in Reqs : judged[r].status # "met" /\ ~posting[r].hard}
WeightOf(rs) == MapThenSumSet(TypeWeight, rs)
\* A fault for the check: a requirement counts in every step it belongs to
ClaimedAgain(i) == {r \in ToSet(steps[i]) : r \in Soft}
\* _step_deltas: a requirement counts in the first step that meets it
Claimed(i) == {r \in ToSet(steps[i]) : r \in Soft /\ \A j \in 1..(i - 1) : r \notin ToSet(steps[j])}
Delta(i) == IF WeightOf(Reqs) = 0 THEN 0 ELSE Rounded(100 * WeightOf(Claimed(i)), WeightOf(Reqs))
Deltas == [i \in DOMAIN steps |-> Delta(i)]

\* _requirement_to_step and _gaps
StepOf(r) == IF \E i \in DOMAIN steps : r \in ToSet(steps[i])
             THEN Min({i \in DOMAIN steps : r \in ToSet(steps[i])}) ELSE 0
Mark(r) == CASE judged[r].status = "met" -> "ok" [] judged[r].status = "not_met" -> "no" [] OTHER -> "tri"
Fix(r) ==
    IF Mark(r) = "ok" THEN "met"
    ELSE IF posting[r].hard THEN "cannot be made up for"
    ELSE IF StepOf(r) # 0 THEN "step" ELSE "reason"
\* What is shown first: problems before the rest, required before preferred
Rank(r) ==
    (CASE Mark(r) = "no" -> 0 [] Mark(r) = "tri" -> 2 [] OTHER -> 4)
      + (IF posting[r].type = "required" THEN 0 ELSE 1)
Tops == {r \in Reqs : Mark(r) # "ok" /\ \A q \in Reqs : Rank(r) <= Rank(q)}

Least(a, b) == IF a < b THEN a ELSE b
\* to_web_result and _readiness
Report(aPlan) ==
    LET now == Overall
        gain == FoldLeft(+, 0, Deltas)
    IN  [made |-> TRUE, now |-> now, goal |-> IF now = NoScore THEN NoScore ELSE Least(97, now + gain),
         fixes |-> [r \in Reqs |-> Fix(r)], deltas |-> Deltas, top |-> Tops, plan |-> aPlan,
         active |-> IF steps = <<>> THEN 0 ELSE 1]

-----------------------------------------------------------------------------
(* The roadmap of a route and what is submitted *)

\* build_roadmap: a requirement that a step cannot fulfil is not put in front
Aimed(i) ==
    LET soft == SelectSeq(steps[i], LAMBDA r : ~posting[r].hard)
    IN  IF soft # <<>> THEN Head(soft) ELSE IF steps[i] # <<>> THEN Head(steps[i]) ELSE None
\* _verify_hints: the skills that are missing, or else words of the step with general ones
Hints(i) ==
    LET missing == UNION {IF r \in Unmet THEN Tokens[r] ELSE {} : r \in ToSet(steps[i])}
    IN  IF missing # {} THEN missing ELSE {"portfolio"}
Generic == <<[front |-> None, hints |-> {"portfolio"}], [front |-> None, hints |-> {"portfolio"}],
             [front |-> None, hints |-> {"review"}]>>
Path == IF steps = <<>> THEN Generic ELSE [i \in DOMAIN steps |-> [front |-> Aimed(i), hints |-> Hints(i)]]

\* reassess_step: the form of the link, then a token of the step in it
Links == {[form |-> FALSE, tokens |-> {}]} \cup
         [form : {TRUE}, tokens : {{t} : t \in UNION {Tokens[r] : r \in DOMAIN Tokens} \cup {"portfolio", "review"}}]
Assessed(step, link) ==
    IF link.form /\ step.hints \cap link.tokens # {}
    THEN [verdict |-> "verified", resolved |-> step.front] ELSE [verdict |-> "insufficient", resolved |-> None]

-----------------------------------------------------------------------------
ReportInit ==
    /\ posting \in Asked
    /\ judged \in [DOMAIN posting -> [status : Statuses, backed : BOOLEAN]]
    /\ \A r \in DOMAIN posting : judged[r].status = "met" => judged[r].backed
    /\ steps \in Roadmaps /\ \A i \in DOMAIN steps : ToSet(steps[i]) \subseteq Unmet
    /\ plan = Unmade /\ report = Unmade /\ path = <<>> /\ verdicts = <<>>

\* run of application_plan
MakePlan(w) ==
    /\ plan = Unmade /\ report = Unmade
    /\ plan' = [made |-> TRUE, status |-> DecidedStatus(Overall), headline |-> Headline(w),
                routes |-> [i \in DOMAIN Routes |->
                              [id |-> Routes[i], effort |-> Effort[Routes[i]], hardRisk |-> HardRisk(Routes[i]),
                               text |-> RouteText(w, Routes[i])]]]
    /\ UNCHANGED <<posting, judged, steps, report, path, verdicts>>
\* The plan may fail; the report is made all the same
MakeReport ==
    /\ report = Unmade
    /\ report' = Report(plan)
    /\ UNCHANGED <<posting, judged, steps, plan, path, verdicts>>
OpenPath ==
    /\ report.made /\ path = <<>>
    /\ path' = Path /\ verdicts' = [i \in DOMAIN Path |-> None]
    /\ UNCHANGED <<posting, judged, steps, plan, report>>
Submit(i, link) ==
    /\ i \in DOMAIN path /\ verdicts[i] # "verified"
    /\ verdicts' = [verdicts EXCEPT ![i] = Assessed(path[i], link).verdict]
    /\ UNCHANGED <<posting, judged, steps, plan, report, path>>

ReportNext ==
    \/ \E w \in Writings : MakePlan(w)
    \/ MakeReport \/ OpenPath
    \/ \E i \in 1..3, link \in Links : Submit(i, link)

-----------------------------------------------------------------------------
\* What the report promises is what the roadmap can bring: the gains of the steps together
\* come to the weight of the requirements they meet, each counted once and none that no step
\* can meet, up to the rounding of each step (adapter.py, _step_deltas)
GainIsEarned ==
    report.made =>
      LET met == {r \in Soft : \E i \in DOMAIN steps : r \in ToSet(steps[i])}
          exact == 100 * WeightOf(met)
          said == FoldLeft(+, 0, report.deltas) * WeightOf(Reqs)
          slack == Len(steps) * WeightOf(Reqs)
      IN  2 * exact - slack <= 2 * said /\ 2 * said <= 2 * exact + slack

\* The plan is whole whatever the model wrote, it never says what must not be said, and it
\* does not send anybody to apply against a condition nothing makes up for
\* (application_plan.py, _write_plan, _decide_status and run)
PlanIsWhole ==
    plan.made =>
      /\ plan.headline \in {"written", "fallback"}
      /\ \A i \in DOMAIN plan.routes : plan.routes[i].text \in {"written", "fallback"}
      /\ {plan.routes[i].id : i \in DOMAIN plan.routes} = ToSet(Routes)
      /\ plan.status \in {"APPLY_NOW", "APPLY_WITH_POLISH"} => HardUnmet = {}

\* The goal of the roadmap is not below where one stands (adapter.py, _readiness).
\* Refuted.
GoalIsAhead == (report.made /\ report.now # NoScore) => report.goal >= report.now

\* To apply now means that every required condition was judged to be met
\* (application_plan.py, _fallback_plan). Refuted: it may be uncertain.
ApplyNowIsAllMet ==
    (plan.made /\ plan.status = "APPLY_NOW") =>
      \A r \in Reqs : posting[r].type = "required" => judged[r].status = "met"
=============================================================================
