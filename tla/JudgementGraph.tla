--------------------------- MODULE JudgementGraph ---------------------------
(***************************************************************************)
(* The judgement engine: the graph of graph/builder.py over the nodes of   *)
(* graph/nodes.py and graph/read_nodes.py, the schedule of                 *)
(* roadmap_scheduler.py and the checks of verify_rules.py.                 *)
(*                                                                         *)
(* The posting and the resume are read side by side, each again when the   *)
(* model failed, and meet before the requirements are compared.  Nodes     *)
(* that are due together run in one superstep: each sees the state before  *)
(* it and its own writes when it chooses what comes next, and the writes   *)
(* are merged afterwards in the order of the names of the nodes.  That is  *)
(* how the graph library works; it is not in this repository.              *)
(*                                                                         *)
(* Bounds: MaxLifts on how many judgements a second look lifts.            *)
(***************************************************************************)
EXTENDS Integers, Sequences, FiniteSets, FiniteSetsExt, SequencesExt, Functions, TLC

CONSTANTS
    Alternates,     \* groups of skills that replace each other
    Requests,       \* what an analysis is asked for
    MockPosting, MockProfile,   \* what stands in where no model is configured
    Catalog,        \* of each skill, the title and hours of what teaches it
    Fallback,       \* the project that adds evidence
    MaxLifts

VARIABLES
    request,          \* the request
    graph,          \* GraphState
    due,            \* the nodes of the next superstep
    calls,          \* how often each reader called the model
    judgement       \* the assembled result
judgementVars == <<request, graph, due, calls, judgement>>

-----------------------------------------------------------------------------
(***************************************************************************)
(* What is decided of a posting and a profile (gap_matcher.py,             *)
(* sufficiency_rules.py, grade_decision.py and the requirement list of     *)
(* graph/nodes.py): how each requirement is met, which gaps follow,        *)
(* whether there is enough to judge by, and the bounds the hard rules put  *)
(* on the grade.  A text is the set of skills the taxonomy finds in it,    *)
(* with the domains it names; an evidence is its number, a duration counts *)
(* months.  The wording of reasons, the confidences and the weighted score *)
(* are left out; what a language model answers is a parameter.             *)
(***************************************************************************)
Unknown == -1                   \* a number nobody could read
NoAnswer == {0}                 \* the model gave no answer for a topic
NoSkill == "none"

Statuses == {"met", "partially_met", "not_met", "uncertain"}
Decided == {"met", "partially_met", "not_met"}

-----------------------------------------------------------------------------
(* What is compared *)

Requirement(id, type, kind) ==
    [id |-> id, type |-> type, kind |-> kind, skills |-> {}, anyOf |-> FALSE, minYears |-> Unknown, rung |-> Unknown]

\* Lines that state nothing but the years are left to the seniority requirement.
Lines(posting) ==
    {l \in posting.lines : ~(posting.yearsStated /\ l.pureYears)}

LineRequirements(posting) ==
    {[Requirement(l.id, l.type, IF l.skills = {} THEN "topic" ELSE "skills") EXCEPT !.skills = l.skills] :
       l \in Lines(posting)}

\* A skill no line names; of several of a group any one will do.
TechRequirements(posting) ==
    LET unnamed == posting.tech \ UNION {l.skills : l \in Lines(posting)}
        groups == {g \cap unnamed : g \in {h \in Alternates : Cardinality(h \cap unnamed) > 1}}
    IN {[Requirement(<<"tech", g>>, "preferred", "skills") EXCEPT !.skills = g, !.anyOf = TRUE] : g \in groups}
       \cup {[Requirement(<<"tech", {s}>>, "preferred", "skills") EXCEPT !.skills = {s}] : s \in unnamed \ UNION groups}

DomainRequirements(posting) ==
    {[Requirement(<<"domain", {d}>>, "preferred", "domain") EXCEPT !.skills = {d}] : d \in posting.domains}

SeniorityRequirement(posting) ==
    IF posting.rung = Unknown THEN {}
    ELSE {[Requirement(<<"seniority", {}>>, "required", "seniority") EXCEPT
             !.minYears = posting.minYears, !.rung = posting.rung]}

ComparisonRequirements(posting) ==
    LineRequirements(posting) \cup TechRequirements(posting)
    \cup DomainRequirements(posting) \cup SeniorityRequirement(posting)

Topics(requirements) == {r.id : r \in {q \in requirements : q.kind \in {"topic", "domain"}}}

-----------------------------------------------------------------------------
(* How each is met *)

EvidenceOf(profile, skill) == {i \in DOMAIN profile.evidence : skill \in profile.evidence[i]}
Held(profile, skill) == EvidenceOf(profile, skill) # {} \/ skill \in profile.claimed

Match(r, status, cites, held, missing, gap) ==
    [id |-> r.id, type |-> r.type, kind |-> r.kind, status |-> status,
     cites |-> cites, held |-> held, missing |-> missing, months |-> gap]

NoMonths == [needed |-> Unknown, actual |-> Unknown]

\* Four of five named skills are enough; of alternatives one is.
MatchBySkills(r, profile) ==
    LET held == {s \in r.skills : Held(profile, s)}
        missing == IF r.anyOf /\ held # {} THEN {} ELSE r.skills \ held
        status == CASE held = {} -> "not_met"
                    [] held # {} /\ (r.anyOf \/ 10 * Cardinality(held) >= 8 * Cardinality(r.skills)) -> "met"
                    [] OTHER -> "partially_met"
    IN Match(r, status, UNION {EvidenceOf(profile, s) : s \in r.skills}, held, missing, NoMonths)

\* What the model relates to the topic; no answer is not a no.
MatchByTopic(r, profile, related) ==
    CASE related = NoAnswer \/ profile.evidence = <<>> -> Match(r, "uncertain", {}, {}, {}, NoMonths)
      [] related = {} /\ profile.evidence # <<>> -> Match(r, "not_met", {}, {}, {}, NoMonths)
      [] OTHER -> Match(r, "met", related \cap DOMAIN profile.evidence, {}, {}, NoMonths)

\* A domain some evidence names needs no model.
MatchByDomain(r, profile, related) ==
    LET named == UNION {EvidenceOf(profile, d) : d \in r.skills}
    IN IF named # {} THEN Match(r, "met", named, {}, {}, NoMonths)
       ELSE MatchByTopic(r, profile, related)

RungOfYears(years) == CASE years <= 2 -> 1 [] years \in 3 .. 6 -> 2 [] years \in 7 .. 9 -> 3 [] OTHER -> 4

\* Years against years where the posting gives a number, else rung against rung.
MatchSeniority(r, profile) ==
    LET short == 12 * r.minYears - profile.months
        below == r.rung - RungOfYears(profile.months \div 12)
        status == CASE profile.months = Unknown -> "uncertain"
                    [] profile.months # Unknown /\ r.minYears # Unknown ->
                         (IF short <= 0 THEN "met" ELSE IF short <= 12 THEN "partially_met" ELSE "not_met")
                    [] OTHER -> (IF below <= 0 THEN "met" ELSE IF below = 1 THEN "partially_met" ELSE "not_met")
        known == r.minYears # Unknown /\ profile.months # Unknown
    IN Match(r, status, {}, {}, {}, IF known THEN [needed |-> 12 * r.minYears, actual |-> profile.months] ELSE NoMonths)

MatchAll(requirements, profile, answers) ==
    {CASE r.kind = "skills" -> MatchBySkills(r, profile)
       [] r.kind = "seniority" -> MatchSeniority(r, profile)
       [] r.kind = "domain" -> MatchByDomain(r, profile, answers[r.id])
       [] OTHER -> MatchByTopic(r, profile, answers[r.id]) : r \in requirements}

-----------------------------------------------------------------------------
(* Is there enough to judge by? *)

MinEvidence == 2
QuestionLimit == 5

UnevidencedClaims(matches, profile) ==
    {s \in UNION {m.held : m \in {n \in matches : n.status \in {"met", "partially_met"}}} : EvidenceOf(profile, s) = {}}

Lack(code, subject, blocking) == [code |-> code, subject |-> subject, blocking |-> blocking]

Assess(matches, profile) ==
    LET required == {m \in matches : m.type = "required"}
        undecidable == {m \in required : m.status = "uncertain"}
        count == Len(profile.evidence)
    IN (CASE count = 0 -> {Lack("no_evidence", <<>>, TRUE)}
          [] count \in 1 .. MinEvidence - 1 -> {Lack("few_evidence", <<>>, FALSE)}
          [] OTHER -> {})
       \cup {Lack("undecidable_requirement", m.id, count = 0) :
               m \in {n \in undecidable : 2 * Cardinality(undecidable) >= Cardinality(required)}}
       \cup {Lack("unevidenced_claim", <<"skill", {s}>>, FALSE) : s \in UnevidencedClaims(matches, profile)}

Sufficient(lacks) == \A l \in lacks : ~l.blocking

\* How many questions go to the user.
Questions(lacks) ==
    IF Sufficient(lacks) THEN 0 ELSE Min({QuestionLimit, Cardinality(lacks)})

-----------------------------------------------------------------------------
(* The second look and the grade *)

\* Only what is doubtful is looked at again, and only when there is something to look at.
RecheckTargets(matches, profile) ==
    IF profile.evidence = <<>> /\ profile.claimed = {} THEN {}
    ELSE {m.id : m \in {n \in matches : n.status = "uncertain" \/ (n.type = "required" /\ n.status = "not_met")}}

\* A judgement is lifted, never lowered, and only on evidence or on a skill that is there.
Lift(m, lift, profile) ==
    LET cites == lift.cites \cap DOMAIN profile.evidence
        skill == {lift.skill} \cap profile.claimed
    IN IF cites = {} /\ skill = {} THEN m
       ELSE [m EXCEPT !.status = lift.status,
                      !.cites = IF cites # {} THEN cites ELSE @,
                      !.held = IF skill # {} THEN skill ELSE @,
                      !.missing = IF lift.status = "met" THEN {} ELSE @]

Recheck(matches, profile, lifts) ==
    {IF m.id \in DOMAIN lifts \cap RecheckTargets(matches, profile) THEN Lift(m, lifts[m.id], profile) ELSE m : m \in matches}

Low == 0
Mid == 1
Top == 2
Undecided == -1

DecidedOf(matches) == {m \in matches : m.status \in Decided}
RequiredOf(matches) == {m \in DecidedOf(matches) : m.type = "required"}
Refused(matches) == {m \in RequiredOf(matches) : m.status = "not_met"}

\* A shortfall of two years that is more than half of what is asked.
Structural(m) ==
    /\ m.months.needed > 0
    /\ m.months.actual # Unknown
    /\ m.months.needed - m.months.actual >= 24
    /\ 2 * m.months.actual < m.months.needed

HighBound(matches) ==
    LET junior == {m \in Refused(matches) : m.kind = "seniority"}
    IN IF \/ 2 * Cardinality(Refused(matches)) > Cardinality(RequiredOf(matches))
          \/ \E m \in junior : Structural(m)
       THEN Low
       ELSE IF Cardinality(Refused(matches)) >= 2 \/ junior # {} THEN Mid ELSE Top

LowBound(matches) ==
    IF RequiredOf(matches) # {} /\ \A m \in RequiredOf(matches) : m.status = "met" THEN Mid ELSE Low

Clamp(grade, low, high) == Max({low, Min({grade, high})})

\* proposed: the grade of the model, or of the score where it gave none
Grade(matches, proposed) ==
    IF DecidedOf(matches) = {} THEN Undecided
    ELSE Clamp(proposed, LowBound(matches), HighBound(matches))

-----------------------------------------------------------------------------
(* The diagnosis: a gap is a shortfall that was confirmed *)

Severity(m) ==
    CASE m.type = "required" /\ m.status = "not_met" -> "high"
      [] m.type = "required" /\ m.status = "partially_met" -> "medium"
      [] OTHER -> "low"

\* The mistake of treating what could not be judged as a shortfall.
SuspiciousGaps(matches) ==
    {[id |-> m.id, severity |-> Severity(m), missing |-> m.missing] : m \in {n \in matches : n.status # "met"}}

Gaps(matches) ==
    {[id |-> m.id, severity |-> Severity(m), missing |-> m.missing] :
       m \in {n \in matches : n.status \in {"not_met", "partially_met"}}}

-----------------------------------------------------------------------------
(* The graph *)

Readers == {"build_user_profile", "parse_job_posting"}
MaxGenRetry == 1
MaxVerifyRetry == 1
NoEvidenceThreshold == 3

EmptyPosting == [titled |-> FALSE, lines |-> {}, tech |-> {}, domains |-> {}, yearsStated |-> FALSE, minYears |-> Unknown, rung |-> Unknown]
EmptyProfile == [entries |-> FALSE, claimed |-> {}, evidence |-> <<>>, months |-> 0]
NoGap == [matches |-> {}, gaps |-> {}, grade |-> Undecided, made |-> FALSE]
NoRoadmap == [items |-> <<>>, dropped |-> {}, weeks |-> 0]
NoResult == [status |-> "none"]

-----------------------------------------------------------------------------
(* Retries: a node tells in nodeFailed how it fared, and counts failures *)

Entry(dictionary, key, default) == IF key \in DOMAIN dictionary THEN dictionary[key] ELSE default

\* What a node writes: its copy of both dictionaries with its own entry set.
GenRetryUpdates(g, node, failed) ==
    [g EXCEPT !.nodeFailed = (node :> failed) @@ @,
              !.retryCount = IF failed THEN (node :> Entry(@, node, 0) + 1) @@ @ ELSE @]

ShouldRetry(g, node) ==
    Entry(g.nodeFailed, node, FALSE) /\ Entry(g.retryCount, node, 0) <= MaxGenRetry

-----------------------------------------------------------------------------
(* Reading *)

HasPosting(posting) == posting.titled \/ posting.lines # {} \/ posting.tech # {}
HasProfile(profile) == profile.entries \/ profile.claimed # {}

Calls(node, g) ==
    IF node = "parse_job_posting" THEN ~HasPosting(g.posting) /\ request.llm
    ELSE ~HasProfile(g.profile) /\ request.resume /\ request.llm

\* What is there already is kept, and says nothing of failures.
ParseJobPosting(g, fails) ==
    IF HasPosting(g.posting) THEN g
    ELSE GenRetryUpdates(
           [g EXCEPT !.posting = IF ~request.llm THEN MockPosting ELSE IF fails THEN EmptyPosting ELSE request.posting],
           "parse_job_posting", request.llm /\ fails)

BuildUserProfile(g, fails) ==
    IF HasProfile(g.profile) THEN g
    ELSE GenRetryUpdates(
           [g EXCEPT !.profile = IF ~request.llm \/ ~request.resume THEN MockProfile
                                 ELSE IF fails THEN EmptyProfile ELSE request.profile],
           "build_user_profile", request.llm /\ request.resume /\ fails)

ReadBy(node, g, fails) ==
    IF node = "parse_job_posting" THEN ParseJobPosting(g, fails) ELSE BuildUserProfile(g, fails)

\* The writes of both, the parser's last; the dictionaries entry by entry.
Merged(g, own) ==
    LET of(n) == IF n \in DOMAIN own THEN own[n] ELSE g
        parsed == of("parse_job_posting")
        built == of("build_user_profile")
    IN [g EXCEPT !.posting = parsed.posting,
                 !.profile = built.profile,
                 !.nodeFailed = parsed.nodeFailed @@ built.nodeFailed,
                 !.retryCount = parsed.retryCount @@ built.retryCount]

Continue(own) ==
    LET again == {n \in DOMAIN own : ShouldRetry(own[n], n)}
    IN IF again = {} THEN {"check_sufficiency"} ELSE again

ReadInputs ==
    /\ due # {} /\ due \subseteq Readers
    /\ \E fails \in [due -> BOOLEAN] :
         \E own \in {[n \in due |-> ReadBy(n, graph, fails[n])]} :
           /\ \A n \in due : fails[n] => Calls(n, graph)
           /\ graph' = Merged(graph, own)
           /\ due' = Continue(own)
    /\ calls' = [n \in Readers |-> calls[n] + (IF n \in due /\ Calls(n, graph) THEN 1 ELSE 0)]
    /\ UNCHANGED <<request, judgement>>

-----------------------------------------------------------------------------
(* Is there enough? *)

\* What the model may relate to each topic.  What it said before stays said.
Answers(profile, requirements, said) ==
    {a \in [Topics(requirements) -> (SUBSET DOMAIN profile.evidence) \cup {NoAnswer}] :
       /\ \A t \in DOMAIN a \cap DOMAIN said : a[t] = said[t]
       /\ profile.evidence = <<>> \/ ~request.llm => \A t \in DOMAIN a : a[t] = NoAnswer}

Said(answers) == [t \in {u \in DOMAIN answers : answers[u] # NoAnswer} |-> answers[t]]

CheckSufficiency ==
    /\ due = {"check_sufficiency"}
    /\ \E requirements \in {ComparisonRequirements(graph.posting)} :
         \E answers \in Answers(graph.profile, requirements, graph.said) :
           \E lacks \in {Assess(MatchAll(requirements, graph.profile, answers), graph.profile)} :
             /\ graph' = [graph EXCEPT !.questions = Questions(lacks), !.said = Said(answers)]
             /\ due' = IF Sufficient(lacks) THEN {"analyze_gap"} ELSE {"assemble_output"}
    /\ UNCHANGED <<request, calls, judgement>>

-----------------------------------------------------------------------------
(* The diagnosis *)

Lifts(matches, profile) ==
    LET some == {T \in SUBSET RecheckTargets(matches, profile) : Cardinality(T) <= MaxLifts}
        cited == {{}, DOMAIN profile.evidence}
        kinds == [status : {"met", "partially_met"}, cites : cited, skill : profile.claimed \cup {NoSkill}]
    IN UNION {[T -> kinds] : T \in IF request.llm THEN some ELSE {{}}}

Diagnosis(matches, proposed) ==
    [matches |-> matches, gaps |-> Gaps(matches), grade |-> Grade(matches, proposed), made |-> TRUE]

AfterGap(grade) ==
    IF grade # Top THEN {"plan_roadmap"}
    ELSE IF request.includeAlternatives THEN {"find_alternatives"} ELSE {"verify_result"}

AnalyzeGap ==
    /\ due = {"analyze_gap"}
    /\ \E requirements \in {ComparisonRequirements(graph.posting)} :
         \E answers \in Answers(graph.profile, requirements, graph.said) :
           \E matches \in {MatchAll(requirements, graph.profile, answers)} :
             \E lifts \in Lifts(matches, graph.profile), proposed \in {Low, Mid, Top} :
               \E gap \in {Diagnosis(Recheck(matches, graph.profile, lifts), proposed)} :
                 /\ graph' = GenRetryUpdates([graph EXCEPT !.gap = gap, !.said = Said(answers)], "analyze_gap", FALSE)
                 /\ due' = AfterGap(gap.grade)
    /\ UNCHANGED <<request, calls, judgement>>

-----------------------------------------------------------------------------
(* The roadmap *)

Rank(severity) == CASE severity = "high" -> 0 [] severity = "medium" -> 1 [] OTHER -> 2

\* What fills a gap: for each missing skill what teaches it, if anything does.
Courses(gap) ==
    IF gap.missing = {} THEN {Fallback} ELSE {Catalog[s] : s \in gap.missing \cap DOMAIN Catalog}

SelectItems(gaps) ==
    {[title |-> c.title, hours |-> c.hours,
      related |-> {g.id : g \in {h \in gaps : c \in Courses(h)}},
      rank |-> Min({Rank(g.severity) : g \in {h \in gaps : c \in Courses(h)}})] :
       c \in UNION {Courses(g) : g \in gaps}}

\* By priority, then the lighter first.
Ordered(items) ==
    SetToSortSeq(items, LAMBDA a, b : \/ a.rank < b.rank
                                      \/ a.rank = b.rank /\ a.hours < b.hours
                                      \/ a.rank = b.rank /\ a.hours = b.hours /\ a.title < b.title)

HoursOf(items) == FoldLeft(LAMBDA sum, i : sum + i.hours, 0, items)

\* The last goes first until the rest fits; one stays, cut to the budget.
FitToBudget(items, budget) ==
    LET fitting == {n \in 1 .. Len(items) : n = 1 \/ HoursOf(SubSeq(items, 1, n)) <= budget}
        kept == SubSeq(items, 1, Max(fitting))
    IN IF budget = 0 \/ items = <<>> THEN items
       ELSE IF HoursOf(kept) > budget THEN <<[kept[1] EXCEPT !.hours = budget]>> ELSE kept

WeeksOf(item, weekly) == Max({1, (item.hours + weekly - 1) \div weekly})

\* One after the other; what would end too late is left out, and the next is tried.
Place(items, weeks, weekly) ==
    FoldLeft(LAMBDA plan, i :
               IF plan.used + WeeksOf(i, weekly) > weeks THEN plan
               ELSE [used |-> plan.used + WeeksOf(i, weekly),
                     items |-> Append(plan.items, i @@ [from |-> plan.used, to |-> plan.used + WeeksOf(i, weekly)])],
             [used |-> 0, items |-> <<>>], items).items

Schedule(items, weeks, weekly) ==
    LET placed == Place(FitToBudget(Ordered(items), weeks * weekly), Max({weeks, 1}), Max({weekly, 1}))
    IN [items |-> placed, weeks |-> weeks,
        dropped |-> {i \in items : \A n \in DOMAIN placed : placed[n].title # i.title}]

AfterRoadmap(grade) ==
    IF grade \in {Low, Mid} \/ request.includeAlternatives THEN {"find_alternatives"} ELSE {"verify_result"}

PlanRoadmap ==
    /\ due = {"plan_roadmap"}
    /\ \E roadmap \in {Schedule(SelectItems(graph.gap.gaps), request.weeks, request.weekly)} :
         graph' = GenRetryUpdates([graph EXCEPT !.roadmap = roadmap], "plan_roadmap", FALSE)
    /\ due' = AfterRoadmap(graph.gap.grade)
    /\ UNCHANGED <<request, calls, judgement>>

-----------------------------------------------------------------------------
(* Other ways: postings the search found, or the kinds of steps toward the role *)

FindAlternatives ==
    /\ due = {"find_alternatives"}
    /\ \E found \in {"postings", "paths", "none"} :
         graph' = GenRetryUpdates([graph EXCEPT !.alternatives = found], "find_alternatives", FALSE)
    /\ due' = {"verify_result"}
    /\ UNCHANGED <<request, calls, judgement>>

-----------------------------------------------------------------------------
(* The checks *)

Bogus(m, profile) == m.cites \ DOMAIN profile.evidence

\* Evidence that does not exist is taken out, and a judgement that rested on it alone.
Sanitized(m, profile) ==
    IF Bogus(m, profile) = {} THEN m
    ELSE [m EXCEPT !.cites = @ \cap DOMAIN profile.evidence,
                   !.status = IF @ = "met" /\ m.cites \subseteq Bogus(m, profile) THEN "uncertain" ELSE @]

Orphans(gaps, roadmap) ==
    {n \in DOMAIN roadmap.items : gaps # {} /\ ~(roadmap.items[n].related \subseteq {g.id : g \in gaps})}

Inconsistent(g) ==
    \/ g.gap.matches = {}
    \/ Orphans(g.gap.gaps, g.roadmap) # {}
    \/ g.roadmap.weeks # 0 /\ request.weeks # 0 /\ g.roadmap.weeks # request.weeks

VerifyResult ==
    /\ due = {"verify_result"}
    /\ \E bad \in {Cardinality({m \in graph.gap.matches : Bogus(m, graph.profile) # {}})},
          count \in {Entry(graph.retryCount, "verify_result", 0)} :
         \E sound \in {bad < NoEvidenceThreshold /\ ~Inconsistent(graph)} :
           /\ graph' = [graph EXCEPT !.verified = sound,
                                     !.gap.matches = {Sanitized(m, graph.profile) : m \in @},
                                     !.retryCount = IF ~sound /\ count < MaxVerifyRetry
                                                    THEN ("verify_result" :> count + 1) @@ @ ELSE @]
           /\ due' = IF ~sound /\ count < MaxVerifyRetry THEN {"analyze_gap"} ELSE {"assemble_output"}
    /\ UNCHANGED <<request, calls, judgement>>

AssembleOutput ==
    /\ due = {"assemble_output"}
    /\ judgement' =
         [status |-> IF graph.questions > 0 THEN "need_more_info" ELSE "completed",
          grade |-> IF graph.questions > 0 THEN Undecided ELSE graph.gap.grade,
          matches |-> graph.gap.matches, gaps |-> graph.gap.gaps,
          roadmap |-> graph.roadmap, alternatives |-> graph.alternatives,
          retried |-> {n \in DOMAIN graph.retryCount : graph.retryCount[n] > 0}]
    /\ due' = {}
    /\ UNCHANGED <<request, graph, calls>>

-----------------------------------------------------------------------------
\* A conversation may bring a posting or a profile that was read before.
JudgementInit ==
    /\ request \in Requests
    /\ graph = [posting |-> IF request.postingSeeded THEN request.posting ELSE EmptyPosting,
                profile |-> IF request.profileSeeded THEN request.profile ELSE EmptyProfile,
                nodeFailed |-> <<>>, retryCount |-> <<>>, said |-> <<>>,
                questions |-> 0, gap |-> NoGap, roadmap |-> NoRoadmap, alternatives |-> "none", verified |-> FALSE]
    /\ due = Readers
    /\ calls = [n \in Readers |-> 0]
    /\ judgement = NoResult

JudgementNext ==
    \/ ReadInputs \/ CheckSufficiency \/ AnalyzeGap \/ PlanRoadmap
    \/ FindAlternatives \/ VerifyResult \/ AssembleOutput

Delivered == judgement # NoResult

-----------------------------------------------------------------------------
(* Properties *)

\* An analysis ends in questions exactly when nothing was diagnosed: a user who
\* is told that more is needed was not judged, and one who was judged is not
\* asked (build_questions, route_sufficiency, assemble_output).
AskedInsteadOfJudged ==
    Delivered => (judgement.status = "need_more_info" <=> ~graph.gap.made)

\* The grade that reaches the user agrees with the judgements that reach the
\* user, whatever the model proposed and whatever was lifted in between: no top
\* grade with two required refusals or a refused seniority, none but the lowest
\* where most of what is required is refused, and never the lowest where all of
\* it is met (_hard_rule_bounds, recheck, verify_result).
GradeAgreesWithJudgements ==
    Delivered /\ judgement.status = "completed" /\ judgement.grade # Undecided =>
      LET required == {m \in judgement.matches : m.type = "required" /\ m.status # "uncertain"}
          refused == {m \in required : m.status = "not_met"}
      IN /\ judgement.grade = Top => Cardinality(refused) < 2 /\ \A m \in refused : m.kind # "seniority"
         /\ 2 * Cardinality(refused) > Cardinality(required) => judgement.grade = Low
         /\ required # {} /\ (\A m \in required : m.status = "met") => judgement.grade # Low

\* Every item of the roadmap answers a shortfall that the same result confirms,
\* none something that could not be judged or is met (to_gap_payload,
\* _select_roadmap_items, check_consistency), and no two items overlap or run
\* past the weeks the user has.
RoadmapServesShortfalls ==
    Delivered =>
      \A n \in DOMAIN judgement.roadmap.items :
        LET item == judgement.roadmap.items[n]
        IN /\ item.related # {}
           /\ \A id \in item.related :
                \E m \in judgement.matches : m.id = id /\ m.status \in {"not_met", "partially_met"}
           /\ item.to <= Max({request.weeks, 1})
           /\ n > 1 => judgement.roadmap.items[n - 1].to <= item.from

\* No reader asks the model more than twice, though each may overwrite what the
\* other has noted of itself (_should_retry_node, merge_dicts).
ReadsAreBounded == \A n \in Readers : calls[n] <= MaxGenRetry + 1

\* What the schedule leaves out is never more urgent than what it keeps. Refuted:
\* what is too long is passed over for what is shorter (roadmap_scheduler.py).
LessUrgentYields ==
    Delivered =>
      \A out \in judgement.roadmap.dropped, n \in DOMAIN judgement.roadmap.items :
        judgement.roadmap.items[n].rank <= out.rank

=============================================================================
