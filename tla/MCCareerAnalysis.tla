------------------------- MODULE MCCareerAnalysis -------------------------
(***************************************************************************)
(* The parts of a career analysis, each on a small instance.  A behaviour  *)
(* is one of a part, which the first state chooses; the parts share no     *)
(* state: what one hands to the next is a choice of the next one's first   *)
(* state.  The analysis itself is there twice, with two jobs that share a  *)
(* posting, and with one job that is retried.                              *)
(***************************************************************************)
EXTENDS CareerPipeline

CONSTANTS NoDuration

JobSymmetry == Permutations(Jobs)

-----------------------------------------------------------------------------
(* A source: requests, with what the site would answer *)

MCAnnounces == ("duty" :> {"duty"}) @@ ("need" :> {"requirement"}) @@ ("hire" :> {"employment"}) @@ ("x" :> {}) @@ ("tail" :> {"tail"})
SiteFrame(media, text, images) == [media |-> media, text |-> text, images |-> images]
Image2 == <<<<"x", "duty">>, <<"duty", "need">>>>
Image3 == <<<<"duty">>, <<"x">>, <<>>, <<"need">>>>
SitePage == [type |-> "URL", given |-> {"URL"}, metadata |-> FALSE, text |-> <<>>, image |-> <<>>, configured |-> TRUE,
  unsafe |-> FALSE, media |-> "html", frames |-> <<>>, readers |-> <<>>, fragment |-> FALSE]
MCRequests ==
  {[SitePage EXCEPT !.type = "TEXT", !.given = {"TEXT"}, !.text = t] : t \in {<<>>, <<"x">>}}
  \cup {[SitePage EXCEPT !.type = "IMAGE", !.given = {"IMAGE"}, !.metadata = TRUE, !.image = t, !.configured = c] : t \in {Image2, Image3}, c \in BOOLEAN}
  \cup {[SitePage EXCEPT !.given = {"URL", "TEXT"}], [SitePage EXCEPT !.unsafe = TRUE], [SitePage EXCEPT !.media = "other", !.readers = <<<<"duty", "hire">>>>],
        [SitePage EXCEPT !.media = "image", !.image = Image2, !.readers = <<<<"hire">>>>]}
  \cup {[SitePage EXCEPT !.text = t, !.frames = <<SiteFrame("html", <<"x", "need">>, <<>>), SiteFrame("image", <<>>, <<Image2>>)>>, !.fragment = g] :
          t \in {<<"x", "tail", "duty">>, <<"duty", "hire">>}, g \in BOOLEAN}
  \cup {[SitePage EXCEPT !.text = t, !.readers = <<<<"x">>, <<"duty", "need", "tail", "x">>, <<"hire">>>>, !.fragment = g] :
          t \in {<<>>, <<"duty", "hire">>}, g \in BOOLEAN}
  \cup {[SitePage EXCEPT !.frames = <<SiteFrame("html", <<"x">>, <<Image2, Image2, Image3>>), SiteFrame("html", <<>>, <<>>), SiteFrame("image", <<>>, <<Image3>>)>>,
          !.readers = <<<<"need">>>>]}
MCCorrections == {[before |-> <<"duty">>, after |-> <<"need">>, text |-> <<"need", "hire">>], [before |-> <<>>, after |-> <<"x">>, text |-> <<"x">>]}

-----------------------------------------------------------------------------
(* A posting: its segments, and what the language model may return *)

Posting(n) == [i \in 1 .. n |-> CASE i = 1 -> {"acme", "hires"} [] i = 2 -> {"backend", "engineer"}
                              [] i = 10 -> {"english", "needed"} [] i = 11 -> {"java", "years"} [] OTHER -> {"text"}]
MCSources ==
    {[verified |-> v, document |-> "d1", revision |-> 1, content |-> "c", segments |-> Posting(n),
      snapshot |-> [document |-> "d1", revision |-> r, content |-> c]] :
        v \in BOOLEAN, r \in {1, 2}, c \in {"c", "other"}, n \in {10, 11}}
Shortly(i) == <<"E", 0, i \div 10, i % 10>>
Truncated(i) == SubSeq(Shortly(i), 1, 3)
Found(t, cand, sp, c) == [title |-> t, candidate |-> cand, specialization |-> sp, cites |-> c, experience |-> <<Shortly(11)>>]
Item(t, s, cat, m, o, c) == [text |-> t, source |-> s, category |-> cat, marker |-> m, obligation |-> o, cites |-> c, applies |-> "POSITION"]
MCDetails == {[duties |-> du, requirements |-> rs] :
    du \in {<<>>, <<[source |-> {}, cites |-> <<Shortly(2), Shortly(2)>>]>>},
    rs \in [1 .. 2 -> {Item("t1", {"english"}, "BEHAVIORAL", "language", "REQUIRED", <<Shortly(10)>>),
                       Item("t1", {"english"}, "TECHNICAL_CAPABILITY", "language", "REQUIRED", <<Truncated(11)>>),
                       Item("t2", {"years"}, "EXPERIENCE", "none", "REQUIRED", <<Shortly(11)>>),
                       Item("t3", {}, "CREDENTIAL", "certificate", "PREFERRED", <<<<"vseg", 10, "end">>>>),
                       Item("t3", {"java"}, "TECHNOLOGY", "none", "REQUIRED", <<Truncated(2)>>)}]}
MCDiscoveries == {[company |-> c, companyCites |-> <<Shortly(1)>>, title |-> t, titleCites |-> tc, positions |-> ps] :
   c \in {{}, {"acme", "corp"}}, t \in {{}, {"engineer"}}, tc \in {<<>>, <<Shortly(2)>>},
   ps \in {<<>>, <<Found({"backend"}, "role-b", "unknown", <<Shortly(2)>>)>>,
           <<Found({"chief"}, "none", "unknown", <<Truncated(2)>>), Found({"dev"}, "none", "platform", <<Shortly(2)>>)>>}}
MCFulls == {[company |-> {"acme"}, companyCites |-> <<Shortly(1)>>, title |-> {}, titleCites |-> <<>>, shared |-> sh,
             positions |-> <<[title |-> {"backend"}, candidate |-> "role-b", specialization |-> "x", cites |-> <<Shortly(2)>>,
                             experience |-> <<Shortly(11)>>, duties |-> d.duties, requirements |-> d.requirements]>>] :
   d \in MCDetails, sh \in {<<>>, <<Item("t4", {"hires"}, "OTHER", "none", "REQUIRED", <<Shortly(1)>>)>>}}
MCCatalog == [r \in {"role-b"} |-> "backend-dev"]
MCLabels == [r \in {"backend-dev"} |-> {"backend", "engineer"}]

-----------------------------------------------------------------------------
(* Releases of the capability graph, and questions to it *)

Relation(a, b, type, accepts) == [from |-> a, to |-> b, type |-> type, accepts |-> accepts]
Candidates == {Relation("c1", "c2", "HARD_PREREQUISITE", {}), Relation("c2", "c3", "HARD_PREREQUISITE", {}),
  Relation("c1", "c3", "RECOMMENDED_FOUNDATION", {}), Relation("c4", "c2", "CONDITIONAL_PREREQUISITE", {"java"}),
  Relation("c3", "c1", "HARD_PREREQUISITE", {}), Relation("c4", "c1", "RECOMMENDED_FOUNDATION", {})}
Release(relations, approved, hashed) ==
  [version |-> relations, approved |-> approved, hashed |-> hashed, capabilities |-> {"c1", "c2", "c3", "c4"},
   relations |-> relations, tasks |-> ("t1" :> {} @@ "t2" :> {"t1"}),
   requirements |-> {[task |-> "t1", capability |-> "c2", necessity |-> "REQUIRED"],
                     [task |-> "t2", capability |-> "c3", necessity |-> "RECOMMENDED"]}]
GraphPackaged == Release({}, TRUE, TRUE)
GraphReleases == {Release(R, TRUE, TRUE) : R \in SUBSET Candidates} \cup {Release(Candidates, FALSE, TRUE), Release(Candidates, TRUE, FALSE)}
GraphQueries == [targets: {{}, {"c3"}, {"c1", "c3"}, {"c9"}}, tasks: {{}, {"t2"}}, boundary: {{}, {"c2"}, {"c2", "old"}, {"c3"}},
  necessities: {{"REQUIRED"}}, include: {{"HARD_PREREQUISITE"}, {"HARD_PREREQUISITE", "RECOMMENDED_FOUNDATION"}},
  active: {"java", "none"}, pin: {{}}, depth: {1, 20}]
  \cup [targets: {{"c3"}}, tasks: {{"t2"}}, boundary: {{}}, necessities: {{"REQUIRED", "RECOMMENDED"}}, include: {{"HARD_PREREQUISITE"}, {"ALTERNATIVE_TO"}},
  active: {"java"}, pin: {{{}}}, depth: {20}]

-----------------------------------------------------------------------------
(* Selected positions, and the project drafts of the model *)

Leads(a, b, type) == [from |-> a, to |-> b, type |-> type, accepts |-> {}]
Published(v, caps, relations) ==
  [version |-> v, approved |-> TRUE, hashed |-> TRUE, capabilities |-> caps,
   relations |-> relations, tasks |-> <<>>, requirements |-> {}]
PlanPackaged == Published(1, {"c1", "c2"}, {Leads("c1", "c2", "HARD_PREREQUISITE")})
PlanReleases == {PlanPackaged, Published(2, {"c1", "c2"}, {Leads("c2", "c1", "RECOMMENDED_FOUNDATION")}), Published(3, {"c2"}, {})}
PlanQueries == {[targets |-> {}]}
Position(category, obligation, kind, months, verified) ==
  [category |-> ("q1" :> category[1] @@ "q2" :> category[2]),
   obligation |-> ("q1" :> obligation[1] @@ "q2" :> obligation[2]),
   duties |-> {"d"}, kind |-> kind, months |-> months, verified |-> verified]
PlanPositions == {
  Position(<<"TECHNOLOGY", "DOMAIN_KNOWLEDGE">>, <<"REQUIRED", "PREFERRED">>, "RANGE", 0, {}),
  Position(<<"TECHNOLOGY", "TECHNICAL_CAPABILITY">>, <<"PREFERRED", "REQUIRED">>, "RANGE", 12, {"c2"}),
  Position(<<"TECHNOLOGY", "LANGUAGE">>, <<"PREFERRED", "REQUIRED">>, "EXPERIENCED_TRACK", 24, {"c1"}),
  Position(<<"OTHER", "TECHNOLOGY">>, <<"REQUIRED", "INFORMATIONAL">>, "NEW_GRADUATE", 0, {})}
Task(caps, reqs, deps) == [caps |-> caps, reqs |-> reqs, deps |-> deps]
Unresolveds == {{}, {"q1"}, {"q1", "q2"}, {"zz"}}
Needs == {{"q1"}, {"q2"}, {"q1", "q2"}, {"d"}, {"q1", "zz"}}
PlanDrafts == [tasks: {<<>>}, unresolved: Unresolveds]
  \cup [tasks: {("t1" :> Task(c, r, d)) : c \in {{}, {"c1"}, {"c1", "c2"}, {"c9"}}, r \in Needs, d \in {{}, {"t1"}, {"t9"}}}, unresolved: Unresolveds]
  \cup [tasks: {("t1" :> Task(c1, r1, d1)) @@ ("t2" :> Task(c2, r2, d2)) : c1 \in {{}, {"c1"}}, r1 \in Needs, d1 \in {{}, {"t2"}}, c2 \in {{"c2"}, {"c1", "c2"}}, r2 \in Needs, d2 \in {{}, {"t1"}}}, unresolved: Unresolveds]
PlanRoadmaps == [progress: {<<>>}, tasks: {{}}] \cup
   [progress: {(<<"project", "">> :> "NOT_STARTED") @@ (<<"capability", "c1">> :> "CLAIMED")}, tasks: {{"old"}, {}}]

-----------------------------------------------------------------------------
(* Positions and evidence for the fit *)

Need(id, category, obligation, caps) == [id |-> id, category |-> category, obligation |-> obligation, caps |-> caps, applies |-> TRUE]
Wanted(kind, track, months, requirements, shared, matcher, draft, skip) ==
  [kind |-> kind, track |-> track, months |-> months, requirements |-> requirements, shared |-> shared, matcher |-> matcher, draft |-> draft, skip |-> skip]
Two == <<Need("q1", "TECHNOLOGY", "REQUIRED", <<"c1", "c2">>), Need("q2", "CERTIFICATION", "REQUIRED", <<>>)>>
Direct(k) == [competencies |-> <<[of |-> k, relation |-> "DIRECT"]>>, facts |-> <<>>]
MCFitPositions ==
  {Wanted("NEW_GRADUATE", "NONE", 0, Two, <<>>, "overlay", <<>>, FALSE),
   Wanted("RANGE", "NONE", 24, <<Need("q1", "TECHNOLOGY", "REQUIRED", <<"c1">>)>>, <<[Need("q2", "CERTIFICATION", "REQUIRED", <<>>) EXCEPT !.applies = FALSE]>>, "overlay", <<>>, FALSE),
   Wanted("NEW_GRADUATE_OR_EXPERIENCED", "NONE", 24, <<>>, <<>>, "overlay", <<>>, FALSE),
   Wanted("NEW_GRADUATE_OR_EXPERIENCED", "EXPERIENCED", 24, <<Need("q1", "TECHNOLOGY", "PREFERRED", <<"c1">>)>>, <<>>, "overlay", <<>>, TRUE),
   Wanted("UNKNOWN", "NONE", 0, <<Need("q1", "TECHNOLOGY", "REQUIRED", <<"c1", "c2">>)>>, <<Need("q3", "LANGUAGE", "REQUIRED", <<"c2">>)>>, "overlay", <<>>, FALSE),
   Wanted("UNKNOWN", "NONE", 0, <<Need("q1", "TECHNOLOGY", "REQUIRED", <<"c1">>), Need("q2", "TECHNOLOGY", "REQUIRED", <<"c2">>)>>, <<>>, "model",
     ("q1" :> [competencies |-> <<[of |-> "c1", relation |-> "PARTIAL"]>>, facts |-> <<[of |-> 3, relation |-> "PARTIAL"]>>]) @@ ("q2" :> Direct("c2")), FALSE),
   Wanted("UNKNOWN", "NONE", 0, <<Need("q1", "TECHNOLOGY", "REQUIRED", <<"c1">>)>>, <<>>, "model", ("q2" :> Direct("c2")), FALSE)}
Fact(kind, state, months, evidenced, verification) ==
  [kind |-> kind, state |-> state, months |-> months, evidenced |-> evidenced, verification |-> verification,
   overlaps |-> {"req-experience", "q2"}]
Role == {f \in {Fact("ROLE_EXPERIENCE", s, m, e, v) :
                  s \in {"PRESENT", "ABSENT", "UNKNOWN"}, m \in {NoDuration, 12, 36},
                  e \in BOOLEAN, v \in {"NOT_VERIFIED", "VERIFIED"}} :
           /\ f.months # NoDuration => f.state = "PRESENT"
           /\ f.verification = "VERIFIED" => f.evidenced}
MCFormalFacts == [f \in 1 .. 3 |->
  CASE f = 1 -> {r \in Role : r.evidenced}
    [] f = 2 -> {r \in Role : ~r.evidenced /\ r.state = "PRESENT"}
    [] f = 3 -> {Fact("CERTIFICATE", s, NoDuration, v # "NOT_VERIFIED", v) :
                   s \in {"PRESENT", "ABSENT"}, v \in {"NOT_VERIFIED", "PARTIALLY_VERIFIED", "VERIFIED"}}]

-----------------------------------------------------------------------------
(* The parts *)

VARIABLES
    part,
    request, todo, segments, told, failures, document, snapshot,
    source, posting, result,
    served, query, answer, position, stage, catalog, blueprint, proposal,
    wanted, evidence

One == INSTANCE CareerPipeline WITH
         Jobs <- {"j1"}, NoJob <- "none", MaxRetries <- 2, MaxEvidence <- 1,
         Kinds <- {"NEW_GRADUATE", "NEW_GRADUATE_OR_EXPERIENCED"}, Requirements <- {"q1", "q2"}
Source == INSTANCE SourceAcquisition WITH
            Requests <- MCRequests, Announces <- MCAnnounces, Corrections <- MCCorrections,
            EnoughLines <- 2, FrameLines <- 2, MaxIframes <- 2, MaxImages <- 2, MaxTiles <- 3,
            MaxRevisions <- 2
Reading == INSTANCE PostingInterpretation WITH
             Sources <- MCSources, DiscoveryDrafts <- MCDiscoveries, DetailDrafts <- MCDetails,
             FullDrafts <- MCFulls, Catalog <- MCCatalog, Labels <- MCLabels,
             Latin <- {"acme", "java"}, MaxShown <- 7
Graph == INSTANCE CapabilityGraph WITH
           Releases <- GraphReleases, Packaged <- GraphPackaged, Queries <- GraphQueries
Planning == INSTANCE CareerPlanning WITH
          Releases <- PlanReleases, Packaged <- PlanPackaged, Queries <- PlanQueries,
          Positions <- PlanPositions, Drafts <- PlanDrafts, Roadmaps <- PlanRoadmaps
Matching == INSTANCE CareerFit WITH
         FitPositions <- MCFitPositions, Competencies <- {"c1", "c2"},
         FormalFacts <- MCFormalFacts

sourceVars == <<request, todo, segments, told, failures, document, snapshot>>
readingVars == <<source, posting, result>>
graphVars == <<served, query, answer>>
planVars == <<position, stage, catalog, blueprint, proposal>>
fitVars == <<wanted, evidence>>
allVars == <<part, vars, sourceVars, readingVars, graphVars, planVars, fitVars>>

NoCareer ==
    /\ cache = "off" /\ lease = "off" /\ job = "off" /\ run = "off"
    /\ cancelled = "off" /\ abandoned = "off" /\ found = "off"
NoSource ==
    /\ request = "off" /\ todo = "off" /\ segments = "off" /\ told = "off"
    /\ failures = "off" /\ document = "off" /\ snapshot = "off"
NoReading ==
    /\ source = "off" /\ posting = "off" /\ result = "off"
NoGraph ==
    /\ served = "off" /\ query = "off" /\ answer = "off"
NoPlan ==
    /\ position = "off" /\ stage = "off" /\ catalog = "off" /\ blueprint = "off"
    /\ proposal = "off"
NoFit ==
    /\ wanted = "off" /\ evidence = "off"

CareerInit ==
    \/ part = "two jobs" /\ Init /\ NoSource /\ NoReading /\ NoGraph /\ NoPlan /\ NoFit
    \/ part = "one job" /\ One!Init /\ NoSource /\ NoReading /\ NoGraph /\ NoPlan /\ NoFit
    \/ part = "source" /\ Source!SourceInit /\ NoCareer /\ NoReading /\ NoGraph /\ NoPlan /\ NoFit
    \/ part = "posting" /\ Reading!InterpretationInit /\ NoCareer /\ NoSource /\ NoGraph /\ NoPlan /\ NoFit
    \/ part = "graph" /\ Graph!GraphInit /\ NoCareer /\ NoSource /\ NoReading /\ NoPlan /\ NoFit
    \/ part = "plan" /\ Planning!PlanningInit /\ NoCareer /\ NoSource /\ NoReading /\ NoFit
    \/ part = "fit" /\ Matching!FitInit /\ NoCareer /\ NoSource /\ NoReading /\ NoGraph /\ NoPlan

CareerNext ==
    \/ part = "two jobs" /\ Next /\ UNCHANGED <<part, sourceVars, readingVars, graphVars, planVars, fitVars>>
    \/ part = "one job" /\ One!Next /\ UNCHANGED <<part, sourceVars, readingVars, graphVars, planVars, fitVars>>
    \/ part = "source" /\ Source!SourceNext /\ UNCHANGED <<part, vars, readingVars, graphVars, planVars, fitVars>>
    \/ part = "posting" /\ Reading!InterpretationNext /\ UNCHANGED <<part, vars, sourceVars, graphVars, planVars, fitVars>>
    \/ part = "graph" /\ Graph!GraphNext /\ UNCHANGED <<part, vars, sourceVars, readingVars, planVars, fitVars>>
    \/ part = "plan" /\ Planning!PlanningNext /\ UNCHANGED <<part, vars, sourceVars, readingVars, fitVars>>
    \/ part = "fit" /\ Matching!FitNext /\ UNCHANGED <<part, vars, sourceVars, readingVars, graphVars, planVars>>

CareerSpec == CareerInit /\ [][CareerNext]_allVars

-----------------------------------------------------------------------------
(* What is checked of each part *)

\* The plan is of the position, the track and the interpretation that the user
\* confirmed, an answer is never applied to a posting structured anew since it was
\* asked, no attempt is ended by a mark of cancellation that was there before it, the
\* progress that was shown agrees with how a run ended, and the questions of a job
\* stay few however often it is retried (AnalysisPipelineService.run,
\* V3AnalysisJobProcessor).
EachJobIsAsAsked ==
    /\ part = "one job" =>
         /\ One!PlannedAsConfirmed /\ One!CancelOnlyWhatWasAsked
         /\ One!StagesTellOutcome /\ One!QuestionsSuffice
    /\ part = "two jobs" => NoStaleAnswer

\* The closure of a query is what leads to its targets, in the learning order
\* every prerequisite comes before what it is needed for, and a release that
\* could be loaded answers every query about what it contains
\* (capability_graph/release.py).
EachGraphAnswersRightly ==
    part = "graph" =>
      Graph!ClosureIsWhatLeadsToTargets /\ Graph!PrerequisitesComeFirst /\ Graph!LoadedReleaseAnswers

\* Every learnable requirement is taught by a task, or named as unresolved, and
\* every operation of the proposal is on a node that leads to the opportunity; what
\* is compiled of an accepted project is refused for two known reasons only.
EachPlanIsComplete ==
    part = "plan" =>
      /\ Planning!NoRequirementForgotten /\ Planning!EveryStepLeadsToTheOpportunity
      /\ Planning!OnlyKnownInternalErrors

\* The contracts of the result accept what is compiled of any evidence, and a
\* weaker tier of readiness never stands below a stronger one.
EachFitIsConsistent == part = "fit" => Matching!FitIsConsistent

\* A question the user answered is not asked again, and more claims and more
\* evidence never lower the status of a requirement.
EachFitOnlyGains ==
    [][part = "fit" => Matching!AnswerSettlesStep /\ Matching!MoreIsNeverLessStep]_allVars

\* A page is refused as no posting only after every configured reader was called.
EachRefusedAfterEveryReader == [][part = "source" => Source!RefusedAfterEveryReaderStep]_allVars

\* What is read of a posting is neither lost nor invented: merging the tiles of
\* an image takes out repetitions alone, an accepted posting says nothing but
\* what the segments it cites say, and a truncated identifier is restored to the
\* segment it was copied from, or refused (source/service.py,
\* interpretation/service.py).
EachReadingIsFaithful ==
    /\ part = "source" => Source!NothingReadIsLost
    /\ part = "posting" => Reading!AcceptedIsGrounded /\ Reading!RepairedAsMeant
=============================================================================
