---------------------------- MODULE MCAssistant ----------------------------
(***************************************************************************)
(* The parts of the AI service that stand around the career pipeline, each *)
(* on a small instance.  A behaviour is one of a part, which the first     *)
(* state chooses; the parts share no state: what one hands to the next is  *)
(* a choice of the next one's first state.  The turns of a conversation    *)
(* are those of ChatTurn, whose constants the configuration sets.          *)
(***************************************************************************)
EXTENDS ChatTurn

CONSTANTS
    StreamAgents, Budget, Rounds, StreamPlans,                  \* of AnalysisStream
    Mixed, MaxOptions, MaxQuestions, EngineTurns                \* of AnalysisBridge

-----------------------------------------------------------------------------
(* Turns of a conversation *)

MCPostings == {"p", "q"}
MCResumes == {"r", "c"}
MCStored == {"c"}
MCCareers == {"c"}
MCTurns == 1 .. 3

Planned(agents, requested) ==
    [NoPlan EXCEPT !.agents = agents, !.requested = requested, !.sure = TRUE]

Fit(targets, resumes) ==
    [Planned(<<"fit_analysis">>, {"fit_analysis"}) EXCEPT !.args.fit = targets,
                                                          !.args.fitResume = resumes]

MCPlans ==
    {Fit(<<>>, <<>>), Fit(<<"p">>, <<>>), Fit(<<"p", "q">>, <<>>),
     Planned(<<"coverletter_draft", "interview_prep">>, {"coverletter_draft"}),
     [NoPlan EXCEPT !.agents = <<"resume_diagnosis", "fit_analysis">>],
     [NoPlan EXCEPT !.blocked = {"fit_analysis"}]}

One(k, i) == <<[kind |-> k, id |-> i]>>
MCSubmissions == {<<>>, One("resume", "r") \o One("text", "p"), One("url", "q")}

-----------------------------------------------------------------------------
(* Postings by the career paths their words speak for *)

MCSaid ==
    {{}} \cup {{m} : m \in {"game", "sre", "fullstack", "embedded"}} \cup
    {{"game", "unity", "game_server"}, {"game", "client", "game_server"}, {"game", "unreal"},
     {"game", "game_platform"}, {"data_engineer", "data_scientist"}, {"frontend", "backend"},
     {"cloud", "ops"}, {"ml", "data_analyst"},
     {"data_engineer", "data_scientist", "ml", "backend", "qa", "frontend"},
     {"mobile", "security", "game", "client", "game_platform"}}
MCMixed == {[url |-> u, role |-> r, said |-> s] :
              u \in BOOLEAN, r \in {"none", "backend", "qa"}, s \in MCSaid}

-----------------------------------------------------------------------------
(* Requests to the judgement engine *)

Unstated == -1
Line(id, type, skills, pure) ==
    [id |-> <<id, {}>>, type |-> type, skills |-> skills, pureYears |-> pure]
Asking(lines) ==
    [titled |-> TRUE, lines |-> lines, tech |-> {}, domains |-> {}, yearsStated |-> FALSE,
     minYears |-> Unstated, rung |-> Unstated]
OneSkill == Asking({Line("r1", "required", {"java"}, FALSE)})
JudgedPostings ==
    {Asking({}), OneSkill,
     [Asking({Line("r1", "required", {"java"}, FALSE), Line("r2", "required", {}, FALSE),
              Line("r3", "required", {"go", "java"}, FALSE), Line("y", "required", {}, TRUE)})
        EXCEPT !.tech = {"java", "pg", "my"}, !.yearsStated = TRUE, !.minYears = 3, !.rung = 2],
     [Asking({Line("r1", "required", {"k8s"}, FALSE), Line("r2", "required", {"go"}, FALSE),
              Line("r3", "required", {"rust"}, FALSE), Line("p1", "preferred", {"java"}, FALSE)})
        EXCEPT !.tech = {"pg"}, !.domains = {"pay"}, !.rung = 2]}
Person(claimed, evidence, months) ==
    [entries |-> TRUE, claimed |-> claimed, evidence |-> evidence, months |-> months]
NewComer == [entries |-> FALSE, claimed |-> {}, evidence |-> <<>>, months |-> 0]
Judged(posting, profile, seeded, llm, weeks) ==
    [posting |-> posting, profile |-> profile, postingSeeded |-> seeded, profileSeeded |-> seeded,
     resume |-> TRUE, llm |-> llm, weeks |-> weeks, weekly |-> 10, includeAlternatives |-> FALSE]
MCJudged ==
    {Judged(p, f, s, l, w) : p \in JudgedPostings, s \in BOOLEAN, l \in BOOLEAN, w \in {3, 8},
       f \in {Person({}, <<>>, 0), Person({"java"}, <<{"java"}>>, 8),
              Person({"java", "go"}, <<{"java"}, {}>>, Unstated), Person({"java", "pg"}, <<{"pay"}>>, 40)}}
    \cup {[Judged(OneSkill, NewComer, FALSE, TRUE, 8) EXCEPT !.resume = FALSE, !.includeAlternatives = TRUE]}
MCCourses ==
    ("k8s" :> [title |-> 1, hours |-> 21]) @@ ("go" :> [title |-> 2, hours |-> 22]) @@
    ("rust" :> [title |-> 3, hours |-> 23]) @@ ("pg" :> [title |-> 4, hours |-> 4]) @@
    ("java" :> [title |-> 5, hours |-> 40])

-----------------------------------------------------------------------------
(* The parts *)

VARIABLES
    part,
    posting, answers, status, reason, question, asked, bridgeTurn, known, path,
    sequence, declared, shown, last, suppressed, rounds, plans, queue, running, unseen, setBack, phase, silent,
    remaining, read, drafts, rows, proposal,
    request, graph, due, calls, judgement

Bridge == INSTANCE AnalysisBridge WITH
            Postings <- Mixed, MaxTurns <- EngineTurns, turn <- bridgeTurn
Stream == INSTANCE AnalysisStream WITH
            Agents <- StreamAgents, Plans <- StreamPlans
Proving == INSTANCE CompetencyProposal WITH
             Known <- {"java", "react"}, Coined <- {"teamwork"}, MaxRequirements <- 2, MaxRefs <- 2,
             MaxCompetencies <- 2, MaxRows <- 4
Engine == INSTANCE JudgementGraph WITH
            Alternates <- {{"pg", "my"}}, Requests <- MCJudged, MockPosting <- OneSkill,
            MockProfile <- Person({"java"}, <<{"java"}, {}>>, 0), Catalog <- MCCourses,
            Fallback <- [title |-> 6, hours |-> 8], MaxLifts <- 1

\* An agent has no name of a backbone stage; there is a budget for the first line
\* (stream.py, backbone and _EVENT_BUDGET)
StreamBounds ==
    /\ Budget \in Nat \ {0} /\ StreamPlans \in Nat
    /\ StreamAgents \cap Stream!Backbone = {}
ASSUME StreamFits == StreamBounds

\* The limits of the questions and of the turns are numbers (service.py, MAX_TURNS)
BridgeBounds == MaxQuestions \in Nat \ {0} /\ EngineTurns \in Nat \ {0} /\ MaxOptions \in Nat
ASSUME BridgeFits == BridgeBounds

turnVars == <<workspace, store, turn>>
bridgeVars == <<posting, answers, status, reason, question, asked, bridgeTurn, known, path>>
streamVars == <<sequence, declared, shown, last, suppressed, rounds, plans, queue, running, unseen, setBack, phase, silent>>
proposalVars == <<remaining, read, drafts, rows, proposal>>
judgementVars == <<request, graph, due, calls, judgement>>
allVars == <<part, turnVars, bridgeVars, streamVars, proposalVars, judgementVars>>

NoTurns ==
    workspace = "off" /\ store = "off" /\ turn = "off"
NoBridge ==
    /\ posting = "off" /\ answers = "off" /\ status = "off" /\ reason = "off" /\ question = "off"
    /\ asked = "off" /\ bridgeTurn = "off" /\ known = "off" /\ path = "off"
NoStream ==
    /\ sequence = "off" /\ declared = "off" /\ shown = "off" /\ last = "off" /\ suppressed = "off"
    /\ rounds = "off" /\ plans = "off" /\ queue = "off" /\ running = "off"
    /\ unseen = "off" /\ setBack = "off" /\ phase = "off" /\ silent = "off"
NoProposal ==
    remaining = "off" /\ read = "off" /\ drafts = "off" /\ rows = "off" /\ proposal = "off"
NoJudgement ==
    request = "off" /\ graph = "off" /\ due = "off" /\ calls = "off" /\ judgement = "off"

AssistantInit ==
    \/ part = "turns" /\ Init /\ NoBridge /\ NoStream /\ NoProposal /\ NoJudgement
    \/ part = "bridge" /\ Bridge!BridgeInit /\ NoTurns /\ NoStream /\ NoProposal /\ NoJudgement
    \/ part = "stream" /\ Stream!StreamInit /\ NoTurns /\ NoBridge /\ NoProposal /\ NoJudgement
    \/ part = "proposal" /\ Proving!ProposalInit /\ NoTurns /\ NoBridge /\ NoStream /\ NoJudgement
    \/ part = "engine" /\ Engine!JudgementInit /\ NoTurns /\ NoBridge /\ NoStream /\ NoProposal

AssistantNext ==
    \/ part = "turns" /\ Next /\ UNCHANGED <<part, bridgeVars, streamVars, proposalVars, judgementVars>>
    \/ part = "bridge" /\ Bridge!BridgeNext /\ UNCHANGED <<part, turnVars, streamVars, proposalVars, judgementVars>>
    \/ part = "stream" /\ Stream!StreamNext /\ UNCHANGED <<part, turnVars, bridgeVars, proposalVars, judgementVars>>
    \/ part = "proposal" /\ Proving!ProposalNext /\ UNCHANGED <<part, turnVars, bridgeVars, streamVars, judgementVars>>
    \/ part = "engine" /\ Engine!JudgementNext /\ UNCHANGED <<part, turnVars, bridgeVars, streamVars, proposalVars>>

AssistantSpec == AssistantInit /\ [][AssistantNext]_allVars

-----------------------------------------------------------------------------
(* What is checked of each part *)

\* When analysis_key names the active posting and resume, the analysis that was
\* written with it is theirs (fit_analysis.py, _analysis_key).
EachVerdictIsTold == part = "turns" => KeyTellsVerdict

\* An agent runs only on inputs that are there, unless the posting could not be
\* collected in this turn, and a heavy one only when it was asked for or consented
\* to (observe_rules.py; router.validate_plan; chat.py).
EachAgentMayRun ==
    [][part = "turns" => InputsPresentOnceCollectedStep /\ HeavyOnlyWhenAskedStep]_allVars

\* What a turn asked consent for is remembered when it ends, and what the backend
\* keeps of a turn is what it gave the turn with the changes of that turn (chat.py;
\* v2bridge/service.py, chat_events).
EachTurnIsKept ==
    [][part = "turns" => AskedIsRememberedStep /\ DeliveredTurnsOnlyStep]_allVars

\* A posting for several career paths is settled by the user, as long as there
\* was a question left to ask, and the analysis ends over a repeated question
\* only when the answer to it was not understood (v2bridge/service.py, analyze;
\* role_catalog.py, selected_role).
EachPathIsSettledByTheUser ==
    part = "bridge" => Bridge!MixedPostingIsSettledByTheUser /\ Bridge!RepeatedOnlyWhenUnheard

\* A wait without a sign of life, on which the lease of the worker depends, is due to the
\* budget of events alone; so is an agent shown at work that is not, unless the plan was
\* looked at again after it had ended, or one at work that is not shown so; and however
\* long the engine thinks, the events stay within the budget, the plans and the end
\* (v2bridge/stream.py, heartbeat and from_trace).
EachStreamIsAliveAndBounded ==
    part = "stream" =>
      Stream!SilentOnlyWhenSpent /\ Stream!WorkIsTold /\ Stream!EventsAreBounded

\* A proposal is refused by the contract it is written for only when the posting asks for
\* more competencies than that takes, and there is one as soon as a requirement names what
\* can be verified and no model took that back (v2bridge/mapping.py).
EachProposalIsAccepted ==
    part = "proposal" => Proving!ProposalIsAccepted /\ Proving!OnlyUnverifiableFails

\* An analysis ends in questions exactly when nothing was diagnosed, and no
\* reader asks the model more than twice; the grade that reaches the user agrees
\* with the judgements that do, and every item of the roadmap answers a shortfall
\* that the same result confirms (graph/nodes.py, read_nodes.py,
\* grade_decision.py, grade_judge.py).
EachJudgementIsSound ==
    part = "engine" =>
      /\ Engine!AskedInsteadOfJudged /\ Engine!ReadsAreBounded
      /\ Engine!GradeAgreesWithJudgements /\ Engine!RoadmapServesShortfalls
=============================================================================
