------------------------------ MODULE MCAgents ------------------------------
(***************************************************************************)
(* What the agents of the AI service stand on, and what the web makes of   *)
(* their work, each part on a small instance: requests to a model, the     *)
(* session with Codex, three agents that run in a loop, the report of an   *)
(* analysis and the bridge to the web.  A behaviour is one of a part,      *)
(* which the first state chooses; the parts share no state, except that    *)
(* the agents are instances over one variable, the loop of the turn.       *)
(***************************************************************************)
EXTENDS Integers, Sequences, FiniteSets, TLC

CONSTANTS
    Threads, Operator, MaxPairs, Sizes, Streams,    \* of CodexSession
    LetterSteps, PracticeSteps, IntakeSteps,        \* max_steps of the agents
    People, Drafts, Requirements, Gaps,             \* of CoverLetter
    MinSentences, MaxSentences, MaxFacts,
    Findings, MaxPerKind,                           \* of InterviewPractice
    Said, RoleLike, MinDimensions, MaxProbes,       \* of PreferenceIntake
    Asked, Roadmaps, Tokens,                        \* of WebReport
    Analyses, CompanyOf, RoleOf, WebTurns,          \* of WebBridge, with MAX_TURNS as WebTurns
    MaxEntries, Asking, ChatSessions, MaxChats

\* The text of a pair is never empty; the operator is no thread of the service
\* (_save, main.py of the adapter)
SessionBounds ==
    /\ MaxPairs \in Nat \ {0} /\ \A p \in 1 .. MaxPairs : Sizes[p] \in Nat \ {0}
    /\ Operator \notin Threads
ASSUME SessionsFit == SessionBounds

\* What is recorded of a user are values of dimensions (record_preference), and what is
\* recorded of a letter are paragraphs that are not empty (_parse_sections)
ASSUME AgentsFit ==
    /\ LetterSteps \in Nat /\ PracticeSteps \in Nat /\ IntakeSteps \in Nat
    /\ MaxProbes \in Nat
    /\ \A said \in Said :
         DOMAIN said \subseteq {"roles", "companies", "domains", "regions", "techStack"}
    /\ \A w \in Drafts :
         /\ DOMAIN w \subseteq {"motivation", "strengths", "improvement"}
         /\ \A p \in DOMAIN w : w[p] # <<>>

\* An analysis is named apart from the users and their chats, and is about some posting
\* (_session_id, _resolve_posting)
ASSUME WebFits ==
    /\ \A a \in DOMAIN Analyses : Analyses[a].posting # "none" /\ Analyses[a].user \notin DOMAIN Analyses
    /\ ChatSessions \cap DOMAIN Analyses = {}
    /\ MaxEntries \in Nat \ {0}

-----------------------------------------------------------------------------
(* What the subscription to Codex may stream *)

Event(kind, phase) == [kind |-> kind, phase |-> phase]
MCSizes == <<1, 2, 1, 2>>
MCStreams ==
    {<<Event("added", "analysis"), Event("delta", "analysis"), Event("added", "final"),
       Event("delta", "final"), Event("completed", "-")>>,
     <<Event("added", "final"), Event("message", "final"), Event("completed", "-")>>,
     <<Event("added", "final"), Event("delta", "final")>>,
     <<Event("added", "final"), Event("delta", "final"), Event("incomplete", "-")>>}

-----------------------------------------------------------------------------
(* What the agents work on *)

Skilled(skill) == [skill |-> skill, firm |-> FALSE]
MCPeople ==
    {[facts |-> <<>>, skills |-> {}],
     [facts |-> <<Skilled("java"), Skilled("none")>>, skills |-> {"java"}],
     [facts |-> <<Skilled("go"), Skilled("java")>>, skills |-> {"go"}]}
MCRequirements == {{"java"}, {}}
MCGaps == {{"rust"}}
MCDrafts ==
    {<<>>,
     "strengths" :> <<Skilled("java"), Skilled("go")>>,
     "strengths" :> <<Skilled("java"), Skilled("none")>>,
     ("motivation" :> <<[skill |-> "none", firm |-> TRUE], Skilled("java"), Skilled("none")>>)
       @@ ("improvement" :> <<Skilled("rust")>>)}

Material(topic, type, project, need, severity, listed) ==
    [topic |-> topic, type |-> type, project |-> project, need |-> need,
     severity |-> severity, listed |-> listed]
MCVerdicts ==
    {[gaps |-> <<>>, strengths |-> <<>>],
     [gaps |-> <<Material("go", "gap", FALSE, "required", "low", TRUE),
                 Material("k8s", "gap", FALSE, "preferred", "high", FALSE)>>,
      strengths |-> <<Material("java", "strength", TRUE, "required", "", TRUE)>>]}

MCSaid ==
    {<<>>, "domains" :> {"shop", "data"}, "regions" :> {"seoul"},
     ("companies" :> {"acme"}) @@ ("roles" :> {"backend"})}

Colleague(needs) == [heavy |-> FALSE, needs |-> needs, fails |-> FALSE, warns |-> TRUE]

-----------------------------------------------------------------------------
(* What the web asks for *)

Requirement(kind, type, hard) == [kind |-> kind, type |-> type, hard |-> hard]
MCPostings ==
    {[a |-> Requirement("text", "required", FALSE), b |-> Requirement("text", "preferred", FALSE),
      c |-> Requirement("seniority", "required", TRUE)],
     [a |-> Requirement("text", "required", FALSE), b |-> Requirement("domain_keyword", "preferred", FALSE)]}
MCRoadmaps == {<<>>, <<<<"a">>>>, <<<<"c", "a">>, <<"a", "b">>>>}
MCTokens == [a |-> {"redis"}, b |-> {}, c |-> {}]

MCAnalyses ==
    [x |-> [user |-> "u1", posting |-> "p1", source |-> "text", evidence |-> FALSE],
     y |-> [user |-> "none", posting |-> "p2", source |-> "fields", evidence |-> TRUE]]
MCCompanyOf == [p1 |-> "c", p2 |-> "c"]
MCRoleOf == [p1 |-> "r", p2 |-> "s"]
MCAsking == {<<>>, <<"resume">>}

-----------------------------------------------------------------------------
(* The parts *)

VARIABLES
    part,
    call, turnAccount, account, turns, wire, cancelled, cutOff,
    file, temp, cells, issued, live, fresh, stale, caller, mishap,
    loop,
    person, letter, kept, drafted,
    analysis, practice, pending, progress, heard, came,
    prefs, preferred, requested, searched, intake,
    posting, judged, steps, plan, report, path, verdicts,
    sessions, channel, worker, shown, recent, chats

Calls == INSTANCE ModelCalls WITH
           Providers <- {"langchain", "claude_code", "codex", "codex_cli"}, MaxAttempts <- 3,
           MaxTurns <- 2, MaxCalls <- 1
Codex == INSTANCE CodexSession
Letter == INSTANCE CoverLetter WITH
            Tools <- {"find_evidence", "save_draft", "ask_agent", "check_draft"},
            MaxSteps <- LetterSteps,
            Declared <- {"resume_diagnosis"}, Colleagues <- "resume_diagnosis" :> Colleague({"resume"}),
            Writings <- Drafts, shown <- drafted
Practice == INSTANCE InterviewPractice WITH
              Tools <- {"pick_material", "find_evidence", "check_answer", "record_question"},
              MaxSteps <- PracticeSteps, Declared <- {}, Colleagues <- <<>>, Analyses <- Findings,
              MaxTurns <- 2
Intake == INSTANCE PreferenceIntake WITH
            Tools <- {"record_preference", "preview_postings", "request_material"},
            MaxSteps <- IntakeSteps,
            Declared <- {"job_recommend"}, Colleagues <- "job_recommend" :> Colleague({"preferences"}),
            MaxTurns <- 3, session <- preferred, shown <- intake
Report == INSTANCE WebReport
Web == INSTANCE WebBridge WITH MaxTurns <- WebTurns, Said <- {"said"}

callVars == <<call, turnAccount, account, turns, wire, cancelled, cutOff>>
codexVars == <<file, temp, cells, issued, live, fresh, stale, caller, mishap>>
letterVars == <<person, letter, kept, drafted>>
practiceVars == <<analysis, practice, pending, progress, heard, came>>
intakeVars == <<prefs, preferred, requested, searched, intake>>
reportVars == <<posting, judged, steps, plan, report, path, verdicts>>
webVars == <<sessions, channel, worker, shown, recent, chats>>
allVars == <<part, callVars, codexVars, loop, letterVars, practiceVars, intakeVars, reportVars, webVars>>

NoCalls ==
    /\ call = "off" /\ turnAccount = "off" /\ account = "off" /\ turns = "off" /\ wire = "off"
    /\ cancelled = "off" /\ cutOff = "off"
NoCodex ==
    /\ file = "off" /\ temp = "off" /\ cells = "off" /\ issued = "off" /\ live = "off"
    /\ fresh = "off" /\ stale = "off" /\ caller = "off" /\ mishap = "off"
NoLetter ==
    person = "off" /\ letter = "off" /\ kept = "off" /\ drafted = "off"
NoPractice ==
    /\ analysis = "off" /\ practice = "off" /\ pending = "off" /\ progress = "off"
    /\ heard = "off" /\ came = "off"
NoIntake ==
    prefs = "off" /\ preferred = "off" /\ requested = "off" /\ searched = "off" /\ intake = "off"
NoReport ==
    /\ posting = "off" /\ judged = "off" /\ steps = "off" /\ plan = "off" /\ report = "off"
    /\ path = "off" /\ verdicts = "off"
NoWeb ==
    /\ sessions = "off" /\ channel = "off" /\ worker = "off" /\ shown = "off"
    /\ recent = "off" /\ chats = "off"
NoLoop == loop = "off"

AgentsInit ==
    \/ /\ part = "calls" /\ Calls!ModelInit
       /\ NoCodex /\ NoLoop /\ NoLetter /\ NoPractice /\ NoIntake /\ NoReport /\ NoWeb
    \/ /\ part = "codex" /\ Codex!SessionInit
       /\ NoCalls /\ NoLoop /\ NoLetter /\ NoPractice /\ NoIntake /\ NoReport /\ NoWeb
    \/ /\ part = "letter" /\ Letter!LetterInit
       /\ NoCalls /\ NoCodex /\ NoPractice /\ NoIntake /\ NoReport /\ NoWeb
    \/ /\ part = "practice" /\ Practice!PracticeInit
       /\ NoCalls /\ NoCodex /\ NoLetter /\ NoIntake /\ NoReport /\ NoWeb
    \/ /\ part = "intake" /\ Intake!IntakeInit
       /\ NoCalls /\ NoCodex /\ NoLetter /\ NoPractice /\ NoReport /\ NoWeb
    \/ /\ part = "report" /\ Report!ReportInit
       /\ NoCalls /\ NoCodex /\ NoLoop /\ NoLetter /\ NoPractice /\ NoIntake /\ NoWeb
    \/ /\ part = "web" /\ Web!BridgeInit
       /\ NoCalls /\ NoCodex /\ NoLoop /\ NoLetter /\ NoPractice /\ NoIntake /\ NoReport

AgentsNext ==
    \/ /\ part = "calls" /\ Calls!ModelNext
       /\ UNCHANGED <<part, codexVars, loop, letterVars, practiceVars, intakeVars, reportVars, webVars>>
    \/ /\ part = "codex" /\ Codex!SessionNext
       /\ UNCHANGED <<part, callVars, loop, letterVars, practiceVars, intakeVars, reportVars, webVars>>
    \/ /\ part = "letter" /\ Letter!LetterNext
       /\ UNCHANGED <<part, callVars, codexVars, practiceVars, intakeVars, reportVars, webVars>>
    \/ /\ part = "practice" /\ Practice!PracticeNext
       /\ UNCHANGED <<part, callVars, codexVars, letterVars, intakeVars, reportVars, webVars>>
    \/ /\ part = "intake" /\ Intake!IntakeNext
       /\ UNCHANGED <<part, callVars, codexVars, letterVars, practiceVars, reportVars, webVars>>
    \/ /\ part = "report" /\ Report!ReportNext
       /\ UNCHANGED <<part, callVars, codexVars, loop, letterVars, practiceVars, intakeVars, webVars>>
    \/ /\ part = "web" /\ Web!BridgeNext
       /\ UNCHANGED <<part, callVars, codexVars, loop, letterVars, practiceVars, intakeVars, reportVars>>

AgentsSpec == AgentsInit /\ [][AgentsNext]_allVars

-----------------------------------------------------------------------------
(* What is checked of each part *)

\* A request is made again only with a reason, the accounts hold what was sent, what a
\* cancellation cut off apart, and what it cost, an answer is what a completed response says (structured.py,
\* llm_usage.py, provider.py), and the gains a report adds up are those its steps can
\* bring (adapter.py).
EachAccountIsHonest ==
    /\ part = "calls" => Calls!RetriedWithReason /\ Calls!AccountIsHonest
    /\ part = "codex" => Codex!AnswerIsTheAnswer
    /\ part = "report" => Report!GainIsEarned

\* The session with Codex is lost only to a race, a restart or a refresh that was made
\* and not kept, and a refused token is not sent again (provider.py).
EachSessionSurvives ==
    part = "codex" => Codex!SessionSurvives /\ Codex!RefusedIsNotSentAgain

\* Whatever a model decides, the loop of an agent ends within its limit and says
\* nothing firm (run_agent_loop); an interview asks about what a finding gave, and
\* no topic twice (interview_prep.py); a user is probed a bounded number of times
\* by rule, and the agent that previews postings sees what was said so far
\* (preference_intake.py).
EachAgentKeepsToItsLoop ==
    /\ part = "letter" => Letter!LoopEndsWell
    /\ part = "practice" => Practice!LoopEndsWell /\ Practice!AskedFromFindings
    /\ part = "intake" => Intake!LoopEndsWell /\ Intake!IntakeAsksInBounds

\* A draft that is shown is the draft that is kept and that its check measured, and
\* its strengths are the person's (coverletter_draft.py); what was practised stays,
\* and so do the preferences a user named (interview_prep.py, preference_intake.py).
EachTurnDelivers ==
    [][/\ part = "letter" => Letter!DeliversWhatIsVerified
       /\ part = "practice" => Practice!ProgressIsKept
       /\ part = "intake" => Intake!PreferencesStay]_allVars

\* An analysis the web waits for ends once, with a report about its posting, and
\* the newest report is the one its follow-up finds (runner.py, store.py); the plan of a
\* report is whole whatever the model wrote (application_plan.py).
EachReportIsEarned ==
    /\ part = "web" => Web!EndsOnce /\ Web!OwnReport /\ Web!NewestIsRecalled
    /\ part = "report" => Report!PlanIsWhole
=============================================================================
