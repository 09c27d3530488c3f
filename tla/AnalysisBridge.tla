--------------------------- MODULE AnalysisBridge ---------------------------
(***************************************************************************)
(* One analysis of the engine behind the v2 contract (v2bridge/service.py, *)
(* analyze), asked again by the backend after every answer.  A request     *)
(* carries the answers so far and starts the engine's session anew; its    *)
(* turns end in a result, a failure or one question for the user.          *)
(*                                                                         *)
(* What a turn of the engine brings is free: the part of the posting it    *)
(* read, a verdict, the things it wants to know.  The backend (external    *)
(* here: AnalysisWorker.requestInput, AnalysisClarificationNormalizer)     *)
(* keeps three questions, none twice, and rewrites the values of options.  *)
(***************************************************************************)
EXTENDS Integers, SequencesExt

CONSTANTS
    MaxOptions,     \* the options a question may have
    Postings,       \* the postings of an instance: [url, role, said]
    MaxQuestions,   \* the questions an analysis may ask (three)
    MaxTurns        \* the turns of the engine in one request (MAX_TURNS)

VARIABLES
    posting,        \* the posting of the analysis
    answers,        \* the answers of the user, oldest first
    status,         \* RUNNING, WAITING, COMPLETED or FAILED
    reason,         \* why it failed
    question,       \* the question that waits for an answer
    asked,          \* the keys of all questions
    turn,           \* the turns of this request
    known,          \* whether the engine has read the posting in this session
    path            \* the path the result is about
bridgeVars == <<posting, answers, status, reason, question, asked, turn, known, path>>

-----------------------------------------------------------------------------
(***************************************************************************)
(* Which career path a posting is about (role_catalog.py).  A posting is   *)
(* the role the parser gave it and the groups of markers its text          *)
(* contains; a candidate is a specialization, whose track is fixed.  When  *)
(* the paths really differ the user is asked, and the answer decides.      *)
(***************************************************************************)
Unknown == "none"

\* The track of every specialization.
Track ==
    [WEB_BACKEND |-> "BACKEND", GAME_PLATFORM_BACKEND |-> "BACKEND",
     WEB_FRONTEND |-> "FRONTEND", WEB_FULLSTACK |-> "FULLSTACK", MOBILE_APP |-> "MOBILE",
     UNITY_CLIENT |-> "GAME", UNREAL_CLIENT |-> "GAME", GAME_CLIENT |-> "GAME",
     GAME_SERVER |-> "GAME", GAME_DEVELOPMENT |-> "GAME",
     DATA_ENGINEER |-> "DATA", DATA_SCIENTIST |-> "DATA", DATA_ANALYST |-> "DATA",
     ML_ENGINEER |-> "AI", DEVOPS_ENGINEER |-> "DEVOPS", SRE |-> "DEVOPS",
     CLOUD_ENGINEER |-> "CLOUD", SECURITY_ENGINEER |-> "SECURITY",
     QA_AUTOMATION |-> "QA", EMBEDDED_SOFTWARE |-> "EMBEDDED"]

Specializations == DOMAIN Track

\* _ENGINE_TRACK: the roles the parser may name.
EngineRole ==
    [backend |-> "WEB_BACKEND", frontend |-> "WEB_FRONTEND", fullstack |-> "WEB_FULLSTACK",
     mobile |-> "MOBILE_APP", devops |-> "DEVOPS_ENGINEER", sre |-> "SRE",
     data_engineer |-> "DATA_ENGINEER", data_scientist |-> "DATA_SCIENTIST",
     data_analyst |-> "DATA_ANALYST", ml_engineer |-> "ML_ENGINEER",
     security |-> "SECURITY_ENGINEER", qa |-> "QA_AUTOMATION", game |-> "GAME_DEVELOPMENT",
     embedded |-> "EMBEDDED_SOFTWARE"]

-----------------------------------------------------------------------------
(* candidates_for *)

InGame(p) == p.said \cap {"game", "unity", "unreal"} # {}
IsClient(p) == InGame(p) /\ p.said \cap {"unity", "unreal", "client"} # {}
IsServer(p) == InGame(p) /\ "game_server" \in p.said
IsPlatform(p) == InGame(p) /\ "game_platform" \in p.said

When(condition, s) == IF condition THEN <<s>> ELSE <<>>

ClientKind(p) ==
    CASE "unity" \in p.said /\ "unreal" \notin p.said -> "UNITY_CLIENT"
      [] "unreal" \in p.said /\ "unity" \notin p.said -> "UNREAL_CLIENT"
      [] OTHER -> "GAME_CLIENT"

GameCandidates(p) ==
    When(IsClient(p), ClientKind(p))
      \o When(IsServer(p), "GAME_SERVER")
      \o When(IsPlatform(p) /\ ~IsServer(p), "GAME_PLATFORM_BACKEND")
      \o When(InGame(p) /\ ~(IsClient(p) \/ IsServer(p) \/ IsPlatform(p)), "GAME_DEVELOPMENT")

WebCandidates(p) ==
    IF "fullstack" \in p.said THEN <<"WEB_FULLSTACK">>
    ELSE IF InGame(p) THEN <<>>
    ELSE When(p.role = "frontend" \/ "frontend" \in p.said, "WEB_FRONTEND")
           \o When(p.role = "backend" \/ "backend" \in p.said, "WEB_BACKEND")

OpsKind(p) == IF p.role = "sre" \/ "sre" \in p.said THEN "SRE" ELSE "DEVOPS_ENGINEER"

OtherCandidates(p) ==
    LET Named(role, marker) == p.role = role \/ marker \in p.said
    IN  IF InGame(p) THEN <<>>
        ELSE When("cloud" \in p.said, "CLOUD_ENGINEER")
               \o When(Named("mobile", "mobile"), "MOBILE_APP")
               \o When(Named("data_engineer", "data_engineer"), "DATA_ENGINEER")
               \o When(Named("data_scientist", "data_scientist"), "DATA_SCIENTIST")
               \o When(Named("data_analyst", "data_analyst"), "DATA_ANALYST")
               \o When(Named("ml_engineer", "ml"), "ML_ENGINEER")
               \o When("cloud" \notin p.said /\ (p.role \in {"devops", "sre"}
                         \/ p.said \cap {"ops", "sre"} # {}), OpsKind(p))
               \o When(Named("security", "security"), "SECURITY_ENGINEER")
               \o When(Named("qa", "qa"), "QA_AUTOMATION")
               \o When(Named("embedded", "embedded"), "EMBEDDED_SOFTWARE")

\* The role the parser named comes last, when nothing else is of its track and
\* the text does not speak for something more special.
Suppressed(p) ==
    \/ InGame(p) /\ p.role \in {"backend", "frontend", "fullstack"}
    \/ ~InGame(p) /\ "cloud" \in p.said /\ p.role = "devops"

Candidates(p) ==
    LET found == GameCandidates(p) \o WebCandidates(p) \o OtherCandidates(p)
        tracks == {Track[s] : s \in ToSet(found)}
        named == /\ ~Suppressed(p) /\ p.role \in DOMAIN EngineRole
                 /\ Track[EngineRole[p.role]] \notin tracks
    IN  IF named THEN Append(found, EngineRole[p.role]) ELSE found

-----------------------------------------------------------------------------
(* clarification_question *)

\* The value an option of a question has; a game nobody says more about has
\* none and cannot be offered.
OptionValue ==
    [WEB_BACKEND |-> "backend", WEB_FRONTEND |-> "frontend", WEB_FULLSTACK |-> "fullstack",
     GAME_CLIENT |-> "game_client", UNITY_CLIENT |-> "unity_client",
     UNREAL_CLIENT |-> "unreal_client", GAME_SERVER |-> "game_server",
     GAME_PLATFORM_BACKEND |-> "game_platform", MOBILE_APP |-> "mobile",
     DATA_ENGINEER |-> "data_engineer", DATA_SCIENTIST |-> "data_scientist",
     DATA_ANALYST |-> "data_analyst", ML_ENGINEER |-> "ai", DEVOPS_ENGINEER |-> "devops",
     SRE |-> "sre", CLOUD_ENGINEER |-> "cloud", SECURITY_ENGINEER |-> "security",
     QA_AUTOMATION |-> "qa", EMBEDDED_SOFTWARE |-> "embedded"]

\* _SELECTIONS: what a value stands for when it comes back.
Selection ==
    [backend |-> "WEB_BACKEND", frontend |-> "WEB_FRONTEND", fullstack |-> "WEB_FULLSTACK",
     game_client |-> "GAME_CLIENT", unity_client |-> "UNITY_CLIENT",
     unreal_client |-> "UNREAL_CLIENT", game_server |-> "GAME_SERVER",
     game_platform |-> "GAME_PLATFORM_BACKEND", mobile |-> "MOBILE_APP",
     data |-> "DATA_ENGINEER", data_engineer |-> "DATA_ENGINEER",
     data_scientist |-> "DATA_SCIENTIST", data_analyst |-> "DATA_ANALYST",
     ai |-> "ML_ENGINEER", devops |-> "DEVOPS_ENGINEER", sre |-> "SRE",
     cloud |-> "CLOUD_ENGINEER", security |-> "SECURITY_ENGINEER", qa |-> "QA_AUTOMATION",
     embedded |-> "EMBEDDED_SOFTWARE"]

\* _SELECTION_TEXT_ALIASES applied to the label of a specialization: a typed
\* name is understood when one of the aliases is a part of it. The labels of
\* the scientist, of the analyst and of game development contain none.
NoAlias == {"DATA_SCIENTIST", "DATA_ANALYST", "GAME_DEVELOPMENT"}
AliasOf(s) == IF s \in NoAlias THEN Unknown ELSE OptionValue[s]

\* Two clients of games differ less than a client and a server.
Material(candidates) ==
    \/ ToSet(candidates) \cap {"UNITY_CLIENT", "UNREAL_CLIENT", "GAME_CLIENT"} # {}
         /\ "GAME_SERVER" \in ToSet(candidates)
    \/ Cardinality({Track[s] : s \in ToSet(candidates)}) > 1

Offered(candidates) == {s \in ToSet(candidates) : s \in DOMAIN OptionValue}

NoQuestion == [kind |-> Unknown, options |-> {}]

\* A question with options, or for a name when there are too many of them.
Question(p, selected) ==
    LET candidates == Candidates(p)
        options == Offered(candidates)
    IN  IF selected # Unknown \/ ~Material(candidates) \/ Cardinality(options) < 2
        THEN NoQuestion
        ELSE IF Cardinality(options) > MaxOptions
             THEN [kind |-> "TEXT", options |-> {}]
             ELSE [kind |-> "CHOICE", options |-> options]

\* What is asked of a typed name: is one of the aliases a part of it?
Heard(s) == IF AliasOf(s) = Unknown THEN Unknown ELSE Selection[AliasOf(s)]

\* selected_role: what the first answer to the question chose; an answer
\* nothing is known of ends the search.
Selected(given) ==
    LET about == {i \in DOMAIN given : given[i].key = "target_track"}
        first == given[Min(about)]
    IN  IF about = {} THEN Unknown
        ELSE IF first.typed THEN Heard(first.meant)
        ELSE IF first.value \in DOMAIN Selection THEN Selection[first.value]
        ELSE Unknown

\* resolve: what the user chose, else the first candidate, else the role the
\* parser named; without any the path stays unknown and the analysis fails.
Resolve(p, selected) ==
    LET candidates == Candidates(p)
    IN  CASE selected # Unknown -> selected
          [] selected = Unknown /\ candidates # <<>> -> candidates[1]
          [] selected = Unknown /\ candidates = <<>> /\ p.role \in DOMAIN EngineRole ->
               EngineRole[p.role]
          [] OTHER -> Unknown

-----------------------------------------------------------------------------
(* The dialogue *)

\* An answer taken over from an earlier analysis of the posting.
DeniedBefore == [key |-> "career_stage", meant |-> Unknown, value |-> Unknown,
                 typed |-> TRUE, absent |-> TRUE]

NotAsked == [key |-> Unknown, kind |-> Unknown, options |-> {}]

BridgeInit ==
    /\ posting \in Postings
    /\ answers \in {<<>>, <<DeniedBefore>>}
    /\ status = "RUNNING" /\ reason = Unknown /\ question = NotAsked
    /\ asked = {a.key : a \in ToSet(answers)}
    /\ turn = 0 /\ known = FALSE /\ path = Unknown

-----------------------------------------------------------------------------
(* The backend *)

\* normalizeTrack: the value an option is stored under. A server of any kind
\* is a backend, a client nobody named an engine for is a game.
Canonical(s) ==
    CASE s \in {"WEB_BACKEND", "GAME_SERVER", "GAME_PLATFORM_BACKEND"} -> "backend"
      [] s = "GAME_CLIENT" -> "game"
      [] s \in {"DATA_ENGINEER", "DATA_SCIENTIST", "DATA_ANALYST"} -> "data"
      [] OTHER -> OptionValue[s]

Fails(why) ==
    /\ status' = "FAILED" /\ reason' = why
    /\ UNCHANGED <<question, asked, path>>

\* requestInput: options that come to mean the same are one; fewer than two
\* are no choice, a fourth question or the same one again ends the analysis.
Asks(q) ==
    CASE Cardinality(asked) >= MaxQuestions -> Fails("QUESTION_LIMIT")
      [] q.key \in asked -> Fails("REPEATED")
      [] q.kind = "CHOICE" /\ q.key = "target_track"
           /\ Cardinality({Canonical(s) : s \in q.options}) < 2 -> Fails("COLLAPSED")
      [] OTHER -> /\ status' = "WAITING" /\ question' = q /\ asked' = asked \cup {q.key}
                  /\ UNCHANGED <<reason, path>>

-----------------------------------------------------------------------------
(* A turn *)

\* What the questions about the path are decided from: the text, which is an
\* address alone when the posting was given as one, and what the engine read.
Seen(read) ==
    [role |-> IF read THEN posting.role ELSE Unknown,
     said |-> IF posting.url /\ ~read THEN {} ELSE posting.said]

HastyRoleQuestion(read) ==
    IF ~read /\ Cardinality(asked) < MaxQuestions THEN Question(Seen(FALSE), Selected(answers))
    ELSE NoQuestion

\* The question is asked while there is one left to ask.
RoleQuestion(read) ==
    IF Cardinality(asked) < MaxQuestions THEN Question(Seen(read), Selected(answers))
    ELSE NoQuestion

\* _requires_known_info_finalization
NothingMoreToAsk ==
    Cardinality(asked) >= MaxQuestions \/ \E a \in ToSet(answers) : a.absent

\* _completed: the path is settled, then the parts of the result are built; a
\* verdict that was held back or a posting without competencies is a failure.
Completes(read, built) ==
    LET resolved == Resolve(Seen(read), Selected(answers))
    IN  CASE resolved = Unknown -> Fails("ROLE_RESOLUTION_REQUIRED")
          [] resolved # Unknown /\ ~built -> Fails("AI_PROVIDER_UNAVAILABLE")
          [] OTHER -> /\ status' = "COMPLETED" /\ path' = resolved
                      /\ UNCHANGED <<reason, question, asked>>

\* _finalize_with_known_information: needs what the engine read, and may still
\* end without a result.
Finalizes(read, assembled, built) ==
    IF read /\ assembled THEN Completes(read, built)
    ELSE Fails("ANALYSIS_CONVERGENCE_FAILED")

\* The wishes of the engine are gone through in order: a missing document ends
\* the analysis, a question with options that was not answered goes out, and
\* everything else is answered for the user.
Unanswered(wishes) ==
    {i \in DOMAIN wishes : \/ wishes[i] = "document"
                           \/ /\ wishes[i] = "choice" /\ Cardinality(asked) < MaxQuestions
                              /\ ~\E a \in ToSet(answers) : a.key = "choice"}

Continues(read, wishes) ==
    LET open == Unanswered(wishes)
    IN  IF open = {} /\ turn' = MaxTurns THEN Fails("ANALYSIS_CONVERGENCE_FAILED")
        ELSE IF open = {} THEN UNCHANGED <<status, reason, question, asked, path>>
        ELSE IF wishes[Min(open)] = "document" THEN Fails("DOCUMENT_REQUIRED")
        ELSE Asks([key |-> "choice", kind |-> "CHOICE", options |-> {}])

\* Before the engine runs, the text alone may already call for the question.
AskFirst ==
    /\ status = "RUNNING" /\ turn = 0 /\ RoleQuestion(FALSE) # NoQuestion
    /\ Asks([key |-> "target_track", kind |-> RoleQuestion(FALSE).kind,
             options |-> RoleQuestion(FALSE).options])
    /\ UNCHANGED <<posting, answers, turn, known>>

CannotRun ==
    /\ status = "RUNNING" /\ (turn = 0 => RoleQuestion(FALSE) = NoQuestion)
    /\ \E why \in {"AI_PROVIDER_NOT_CONFIGURED", "AI_TIMEOUT"} : Fails(why)
    /\ UNCHANGED <<posting, answers, turn, known>>

\* One turn of the engine: it may read the posting, come to a verdict (for
\* which it has read it) and have wishes.
Turn ==
    /\ status = "RUNNING" /\ (turn = 0 => RoleQuestion(FALSE) = NoQuestion)
    /\ turn < MaxTurns /\ turn' = turn + 1
    /\ known' \in {known, TRUE}
    /\ \E verdict, assembled, built \in BOOLEAN, wishes \in SeqOf({"document", "choice", "fact"}, 2) :
         /\ verdict => known'
         /\ IF RoleQuestion(known') # NoQuestion
            THEN Asks([key |-> "target_track", kind |-> RoleQuestion(known').kind,
                       options |-> RoleQuestion(known').options])
            ELSE IF verdict THEN Completes(known', built)
            ELSE IF NothingMoreToAsk THEN Finalizes(known', assembled, built)
            ELSE IF wishes = <<>> THEN Fails("AI_PROVIDER_UNAVAILABLE")
            ELSE Continues(known', wishes)
    /\ UNCHANGED <<posting, answers>>

\* The user chooses an option or types one of the names; the next request
\* starts its session from nothing.
Answer ==
    /\ status = "WAITING" /\ status' = "RUNNING"
    /\ \E meant \in IF question.key = "target_track" /\ question.kind = "TEXT"
                    THEN ToSet(Candidates(Seen(TRUE)))
                    ELSE IF question.key = "target_track" THEN question.options ELSE {Unknown} :
         answers' = Append(answers,
           [key |-> question.key, meant |-> meant, typed |-> question.kind = "TEXT", absent |-> FALSE,
            value |-> IF question.kind = "CHOICE" /\ meant # Unknown THEN Canonical(meant)
                      ELSE Unknown])
    /\ question' = NotAsked /\ turn' = 0 /\ known' = FALSE
    /\ UNCHANGED <<posting, reason, asked, path>>

BridgeNext == AskFirst \/ CannotRun \/ Turn \/ Answer

-----------------------------------------------------------------------------
(* Properties *)

\* The analysis ends over a repeated question only when what the user said to
\* it was not understood (role_catalog.py, selected_role; AnalysisWorker.java,
\* requestInput).
RepeatedOnlyWhenUnheard ==
    reason = "REPEATED" =>
      \E a \in ToSet(answers) : a.key = "target_track" /\ Selected(answers) = Unknown

\* A posting for several paths is settled by the user and not by the order the
\* words were looked for in, as long as there was a question left to ask
\* (service.py, analyze).
MixedPostingIsSettledByTheUser ==
    /\ status = "COMPLETED" /\ Material(Candidates(Seen(TRUE)))
    /\ Cardinality(Offered(Candidates(Seen(TRUE)))) >= 2
    => Selected(answers) = path \/ Cardinality(asked) >= MaxQuestions

\* The path an analysis is made for is the one the user chose ("선택에 따라
\* 필요한 기술과 회사 맞춤 프로젝트가 달라집니다", role_catalog.py). Refuted:
\* the backend stores a game server as a backend.
AnalysedAsChosen ==
    status = "COMPLETED" =>
      \A a \in ToSet(answers) : a.key = "target_track" /\ ~a.typed => path = a.meant
=============================================================================
