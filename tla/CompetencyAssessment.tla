----------------------- MODULE CompetencyAssessment -----------------------
(***************************************************************************)
(* The assessment of one competency of a user at one level.  The backend   *)
(* (CompetencyAssessmentService) keeps the sessions and decides when one   *)
(* ends; the AI service (assess_competency, v2bridge/service.py) is sent   *)
(* the whole session with every request, scores the last answer and writes *)
(* the next question, deciding by its own copy of the rules which kind it  *)
(* is.  A request reads the session, calls the AI service outside of any   *)
(* transaction and writes in a second one, so that other requests of the   *)
(* user come between.  Scores and what the model writes are choices.       *)
(***************************************************************************)
EXTENDS Integers, Sequences, FiniteSets, SequencesExt, FiniteSetsExt

CONSTANTS
    Callers,        \* requests the user may have under way
    Scores,         \* what a model may give to an answer, by the kind of its question
    MaxQuestions,   \* MAXIMUM_QUESTIONS
    MaxSessions     \* sessions of an instance

PassScore == 75
MinimumScore == 60
KindOrder == <<"CONCEPT", "CODE", "SCENARIO">>
Kinds == ToSet(KindOrder)
NoScore == -1

VARIABLES
    sessions,       \* competency_assessment_sessions with their turns
    competency,     \* user_competencies: is the level verified, and by what
    caller          \* the request of each caller
assessmentVars == <<sessions, competency, caller>>

Turn(kind) == [kind |-> kind, score |-> NoScore]
Idle == [doing |-> "idle"]

-----------------------------------------------------------------------------
(* The rules of the backend *)

ScoreOf(scores, k) == IF k \in DOMAIN scores THEN scores[k] ELSE 0
Average(scores) ==
    (ScoreOf(scores, "CONCEPT") + ScoreOf(scores, "CODE") + ScoreOf(scores, "SCENARIO")) \div 3
\* Which questions were answered
Answered(turns) == {k \in DOMAIN turns : turns[k].score # NoScore}

\* The best score of each kind: what the session was given from earlier ones and
\* what was scored in it.
Best(retained, turns) ==
    LET scored == {t \in turns : t.score # NoScore}
        kinds == DOMAIN retained \cup {t.kind : t \in scored}
    IN  [k \in kinds |-> Max({ScoreOf(retained, k)} \cup {t.score : t \in {u \in scored : u.kind = k}})]

\* The first of the kinds in their order whose score is the least.
Weakest(scores) ==
    KindOrder[Min({i \in 1 .. 3 : \A j \in 1 .. 3 :
                     ScoreOf(scores, KindOrder[i]) <= ScoreOf(scores, KindOrder[j])})]
Short(scores) == {i \in 1 .. 3 : ScoreOf(scores, KindOrder[i]) < MinimumScore}

\* nextQuestionKind: none when the assessment is passed.
Passing(scores) == Short(scores) = {} /\ Average(scores) >= PassScore
NextQuestionKind(scores) ==
    IF Short(scores) # {} THEN KindOrder[Min(Short(scores))]
    ELSE IF Passing(scores) THEN "none" ELSE Weakest(scores)

\* firstQuestionKind: also a user who would pass is asked once.
FirstKind(retained) ==
    IF Passing(retained) THEN Weakest(retained) ELSE NextQuestionKind(retained)

-----------------------------------------------------------------------------
(* The AI service *)

\* _generate_assessment_question: what is out of the scope of the competency is
\* thrown away, and written anew once.
Drafts == {<<"inside">>, <<"nothing">>}
          \cup {<<"outside", second>> : second \in {"inside", "outside", "nothing"}}
Written(drafts) == Last(drafts) = "inside"

\* _next_assessment_kind, the same rule a second time.
NextByAverage(scores) ==
    IF Average(scores) >= PassScore THEN "none" ELSE Weakest(scores)
NextAssessmentKind(scores) ==
    LET short == {i \in 1 .. 3 : ScoreOf(scores, KindOrder[i]) < 60}
    IN  CASE short # {} -> KindOrder[Min(short)]
          [] short = {} /\ Average(scores) >= 75 -> "none"
          [] OTHER -> Weakest(scores)

\* assess_competency for an answer: its score, and the next question unless five
\* were answered. "failed" is an exception, which takes the score with it.
Assessment(turns, retained, required, score) ==
    LET scored == [i \in DOMAIN turns |->
                     IF turns[i].score = NoScore THEN [turns[i] EXCEPT !.score = score] ELSE turns[i]]
        kind == IF required # "none" THEN required ELSE NextAssessmentKind(Best(retained, ToSet(scored)))
        asks == Cardinality(Answered(scored)) < MaxQuestions /\ kind # "none"
    IN  IF asks THEN {[failed |-> ~Written(d), score |-> score, next |-> kind] : d \in Drafts}
        ELSE {[failed |-> FALSE, score |-> score, next |-> "none"]}

-----------------------------------------------------------------------------
(* Requests *)

Active == {i \in DOMAIN sessions : sessions[i].status = "IN_PROGRESS"}

\* loadRetainedScores: scores that suffice, of sessions that ended within the
\* last thirty days.
Retained ==
    LET past == {i \in DOMAIN sessions : sessions[i].status \in {"PASSED", "NEEDS_STUDY"} /\ sessions[i].recent}
        scored == UNION {{t \in ToSet(sessions[i].turns) : t.score >= MinimumScore} : i \in past}
    IN  [k \in {t.kind : t \in scored} |-> Max({t.score : t \in {u \in scored : u.kind = k}})]

AssessmentInit ==
    /\ sessions = <<>>
    /\ competency = [verified |-> FALSE, by |-> "none"]
    /\ caller = [c \in Callers |-> Idle]

\* start: without a session in progress the AI service is asked for the first
\* question.
Start(c) ==
    /\ caller[c] = Idle /\ Active = {}
    /\ Len(sessions) + Cardinality({d \in Callers : caller[d].doing = "start"}) < MaxSessions
    /\ \E answer \in Assessment(<<>>, Retained, FirstKind(Retained), NoScore) :
         caller' = [caller EXCEPT ![c] =
           IF answer.failed THEN Idle
           ELSE [doing |-> "start", retained |-> Retained, next |-> answer.next]]
    /\ UNCHANGED <<sessions, competency>>

\* The session is written with its first question; the index on sessions in
\* progress refuses a second one.
Started(c) ==
    /\ caller[c].doing = "start"
    /\ sessions' = IF Active # {} THEN sessions
                   ELSE Append(sessions,
                     [status |-> "IN_PROGRESS", retained |-> caller[c].retained,
                      turns |-> <<Turn(caller[c].next)>>, recent |-> TRUE, review |-> "NONE"])
    /\ caller' = [caller EXCEPT ![c] = Idle]
    /\ UNCHANGED competency

\* answer: the AI service scores the first question without an answer.
Answer(c) ==
    /\ caller[c] = Idle
    /\ \E i \in Active :
         LET s == sessions[i]
             open == SelectInSeq(s.turns, LAMBDA t : t.score = NoScore)
         IN  /\ open # 0
             /\ \E score \in Scores[s.turns[open].kind] :
                \E answer \in Assessment(s.turns, s.retained, "none", score) :
                  caller' = [caller EXCEPT ![c] =
                    IF answer.failed THEN Idle
                    ELSE [doing |-> "answer", session |-> i, turn |-> open,
                          score |-> answer.score, next |-> answer.next]]
    /\ UNCHANGED <<sessions, competency>>

\* The answer is stored if its question still has none. The session ends when it
\* is passed or when the questions are spent; otherwise it needs the question of
\* the kind that comes next, and without it everything is rolled back.
Answering(c) ==
    LET a == caller[c]
        s == sessions[a.session]
        turns == [s.turns EXCEPT ![a.turn].score = a.score]
        best == Best(s.retained, ToSet(turns))
        attempts == Cardinality(Answered(turns))
        ended == IF Passing(best) THEN "PASSED"
                 ELSE IF attempts >= MaxQuestions THEN "NEEDS_STUDY" ELSE s.status
    IN  /\ a.doing = "answer"
        /\ caller' = [caller EXCEPT ![c] = Idle]
        /\ IF s.turns[a.turn].score # NoScore THEN UNCHANGED <<sessions, competency>>
           ELSE IF Passing(best) \/ attempts >= MaxQuestions
           THEN /\ sessions' = [sessions EXCEPT ![a.session].status = ended,
                                                ![a.session].turns = turns]
                /\ competency' = IF Passing(best) THEN [verified |-> TRUE, by |-> "AI_ASSESSMENT"]
                                 ELSE competency
           ELSE IF a.next # NextQuestionKind(best) THEN UNCHANGED <<sessions, competency>>
           ELSE /\ sessions' = [sessions EXCEPT ![a.session].turns = Append(turns, Turn(a.next))]
                /\ UNCHANGED competency

Abandon(i) ==
    /\ sessions[i].status = "IN_PROGRESS"
    /\ sessions' = [sessions EXCEPT ![i].status = "ABANDONED"]
    /\ UNCHANGED <<competency, caller>>

\* requestReview and resolveReview: an operator may pass a session that was not.
RequestReview(i) ==
    /\ sessions[i].status = "NEEDS_STUDY" /\ sessions[i].review \in {"NONE", "REJECTED"}
    /\ sessions' = [sessions EXCEPT ![i].review = "REQUESTED"]
    /\ UNCHANGED <<competency, caller>>
ResolveReview(i) ==
    /\ sessions[i].review = "REQUESTED"
    /\ \/ /\ sessions' = [sessions EXCEPT ![i].review = "APPROVED", ![i].status = "PASSED"]
          /\ competency' = [verified |-> TRUE, by |-> "OPERATOR_REVIEW"]
       \/ /\ sessions' = [sessions EXCEPT ![i].review = "REJECTED"]
          /\ UNCHANGED competency
    /\ UNCHANGED caller

\* Thirty days go by.
Age(i) ==
    /\ sessions[i].status \in {"PASSED", "NEEDS_STUDY"} /\ sessions[i].recent
    /\ sessions' = [sessions EXCEPT ![i].recent = FALSE]
    /\ UNCHANGED <<competency, caller>>

AssessmentNext ==
    \/ \E c \in Callers : Start(c) \/ Started(c) \/ Answer(c) \/ Answering(c)
    \/ \E i \in DOMAIN sessions : Abandon(i) \/ RequestReview(i) \/ ResolveReview(i) \/ Age(i)

-----------------------------------------------------------------------------
(* Properties *)

\* The backend is never left without the question it needs: an answer the AI
\* service has scored either ends the session or comes with a question of the
\* kind the backend goes on with, whichever scores were kept from earlier
\* sessions (nextQuestionKind and _next_assessment_kind, MAXIMUM_QUESTIONS and the
\* five of assess_competency).
BothSidesAgree ==
    \A c \in Callers : caller[c].doing = "answer" =>
      LET a == caller[c]
          s == sessions[a.session]
          turns == [s.turns EXCEPT ![a.turn].score = a.score]
          best == Best(s.retained, ToSet(turns))
      IN  s.turns[a.turn].score = NoScore =>
            \/ Passing(best) \/ Cardinality(Answered(turns)) >= MaxQuestions
            \/ a.next = NextQuestionKind(best)

\* A session in progress waits for one answer, and asks at most as often as it
\* may; there is one such session (competency_assessments_one_active_idx).
OneQuestionIsOpen ==
    /\ Cardinality(Active) <= 1
    /\ \A i \in DOMAIN sessions :
         /\ Len(sessions[i].turns) <= MaxQuestions
         /\ sessions[i].status = "IN_PROGRESS" =>
              {k \in DOMAIN sessions[i].turns : sessions[i].turns[k].score = NoScore}
                = {Len(sessions[i].turns)}

\* A level is verified by an operator or by scores of every kind that were earned
\* in sessions that have ended: nothing less than a passing average, each of them
\* sufficient (finishSession, loadRetainedScores).
VerifiedIsEarned ==
    competency.by = "AI_ASSESSMENT" =>
      \E i \in DOMAIN sessions :
        LET earned == UNION {ToSet(sessions[j].turns) : j \in {k \in 1 .. i :
                               sessions[k].status \in {"PASSED", "NEEDS_STUDY"}}}
        IN  /\ sessions[i].status = "PASSED"
            /\ Passing(Best([k \in {} |-> 0], earned))
=============================================================================
