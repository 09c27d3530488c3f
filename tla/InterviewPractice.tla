------------------------- MODULE InterviewPractice -------------------------
(***************************************************************************)
(* The agent that interviews the user over several turns                   *)
(* (agents/interview_prep.py): it picks what to ask about by rules, has    *)
(* answers checked and questions recorded, and keeps what was asked for    *)
(* the turns to come.                                                      *)
(***************************************************************************)
EXTENDS AgentLoop

CONSTANTS
    Analyses,       \* verdicts: [gaps, strengths : Seq of materials]
    MaxPerKind,     \* _MAX_QUESTIONS_PER_KIND
    MaxTurns        \* bound on the turns

VARIABLES
    analysis,   \* session.analysis
    practice,   \* the state of the turn: asked, answers, usedTopics
    pending,    \* _pending: what was picked in this turn
    progress,   \* session.interview
    heard,      \* what the user said in this turn: an answer or something else
    came        \* what the last turn came to

practiceVars == <<loop, analysis, practice, pending, progress, heard, came>>

NoTopic == [topic |-> None]
NoPractice == [asked |-> <<>>, answers |-> <<>>, used |-> <<>>]
First(s, n) == SubSeq(s, 1, IF Len(s) < n THEN Len(s) ELSE n)

\* A material is [topic, type, project, need, severity, listed]: whether a project of the
\* resume names it, what the posting makes of it, whether the skills list it
Materials(verdict) == First(verdict.gaps, MaxPerKind) \o First(verdict.strengths, MaxPerKind)

\* _score_material
Score(m) ==
    (IF m.project THEN 3 ELSE 0)
    + (CASE m.need = "required" -> 2 [] m.need = "preferred" -> 1 [] OTHER -> 0)
    + (CASE m.severity = "high" -> 2 [] m.severity = "medium" -> 1 [] OTHER -> 0)
    + (IF ~m.project /\ m.listed THEN 2 ELSE 0)

\* A fault for the check: what was used in this turn only
FreshThisTurn(state, want) ==
    LET all == Materials(analysis)
    IN  {i \in DOMAIN all : all[i].topic # pending.topic /\ want \in {"any", all[i].type}}
\* The places of what is not yet used and of the kind that is wanted
Candidates(state, want) ==
    LET all == Materials(analysis)
    IN  {i \in DOMAIN all : all[i].topic \notin ToSet(state.used) /\ want \in {"any", all[i].type}}

\* The first of the best of them
IsBest(i, free) ==
    LET all == Materials(analysis)
    IN  \A j \in free : Score(all[j]) < Score(all[i]) \/ (Score(all[j]) = Score(all[i]) /\ i <= j)

-----------------------------------------------------------------------------
PracticeInit ==
    /\ loop = Idle /\ analysis \in Analyses /\ practice = NoPractice /\ pending = NoTopic
    /\ progress = NoPractice /\ heard = None /\ came = [turns |-> 0, kind |-> None]

\* _interview_state; without anything to ask about the template says so
Open(said) ==
    /\ loop = Idle /\ came.turns < MaxTurns
    /\ heard' = said /\ pending' = NoTopic
    /\ IF Materials(analysis) = <<>>
       THEN /\ came' = [turns |-> came.turns + 1, kind |-> "no_basis"]
            /\ UNCHANGED <<loop, practice>>
       ELSE /\ loop' = Started /\ practice' = progress
            /\ came' = [turns |-> came.turns + 1, kind |-> None]
    /\ UNCHANGED <<analysis, progress>>

\* pick_material
Pick(want) ==
    /\ Uses("pick_material", {})
    /\ LET free == Candidates(practice, want)
       IN  \/ free = {} /\ UNCHANGED <<practice, pending>>
           \/ \E best \in free :
                /\ IsBest(best, free) /\ pending' = Materials(analysis)[best]
                /\ practice' = [practice EXCEPT !.used = Append(@, Materials(analysis)[best].topic)]
    /\ UNCHANGED <<analysis, progress, heard, came>>

\* check_answer: what is recorded is the topic picked in this turn, if one was
CheckAnswer ==
    /\ Uses("check_answer", {})
    /\ practice' = IF heard = None THEN practice
                   ELSE [practice EXCEPT !.answers = Append(@, [about |-> pending.topic, said |-> heard])]
    /\ UNCHANGED <<analysis, pending, progress, heard, came>>

\* record_question
RecordQuestion(blank) ==
    /\ Uses("record_question", {})
    /\ practice' = IF blank THEN practice ELSE [practice EXCEPT !.asked = Append(@, pending.topic)]
    /\ UNCHANGED <<analysis, pending, progress, heard, came>>

FindEvidence ==
    /\ \/ Uses("find_evidence", {})
       \/ \E tool \in Tools : Breaks(tool)
    /\ UNCHANGED <<analysis, practice, pending, progress, heard, came>>

Speak == Talks /\ UNCHANGED <<analysis, practice, pending, progress, heard, came>>

\* run: an answer, or the template over the materials; either way the progress is kept
Deliver ==
    /\ loop.phase = "over"
    /\ progress' = practice
    /\ came' = [came EXCEPT !.kind = IF loop.reply = NoText THEN "template" ELSE "answer"]
    /\ loop' = Idle /\ pending' = NoTopic /\ heard' = None /\ practice' = NoPractice
    /\ UNCHANGED analysis

\* Another posting is judged between two turns; the practice goes on
Judge(verdict) ==
    /\ loop = Idle /\ analysis # verdict /\ analysis' = verdict
    /\ UNCHANGED <<loop, practice, pending, progress, heard, came>>

PracticeNext ==
    \/ \E said \in {None, "answer", "else"} : Open(said)
    \/ \E want \in {"any", "gap", "strength"} : Pick(want)
    \/ CheckAnswer
    \/ \E blank \in BOOLEAN : RecordQuestion(blank)
    \/ FindEvidence
    \/ Speak
    \/ Deliver
    \/ \E verdict \in Analyses : Judge(verdict)

-----------------------------------------------------------------------------
\* Over all turns no topic is picked twice, and nothing is asked about that a finding did
\* not give: a question or an answer names a topic that was picked (interview_prep.py,
\* _tool_pick_material and _tool_record_question)
AskedFromFindings ==
    \A state \in {practice, progress} :
      /\ Cardinality(ToSet(state.used)) = Len(state.used)
      /\ ToSet(state.used) \subseteq {m.topic : m \in UNION {ToSet(Materials(v)) : v \in Analyses}}
      /\ ToSet(state.asked) \cup {state.answers[i].about : i \in DOMAIN state.answers}
           \subseteq ToSet(state.used) \cup {None}

\* What the practice holds only grows, whatever the model does
ProgressIsKept ==
    /\ IsPrefix(progress.asked, progress'.asked)
    /\ IsPrefix(progress.answers, progress'.answers)
    /\ IsPrefix(progress.used, progress'.used)
=============================================================================
