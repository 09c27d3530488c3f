-------------------------- MODULE AssistantProofs --------------------------
(***************************************************************************)
(* What is proved of the parts of MCAssistant, for every value of their    *)
(* constants: the progress of an analysis (AnalysisStream, by the          *)
(* invariant StreamInv), the questions of the bridge (AnalysisBridge, by   *)
(* BridgeInv) and the turns of a conversation (ChatTurn, by TurnsInv and   *)
(* Alone).  Of each, one fact per action and then the properties.          *)
(***************************************************************************)
EXTENDS MCAssistant, FiniteSetTheorems, WellFoundedInduction, TLAPS

-----------------------------------------------------------------------------
(* The progress of an analysis *)

Stages == Stream!Backbone \cup StreamAgents
Statuses == {"PENDING", "RUNNING", "COMPLETED", "FAILED"}

StreamType ==
    /\ sequence \in Nat /\ plans \in 0 .. StreamPlans
    /\ declared \subseteq Stages /\ Stream!Backbone \subseteq declared
    /\ shown \in [Stages -> Statuses]
    /\ last \in [stage: Stages, status: Statuses] \cup {Stream!Nothing}
    /\ suppressed \in BOOLEAN /\ silent \in BOOLEAN
    /\ queue \subseteq StreamAgents /\ running \subseteq StreamAgents
    /\ unseen \subseteq StreamAgents /\ setBack \subseteq StreamAgents
    /\ phase \in {"PLANNING", "ACTING", "DONE", "ENDED"}

\* The plans go out beyond the budget, and so does the end
EventsFit == sequence <= Budget + plans + (IF phase = "ENDED" THEN 1 ELSE 0)

\* What a heartbeat repeats is on the plan, as long as there is a budget
RepeatsWhatIsPlanned == last # Stream!Nothing /\ last.stage \notin declared => sequence >= Budget

\* What a heartbeat repeats is what is on the screen
RepeatsWhatIsShown == phase # "ENDED" /\ last # Stream!Nothing => shown[last.stage] = last.status

\* An agent is shown at work only while it is, on the plan it was started from, or
\* when it was set back; and one of the plan is shown at work when it is
WorkIsShown ==
    ~suppressed =>
      \A a \in StreamAgents :
        /\ shown[a] = "RUNNING" => a \in (running \cap declared) \cup setBack
        /\ a \in running \cap declared => shown[a] = "RUNNING"
NobodyWorksUnplanned == phase = "PLANNING" => running = {}

StreamInv ==
    /\ StreamType /\ EventsFit /\ RepeatsWhatIsPlanned /\ RepeatsWhatIsShown
    /\ WorkIsShown /\ NobodyWorksUnplanned /\ Stream!SilentOnlyWhenSpent

-----------------------------------------------------------------------------
(* The steps *)

LEMMA StreamBegins ==
    ASSUME StreamBounds, Stream!StreamInit
    PROVE  StreamInv
<1>1. shown \in [Stages -> Statuses] /\ \A s \in Stages : shown[s] = "PENDING"
  BY DEF Stream!StreamInit, Stages, Statuses
<1>2. StreamType
  <2>1. plans \in 0 .. StreamPlans /\ sequence \in Nat
    BY DEF StreamBounds, Stream!StreamInit
  <2>2. suppressed \in BOOLEAN /\ silent \in BOOLEAN /\ last = Stream!Nothing
    BY DEF Stream!StreamInit
  <2> QED BY <1>1, <2>1, <2>2 DEF Stream!StreamInit, StreamType, Stages
<1>3. WorkIsShown
  BY <1>1 DEF WorkIsShown, Stages, Stream!StreamInit
<1> QED BY <1>2, <1>3 DEF StreamBounds, Stream!StreamInit, StreamInv, EventsFit, RepeatsWhatIsPlanned,
           RepeatsWhatIsShown, NobodyWorksUnplanned, Stream!SilentOnlyWhenSpent

\* A report changes the status of its stage only; when nothing was suppressed,
\* what is reported of a stage on the plan is what is shown.
LEMMA Reported ==
    ASSUME StreamBounds, StreamInv, NEW stage \in Stages, NEW given \in Statuses,
           Stream!Reports(stage, given), plans' = plans, phase # "ENDED", phase' # "ENDED"
    PROVE  /\ sequence' \in Nat /\ declared' = declared /\ suppressed' \in BOOLEAN
           /\ shown' \in [Stages -> Statuses]
           /\ last' \in [stage: Stages, status: Statuses] \cup {Stream!Nothing}
           /\ EventsFit' /\ RepeatsWhatIsPlanned' /\ RepeatsWhatIsShown'
           /\ \A s \in Stages \ {stage} : shown'[s] = shown[s]
           /\ suppressed => suppressed'
           /\ stage \in declared => suppressed' \/ shown'[stage] = given
           /\ stage \notin declared => shown' = shown
<1> DEFINE fits == stage \in declared /\ sequence < Budget
<1>1. CASE fits
  <2>1. /\ sequence' = sequence + 1 /\ shown' = [shown EXCEPT ![stage] = given]
        /\ last' = [stage |-> stage, status |-> given]
        /\ suppressed' = suppressed /\ declared' = declared
    BY <1>1 DEF Stream!Reports, Stream!Update
  <2>2. last'.stage = stage /\ last'.status = given /\ last' \in [stage: Stages, status: Statuses]
    BY <2>1
  <2>3. shown' \in [Stages -> Statuses] /\ shown'[stage] = given
        /\ \A s \in Stages \ {stage} : shown'[s] = shown[s]
    BY <2>1 DEF StreamInv, StreamType
  <2>4. EventsFit'
    BY <1>1, <2>1 DEF EventsFit, StreamInv, StreamType, StreamBounds
  <2> QED BY <1>1, <2>1, <2>2, <2>3, <2>4
          DEF StreamInv, StreamType, RepeatsWhatIsPlanned, RepeatsWhatIsShown
<1>2. CASE ~fits
  <2>1. /\ sequence' = sequence /\ suppressed' = (suppressed \/ stage \in declared)
        /\ shown' = shown /\ last' = last /\ declared' = declared
    BY <1>2 DEF Stream!Reports, Stream!Update
  <2> QED BY <2>1 DEF StreamInv, StreamType, EventsFit, RepeatsWhatIsPlanned, RepeatsWhatIsShown
<1> QED BY <1>1, <1>2

\* What a report must still show of itself: the engine's part of the invariant.
LEMMA ReportKeeps ==
    ASSUME StreamBounds, StreamInv, NEW stage \in Stages, NEW given \in Statuses,
           Stream!Reports(stage, given), plans' = plans, silent' = FALSE,
           phase \in {"PLANNING", "ACTING"}, phase' = phase,
           queue' \subseteq StreamAgents, running' \subseteq StreamAgents,
           unseen' \subseteq StreamAgents, setBack' \subseteq StreamAgents,
           phase = "PLANNING" => running' = {},
           running \ {stage} \subseteq running', running' \subseteq running \cup {stage},
           setBack \ {stage} \subseteq setBack',
           stage \in setBack /\ stage \notin declared => stage \in setBack',
           stage \in running' => given = "RUNNING",
           stage \in StreamAgents /\ given = "RUNNING" => stage \in running' \cup setBack'
    PROVE  StreamInv'
<1>1. StreamType' /\ EventsFit' /\ RepeatsWhatIsPlanned' /\ RepeatsWhatIsShown'
  BY Reported DEF StreamInv, StreamType
<1>2. WorkIsShown'
  <2> SUFFICES ASSUME ~suppressed', NEW a \in StreamAgents
               PROVE  /\ shown'[a] = "RUNNING" => a \in (running' \cap declared') \cup setBack'
                      /\ a \in running' \cap declared' => shown'[a] = "RUNNING"
    BY DEF WorkIsShown
  <2>1. ~suppressed /\ declared' = declared /\ a \in Stages
    BY Reported DEF Stages
  <2>2. /\ shown[a] = "RUNNING" => a \in (running \cap declared) \cup setBack
        /\ a \in running \cap declared => shown[a] = "RUNNING"
    BY <2>1 DEF StreamInv, WorkIsShown
  <2>3. CASE a # stage
    <3>1. shown'[a] = shown[a] /\ (a \in running' <=> a \in running) /\ (a \in setBack => a \in setBack')
      BY <2>1, <2>3, Reported
    <3> QED BY <2>1, <2>2, <3>1
  <2>4. CASE a = stage /\ stage \in declared
    BY <2>1, <2>4, Reported
  <2>5. CASE a = stage /\ stage \notin declared
    <3>1. shown'[a] = shown[a]
      BY <2>5, Reported
    <3> QED BY <2>1, <2>2, <2>5, <3>1
  <2> QED BY <2>3, <2>4, <2>5
<1> QED BY <1>1, <1>2 DEF StreamInv, NobodyWorksUnplanned, Stream!SilentOnlyWhenSpent

LEMMA EngineReports ==
    ASSUME StreamBounds, StreamInv, Stream!TakeIn \/ Stream!Plan \/ Stream!Step \/ Stream!Start \/ Stream!End \/ Stream!Observe
    PROVE  StreamInv'
<1> USE DEF StreamInv, StreamType
<1>1. {"CONTEXT", "PLANNING"} \cup StreamAgents \subseteq Stages
      /\ {"RUNNING", "COMPLETED", "FAILED"} \subseteq Statuses
      /\ {"CONTEXT", "PLANNING"} \cap StreamAgents = {}
  BY DEF Stages, Stream!Backbone, Statuses, StreamBounds
<1>2. CASE Stream!TakeIn
  BY <1>1, <1>2, ReportKeeps DEF Stream!TakeIn, NobodyWorksUnplanned
<1>3. CASE Stream!Plan
  BY <1>1, <1>3, ReportKeeps DEF Stream!Plan, NobodyWorksUnplanned
<1>4. CASE Stream!Step
  <2>1. PICK a \in running : Stream!Reports(a, "RUNNING")
    BY <1>4 DEF Stream!Step
  <2> QED BY <2>1, <1>1, <1>4, ReportKeeps DEF Stream!Step, NobodyWorksUnplanned
<1>5. CASE Stream!Start
  <2>1. PICK a \in queue :
          /\ running' = running \cup {a} /\ queue' = queue \ {a} /\ Stream!Reports(a, "RUNNING")
          /\ unseen' = unseen \cup {a} /\ setBack' = setBack \ (declared \cap {a})
    BY <1>5 DEF Stream!Start
  <2> QED BY <2>1, <1>1, <1>5, ReportKeeps DEF Stream!Start
<1>6. CASE Stream!End
  <2>1. PICK a \in running, how \in {"COMPLETED", "FAILED"} :
          Stream!Reports(a, how) /\ running' = running \ {a}
    BY <1>6 DEF Stream!End
  <2> QED BY <2>1, <1>1, <1>6, ReportKeeps DEF Stream!End, NobodyWorksUnplanned
<1>7. CASE Stream!Observe
  <2>1. /\ UNCHANGED <<plans, running, phase>> /\ running = {} /\ silent' = FALSE
        /\ phase = "ACTING" /\ unseen' = {} /\ queue' \subseteq StreamAgents
    BY <1>7 DEF Stream!Observe
  <2>2. CASE UNCHANGED <<sequence, declared, shown, last, suppressed, setBack>>
    BY <2>1, <2>2 DEF EventsFit, RepeatsWhatIsPlanned, RepeatsWhatIsShown, WorkIsShown,
          NobodyWorksUnplanned, Stream!SilentOnlyWhenSpent
  <2>3. CASE \E a \in unseen : Stream!Reports(a, "RUNNING") /\ setBack' = setBack \cup {a}
    <3>1. PICK a \in unseen : Stream!Reports(a, "RUNNING") /\ setBack' = setBack \cup {a}
      BY <2>3
    <3> QED BY <1>1, <2>1, <3>1, ReportKeeps
  <2> QED BY <1>7, <2>2, <2>3 DEF Stream!Observe
<1> QED BY <1>2, <1>3, <1>4, <1>5, <1>6, <1>7

\* The plan goes out whatever the budget; nobody is at work when it does.
LEMMA DispatchKeeps ==
    ASSUME StreamBounds, StreamInv, Stream!Dispatch
    PROVE  StreamInv'
<1> USE DEF StreamInv, StreamType
<1>1. PICK chosen \in SUBSET StreamAgents :
        /\ declared' = Stream!Backbone \cup chosen /\ queue' = chosen
        /\ Stream!Update(declared', sequence + 1, "PLANNING", "COMPLETED")
  BY DEF Stream!Dispatch
<1>2. /\ plans' = plans + 1 /\ plans' \in 0 .. StreamPlans /\ running' = running /\ running = {}
      /\ unseen' = unseen /\ setBack' = setBack /\ phase' = "ACTING" /\ silent' = FALSE
  BY DEF Stream!Dispatch, NobodyWorksUnplanned, StreamBounds
<1>3. "PLANNING" \in declared' /\ "PLANNING" \notin StreamAgents /\ "PLANNING" \in Stages
      /\ declared' \subseteq Stages /\ Stream!Backbone \subseteq declared'
  BY <1>1 DEF Stages, Stream!Backbone, StreamBounds
<1>4. \A a \in StreamAgents : suppressed \/ (shown[a] = "RUNNING" => a \in setBack)
  BY <1>2 DEF WorkIsShown
<1>5. CASE sequence + 1 < Budget
  <2>1. /\ sequence' = sequence + 2 /\ shown' = [shown EXCEPT !["PLANNING"] = "COMPLETED"]
        /\ last' = [stage |-> "PLANNING", status |-> "COMPLETED"] /\ suppressed' = suppressed
    BY <1>1, <1>3, <1>5 DEF Stream!Update
  <2>2. /\ shown' \in [Stages -> Statuses] /\ shown'["PLANNING"] = "COMPLETED"
        /\ \A a \in StreamAgents : shown'[a] = shown[a]
    BY <1>3, <2>1 DEF Statuses, Stages
  <2>3. last'.stage = "PLANNING" /\ last'.status = "COMPLETED"
        /\ last' \in [stage: Stages, status: Statuses]
    BY <1>3, <2>1 DEF Statuses
  <2>4. EventsFit'
    BY <1>2, <1>5, <2>1 DEF EventsFit, StreamBounds
  <2>5. StreamType'
    <3>1. sequence' \in Nat
      BY <2>1
    <3>2. suppressed' \in BOOLEAN /\ silent' \in BOOLEAN
      BY <1>2, <2>1
    <3>3. queue' \subseteq StreamAgents /\ running' \subseteq StreamAgents
          /\ unseen' \subseteq StreamAgents /\ setBack' \subseteq StreamAgents /\ phase' \in {"PLANNING", "ACTING", "DONE", "ENDED"}
      BY <1>1, <1>2
    <3> QED BY <1>2, <1>3, <2>2, <2>3, <3>1, <3>2, <3>3
  <2>6. WorkIsShown'
    BY <1>2, <1>4, <2>1, <2>2 DEF WorkIsShown
  <2> QED BY <1>2, <1>3, <2>2, <2>3, <2>4, <2>5, <2>6
          DEF RepeatsWhatIsPlanned, RepeatsWhatIsShown, NobodyWorksUnplanned, Stream!SilentOnlyWhenSpent
<1>6. CASE ~(sequence + 1 < Budget)
  <2>1. sequence' = sequence + 1 /\ shown' = shown /\ last' = last /\ suppressed' = TRUE
    BY <1>1, <1>3, <1>6 DEF Stream!Update
  <2>2. EventsFit' /\ sequence' >= Budget
    BY <1>2, <1>6, <2>1 DEF EventsFit, StreamBounds, Stream!Dispatch
  <2>3. StreamType'
    <3>1. sequence' \in Nat
      BY <2>1
    <3>2. suppressed' \in BOOLEAN /\ silent' \in BOOLEAN
      BY <1>2, <2>1
    <3>3. queue' \subseteq StreamAgents /\ running' \subseteq StreamAgents
          /\ unseen' \subseteq StreamAgents /\ setBack' \subseteq StreamAgents /\ phase' \in {"PLANNING", "ACTING", "DONE", "ENDED"}
      BY <1>1, <1>2
    <3> QED BY <1>2, <1>3, <2>1, <3>1, <3>2, <3>3
  <2>4. RepeatsWhatIsShown'
    BY <1>2, <2>1 DEF RepeatsWhatIsShown, Stream!Dispatch
  <2> QED BY <1>2, <2>1, <2>2, <2>3, <2>4
          DEF RepeatsWhatIsPlanned, WorkIsShown, NobodyWorksUnplanned, Stream!SilentOnlyWhenSpent
<1> QED BY <1>5, <1>6

\* A heartbeat repeats what is shown, on the plan unless the budget is spent.
LEMMA HeartbeatKeeps ==
    ASSUME StreamBounds, StreamInv, Stream!Heartbeat
    PROVE  StreamInv'
<1> USE DEF StreamInv, StreamType
<1>1. CASE last = Stream!Nothing
  <2>1. UNCHANGED <<sequence, declared, shown, last, suppressed, plans, queue, running, unseen, setBack, phase>>
        /\ silent' = TRUE
    BY <1>1 DEF Stream!Heartbeat
  <2> QED BY <1>1, <2>1
          DEF EventsFit, RepeatsWhatIsPlanned, RepeatsWhatIsShown, WorkIsShown,
              NobodyWorksUnplanned, Stream!SilentOnlyWhenSpent
<1>2. CASE last # Stream!Nothing
  <2>1. /\ last.stage \in Stages /\ last.status \in Statuses /\ Stream!Reports(last.stage, last.status)
        /\ UNCHANGED <<plans, queue, running, unseen, setBack, phase>> /\ phase # "ENDED"
        /\ silent' = (sequence' = sequence)
    BY <1>2 DEF Stream!Heartbeat
  <2>2. shown[last.stage] = last.status
    BY <1>2, <2>1 DEF RepeatsWhatIsShown
  <2>3. /\ declared' = declared /\ (suppressed => suppressed')
        /\ shown' = shown
    <3>1. CASE last.stage \in declared /\ sequence < Budget
      BY <2>1, <2>2, <3>1 DEF Stream!Reports, Stream!Update
    <3>2. CASE ~(last.stage \in declared /\ sequence < Budget)
      BY <2>1, <3>2 DEF Stream!Reports, Stream!Update
    <3> QED BY <3>1, <3>2
  <2>4. Stream!SilentOnlyWhenSpent'
    <3>1. CASE last.stage \in declared /\ sequence < Budget
      <4>1. sequence' # sequence
        BY <2>1, <3>1 DEF Stream!Reports, Stream!Update
      <4> QED BY <2>1, <4>1 DEF Stream!SilentOnlyWhenSpent
    <3>2. CASE ~(last.stage \in declared /\ sequence < Budget)
      <4>1. sequence' = sequence /\ sequence >= Budget
        BY <1>2, <2>1, <3>2 DEF Stream!Reports, Stream!Update, RepeatsWhatIsPlanned, StreamBounds
      <4> QED BY <4>1 DEF Stream!SilentOnlyWhenSpent
    <3> QED BY <3>1, <3>2
  <2> QED BY <2>1, <2>3, <2>4, Reported DEF WorkIsShown, NobodyWorksUnplanned
<1> QED BY <1>1, <1>2

\* What is shown before the result is not about an agent.
LEMMA ClosingStages ==
    ASSUME StreamBounds, NEW completed \in BOOLEAN, NEW n \in 1 .. Len(Stream!Closing(completed))
    PROVE  /\ Stream!Closing(completed)[n].stage \in Stream!Backbone
           /\ Stream!Closing(completed)[n].status \in Statuses
BY DEF Stream!Closing, Stream!Backbone, Statuses
LEMMA ClosingLength ==
    ASSUME NEW completed \in BOOLEAN
    PROVE  Len(Stream!Closing(completed)) \in {3, 4}
BY DEF Stream!Closing

LEMMA MaxOfFew ==
    ASSUME NEW S \in SUBSET (0 .. 4), 0 \in S
    PROVE  Stream!Max(S) \in S
<1>1. \E x \in S : \A y \in S : x >= y
  OBVIOUS
<1> QED BY <1>1 DEF Stream!Max

\* The result goes out as the last event.
LEMMA FinishKeeps ==
    ASSUME StreamBounds, StreamInv, Stream!Finish
    PROVE  StreamInv'
<1> USE DEF StreamInv, StreamType
<1>1. PICK completed \in BOOLEAN :
        LET closing == Stream!Closing(completed)
            sent == Stream!Max({0} \cup {n \in 1..Len(closing) : sequence + n <= Budget})
            Of(s) == {n \in 1..sent : closing[n].stage = s}
        IN  /\ sequence' = sequence + sent + 1
            /\ shown' = [s \in DOMAIN shown |->
                           IF Of(s) = {} THEN shown[s] ELSE closing[Stream!Max(Of(s))].status]
            /\ suppressed' = (suppressed \/ sent < Len(closing))
  BY DEF Stream!Finish
<1> DEFINE closing == Stream!Closing(completed)
           fitting == {n \in 1..Len(closing) : sequence + n <= Budget}
           sent == Stream!Max({0} \cup fitting)
           Of(s) == {n \in 1..sent : closing[n].stage = s}
<1>2. /\ sequence' = sequence + sent + 1
      /\ shown' = [s \in DOMAIN shown |->
                     IF Of(s) = {} THEN shown[s] ELSE closing[Stream!Max(Of(s))].status]
      /\ suppressed' = (suppressed \/ sent < Len(closing))
  BY <1>1
<1> HIDE DEF closing
<1>3. Len(closing) \in {3, 4} /\ \A n \in 1 .. Len(closing) : closing[n].stage \in Stream!Backbone /\ closing[n].status \in Statuses
  BY ClosingLength, ClosingStages DEF closing
<1>4. sent \in {0} \cup fitting
  <2>1. {0} \cup fitting \in SUBSET (0 .. 4)
    BY <1>3
  <2> HIDE DEF fitting
  <2> QED BY <2>1, MaxOfFew
<1> HIDE DEF sent
<1>5. sent \in 0 .. Len(closing) /\ (sent = 0 \/ sequence + sent <= Budget)
  BY <1>3, <1>4
<1>6. ASSUME NEW s \in Stages
      PROVE  shown'[s] \in Statuses /\ (s \in StreamAgents => shown'[s] = shown[s])
  <2>1. CASE Of(s) = {}
    BY <1>2, <1>6, <2>1
  <2>2. CASE Of(s) # {}
    <3>1. Of(s) \cup {0} \in SUBSET (0 .. 4)
      BY <1>3, <1>5
    <3>2. Stream!Max(Of(s)) \in Of(s)
      <4>1. \E x \in Of(s) : \A y \in Of(s) : x >= y
        BY <2>2, <3>1
      <4> QED BY <4>1 DEF Stream!Max
    <3>3. s \in Stream!Backbone /\ closing[Stream!Max(Of(s))].status \in Statuses
      BY <1>3, <1>5, <3>2
    <3> QED BY <1>2, <1>6, <2>2, <3>3 DEF StreamBounds
  <2> QED BY <2>1, <2>2
<1>7. /\ phase' = "ENDED" /\ silent' = FALSE /\ phase = "DONE"
      /\ UNCHANGED <<declared, last, plans, queue, running, unseen, setBack>>
  BY DEF Stream!Finish
<1>8. sequence' \in Nat /\ EventsFit'
  BY <1>2, <1>3, <1>5, <1>7 DEF EventsFit, StreamBounds
<1>9. shown' \in [Stages -> Statuses]
  BY <1>2, <1>6
<1>10. suppressed' \in BOOLEAN /\ (suppressed => suppressed')
  BY <1>2
<1>11. StreamType'
  BY <1>7, <1>8, <1>9, <1>10
<1>12. WorkIsShown'
  BY <1>6, <1>7, <1>10 DEF WorkIsShown, Stages
<1>13. RepeatsWhatIsPlanned'
  BY <1>2, <1>3, <1>5, <1>7 DEF RepeatsWhatIsPlanned, StreamBounds
<1> QED BY <1>7, <1>8, <1>11, <1>12, <1>13
        DEF RepeatsWhatIsShown, NobodyWorksUnplanned, Stream!SilentOnlyWhenSpent

LEMMA StreamGoesOn ==
    ASSUME StreamBounds, StreamInv, [Stream!StreamNext]_Stream!streamVars
    PROVE  StreamInv'
<1> USE DEF StreamInv, StreamType
<1>1. CASE Stream!TurnOver
  <2>1. UNCHANGED <<sequence, declared, shown, last, suppressed, plans, queue, running, unseen, setBack>>
        /\ phase' \in {"PLANNING", "DONE"} /\ phase # "ENDED" /\ running = {} /\ silent' = FALSE
    BY <1>1 DEF Stream!TurnOver
  <2> QED BY <2>1 DEF EventsFit, RepeatsWhatIsPlanned, RepeatsWhatIsShown, WorkIsShown,
              NobodyWorksUnplanned, Stream!SilentOnlyWhenSpent
<1>2. CASE Stream!Break
  <2>1. UNCHANGED <<declared, shown, last, suppressed, plans, queue, running, unseen, setBack>>
        /\ sequence' = sequence + 1 /\ phase' = "ENDED" /\ phase # "ENDED" /\ silent' = FALSE
    BY <1>2 DEF Stream!Break
  <2>2. sequence' \in Nat /\ EventsFit' /\ RepeatsWhatIsPlanned'
    BY <2>1 DEF EventsFit, RepeatsWhatIsPlanned, StreamBounds
  <2> QED BY <2>1, <2>2 DEF RepeatsWhatIsShown, WorkIsShown, NobodyWorksUnplanned, Stream!SilentOnlyWhenSpent
<1>3. CASE UNCHANGED Stream!streamVars
  BY <1>3 DEF Stream!streamVars, EventsFit, RepeatsWhatIsPlanned, RepeatsWhatIsShown, WorkIsShown,
              NobodyWorksUnplanned, Stream!SilentOnlyWhenSpent
<1> QED BY <1>1, <1>2, <1>3, EngineReports, DispatchKeeps, HeartbeatKeeps, FinishKeeps DEF Stream!StreamNext

-----------------------------------------------------------------------------
(* The properties *)

LEMMA StreamPromises ==
    ASSUME StreamBounds, StreamInv
    PROVE  Stream!SilentOnlyWhenSpent /\ Stream!EventsAreBounded /\ Stream!WorkIsTold
<1>1. Stream!EventsAreBounded
  BY DEF StreamInv, StreamType, EventsFit, Stream!EventsAreBounded, StreamBounds
<1> QED BY <1>1 DEF StreamInv, StreamType, WorkIsShown, Stream!WorkIsTold

StreamPartInv == part = "stream" => StreamInv

\* Whatever the engine does: a wait without a sign of life is due to the spent budget,
\* the events are bounded, and the screen tells who is at work, an agent that the
\* engine set back after it had ended apart (stream.py, heartbeat, _EVENT_BUDGET and
\* from_trace).
THEOREM StreamsAreAliveAndBounded == AssistantSpec => []EachStreamIsAliveAndBounded
<1>1. AssistantInit => StreamPartInv
  BY StreamFits, StreamBegins DEF AssistantInit, StreamPartInv
<1>2. StreamPartInv /\ [AssistantNext]_allVars => StreamPartInv'
  <2> SUFFICES ASSUME StreamPartInv, [AssistantNext]_allVars, part' = "stream"
               PROVE  StreamInv'
    BY DEF StreamPartInv
  <2>1. part = "stream" /\ (Stream!StreamNext \/ UNCHANGED streamVars)
    BY DEF AssistantNext, allVars
  <2>2. StreamInv /\ [Stream!StreamNext]_Stream!streamVars
    BY <2>1 DEF StreamPartInv, streamVars, Stream!streamVars
  <2> QED BY <2>2, StreamFits, StreamGoesOn
<1>3. StreamPartInv => EachStreamIsAliveAndBounded
  BY StreamFits, StreamPromises DEF StreamPartInv, EachStreamIsAliveAndBounded
<1> QED BY <1>1, <1>2, <1>3, PTL DEF AssistantSpec

-----------------------------------------------------------------------------
(* The questions of the bridge *)

AnsweredKeys == {a.key : a \in Bridge!ToSet(answers)}

BridgeInv ==
    /\ answers \in Seq(Bridge!ToSet(answers)) /\ IsFiniteSet(asked)
    /\ status \in {"RUNNING", "WAITING", "COMPLETED", "FAILED"}
    \* every question was answered but the one that waits
    /\ asked = AnsweredKeys \cup (IF status = "WAITING" THEN {question.key} ELSE {})
    /\ status # "FAILED" => reason # "REPEATED"
    /\ known \in BOOLEAN
    /\ Bridge!RepeatedOnlyWhenUnheard /\ Bridge!MixedPostingIsSettledByTheUser

LEMMA ElementsOfFew ==
    /\ <<>> \in Seq(Bridge!ToSet(<<>>)) /\ Bridge!ToSet(<<>>) = {}
    /\ \A e : <<e>> \in Seq(Bridge!ToSet(<<e>>)) /\ Bridge!ToSet(<<e>>) = {e}
<1>1. ASSUME NEW e
      PROVE  <<e>> \in Seq(Bridge!ToSet(<<e>>)) /\ Bridge!ToSet(<<e>>) = {e}
  <2>1. DOMAIN <<e>> = {1} /\ <<e>>[1] = e
    OBVIOUS
  <2>2. Bridge!ToSet(<<e>>) = {e}
    BY <2>1 DEF Bridge!ToSet
  <2> QED BY <2>2
<1> QED BY <1>1 DEF Bridge!ToSet

LEMMA ElementsOfAppend ==
    ASSUME NEW s, NEW e, s \in Seq(Bridge!ToSet(s))
    PROVE  /\ Bridge!ToSet(Append(s, e)) = Bridge!ToSet(s) \cup {e}
           /\ Append(s, e) \in Seq(Bridge!ToSet(Append(s, e)))
<1> DEFINE S == Bridge!ToSet(s) \cup {e}
<1>1. s \in Seq(S) /\ e \in S
  OBVIOUS
<1>2. Bridge!ToSet(Append(s, e)) = S
  BY <1>1 DEF Bridge!ToSet
<1>3. Append(s, e) \in Seq(S)
  BY <1>1
<1> QED BY <1>2, <1>3

LEMMA BridgeCounts ==
    ASSUME NEW S, IsFiniteSet(S)
    PROVE  Bridge!Cardinality(S) \in Nat
<1>1. Bridge!Cardinality(S) = Cardinality(S)
  BY DEF Bridge!Cardinality, Cardinality, Bridge!IsFiniteSet, IsFiniteSet
<1> QED BY <1>1, FS_CardinalityType

LEMMA BridgeBegins ==
    ASSUME Bridge!BridgeInit
    PROVE  BridgeInv
<1>1. IsFiniteSet({}) /\ IsFiniteSet({Bridge!DeniedBefore.key})
  BY FS_EmptySet, FS_Singleton
<1>2. answers \in Seq(Bridge!ToSet(answers)) /\ Bridge!ToSet(answers) \in {{}, {Bridge!DeniedBefore}}
  BY ElementsOfFew DEF Bridge!BridgeInit
<1>3. asked = AnsweredKeys
  BY DEF Bridge!BridgeInit, AnsweredKeys
<1>4. AnsweredKeys \in {{}, {Bridge!DeniedBefore.key}}
  BY <1>2 DEF AnsweredKeys
<1> QED BY <1>1, <1>2, <1>3, <1>4
        DEF BridgeInv, Bridge!BridgeInit, Bridge!RepeatedOnlyWhenUnheard,
            Bridge!MixedPostingIsSettledByTheUser, Bridge!Unknown

LEMMA FailureKeeps ==
    ASSUME BridgeInv, status = "RUNNING", NEW why, why # "REPEATED", Bridge!Fails(why),
           UNCHANGED <<posting, answers>>, known' \in BOOLEAN
    PROVE  BridgeInv'
BY DEF BridgeInv, AnsweredKeys, Bridge!Fails, Bridge!RepeatedOnlyWhenUnheard,
       Bridge!MixedPostingIsSettledByTheUser

\* What is asked again was answered before, and not understood.
LEMMA AskingKeeps ==
    ASSUME BridgeInv, status = "RUNNING", NEW q, Bridge!Asks(q), UNCHANGED <<posting, answers>>, known' \in BOOLEAN,
           q.key = "target_track" => Bridge!Selected(answers) = Bridge!Unknown,
           q.key # "target_track" => q.key \notin asked
    PROVE  BridgeInv'
<1>1. CASE Bridge!Fails("REPEATED") /\ q.key \in asked
  <2>1. q.key = "target_track" /\ Bridge!Selected(answers) = Bridge!Unknown
    BY <1>1
  <2>2. \E a \in Bridge!ToSet(answers) : a.key = "target_track"
    BY <1>1, <2>1 DEF BridgeInv, AnsweredKeys
  <2>3. Bridge!RepeatedOnlyWhenUnheard'
    BY <2>1, <2>2 DEF Bridge!RepeatedOnlyWhenUnheard, Bridge!Selected
  <2> QED BY <1>1, <2>3 DEF BridgeInv, AnsweredKeys, Bridge!Fails, Bridge!MixedPostingIsSettledByTheUser
<1>2. CASE Bridge!Fails("QUESTION_LIMIT") \/ Bridge!Fails("COLLAPSED")
  <2>1. "QUESTION_LIMIT" # "REPEATED" /\ "COLLAPSED" # "REPEATED"
    OBVIOUS
  <2> QED BY <1>2, <2>1, FailureKeeps
<1>3. CASE /\ status' = "WAITING" /\ question' = q /\ asked' = asked \cup {q.key}
           /\ UNCHANGED <<reason, path>>
  <2>1. IsFiniteSet(asked')
    BY <1>3, FS_AddElement DEF BridgeInv
  <2> QED BY <1>3, <2>1 DEF BridgeInv, AnsweredKeys, Bridge!RepeatedOnlyWhenUnheard,
            Bridge!MixedPostingIsSettledByTheUser
<1> QED BY <1>1, <1>2, <1>3 DEF Bridge!Asks

LEMMA FiniteInterval == ASSUME NEW n \in Nat PROVE IsFiniteSet(1 .. n)
BY FS_Interval

LEMMA OptionsAreFinite == IsFiniteSet(DOMAIN Bridge!OptionValue)
<1> DEFINE names == <<"WEB_BACKEND", "WEB_FRONTEND", "WEB_FULLSTACK", "GAME_CLIENT", "UNITY_CLIENT",
       "UNREAL_CLIENT", "GAME_SERVER", "GAME_PLATFORM_BACKEND", "MOBILE_APP", "DATA_ENGINEER",
       "DATA_SCIENTIST", "DATA_ANALYST", "ML_ENGINEER", "DEVOPS_ENGINEER", "SRE", "CLOUD_ENGINEER",
       "SECURITY_ENGINEER", "QA_AUTOMATION", "EMBEDDED_SOFTWARE">>
           f == [i \in 1 .. 19 |-> names[i]]
           T == DOMAIN Bridge!OptionValue
<1>1. T = {names[i] : i \in 1 .. 19}
  BY DEF Bridge!OptionValue
<1> HIDE DEF names, T
<1>2. IsFiniteSet(1 .. 19)
  BY FiniteInterval
<1>3. f \in Surjection(1 .. 19, T)
  BY <1>1 DEF Surjection
<1> HIDE DEF f
<1>4. IsFiniteSet(T)
  BY <1>2, <1>3, FS_Surjection
<1> QED BY <1>4 DEF T

LEMMA OptionsAreCounted ==
    ASSUME NEW candidates
    PROVE  Bridge!Cardinality(Bridge!Offered(candidates)) \in Nat
<1>1. Bridge!Offered(candidates) \subseteq DOMAIN Bridge!OptionValue
  BY DEF Bridge!Offered
<1>2. IsFiniteSet(Bridge!Offered(candidates))
  BY <1>1, OptionsAreFinite, FS_Subset
<1> QED BY <1>2, BridgeCounts

\* With a posting that was read and nothing to ask about the path, a posting for
\* several paths has its answer or the questions are used up.
LEMMA SettledBeforeTheEnd ==
    ASSUME BridgeBounds, BridgeInv, Bridge!RoleQuestion(TRUE) = Bridge!NoQuestion,
           Bridge!Material(Bridge!Candidates(Bridge!Seen(TRUE))),
           Bridge!Cardinality(Bridge!Offered(Bridge!Candidates(Bridge!Seen(TRUE)))) >= 2
    PROVE  \/ Bridge!Selected(answers) # Bridge!Unknown
           \/ Bridge!Cardinality(asked) >= MaxQuestions
<1> SUFFICES ASSUME Bridge!Cardinality(asked) < MaxQuestions,
                    Bridge!Selected(answers) = Bridge!Unknown
             PROVE  FALSE
  BY BridgeCounts DEF BridgeBounds, BridgeInv
<1> DEFINE options == Bridge!Offered(Bridge!Candidates(Bridge!Seen(TRUE)))
<1>1. ~ (Bridge!Cardinality(options) < 2)
  <2>1. Bridge!Cardinality(options) \in Nat
    BY OptionsAreCounted
  <2>2. Bridge!Cardinality(options) >= 2
    OBVIOUS
  <2> HIDE DEF options
  <2> QED BY <2>1, <2>2
<1>2. Bridge!Question(Bridge!Seen(TRUE), Bridge!Unknown) = Bridge!NoQuestion
  BY DEF Bridge!RoleQuestion
<1>3. Bridge!NoQuestion.kind = "none"
  BY DEF Bridge!NoQuestion, Bridge!Unknown
<1>4. Bridge!Question(Bridge!Seen(TRUE), Bridge!Unknown).kind \in {"TEXT", "CHOICE"}
  BY <1>1 DEF Bridge!Question
<1> QED BY <1>2, <1>3, <1>4

LEMMA CompletionKeeps ==
    ASSUME BridgeBounds, BridgeInv, status = "RUNNING", Bridge!RoleQuestion(TRUE) = Bridge!NoQuestion,
           NEW built \in BOOLEAN, Bridge!Completes(TRUE, built), UNCHANGED <<posting, answers>>, known' \in BOOLEAN
    PROVE  BridgeInv'
<1> DEFINE resolved == Bridge!Resolve(Bridge!Seen(TRUE), Bridge!Selected(answers))
<1>1. CASE Bridge!Fails("ROLE_RESOLUTION_REQUIRED") \/ Bridge!Fails("AI_PROVIDER_UNAVAILABLE")
  <2>1. "ROLE_RESOLUTION_REQUIRED" # "REPEATED" /\ "AI_PROVIDER_UNAVAILABLE" # "REPEATED"
    OBVIOUS
  <2> QED BY <1>1, <2>1, FailureKeeps
<1>2. CASE status' = "COMPLETED" /\ path' = resolved /\ UNCHANGED <<reason, question, asked>>
  <2>1. Bridge!Selected(answers) # Bridge!Unknown => resolved = Bridge!Selected(answers)
    BY DEF Bridge!Resolve
  <2>2. Bridge!Selected(answers)' = Bridge!Selected(answers) /\ Bridge!Seen(TRUE)' = Bridge!Seen(TRUE)
    BY DEF Bridge!Selected, Bridge!Seen
  <2>3. Bridge!MixedPostingIsSettledByTheUser'
    BY <1>2, <2>1, <2>2, SettledBeforeTheEnd DEF Bridge!MixedPostingIsSettledByTheUser
  <2> QED BY <1>2, <2>3 DEF BridgeInv, AnsweredKeys, Bridge!RepeatedOnlyWhenUnheard
<1> QED BY <1>1, <1>2 DEF Bridge!Completes

\* What the engine asks for with a choice was not answered yet.
LEMMA WishesKeep ==
    ASSUME BridgeInv, status = "RUNNING", NEW wishes \in Bridge!SeqOf({"document", "choice", "fact"}, 2),
           NEW reads \in BOOLEAN, Bridge!Continues(reads, wishes), UNCHANGED <<posting, answers>>, known' \in BOOLEAN
    PROVE  BridgeInv'
<1> DEFINE open == Bridge!Unanswered(wishes)
<1>1. CASE Bridge!Fails("ANALYSIS_CONVERGENCE_FAILED") \/ Bridge!Fails("DOCUMENT_REQUIRED")
  <2>1. "ANALYSIS_CONVERGENCE_FAILED" # "REPEATED" /\ "DOCUMENT_REQUIRED" # "REPEATED"
    OBVIOUS
  <2> QED BY <1>1, <2>1, FailureKeeps
<1>2. CASE UNCHANGED <<status, reason, question, asked, path>>
  BY <1>2 DEF BridgeInv, AnsweredKeys, Bridge!RepeatedOnlyWhenUnheard, Bridge!MixedPostingIsSettledByTheUser
<1>3. CASE /\ open # {} /\ wishes[Bridge!Min(open)] # "document"
           /\ Bridge!Asks([key |-> "choice", kind |-> "CHOICE", options |-> {}])
  <2>1. open \in SUBSET (1 .. 2)
    BY DEF Bridge!Unanswered, Bridge!SeqOf
  <2>2. \E i \in open : \A j \in open : i <= j
    BY <1>3, <2>1
  <2>3. Bridge!Min(open) \in open
    BY <2>2 DEF Bridge!Min
  <2>4. ~ \E a \in Bridge!ToSet(answers) : a.key = "choice"
    BY <1>3, <2>3 DEF Bridge!Unanswered
  <2>5. "choice" \notin asked
    BY <2>4 DEF BridgeInv, AnsweredKeys
  <2> DEFINE q == [key |-> "choice", kind |-> "CHOICE", options |-> {}]
  <2>6. q.key = "choice" /\ Bridge!Asks(q)
    BY <1>3
  <2> HIDE DEF q
  <2> QED BY <2>5, <2>6, AskingKeeps
<1> QED BY <1>1, <1>2, <1>3 DEF Bridge!Continues

\* The question about the path is asked of those who did not choose yet.
LEMMA RoleQuestionKeeps ==
    ASSUME BridgeInv, status = "RUNNING", NEW reads \in BOOLEAN,
           Bridge!RoleQuestion(reads) # Bridge!NoQuestion, UNCHANGED <<posting, answers>>, known' \in BOOLEAN,
           Bridge!Asks([key |-> "target_track", kind |-> Bridge!RoleQuestion(reads).kind,
                        options |-> Bridge!RoleQuestion(reads).options])
    PROVE  BridgeInv'
<1> DEFINE q == [key |-> "target_track", kind |-> Bridge!RoleQuestion(reads).kind,
                 options |-> Bridge!RoleQuestion(reads).options]
<1>1. Bridge!Selected(answers) = Bridge!Unknown
  BY DEF Bridge!RoleQuestion, Bridge!Question
<1>2. q.key = "target_track" /\ Bridge!Asks(q)
  OBVIOUS
<1> HIDE DEF q
<1> QED BY <1>1, <1>2, AskingKeeps

LEMMA TurnKeeps ==
    ASSUME BridgeBounds, BridgeInv, Bridge!Turn
    PROVE  BridgeInv'
<1>1. PICK verdict, assembled, built \in BOOLEAN,
           wishes \in Bridge!SeqOf({"document", "choice", "fact"}, 2) :
        /\ verdict => known'
        /\ IF Bridge!RoleQuestion(known') # Bridge!NoQuestion
           THEN Bridge!Asks([key |-> "target_track", kind |-> Bridge!RoleQuestion(known').kind,
                             options |-> Bridge!RoleQuestion(known').options])
           ELSE IF verdict THEN Bridge!Completes(known', built)
           ELSE IF Bridge!NothingMoreToAsk THEN Bridge!Finalizes(known', assembled, built)
           ELSE IF wishes = <<>> THEN Bridge!Fails("AI_PROVIDER_UNAVAILABLE")
           ELSE Bridge!Continues(known', wishes)
  BY DEF Bridge!Turn
<1>2. /\ status = "RUNNING" /\ UNCHANGED <<posting, answers>> /\ known' \in BOOLEAN
  BY DEF Bridge!Turn, BridgeInv
<1>3. CASE Bridge!RoleQuestion(known') # Bridge!NoQuestion
  <2> DEFINE reads == known'
  <2>1. /\ reads \in BOOLEAN /\ Bridge!RoleQuestion(reads) # Bridge!NoQuestion
        /\ Bridge!Asks([key |-> "target_track", kind |-> Bridge!RoleQuestion(reads).kind,
                        options |-> Bridge!RoleQuestion(reads).options])
    BY <1>1, <1>2, <1>3
  <2> HIDE DEF reads
  <2> QED BY <1>2, <2>1, RoleQuestionKeeps
<1>4. ASSUME Bridge!Completes(known', built), known', Bridge!RoleQuestion(known') = Bridge!NoQuestion
      PROVE  BridgeInv'
  <2>1. known' = TRUE
    BY <1>2, <1>4
  <2>2. Bridge!Completes(TRUE, built) /\ Bridge!RoleQuestion(TRUE) = Bridge!NoQuestion
    BY <1>4, <2>1
  <2> QED BY <1>2, <2>2, CompletionKeeps
<1>5. CASE Bridge!Finalizes(known', assembled, built) /\ Bridge!RoleQuestion(known') = Bridge!NoQuestion
  <2>1. "ANALYSIS_CONVERGENCE_FAILED" # "REPEATED"
    OBVIOUS
  <2>2. \/ Bridge!Fails("ANALYSIS_CONVERGENCE_FAILED")
        \/ Bridge!Completes(known', built) /\ known'
    BY <1>5 DEF Bridge!Finalizes
  <2> QED BY <1>2, <1>4, <1>5, <2>1, <2>2, FailureKeeps
<1>6. CASE Bridge!Fails("AI_PROVIDER_UNAVAILABLE")
  <2>1. "AI_PROVIDER_UNAVAILABLE" # "REPEATED"
    OBVIOUS
  <2> QED BY <1>2, <1>6, <2>1, FailureKeeps
<1>7. CASE Bridge!Continues(known', wishes)
  <2> DEFINE reads == known'
  <2>1. reads \in BOOLEAN /\ Bridge!Continues(reads, wishes)
    BY <1>2, <1>7
  <2> HIDE DEF reads
  <2> QED BY <1>2, <2>1, WishesKeep
<1> QED BY <1>1, <1>3, <1>4, <1>5, <1>6, <1>7

LEMMA AnswerKeeps ==
    ASSUME BridgeInv, Bridge!Answer
    PROVE  BridgeInv'
<1>1. PICK given : answers' = Append(answers, given) /\ given.key = question.key
  BY DEF Bridge!Answer
<1>2. /\ status = "WAITING" /\ status' = "RUNNING" /\ known' = FALSE
      /\ UNCHANGED <<posting, reason, asked, path>>
  BY DEF Bridge!Answer
<1>3. Bridge!ToSet(answers') = Bridge!ToSet(answers) \cup {given} /\ answers' \in Seq(Bridge!ToSet(answers'))
  BY <1>1, ElementsOfAppend DEF BridgeInv
<1>4. asked' = AnsweredKeys'
  BY <1>1, <1>2, <1>3 DEF BridgeInv, AnsweredKeys
<1> QED BY <1>2, <1>3, <1>4 DEF BridgeInv, Bridge!RepeatedOnlyWhenUnheard, Bridge!MixedPostingIsSettledByTheUser

LEMMA BridgeGoesOn ==
    ASSUME BridgeBounds, BridgeInv, [Bridge!BridgeNext]_bridgeVars
    PROVE  BridgeInv'
<1>1. CASE Bridge!AskFirst
  <2>1. /\ status = "RUNNING" /\ Bridge!RoleQuestion(FALSE) # Bridge!NoQuestion
        /\ UNCHANGED <<posting, answers, known>>
        /\ Bridge!Asks([key |-> "target_track", kind |-> Bridge!RoleQuestion(FALSE).kind,
                        options |-> Bridge!RoleQuestion(FALSE).options])
    BY <1>1 DEF Bridge!AskFirst
  <2>2. known' \in BOOLEAN
    BY <2>1 DEF BridgeInv
  <2> QED BY <2>1, <2>2, RoleQuestionKeeps
<1>2. CASE Bridge!CannotRun
  <2>1. PICK why \in {"AI_PROVIDER_NOT_CONFIGURED", "AI_TIMEOUT"} : Bridge!Fails(why)
    BY <1>2 DEF Bridge!CannotRun
  <2>2. why # "REPEATED"
    OBVIOUS
  <2>3. status = "RUNNING" /\ UNCHANGED <<posting, answers>> /\ known' \in BOOLEAN
    BY <1>2 DEF Bridge!CannotRun, BridgeInv
  <2> QED BY <2>1, <2>2, <2>3, FailureKeeps
<1>3. CASE UNCHANGED bridgeVars
  BY <1>3 DEF bridgeVars, BridgeInv, AnsweredKeys, Bridge!RepeatedOnlyWhenUnheard,
              Bridge!MixedPostingIsSettledByTheUser, Bridge!Seen
<1> QED BY <1>1, <1>2, <1>3, TurnKeeps, AnswerKeeps DEF Bridge!BridgeNext

BridgePartInv == part = "bridge" => BridgeInv

\* Whatever the posting says and the engine wants to know: a posting for several paths is
\* settled by the user as long as a question is left, and the analysis ends over a repeated
\* question only when the answer to it was not understood (v2bridge/service.py, analyze;
\* role_catalog.py, selected_role).
THEOREM PathsAreSettled == AssistantSpec => []EachPathIsSettledByTheUser
<1>1. AssistantInit => BridgePartInv
  BY BridgeBegins DEF AssistantInit, BridgePartInv
<1>2. BridgePartInv /\ [AssistantNext]_allVars => BridgePartInv'
  <2> SUFFICES ASSUME BridgePartInv, [AssistantNext]_allVars, part' = "bridge"
               PROVE  BridgeInv'
    BY DEF BridgePartInv
  <2>1. part = "bridge" /\ [Bridge!BridgeNext]_bridgeVars
    BY DEF AssistantNext, allVars
  <2> QED BY <2>1, BridgeFits, BridgeGoesOn DEF BridgePartInv
<1>3. BridgePartInv => EachPathIsSettledByTheUser
  BY DEF BridgePartInv, BridgeInv, EachPathIsSettledByTheUser
<1> QED BY <1>1, <1>2, <1>3, PTL DEF AssistantSpec

-----------------------------------------------------------------------------
(* The turns of a conversation *)

\* The key is written with the analysis it tells of, and not changed without it
Keyed(u) ==
    /\ "key" \in DOMAIN u => "analysis" \in DOMAIN u
    /\ ("analysis" \in DOMAIN u /\ u.analysis.keyed) =>
         /\ "key" \in DOMAIN u
         /\ u.analysis.posting = u.key.posting.id
         /\ u.analysis.resume = u.key.resume

LEMMA NothingIsKeyed == DOMAIN <<>> = {} /\ Keyed(<<>>)
BY DEF Keyed

\* Updates that keep the key and the analysis together may be laid over one another
LEMMA KeyedOverKeyed ==
    ASSUME NEW u, NEW s, NEW w, Keyed(u), Keyed(s),
           DOMAIN w = DOMAIN u \cup DOMAIN s,
           \A f \in DOMAIN u : w[f] = u[f],
           \A f \in DOMAIN s \ DOMAIN u : w[f] = s[f]
    PROVE  Keyed(w)
<1>1. CASE "analysis" \in DOMAIN u
  <2>1. "analysis" \in DOMAIN w /\ w.analysis = u.analysis
    BY <1>1
  <2>2. "key" \in DOMAIN u => "key" \in DOMAIN w /\ w.key = u.key
    OBVIOUS
  <2> QED BY <1>1, <2>1, <2>2 DEF Keyed
<1>2. CASE "analysis" \notin DOMAIN u
  <2>1. "key" \notin DOMAIN u
    BY <1>2 DEF Keyed
  <2>2. "analysis" \in DOMAIN w => "analysis" \in DOMAIN s /\ w.analysis = s.analysis
    BY <1>2
  <2>3. /\ "key" \in DOMAIN w <=> "key" \in DOMAIN s
        /\ "key" \in DOMAIN s => w.key = s.key
        /\ "analysis" \in DOMAIN s => "analysis" \in DOMAIN w
    BY <2>1
  <2> QED BY <2>2, <2>3 DEF Keyed
<1> QED BY <1>1, <1>2

LEMMA OntoKeyed ==
    ASSUME NEW u, NEW s, Keyed(u), Keyed(s)
    PROVE  Keyed(Onto(u, s))
<1>1. PICK w : w = Onto(u, s)
  OBVIOUS
<1>2. /\ DOMAIN w = DOMAIN u \cup DOMAIN s
      /\ \A f \in DOMAIN u : w[f] = u[f]
      /\ \A f \in DOMAIN s \ DOMAIN u : w[f] = s[f]
  BY <1>1 DEF Onto
<1>3. Keyed(w)
  BY <1>2, KeyedOverKeyed
<1> QED BY <1>1, <1>3

-----------------------------------------------------------------------------
(* The last of those who write a field decides.  The greatest of a set of  *)
(* numbers up to k is there because the least of k - n is.                 *)

LEMMA LessIsWellFounded == IsWellFoundedOn({ss \in Nat \X Nat : ss[1] < ss[2]}, Nat)
BY NatLessThanWellFounded DEF OpToRel

LEMMA LeastNatural ==
    ASSUME NEW S \in SUBSET Nat, S # {}
    PROVE  \E n \in S : \A m \in S : n <= m
<1> DEFINE R == {ss \in Nat \X Nat : ss[1] < ss[2]}
<1>1. IsWellFoundedOn(R, Nat)
  BY LessIsWellFounded
<1>2. \A y, x \in Nat : <<y, x>> \notin R => x <= y
  <2>1. \A y, x \in Nat : y < x => <<y, x>> \in R
    BY SMT
  <2> HIDE DEF R
  <2> QED BY <2>1
<1> HIDE DEF R
<1>3. \E x \in S : \A y \in S : ~(<<y, x>> \in R)
  BY <1>1, WFMin
<1> QED BY <1>2, <1>3

\* What is the greatest of a set of numbers up to k
LEMMA GreatestNatural ==
    ASSUME NEW k \in Nat, NEW S \in SUBSET (0 .. k), S # {}
    PROVE  Max(S) \in S /\ \A n \in S : n <= Max(S)
<1> DEFINE T == {k - n : n \in S}
<1>1. T \in SUBSET Nat /\ T # {}
  <2>1. \A n \in S : k - n \in Nat
    OBVIOUS
  <2> QED BY <2>1
<1>2. PICK m \in T : \A n \in T : m <= n
  BY <1>1, LeastNatural
<1>3. PICK g \in S : m = k - g
  OBVIOUS
<1>4. \A n \in S : g >= n
  BY <1>2, <1>3
<1>5. \E x \in S : \A y \in S : x >= y
  BY <1>4
<1>6. Max(S) \in S /\ \A y \in S : Max(S) >= y
  BY <1>5 DEF Max
<1> QED BY <1>6

\* Who writes the key writes the analysis, so the last who does is the last of both or
\* is followed by a verdict without a key
LEMMA MergedKeyed ==
    ASSUME NEW k \in Nat, NEW batch, DOMAIN batch = 1 .. k, NEW update,
           \A a \in ToSet(batch) : Keyed(update[a])
    PROVE  Keyed(Merged(batch, update))
<1> DEFINE Writers(f) == {i \in DOMAIN batch : f \in DOMAIN update[batch[i]]}
           u == Merged(batch, update)
<1>1. \A i \in DOMAIN batch : batch[i] \in ToSet(batch) /\ Keyed(update[batch[i]])
  BY DEF ToSet
<1>2. \A f : f \in DOMAIN u <=> Writers(f) # {}
  BY DEF Merged, ToSet
<1>3. \A f : Writers(f) # {} => /\ Max(Writers(f)) \in Writers(f)
                                /\ \A i \in Writers(f) : i <= Max(Writers(f))
  <2> SUFFICES ASSUME NEW f, Writers(f) # {}
               PROVE  Max(Writers(f)) \in Writers(f) /\ \A i \in Writers(f) : i <= Max(Writers(f))
    OBVIOUS
  <2>1. Writers(f) \in SUBSET (0 .. k)
    OBVIOUS
  <2> HIDE DEF Writers
  <2> QED BY <2>1, GreatestNatural
<1>4. \A f \in DOMAIN u : u[f] = update[batch[Max(Writers(f))]][f]
  BY DEF Merged
<1> HIDE DEF u
<1>5. Writers("key") \subseteq Writers("analysis")
  BY <1>1 DEF Keyed
<1>6. "key" \in DOMAIN u => "analysis" \in DOMAIN u
  BY <1>2, <1>5
<1>7. ASSUME "analysis" \in DOMAIN u, u.analysis.keyed
      PROVE  /\ "key" \in DOMAIN u
             /\ u.analysis.posting = u.key.posting.id
             /\ u.analysis.resume = u.key.resume
  <2> DEFINE i == Max(Writers("analysis"))
  <2>1. Writers("analysis") # {}
    BY <1>2, <1>7
  <2>2. i \in Writers("analysis") /\ \A j \in Writers("analysis") : j <= i
    BY <1>3, <2>1
  <2>3. u.analysis = update[batch[i]].analysis
    BY <1>4, <1>7
  <2>4. i \in Writers("key") /\ Keyed(update[batch[i]])
    BY <1>1, <1>7, <2>2, <2>3 DEF Keyed
  <2>5. /\ Max(Writers("key")) \in Writers("key") /\ i <= Max(Writers("key"))
    BY <1>3, <2>4
  <2>6. Max(Writers("key")) = i
    <3>1. Max(Writers("key")) \in Writers("analysis")
      BY <2>5, <1>5
    <3>2. Max(Writers("key")) <= i /\ i \in Nat /\ Max(Writers("key")) \in Nat
      BY <2>2, <3>1
    <3> QED BY <2>5, <3>2
  <2>7. "key" \in DOMAIN u /\ u.key = update[batch[i]].key
    BY <1>2, <1>4, <2>4, <2>6
  <2> QED BY <1>7, <2>3, <2>4, <2>7, <2>2 DEF Keyed
<1>8. Keyed(u)
  BY <1>6, <1>7 DEF Keyed
<1> QED BY <1>8 DEF u

-----------------------------------------------------------------------------
(* What the agents leave *)

KeyedOutcome(o) ==
    /\ {"staged", "hidden", "updates", "data"} \subseteq DOMAIN o
    /\ Keyed(o.staged) /\ Keyed(o.hidden) /\ Keyed(o.updates)

LEMMA OutcomeKeyed ==
    ASSUME NEW staged, NEW updates, NEW data, Keyed(staged), Keyed(updates)
    PROVE  KeyedOutcome(Outcome(staged, updates, data))
BY NothingIsKeyed DEF Outcome, KeyedOutcome

LEMMA OneFieldIsKeyed ==
    /\ \A x : /\ Keyed([posting |-> x]) /\ Keyed([resume |-> x])
              /\ Keyed([resumes |-> x]) /\ Keyed([postings |-> x])
              /\ Keyed([consent |-> x]) /\ Keyed([request |-> x]) /\ Keyed([askedFor |-> x])
              /\ Keyed([recommendations |-> x]) /\ Keyed([preferences |-> x])
              /\ Keyed([coverletter |-> x]) /\ Keyed([interview |-> x])
    /\ Keyed(Discarded)
BY DEF Keyed, Discarded, NoAnalysis

LEMMA CollectedKeyed ==
    ASSUME NEW s, NEW c \in Collected(s)
    PROVE  Keyed(c)
BY NothingIsKeyed, OneFieldIsKeyed DEF Collected

LEMMA ProfiledKeyed ==
    ASSUME NEW s
    PROVE  Keyed(Profiled(s))
BY NothingIsKeyed, OneFieldIsKeyed DEF Profiled

LEMMA SwitchKeyed ==
    ASSUME NEW s, NEW r
    PROVE  Keyed(SwitchResume(s, r))
<1>1. Keyed(Onto([resume |-> r], Discarded))
  BY OneFieldIsKeyed, OntoKeyed
<1> QED BY <1>1, NothingIsKeyed DEF SwitchResume

LEMMA VerdictsKeyed ==
    ASSUME NEW s, NEW staged, NEW switched, Keyed(staged), Keyed(switched),
           NEW o \in Verdicts(s, staged, switched)
    PROVE  KeyedOutcome(o)
<1> DEFINE verdict == [analysis |-> [posting |-> s.posting.id, resume |-> s.resume, keyed |-> TRUE],
                       key |-> [posting |-> s.posting, resume |-> s.resume],
                       postings |-> s.postings \cup {s.posting.id}]
<1>1. Keyed(verdict)
  BY DEF Keyed
<1> HIDE DEF verdict
<1>2. Keyed(Onto(verdict, switched))
  BY <1>1, OntoKeyed
<1>3. PICK u \in {switched, Onto(verdict, switched)}, d \in {"done", "weak", "failed"} :
        o = Outcome(staged, u, d)
  BY DEF Verdicts, verdict
<1> QED BY <1>2, <1>3, OutcomeKeyed

LEMMA ComparisonKeyed ==
    ASSUME NEW s, NEW staged, NEW switched, NEW active, Keyed(staged), Keyed(switched),
           NEW o \in Comparison(s, staged, switched, active)
    PROVE  KeyedOutcome(o)
<1> DEFINE verdict == [analysis |-> [posting |-> s.posting.id, resume |-> s.resume, keyed |-> FALSE]]
<1>1. Keyed(verdict)
  BY DEF Keyed
<1> HIDE DEF verdict
<1>2. Keyed(Onto(verdict, switched))
  BY <1>1, OntoKeyed
<1>3. PICK u \in {switched, Onto(verdict, switched)} : o = Outcome(staged, u, "done")
  BY DEF Comparison, verdict
<1> QED BY <1>2, <1>3, OutcomeKeyed

KeyedTarget(target) == Keyed(target.updates) /\ Keyed(target.hidden)

LEMMA TargetedKeyed ==
    ASSUME NEW s, NEW p, NEW target \in Targeted(s, p)
    PROVE  KeyedTarget(target)
<1>1. target.updates \in {<<>>, [posting |-> [id |-> p, fetched |-> TRUE]]}
  BY DEF Targeted
<1>2. target.hidden \in {<<>>, [posting |-> [id |-> p, fetched |-> TRUE]]}
  BY DEF Targeted
<1> QED BY <1>1, <1>2, NothingIsKeyed, OneFieldIsKeyed DEF KeyedTarget

LEMMA NamedKeyed ==
    ASSUME NEW s, NEW staged, NEW target, NEW names, Keyed(staged), KeyedTarget(target),
           NEW o \in NamedResumes(s, staged, target, names)
    PROVE  KeyedOutcome(o)
<1> DEFINE at == Onto(target.updates, s)
           switched == Onto(SwitchResume(at, names[1]), target.updates)
           chosen == Onto(switched, at)
           active == at.resume \in ToSet(names) \cap at.resumes
<1>1. Keyed(target.updates)
  BY DEF KeyedTarget
<1> HIDE DEF at
<1>2. Keyed(switched)
  BY <1>1, SwitchKeyed, OntoKeyed
<1> HIDE DEF switched, chosen, active
<1>3. \/ o \in Verdicts(at, staged, target.updates)
      \/ o \in Verdicts(chosen, staged, switched)
      \/ o \in Comparison(at, staged, target.updates, active)
      \/ o = Outcome(staged, <<>>, "needs_input")
  BY DEF NamedResumes, at, switched, chosen, active
<1>4. CASE o \in Verdicts(at, staged, target.updates)
  BY <1>1, <1>4, VerdictsKeyed
<1>5. CASE o \in Verdicts(chosen, staged, switched)
  BY <1>2, <1>5, VerdictsKeyed
<1>6. CASE o \in Comparison(at, staged, target.updates, active)
  BY <1>1, <1>6, ComparisonKeyed
<1>7. CASE o = Outcome(staged, <<>>, "needs_input")
  BY <1>7, NothingIsKeyed, OutcomeKeyed
<1> QED BY <1>3, <1>4, <1>5, <1>6, <1>7

LEMMA FitKeyed ==
    ASSUME NEW s, NEW args, NEW o \in FitAnalysis(s, args)
    PROVE  KeyedOutcome(o)
<1>1. CASE Len(args.fit) >= 2
  <2>1. PICK c \in Collected(s), active \in BOOLEAN : o \in Comparison(Onto(c, s), c, <<>>, active)
    BY <1>1 DEF FitAnalysis
  <2> QED BY <2>1, CollectedKeyed, NothingIsKeyed, ComparisonKeyed
<1>2. CASE ~(Len(args.fit) >= 2)
  <2> DEFINE Targets(c) == IF args.fit = <<>> THEN {[updates |-> <<>>, hidden |-> <<>>, found |-> TRUE]}
                           ELSE Targeted(Onto(c, s), args.fit[1])
             Ends(c, target) ==
               IF target.found
               THEN {[e EXCEPT !.hidden = target.hidden] :
                       e \in NamedResumes(Onto(c, s), c, target, args.fitResume)}
               ELSE {Outcome(c, <<>>, "needs_input")}
  <2>1. PICK c \in Collected(s) : \E target \in Targets(c) : o \in Ends(c, target)
    BY <1>2 DEF FitAnalysis
  <2>2. PICK target \in Targets(c) : o \in Ends(c, target)
    BY <2>1
  <2>3. KeyedTarget(target)
    BY <2>2, TargetedKeyed, NothingIsKeyed DEF KeyedTarget
  <2>4. CASE target.found
    <3>1. PICK e \in NamedResumes(Onto(c, s), c, target, args.fitResume) :
            o = [e EXCEPT !.hidden = target.hidden]
      BY <2>2, <2>4
    <3>2. KeyedOutcome(e)
      BY <2>1, <2>3, <3>1, CollectedKeyed, NamedKeyed
    <3> QED BY <2>3, <3>1, <3>2 DEF KeyedOutcome, KeyedTarget
  <2>5. CASE ~target.found
    BY <2>1, <2>2, <2>5, CollectedKeyed, NothingIsKeyed, OutcomeKeyed
  <2> QED BY <2>4, <2>5
<1> QED BY <1>1, <1>2

LEMMA WritesKeyed ==
    ASSUME NEW a, NEW s, NEW o \in Writes(a, s)
    PROVE  KeyedOutcome(o)
<1>1. PICK staged \in {<<>>, Profiled(s)},
           u \in {<<>>, [recommendations |-> TRUE], [preferences |-> TRUE],
                  [coverletter |-> TRUE], [interview |-> TRUE]} : o = Outcome(staged, u, "done")
  BY DEF Writes
<1> QED BY <1>1, ProfiledKeyed, OneFieldIsKeyed, NothingIsKeyed, OutcomeKeyed

\* Whatever agent runs on whatever session
LEMMA ExecutionsKeyed ==
    ASSUME NEW a, NEW s, NEW args, NEW o \in Executions(a, s, args)
    PROVE  KeyedOutcome(o)
<1> DEFINE normal == CASE a = "posting_fetch" -> PostingFetch(s)
                       [] a = "posting_analysis" -> PostingAnalysis(s)
                       [] a = "resume_diagnosis" -> ResumeDiagnosis(s, args)
                       [] a = "fit_analysis" -> FitAnalysis(s, args)
                       [] OTHER -> Writes(a, s)
<1>1. \A e \in PostingFetch(s) : KeyedOutcome(e)
  BY CollectedKeyed, NothingIsKeyed, OutcomeKeyed DEF PostingFetch
<1>2. \A e \in PostingAnalysis(s) : KeyedOutcome(e)
  <2> SUFFICES ASSUME NEW e \in PostingAnalysis(s)
               PROVE  KeyedOutcome(e)
    OBVIOUS
  <2>1. PICK c \in Collected(s), u \in {<<>>, [postings |-> s.postings \cup {s.posting.id}]} :
          e = Outcome(c, u, "done")
    BY DEF PostingAnalysis
  <2> QED BY <2>1, CollectedKeyed, NothingIsKeyed, OneFieldIsKeyed, OutcomeKeyed
<1>3. \A e \in ResumeDiagnosis(s, args) : KeyedOutcome(e)
  <2> DEFINE updates == IF Len(args.diagnosis) = 1 THEN SwitchResume(s, args.diagnosis[1]) ELSE <<>>
  <2>1. Keyed(updates)
    BY SwitchKeyed, NothingIsKeyed
  <2> HIDE DEF updates
  <2>2. Keyed(Profiled(Onto(updates, s)))
    BY ProfiledKeyed
  <2>3. \A e \in ResumeDiagnosis(s, args) : e = Outcome(Profiled(Onto(updates, s)), updates, "done")
    BY DEF ResumeDiagnosis, updates
  <2> QED BY <2>1, <2>2, <2>3, OutcomeKeyed
<1>4. \A e \in normal : KeyedOutcome(e)
  BY <1>1, <1>2, <1>3, FitKeyed, WritesKeyed
<1> HIDE DEF normal
<1>5. PICK e \in normal : o = e \/ o = [e EXCEPT !.updates = <<>>, !.data = "crashed"]
  BY DEF Executions, normal
<1> QED BY <1>4, <1>5, NothingIsKeyed DEF KeyedOutcome

-----------------------------------------------------------------------------
(* What a turn does to its copy of the session *)

KeyedTurn(r) ==
    DOMAIN r = DOMAIN NewTurn /\ Keyed(r.mine) /\ Keyed(r.pend)

\* A later form of the turn t, on the same base
After(r, t) == KeyedTurn(r) /\ r.base = t.base

LEMMA ChangedKeyed ==
    ASSUME NEW t, NEW u, KeyedTurn(t), Keyed(u)
    PROVE  After(Changed(t, u), t) /\ Changed(t, u).pc = t.pc
<1>1. Keyed(Onto(u, t.mine)) /\ Keyed(Onto(u, t.pend))
  BY OntoKeyed DEF KeyedTurn
<1>2. {"mine", "pend", "base", "pc"} \subseteq DOMAIN t
  BY DEF KeyedTurn, NewTurn
<1> QED BY <1>1, <1>2 DEF Changed, After, KeyedTurn

LEMMA ReceivedKeyed ==
    ASSUME NEW s, NEW sent
    PROVE  Keyed(Received(s, sent))
<1> DEFINE Of(kinds) == {i \in DOMAIN sent : sent[i].kind \in kinds}
           resumes == Of({"resume", "resume_extra"})
           postings == Of({"text", "url"})
           Active(i) == IF \E j \in resumes : j < i
                        THEN sent[Max({j \in resumes : j < i})].id ELSE s.resume
           Given(indices, update) == IF indices = {} THEN <<>> ELSE update
           newest == sent[Max(postings)]
           a == Given(DOMAIN sent, Discarded)
           b == Given(resumes, [resume |-> sent[Max(resumes)].id])
           c == Given(Of({"resume"}), [resumes |-> s.resumes
                         \cup ({Active(i) : i \in Of({"resume"})} \ {NoName})])
           d == Given(postings, [posting |-> [id |-> newest.id, fetched |-> newest.kind = "text"]])
<1>1. \A indices, u : Keyed(u) => Keyed(Given(indices, u))
  BY NothingIsKeyed
<1>2. Received(s, sent) = Onto(a, Onto(b, Onto(c, d)))
  BY DEF Received
<1> HIDE DEF Given
<1>3. Keyed(a) /\ Keyed(b) /\ Keyed(c) /\ Keyed(d)
  BY <1>1, OneFieldIsKeyed
<1> HIDE DEF a, b, c, d
<1>4. Keyed(Onto(a, Onto(b, Onto(c, d))))
  BY <1>3, OntoKeyed
<1> QED BY <1>2, <1>4

LEMMA RememberKeyed ==
    ASSUME NEW t, KeyedTurn(t), NEW r \in Remember(t)
    PROVE  After(r, t)
<1>1. CASE r = t
  BY <1>1 DEF After
<1>2. CASE \E x : r = [Changed(t, [request |-> x]) EXCEPT !.renewed = TRUE]
  <2>1. PICK x : r = [Changed(t, [request |-> x]) EXCEPT !.renewed = TRUE]
    BY <1>2
  <2>2. After(Changed(t, [request |-> x]), t)
    BY OneFieldIsKeyed, ChangedKeyed
  <2> QED BY <2>1, <2>2 DEF After, KeyedTurn
<1>3. r = t \/ \E x : r = [Changed(t, [request |-> x]) EXCEPT !.renewed = TRUE]
  BY DEF Remember
<1> QED BY <1>1, <1>2, <1>3

LEMMA GateKeyed ==
    ASSUME NEW t, KeyedTurn(t), NEW dispatch
    PROVE  After(Gate(t, dispatch).turn, t)
<1>1. After(Changed(t, [askedFor |-> t.mine.posting]), t)
  BY OneFieldIsKeyed, ChangedKeyed
<1> QED BY <1>1 DEF Gate, After

LEMMA ConsentKeyed ==
    ASSUME NEW t, KeyedTurn(t), NEW dispatch
    PROVE  After(ConsumeConsent(t, dispatch), t)
<1>1. After(Changed(t, [consent |-> {}]), t)
  BY OneFieldIsKeyed, ChangedKeyed
<1> QED BY <1>1 DEF ConsumeConsent, After

LEMMA ResumeKeyed ==
    ASSUME NEW t, KeyedTurn(t), NEW prior, NEW waiting
    PROVE  After(Resume(t, prior, waiting).turn, t)
<1>1. \A x : After(Changed(t, [request |-> x]), t)
  BY OneFieldIsKeyed, ChangedKeyed
<1>2. After(t, t)
  BY DEF After
<1> DEFINE left == IF prior.left > 1 THEN [prior EXCEPT !.left = @ - 1] ELSE NoRequest
<1>3. Resume(t, prior, waiting).turn \in
        {t, Changed(t, [request |-> NoRequest]), Changed(t, [request |-> left])}
  BY DEF Resume
<1> QED BY <1>1, <1>2, <1>3

\* What a turn does once it is prepared: run its agents, or end in a question
LEMMA OpenedKeyed ==
    ASSUME NEW gate, NEW reviews, NEW prior, NEW kinds, KeyedTurn(gate.turn),
           NEW r \in Opened(gate, reviews, prior, kinds)
    PROVE  After(r, gate.turn) /\ r.pc \in {"run", "finish"}
<1> DEFINE t == gate.turn
           d == IF reviews = <<>> THEN gate.dispatch
                ELSE [gate.dispatch EXCEPT !.agents = reviews]
           unanswered == ToSet(gate.dispatch.pending)
           guess == Guess(t, kinds)
           waiting == InitialQueue(t, d)
           resumed == Resume(ConsumeConsent(t, d), prior, waiting)
           inserts == ReviewInserts(resumed.queue, kinds)
<1>1. \/ r = [t EXCEPT !.pc = "finish", !.ask = TRUE, !.pending = unanswered]
      \/ r = [Enqueue(resumed, d, inserts) EXCEPT !.guess = guess]
  BY DEF Opened
<1>2. CASE r = [t EXCEPT !.pc = "finish", !.ask = TRUE, !.pending = unanswered]
  <2> HIDE DEF unanswered
  <2>1. "pc" \in DOMAIN t
    BY DEF KeyedTurn, NewTurn
  <2> QED BY <1>2, <2>1 DEF After, KeyedTurn
<1>3. CASE r = [Enqueue(resumed, d, inserts) EXCEPT !.guess = guess]
  <2> HIDE DEF d, guess, waiting, inserts
  <2>1. After(ConsumeConsent(t, d), t)
    BY ConsentKeyed
  <2>2. After(resumed.turn, ConsumeConsent(t, d))
    BY <2>1, ResumeKeyed DEF After
  <2> HIDE DEF resumed
  <2>3. After(resumed.turn, t) /\ "pc" \in DOMAIN resumed.turn
    BY <2>1, <2>2 DEF After, KeyedTurn, NewTurn
  <2>4. PICK ask, pending, next :
          Enqueue(resumed, d, inserts) = [resumed.turn EXCEPT !.pc = "run", !.ask = ask,
                                            !.pending = pending, !.queue = next]
    BY DEF Enqueue
  <2> QED BY <1>3, <2>3, <2>4 DEF After, KeyedTurn
<1> QED BY <1>1, <1>2, <1>3

LEMMA PreparedKeyed ==
    ASSUME NEW t, KeyedTurn(t), NEW sent, NEW r \in Prepared(t, sent)
    PROVE  After(r, t) /\ r.pc \in {"run", "finish"}
<1> DEFINE kinds == SubmittedKinds(sent)
           prior == t.mine.request
           allowed == t.plan.requested \cup t.mine.consent \cup {prior.agent}
           taken == [t EXCEPT !.allowed = allowed]
           Reviews(d) == IF d.ask THEN ReviewInserts(d.pending, kinds) ELSE <<>>
<1>1. PICK e \in Remember(Intake(taken, sent)) :
        r \in Opened(Gate(e, Decide(e, kinds)), Reviews(Gate(e, Decide(e, kinds)).dispatch), prior, kinds)
  BY DEF Prepared
<1> HIDE DEF kinds, prior, allowed, Reviews
<1>2. After(taken, t)
  BY DEF After, KeyedTurn
<1> HIDE DEF taken
<1>3. After(Intake(taken, sent), taken)
  <2>1. KeyedTurn(taken)
    BY <1>2 DEF After
  <2> QED BY <2>1, ReceivedKeyed, ChangedKeyed DEF Intake
<1>4. After(e, Intake(taken, sent))
  BY <1>1, <1>3, RememberKeyed DEF After
<1> DEFINE gate == Gate(e, Decide(e, kinds))
<1>5. After(gate.turn, e)
  BY <1>4, GateKeyed DEF After
<1>6. r \in Opened(gate, Reviews(gate.dispatch), prior, kinds)
  BY <1>1
<1> HIDE DEF gate
<1>7. After(r, gate.turn) /\ r.pc \in {"run", "finish"}
  BY <1>5, <1>6, OpenedKeyed DEF After
<1> QED BY <1>2, <1>3, <1>4, <1>5, <1>7 DEF After

LEMMA GroupIsListed ==
    ASSUME NEW waiting, NEW done, NEW present
    PROVE  \E n \in Nat : /\ DOMAIN ParallelGroup(waiting, done, present) = 1 .. n
                         /\ Len(ParallelGroup(waiting, done, present)) = n
<1> DEFINE Made(n) == UNION {Registry[waiting[i]].out : i \in 1 .. n}
           Joins(n) ==
             LET a == waiting[n]
             IN  /\ n \in DOMAIN waiting /\ a \in Plannable /\ a \notin done
                 /\ \A i \in 1 .. n - 1 : waiting[i] # a
                 /\ RunnableNow(a, present)
                 /\ (ToSet(Registry[a].pre) \cup ToSet(Registry[a].any)
                       \cup Registry[a].out) \cap Made(n - 1) = {}
           lengths == {n \in 0 .. MaxParallel : \A i \in 1 .. n : Joins(i)}
<1>1. ParallelGroup(waiting, done, present) = [i \in 1 .. Max(lengths) |-> waiting[i]]
  BY DEF ParallelGroup
<1> HIDE DEF Joins
<1>2. 0 \in lengths /\ lengths \in SUBSET (0 .. MaxParallel) /\ MaxParallel \in Nat
  BY PlanBounds
<1> HIDE DEF lengths
<1>3. lengths # {}
  BY <1>2
<1>4. Max(lengths) \in lengths
  BY <1>2, <1>3, GreatestNatural
<1>5. Max(lengths) \in Nat
  <2>1. PICK g : g = Max(lengths)
    OBVIOUS
  <2>2. g \in 0 .. MaxParallel
    BY <1>2, <1>4, <2>1
  <2> QED BY <1>2, <2>1, <2>2
<1>6. ASSUME NEW n \in Nat
      PROVE  DOMAIN [i \in 1 .. n |-> waiting[i]] = 1 .. n /\ Len([i \in 1 .. n |-> waiting[i]]) = n
  OBVIOUS
<1>7. PICK n \in Nat : n = Max(lengths)
  BY <1>5
<1>8. ParallelGroup(waiting, done, present) = [i \in 1 .. n |-> waiting[i]]
  BY <1>1, <1>7
<1> QED BY <1>6, <1>8

\* A batch is a list of agents
LEMMA BatchIsListed ==
    ASSUME NEW r
    PROVE  \E k \in Nat : DOMAIN Batch(r) = 1 .. k /\ Len(Batch(r)) = k
<1> DEFINE group == ParallelGroup(r.queue, ToSet(r.done), SessionAssets(r.mine, r.plan.args))
<1>1. \E n \in Nat : DOMAIN group = 1 .. n /\ Len(group) = n
  BY GroupIsListed
<1> HIDE DEF group
<1>2. Batch(r) = group \/ Batch(r) = <<r.queue[1]>>
  BY DEF Batch, group
<1>3. \A x : DOMAIN <<x>> = 1 .. 1 /\ Len(<<x>>) = 1
  OBVIOUS
<1>4. CASE Batch(r) = <<r.queue[1]>>
  BY <1>3, <1>4
<1> QED BY <1>1, <1>2, <1>4

LEMMA AbsorbedKeyed ==
    ASSUME NEW r, KeyedTurn(r), NEW k \in Nat, NEW batch, DOMAIN batch = 1 .. k, Len(batch) = k,
           NEW outcome, \A a \in ToSet(batch) : KeyedOutcome(outcome[a])
    PROVE  After(Absorbed(r, batch, outcome), r)
<1> DEFINE alone == Len(batch) = 1
           stages == [a \in ToSet(batch) |->
                        IF alone THEN outcome[a].staged ELSE Onto(outcome[a].hidden, outcome[a].staged)]
           results == [a \in ToSet(batch) |-> outcome[a].updates]
           staged == Merged(batch, stages)
           hidden == IF alone THEN outcome[batch[1]].hidden ELSE <<>>
           updates == Merged(batch, results)
<1>1. /\ \A a \in ToSet(batch) : Keyed(outcome[a].staged) /\ Keyed(outcome[a].hidden)
                                /\ Keyed(outcome[a].updates)
  BY DEF KeyedOutcome
<1>2. Keyed(staged)
  <2>1. \A a \in ToSet(batch) : Keyed(stages[a])
    BY <1>1, OntoKeyed
  <2> HIDE DEF stages
  <2> QED BY <2>1, MergedKeyed
<1>3. Keyed(updates)
  <2>1. \A a \in ToSet(batch) : Keyed(results[a])
    BY <1>1
  <2> HIDE DEF results
  <2> QED BY <2>1, MergedKeyed
<1>4. Keyed(hidden)
  <2>1. CASE alone
    <3>1. batch[1] \in ToSet(batch)
      BY <2>1 DEF ToSet
    <3> QED BY <1>1, <2>1, <3>1
  <2> QED BY <2>1, NothingIsKeyed
<1>5. Absorbed(r, batch, outcome) =
        [r EXCEPT !.mine = Onto(updates, Onto(staged, @)),
                  !.pend = Onto(updates, Onto(hidden, Onto(staged, @)))]
  BY DEF Absorbed
<1> HIDE DEF staged, hidden, updates
<1>6. /\ Keyed(Onto(updates, Onto(staged, r.mine)))
      /\ Keyed(Onto(updates, Onto(hidden, Onto(staged, r.pend))))
  BY <1>2, <1>3, <1>4, OntoKeyed DEF KeyedTurn
<1> QED BY <1>5, <1>6 DEF After, KeyedTurn, NewTurn

LEMMA ReplannedKeyed ==
    ASSUME NEW t, KeyedTurn(t), NEW data, NEW r \in Replanned(t, data)
    PROVE  After(r, t) /\ r.pc \in {"run", "finish"}
<1> DEFINE assets == SessionAssets(t.mine, t.plan.args)
           left == Observe(data, t.queue, ToSet(t.done), assets)
           Left(q, replaced) ==
             LET rest == SkipDone(q, t.done)
             IN  [t EXCEPT !.queue = rest, !.replaced = replaced,
                           !.pc = IF rest = <<>> \/ Len(t.done) >= MaxSteps
                                  THEN "finish" ELSE "run"]
<1>0. \E q, replaced : r = Left(q, replaced)
  <2> HIDE DEF left, Left
  <2> QED BY DEF Replanned, left, Left, assets
<1>1. PICK rest, replaced, pc : /\ pc \in {"run", "finish"}
                                /\ r = [t EXCEPT !.queue = rest, !.replaced = replaced, !.pc = pc]
  BY <1>0
<1>2. "pc" \in DOMAIN t
  BY DEF KeyedTurn, NewTurn
<1> QED BY <1>1, <1>2 DEF After, KeyedTurn

LEMMA EndingsKeyed ==
    ASSUME NEW k \in Nat, NEW batch, DOMAIN batch = 1 .. k, Len(batch) = k, NEW s, NEW args,
           NEW outcome \in Endings(batch, s, args)
    PROVE  \A a \in ToSet(batch) : KeyedOutcome(outcome[a])
<1> DEFINE ends == UNION {{<<a, o>> : o \in Executions(a, s, args)} : a \in ToSet(batch)}
<1>1. CASE Len(batch) = 1
  <2>1. PICK o \in Executions(batch[1], s, args) : outcome = [a \in {batch[1]} |-> o]
    BY <1>1 DEF Endings
  <2>2. ToSet(batch) = {batch[1]}
    BY <1>1 DEF ToSet
  <2> QED BY <2>1, <2>2, ExecutionsKeyed
<1>2. CASE Len(batch) # 1
  <2>1. ASSUME NEW a \in ToSet(batch)
        PROVE  outcome[a] \in Executions(a, s, args)
    <3>1. <<a, outcome[a]>> \in ends
      BY <1>2 DEF Endings
    <3>2. PICK b \in ToSet(batch) : <<a, outcome[a]>> \in {<<b, o>> : o \in Executions(b, s, args)}
      BY <3>1
    <3>3. PICK o \in Executions(b, s, args) : <<a, outcome[a]>> = <<b, o>>
      BY <3>2
    <3>4. a = b /\ outcome[a] = o
      BY <3>3
    <3> QED BY <3>3, <3>4
  <2> QED BY <2>1, ExecutionsKeyed
<1> QED BY <1>1, <1>2

LEMMA ClosedKeyed ==
    ASSUME NEW t, KeyedTurn(t)
    PROVE  After(Closed(t), t)
<1> DEFINE guessed == IF t.guess = {} THEN t ELSE Changed(t, [consent |-> t.guess])
<1>1. After(guessed, t)
  BY OneFieldIsKeyed, ChangedKeyed DEF After
<1>2. Closed(t) = IF t.ask THEN Changed(guessed, [consent |-> t.pending]) ELSE guessed
  BY DEF Closed
<1> HIDE DEF guessed
<1>3. After(Changed(guessed, [consent |-> t.pending]), guessed)
  BY <1>1, OneFieldIsKeyed, ChangedKeyed DEF After
<1> QED BY <1>1, <1>2, <1>3 DEF After

-----------------------------------------------------------------------------
(* The invariant of the turns *)

Complete(s) == "analysis" \in DOMAIN s /\ Keyed(s)

TurnsInv ==
    /\ Complete(workspace) /\ Complete(store)
    /\ DOMAIN turn = Turns
    /\ \A t \in Turns : KeyedTurn(turn[t])

\* A turn has the conversation to itself, and the session it was given is the
\* engine's until it writes what it changed
Alone ==
    /\ \A t, u \in Turns : ~AtRest(t) /\ ~AtRest(u) => t = u
    /\ \A t \in Turns :
         /\ turn[t].pc \in {"begun", "run", "finish"} => store = turn[t].base
         /\ turn[t].pc = "finished" => store = Onto(turn[t].pend, turn[t].base)

LEMMA FreshTurnIsKeyed ==
    /\ KeyedTurn(NewTurn) /\ KeyedTurn(Over) /\ Over.pc = "over" /\ NewTurn.pc = "idle"
    /\ Complete(EmptySession)
<1>1. Keyed(EmptySession) /\ "analysis" \in DOMAIN EmptySession
  BY DEF Keyed, EmptySession, NoAnalysis
<1>2. KeyedTurn(NewTurn) /\ NewTurn.pc = "idle"
  BY <1>1, NothingIsKeyed DEF KeyedTurn, NewTurn
<1>3. KeyedTurn(Over) /\ Over.pc = "over"
  BY <1>2 DEF Over, KeyedTurn, NewTurn
<1> QED BY <1>1, <1>2, <1>3 DEF Complete

LEMMA SeededComplete ==
    ASSUME NEW s, NEW career, Complete(s)
    PROVE  Complete(Seeded(s, career))
<1>1. PICK resume, resumes : Seeded(s, career) = [s EXCEPT !.resume = resume, !.resumes = resumes]
  BY DEF Seeded
<1> QED BY <1>1 DEF Complete, Keyed

LEMMA OntoComplete ==
    ASSUME NEW u, NEW s, Keyed(u), Complete(s)
    PROVE  Complete(Onto(u, s))
<1>1. DOMAIN Onto(u, s) = DOMAIN u \cup DOMAIN s
  BY DEF Onto
<1> QED BY <1>1, OntoKeyed DEF Complete

LEMMA TurnsBegin ==
    ASSUME Init
    PROVE  TurnsInv /\ Alone
BY FreshTurnIsKeyed DEF Init, TurnsInv, Alone, AtRest

\* One turn goes on and the others stay as they are
LEMMA OneTurnGoesOn ==
    ASSUME TurnsInv, NEW t \in Turns, NEW r, KeyedTurn(r), turn' = [turn EXCEPT ![t] = r],
           Complete(workspace'), Complete(store')
    PROVE  TurnsInv'
BY DEF TurnsInv

\* A turn that is not at rest goes on with the session as it is
LEMMA RunningTurnGoesOn ==
    ASSUME TurnsInv, Alone, NEW t \in Turns, ~AtRest(t), NEW r, turn' = [turn EXCEPT ![t] = r],
           store' = store, r.pc \in {"begun", "run", "finish"} => r.base = store,
           r.pc = "finished" => store = Onto(r.pend, r.base)
    PROVE  Alone'
BY DEF TurnsInv, Alone, AtRest

LEMMA BeginKeeps ==
    ASSUME TurnsInv, NEW t \in Turns, Begin(t)
    PROVE  TurnsInv' /\ (Alone /\ ~Overlap => Alone')
<1>1. PICK career \in Careers :
        /\ store' = Seeded(Hydrated(store, workspace), career)
        /\ turn' = [turn EXCEPT ![t] = [NewTurn EXCEPT !.pc = "begun", !.base = Seeded(workspace, career)]]
  BY DEF Begin
<1>2. store' = Seeded(workspace, career) /\ workspace' = workspace
  BY <1>1 DEF Hydrated, Begin
<1> DEFINE r == [NewTurn EXCEPT !.pc = "begun", !.base = Seeded(workspace, career)]
<1>3. KeyedTurn(r) /\ r.pc = "begun" /\ r.base = store'
  <2>1. KeyedTurn(NewTurn) /\ {"pc", "base"} \subseteq DOMAIN NewTurn
    BY FreshTurnIsKeyed DEF NewTurn
  <2> QED BY <1>2, <2>1 DEF KeyedTurn
<1>4. turn' = [turn EXCEPT ![t] = r]
  BY <1>1
<1> HIDE DEF r
<1>5. Complete(store') /\ Complete(workspace')
  BY <1>2, SeededComplete DEF TurnsInv
<1>6. TurnsInv'
  BY <1>3, <1>4, <1>5, OneTurnGoesOn
<1>7. ASSUME Alone, ~Overlap
      PROVE  Alone'
  <2>1. \A u \in Turns \ {t} : AtRest(u)
    BY <1>7 DEF Begin, Free
  <2>2. turn'[t] = r /\ \A u \in Turns \ {t} : turn'[u].pc \in {"idle", "over"}
    BY <1>4, <2>1 DEF TurnsInv, AtRest
  <2>3. \A u \in Turns : turn'[u].pc \notin {"idle", "over"} => u = t
    BY <2>2
  <2>4. ASSUME NEW u \in Turns
        PROVE  turn'[u].pc \in {"idle", "begun", "over"} /\ (turn'[u].pc = "begun" => store' = turn'[u].base)
    <3>1. CASE u = t
      BY <1>3, <2>2, <3>1
    <3>2. CASE u # t
      BY <2>2, <3>2
    <3> QED BY <3>1, <3>2
  <2>5. \A u \in Turns : turn'[u].pc \in {"begun", "run", "finish"} => store' = turn'[u].base
    BY <2>4
  <2>6. \A u \in Turns : turn'[u].pc # "finished"
    BY <2>4
  <2> QED BY <2>3, <2>5, <2>6 DEF Alone, AtRest
<1> QED BY <1>6, <1>7

LEMMA StartKeeps ==
    ASSUME TurnsInv, NEW t \in Turns, Start(t)
    PROVE  TurnsInv' /\ (Alone => Alone')
<1>1. PICK planned, sent : \E ready \in Prepared([turn[t] EXCEPT !.mine = store, !.plan = Restored(planned)], sent) :
        turn' = [turn EXCEPT ![t] = ready]
  BY DEF Start
<1> DEFINE given == [turn[t] EXCEPT !.mine = store, !.plan = Restored(planned)]
<1>2. PICK ready \in Prepared(given, sent) : turn' = [turn EXCEPT ![t] = ready]
  BY <1>1
<1>3. KeyedTurn(given) /\ given.base = turn[t].base
  BY DEF TurnsInv, KeyedTurn, Complete, NewTurn
<1> HIDE DEF given
<1>4. After(ready, given) /\ ready.pc \in {"run", "finish"}
  BY <1>2, <1>3, PreparedKeyed
<1>5. store' = store /\ workspace' = workspace /\ turn[t].pc = "begun"
  BY DEF Start
<1>6. TurnsInv'
  BY <1>2, <1>4, <1>5, OneTurnGoesOn DEF After, TurnsInv
<1>7. ASSUME Alone
      PROVE  Alone'
  <2>1. ready.base = store
    BY <1>3, <1>4, <1>5, <1>7 DEF After, Alone
  <2> QED BY <1>2, <1>4, <1>5, <1>7, <2>1, RunningTurnGoesOn DEF AtRest
<1> QED BY <1>6, <1>7

LEMMA StepKeeps ==
    ASSUME TurnsInv, NEW t \in Turns, Step(t)
    PROVE  TurnsInv' /\ (Alone => Alone')
<1> DEFINE r == turn[t]
           batch == Batch(r)
           ran == [r EXCEPT !.done = @ \o batch, !.queue = SubSeq(@, Len(batch) + 1, Len(@))]
<1>1. PICK outcome \in Endings(batch, r.mine, r.plan.args) :
        \E next \in Replanned(Absorbed(ran, batch, outcome), {outcome[a].data : a \in ToSet(batch)}) :
          turn' = [turn EXCEPT ![t] = next]
  BY DEF Step
<1>2. PICK next \in Replanned(Absorbed(ran, batch, outcome), {outcome[a].data : a \in ToSet(batch)}) :
        turn' = [turn EXCEPT ![t] = next]
  BY <1>1
<1>3. PICK k \in Nat : DOMAIN batch = 1 .. k /\ Len(batch) = k
  BY BatchIsListed
<1> HIDE DEF batch
<1>4. \A a \in ToSet(batch) : KeyedOutcome(outcome[a])
  BY <1>1, <1>3, EndingsKeyed
<1>5. KeyedTurn(ran) /\ ran.base = r.base
  BY DEF TurnsInv, KeyedTurn
<1> HIDE DEF ran
<1>6. After(Absorbed(ran, batch, outcome), ran)
  BY <1>3, <1>4, <1>5, AbsorbedKeyed
<1>7. After(next, Absorbed(ran, batch, outcome)) /\ next.pc \in {"run", "finish"}
  BY <1>2, <1>6, ReplannedKeyed DEF After
<1>8. store' = store /\ workspace' = workspace /\ turn[t].pc = "run"
  BY DEF Step
<1>9. KeyedTurn(next) /\ next.base = turn[t].base
  BY <1>5, <1>6, <1>7 DEF After
<1>10. TurnsInv'
  BY <1>2, <1>8, <1>9, OneTurnGoesOn DEF TurnsInv
<1>11. ASSUME Alone
       PROVE  Alone'
  <2>1. next.base = store
    BY <1>8, <1>9, <1>11 DEF Alone
  <2> QED BY <1>2, <1>7, <1>8, <1>11, <2>1, RunningTurnGoesOn DEF AtRest
<1> QED BY <1>10, <1>11

LEMMA FinishKeepsTurns ==
    ASSUME TurnsInv, NEW t \in Turns, Finish(t)
    PROVE  TurnsInv' /\ (Alone => Alone')
<1> DEFINE r == Closed(turn[t])
           next == IF r.gone THEN Over ELSE [r EXCEPT !.pc = "finished"]
<1>1. After(r, turn[t])
  BY ClosedKeyed DEF TurnsInv
<1>2. /\ store' = Onto(r.pend, store) /\ turn' = [turn EXCEPT ![t] = next]
      /\ workspace' = workspace /\ turn[t].pc = "finish"
  BY DEF Finish
<1> HIDE DEF r
<1>3. KeyedTurn(next) /\ next.pc \in {"over", "finished"}
      /\ (next.pc = "finished" => next.base = r.base /\ next.pend = r.pend)
  BY <1>1, FreshTurnIsKeyed DEF After, KeyedTurn, NewTurn
<1> HIDE DEF next
<1>4. Complete(store') /\ Complete(workspace')
  BY <1>1, <1>2, OntoComplete DEF After, KeyedTurn, TurnsInv
<1>5. TurnsInv'
  BY <1>2, <1>3, <1>4, OneTurnGoesOn
<1>6. ASSUME Alone
      PROVE  Alone'
  <2>1. store = r.base
    BY <1>1, <1>2, <1>6 DEF Alone, After
  <2>2. next.pc = "finished" => store' = Onto(next.pend, next.base)
    BY <1>2, <1>3, <2>1
  <2>3. \A u \in Turns \ {t} : turn'[u] = turn[u] /\ turn[u].pc \in {"idle", "over"}
    BY <1>2, <1>6 DEF Alone, AtRest, TurnsInv
  <2>4. turn'[t] = next
    BY <1>2 DEF TurnsInv
  <2>5. ASSUME NEW u \in Turns, NEW v \in Turns, ~AtRest(u)', ~AtRest(v)'
        PROVE  u = v
    BY <2>3, <2>5 DEF AtRest
  <2>6. ASSUME NEW u \in Turns
        PROVE  /\ turn'[u].pc \notin {"begun", "run", "finish"}
               /\ turn'[u].pc = "finished" => store' = Onto(turn'[u].pend, turn'[u].base)
    <3>1. CASE u = t
      BY <1>3, <2>2, <2>4, <3>1
    <3>2. CASE u # t
      BY <2>3, <3>2
    <3> QED BY <3>1, <3>2
  <2> QED BY <2>5, <2>6 DEF Alone
<1> QED BY <1>5, <1>6

LEMMA EndKeeps ==
    ASSUME TurnsInv, NEW t \in Turns, Deliver(t) \/ Die(t)
    PROVE  TurnsInv' /\ (Alone => Alone')
<1>1. /\ turn' = [turn EXCEPT ![t] = Over] /\ store' = store /\ workspace' \in {workspace, store}
      /\ ~AtRest(t)
  BY DEF Deliver, Die, AtRest
<1>2. TurnsInv'
  BY <1>1, FreshTurnIsKeyed, OneTurnGoesOn DEF TurnsInv
<1>3. Alone => Alone'
  BY <1>1, FreshTurnIsKeyed, RunningTurnGoesOn
<1> QED BY <1>2, <1>3

LEMMA AbandonKeeps ==
    ASSUME TurnsInv, NEW t \in Turns, Abandon(t)
    PROVE  TurnsInv' /\ (Alone => Alone')
<1> DEFINE next == IF turn[t].pc = "finished" THEN Over ELSE [turn[t] EXCEPT !.gone = TRUE]
<1>1. turn' = [turn EXCEPT ![t] = next] /\ store' = store /\ workspace' = workspace /\ ~AtRest(t)
  BY DEF Abandon, TurnsInv
<1>2. /\ KeyedTurn(next)
      /\ next.pc # "over" => /\ next.pc = turn[t].pc /\ next.base = turn[t].base
                             /\ next.pend = turn[t].pend
  BY FreshTurnIsKeyed DEF TurnsInv, KeyedTurn, NewTurn
<1> HIDE DEF next
<1>3. TurnsInv'
  BY <1>1, <1>2, OneTurnGoesOn DEF TurnsInv
<1>4. ASSUME Alone
      PROVE  Alone'
  <2>1. /\ next.pc \in {"begun", "run", "finish"} => next.base = store
        /\ next.pc = "finished" => store = Onto(next.pend, next.base)
    BY <1>2, <1>4 DEF Alone
  <2> QED BY <1>1, <1>4, <2>1, RunningTurnGoesOn
<1> QED BY <1>3, <1>4

LEMMA TurnsGoOn ==
    ASSUME TurnsInv, [Next]_turnVars
    PROVE  TurnsInv' /\ (Alone /\ ~Overlap => Alone')
<1>1. CASE UNCHANGED turnVars
  BY <1>1 DEF turnVars, TurnsInv, Alone, AtRest
<1>2. CASE Next
  BY <1>2, BeginKeeps, StartKeeps, StepKeeps, FinishKeepsTurns, EndKeeps, AbandonKeeps DEF Next
<1> QED BY <1>1, <1>2

TurnsPartInv == part = "turns" => TurnsInv /\ (~Overlap => Alone)

LEMMA TurnsAreKeyed == AssistantSpec => []TurnsPartInv
<1>1. AssistantInit => TurnsPartInv
  BY TurnsBegin DEF AssistantInit, TurnsPartInv
<1>2. TurnsPartInv /\ [AssistantNext]_allVars => TurnsPartInv'
  <2> SUFFICES ASSUME TurnsPartInv, [AssistantNext]_allVars, part' = "turns"
               PROVE  TurnsInv' /\ (~Overlap => Alone')
    BY DEF TurnsPartInv
  <2>1. part = "turns" /\ [Next]_turnVars
    BY DEF AssistantNext, allVars
  <2> QED BY <2>1, TurnsGoOn DEF TurnsPartInv
<1> QED BY <1>1, <1>2, PTL DEF AssistantSpec

\* Whatever the user sends, whatever is planned and however the agents end, also when turns
\* are abandoned and run on beside the next one: the verdict that was written with a key
\* is the one on the posting and the resume the key names (fit_analysis.py, run and
\* _analysis_key; session.py, update; chat.py, _absorb).
THEOREM VerdictsAreTold == AssistantSpec => []EachVerdictIsTold
<1>1. TurnsPartInv => EachVerdictIsTold
  BY DEF TurnsPartInv, TurnsInv, Complete, Keyed, EachVerdictIsTold, KeyTellsVerdict
<1> QED BY <1>1, TurnsAreKeyed, PTL

\* As long as no turn begins while an abandoned one runs on: what the backend keeps of a
\* turn is what it gave the turn with the changes of that turn, and what was asked about
\* is remembered (v2bridge/service.py, chat_events; orchestrator/chat.py, handle_chat).
THEOREM TurnsAreKept ==
    ASSUME ~Overlap
    PROVE  AssistantSpec => EachTurnIsKept
<1>1. TurnsPartInv /\ [AssistantNext]_allVars =>
        [part = "turns" => AskedIsRememberedStep /\ DeliveredTurnsOnlyStep]_allVars
  <2> SUFFICES ASSUME TurnsInv, Alone, [Next]_turnVars
               PROVE  AskedIsRememberedStep /\ DeliveredTurnsOnlyStep
    BY DEF TurnsPartInv, AssistantNext, allVars
  <2>1. ASSUME NEW t \in Turns, Finish(t), turn[t].ask
        PROVE  turn[t].pending \cap Heavy \subseteq store'.consent
    <3> DEFINE guessed == IF turn[t].guess = {} THEN turn[t] ELSE Changed(turn[t], [consent |-> turn[t].guess])
               pend == Onto([consent |-> turn[t].pending], guessed.pend)
    <3>1. After(guessed, turn[t])
      BY OneFieldIsKeyed, ChangedKeyed DEF After, TurnsInv
    <3>2. Closed(turn[t]) = Changed(guessed, [consent |-> turn[t].pending])
      BY <2>1 DEF Closed
    <3> HIDE DEF guessed
    <3>3. Closed(turn[t]).pend = pend
      BY <3>1, <3>2 DEF Changed, After, KeyedTurn, NewTurn
    <3>4. store' = Onto(pend, store)
      BY <2>1, <3>3 DEF Finish
    <3>5. "consent" \in DOMAIN pend /\ pend.consent = turn[t].pending
      BY DEF Onto
    <3> HIDE DEF pend
    <3>6. store'.consent = turn[t].pending
      BY <3>4, <3>5 DEF Onto
    <3> QED BY <3>6
  <2>2. ASSUME NEW t \in Turns, Deliver(t)
        PROVE  workspace' = Onto(turn[t].pend, turn[t].base)
    BY <2>2 DEF Deliver, Alone
  <2> QED BY <2>1, <2>2 DEF AskedIsRememberedStep, DeliveredTurnsOnlyStep
<1> QED BY <1>1, TurnsAreKeyed, PTL DEF AssistantSpec, EachTurnIsKept
=============================================================================
