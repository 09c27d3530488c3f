--------------------------- MODULE AnalysisStream ---------------------------
(***************************************************************************)
(* The progress of one analysis as the backend and the user see it         *)
(* (v2bridge/stream.py and analyze_events of v2bridge/service.py).  The    *)
(* engine's thread leaves trace events in a queue; the builder turns them  *)
(* into stages, at most Budget events long, and repeats the last stage     *)
(* when nothing comes.  Every event of the stream renews the lease of the  *)
(* worker that reads it (external: AnalysisWorker.recordProgress).         *)
(***************************************************************************)
EXTENDS Integers, Sequences, FiniteSetsExt

CONSTANTS
    Agents,     \* the agents of the engine
    Budget,     \* the events after which no stage is updated any more
    Rounds,     \* the turns the engine takes in one analysis
    Plans       \* the plans it shows in them

VARIABLES
    sequence,   \* the number of the last event
    declared,   \* the stages of the last plan
    shown,      \* the status the stages have on the screen
    last,       \* the stage and status that a heartbeat repeats
    suppressed, \* whether an update was not sent
    rounds,     \* the turns left
    plans,      \* the plans shown
    queue,      \* the agents of this turn that were not started
    running,    \* the agents at work
    unseen,     \* the agents started since the engine last looked at the plan again
    setBack,    \* history: the agents set back to work by such a look after they had ended
    phase,      \* what the engine does: PLANNING, ACTING, DONE; then ENDED
    silent      \* whether the last wait passed without an event
streamVars == <<sequence, declared, shown, last, suppressed, rounds, plans, queue, running, unseen, setBack, phase, silent>>

Backbone == {"CONTEXT", "PLANNING", "VALIDATION", "ASSEMBLY"}
Nothing == [stage |-> "none", status |-> "none"]

\* backbone: the first line, before the planner has chosen anyone.
StreamInit ==
    /\ sequence = 1 /\ declared = Backbone /\ shown = [s \in Backbone \cup Agents |-> "PENDING"]
    /\ last = Nothing /\ suppressed = FALSE
    /\ rounds = Rounds /\ plans = 0 /\ queue = {} /\ running = {}
    /\ unseen = {} /\ setBack = {} /\ phase = "PLANNING" /\ silent = FALSE

\* _stage: an update of a stage that is on the plan, as long as the budget
\* lasts.
Update(plan, number, stage, status) ==
    IF stage \in plan /\ number < Budget
    THEN /\ sequence' = number + 1
         /\ shown' = [shown EXCEPT ![stage] = status]
         /\ last' = [stage |-> stage, status |-> status]
         /\ UNCHANGED suppressed
    ELSE /\ sequence' = number
         /\ suppressed' = (suppressed \/ stage \in plan)
         /\ UNCHANGED <<shown, last>>

Reports(stage, status) == Update(declared, sequence, stage, status) /\ UNCHANGED declared

-----------------------------------------------------------------------------
(* The engine *)

\* An address or a pasted resume is taken in before the planner runs.
TakeIn ==
    /\ phase = "PLANNING" /\ Reports("CONTEXT", "RUNNING") /\ silent' = FALSE
    /\ UNCHANGED <<rounds, plans, queue, running, unseen, setBack, phase>>

Plan ==
    /\ phase = "PLANNING" /\ Reports("PLANNING", "RUNNING") /\ silent' = FALSE
    /\ UNCHANGED <<rounds, plans, queue, running, unseen, setBack, phase>>

\* Mutant: the plan is shown, the end of the planning is not.
QuietDispatch ==
    /\ \/ phase = "PLANNING" /\ rounds > 0
       \/ phase = "ACTING" /\ running = {} /\ unseen = {} /\ queue = declared \cap Agents
    /\ plans < Plans /\ plans' = plans + 1
    /\ \E chosen \in (SUBSET Agents) \ {{}} :
         /\ phase = "ACTING" => queue \subseteq chosen
         /\ declared' = Backbone \cup chosen /\ queue' = chosen
    /\ sequence' = sequence + 1 /\ UNCHANGED <<shown, last, suppressed>>
    /\ phase' = "ACTING" /\ rounds' = IF phase = "PLANNING" THEN rounds - 1 ELSE rounds
    /\ silent' = FALSE /\ UNCHANGED <<running, unseen, setBack>>

\* dispatch: the plan is shown anew with the agents of this turn, and the
\* planning is over; before an agent has started, more may be put into the
\* queue. The plan goes out whatever the budget.
Dispatch ==
    /\ \/ phase = "PLANNING" /\ rounds > 0
       \/ phase = "ACTING" /\ running = {} /\ unseen = {} /\ queue = declared \cap Agents
    /\ plans < Plans /\ plans' = plans + 1
    /\ \E chosen \in (SUBSET Agents) \ {{}} :
         /\ phase = "ACTING" => queue \subseteq chosen
         /\ declared' = Backbone \cup chosen /\ queue' = chosen
         /\ Update(declared', sequence + 1, "PLANNING", "COMPLETED")
    /\ phase' = "ACTING" /\ rounds' = IF phase = "PLANNING" THEN rounds - 1 ELSE rounds
    /\ silent' = FALSE /\ UNCHANGED <<running, unseen, setBack>>

\* The agents of a batch work side by side; one may end before the next has begun.
Start ==
    /\ phase = "ACTING"
    /\ \E a \in queue :
         /\ running' = running \cup {a} /\ queue' = queue \ {a} /\ Reports(a, "RUNNING")
         /\ unseen' = unseen \cup {a} /\ setBack' = setBack \ (declared \cap {a})
    /\ silent' = FALSE /\ UNCHANGED <<rounds, plans, phase>>

Step ==
    /\ phase = "ACTING"
    /\ \E a \in running : Reports(a, "RUNNING")
    /\ silent' = FALSE /\ UNCHANGED <<rounds, plans, queue, running, unseen, setBack, phase>>

\* An agent ends or breaks down.
End ==
    /\ phase = "ACTING"
    /\ \E a \in running, how \in {"COMPLETED", "FAILED"} :
         Reports(a, how) /\ running' = running \ {a}
    /\ silent' = FALSE /\ UNCHANGED <<rounds, plans, queue, unseen, setBack, phase>>

\* observe: once a batch has ended the plan is looked at again. When a rule applies or
\* nothing is left to do, the last agent of the batch is reported as at work once more;
\* the rest of the queue may be put off, or an agent brought in that is on no plan.
\* Otherwise the queue goes on, or the steps of the turn are used up.
Observe ==
    /\ phase = "ACTING" /\ running = {} /\ unseen # {} /\ unseen' = {}
    /\ \/ /\ queue # {} /\ queue' \in {queue, {}}
          /\ UNCHANGED <<sequence, declared, shown, last, suppressed, setBack>>
       \/ /\ queue' \in SUBSET Agents
          /\ \E a \in unseen : Reports(a, "RUNNING") /\ setBack' = setBack \cup {a}
    /\ silent' = FALSE /\ UNCHANGED <<rounds, plans, running, phase>>

\* Another turn of the engine, or the end of its thread; a turn in which the
\* engine only asks something has no dispatch.
TurnOver ==
    /\ phase \in {"PLANNING", "ACTING"} /\ running = {} /\ unseen = {} /\ queue = {}
    /\ phase' \in {"PLANNING", "DONE"}
    /\ phase' = "PLANNING" => phase = "ACTING" /\ rounds > 0
    /\ silent' = FALSE
    /\ UNCHANGED <<sequence, declared, shown, last, suppressed, rounds, plans, queue, running, unseen, setBack>>

-----------------------------------------------------------------------------
(* The stream *)

\* Twelve seconds without an event: the last stage once more.
Heartbeat ==
    /\ phase \in {"PLANNING", "ACTING"}
    /\ IF last = Nothing THEN UNCHANGED <<sequence, declared, shown, last, suppressed>>
       ELSE Reports(last.stage, last.status)
    /\ silent' = (sequence' = sequence)
    /\ UNCHANGED <<rounds, plans, queue, running, unseen, setBack, phase>>

\* What is still shown before the result: validating, validated, roadmap (of a
\* completed analysis) and assembled.
Closing(completed) ==
    <<[stage |-> "VALIDATION", status |-> "RUNNING"], [stage |-> "VALIDATION", status |-> "COMPLETED"]>>
      \o (IF completed THEN <<[stage |-> "ASSEMBLY", status |-> "RUNNING"]>> ELSE <<>>)
      \o <<[stage |-> "ASSEMBLY", status |-> "COMPLETED"]>>

\* The result goes out whatever the budget, its stages as far as it lasts.
Finish ==
    /\ phase = "DONE"
    /\ \E completed \in BOOLEAN :
         LET closing == Closing(completed)
             sent == Max({0} \cup {n \in 1..Len(closing) : sequence + n <= Budget})
             Of(s) == {n \in 1..sent : closing[n].stage = s}
         IN  /\ sequence' = sequence + sent + 1
             /\ shown' = [s \in DOMAIN shown |->
                            IF Of(s) = {} THEN shown[s] ELSE closing[Max(Of(s))].status]
             /\ suppressed' = (suppressed \/ sent < Len(closing))
    /\ phase' = "ENDED" /\ silent' = FALSE
    /\ UNCHANGED <<declared, last, rounds, plans, queue, running, unseen, setBack>>

\* The thread failed: ERROR, whatever the budget.
Break ==
    /\ phase \in {"PLANNING", "ACTING", "DONE"}
    /\ sequence' = sequence + 1 /\ phase' = "ENDED" /\ silent' = FALSE
    /\ UNCHANGED <<declared, shown, last, suppressed, rounds, plans, queue, running, unseen, setBack>>

StreamNext ==
    \/ TakeIn \/ Plan \/ Dispatch \/ Start \/ Step \/ End \/ Observe \/ TurnOver
    \/ Heartbeat \/ Finish \/ Break

-----------------------------------------------------------------------------
(* Properties *)

\* A wait passes without a sign of life only when the budget is used up or
\* nothing was ever shown: the lease of the worker and the connection depend
\* on it (stream.py, heartbeat).
SilentOnlyWhenSpent == silent => sequence >= Budget \/ last = Nothing

\* However long the engine thinks, the events, each of which the backend
\* writes to its database, stay within the budget, the plans and the end
\* (stream.py, _EVENT_BUDGET).
EventsAreBounded == sequence <= Budget + Plans + 1

\* As long as no update was left out, the screen shows an agent at work only when it is
\* or when the plan was looked at again after it had ended, whatever broke down, was
\* put off or brought in; and who is at work on the plan is shown so (stream.py, from_trace).
WorkIsTold ==
    ~suppressed =>
      /\ \A a \in Agents : shown[a] = "RUNNING" => a \in running \cup setBack
      /\ \A a \in running : a \in declared => shown[a] = "RUNNING"

\* When a result was shown in full, no agent of the plan is left at work on the
\* screen. Refuted: the look at the plan that ends a turn sets the last agent back to
\* work (stream.py, from_trace: observe).
NoAgentLeftAtWork ==
    phase = "ENDED" /\ running = {} /\ ~suppressed /\ shown["ASSEMBLY"] = "COMPLETED"
      => \A a \in declared \cap Agents : shown[a] # "RUNNING"
=============================================================================
