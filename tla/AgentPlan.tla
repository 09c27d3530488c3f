----------------------------- MODULE AgentPlan -----------------------------
(***************************************************************************)
(* What the chat orchestrator decides without a language model: the agent *)
(* registry (agents/__init__.py), the validation of a plan                 *)
(* (orchestrator/router.py) and the rules applied after every agent        *)
(* (orchestrator/observe_rules.py).  All of it is pure: a set of assets,   *)
(* a queue of agents and the agents already run are the whole input.       *)
(***************************************************************************)
EXTENDS Integers, SequencesExt

CONSTANTS
    MaxInsertDepth,     \* _MAX_INSERT_DEPTH of router.py
    MaxParallel         \* _MAX_PARALLEL of chat.py

ASSUME PlanBounds == MaxInsertDepth \in Nat /\ MaxParallel \in Nat \ {0}

NoName == "none"
Fallback == "career_chat"

Needs(pre, any, out) == [pre |-> pre, any |-> any, out |-> out]

Registry ==
    [posting_fetch     |-> Needs(<<"job_posting">>, <<>>, {}),
     fit_analysis      |-> Needs(<<"resume", "job_posting">>, <<>>, {"analysis"}),
     posting_analysis  |-> Needs(<<"job_posting">>, <<>>, {}),
     job_recommend     |-> Needs(<<>>, <<"resume", "preferences">>, {"recommendations"}),
     career_chat       |-> Needs(<<>>, <<>>, {}),
     preference_intake |-> Needs(<<>>, <<>>, {"preferences"}),
     resume_diagnosis  |-> Needs(<<"resume">>, <<>>, {}),
     interview_prep    |-> Needs(<<"analysis">>, <<>>, {"interview"}),
     coverletter_draft |-> Needs(<<"resume", "analysis">>, <<>>, {"coverletter"}),
     application_plan  |-> Needs(<<"analysis">>, <<>>, {"application_plan"}),
     roadmap_manager   |-> Needs(<<"roadmap">>, <<>>, {})]

Agents == DOMAIN Registry
Heavy == {"fit_analysis"}
Internal == {"posting_fetch"}
Plannable == Agents \ Internal

-----------------------------------------------------------------------------
(* router.py *)

RunnableNow(a, assets) ==
    /\ ToSet(Registry[a].pre) \subseteq assets
    /\ Registry[a].any = <<>> \/ ToSet(Registry[a].any) \cap assets # {}

\* The agent that makes an asset; NoName when none does.
Producer(x) ==
    IF \E a \in Agents : x \in Registry[a].out
    THEN CHOOSE a \in Agents : x \in Registry[a].out ELSE NoName

Refused(missing, s) == [s EXCEPT !.missing = missing]

\* A plan being made: the agents so far, the assets there will be after them,
\* and what is missing for the agent looked at.
Draft == [missing: STRING, plan: Seq(Agents), assets: SUBSET STRING]

\* An agent whose needs are met joins the plan; nothing of what was planned for
\* it is kept when something is missing.
Joined(a, s, ready) ==
    IF ready.missing # NoName THEN Refused(ready.missing, s)
    ELSE IF a \in ToSet(ready.plan) THEN ready
    ELSE [missing |-> NoName, plan |-> Append(ready.plan, a),
          assets |-> ready.assets \cup Registry[a].out]

\* _plan_agent: the preconditions of an agent one after the other, then one of
\* its alternatives, then the agent itself. Whoever makes what is missing is
\* planned before it, depth being how deep that chain of producers is; k is the
\* number of preconditions looked at and t the plan so far.
PlanAt[depth \in 0 .. MaxInsertDepth + 1, a \in Agents, k \in Nat, s \in Draft, t \in Draft] ==
    LET pre == Registry[a].pre
        any == Registry[a].any
        x == pre[k + 1]
        makers == {Producer(y) : y \in ToSet(any)} \ (ToSet(t.plan) \cup {NoName})
        made == {u \in {PlanAt[depth + 1, y, 0, t, t] : y \in makers} : u.missing = NoName}
    IN  IF depth > MaxInsertDepth THEN Refused("recursion", s)
        ELSE IF t.missing # NoName THEN Refused(t.missing, s)
        ELSE IF k < Len(pre) THEN
          PlanAt[depth, a, k + 1, s,
                 CASE x \in t.assets -> t
                   [] x \notin t.assets /\ Producer(x) \in {NoName} \cup ToSet(t.plan) ->
                        Refused(x, t)
                   [] OTHER -> PlanAt[depth + 1, Producer(x), 0, t, t]]
        ELSE IF any = <<>> \/ ToSet(any) \cap t.assets # {} THEN Joined(a, s, t)
        ELSE IF made = {} THEN Refused(any[1], s)
        ELSE Joined(a, s, CHOOSE u \in made : TRUE)

PlanAgent(a, s) == PlanAt[0, a, 0, s, s]
NewDraft(assets) == [missing |-> NoName, plan |-> <<>>, assets |-> assets]

\* The agents that can be planned, each with its producers; the others are left
\* out.
PlanAll(agents, assets) ==
    LET Add(s, a) ==
          LET t == PlanAgent(a, s)
          IN  IF t.missing = NoName THEN t ELSE s
    IN  FoldLeft(Add, NewDraft(assets), SelectSeq(agents, LAMBDA a : a \in Agents)).plan

\* The asset an agent lacks and nobody could make; NoName when it can be planned.
Feasibility(a, assets) ==
    PlanAgent(a, NewDraft(assets)).missing

Dispatch(agents, ask, pending) ==
    [agents |-> agents, ask |-> ask, pending |-> pending]

\* Producers nobody asked for whose product is there already are left out,
\* what cannot be planned is dropped, and a heavy agent that was neither asked
\* for nor consented to turns the whole plan into a question.
ValidatePlan(agents, requested, assets, consented) ==
    LET Redundant(a) == /\ requested # {} /\ a \notin requested /\ a \in Agents
                        /\ Registry[a].out \cap assets # {}
        plan == PlanAll(SelectSeq(agents, LAMBDA a : ~Redundant(a)), assets)
        unasked == {a \in ToSet(plan) \cap Heavy : a \notin requested \cup consented}
    IN  CASE plan = <<>> -> Dispatch(<<Fallback>>, FALSE, <<>>)
          [] plan # <<>> /\ unasked # {} -> Dispatch(<<>>, TRUE, plan)
          [] OTHER -> Dispatch(plan, FALSE, <<>>)

-----------------------------------------------------------------------------
(* chat.py: which agents run together *)

\* The longest prefix of the queue, at most MaxParallel long, whose members
\* are runnable now and neither need nor make what an earlier one makes.
ParallelGroup(queue, done, assets) ==
    LET Made(n) == UNION {Registry[queue[i]].out : i \in 1 .. n}
        Joins(n) ==
          LET a == queue[n]
          IN  /\ n \in DOMAIN queue /\ a \in Plannable /\ a \notin done
              /\ \A i \in 1 .. n - 1 : queue[i] # a
              /\ RunnableNow(a, assets)
              /\ (ToSet(Registry[a].pre) \cup ToSet(Registry[a].any)
                    \cup Registry[a].out) \cap Made(n - 1) = {}
        lengths == {n \in 0 .. MaxParallel : \A i \in 1 .. n : Joins(i)}
    IN  [i \in 1 .. Max(lengths) |-> queue[i]]

\* The reviews of what was submitted in this turn, put before the verdict.
ReviewInserts(queue, submitted) ==
    LET reviewers == {CASE k = "job_posting" -> "posting_analysis"
                        [] OTHER -> "resume_diagnosis" : k \in submitted}
    IN  IF "fit_analysis" \notin ToSet(queue) THEN <<>>
        ELSE SelectSeq(<<"posting_analysis", "resume_diagnosis">>,
               LAMBDA a : a \in reviewers /\ a \notin ToSet(queue))

-----------------------------------------------------------------------------
(* observe_rules.py *)

GradeDependent == {"coverletter_draft", "interview_prep"}

\* A weak verdict defers what would be written on it and plans the ways to
\* apply instead.
WeakGrade(queue, done, assets) ==
    LET kept == SelectSeq(queue, LAMBDA a : a \notin GradeDependent)
    IN  IF kept = queue THEN queue
        ELSE IF /\ "application_plan" \notin done \cup ToSet(kept)
                /\ RunnableNow("application_plan", assets)
             THEN <<"application_plan">> \o kept ELSE kept

\* Walk the queue with the assets its kept members will make.
DropUnrunnable(queue, done, assets) ==
    LET Keep(s, a) ==
          CASE a \notin Agents -> [s EXCEPT !.kept = Append(@, a)]
            [] a \in done -> s
            [] a \in Agents \ done /\ RunnableNow(a, s.assets) ->
                 [kept |-> Append(s.kept, a), assets |-> s.assets \cup Registry[a].out]
            [] OTHER -> s
    IN  FoldLeft(Keep, [kept |-> <<>>, assets |-> assets], queue).kept

DropPostingConsumers(queue, done) ==
    SelectSeq(queue, LAMBDA a : \/ a \notin Agents \/ a \in done
                                \/ "job_posting" \notin ToSet(Registry[a].pre))

\* Mutant: what lost its inputs stays in the queue.
KeepAll(data, queue, done, assets) ==
    IF "not_fetched" \in data THEN DropPostingConsumers(queue, done) ELSE queue

\* observe: what is left of the queue after a batch. data says what the batch
\* reported: "weak" for a completed weak verdict, "not_fetched" for a posting
\* that could not be collected.
Observe(data, queue, done, assets) ==
    LET graded == IF "weak" \in data THEN WeakGrade(queue, done, assets) ELSE queue
        runnable == DropUnrunnable(graded, done, assets)
    IN  IF "not_fetched" \in data THEN DropPostingConsumers(runnable, done) ELSE runnable

\* replacement_for: what may stand in for the agents that were dropped.
Replacements(dropped, exclude, assets) ==
    {a \in Plannable \ (Heavy \cup exclude \cup dropped) : RunnableNow(a, assets)}
=============================================================================
