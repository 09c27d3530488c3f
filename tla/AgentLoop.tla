----------------------------- MODULE AgentLoop -----------------------------
(***************************************************************************)
(* The loop in which an agent of the chat picks tools until it answers     *)
(* (agents/agent_loop.py, run_agent_loop): what the model may decide, when *)
(* an answer goes back to be written again, what a tool may do to the      *)
(* loop, the last request after the limit, and when an agent may ask       *)
(* another one (call_agent_readonly).  The agents' modules extend this one *)
(* and say what each tool does to what the agent keeps.                    *)
(***************************************************************************)
EXTENDS Integers, Sequences, SequencesExt, FiniteSets, TLC

CONSTANTS
    Tools,      \* names of the agent's tools
    MaxSteps,   \* max_steps
    Declared,   \* the agents it may ask
    Colleagues  \* the registry: [name -> [heavy : BOOLEAN, needs : SUBSET Assets, fails, warns : BOOLEAN]]

VARIABLE loop   \* the loop of the turn: observations, warnings and the answer

None == "none"
Idle == [phase |-> "idle"]

\* A text is the kinds of sentences it has; "firm" holds one of FORBIDDEN_EXPRESSIONS
Texts == SUBSET {"plain", "firm"}
NoText == {}
Firm(text) == "firm" \in text

\* drop_forbidden_sentences
Softened(text) == text \ {"firm"}

\* _decision_schema: the name of a tool may stand where the action belongs
Decisions == [action : {"use_tool", "reply"} \cup Tools, tool : Tools \cup {None}, reply : Texts]
Chosen(d) ==
    CASE d.action \in Tools -> d.action
      [] d.action = "use_tool" -> d.tool
      [] OTHER -> None

Started ==
    [phase |-> "running", step |-> 1, observations |-> 0, requests |-> 0, warned |-> {}, reply |-> NoText]
Running == loop.phase = "running" /\ loop.step <= MaxSteps
AtLimit == loop.phase = "running" /\ loop.step > MaxSteps

Over(reply, warnings) ==
    loop' = [loop EXCEPT !.phase = "over", !.requests = @ + 1, !.reply = reply, !.warned = @ \cup warnings]
Observe(warnings) ==
    loop' = [loop EXCEPT !.step = @ + 1, !.requests = @ + 1, !.observations = @ + 1,
                         !.warned = @ \cup warnings]

\* run_structured came to nothing
Unavailable == Running /\ Over(NoText, {"model"})

\* An answer; with a forbidden expression it goes back as an observation
Answers(d) ==
    /\ Running /\ Chosen(d) = None
    /\ IF Firm(d.reply) THEN Observe({"loop_reply_rewritten"}) ELSE Over(d.reply, {})

\* A tool that ran; warnings are the ones it hands on
Uses(tool, warnings) ==
    /\ Running /\ \E d \in Decisions : Chosen(d) = tool
    /\ Observe(warnings)

\* The tool raised an exception: the loop goes on
Breaks(tool) == Uses(tool, {"loop_tool_failed"})

\* After the limit only the text of the decision counts, whatever its action
LastWord(text) == Softened(text)

Closes(d) ==
    /\ AtLimit
    /\ LET kept == LastWord(d.reply)
       IN  Over(kept, IF d.reply = NoText THEN {"loop_no_reply_after_max_steps"}
                      ELSE (IF Firm(d.reply) THEN {"loop_reply_softened"} ELSE {})
                           \cup (IF kept = NoText THEN {"loop_reply_forbidden_expression"} ELSE {}))
Fails == AtLimit /\ Over(NoText, {"model", "loop_no_reply_after_max_steps"})

\* call_agent_readonly: why an agent is not asked, in the order of the guards
Refusal(target, allowed, nested, assets) ==
    CASE target \notin allowed -> "not_declared"
      [] target \in allowed /\ nested -> "nested"
      [] target \in allowed \ DOMAIN Colleagues /\ ~nested -> "unregistered"
      [] OTHER -> CASE Colleagues[target].heavy -> "heavy"
                    [] ~Colleagues[target].heavy /\ ~(Colleagues[target].needs \subseteq assets)
                         -> "preconditions_missing"
                    [] OTHER -> IF Colleagues[target].fails THEN "entry_failed" ELSE None

\* delegate_tool: the answer of the other, or why there is none, is an observation; the
\* other ran on a copy of the session
AsksAgent(tool, target, assets) ==
    LET refused == Refusal(target, Declared, FALSE, assets)
    IN  Uses(tool, IF refused = None /\ Colleagues[target].warns THEN {"delegated_warning"} ELSE {})

\* What the model does without the agent's tools
Talks ==
    \/ Unavailable
    \/ \E d \in Decisions : Answers(d)
    \/ \E d \in Decisions : Closes(d)
    \/ Fails

-----------------------------------------------------------------------------
\* Nothing firm leaves a loop, no request repeats the input of the one before, and a
\* loop ends after at most one request more than it has steps; an answer lost to the
\* limit or to the rules says so (run_agent_loop)
LoopEndsWell ==
    loop.phase # "idle" =>
      /\ ~Firm(loop.reply)
      /\ loop.observations = loop.requests - (IF loop.phase = "over" THEN 1 ELSE 0)
      /\ loop.requests <= MaxSteps + 1
      /\ (loop.phase = "over" /\ loop.reply = NoText /\ loop.requests > MaxSteps) => loop.warned # {}
=============================================================================
