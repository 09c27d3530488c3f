----------------------------- MODULE ChatTurn -----------------------------
(***************************************************************************)
(* The turns of one conversation: chat_events (v2bridge/service.py) around *)
(* handle_chat (orchestrator/chat.py).  The backend sends the workspace it *)
(* keeps; the bridge replaces the engine's session by it.  The turn copies *)
(* the session (session.get is a deep copy), changes its copy, collects    *)
(* what it changed in pend and writes pend when it finishes.  The bridge   *)
(* reads the session again and answers with it; the backend stores that.   *)
(* When the backend gives up a turn its thread runs on.  The planner's     *)
(* answer, what agents do and whether a posting can be collected are       *)
(* choices.                                                                *)
(***************************************************************************)
EXTENDS AgentPlan

CONSTANTS
    Postings, Resumes,      \* identities: the hash of a source text
    Stored,                 \* the resumes that come from the career store
    Careers,                \* what the career store holds in a turn: one of them or none
    Plans,                  \* the planner's answers of an instance
    Submissions,            \* what the user may send with a message
    Turns,                  \* the turns of an instance
    MaxSteps,               \* _MAX_AGENT_STEPS
    RequestTurns,           \* turnsLeft of a new pendingRequest
    Unified,                \* analysisOwner: the verdict is made elsewhere
    Overlap                 \* may a turn begin while an abandoned one runs on

ASSUME ChatBounds == Careers \subseteq Stored \cup {NoName} /\ MaxSteps \in Nat \ {0} /\ RequestTurns \in Nat \ {0}

VARIABLES
    workspace,      \* agent_workspace_states, in the backend's database
    store,          \* the engine's session
    turn            \* what each turn holds
vars == <<workspace, store, turn>>

NoPosting == [id |-> NoName, fetched |-> FALSE]
NoAnalysis == [posting |-> NoName, resume |-> NoName, keyed |-> FALSE]
NoRequest == [agent |-> NoName, missing |-> NoName, left |-> 0]
NoPlan == [agents |-> <<>>, requested |-> {}, blocked |-> {}, sure |-> FALSE,
           args |-> [fit |-> <<>>, fitResume |-> <<>>, diagnosis |-> <<>>, job |-> FALSE]]

\* The assets of session.py. analysis_key says what the analysis was computed
\* from (keyed, a ghost: it was written with the analysis); resume_library and
\* posting_library hold what was read before.
Session ==
    [resume: Resumes \cup {NoName},
     posting: [id: Postings \cup {NoName}, fetched: BOOLEAN],
     analysis: [posting: Postings \cup {NoName}, resume: Resumes \cup {NoName}, keyed: BOOLEAN],
     key: [posting: [id: Postings \cup {NoName}, fetched: BOOLEAN],
           resume: Resumes \cup {NoName}],
     recommendations: BOOLEAN, preferences: BOOLEAN, coverletter: BOOLEAN,
     interview: BOOLEAN, roadmap: BOOLEAN,
     resumes: SUBSET Resumes, postings: SUBSET Postings,
     consent: SUBSET Agents,
     request: [agent: Agents \cup {NoName},
               missing: {"resume", "job_posting", NoName}, left: 0 .. RequestTurns],
     askedFor: [id: Postings \cup {NoName}, fetched: BOOLEAN]]

EmptySession ==
    [resume |-> NoName, posting |-> NoPosting, analysis |-> NoAnalysis,
     key |-> [posting |-> NoPosting, resume |-> NoName],
     recommendations |-> FALSE, preferences |-> FALSE, coverletter |-> FALSE,
     interview |-> FALSE, roadmap |-> FALSE, resumes |-> {}, postings |-> {},
     consent |-> {}, request |-> NoRequest, askedFor |-> NoPosting]

\* A turn before it begins. base is the session it was given, gone says that
\* the backend no longer waits for it; allowed, a ghost, are the agents the
\* user asked for, consented to or asked for earlier.
NewTurn ==
    [pc |-> "idle", gone |-> FALSE, base |-> EmptySession, mine |-> EmptySession,
     pend |-> <<>>, plan |-> NoPlan, queue |-> <<>>, done |-> <<>>, replaced |-> FALSE,
     ask |-> FALSE, pending |-> {}, guess |-> {}, renewed |-> FALSE, allowed |-> {}]

-----------------------------------------------------------------------------
(* The assets of a session *)

SessionAssets(s, args) ==
    {x \in {"resume"} : s.resume # NoName} \cup
    {x \in {"job_posting"} : s.posting # NoPosting} \cup
    {x \in {"analysis"} : s.analysis # NoAnalysis} \cup
    {x \in {"recommendations", "coverletter", "interview", "roadmap"} : s[x]} \cup
    {x \in {"preferences"} : s.preferences \/ args.job}

\* A session, or other updates, after the updates u (session.update).
Onto(u, s) ==
    [f \in DOMAIN u \cup DOMAIN s |-> IF f \in DOMAIN u THEN u[f] ELSE s[f]]

Changed(t, u) == [t EXCEPT !.mine = Onto(u, @), !.pend = Onto(u, @)]
Discarded == [analysis |-> NoAnalysis]

\* preserve_active_resume, upsert_resume_library: the resumes the library holds once
\* the active one is in it.
Preserved(s) == IF s.resume = NoName THEN s.resumes ELSE s.resumes \cup {s.resume}

\* _apply_attachments, detect_posting_urls and detect_pasted_resume, for what was
\* sent in its order. A resume replaces the active one, which the library keeps;
\* a link is a posting whose text is not there yet. Whatever the verdict was made
\* from is gone, and the verdict with it.
Received(s, sent) ==
    LET Of(kinds) == {i \in DOMAIN sent : sent[i].kind \in kinds}
        resumes == Of({"resume", "resume_extra"})
        postings == Of({"text", "url"})
        Active(i) == IF \E j \in resumes : j < i
                     THEN sent[Max({j \in resumes : j < i})].id ELSE s.resume
        Given(indices, update) == IF indices = {} THEN <<>> ELSE update
        last == sent[Max(postings)]
    IN  Onto(Given(DOMAIN sent, Discarded),
          Onto(Given(resumes, [resume |-> sent[Max(resumes)].id]),
            Onto(Given(Of({"resume"}), [resumes |-> s.resumes
                         \cup ({Active(i) : i \in Of({"resume"})} \ {NoName})]),
                 Given(postings, [posting |-> [id |-> last.id, fetched |-> last.kind = "text"]]))))

Intake(t, sent) == Changed(t, Received(t.mine, sent))

SubmittedKinds(sent) ==
    {IF x.kind \in {"text", "url"} THEN "job_posting" ELSE x.kind : x \in ToSet(sent)}

\* What the user asked for is planned, whatever the planner left out, and a
\* verdict the new analysis owns is handed to the review of the posting.
Restored(plan) ==
    LET asked == SetToSeq({a \in plan.requested : a \notin ToSet(plan.agents)})
        Once(s) == FoldLeft(LAMBDA r, a : IF a \in ToSet(r) THEN r ELSE Append(r, a), <<>>, s)
        Swap(a) == IF a = "fit_analysis" THEN "posting_analysis" ELSE a
        all == plan.agents \o asked
    IN  IF Unified /\ "fit_analysis" \in ToSet(all) \cup plan.blocked
        THEN [plan EXCEPT !.agents = Once([i \in DOMAIN all |-> Swap(all[i])]),
                          !.requested = {Swap(a) : a \in @}, !.blocked = {Swap(a) : a \in @},
                          !.args = [@ EXCEPT !.fit = <<>>, !.fitResume = <<>>]]
        ELSE [plan EXCEPT !.agents = all]

\* A request the session cannot serve yet is remembered, the first one only.
Remember(t) ==
    LET lacking(a) == Feasibility(a, SessionAssets(t.mine, t.plan.args))
        later == {a \in t.plan.blocked : lacking(a) \in {"resume", "job_posting"}}
    IN  IF later = {} THEN {t}
        ELSE {[Changed(t, [request |-> [agent |-> a, missing |-> lacking(a),
                                        left |-> RequestTurns]]) EXCEPT !.renewed = TRUE] :
                a \in later}

\* A low confidence counts unless the first agent is about what was just sent.
Grounded(plan, kinds) ==
    LET spec == Registry[plan.agents[1]]
        assets == {IF k = "resume_extra" THEN "resume" ELSE k : k \in kinds}
    IN  (ToSet(spec.pre) \cup ToSet(spec.any)) \cap assets # {}

Decide(t, kinds) ==
    LET plan == t.plan
        follow == plan.agents # <<>> /\ (plan.sure \/ Grounded(plan, kinds))
    IN  IF follow
        THEN ValidatePlan(plan.agents, plan.requested, SessionAssets(t.mine, plan.args),
               t.mine.consent)
        ELSE Dispatch(<<Fallback>>, FALSE, <<>>)

Guess(t, kinds) ==
    IF t.plan.agents = <<>> \/ t.plan.sure \/ Grounded(t.plan, kinds) THEN {}
    ELSE ToSet(t.plan.agents) \ {Fallback}

\* resume_confirm_ask: a resume of the career store is confirmed once for the
\* posting the session holds, before a verdict on it.
ConfirmsResume(s, dispatch) ==
    /\ "fit_analysis" \in ToSet(dispatch.agents) \cup ToSet(dispatch.pending)
    /\ s.resume \in Stored
    /\ s.posting # NoPosting
    /\ s.askedFor # s.posting

Gate(t, dispatch) ==
    IF ConfirmsResume(t.mine, dispatch)
    THEN [turn |-> Changed(t, [askedFor |-> t.mine.posting]),
          dispatch |-> Dispatch(<<>>, TRUE,
             IF "fit_analysis" \in ToSet(dispatch.pending) THEN dispatch.pending
             ELSE Append(dispatch.pending, "fit_analysis"))]
    ELSE [turn |-> t, dispatch |-> dispatch]

\* Consent is used up when something it was given for is about to run.
ConsumeConsent(t, dispatch) ==
    IF t.mine.consent \cap ToSet(dispatch.agents) # {} /\ ~dispatch.ask
    THEN Changed(t, [consent |-> {}]) ELSE t

\* A remembered request is run as soon as it can be and forgotten when it has
\* waited long enough. prior is the request of the session before this turn.
Resume(t, prior, queue) ==
    LET forget == IF t.renewed THEN t ELSE Changed(t, [request |-> NoRequest])
        runnable == RunnableNow(prior.agent, SessionAssets(t.mine, t.plan.args))
        wait == IF t.renewed THEN t
                ELSE Changed(t, [request |-> IF prior.left > 1
                                   THEN [prior EXCEPT !.left = @ - 1] ELSE NoRequest])
    IN  CASE prior = NoRequest -> [turn |-> t, queue |-> queue]
          [] prior # NoRequest /\ prior.agent \in ToSet(queue) ->
               [turn |-> forget, queue |-> queue]
          [] prior # NoRequest /\ prior.agent \notin ToSet(queue) /\ runnable ->
               [turn |-> forget, queue |-> Append(queue, prior.agent)]
          [] OTHER -> [turn |-> wait, queue |-> queue]

\* What is queued before a remembered request: the posting is collected first,
\* then the plan.
InitialQueue(r, dispatch) ==
    IF r.mine.posting # NoPosting /\ ~r.mine.posting.fetched
    THEN <<"posting_fetch">> \o dispatch.agents ELSE dispatch.agents

\* The queue of a turn, with the reviews of what was submitted in front of the
\* verdict.
Enqueue(resumed, dispatch, reviews) ==
    LET at == SelectInSeq(resumed.queue, LAMBDA a : a = "fit_analysis")
    IN  [resumed.turn EXCEPT !.pc = "run", !.ask = dispatch.ask,
           !.pending = ToSet(dispatch.pending),
           !.queue = IF reviews = <<>> THEN resumed.queue
                     ELSE SubSeq(resumed.queue, 1, at - 1) \o reviews
                            \o SubSeq(resumed.queue, at, Len(resumed.queue))]

\* A question nothing can be run with ends the turn at once; with one, the
\* reviews of what was submitted are made meanwhile.
Opened(gate, reviews, prior, kinds) ==
    LET d == IF reviews = <<>> THEN gate.dispatch
             ELSE [gate.dispatch EXCEPT !.agents = reviews]
        guess == Guess(gate.turn, kinds)
    IN  IF gate.dispatch.ask /\ reviews = <<>> /\ gate.dispatch.agents = <<>>
        THEN {[gate.turn EXCEPT !.pc = "finish", !.ask = TRUE,
                                !.pending = ToSet(gate.dispatch.pending)]}
        ELSE {[Enqueue(resumed, d, ReviewInserts(resumed.queue, kinds)) EXCEPT !.guess = guess] :
                resumed \in {Resume(ConsumeConsent(gate.turn, d), prior, InitialQueue(gate.turn, d))}}

\* The turn up to its first agent.
Prepared(t, sent) ==
    LET kinds == SubmittedKinds(sent)
        prior == t.mine.request
        taken == [t EXCEPT !.allowed = t.plan.requested \cup t.mine.consent \cup {prior.agent}]
        Reviews(d) == IF d.ask THEN ReviewInserts(d.pending, kinds) ELSE <<>>
        gates == {Gate(r, Decide(r, kinds)) : r \in Remember(Intake(taken, sent))}
    IN  UNION {Opened(gate, Reviews(gate.dispatch), prior, kinds) : gate \in gates}

-----------------------------------------------------------------------------
(* What the agents do to the session. staged is written while the agent    *)
(* runs, hidden likewise but not to the session the turn works on, updates *)
(* when it has ended; data is what the rules look at.                      *)

Outcome(staged, updates, data) ==
    [staged |-> staged, hidden |-> <<>>, updates |-> updates, data |-> data]

\* ensure_posting_text: the text of a linked posting, when it can be had.
Collected(s) ==
    IF s.posting = NoPosting \/ s.posting.fetched THEN {<<>>}
    ELSE {<<>>, [posting |-> [s.posting EXCEPT !.fetched = TRUE]]}

\* ensure_profile adds the active resume to the library.
Profiled(s) == IF s.resume = NoName THEN <<>> ELSE [resumes |-> Preserved(s)]

PostingFetch(s) ==
    {Outcome(c, <<>>, IF Onto(c, s).posting.fetched THEN "done" ELSE "not_fetched") :
       c \in Collected(s)}

PostingAnalysis(s) ==
    UNION {{Outcome(c, u, "done") : u \in {<<>>, [postings |-> s.postings \cup {s.posting.id}]}} :
             c \in Collected(s)}

\* switch_active_resume: another resume of the library, and no verdict.
SwitchResume(s, r) ==
    IF r \in s.resumes \ {s.resume} THEN Onto([resume |-> r], Discarded) ELSE <<>>

ResumeDiagnosis(s, args) ==
    LET updates == IF Len(args.diagnosis) = 1 THEN SwitchResume(s, args.diagnosis[1]) ELSE <<>>
    IN  {Outcome(Profiled(Onto(updates, s)), updates, "done")}

\* Mutant: the key of a verdict is written only with the first one.
FirstKeyVerdicts(s, staged, switched) ==
    LET key == [posting |-> s.posting, resume |-> s.resume]
        verdict == [analysis |-> [posting |-> s.posting.id, resume |-> s.resume, keyed |-> TRUE],
                    key |-> IF s.key.posting = NoPosting THEN key ELSE s.key,
                    postings |-> s.postings \cup {s.posting.id}]
    IN  IF s.analysis # NoAnalysis /\ s.key = key
        THEN {Outcome(staged, switched, "done")}
        ELSE {Outcome(staged, Onto(verdict, switched), "done"), Outcome(staged, switched, "failed")}

\* fit_analysis.run for one posting and one resume. A verdict whose key is the
\* active posting and resume is given again.
Verdicts(s, staged, switched) ==
    LET key == [posting |-> s.posting, resume |-> s.resume]
        verdict == [analysis |-> [posting |-> s.posting.id, resume |-> s.resume, keyed |-> TRUE],
                    key |-> key, postings |-> s.postings \cup {s.posting.id}]
    IN  IF s.analysis # NoAnalysis /\ s.key = key
        THEN {Outcome(staged, switched, d) : d \in {"done", "weak"}}
        ELSE {Outcome(staged, Onto(verdict, switched), d) : d \in {"done", "weak"}}
               \cup {Outcome(staged, switched, "failed")}

\* A comparison of several postings or resumes keeps the verdict on the active
\* ones, and no key.
Comparison(s, staged, switched, active) ==
    LET verdict == [analysis |-> [posting |-> s.posting.id, resume |-> s.resume, keyed |-> FALSE]]
    IN  {Outcome(staged, u, "done") :
           u \in {switched} \cup {v \in {Onto(verdict, switched)} : active}}

\* _switch_active: the posting the user named, from the library or from the
\* recommendations; a recommended one is collected through a copy of the
\* session, so the turn itself does not see what is staged.
Targeted(s, p) ==
    CASE p \in s.postings ->
           {[updates |-> IF s.posting = [id |-> p, fetched |-> TRUE] THEN <<>>
                         ELSE [posting |-> [id |-> p, fetched |-> TRUE]],
             hidden |-> <<>>, found |-> TRUE]}
      [] p \notin s.postings /\ s.recommendations ->
           LET posting == [posting |-> [id |-> p, fetched |-> TRUE]]
           IN  {[updates |-> posting, hidden |-> posting, found |-> TRUE],
                [updates |-> <<>>, hidden |-> <<>>, found |-> FALSE]}
      [] OTHER -> {[updates |-> <<>>, hidden |-> <<>>, found |-> FALSE]}

NamedResumes(s, staged, target, names) ==
    LET r == names[1]
        at == Onto(target.updates, s)
        switched == Onto(SwitchResume(at, r), target.updates)
    IN  CASE Len(names) = 0 -> Verdicts(at, staged, target.updates)
          [] Len(names) = 1 /\ r \in at.resumes -> Verdicts(Onto(switched, at), staged, switched)
          [] Len(names) = 1 /\ r \notin at.resumes -> {Outcome(staged, <<>>, "needs_input")}
          [] OTHER -> Comparison(at, staged, target.updates,
                        at.resume \in ToSet(names) \cap at.resumes)

FitAnalysis(s, args) ==
    LET targets(c) == IF args.fit = <<>> THEN {[updates |-> <<>>, hidden |-> <<>>, found |-> TRUE]}
                      ELSE Targeted(Onto(c, s), args.fit[1])
        One(c, target) ==
          IF target.found
          THEN {[o EXCEPT !.hidden = target.hidden] :
                  o \in NamedResumes(Onto(c, s), c, target, args.fitResume)}
          ELSE {Outcome(c, <<>>, "needs_input")}
    IN  IF Len(args.fit) >= 2
        THEN UNION {Comparison(Onto(c, s), c, <<>>, /\ Onto(c, s).posting.fetched
                      /\ s.posting.id \in ToSet(args.fit) \cap s.postings) : c \in Collected(s)}
        ELSE UNION {UNION {One(c, target) : target \in targets(c)} : c \in Collected(s)}

\* The agents that write one asset of their own, or none of it.
Writes(a, s) ==
    LET product == CASE a = "job_recommend" -> [recommendations |-> TRUE]
                     [] a = "preference_intake" -> [preferences |-> TRUE]
                     [] a = "coverletter_draft" -> [coverletter |-> TRUE]
                     [] a = "interview_prep" -> [interview |-> TRUE]
                     [] OTHER -> <<>>
        staged == IF a \in {"job_recommend", "coverletter_draft"} THEN Profiled(s) ELSE <<>>
    IN  {Outcome(staged, u, "done") : u \in {<<>>, product}}

\* _execute: an agent that raises has staged what it staged, and that is all.
Executions(a, s, args) ==
    LET normal == CASE a = "posting_fetch" -> PostingFetch(s)
                    [] a = "posting_analysis" -> PostingAnalysis(s)
                    [] a = "resume_diagnosis" -> ResumeDiagnosis(s, args)
                    [] a = "fit_analysis" -> FitAnalysis(s, args)
                    [] OTHER -> Writes(a, s)
    IN  normal \cup {[o EXCEPT !.updates = <<>>, !.data = "crashed"] : o \in normal}

-----------------------------------------------------------------------------
(* The steps of a turn *)

\* Mutant: what the workspace does not say is left as it was.
LeftOver(left, given) ==
    [f \in DOMAIN given |-> IF given[f] = EmptySession[f] THEN left[f] ELSE given[f]]

\* The backend's workspace becomes the session, whatever was left in it, and
\* the career store is added: its resume stands in for a missing one and for
\* one that came from there, and joins the library.
Hydrated(left, given) == given

Seeded(s, career) ==
    LET seeds == career # NoName /\ (s.resume = NoName \/ s.resume \in Stored)
    IN  [s EXCEPT !.resume = IF seeds THEN career ELSE @,
                  !.resumes = @ \cup ({career} \ {NoName})]

AtRest(t) == turn[t].pc \in {"idle", "over"}
Free(t) == AtRest(t) \/ (Overlap /\ turn[t].gone)

\* Turns of a conversation are sent one after another.
Begin(t) ==
    /\ turn[t].pc = "idle"
    /\ \A u \in Turns \ {t} : Free(u) /\ (u < t => turn[u].pc # "idle")
    /\ \E career \in Careers :
         /\ store' = Seeded(Hydrated(store, workspace), career)
         /\ turn' = [turn EXCEPT ![t] = [NewTurn EXCEPT !.pc = "begun",
                                          !.base = Seeded(workspace, career)]]
    /\ UNCHANGED workspace

\* handle_chat up to the first agent, on a copy of the session.
Start(t) ==
    /\ turn[t].pc = "begun"
    /\ \E plan \in Plans \cup {NoPlan}, sent \in Submissions :
         \E ready \in Prepared([turn[t] EXCEPT !.mine = store, !.plan = Restored(plan)], sent) :
           turn' = [turn EXCEPT ![t] = ready]
    /\ UNCHANGED <<workspace, store>>

SkipDone(queue, done) ==
    LET n == CHOOSE k \in 0 .. Len(queue) :
               /\ \A i \in 1 .. k : queue[i] \in ToSet(done)
               /\ k = Len(queue) \/ queue[k + 1] \notin ToSet(done)
    IN  SubSeq(queue, n + 1, Len(queue))

\* The agents of the next batch: those that can run together when the turn
\* may still run that many, else the first.
Batch(r) ==
    LET group == ParallelGroup(r.queue, ToSet(r.done), SessionAssets(r.mine, r.plan.args))
    IN  IF Len(group) > 1 /\ Len(r.done) + Len(group) <= MaxSteps
        THEN group ELSE <<r.queue[1]>>

\* The updates of a batch one after another: of those who write a field the
\* last decides.
Merged(batch, update) ==
    [f \in UNION {DOMAIN update[a] : a \in ToSet(batch)} |->
       update[batch[Max({i \in DOMAIN batch : f \in DOMAIN update[batch[i]]})]][f]]

\* What the members of a batch left. Members that ran together each had a
\* copy: what they staged is merged in their order before their updates.
Absorbed(r, batch, outcome) ==
    LET alone == Len(batch) = 1
        staged == Merged(batch, [a \in ToSet(batch) |->
                    IF alone THEN outcome[a].staged ELSE Onto(outcome[a].hidden, outcome[a].staged)])
        hidden == IF alone THEN outcome[batch[1]].hidden ELSE <<>>
        updates == Merged(batch, [a \in ToSet(batch) |-> outcome[a].updates])
    IN  [r EXCEPT !.mine = Onto(updates, Onto(staged, @)),
                  !.pend = Onto(updates, Onto(hidden, Onto(staged, @)))]

\* The rules look at the batch; what they drop may be replaced once a turn.
Replanned(r, data) ==
    LET assets == SessionAssets(r.mine, r.plan.args)
        queue == Observe(data, r.queue, ToSet(r.done), assets)
        dropped == ToSet(r.queue) \ ToSet(queue)
        picks == Replacements(dropped, ToSet(r.done) \cup ToSet(queue), assets)
        Left(q, replaced) ==
          LET rest == SkipDone(q, r.done)
          IN  [r EXCEPT !.queue = rest, !.replaced = replaced,
                        !.pc = IF rest = <<>> \/ Len(r.done) >= MaxSteps
                               THEN "finish" ELSE "run"]
    IN  IF dropped = {} \/ r.replaced THEN {Left(queue, r.replaced)}
        ELSE {Left(queue, TRUE)} \cup {Left(Append(queue, a), TRUE) : a \in picks}

\* How the members of a batch may end, each on the session the batch was given.
Endings(batch, s, args) ==
    LET ends == UNION {{<<a, o>> : o \in Executions(a, s, args)} : a \in ToSet(batch)}
    IN  IF Len(batch) = 1 THEN {[a \in {batch[1]} |-> o] : o \in Executions(batch[1], s, args)}
        ELSE {f \in [ToSet(batch) -> {e[2] : e \in ends}] :
                \A a \in ToSet(batch) : <<a, f[a]>> \in ends}

\* One batch of agents and the observation of it.
Step(t) ==
    /\ turn[t].pc = "run"
    /\ LET r == turn[t]
           batch == Batch(r)
           ran == [r EXCEPT !.done = @ \o batch,
                            !.queue = SubSeq(@, Len(batch) + 1, Len(@))]
       IN  \E outcome \in Endings(batch, r.mine, r.plan.args) :
             \E next \in Replanned(Absorbed(ran, batch, outcome),
                                   {outcome[a].data : a \in ToSet(batch)}) :
               turn' = [turn EXCEPT ![t] = next]
    /\ UNCHANGED <<workspace, store>>

\* A guess is kept for a later yes, and so is what was asked about.
Closed(r) ==
    LET guessed == IF r.guess = {} THEN r ELSE Changed(r, [consent |-> r.guess])
    IN  IF r.ask THEN Changed(guessed, [consent |-> r.pending]) ELSE guessed

Over == [NewTurn EXCEPT !.pc = "over"]

\* The turn writes what it changed over the session as it is now.
Finish(t) ==
    /\ turn[t].pc = "finish"
    /\ LET r == Closed(turn[t])
       IN  /\ store' = Onto(r.pend, store)
           /\ turn' = [turn EXCEPT ![t] = IF r.gone THEN Over
                                          ELSE [r EXCEPT !.pc = "finished"]]
    /\ UNCHANGED workspace

\* The bridge reads the session again and the backend keeps what it reads.
Deliver(t) ==
    /\ turn[t].pc = "finished" /\ ~turn[t].gone
    /\ workspace' = store
    /\ turn' = [turn EXCEPT ![t] = Over]
    /\ UNCHANGED store

\* The backend stops waiting: cancelled, timed out or restarted. The thread of
\* the turn is not told.
Abandon(t) ==
    /\ ~AtRest(t) /\ ~turn[t].gone
    /\ turn' = [turn EXCEPT ![t] = IF @.pc = "finished" THEN Over ELSE [@ EXCEPT !.gone = TRUE]]
    /\ UNCHANGED <<workspace, store>>

\* An exception outside the agents, or the death of the worker.
Die(t) ==
    /\ ~AtRest(t)
    /\ turn' = [turn EXCEPT ![t] = Over]
    /\ UNCHANGED <<workspace, store>>

Init ==
    /\ workspace = EmptySession
    /\ store = EmptySession
    /\ turn = [t \in Turns |-> NewTurn]

Next ==
    \E t \in Turns :
      Begin(t) \/ Start(t) \/ Step(t) \/ Finish(t) \/ Deliver(t) \/ Abandon(t) \/ Die(t)

Spec == Init /\ [][Next]_vars

-----------------------------------------------------------------------------
(* Properties *)

\* The session, the workspace and the turns are well formed.
TypeOK ==
    /\ workspace \in Session /\ store \in Session
    /\ \A t \in Turns :
         /\ turn[t].pc \in {"idle", "begun", "run", "finish", "finished", "over"}
         /\ turn[t].base \in Session /\ turn[t].mine \in Session
         /\ DOMAIN turn[t].pend \subseteq DOMAIN EmptySession
         /\ ToSet(turn[t].queue) \cup ToSet(turn[t].done) \subseteq Agents

\* A verdict the backend keeps was made from the posting and the resume it
\* keeps (session.py: whatever replaces one discards it). Refuted: a switch of the
\* posting keeps the old one (fit_analysis.py).
AnalysisOfActiveAssets ==
    workspace.analysis # NoAnalysis =>
      /\ workspace.analysis.posting = workspace.posting.id
      /\ workspace.analysis.resume = workspace.resume

\* A verdict is given again for the posting and the resume it was made from: when
\* analysis_key names the active ones, the analysis is theirs (fit_analysis.py,
\* _analysis_key). Refuted: a comparison replaces the analysis and leaves the key
\* (_run_multi), and when the posting of the key is the active one again, the
\* verdict on the other posting is given as its own.
ReusedVerdictIsTheirs ==
    (workspace.analysis # NoAnalysis
       /\ workspace.key = [posting |-> workspace.posting, resume |-> workspace.resume]) =>
      /\ workspace.analysis.posting = workspace.posting.id
      /\ workspace.analysis.resume = workspace.resume

\* That holds of the verdict that was written with its key, whatever was switched,
\* replaced or abandoned since.
KeyTellsVerdict ==
    (workspace.analysis.keyed
       /\ workspace.key = [posting |-> workspace.posting, resume |-> workspace.resume]) =>
      /\ workspace.analysis.posting = workspace.posting.id
      /\ workspace.analysis.resume = workspace.resume

Ran(t) == ToSet(turn'[t].done) \ ToSet(turn[t].done)

Runnable(a, t) == RunnableNow(a, SessionAssets(turn[t].mine, turn[t].plan.args))

\* An agent runs only when what it needs is there (observe_rules.py: a draft
\* is never written on a verdict that was not made). Refuted: see the next one.
InputsPresent ==
    [][\A t \in Turns : \A a \in Ran(t) : Runnable(a, t)]_vars

\* That holds unless the posting could not be collected in this turn.
InputsPresentOnceCollectedStep ==
    \A t \in Turns :
      \A a \in Ran(t) : \/ Runnable(a, t)
                        \/ /\ "posting_fetch" \in ToSet(turn[t].done)
                           /\ ~turn[t].mine.posting.fetched

\* A heavy agent runs only when it was asked for or consented to.
HeavyOnlyWhenAskedStep ==
    \A t \in Turns : Ran(t) \cap Heavy \subseteq turn[t].allowed

\* What a turn asked consent for is remembered when it ends.
AskedIsRememberedStep ==
    \A t \in Turns : (Finish(t) /\ turn[t].ask) =>
      turn[t].pending \cap Heavy \subseteq store'.consent

\* What the backend keeps of a turn is what it gave the turn with the changes
\* of that turn.
DeliveredTurnsOnlyStep ==
    \A t \in Turns : Deliver(t) => workspace' = Onto(turn[t].pend, turn[t].base)
=============================================================================
