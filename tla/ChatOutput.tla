---------------------------- MODULE ChatOutput ----------------------------
(***************************************************************************)
(* What the bridge makes of a chat turn (chat_events, v2bridge/service.py) *)
(* and what the backend keeps of it (ChatReplyWorker).  The bridge reads   *)
(* the attachments from the message, seeds the engine's session with what  *)
(* the backend keeps of the conversation and of the user, relays the       *)
(* engine's events as progress and as a plan, and turns the result into an *)
(* answer: products, offers to act, the plan as it ran and what was        *)
(* collected for the user's profile.  Two conversations of one user run at *)
(* the same time.  How a turn is planned is the concern of ChatTurn; here  *)
(* the plan, what becomes of each agent and the facts it reads in the      *)
(* message are choices.                                                    *)
(***************************************************************************)
EXTENDS Integers, Sequences, FiniteSets, SequencesExt

CONSTANTS
    Chats,          \* conversations of one user
    Facts,          \* what the user may tell about himself
    Messages,       \* what the user may send in each conversation, and the assets he selected
    Plans,          \* what the planner and the validator decide
    MaxFacts,       \* _MAX_FACTS of user_facts.py
    MaxParallel,    \* _MAX_PARALLEL of chat.py, agents that may run at the same time
    MaxTurns        \* turns of an instance

None == "none"

VARIABLES
    kept,           \* agent_workspace_states, per conversation
    saved,          \* the user's profile and postings in the database
    turn,           \* the turn of each conversation
    answer,         \* the last answer of each conversation
    turns           \* turns begun
outputVars == <<kept, saved, turn, answer, turns>>

\* The assets of a session this module is about. summary is the posting that
\* posting_summary describes; resume says where the active one came from.
NewSession ==
    [posting |-> None, form |-> "none", linked |-> FALSE, summary |-> None,
     resume |-> "none", facts |-> <<>>, library |-> {}]
NewTurn == [pc |-> "idle"]
NoAnswer == [given |-> FALSE]

-----------------------------------------------------------------------------
(* What a message brings *)

Attachment(kind, form, p) == [kind |-> kind, form |-> form, posting |-> p]

\* A pasted text is a posting or a resume by its content, and a message that is
\* nothing but a link is a posting; a link within a message is left to the engine.
Promoted(m) ==
    CASE m.paste = "posting"   -> <<Attachment("job_posting", "text", m.posting)>>
      [] m.paste = "bare_link" -> <<Attachment("job_posting", "url", m.posting)>>
      [] m.paste = "resume"    -> <<Attachment("resume", "text", None)>>
      [] OTHER                 -> <<>>

\* A posting that comes with the message is the only one the turn is about.
Submitted(m) == m.paste \in {"posting", "bare_link", "link"}

\* _trailing_request: what is asked for behind a pasted text. A link alone asks
\* for nothing.
Said(m) == IF m.paste = "bare_link" THEN {} ELSE m.words

\* Assets the user selected are attached only when he also chose a mode.
Selected(m) ==
    (IF Submitted(m) THEN <<>>
     ELSE [i \in 1 .. Len(m.picked) |-> Attachment("job_posting", "text", m.picked[i])])
    \o (IF m.stored THEN <<Attachment("resume", "stored", None)>> ELSE <<>>)
Attached(m) == (IF m.auto THEN <<>> ELSE Selected(m)) \o Promoted(m)

\* What the engine does with an attachment or a link: a new posting has no
\* summary yet.
Taken(s, a) ==
    IF a.kind = "resume" THEN [s EXCEPT !.resume = IF a.form = "text" THEN "pasted" ELSE "stored"]
    ELSE [s EXCEPT !.posting = a.posting, !.form = a.form, !.linked = a.form = "url",
                   !.summary = None]
AllTaken(s, m) ==
    LET attached == FoldLeft(Taken, s, Attached(m))
    IN  IF m.paste = "link" THEN Taken(attached, Attachment("job_posting", "url", m.posting))
        ELSE attached

\* The session a turn starts with: what the backend keeps of the conversation,
\* the resume and the postings of the career store, and the facts of the profile
\* when the conversation knows none.
Seeded(c) ==
    [kept[c] EXCEPT
       !.resume = IF @ = "none" /\ saved.career THEN "career" ELSE @,
       !.library = @ \cup saved.postings,
       !.facts = IF @ = <<>> THEN saved.facts ELSE @]

-----------------------------------------------------------------------------
(* The plan the user sees *)

\* Each agent once, in the order of its first place.
Once(s) ==
    FoldLeft(LAMBDA seen, a : IF a \in ToSet(seen) THEN seen ELSE Append(seen, a), <<>>, s)

\* The groups of a plan: agents that ran at the same time share one.
Grouped(agents, batches) ==
    LET GroupOf(a) ==
          IF \E b \in ToSet(batches) : a \in ToSet(b)
          THEN SelectInSeq(batches, LAMBDA b : a \in ToSet(b)) ELSE 0
        Add(groups, a) ==
          LET placed == UNION {ToSet(g) : g \in ToSet(groups)}
              i == GroupOf(a)
              group == IF i = 0 THEN <<a>>
                       ELSE SelectSeq(batches[i], LAMBDA b : b \in ToSet(agents) \ placed)
          IN  IF a \in placed THEN groups ELSE Append(groups, group)
    IN  FoldLeft(Add, <<>>, agents)

\* _agent_plan: the queue of the last dispatch event and, when the turn is over,
\* the agents that ran.
PlanOf(t, over) ==
    LET agents == Once(t.dispatched \o (IF over THEN t.ran ELSE <<>>))
    IN  [groups |-> Grouped(IF agents = <<>> THEN t.planned ELSE agents, t.batches),
         status |-> IF over THEN "COMPLETED" ELSE "PENDING",
         changed |-> agents # t.planned]

-----------------------------------------------------------------------------
(* What the answer offers *)

ProductOf == [posting_analysis |-> "POSTING_ANALYSIS", coverletter_draft |-> "COVER_LETTER_DRAFT",
              interview_prep |-> "INTERVIEW_SET", roadmap_manager |-> "ROADMAP_VIEW"]
\* _work_products: of every agent that ran, in the order they ran; one that
\* crashed has an empty result, which is a result.
Products(t) == SelectSeq(t.ran, LAMBDA a : a \in DOMAIN ProductOf)

\* _artifact: the last result that has a form of its own.
Artifact(t) ==
    LET shown == SelectSeq(t.ran, LAMBDA a : a \in {"posting_analysis", "coverletter_draft", "interview_prep"})
    IN  IF shown = <<>> THEN None ELSE Last(shown)

\* A posting the bridge can name by the id it came with.
Known(t) == t.known \cup ToSet(t.message.picked)

\* The posting of an offer to analyse: the text of this message before the
\* session's, and the facts that were read in this turn before the session's; an
\* analysis that crashed has read none.
ReviewedPosting(t) ==
    IF t.message.paste = "posting" THEN t.message.posting
    ELSE IF t.session.form = "text" THEN t.session.posting ELSE None
ReviewedFacts(t) == IF t.read # None THEN t.read ELSE t.session.summary

Asked(t) == Said(t.message) \cap {"roadmap", "analyse"} # {}

BoundByAsking(t, p) == Asked(t)
\* The offer needs no consent when the user asked for it and the posting is one
\* the service knows, or one whose link is in the message.
Bound(t, p) == Asked(t) /\ (p \in Known(t) \/ (t.message.paste = "link" /\ t.message.posting = p))

Review(t) ==
    IF /\ "posting_analysis" \in ToSet(t.ran) \/ "roadmap" \in Said(t.message)
       /\ ReviewedPosting(t) # None /\ ReviewedFacts(t) # None
    THEN {[posting |-> ReviewedPosting(t), facts |-> ReviewedFacts(t),
           consent |-> ~Bound(t, ReviewedPosting(t))]}
    ELSE {}

\* _work_product_actions: a draft is saved with consent, an interview starts
\* without when the user asked for it.
Offers(t) ==
    {[to |-> "SAVE_DRAFT", consent |-> TRUE] : a \in ToSet(Products(t)) \cap {"coverletter_draft"}}
    \cup {[to |-> "START_INTERVIEW", consent |-> "interview" \notin Said(t.message)] :
            a \in ToSet(Products(t)) \cap {"interview_prep"}}

\* chat_actions: the map is offered when an agent filled it, except that a
\* roadmap that is to be built is not on it yet.
MapOffered(t) == "roadmap_manager" \in ToSet(t.ran) /\ "roadmap" \notin Said(t.message)

RoadmapReply(t) ==
    IF "roadmap" \notin Said(t.message) THEN "own"
    ELSE IF \E r \in Review(t) : ~r.consent THEN "being analysed"
    ELSE IF Review(t) # {} THEN "confirm the posting" ELSE "send a posting"

-----------------------------------------------------------------------------
(* What is collected for the profile *)

Kinds(t) == {a.kind : a \in ToSet(Attached(t.message))}

CollectedPosting(t) ==
    IF /\ "posting_fetch" \in ToSet(t.ran) \/ "job_posting" \in Kinds(t)
       /\ t.session.form = "text"
    THEN {t.session.posting} ELSE {}
CollectedResume(t) ==
    IF "resume" \in Kinds(t) /\ t.session.resume # "career" THEN {t.session.resume} ELSE {}
\* Facts are collected when there are more than before the turn.
CollectedFacts(t) ==
    IF Len(t.session.facts) > Len(t.before.facts) THEN t.session.facts ELSE <<>>

-----------------------------------------------------------------------------
(* A turn *)

OutputInit ==
    /\ kept = [c \in Chats |-> NewSession]
    /\ saved \in [facts: {<<>>}, postings: {{}}, career: BOOLEAN]
    /\ turn = [c \in Chats |-> NewTurn]
    /\ answer = [c \in Chats |-> NoAnswer]
    /\ turns = 0

\* The backend sends a message with what it keeps; the bridge seeds the session
\* and starts the engine, which takes the attachments in.
Begin(c) ==
    /\ turn[c].pc = "idle" /\ turns < MaxTurns
    /\ \E m \in Messages[c] :
         /\ m.stored => saved.career
         /\ ToSet(m.picked) \subseteq saved.postings
         /\ turn' = [turn EXCEPT ![c] =
              [pc |-> "deciding", message |-> m, known |-> saved.postings, before |-> Seeded(c),
               session |-> AllTaken(Seeded(c), m), planned |-> <<>>, dispatched |-> <<>>,
               batches |-> <<>>, queue |-> <<>>, ran |-> <<>>, read |-> None, plan |-> <<>>]]
    /\ turns' = turns + 1
    /\ UNCHANGED <<kept, saved, answer>>

\* The planner's selection and the validator's sequence; a posting that is only
\* a link is collected first.
Decide(c) ==
    LET t == turn[c]
    IN  /\ t.pc = "deciding"
        /\ \E p \in Plans :
             LET queue == IF t.session.form = "url" THEN <<"posting_fetch">> \o p.agents ELSE p.agents
                 decided == [t EXCEPT !.pc = "running", !.planned = p.selected, !.dispatched = queue,
                                      !.queue = queue]
             IN  turn' = [turn EXCEPT ![c] = [decided EXCEPT !.plan = PlanOf(decided, FALSE)]]
    /\ UNCHANGED <<kept, saved, answer, turns>>

\* upsert_posting_library
Shelved(s) == [s EXCEPT !.summary = s.posting, !.library = @ \cup {s.posting}]

\* What an agent may leave in the session and read: the collected text of a link,
\* the facts of the posting, or nothing when it crashes.
Outcomes(a, s) ==
    {[session |-> s, read |-> None]} \cup
    (IF a \in {"posting_fetch", "posting_analysis"} /\ s.posting # None
     THEN LET fetched == [s EXCEPT !.form = "text"]
          IN  IF a = "posting_fetch" THEN {[session |-> fetched, read |-> None]}
              ELSE {[session |-> Shelved(fetched), read |-> s.posting]}
     ELSE {})

\* The agent of a batch that changes the posting, or the first.
Lead(batch) == IF "posting_analysis" \in ToSet(batch) THEN "posting_analysis" ELSE Head(batch)

\* The head of the queue runs, or the first few together, a collection always
\* alone (parallel_group); what can not run any more is dropped, and once a
\* conversation takes its place.
Run(c) ==
    LET t == turn[c]
    IN  /\ t.pc = "running" /\ t.queue # <<>>
        /\ \E k \in 1 .. Min({MaxParallel, Len(t.queue)}) :
           LET batch == SubSeq(t.queue, 1, k)
               rest == SubSeq(t.queue, k + 1, Len(t.queue))
           IN  /\ k > 1 => "posting_fetch" \notin ToSet(batch)
               /\ \E o \in Outcomes(Lead(batch), t.session) :
                    LET left == IF o.session.form = "url" /\ "posting_fetch" \in ToSet(batch)
                                THEN SelectSeq(rest, LAMBDA a : a # "posting_analysis") ELSE rest
                        \* a crash of the collection may be made good by a conversation
                        next == IF left # rest /\ "career_chat" \notin ToSet(t.ran \o rest)
                                THEN {left, Append(left, "career_chat")} ELSE {left}
                        ranNow == [t EXCEPT !.ran = @ \o batch, !.session = o.session,
                                            !.read = IF Lead(batch) = "posting_analysis"
                                                     THEN o.read ELSE @,
                                            !.batches = IF k > 1 THEN Append(@, batch) ELSE @]
                    IN  \E q \in next :
                          turn' = [turn EXCEPT ![c] =
                            [ranNow EXCEPT !.queue = q,
                                           !.plan = IF k > 1 THEN PlanOf(ranNow, FALSE) ELSE @]]
    /\ UNCHANGED <<kept, saved, answer, turns>>

\* The facts the engine read in the message join those of the session, the
\* oldest leave; then the bridge composes the answer.
Remembered(facts, new) ==
    LET all == facts \o SetToSeq(new \ ToSet(facts))
    IN  SubSeq(all, Max({1, Len(all) - MaxFacts + 1}), Len(all))

\* _start_user_facts, _collect_user_facts: a thread of its own reads them; none when it
\* fails or takes longer than the turn waits.
FactsRead == {{}} \cup {{f} : f \in Facts}

\* What the answer shows of a turn that is over: with a posting to confirm, that alone.
Composed(d) ==
    LET shown == Review(d) = {}
    IN  [given |-> TRUE, message |-> d.message, known |-> Known(d), ran |-> d.ran,
         batches |-> d.batches,
         products |-> IF shown THEN Products(d) ELSE <<>>,
         artifact |-> IF shown THEN Artifact(d) ELSE None,
         review |-> Review(d), offers |-> Offers(d), map |-> MapOffered(d),
         reply |-> RoadmapReply(d), plan |-> d.plan]

Deliver(c) ==
    LET t == turn[c]
    IN  /\ t.pc = "running" /\ t.queue = <<>>
        /\ \E new \in FactsRead :
             LET d == [t EXCEPT !.pc = "answered",
                                !.session.facts = Remembered(@, new), !.plan = PlanOf(t, TRUE)]
             IN  turn' = [turn EXCEPT ![c] = d] /\ answer' = [answer EXCEPT ![c] = Composed(d)]
    /\ UNCHANGED <<kept, saved, turns>>

\* The backend keeps the workspace of the answer and projects what was collected:
\* facts replace the facts of the profile.
Persist(c) ==
    LET t == turn[c]
        facts == CollectedFacts(t)
    IN  /\ t.pc = "answered"
        /\ kept' = [kept EXCEPT ![c] = t.session]
        /\ saved' = [saved EXCEPT !.postings = @ \cup CollectedPosting(t),
                                  !.facts = IF facts # <<>> THEN facts ELSE @,
                                  !.career = @ \/ CollectedResume(t) # {}]
        /\ turn' = [turn EXCEPT ![c] = NewTurn]
    /\ UNCHANGED <<answer, turns>>

\* The turn fails, or the backend has given it up: nothing of it is kept.
Lose(c) ==
    /\ turn[c].pc # "idle"
    /\ turn' = [turn EXCEPT ![c] = NewTurn]
    /\ answer' = [answer EXCEPT ![c] = NoAnswer]
    /\ UNCHANGED <<kept, saved, turns>>

OutputDone ==
    /\ turns = MaxTurns /\ \A c \in Chats : turn[c].pc = "idle"
    /\ UNCHANGED outputVars

OutputNext ==
    \/ \E c \in Chats : Begin(c) \/ Decide(c) \/ Run(c) \/ Deliver(c) \/ Persist(c) \/ Lose(c)
    \/ OutputDone

-----------------------------------------------------------------------------
(* Properties *)

\* The plan of an answer holds every agent that ran exactly once; agents that ran
\* at the same time share a group, and only they do (_agent_plan, parallel_group).
PlanIsWhatRan ==
    \A c \in Chats : answer[c].given =>
      LET groups == answer[c].plan.groups
          all == FlattenSeq(groups)
      IN  /\ ToSet(answer[c].ran) \subseteq ToSet(all)
          /\ IsInjective(all)
          /\ \A b \in ToSet(answer[c].batches) : \E g \in ToSet(groups) : ToSet(b) = ToSet(g)
          /\ \A g \in ToSet(groups) : Len(g) # 1 => g \in ToSet(answer[c].batches)

\* What the service may do without asking was asked for in this message, and its
\* posting is one the service knows or the message links to; the facts shown
\* with it are that posting's, however many turns ago they were read
\* (_posting_analysis_actions, _matching_posting_id).
AutomaticIsBound ==
    \A c \in Chats : answer[c].given =>
      LET m == answer[c].message
      IN  /\ \A r \in answer[c].review :
               /\ r.facts = r.posting
               /\ ~r.consent => r.posting \in answer[c].known \cup ({m.posting} \ {None})
               /\ ~r.consent /\ r.posting \notin answer[c].known => m.paste = "link"
          /\ \A o \in answer[c].offers : ~o.consent => "interview" \in m.words

\* A posting to confirm stands alone, and a user who asked for a roadmap is not
\* sent to the old map, nor told that a posting is being analysed that still
\* waits for his consent (chat_events).
ReviewStandsAlone ==
    \A c \in Chats : answer[c].given =>
      /\ answer[c].review # {} => answer[c].products = <<>> /\ answer[c].artifact = None
      /\ "roadmap" \in Said(answer[c].message) => ~answer[c].map
      /\ answer[c].reply = "being analysed" => \E r \in answer[c].review : ~r.consent

\* A fact the user tells reaches his profile with the turn that is kept, unless
\* the conversation holds as many as it can (_collected_assets, user_facts.py).
FactsReachTheProfile ==
    \A c \in Chats :
      (turn[c].pc = "answered" /\ turn'[c].pc = "idle" /\ kept'[c] # kept[c]
         /\ Len(turn[c].before.facts) < MaxFacts
         /\ ToSet(turn[c].session.facts) # ToSet(turn[c].before.facts)) =>
        ToSet(turn[c].session.facts) \subseteq ToSet(saved'.facts)
=============================================================================
