------------------------------ MODULE WebBridge ------------------------------
(***************************************************************************)
(* The bridge between the web's connection and the assistant               *)
(* (webbridge/app.py, runner.py, http_handlers.chat_turn, store.py).  An   *)
(* analysis is a worker thread that runs turns of the assistant on the     *)
(* session of its user and asks back through a channel; the connection     *)
(* takes answers in at any time, late ones too, and may close; a chat over *)
(* HTTP runs on the same session.  What a turn does is chosen.             *)
(***************************************************************************)
EXTENDS Integers, Sequences, FiniteSets, TLC

CONSTANTS
    Analyses,       \* [analysis -> [user, posting, source, evidence]]; user "none" is an old backend
    CompanyOf,      \* the company and the role of a posting
    RoleOf,
    MaxTurns,       \* MAX_TURNS
    MaxEntries,     \* _MAX_ENTRIES of the store
    Asking,         \* what a turn may ask for: sequences of "resume" and "field"
    Said,           \* what a user may answer, "" among it or not
    ChatSessions,   \* the sessions chats over HTTP name: a user's, or "web"
    MaxChats        \* bound: such chats

VARIABLES
    sessions,   \* the assets of each session
    channel,    \* what has come in on each connection, and whether it is closed
    worker,     \* the thread of each analysis
    shown,      \* what each connection was sent
    recent,     \* the store: the reports that are kept, numbered by their age, and the last one
    chats

bridgeVars == <<sessions, channel, worker, shown, recent, chats>>

None == "none"
Ids == DOMAIN Analyses

\* _session_id: the session of the user, or one of the analysis alone
SessionOf(a) == IF Analyses[a].user # None THEN Analyses[a].user ELSE a
Sessions == ChatSessions \cup {SessionOf(a) : a \in Ids}

NoAssets == [posting |-> None, resume |-> FALSE, analysis |-> None, summary |-> None, judgement |-> None]
Waiting == [at |-> "waiting"]

BridgeInit ==
    /\ sessions = [s \in Sessions |-> NoAssets]
    /\ channel = [a \in Ids |-> [closed |-> FALSE, answers |-> <<>>]]
    /\ worker = [a \in Ids |-> Waiting]
    /\ shown = [a \in Ids |-> [context |-> 0, asked |-> <<>>, ended |-> <<>>]]
    /\ recent = [entries |-> {}, last |-> None, nr |-> 0] /\ chats = 0

\* Channel.emit: nothing goes out once the channel is closed
Open(a) == ~channel[a].closed
Emit(a, what) == shown' = IF Open(a) THEN [shown EXCEPT ![a] = what] ELSE shown
Ended(a, end) == [shown[a] EXCEPT !.ended = Append(@, end)]

\* _resolve_posting: a text, the fields of a sample, or what a URL gives
Resolved(a) == Analyses[a].source \in {"text", "fields", "url"}
\* run_session, up to the turns
Start(a) ==
    /\ worker[a] = Waiting /\ Open(a)
    /\ IF Resolved(a)
       THEN /\ sessions' = [sessions EXCEPT
                  ![SessionOf(a)].posting = Analyses[a].posting,
                  ![SessionOf(a)].resume = @ \/ Analyses[a].evidence]
            /\ worker' = [worker EXCEPT ![a] = [at |-> "turn", turn |-> 1, posting |-> None, judged |-> None]]
            /\ UNCHANGED shown
       ELSE /\ worker' = [worker EXCEPT ![a] = [at |-> "over"]]
            /\ Emit(a, Ended(a, [kind |-> "error", posting |-> None]))
            /\ UNCHANGED sessions
    /\ UNCHANGED <<channel, recent, chats>>

\* The top of the loop, and the start of a turn: it works on what the session holds now
BeginTurn(a) ==
    /\ worker[a].at = "turn"
    /\ worker' = [worker EXCEPT ![a] =
         IF ~Open(a) THEN [at |-> "over"]
         ELSE IF worker[a].turn > MaxTurns THEN [@ EXCEPT !.at = "concluding"]
         ELSE [at |-> "running", turn |-> @.turn, posting |-> @.posting, judged |-> @.judged,
               about |-> sessions[SessionOf(a)].posting]]
    /\ UNCHANGED <<sessions, channel, shown, recent, chats>>

\* What a turn may come to: it fails; it understands the posting; with a resume it may judge;
\* or it asks for a resume, or one or two questions
Outcomes(a) ==
    [fails : {TRUE}] \cup
    {o \in [fails : {FALSE}, reads : BOOLEAN, judges : BOOLEAN,
            asks : Asking] :
        o.judges => (o.reads /\ sessions[SessionOf(a)].resume)}

\* _relay and _absorb_results: the first context goes out at once, and only that one
EndTurn(a, o) ==
    /\ worker[a].at = "running" /\ o \in Outcomes(a)
    /\ LET w == worker[a]
           read == ~o.fails /\ o.reads /\ w.posting = None
       IN  /\ Emit(a, IF o.fails THEN Ended(a, [kind |-> "error", posting |-> None])
                      ELSE IF read THEN [shown[a] EXCEPT !.context = @ + 1] ELSE shown[a])
           /\ worker' = [worker EXCEPT ![a] =
                IF o.fails \/ ~Open(a) THEN [at |-> "over"]
                ELSE IF o.judges
                THEN [at |-> "finishing", judged |-> w.about]
                ELSE [at |-> IF o.asks = <<>> THEN "concluding" ELSE "asking", turn |-> w.turn,
                      posting |-> IF read THEN w.about ELSE w.posting, judged |-> None,
                      asks |-> o.asks, said |-> FALSE]]
    /\ UNCHANGED <<sessions, channel, recent, chats>>

\* Channel.ask: the question goes out, and what comes next on the queue is its answer
Ask(a) ==
    /\ worker[a].at = "asking"
    /\ IF ~Open(a)
       THEN worker' = [worker EXCEPT ![a] = [at |-> "over"]] /\ UNCHANGED shown
       ELSE /\ worker' = [worker EXCEPT ![a].at = "listening"]
            /\ Emit(a, [shown[a] EXCEPT !.asked = Append(@, Head(worker[a].asks))])
    /\ UNCHANGED <<sessions, channel, recent, chats>>
\* What follows an answer, or none within the time: a resume ends the questions
After(a, got) ==
    LET w == worker[a]
    IN  IF Head(w.asks) = "resume"
        THEN IF got THEN [w EXCEPT !.at = "turn", !.turn = @ + 1] ELSE [w EXCEPT !.at = "concluding"]
        ELSE IF Tail(w.asks) # <<>>
        THEN [w EXCEPT !.at = "asking", !.asks = Tail(@), !.said = @ \/ got]
        ELSE IF w.said \/ got THEN [w EXCEPT !.at = "turn", !.turn = @ + 1]
        ELSE [w EXCEPT !.at = "concluding"]
Hear(a) ==
    /\ worker[a].at = "listening" /\ channel[a].answers # <<>>
    /\ LET got == Head(channel[a].answers).text # ""
       IN  /\ worker' = [worker EXCEPT ![a] =
                            IF ~Open(a) /\ Head(worker[a].asks) # "resume" THEN [at |-> "over"] ELSE After(a, got)]
           /\ sessions' = IF Head(worker[a].asks) = "resume" /\ got
                          THEN [sessions EXCEPT ![SessionOf(a)].resume = TRUE] ELSE sessions
    /\ channel' = [channel EXCEPT ![a].answers = Tail(@)]
    /\ UNCHANGED <<shown, recent, chats>>
GiveUp(a) ==
    /\ worker[a].at = "listening" /\ channel[a].answers = <<>>
    /\ worker' = [worker EXCEPT ![a] = After(a, FALSE)]
    /\ UNCHANGED <<sessions, channel, shown, recent, chats>>

\* remember: what it stores is the newest of its company and role, and the oldest of all
\* goes when there are too many
Key(p) == <<CompanyOf[p], RoleOf[p]>>
Oldest(those) == {e \in those : \A f \in those : e.nr <= f.nr}
Remembered(p) ==
    LET all == {e \in recent.entries : Key(e.posting) # Key(p)} \cup {[posting |-> p, nr |-> recent.nr + 1]}
    IN  IF Cardinality(all) > MaxEntries THEN all \ Oldest(all) ELSE all
\* recall: the company and the role, or the newest of the company, or the newest of all
Recall(company, role) ==
    LET exact == {e \in recent.entries : Key(e.posting) = <<company, role>>}
        some == {e \in recent.entries : company # "" /\ CompanyOf[e.posting] = company}
        found == IF exact # {} THEN exact ELSE some
    IN  IF found = {} THEN recent.last
        ELSE (CHOOSE e \in found : \A f \in found : f.nr <= e.nr).posting

\* _finish: the plan is made on the session, the report is kept, and DONE goes out
Finish(a) ==
    /\ worker[a].at = "finishing"
    /\ sessions' = [sessions EXCEPT ![SessionOf(a)].analysis = worker[a].judged]
    /\ recent' = [entries |-> Remembered(worker[a].judged), last |-> worker[a].judged, nr |-> recent.nr + 1]
    /\ Emit(a, Ended(a, [kind |-> "done", posting |-> worker[a].judged]))
    /\ worker' = [worker EXCEPT ![a] = [at |-> "over"]]
    /\ UNCHANGED <<channel, chats>>
\* _finish_without_judgment: a report that judges nothing, with the requirements as open
Unjudged(a) == Ended(a, [kind |-> "done", posting |-> None])
Conclude(a) ==
    /\ worker[a].at = "concluding"
    /\ Emit(a, Unjudged(a))
    /\ worker' = [worker EXCEPT ![a] = [at |-> "over"]]
    /\ UNCHANGED <<sessions, channel, recent, chats>>

\* agent_ws: an answer comes in whenever the user sends one, whatever was asked meanwhile
UserAnswers(a, text) ==
    /\ Open(a) /\ worker[a] # Waiting /\ shown[a].asked # <<>>
    /\ Len(channel[a].answers) < 1
    /\ channel' = [channel EXCEPT ![a].answers = Append(@, [text |-> text])]
    /\ UNCHANGED <<sessions, worker, shown, recent, chats>>
\* Channel.close: a thread that listens is woken by an empty answer
Disconnect(a) ==
    /\ Open(a)
    /\ channel' = [channel EXCEPT ![a] = [closed |-> TRUE, answers |-> Append(@.answers, [text |-> ""])]]
    /\ UNCHANGED <<sessions, worker, shown, recent, chats>>

\* chat_turn: attachments, or a posting pasted as a message, become assets; what a turn reads
\* and judges stays for the panel
Promoted(session, given) == [session EXCEPT !.posting = IF given = None THEN @ ELSE given]
Panel(session, reads, judges) ==
    [session EXCEPT !.summary = IF reads THEN session.posting ELSE @,
                    !.judgement = IF judges THEN session.posting ELSE @,
                    !.analysis = IF judges THEN session.posting ELSE @]
Chat(s, given, reads, judges) ==
    /\ chats < MaxChats /\ chats' = chats + 1
    /\ LET session == Promoted(sessions[s], given)
       IN  /\ (reads \/ judges) => session.posting # None
           /\ judges => (session.resume /\ reads)
           /\ sessions' = [sessions EXCEPT ![s] = Panel(session, reads, judges)]
    /\ UNCHANGED <<channel, worker, shown, recent>>

BridgeNext ==
    \/ \E a \in Ids : Start(a) \/ BeginTurn(a) \/ Ask(a) \/ Hear(a) \/ GiveUp(a) \/ Finish(a) \/ Conclude(a)
    \/ \E a \in Ids : \E o \in Outcomes(a) : EndTurn(a, o)
    \/ \E a \in Ids, text \in Said : UserAnswers(a, text)
    \/ \E a \in Ids : Disconnect(a)
    \/ \E s \in ChatSessions, given \in {Analyses[a].posting : a \in Ids} \cup {None}, reads, judges \in BOOLEAN :
          Chat(s, given, reads, judges)

-----------------------------------------------------------------------------
\* The web closes a run when DONE or ERROR comes: an analysis whose connection is open ends
\* with one of them, sends nothing of the kind before its end and never two, and the context of
\* the posting goes out once at most (runner.py, _finish_without_judgment)
EndsOnce ==
    \A a \in Ids :
      /\ Len(shown[a].ended) <= 1 /\ shown[a].context <= 1
      /\ shown[a].ended # <<>> => worker[a].at = "over"
      /\ (worker[a].at = "over" /\ Open(a)) => shown[a].ended # <<>>

\* An analysis without a user is on its own: its report is about its posting, whatever else
\* runs (runner.py, _session_id)
OwnReport ==
    \A a \in Ids : \A i \in DOMAIN shown[a].ended :
      (Analyses[a].user = None /\ shown[a].ended[i].posting # None)
        => shown[a].ended[i].posting = Analyses[a].posting

\* The follow-up of an analysis finds it: the newest report is found by its company and
\* role, and by its company alone unless an older report of it has no role (store.py, recall)
NewestIsRecalled ==
    recent.last # None =>
      LET p == recent.last
      IN  /\ Recall(CompanyOf[p], RoleOf[p]) = p
          /\ (\A e \in recent.entries : Key(e.posting) # <<CompanyOf[p], "">>) => Recall(CompanyOf[p], "") = p

\* The same for every analysis, a user's too. Refuted: while it waits,
\* a chat of the same user changes the posting of the session both share
EachReportIsOwn ==
    \A a \in Ids : \A i \in DOMAIN shown[a].ended :
      shown[a].ended[i].posting # None => shown[a].ended[i].posting = Analyses[a].posting
=============================================================================
