---------------------------- MODULE CodexSession ----------------------------
(***************************************************************************)
(* The session with the Codex service that the threads of the AI service   *)
(* share (codex_oauth_adapter/provider.py, codex_llm.py): one file holds   *)
(* the access and the refresh token, each thread loads it, refreshes it    *)
(* when it is stale or was refused, and saves it through one temporary     *)
(* file of a fixed name; an operator logs in and out.  A request is sent   *)
(* at most twice, and what comes back is read event by event.              *)
(*                                                                         *)
(* A file is a sequence of cells that name the pair they were written      *)
(* from: writing overlays what is there, as the texts of two pairs need    *)
(* not have the same length.                                               *)
(***************************************************************************)
EXTENDS Integers, Sequences, SequencesExt, FiniteSets, TLC

CONSTANTS
    Threads,        \* of the service
    Operator,       \* the command line: login and logout
    MaxPairs,       \* bound on the pairs the service of tokens issues
    Sizes,          \* the length of the text of each pair
    Streams         \* what a response may hold: sequences of events

VARIABLES
    file,           \* auth.json: the number of its inode, 0 if there is none
    temp,           \* auth.tmp, likewise
    cells,          \* the cells of each inode
    issued,         \* the pairs issued so far
    live,           \* the access tokens the service accepts
    fresh,          \* the refresh tokens it accepts
    stale,          \* the access tokens whose time is nearly over
    caller,         \* what each thread, and the operator, is at
    mishap          \* history: two refreshed or saved at once, a restart cut one off, or what
                    \* the service had made of a refresh token it takes no more was not kept

sessionVars == <<file, temp, cells, issued, live, fresh, stale, caller, mishap>>

Nobody == 0
Callers == Threads \cup {Operator}
Pairs == 1..issued
Idle == [at |-> "idle", pair |-> Nobody, attempt |-> 1, inode |-> 0, refused |-> {},
         rotated |-> FALSE]

-----------------------------------------------------------------------------
(* The file *)

\* What is written for a pair
TextOf(pair) == [i \in 1..Sizes[pair] |-> pair]

\* _load: the text is parsed and holds both tokens
Readable(inode) ==
    /\ inode # 0 /\ cells[inode] # <<>>
    /\ cells[inode] = TextOf(Head(cells[inode]))

\* What write leaves of a file that a text is written over, from its start
Overlaid(old, text) == text \o SubSeq(old, Len(text) + 1, Len(old))

-----------------------------------------------------------------------------
(* What a response is read into (complete and CodexChat.stream) *)

Event(kind, phase) == [kind |-> kind, phase |-> phase]
Hidden == {"analysis", "commentary"}
Reading == [phase |-> "none", text |-> <<>>, fallback |-> <<>>, calls |-> 0, ended |-> "cut"]

\* One event; what follows a terminal event, or an error, is not read
Heard(r, e) ==
    CASE r.ended # "cut" -> r
      [] e.kind = "added" -> [r EXCEPT !.phase = e.phase]
      [] e.kind = "delta" ->
           IF r.phase \in Hidden THEN r ELSE [r EXCEPT !.text = Append(@, e.phase)]
      [] e.kind = "message" -> [r EXCEPT !.fallback = Append(@, e.phase)]
      [] e.kind = "call" -> [r EXCEPT !.calls = @ + 1]
      [] e.kind \in {"error", "completed", "incomplete", "failed"} -> [r EXCEPT !.ended = e.kind]
      [] OTHER -> r

Read(events) == FoldLeft(Heard, Reading, events)

\* The answer: the deltas, or the finished messages when there were none
Content(r) == IF r.text # <<>> THEN r.text ELSE r.fallback
Complete(r) == r.ended = "completed" /\ (Content(r) # <<>> \/ r.calls > 0)

-----------------------------------------------------------------------------
(* The steps of a thread *)

SessionInit ==
    /\ file = 1 /\ temp = 0 /\ cells = <<TextOf(1)>> /\ issued = 1
    /\ live = {1} /\ fresh = {1} /\ stale = {} /\ mishap = FALSE
    /\ caller = [c \in Callers |-> Idle]

\* Bounds on what is issued: after a mishap only a second pair
MayIssue == issued < MaxPairs /\ (mishap => issued < 2)

Saving(c) == caller[c].at \in {"refresh", "open", "write", "replace"}

Goes(c, now) ==
    /\ caller' = [caller EXCEPT ![c] = now]
    /\ mishap' = (mishap \/ \E d \in Callers \ {c} : Saving(c)' /\ Saving(d))

\* A failure when the service had issued a pair: lost when it takes the one before no more
Fails(c, lost) ==
    caller' = [caller EXCEPT ![c] = Idle] /\ mishap' = (mishap \/ lost)

\* The request is over: answered, or failed in one of the ways of ModelCalls
End(c, outcome) == Goes(c, Idle)

\* access_token: which token is refreshed before it is sent
NeedsRefresh(c, pair) == caller[c].attempt = 2 \/ pair \in stale

\* access_token: the second attempt refreshes whatever the file says
Load(c) ==
    /\ c \in Threads /\ caller[c].at = "idle"
    /\ IF ~Readable(file) THEN End(c, "permanent")
       ELSE LET pair == Head(cells[file])
            IN  Goes(c, [caller[c] EXCEPT
                           !.pair = pair,
                           !.at = IF NeedsRefresh(c, pair) THEN "refresh" ELSE "send"])
    /\ UNCHANGED <<file, temp, cells, issued, live, fresh, stale>>

\* _refresh: the service takes the refresh token for a new pair, and may go on to
\* accept the old one; what it answers may not arrive, or hold no access token
Refresh(c) ==
    /\ caller[c].at = "refresh"
    /\ \/ /\ caller[c].pair \in fresh /\ MayIssue
          /\ issued' = issued + 1 /\ live' = live \cup {issued'}
          /\ \E rotated \in BOOLEAN :
               /\ fresh' = (IF rotated THEN fresh \ {caller[c].pair} ELSE fresh) \cup {issued'}
               /\ \/ Goes(c, [caller[c] EXCEPT !.at = "open", !.pair = issued', !.rotated = rotated])
                  \/ Fails(c, rotated)
       \/ /\ caller[c].pair \notin fresh
          /\ End(c, "permanent")
          /\ UNCHANGED <<issued, live, fresh>>
       \/ /\ \E failure \in {"transient", "permanent"} : End(c, failure)
          /\ UNCHANGED <<issued, live, fresh>>
    /\ UNCHANGED <<file, temp, cells, stale>>

\* Mutant: what was refreshed is used and not saved
UsedButNotSaved(c) == caller[c].at = "open" /\ Goes(c, [caller[c] EXCEPT !.at = "send"])
                      /\ UNCHANGED <<file, temp, cells, issued, live, fresh, stale>>

\* _save: the temporary file is opened and emptied, written, and moved
Open(c) ==
    /\ caller[c].at = "open"
    /\ IF temp = 0
       THEN temp' = Len(cells) + 1 /\ cells' = Append(cells, <<>>)
       ELSE UNCHANGED temp /\ cells' = [cells EXCEPT ![temp] = <<>>]
    /\ Goes(c, [caller[c] EXCEPT !.at = "write", !.inode = temp'])
    /\ UNCHANGED <<file, issued, live, fresh, stale>>

Write(c) ==
    /\ caller[c].at = "write"
    /\ cells' = [cells EXCEPT ![caller[c].inode] = Overlaid(@, TextOf(caller[c].pair))]
    /\ Goes(c, [caller[c] EXCEPT !.at = "replace"])
    /\ UNCHANGED <<file, temp, issued, live, fresh, stale>>

\* The move fails when another has moved the file already: an OSError, which has no
\* mark and is tried again; so does what follows it (chmod)
Replace(c) ==
    /\ caller[c].at = "replace"
    /\ IF temp = 0 THEN End(c, "transient") /\ UNCHANGED <<file, temp>>
       ELSE /\ file' = temp /\ temp' = 0
            /\ \/ c # Operator /\ Goes(c, [caller[c] EXCEPT !.at = "send", !.rotated = FALSE])
               \/ End(c, "transient")
    /\ UNCHANGED <<cells, issued, live, fresh, stale>>

\* Any of them may fail (a full disk, say), and leave a part of the text
SaveFails(c) ==
    /\ caller[c].at \in {"open", "write", "replace"}
    /\ \/ UNCHANGED cells
       \/ /\ caller[c].at = "write"
          /\ \E n \in 0..(Sizes[caller[c].pair] - 1) :
               cells' = [cells EXCEPT ![caller[c].inode] =
                           Overlaid(@, SubSeq(TextOf(caller[c].pair), 1, n))]
    /\ Fails(c, caller[c].rotated)
    /\ UNCHANGED <<file, temp, issued, live, fresh, stale>>

\* stream_events: a first 401 is answered by a second attempt
Again(c) ==
    [caller[c] EXCEPT !.at = "idle", !.attempt = 2, !.refused = @ \cup {caller[c].pair}]

Send(c) ==
    /\ caller[c].at = "send"
    /\ \/ /\ caller[c].pair \notin live
          /\ IF caller[c].attempt = 1 THEN Goes(c, Again(c)) ELSE End(c, "permanent")
       \/ /\ caller[c].pair \in live
          /\ \/ \E failure \in {"transient", "permanent"} : End(c, failure)
             \/ \E events \in Streams : End(c, IF Complete(Read(events)) THEN "answer" ELSE "transient")
    /\ UNCHANGED <<file, temp, cells, issued, live, fresh, stale>>

-----------------------------------------------------------------------------
(* The operator, and time *)

\* login: a new pair, saved as any other
Login ==
    /\ caller[Operator].at = "idle" /\ MayIssue
    /\ issued' = issued + 1 /\ live' = live \cup {issued'} /\ fresh' = fresh \cup {issued'}
    /\ Goes(Operator, [caller[Operator] EXCEPT !.at = "open", !.pair = issued', !.rotated = FALSE])
    /\ UNCHANGED <<file, temp, cells, stale>>

Logout ==
    /\ caller[Operator].at = "idle" /\ file # 0
    /\ file' = 0
    /\ UNCHANGED <<caller, mishap>>
    /\ UNCHANGED <<temp, cells, issued, live, fresh, stale>>

\* The time of an access token is nearly over, or the service withdraws it
Expire(p) ==
    /\ Readable(file) /\ p = Head(cells[file]) /\ p \notin stale
    /\ stale' = stale \cup {p}
    /\ UNCHANGED <<file, temp, cells, issued, live, fresh, caller, mishap>>
Withdraw(p) ==
    /\ Readable(file) /\ p = Head(cells[file]) /\ p \in live
    /\ live' = live \ {p}
    /\ UNCHANGED <<file, temp, cells, issued, fresh, stale, caller, mishap>>

\* The service is started again: what its threads were at is gone, the files are not
Restart ==
    /\ \E c \in Threads : Saving(c)
    /\ caller' = [c \in Callers |-> IF c \in Threads THEN Idle ELSE caller[c]]
    /\ mishap' = TRUE
    /\ UNCHANGED <<file, temp, cells, issued, live, fresh, stale>>

SessionNext ==
    \/ \E c \in Callers :
         \/ Load(c) \/ Refresh(c) \/ Send(c)
         \/ Open(c) \/ Write(c) \/ Replace(c) \/ SaveFails(c)
    \/ Login \/ Logout \/ Restart
    \/ \E p \in Pairs : Expire(p) \/ Withdraw(p)

-----------------------------------------------------------------------------
(* Properties *)

\* A session is lost only when two callers refresh or save at the same time, a restart
\* cuts a refresh off, or a refresh token is spent and what it was spent for does not
\* arrive or cannot be written: otherwise, whatever fails in between, the file holds a
\* refresh token that the service accepts, until the operator logs out
\* (provider.py, _refresh and _save)
SessionSurvives ==
    (~mishap /\ file # 0 /\ \A c \in Callers : ~Saving(c)) =>
      Readable(file) /\ Head(cells[file]) \in fresh

\* A token that was refused is not sent again by the same request (stream_events)
RefusedIsNotSentAgain ==
    \A c \in Threads : caller[c].at = "send" => caller[c].pair \notin caller[c].refused

\* An answer is what a completed response says, and if the response streamed its
\* answer, nothing of what it thought aloud (complete, CodexChat.stream)
AnswerIsTheAnswer ==
    \A events \in Streams :
      LET r == Read(events)
      IN  Complete(r) =>
            /\ \E i \in DOMAIN events : events[i].kind = "completed"
            /\ (\E i \in DOMAIN events : events[i] = Event("delta", "final")) =>
                 \A i \in DOMAIN Content(r) : Content(r)[i] \notin Hidden
=============================================================================
