----------------------------- MODULE ModelCalls -----------------------------
(***************************************************************************)
(* One request of the AI service to a language model (structured.py,       *)
(* run_structured and run_streaming_text): what an attempt may come to     *)
(* with each of the providers, which failures are tried again and with     *)
(* what correction, what is shown while an attempt is under way, what a    *)
(* cancellation of the turn cuts off (cancellation.py), and what is put on *)
(* the account of the turn and of what runs turns (llm_usage.py).          *)
(***************************************************************************)
EXTENDS Integers, Sequences, SequencesExt, FiniteSets, TLC

CONSTANTS
    Providers,      \* of get_llm: "langchain" (openai and anthropic), "claude_code",
                    \* "codex" (OAuth), "codex_cli"
    MaxAttempts,    \* _MAX_ATTEMPTS
    MaxTurns,       \* bound on the turns
    MaxCalls        \* bound on the requests of a turn

VARIABLES
    call,           \* the request under way
    turnAccount,    \* UsageCollector of the turn
    account,        \* UsageCollector of what runs the turns (its parent)
    turns,          \* turns begun
    wire,           \* what was sent to the provider so far
    cancelled,      \* the turns the user cancelled
    cutOff          \* history: for each turn what was sent of the requests that were cut off

callVars == <<call, turnAccount, account, turns, wire, cancelled, cutOff>>

Unknown == -1
NoCall == [phase |-> "idle"]

-----------------------------------------------------------------------------
(* What an attempt may come to *)

\* text: what the model wrote, if it wrote at all.  "prose" holds no JSON object,
\* "fields" one that breaks the schema
Texts == {"json", "fenced", "prose", "fields"}

\* model_validate_json(extract_json(text)) of the adapters that ask for JSON in words
Parsed(text) ==
    CASE text \in {"json", "fenced"} -> "ok"
      [] text = "prose" -> "notJson"
      [] text = "fields" -> "contract"

CliRuns ==
    [ended : {"exit", "timeout", "unstartable"}, failed : BOOLEAN, answered : BOOLEAN,
     limit : {"none", "burst", "weekly"}, text : Texts]

\* _run_cli and _raise_cli_error: the weekly limit and a command that cannot be
\* started are for good, everything else may pass
ClaudeFault(run) ==
    CASE run.ended = "timeout" -> "transient"
      [] run.ended = "unstartable" -> "permanent"
      [] run.failed -> IF run.answered /\ run.limit = "weekly" THEN "permanent" ELSE "transient"
      [] ~run.answered -> "transient"
      [] OTHER -> "none"

\* CodexCliChat._run: every failure is a RuntimeError without a mark
CodexCliFault(run) ==
    IF run.ended # "exit" \/ run.failed \/ ~run.answered THEN "transient" ELSE "none"

Reply(result, wrote, metered, showed) ==
    [result |-> result, wrote |-> wrote, metered |-> metered, showed |-> showed]

\* A command answers at once; the tokens of Claude's are not known, those of Codex'
\* only where the answer is plain text (an adapter that is no Runnable takes no callback)
CliReply(run, fault, structured, counted) ==
    IF fault # "none" THEN Reply(fault, FALSE, FALSE, FALSE)
    ELSE Reply(IF structured THEN Parsed(run.text) ELSE "ok", TRUE, counted /\ ~structured, ~structured)

\* complete and CodexChat.stream: deltas come as they are written; what the terminal
\* event did not confirm is a failure, and the usage is in that event
OAuthReplies(structured) ==
    {Reply(f, FALSE, FALSE, FALSE) : f \in {"transient", "permanent"}}
    \cup (IF structured THEN {Reply(Parsed(t), TRUE, FALSE, FALSE) : t \in Texts}
                             \cup {Reply("transient", TRUE, FALSE, FALSE)}
          ELSE {Reply("ok", TRUE, TRUE, TRUE), Reply("transient", TRUE, FALSE, TRUE)})

\* A LangChain model: the callback counts what was written even if the parser then
\* refuses it; a stream may break after it began
LangChainReplies(structured) ==
    {Reply("transient", FALSE, FALSE, FALSE)}
    \cup (IF structured THEN {Reply(r, TRUE, TRUE, FALSE) : r \in {"ok", "contract", "parser"}}
          ELSE {Reply("ok", TRUE, TRUE, TRUE), Reply("transient", TRUE, FALSE, TRUE)})

Replies(provider, structured) ==
    CASE provider = "claude_code" ->
           {CliReply(r, ClaudeFault(r), structured, FALSE) : r \in CliRuns}
      [] provider = "codex_cli" ->
           {CliReply(r, CodexCliFault(r), structured, TRUE) : r \in CliRuns}
      [] provider = "codex" -> OAuthReplies(structured)
      [] provider = "langchain" -> LangChainReplies(structured)

-----------------------------------------------------------------------------
(* Which failures are tried again *)

\* _is_contract_validation_failure
IsContractFailure(result) == result \in {"contract", "notJson", "parser"}

\* A fault for the check: every failure that is not for good is tried again
RetriesWhatReachedTheSchema(result) == result # "permanent"

\* _retryable: an answer that reached the schema is asked for again only if there was
\* no JSON object in it
Retryable(result) ==
    IF IsContractFailure(result) THEN result = "notJson" ELSE result # "permanent"

\* _repair_message
Correction(result, attempt) == IF result = "notJson" THEN attempt ELSE 0

-----------------------------------------------------------------------------
(* The account *)

Entry(outcome, attempts, tokens) == [outcome |-> outcome, attempts |-> attempts, tokens |-> tokens]

\* UsageCollector.summary
Counted(calls) == SelectSeq(calls, LAMBDA c : c.outcome # "not_configured")
SumOf(calls, field) == FoldLeft(LAMBDA sum, c : sum + c[field], 0, calls)
Summary(calls) ==
    LET made == Counted(calls)
        metered == SelectSeq(made, LAMBDA c : c.tokens # Unknown)
    IN  [calls |-> Len(made), retries |-> SumOf(made, "attempts") - Len(made),
         tokens |-> IF metered = <<>> THEN Unknown ELSE SumOf(metered, "tokens"),
         unmetered |-> Len(made) - Len(metered)]

\* record: the collector of the turn hands every entry on to its parent
Record(entry) ==
    /\ turnAccount' = Append(turnAccount, entry)
    /\ account' = Append(account, entry)

\* What a request has burnt: known for a structured one as soon as one response was
\* metered, for a stream only from the attempt that ended well
TokensOf(c, reply) ==
    IF c.structured
    THEN IF c.metered = 0 /\ ~reply.metered THEN Unknown
         ELSE c.metered + (IF reply.metered THEN 1 ELSE 0)
    ELSE IF reply.result = "ok" /\ reply.metered THEN 1 ELSE Unknown

-----------------------------------------------------------------------------
(* A request *)

ModelInit ==
    /\ call = NoCall
    /\ turnAccount = <<>> /\ account = <<>> /\ turns = 1 /\ wire = 0
    /\ cancelled = {} /\ cutOff = [t \in 1..MaxTurns |-> 0]

\* get_llm found no key: there is no request
Skip ==
    /\ call = NoCall /\ Len(turnAccount) < MaxCalls /\ "langchain" \in Providers
    /\ Record(Entry("not_configured", 0, Unknown))
    /\ UNCHANGED <<call, turns, wire, cancelled, cutOff>>

Ask(provider, structured) ==
    /\ call = NoCall /\ Len(turnAccount) < MaxCalls
    /\ call' = [phase |-> "asking", provider |-> provider, structured |-> structured, attempt |-> 1,
                correction |-> 0, failures |-> <<>>, wrote |-> 0, metered |-> 0, shown |-> <<>>]
    /\ UNCHANGED <<turnAccount, account, turns, wire, cancelled, cutOff>>

\* raise_if_cancelled looks before each attempt
Send ==
    /\ call.phase = "asking" /\ turns \notin cancelled
    /\ wire' = wire + 1 /\ call' = [call EXCEPT !.phase = "sent"]
    /\ UNCHANGED <<turnAccount, account, turns, cancelled, cutOff>>

\* An attempt that came to reply
Attempted(reply) ==
    [call EXCEPT !.wrote = @ + (IF reply.wrote THEN 1 ELSE 0),
                 !.metered = @ + (IF reply.metered THEN 1 ELSE 0),
                 !.shown = IF reply.showed THEN Append(@, call.attempt) ELSE @]

\* The cancellation is looked at again before the answer is taken, of a stream
\* only before its last piece
Streamed == ~call.structured /\ call.provider \in {"langchain", "codex"}

Answer(reply) ==
    /\ call.phase = "sent" /\ reply.result = "ok" /\ (turns \in cancelled => Streamed)
    /\ call' = [Attempted(reply) EXCEPT !.phase = "answered"]
    /\ Record(Entry("ok", call.attempt, TokensOf(call, reply)))
    /\ UNCHANGED <<turns, wire, cancelled, cutOff>>

\* The attempt is dropped and, after a pause, made again; the correction is put on the
\* first messages, never on an earlier correction
Retry(reply) ==
    /\ call.phase = "sent" /\ reply.result # "ok"
    /\ call.attempt < MaxAttempts /\ Retryable(reply.result)
    /\ call' = [Attempted(reply) EXCEPT
                  !.phase = "asking", !.attempt = @ + 1, !.failures = Append(@, reply.result),
                  !.correction = IF call.structured THEN Correction(reply.result, call.attempt) ELSE 0]
    /\ UNCHANGED <<turnAccount, account, turns, wire, cancelled, cutOff>>

GiveUp(reply) ==
    /\ call.phase = "sent" /\ reply.result # "ok"
    /\ call.attempt = MaxAttempts \/ ~Retryable(reply.result)
    /\ call' = [Attempted(reply) EXCEPT !.phase = "failed", !.failures = Append(@, reply.result)]
    /\ Record(Entry("failed", call.attempt, TokensOf(call, reply)))
    /\ UNCHANGED <<turns, wire, cancelled, cutOff>>

Return ==
    /\ call.phase \in {"answered", "failed"}
    /\ call' = NoCall
    /\ UNCHANGED <<turnAccount, account, turns, wire, cancelled, cutOff>>

\* cancel: the user gives the turn up
CancelTurn ==
    /\ turns \notin cancelled /\ cancelled' = cancelled \cup {turns}
    /\ UNCHANGED <<call, turnAccount, account, turns, wire, cutOff>>

\* RequestCancelled: the request ends where it is, and is put on no account
CutOff ==
    /\ call.phase \in {"asking", "sent"} /\ turns \in cancelled
    /\ call' = NoCall
    /\ cutOff' = [cutOff EXCEPT ![turns] = @ + (IF call.phase = "sent" THEN call.attempt ELSE call.attempt - 1)]
    /\ UNCHANGED <<turnAccount, account, turns, wire, cancelled>>

\* collecting: the collector of the next turn
NextTurn ==
    /\ call = NoCall /\ turns < MaxTurns /\ (turnAccount # <<>> \/ turns \in cancelled)
    /\ turns' = turns + 1 /\ turnAccount' = <<>>
    /\ UNCHANGED <<call, account, wire, cancelled, cutOff>>

ModelNext ==
    \/ Skip
    \/ \E p \in Providers, s \in BOOLEAN : Ask(p, s)
    \/ Send
    \/ call.phase = "sent" /\
         \E r \in Replies(call.provider, call.structured) : Answer(r) \/ Retry(r) \/ GiveUp(r)
    \/ Return
    \/ CancelTurn \/ CutOff
    \/ NextTurn

-----------------------------------------------------------------------------
(* Properties *)

\* A request is made again only after a failure that another attempt can cure, and a
\* correction is about the very answer that was just refused (structured.py,
\* _retryable and _repair_message)
RetriedWithReason ==
    call.phase # "idle" =>
      /\ \A i \in 1..(call.attempt - 1) : call.failures[i] \in {"transient", "notJson"}
      /\ call.phase \in {"asking", "sent"} /\ call.attempt > 1 =>
           (call.correction # 0) = (Last(call.failures) = "notJson")
      /\ call.correction \in {0, call.attempt - 1}

\* The account that outlives the turns holds every attempt that was sent, apart from
\* those of a request that a cancellation of its turn cut off, and no token that was not
\* burnt; for a structured request that was metered it holds all of them (llm_usage.py,
\* structured.py)
AccountIsHonest ==
    LET total == Summary(account)
        missing == MapThenSumSet(LAMBDA t : cutOff[t], cancelled)
    IN  /\ call.phase \notin {"asking", "sent"} => total.calls + total.retries + missing = wire
        /\ total.tokens <= wire
        /\ total.calls >= Summary(turnAccount).calls
        /\ (call.phase \in {"answered", "failed"} /\ call.structured /\ call.provider = "langchain") =>
             Last(account).tokens \in {call.wrote, Unknown} /\ (call.wrote > 0 => Last(account).tokens = call.wrote)

\* Refuted: every attempt that was sent is on the account. A request that is cut off by a
\* cancellation is not put there, and its tokens are burnt
EverythingSentIsAccounted ==
    call.phase \notin {"asking", "sent"} => Summary(account).calls + Summary(account).retries = wire
=============================================================================
