---------------------------- MODULE PostingIndex ----------------------------
(***************************************************************************)
(* The index the postings are searched in (RAG/jobrag/store.py) and the    *)
(* scripts that fill it: postings are written in one transaction, then     *)
(* their chunks window by window, each window in a transaction that        *)
(* refuses to mix the vectors of two embedding models.  A run may die      *)
(* between any two transactions, an embedding may fail, the model may be   *)
(* changed, and two runs may work at the same time.                        *)
(***************************************************************************)
EXTENDS Integers, FiniteSets

CONSTANTS
    Writers,        \* processes that may run an ingestion
    Batches,        \* exports: functions from postings to the texts of their chunks
    SourceOf,       \* the site a posting comes from
    Scripts,        \* those in use, of {"additive", "replacing", "stale"}
    WindowSize      \* ingest_window_size: chunks to embed before a transaction

VARIABLES
    rows,       \* postings: [uid -> [active, texts]], only the known ones; back: it was out
                \* of use before (kept by the model alone)
    chunks,     \* chunks: [<<uid, n>> -> [text, space]]
    profile,    \* rag_index_metadata: the space of the vectors
    model,      \* the embedding model the processes are configured with
    runs        \* [Writers -> the ingestion under way]; parts: the chunks it has left, those
                \* that are never split together; written: what it stored that no other
                \* has touched since

indexVars == <<rows, chunks, profile, model, runs>>

None == "none"
Legacy == "local"       \* the one model there was before metadata was kept
Spaces == {Legacy, "gms"}
NoRun == [at |-> "idle"]

\* chunk_posting: the chunks of a posting, numbered in the order of its text
ChunksOf(uid, texts) == {<<<<uid, n>>, texts[n]>> : n \in DOMAIN texts}
Ids(cs) == {c[1] : c \in cs}
Uids(cs) == {c[1][1] : c \in cs}
Active(r) == {uid \in DOMAIN r : r[uid].active}
Stored(uids) == {id \in DOMAIN chunks : id[1] \in uids}
\* The chunk as it would be stored, where it is stored
IsAt(c, space) == c[1] \in DOMAIN chunks /\ chunks[c[1]] = [text |-> c[2], space |-> space]

\* content_hash covers the model and the text
Unchanged(all, space) == Ids({c \in all : IsAt(c, space)})

\* plan_windows: whole postings in any order, closed as soon as enough is to be embedded
Full(some, unchanged) == Cardinality({c \in UNION some : c[1] \notin unchanged}) >= WindowSize
Windows(parts, unchanged) ==
    {some \in SUBSET parts \ {{}} :
       /\ Full(some, unchanged) \/ some = parts
       /\ \E last \in some : ~Full(some \ {last}, unchanged)}

-----------------------------------------------------------------------------
\* An index from before metadata was kept, or none
IndexInit ==
    /\ \E old \in Batches \cup {<<>>} :
         /\ rows = [uid \in DOMAIN old |-> [active |-> TRUE, texts |-> old[uid], back |-> FALSE]]
         /\ chunks = [id \in Ids(UNION {ChunksOf(uid, old[uid]) : uid \in DOMAIN old}) |->
                        [text |-> old[id[1]][id[2]], space |-> Legacy]]
    /\ profile = None /\ model = Legacy
    /\ runs = [w \in Writers |-> NoRun]

Started(at, script, batch, parts, unchanged) ==
    [at |-> at, script |-> script, batch |-> batch, parts |-> parts, unchanged |-> unchanged,
     space |-> model, written |-> {}]

\* run_ingest_additive and run_embed: what is unchanged is read before anything is written
Ingest(w, script, batch) ==
    /\ runs[w].at = "idle"
    /\ LET postings == {ChunksOf(uid, batch[uid]) : uid \in DOMAIN batch}
           parts == IF script = "additive" THEN postings \ {{}} ELSE {UNION postings}
       IN  runs' = [runs EXCEPT ![w] =
                      Started("postings", script, batch, parts, Unchanged(UNION parts, model))]
    /\ UNCHANGED <<rows, chunks, profile, model>>

\* upsert_postings, in a transaction of its own; only the replacing script takes the
\* postings of the same sites that the batch has not out of use
Publish(w) ==
    /\ runs[w].at = "postings"
    /\ LET batch == runs[w].batch
           sites == {SourceOf[uid] : uid \in DOMAIN batch}
           stays(uid) == rows[uid].active
                         /\ (runs[w].script = "replacing" => SourceOf[uid] \notin sites)
           was(uid) == uid \in DOMAIN rows /\ (rows[uid].back \/ ~rows[uid].active)
       IN  rows' = [uid \in DOMAIN rows \cup DOMAIN batch |->
                      IF uid \in DOMAIN batch
                      THEN [active |-> TRUE, texts |-> batch[uid], back |-> was(uid)]
                      ELSE [active |-> stays(uid), texts |-> rows[uid].texts, back |-> rows[uid].back]]
    /\ runs' = [runs EXCEPT ![w].at = "chunks"]
    /\ UNCHANGED <<chunks, profile, model>>

\* run_rechunk_stale: chunks made again of the postings in use; only those whose text
\* changed are handed on
Rechunk(w) ==
    /\ runs[w].at = "idle"
    /\ LET new(uid) == ChunksOf(uid, rows[uid].texts)
           stale == {uid \in Active(rows) :
                       {<<id, chunks[id].text>> : id \in Stored({uid})} # new(uid)}
           all == UNION {new(uid) : uid \in stale}
           unchanged == Unchanged(all, model)
           todo == {c \in all : c[1] \notin unchanged}
       IN  /\ stale # {}
           /\ runs' = [runs EXCEPT ![w] = Started("chunks", "stale", <<>>, {todo}, unchanged)]
    /\ UNCHANGED <<rows, chunks, profile, model>>

\* upsert_chunks: the space the vectors are in, inferred where it was never recorded
Current ==
    IF profile # None THEN profile
    ELSE IF \E id \in DOMAIN chunks : id[1] \in Active(rows) THEN Legacy ELSE None
Switching(space) == Current \notin {None, space}
Uncovered(uids) == {id[1] : id \in DOMAIN chunks} \cap (Active(rows) \ uids)
\* A fault for the check: any batch may be the first of the other model
CoversItself(window) == window # {}
Covers(window) == Uncovered(Uids(window)) = {}

TextIn(cs, id) == (CHOOSE c \in cs : c[1] = id)[2]

\* The chunks of a window with the vectors of those that could be embedded (all of them,
\* or run_rechunk_stale fails); what is left of its postings goes in the same transaction
StoreWindow(w, some, embedded) ==
    LET run == runs[w]
        window == UNION some
        todo == {c \in window : c[1] \notin run.unchanged}
        changed == {c \in window : ~IsAt(c, run.space)}
        written == changed \cap embedded
        kept == {id \in DOMAIN chunks : id[1] \in Uids(window) => id \in Ids(window)}
    IN  /\ run.at = "chunks" /\ some \in Windows(run.parts, run.unchanged)
        /\ embedded \subseteq todo /\ (run.script = "stale" => embedded = todo)
        /\ IF Switching(run.space) /\ (~Covers(window) \/ changed # written)
           THEN runs' = [runs EXCEPT ![w] = NoRun] /\ UNCHANGED <<chunks, profile>>
           ELSE /\ chunks' = [id \in kept \cup Ids(written) |->
                                IF id \in Ids(written)
                                THEN [text |-> TextIn(written, id), space |-> run.space]
                                ELSE chunks[id]]
                /\ profile' = run.space
                /\ runs' = [v \in Writers |->
                     IF v = w THEN [run EXCEPT !.parts = @ \ some, !.written = @ \cup written]
                     ELSE IF runs[v].at = "idle" THEN runs[v]
                     ELSE [runs[v] EXCEPT !.written = {c \in @ : c[1][1] \notin Uids(window)}]]
        /\ UNCHANGED <<rows, model>>

Finish(w) ==
    /\ runs[w].at = "chunks" /\ runs[w].parts = {}
    /\ runs' = [runs EXCEPT ![w] = NoRun]
    /\ UNCHANGED <<rows, chunks, profile, model>>

\* The process dies; what was committed stays.  The operator changes the model.
Die(w) == runs[w].at # "idle" /\ runs' = [runs EXCEPT ![w] = NoRun] /\ UNCHANGED <<rows, chunks, profile, model>>
Reconfigure == model' \in Spaces \ {model} /\ UNCHANGED <<rows, chunks, profile, runs>>

IndexNext ==
    \/ \E w \in Writers, s \in Scripts \ {"stale"}, b \in Batches : Ingest(w, s, b)
    \/ \E w \in Writers : "stale" \in Scripts /\ Rechunk(w)
    \/ \E w \in Writers : Publish(w)
    \/ \E w \in Writers :
         /\ runs[w].at = "chunks"
         /\ \E some \in SUBSET runs[w].parts, e \in SUBSET UNION runs[w].parts : StoreWindow(w, some, e)
    \/ \E w \in Writers : Finish(w)
    \/ \E w \in Writers : Die(w)
    \/ Reconfigure

-----------------------------------------------------------------------------
\* Whatever is compared with a query is of the one model the index is recorded for,
\* although the model may change, a run die between two transactions and two runs work at
\* once (store.py, upsert_chunks and ensure_index_compatible), but for a posting that was
\* taken out of use and is in use again
OneSpace ==
    \A id \in DOMAIN chunks :
      (id[1] \in Active(rows) /\ ~rows[id[1]].back) => chunks[id].space = Current

\* The same of every posting in use. Refuted: Covers does not ask about a posting
\* that run_embed.py took out of use, and upsert_postings brings it back with the
\* vectors it had.
AllInUseInOneSpace == \A id \in DOMAIN chunks : id[1] \in Active(rows) => chunks[id].space = Current

\* What a run has written is still there when its later windows are through, unless
\* another run had its posting since (ingest_windows.py, plan_windows)
WindowsKeepEachOther ==
    \A w \in Writers : runs[w].at = "chunks" =>
      \A c \in runs[w].written : c[1] \in DOMAIN chunks /\ chunks[c[1]].text = c[2]

\* A chunk goes only when its posting has it no more (store.py, delete_orphan_chunks:
\* what is removed is what the posting no longer has). Refuted: what is kept is
\* what the run has embedded itself.
OnlyOutdatedGoes ==
    \A id \in DOMAIN chunks \ DOMAIN chunks' : id[2] \notin DOMAIN rows[id[1]].texts
=============================================================================
