---------------------------- MODULE PostingSearch ----------------------------
(***************************************************************************)
(* A search for postings, from the assistant's call to its items:          *)
(* RAG/webapp/tool_server.py takes one request at a time and keeps a       *)
(* lexical index in memory, RAG/jobrag/search.py ranks by meaning and by   *)
(* words and widens the conditions when too little is found,               *)
(* RAG/jobrag/spec_adapter.py says what was asked and writes the answer,   *)
(* and AI/src/jobis_ai/rag.py turns to the postings it has itself when the *)
(* call fails.  Postings change between any two statements of a search.    *)
(***************************************************************************)
EXTENDS Integers, Sequences, SequencesExt, FiniteSets, TLC

CONSTANTS
    Corpora,        \* the postings there may be: functions from uids to
                    \* [active, regions, floor, near, words, weight, raw, same, stamp,
                    \* states, titled, skills, says]
    Asks,           \* calls: [by, says |-> [regions, years, known], topK]
    LocalItems,     \* what the assistant's own postings say to a title
    People,         \* those asked for: [years, skills, prefers, known]
    CandidateK, MinResults, RerankN, MaxTopK, MaxAdvice

VARIABLES
    corpus,     \* tables postings and chunks
    cache,      \* _bm25_cache and _corpus_signature
    search,     \* the request in the server, under its lock
    reply,      \* what the assistant was told
    advice      \* recommendations of job_recommend

searchVars == <<corpus, cache, search, reply, advice>>

Unknown == -1               \* no number: NULL, no vector, no text
RrfK == 60
Scale == 61 * 62 * 63       \* makes 1 / (RrfK + rank) whole for ranks up to 3
Active(c) == {u \in DOMAIN c : c[u].active}

\* _read_corpus_signature
Signature(c) == <<Cardinality(Active(c)), Max({c[u].stamp : u \in Active(c)} \cup {0})>>

\* parse_query: a region is only heard when a posting has it
Parsed(title, c) ==
    [title EXCEPT !.regions = @ \cap UNION {c[u].regions : u \in Active(c)}]

\* search of spec_adapter: a profile is taken as it is, and says no region
Wanted(ask, c) ==
    IF ask.by = "title" THEN Parsed(ask.says, c) ELSE [ask.says EXCEPT !.regions = {}]

\* _satisfies and _filters: the conditions as asked, and those left after widening
Fits(p, spec, relaxed) ==
    /\ spec.regions = {} \/ "region" \in relaxed \/ p.regions \cap spec.regions # {}
    /\ spec.years = Unknown \/ "exp" \in relaxed \/ p.floor = Unknown \/ p.floor <= spec.years
Eligible(c, spec, relaxed) == {u \in Active(c) : Fits(c[u], spec, relaxed)}

Top(uids, Before(_, _), k) ==
    LET all == SetToSortSeq(uids, Before) IN SubSeq(all, 1, IF Len(all) < k THEN Len(all) ELSE k)

\* _dense_axis and _bm25_axis: candidates in the order of their axis
DenseAxis(c, spec, relaxed) ==
    Top({u \in Eligible(c, spec, relaxed) : c[u].near # Unknown},
        LAMBDA a, b : c[a].near < c[b].near \/ (c[a].near = c[b].near /\ a < b), CandidateK)
LexicalAxis(c, words, spec, relaxed) ==
    Top({u \in Eligible(c, spec, relaxed) \cap DOMAIN words : words[u] > 0},
        LAMBDA a, b : words[a] > words[b] \/ (words[a] = words[b] /\ a < b), CandidateK)

\* Ties share a rank on the lexical axis
LexicalRank(axis, words, u) == CHOOSE i \in DOMAIN axis :
    words[axis[i]] = words[u] /\ \A j \in DOMAIN axis : words[axis[j]] = words[u] => i <= j
Share(rank) == Scale \div (RrfK + rank)

\* _search_once: both axes melted into one order, what was asked for first
Melted(dense, lexical, words, c, spec) ==
    LET found == (ToSet(dense) \cup ToSet(lexical)) \cap DOMAIN c
        rrf(u) == (IF u \in ToSet(dense) THEN Share(CHOOSE i \in DOMAIN dense : dense[i] = u) ELSE 0)
                  + (IF u \in ToSet(lexical) THEN Share(LexicalRank(lexical, words, u)) ELSE 0)
    IN  {[uid |-> u, exact |-> Fits(c[u], spec, {}), rrf |-> rrf(u), weight |-> Unknown] : u \in found}

InTier(a, b) == a.rrf > b.rrf \/ (a.rrf = b.rrf /\ a.uid < b.uid)
ByRrf(a, b) == (a.exact /\ ~b.exact) \/ (a.exact = b.exact /\ InTier(a, b))
ByWeight(a, b) == a.weight > b.weight \/ (a.weight = b.weight /\ InTier(a, b))
Cut(s, k) == SubSeq(s, 1, IF Len(s) < k THEN Len(s) ELSE k)

\* _apply_rerank: the head of the list is ordered again, within the tiers
Reranked(hits, c) ==
    LET weighed == {[h EXCEPT !.weight = IF h.uid \in DOMAIN c THEN c[h.uid].weight ELSE Unknown]
                      : h \in ToSet(Cut(hits, RerankN))}
    IN  SetToSortSeq(weighed, LAMBDA a, b : (a.exact /\ ~b.exact) \/ (a.exact = b.exact /\ ByWeight(a, b)))
        \o SubSeq(hits, RerankN + 1, Len(hits))

\* hybrid_search: the rounds of widening that change anything
Rounds(spec) ==
    SelectSeq(<<{"region"}, {"region", "exp"}>>,
              LAMBDA axes : \/ "region" \in axes /\ spec.regions # {}
                            \/ "exp" \in axes /\ spec.years # Unknown)

-----------------------------------------------------------------------------
Idle == [at |-> "idle"]
NoReply == [at |-> "none", items |-> <<>>, warned |-> {}]
NoAdvice == [at |-> "none"]

SearchInit ==
    /\ corpus \in Corpora
    /\ cache = [signature |-> <<Unknown, Unknown>>, words |-> <<>>]
    /\ search = Idle /\ reply = NoReply /\ advice = NoAdvice

\* dedupe_postings: the first of what two sites carry
Deduped(items) ==
    FoldLeft(LAMBDA acc, i : IF i.same \in {acc[k].same : k \in DOMAIN acc} THEN acc ELSE Append(acc, i),
             <<>>, items)

\* HttpRagAdapter.search when the call failed: the assistant's own postings, by words
FellBack(ask) ==
    LET local == IF ask.by = "profile" THEN <<>> ELSE Deduped(Cut(LocalItems, ask.topK))
    IN  [at |-> "told", items |-> local, asked |-> ask,
         warned |-> {"rag_http_failed"} \cup (IF local = <<>> THEN {"rag_no_results"} ELSE {})]

\* SearchRequest: a request for more than the server gives is refused
Ask(ask) ==
    /\ search = Idle
    /\ IF ask.topK \in 1..MaxTopK
       THEN search' = [at |-> "refresh", ask |-> ask, client |-> "waits"] /\ reply' = NoReply
       ELSE search' = Idle /\ reply' = FellBack(ask)
    /\ advice' = NoAdvice /\ UNCHANGED <<corpus, cache>>

\* The assistant waits ninety seconds; the server goes on under its lock
GiveUp ==
    /\ search # Idle /\ search.client = "waits"
    /\ search' = [search EXCEPT !.client = "gone"] /\ reply' = FellBack(search.ask)
    /\ UNCHANGED <<corpus, cache, advice>>

\* What the server answers: an answer without postings says why only to itself
Respond(postings) ==
    /\ search' = Idle
    /\ reply' = IF search.client = "gone" THEN reply
                ELSE [at |-> "told", items |-> Deduped(postings), asked |-> search.ask,
                      warned |-> IF postings = <<>> THEN {"rag_no_results"} ELSE {}]

\* An exception anywhere is an answer without postings
Fault == search # Idle /\ Respond(<<>>) /\ UNCHANGED <<corpus, cache, advice>>

\* _refresh_bm25_if_changed, then what was asked
Refresh ==
    /\ search # Idle /\ search.at = "refresh"
    /\ cache' = IF Signature(corpus) = cache.signature THEN cache
                ELSE [signature |-> Signature(corpus),
                      words |-> [u \in Active(corpus) |-> corpus[u].words]]
    /\ search' = [at |-> "dense", ask |-> search.ask, client |-> search.client, relaxed |-> {},
                  spec |-> Wanted(search.ask, corpus), hits |-> <<>>, strict |-> 0, lexical |-> 0,
                  found |-> {}, rounds |-> Rounds(Wanted(search.ask, corpus))]
    /\ UNCHANGED <<corpus, reply, advice>>

Dense ==
    /\ search # Idle /\ search.at = "dense"
    /\ search' = [dense |-> DenseAxis(corpus, search.spec, search.relaxed), at |-> "melt"] @@ search
    /\ UNCHANGED <<corpus, cache, reply, advice>>

\* hybrid_search: a widened round adds what no round before had found
Merged(s, new) == ToSet(s.hits) \cup {h \in new : h.uid \notin s.found}

Melt ==
    /\ search # Idle /\ search.at = "melt"
    /\ LET lexical == LexicalAxis(corpus, cache.words, search.spec, search.relaxed)
           new == Melted(search.dense, lexical, cache.words, corpus, search.spec)
           first == search.relaxed = {}
           known == IF first THEN {h.uid : h \in new} ELSE search.first
           hits == SetToSortSeq(IF first THEN new ELSE Merged(search, new), ByRrf)
           more == Len(hits) < MinResults /\ search.rounds # <<>>
       IN  search' = [at |-> IF more THEN "dense" ELSE "rank", hits |-> hits, first |-> known,
                      found |-> search.found \cup {h.uid : h \in new},
                      strict |-> Cardinality(known), lexical |-> Len(lexical),
                      relaxed |-> IF more THEN Head(search.rounds) ELSE search.relaxed,
                      rounds |-> IF more THEN Tail(search.rounds) ELSE search.rounds] @@ search
    /\ UNCHANGED <<corpus, cache, reply, advice>>

\* The reranker may fail: the order stays
Rank(works) ==
    /\ search # Idle /\ search.at = "rank"
    /\ search' = [search EXCEPT !.at = "answer",
                    !.hits = Cut(IF works THEN Reranked(@, corpus) ELSE @, search.ask.topK)]
    /\ UNCHANGED <<corpus, cache, reply, advice>>

\* _hit_score: never more than the one before it
Score(h) == IF h.weight # Unknown THEN h.weight ELSE h.rrf
Scored(hits) ==
    FoldLeft(LAMBDA acc, h :
               Append(acc, [uid |-> h.uid, exact |-> h.exact, same |-> corpus[h.uid].same,
                            states |-> corpus[h.uid].states, titled |-> corpus[h.uid].titled,
                            skills |-> corpus[h.uid].skills, says |-> corpus[h.uid].says,
                            score |-> IF acc = <<>> THEN Score(h)
                                      ELSE Min({Score(h), acc[Len(acc)].score})]),
             <<>>, hits)

\* spec_adapter.search: a question without meaning finds nothing, a posting without its
\* original is left out
Answer ==
    /\ search # Idle /\ search.at = "answer"
    /\ LET meaningless == ~search.spec.known /\ search.spec.regions = {} /\ search.lexical = 0
           whole == SelectSeq(search.hits, LAMBDA h : h.uid \in DOMAIN corpus /\ corpus[h.uid].raw)
       IN  Respond(IF meaningless THEN <<>> ELSE Scored(whole))
    /\ UNCHANGED <<corpus, cache, advice>>

\* posting_floor_years: the title can only raise what the posting states
PostingFloor(i) ==
    IF i.states # 0 /\ i.titled > i.states THEN i.titled ELSE i.states

\* fits_experience: a newcomer is shown no posting for the experienced, others one year more
FitsExperience(i, years) ==
    \/ PostingFloor(i) = Unknown \/ years = Unknown
    \/ PostingFloor(i) <= (IF years = 0 THEN 0 ELSE years + 1)

\* _recommend_from_candidates: nothing without skills, nor without a match for one who is known
Speaking(items, user) ==
    SelectSeq(items, LAMBDA i : i.skills # {} /\ (user.known => i.skills \cap user.skills # {}))
Merit(i, user) ==
    LET prefers == Cardinality(user.prefers \cap i.says)
    IN  <<prefers + (IF user.known THEN Cardinality(i.skills \cap user.skills) ELSE 0), prefers, i.score>>
Worthier(m, n) ==
    \E k \in 1..3 : m[k] > n[k] /\ \A j \in 1..(k - 1) : m[j] = n[j]
ByMerit(items, user) ==
    LET order == SetToSortSeq(DOMAIN items,
                   LAMBDA a, b : LET m == Merit(items[a], user)
                                     n == Merit(items[b], user)
                                 IN  Worthier(m, n) \/ (m = n /\ a < b))
    IN  [k \in DOMAIN order |-> items[order[k]]]

\* job_recommend.run over what the search gave: those of other years are left out and said
Recommend(user) ==
    /\ search = Idle /\ reply # NoReply /\ advice = NoAdvice
    /\ LET fitting == SelectSeq(reply.items, LAMBDA i : FitsExperience(i, user.years))
           dropped == Len(reply.items) - Len(fitting)
           given == Cut(ByMerit(Speaking(fitting, user), user), MaxAdvice)
       IN  advice' = [at |-> "given", user |-> user, items |-> given,
                      warned |-> reply.warned
                        \cup (IF dropped > 0 THEN {"experience_filtered"} ELSE {})
                        \cup (IF given = <<>> /\ dropped > 0 /\ fitting = <<>>
                               THEN {"no_recommendation_after_experience_filter"}
                               ELSE IF given = <<>> THEN {"no_recommendation"} ELSE {})]
    /\ UNCHANGED <<corpus, cache, search, reply>>

\* Ingestions and restarts of the server
Change(c) == c # corpus /\ corpus' = c /\ UNCHANGED <<cache, search, reply, advice>>
Restart ==
    /\ cache' = [signature |-> <<Unknown, Unknown>>, words |-> <<>>] /\ cache' # cache
    /\ search' = Idle
    /\ reply' = IF search # Idle /\ search.client = "waits" THEN FellBack(search.ask) ELSE reply
    /\ UNCHANGED <<corpus, advice>>

SearchNext ==
    \/ \E ask \in Asks : Ask(ask)
    \/ GiveUp \/ Fault \/ Refresh \/ Dense \/ Melt \/ Answer \/ Restart
    \/ \E works \in BOOLEAN : Rank(works)
    \/ \E c \in Corpora : Change(c)
    \/ \E user \in People : Recommend(user)

-----------------------------------------------------------------------------
\* Whatever changes between its statements, an answer gives what meets the conditions as
\* asked before what a widening added, widens only where too little was found, loses
\* nothing a round had found except to the limit or for want of an original, names no job
\* twice, and its scores fall in the order it is in (search.py, spec_adapter.py, rag.py)
AnswerFitsTheQuestion ==
    LET out == reply'.items
    IN  (search # Idle /\ search' = Idle /\ search.client = "waits" /\ search.at = "answer"
         /\ "rag_http_failed" \notin reply'.warned /\ out # <<>>) =>
          /\ \A i, j \in DOMAIN out : i < j =>
               /\ out[i].same # out[j].same
               /\ out[j].exact => out[i].exact
               /\ out[i].score >= out[j].score
          /\ search.strict < MinResults
             \/ {out[i].uid : i \in DOMAIN out} \subseteq search.first
          /\ Len(search.hits) < search.ask.topK =>
               \A u \in search.found :
                 u \in DOMAIN corpus /\ corpus[u].raw => corpus[u].same \in {out[i].same : i \in DOMAIN out}

\* A posting is never recommended to one whose years it rules out, in what it states or
\* in its title, an empty recommendation says why, and a better one is never cut for a
\* worse (job_recommend.py: 신입 was shown postings for eight years)
AdviceIsFit ==
    advice # NoAdvice =>
      /\ \A k \in DOMAIN advice.items :
           LET i == advice.items[k]
               most == IF advice.user.years = 0 THEN 0 ELSE advice.user.years + 1
           IN  advice.user.years # Unknown => i.states = 0 \/ (i.states <= most /\ i.titled <= most)
      /\ advice.items = <<>> <=> advice.warned \cap {"no_recommendation", "no_recommendation_after_experience_filter"} # {}
      /\ \A k \in DOMAIN advice.items : \A i \in ToSet(reply.items) :
           (Worthier(Merit(i, advice.user), Merit(advice.items[k], advice.user)) /\ FitsExperience(i, advice.user.years)
              /\ Speaking(<<i>>, advice.user) # <<>>)
             => i \in {advice.items[j] : j \in 1..(k - 1)}

\* The assistant's own postings answer only when the server did not
\* (rag.py, HttpRagAdapter: the fallback is for a server that is down). Refuted: the
\* server refuses more than MaxTopK, and more are asked for (job_recommend.py).
AskedWithinLimits == "rag_http_failed" \in reply.warned => reply.asked.topK <= MaxTopK
=============================================================================
