---------------------------- MODULE PostingIntake ----------------------------
(***************************************************************************)
(* Postings on their way into the table job_postings, as Airflow runs it   *)
(* (infra/airflow/dags): the sites are collected into a file each, the     *)
(* files are loaded into the table (export_postgres.py), workers claim     *)
(* postings that are images and read them (ocr_postgres.py), a legacy      *)
(* collection is imported once (import_legacy_sqlite.py), and what is      *)
(* complete is handed to the search index.  Each statement that commits is *)
(* a step; processes die between any two of them.                          *)
(***************************************************************************)
EXTENDS PostingCrawl

CONSTANTS
    Workers,            \* runs of ocr_postgres
    Legacy,             \* legacy collections there may be: [posting -> row]; what they
                        \* have as text counts as original
    MaxAttempts

VARIABLES
    pages,      \* what the sites show
    files,      \* exports/<site>_job_postings.json
    crawl,      \* the crawlers under way
    table,      \* job_postings: only the postings that are in it
    reading     \* what each worker has claimed

intakeVars == <<pages, files, crawl, table, reading>>

Idle == [at |-> "idle"]
NoCrawl == [site |-> "none"]

IntakeInit ==
    /\ pages \in [Postings -> UNION {Pages[p] : p \in Postings}]
    /\ \A p \in Postings : pages[p] \in Pages[p]
    /\ files = [s \in Sites |-> <<>>]
    /\ crawl = [s \in Sites |-> NoCrawl]
    /\ table = <<>>
    /\ reading = [w \in Workers |-> Idle]

\* crawl_task: one crawler of a site at a time
StartCrawl(s, fresh, order) ==
    /\ crawl[s] = NoCrawl
    /\ crawl' = [crawl EXCEPT ![s] = Begun(s, files[s], {}, fresh, order)]
    /\ UNCHANGED <<pages, files, table, reading>>
VisitNext(s) ==
    /\ crawl[s] # NoCrawl /\ ~Through(crawl[s])
    /\ LET next == Visited(crawl[s], pages[Head(crawl[s].left)])
       IN  /\ crawl' = [crawl EXCEPT ![s] = next]
           /\ files' = IF AtCheckpoint(crawl[s], next) THEN [files EXCEPT ![s] = next.rows] ELSE files
    /\ UNCHANGED <<pages, table, reading>>
EndCrawl(s) ==
    /\ crawl[s] # NoCrawl /\ Through(crawl[s])
    /\ files' = [files EXCEPT ![s] = crawl[s].rows]
    /\ crawl' = [crawl EXCEPT ![s] = NoCrawl]
    /\ UNCHANGED <<pages, table, reading>>
CrawlDies(s) ==
    /\ crawl[s] # NoCrawl /\ crawl' = [crawl EXCEPT ![s] = NoCrawl]
    /\ UNCHANGED <<pages, files, table, reading>>

\* ocr_status_of, and the trigger of V2__add_job_postings_ocr_queue.sql
StatusOf(need, images, origin) ==
    IF need = "O" THEN (IF images # "" THEN "pending" ELSE "dead")
    ELSE IF origin = "ocr" THEN "succeeded" ELSE "not_required"

\* normalize_row_for_load, text_source_of: a row as it is inserted
Inserted(r) ==
    LET need == IF r.need = "X" /\ r.text # "" THEN "X" ELSE "O"
        origin == IF need = "O" THEN "none" ELSE IF r.images # "" THEN "ocr" ELSE "original"
    IN  [need |-> need, text |-> r.text, images |-> r.images, origin |-> origin,
         status |-> StatusOf(need, r.images, origin),
         attempts |-> 0, worker |-> "none", lease |-> "none", retry |-> "none"]

Free(row) == [row EXCEPT !.worker = "none", !.lease = "none", !.retry = "none"]

\* UPSERT of export_postgres: a whole text is taken over; new images put a row that has no
\* text back in the queue, where it keeps its lease and its worker
Upserted(row, new) ==
    LET other == new.images # "" /\ new.images # row.images
    IN  IF new.need = "X"
        THEN Free([row EXCEPT !.need = "X", !.text = new.text, !.origin = new.origin, !.status = new.status,
                              !.images = IF new.images # "" THEN new.images ELSE @])
        ELSE [row EXCEPT !.images = IF new.images # "" THEN new.images ELSE @,
                         !.status = IF row.need = "O" /\ other THEN "pending" ELSE @,
                         !.attempts = IF row.need = "O" /\ other THEN 0 ELSE @,
                         !.retry = IF row.need = "O" /\ other THEN "none" ELSE @]

\* LEGACY_UPSERT: what the table has stays; an empty text, or no images, are filled
LegacyUpserted(row, new) ==
    LET filled == row.text = "" /\ new.text # ""
        newImages == row.images = "" /\ new.images # ""
    IN  [row EXCEPT
            !.text = IF filled THEN new.text ELSE @,
            !.origin = IF filled THEN new.origin ELSE @,
            !.images = IF newImages THEN new.images ELSE @,
            !.need = IF row.text # "" \/ new.text # "" THEN "X" ELSE "O",
            !.status = IF filled THEN new.status ELSE @,
            !.attempts = IF newImages THEN 0 ELSE @,
            !.retry = IF new.text # "" \/ newImages THEN "none" ELSE @,
            !.lease = IF new.text # "" THEN "none" ELSE @,
            !.worker = IF new.text # "" THEN "none" ELSE @]

\* normalize_job_postings_ocr_status: an update that changes the need and leaves the status
Normalized(row, next) ==
    IF next.need # row.need /\ next.status = row.status
    THEN Free([next EXCEPT !.status = StatusOf(next.need, next.images, next.origin)])
    ELSE next

\* A row that is there is updated as the statement says, one that is not is inserted
Merged(rows, legacy) ==
    [p \in DOMAIN table \cup DOMAIN rows |->
        IF p \notin DOMAIN rows THEN table[p]
        ELSE IF p \notin DOMAIN table THEN Inserted(rows[p])
        ELSE Normalized(table[p], IF legacy THEN LegacyUpserted(table[p], Inserted(rows[p]))
                                  ELSE Upserted(table[p], Inserted(rows[p])))]
Chosen(rows) == [p \in Deduplicated(rows) |-> rows[p]]

\* export_postgres --from-source-jsons and psql, one transaction
Load ==
    LET rows == [p \in UNION {DOMAIN files[s] : s \in Sites} |-> files[SiteOf[p]][p]]
    IN  /\ rows # <<>>
        /\ table' = Merged(Chosen(rows), FALSE)
        /\ UNCHANGED <<pages, files, crawl, reading>>

\* jobis_legacy_import: staged, checked and merged in one transaction
ImportLegacy(rows) ==
    /\ table' = Merged(Chosen(rows), TRUE)
    /\ UNCHANGED <<pages, files, crawl, reading>>

\* EXHAUSTED_SQL, run when a worker starts
Exhausted(row) ==
    row.need = "O" /\ row.attempts >= MaxAttempts
      /\ (row.status = "retry_wait" \/ (row.status = "processing" /\ row.lease = "over"))
GivenUp(rows) ==
    [p \in DOMAIN rows |-> IF Exhausted(rows[p]) THEN Free([rows[p] EXCEPT !.status = "dead"]) ELSE rows[p]]
MarkExhausted ==
    /\ table' = GivenUp(table) /\ table' # table
    /\ UNCHANGED <<pages, files, crawl, reading>>

\* CLAIM_SQL
Claimable(row) ==
    /\ row.need = "O" /\ row.images # "" /\ row.attempts < MaxAttempts
    /\ \/ row.status = "pending"
       \/ row.status = "retry_wait" /\ row.retry = "due"
       \/ row.status = "processing" /\ row.lease = "over"
Claim(w, p) ==
    /\ reading[w] = Idle /\ p \in DOMAIN table /\ Claimable(table[p])
    /\ LET row == table[p]
       IN  /\ table' = [table EXCEPT ![p] = [row EXCEPT !.status = "processing", !.attempts = @ + 1,
                                                        !.worker = w, !.lease = "held"]]
           /\ reading' = [reading EXCEPT ![w] = [at |-> "reading", posting |-> p, images |-> row.images,
                                                 attempt |-> row.attempts + 1]]
    /\ UNCHANGED <<pages, files, crawl>>

\* A fault for the check: the row is found by its key alone
HoldsByKey(w) == reading[w].posting \in DOMAIN table
\* SUCCESS_SQL and FAILURE_SQL find the row only while it is this worker's
HoldsStill(w) ==
    LET row == table[reading[w].posting] IN row.status = "processing" /\ row.worker = w

Succeed(w) ==
    /\ reading[w] # Idle
    /\ LET p == reading[w].posting
       IN  table' = IF HoldsStill(w)
                    THEN [table EXCEPT ![p] = Free([@ EXCEPT !.text = reading[w].images, !.origin = "ocr",
                                                             !.need = "X", !.status = "succeeded"])]
                    ELSE table
    /\ reading' = [reading EXCEPT ![w] = Idle]
    /\ UNCHANGED <<pages, files, crawl>>
Fail(w) ==
    /\ reading[w] # Idle
    /\ LET p == reading[w].posting
           dead == reading[w].attempt >= MaxAttempts
       IN  table' = IF HoldsStill(w)
                    THEN [table EXCEPT ![p] = [Free(@) EXCEPT !.status = IF dead THEN "dead" ELSE "retry_wait",
                                                              !.retry = IF dead THEN "none" ELSE "later"]]
                    ELSE table
    /\ reading' = [reading EXCEPT ![w] = Idle]
    /\ UNCHANGED <<pages, files, crawl>>
WorkerDies(w) ==
    /\ reading[w] # Idle /\ reading' = [reading EXCEPT ![w] = Idle]
    /\ UNCHANGED <<pages, files, crawl, table>>

\* Time: a lease runs out, a retry comes due; a page changes
LeaseRunsOut(p) ==
    /\ p \in DOMAIN table /\ table[p].lease = "held"
    /\ table' = [table EXCEPT ![p].lease = "over"]
    /\ UNCHANGED <<pages, files, crawl, reading>>
RetryComesDue(p) ==
    /\ p \in DOMAIN table /\ table[p].retry = "later"
    /\ table' = [table EXCEPT ![p].retry = "due"]
    /\ UNCHANGED <<pages, files, crawl, reading>>
PageChanges(p) ==
    /\ pages' \in {[pages EXCEPT ![p] = page] : page \in Pages[p] \ {pages[p]}}
    /\ UNCHANGED <<files, crawl, table, reading>>

IntakeNext ==
    \/ \E s \in Sites, fresh \in BOOLEAN : \E order \in Orders[s] : StartCrawl(s, fresh, order)
    \/ \E s \in Sites : VisitNext(s)
    \/ \E s \in Sites : EndCrawl(s)
    \/ \E s \in Sites : CrawlDies(s)
    \/ Load \/ MarkExhausted
    \/ \E rows \in Legacy : ImportLegacy(rows)
    \/ \E w \in Workers, p \in Postings : Claim(w, p)
    \/ \E w \in Workers : Succeed(w)
    \/ \E w \in Workers : Fail(w)
    \/ \E w \in Workers : WorkerDies(w)
    \/ \E p \in Postings : LeaseRunsOut(p)
    \/ \E p \in Postings : RetryComesDue(p)
    \/ \E p \in Postings : PageChanges(p)

-----------------------------------------------------------------------------
\* What export_rag_postgres hands on
Complete == {p \in DOMAIN table : table[p].need = "X" /\ table[p].text # ""}

\* A posting that has a text keeps one, a text recorded as original stays so, and what a
\* worker writes was read from the images the row has: a load in between, a
\* lease that ran out or another worker makes its result void (ocr_postgres.py,
\* export_postgres.py; what is complete is what the search is built from)
TextsAreKept ==
    \A p \in DOMAIN table :
      LET row == table[p]
          next == table'[p]
      IN  /\ row.text # "" => next.text # ""
          /\ row.origin = "original" => next.origin = "original"
          /\ (next.text # row.text /\ next.text # "original") => next.text = next.images

\* A legacy collection has the posting without images: it comes in as given up
CameWithoutImages(p) == \E rows \in Legacy : p \in DOMAIN rows /\ rows[p].images = ""

\* A posting that still has to be read is not forgotten: it can be claimed now or when
\* its time comes, unless its attempts are used up, or it came in without images and
\* has them from another collection (V2__add_job_postings_ocr_queue.sql)
UnreadCanBeRead ==
    \A p \in DOMAIN table :
      LET row == table[p]
      IN  row.need = "O" /\ row.images # "" =>
            \/ row.status = "pending" /\ row.attempts < MaxAttempts
            \/ row.status = "retry_wait" /\ row.retry # "none"
            \/ row.status = "processing" /\ row.lease # "none"
            \/ row.status = "dead" /\ row.attempts >= MaxAttempts
            \/ row.status = "dead" /\ row.attempts = 0 /\ CameWithoutImages(p)

\* A posting whose images were never tried is not given up. Refuted: LEGACY_UPSERT fills
\* the images of a posting that had none and leaves it 'dead'.
NoneIsGivenUpUntried ==
    \A p \in DOMAIN table : (table[p].images # "" /\ table[p].status = "dead") => table[p].attempts > 0

\* Images are passed over only while as many postings as may wait for OCR do wait
\* (crawl_jobkorea_it.py, --max-ocr-pending-results). Refuted: the
\* file of the site still counts what OCR has read since into the table.
PassedOverWhileFull ==
    \A s \in Sites :
      (crawl[s] # NoCrawl /\ crawl'[s] # NoCrawl /\ crawl'[s].left # crawl[s].left) =>
        LET p == Head(crawl[s].left)
            waiting == {q \in DOMAIN files[s] : q \notin DOMAIN table \/ table[q].need = "O"}
        IN  (p \notin crawl[s].known /\ Classified(pages[p]).need = "O" /\ p \notin DOMAIN crawl'[s].rows)
              => Cardinality(waiting) >= MaxPending
=============================================================================
