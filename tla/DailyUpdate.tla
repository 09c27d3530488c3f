----------------------------- MODULE DailyUpdate -----------------------------
(***************************************************************************)
(* The collection of a day without Airflow (DATA/run_daily_update.py):     *)
(* behind a lock file, every site is crawled, the postings that are images *)
(* are read (enrich_ocr.py), the files are merged into one without         *)
(* duplicates (merge_job_postings.py), and the SQL is written.  A run may  *)
(* die at any step; the lock file then stays, and counts as stale after    *)
(* six hours.  A file is emptied before it is written anew (write_text): a *)
(* write that is cut off leaves a file nobody can read.                    *)
(***************************************************************************)
EXTENDS PostingCrawl

CONSTANTS
    Runs,           \* runs of the update
    Excluded        \* postings a person has struck out (exports/excluded_postings.json)

VARIABLES
    lock,       \* logs/.daily_update.lock
    files,      \* exports/<site>_job_postings.json
    failed,     \* exports/<site>_job_postings_ocr_failed.json
    merged,     \* exports/all_job_postings.json
    script,     \* the SQL for the table
    run,        \* what each run is at
    cut,        \* the files whose last write was cut off
    met         \* the runs that have worked while another did (kept by the model alone)

dailyVars == <<lock, files, failed, merged, script, run, cut, met>>

NoLock == [by |-> "nobody"]
Off == [at |-> "off"]

DailyInit ==
    /\ lock = NoLock
    /\ files = [s \in Sites |-> <<>>]
    /\ failed = [s \in Sites |-> {}]
    /\ merged = <<>> /\ script = <<>>
    /\ run = [r \in Runs |-> Off]
    /\ cut = {} /\ met = {}

\* The files a write of which may be cut off
Rows(s) == <<"rows", s>>
Failed(s) == <<"failed", s>>
All == <<"merged">>

\* save_records, save: the file of a site anew, as a whole or not
Saved(s, rows, whole) ==
    /\ files' = [files EXCEPT ![s] = IF whole THEN rows ELSE <<>>]
    /\ cut' = IF whole THEN cut \ {Rows(s)} ELSE cut \cup {Rows(s)}

Working(r) == run[r].at \in {"crawl", "crawling", "ocr", "reading", "merge", "export", "unlock"}

\* acquire_lock: first the look at the file, ...
LookAtLock(r) ==
    /\ run[r] = Off
    /\ \/ lock = NoLock /\ run' = [run EXCEPT ![r] = [at |-> "locking"]] /\ UNCHANGED lock
       \/ lock # NoLock /\ lock.stale /\ lock' = NoLock /\ run' = [run EXCEPT ![r] = [at |-> "locking"]]
    /\ UNCHANGED <<files, failed, merged, script, cut, met>>
\* ... then the writing of it
WriteLock(r) ==
    /\ run[r].at = "locking"
    /\ lock' = [by |-> r, stale |-> FALSE]
    /\ run' = [run EXCEPT ![r] = [at |-> "crawl", todo |-> Sites]]
    /\ LET others == {q \in Runs \ {r} : Working(q)}
       IN  met' = IF others = {} THEN met ELSE met \cup others \cup {r}
    /\ UNCHANGED <<files, failed, merged, script, cut>>
\* Six hours pass while the file is there
LockGrowsStale ==
    /\ lock # NoLock /\ ~lock.stale
    /\ lock' = [lock EXCEPT !.stale = TRUE]
    /\ UNCHANGED <<files, failed, merged, script, run, cut, met>>

\* run_all_crawlers: one site after the other; a crawler that cannot read its file ends at once
AfterCrawl(todo) == [at |-> IF todo = {} THEN "ocr" ELSE "crawl", todo |-> IF todo = {} THEN Sites ELSE todo]
BeginCrawl(r, s, order) ==
    /\ run[r].at = "crawl" /\ s \in run[r].todo
    /\ run' = [run EXCEPT ![r] =
                  IF Rows(s) \in cut THEN AfterCrawl(@.todo \ {s})
                  ELSE [at |-> "crawling", todo |-> @.todo \ {s},
                        crawl |-> Begun(s, files[s], Excluded, FALSE, order)]]
    /\ UNCHANGED <<lock, files, failed, merged, script, cut, met>>
\* A checkpoint that cannot be written is passed over like a page that fails
CrawlNext(r, page, whole) ==
    /\ run[r].at = "crawling" /\ ~Through(run[r].crawl)
    /\ page \in Pages[Head(run[r].crawl.left)]
    /\ LET next == Visited(run[r].crawl, page)
       IN  /\ run' = [run EXCEPT ![r].crawl = next]
           /\ IF AtCheckpoint(run[r].crawl, next) THEN Saved(next.site, next.rows, whole)
              ELSE whole /\ UNCHANGED <<files, cut>>
    /\ UNCHANGED <<lock, failed, merged, script, met>>
CrawlEnds(r, whole) ==
    /\ run[r].at = "crawling" /\ Through(run[r].crawl)
    /\ Saved(run[r].crawl.site, run[r].crawl.rows, whole)
    /\ run' = [run EXCEPT ![r] = AfterCrawl(@.todo)]
    /\ UNCHANGED <<lock, failed, merged, script, met>>
\* A crawler that fails leaves its last checkpoint
CrawlFails(r) ==
    /\ run[r].at = "crawling" /\ run' = [run EXCEPT ![r] = AfterCrawl(@.todo)]
    /\ UNCHANGED <<lock, files, failed, merged, script, cut, met>>

\* enrich_ocr --in-place: the postings without a text, except those that failed before
Targets(s, rows) == {p \in DOMAIN rows : rows[p].need = "O" /\ rows[p].images # "" /\ p \notin failed[s]}
AfterOcr(todo) == IF todo = {} THEN [at |-> "merge"] ELSE [at |-> "ocr", todo |-> todo]
BeginOcr(r, s) ==
    /\ run[r].at = "ocr" /\ s \in run[r].todo
    /\ run' = [run EXCEPT ![r] =
                  IF {Rows(s), Failed(s)} \cap cut # {} THEN AfterOcr(@.todo \ {s})
                  ELSE [at |-> "reading", todo |-> @.todo \ {s}, site |-> s, rows |-> files[s],
                        left |-> Targets(s, files[s]), accepted |-> 0]]
    /\ UNCHANGED <<lock, files, failed, merged, script, cut, met>>
\* One posting: a usable text is kept, and written at a checkpoint; the others are noted as
\* failed, and so is one whose checkpoint could not be written
ReadOne(r, p, usable, whole) ==
    /\ run[r].at = "reading" /\ p \in run[r].left
    /\ LET s == run[r].site
           rows == IF usable THEN [run[r].rows EXCEPT ![p].text = run[r].rows[p].images, ![p].need = "X"]
                   ELSE run[r].rows
           accepted == run[r].accepted + IF usable THEN 1 ELSE 0
       IN  /\ run' = [run EXCEPT ![r].rows = rows, ![r].left = @ \ {p}, ![r].accepted = accepted]
           /\ failed' = IF usable /\ whole THEN failed ELSE [failed EXCEPT ![s] = @ \cup {p}]
           /\ IF usable /\ accepted % CheckpointEvery = 0 THEN Saved(s, rows, whole)
              ELSE whole /\ UNCHANGED <<files, cut>>
    /\ UNCHANGED <<lock, merged, script, met>>
OcrEnds(r, whole) ==
    /\ run[r].at = "reading" /\ run[r].left = {}
    /\ Saved(run[r].site, run[r].rows, whole)
    /\ run' = [run EXCEPT ![r] = AfterOcr(@.todo)]
    /\ UNCHANGED <<lock, failed, merged, script, met>>
OcrFails(r) ==
    /\ run[r].at = "reading" /\ run' = [run EXCEPT ![r] = AfterOcr(@.todo)]
    /\ UNCHANGED <<lock, files, failed, merged, script, cut, met>>
\* save_failed, after every posting: cut off, it ends the reading of the site
NotesAreCut(r) ==
    /\ run[r].at = "reading"
    /\ LET s == run[r].site
       IN  failed' = [failed EXCEPT ![s] = {}] /\ cut' = cut \cup {Failed(s)}
    /\ run' = [run EXCEPT ![r] = AfterOcr(@.todo)]
    /\ UNCHANGED <<lock, files, merged, script, met>>

\* merge_job_postings: what has no text is dropped, and one of each job is kept
Collected(f) == [p \in UNION {DOMAIN f[s] : s \in Sites} |-> f[SiteOf[p]][p]]
WithText(rows) == [p \in {q \in DOMAIN rows : rows[q].text # ""} |-> rows[p]]
Merged(rows) == LET filled == WithText(rows) IN [p \in Deduplicated(filled) |-> filled[p]]
CanMerge == (\A s \in Sites : Rows(s) \notin cut) /\ Collected(files) # <<>>
Merge(r) ==
    /\ run[r].at = "merge" /\ CanMerge
    /\ merged' = Merged(Collected(files)) /\ cut' = cut \ {All}
    /\ run' = [run EXCEPT ![r] = [at |-> "export"]]
    /\ UNCHANGED <<lock, files, failed, script, met>>
\* Without a file, with one that cannot be read, or with an error there is no SQL
MergeFails(r) ==
    /\ run[r].at = "merge" /\ run' = [run EXCEPT ![r] = [at |-> "unlock"]]
    /\ \/ UNCHANGED <<merged, cut>>
       \/ CanMerge /\ merged' = <<>> /\ cut' = cut \cup {All}
    /\ UNCHANGED <<lock, files, failed, script, met>>
\* export_postgres reads the merged file; a write that is cut off leaves half of the SQL
Export(r, fails) ==
    /\ run[r].at = "export"
    /\ script' \in IF fails \/ All \in cut THEN {script, <<>>} ELSE {merged}
    /\ run' = [run EXCEPT ![r] = [at |-> "unlock"]]
    /\ UNCHANGED <<lock, files, failed, merged, cut, met>>
\* finally: whoever's lock it is
Unlock(r) ==
    /\ run[r].at = "unlock"
    /\ lock' = NoLock /\ run' = [run EXCEPT ![r] = Off] /\ met' = met \ {r}
    /\ UNCHANGED <<files, failed, merged, script, cut>>
RunDies(r) ==
    /\ run[r] # Off /\ run' = [run EXCEPT ![r] = Off] /\ met' = met \ {r}
    /\ UNCHANGED <<lock, files, failed, merged, script, cut>>

DailyNext ==
    \/ \E r \in Runs : LookAtLock(r) \/ WriteLock(r) \/ Unlock(r) \/ RunDies(r)
    \/ LockGrowsStale
    \/ \E r \in Runs, s \in Sites : \E order \in Orders[s] : BeginCrawl(r, s, order)
    \/ \E r \in Runs, whole \in BOOLEAN :
         \/ \E page \in UNION {Pages[p] : p \in Postings} : CrawlNext(r, page, whole)
         \/ CrawlEnds(r, whole) \/ OcrEnds(r, whole)
         \/ \E p \in Postings, usable \in BOOLEAN : ReadOne(r, p, usable, whole)
    \/ \E r \in Runs, s \in Sites : BeginOcr(r, s)
    \/ \E r \in Runs : CrawlFails(r) \/ OcrFails(r) \/ NotesAreCut(r) \/ Merge(r) \/ MergeFails(r)
    \/ \E r \in Runs, fails \in BOOLEAN : Export(r, fails)

-----------------------------------------------------------------------------
\* What has been collected stays: a posting that is in a site's file stays in it, a text that
\* was read into it stays, whatever fails in between and however often the update is run,
\* unless the writing of the file is cut off or another run works beside this one
\* (crawl_*_it.py, enrich_ocr.py)
CollectedStays ==
    \A s \in Sites : (Rows(s) \notin cut' /\ met = {}) =>
      \A p \in DOMAIN files[s] :
        p \in DOMAIN files'[s] /\ (files[s][p].text # "" => files'[s][p].text = files[s][p].text)

\* The same of every step. Refuted: write_text empties the file first, and two
\* runs that the lock let through write what each has read.
NothingCollectedIsLost ==
    \A s \in Sites : \A p \in DOMAIN files[s] :
      p \in DOMAIN files'[s] /\ (files[s][p].text # "" => files'[s][p].text = files[s][p].text)

\* Every job a site has a text of is once in what a merge hands on to the export, with a
\* text, and no site is left out because its file was cut off (merge_job_postings.py,
\* drop_empty_body and deduplicate)
EveryJobIsMerged ==
    \A r \in Runs : (run[r].at = "merge" /\ run'[r].at = "export") =>
      /\ \A s \in Sites : Rows(s) \notin cut
      /\ \A p \in DOMAIN Collected(files) :
           Collected(files)[p].text # "" =>
             Cardinality({q \in DOMAIN merged' : JobOf[q] = JobOf[p] /\ merged'[q].text # ""}) = 1

\* The update runs once at a time (run_daily_update.py, the lock file). Refuted for
\* two runs: both look for the file before either makes it.
OneRunAtATime == Cardinality({r \in Runs : Working(r)}) <= 1
=============================================================================
