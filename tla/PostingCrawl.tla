---------------------------- MODULE PostingCrawl ----------------------------
(***************************************************************************)
(* How a site is collected (DATA/crawl_<site>_it.py; the five crawlers     *)
(* share this shape): candidates are looked at one by one in the order of  *)
(* the search, what is known is passed over, what is new is kept as text   *)
(* or as images to be read later, each up to a limit, and the file of the  *)
(* site is written at every checkpoint and at the end.                     *)
(***************************************************************************)
EXTENDS Integers, Sequences, FiniteSets, TLC

CONSTANTS
    Postings,           \* numbers of the postings of all sites
    SiteOf,             \* the site a posting is on
    JobOf,              \* company and title of a posting, as duplicate_key reads them
    Orders,             \* [site -> the orders in which a search may list its postings]
    Pages,              \* what the page of each posting may show
    MaxTexts, MaxPending, MaxNew, MaxCandidates, CheckpointEvery

Sites == {SiteOf[p] : p \in Postings}
Nothing == [need |-> "none"]

\* record and classify_record: a text that is whole, or images to read a text from
Classified(page) ==
    IF ~page.developer THEN Nothing
    ELSE IF page.text # "" THEN [need |-> "X", text |-> page.text, images |-> ""]
    ELSE IF page.images # "" THEN [need |-> "O", text |-> "", images |-> page.images]
    ELSE Nothing

Counted(rows, need) == Cardinality({p \in DOMAIN rows : rows[p].need = need})

\* main, up to the loop: what the file has is gone on with unless the run is a fresh one
Begun(site, file, excluded, fresh, order) ==
    LET rows == IF fresh THEN <<>> ELSE file
    IN  [site |-> site, rows |-> rows, known |-> DOMAIN rows \cup excluded, left |-> order,
         scanned |-> 0, new |-> 0]

NoRoomForImages(run) == Counted(run.rows, "O") >= MaxPending
NoRoomForTexts(run) == Counted(run.rows, "X") >= MaxTexts
\* The loop ends: nothing left, enough looked at, enough that is new, or no room for anything
Through(run) ==
    \/ run.left = <<>> \/ run.scanned >= MaxCandidates \/ run.new >= MaxNew
    \/ NoRoomForTexts(run) /\ NoRoomForImages(run)

\* One candidate; an error on its page is a page that is passed over
Visited(run, page) ==
    LET p == Head(run.left)
        item == Classified(page)
        kept == /\ p \notin run.known
                /\ \/ item.need = "X" /\ ~NoRoomForTexts(run)
                   \/ item.need = "O" /\ ~NoRoomForImages(run)
        next == [run EXCEPT !.left = Tail(@), !.scanned = @ + 1]
    IN  IF kept
        THEN [next EXCEPT !.rows = [q \in DOMAIN @ \cup {p} |-> IF q = p THEN item ELSE @[q]],
                          !.known = @ \cup {p}, !.new = @ + 1]
        ELSE next
\* A checkpoint follows when the number of rows says so
AtCheckpoint(run, next) ==
    next.rows # run.rows /\ Cardinality(DOMAIN next.rows) % CheckpointEvery = 0

\* quality: a whole text goes before one that is to be read, then the longer one
Better(a, b) ==
    (a.need = "X" /\ b.need # "X") \/ (a.need = b.need /\ a.text # "" /\ b.text = "")
\* deduplicate: one posting of each job, the first of the best
Deduplicated(rows) ==
    {p \in DOMAIN rows :
        \A q \in DOMAIN rows \ {p} : JobOf[q] = JobOf[p] =>
            ~Better(rows[q], rows[p]) /\ (q < p => Better(rows[p], rows[q]))}
=============================================================================
