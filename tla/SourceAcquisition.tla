------------------------- MODULE SourceAcquisition -------------------------
(***************************************************************************)
(* How the text of a posting is obtained (career_pipeline/source): pasted, *)
(* read from an image tile by tile, or collected from a URL: the page, the *)
(* frames and images in it and, as long as the text does not suffice, one  *)
(* external reader after another.  Every fetch may fail; a failure of one  *)
(* of them is deferred.  A text is the sequence of its lines, of which the *)
(* code asks whether they repeat and what they announce.                   *)
(***************************************************************************)
EXTENDS Integers, SequencesExt

CONSTANTS
    Requests,       \* what is asked for, with what the site would answer
    Announces,      \* the signals of each line: "duty", "requirement", ...
    Corrections,    \* what the user may correct: records of lines before and after
    EnoughLines,    \* MINIMUM_USEFUL_POSTING_LENGTH
    FrameLines,     \* MIN_MEANINGFUL_CHARS
    MaxIframes,     \* MAX_IFRAMES
    MaxImages,      \* MAX_IMAGES
    MaxTiles,       \* max_tiles of split_image_tiles
    MaxRevisions    \* bound of the model: how often a posting is captured

VARIABLES
    request,        \* the request being served, with the site behind it
    todo,           \* what is left to fetch
    segments,       \* what was read so far
    told,           \* the warnings
    failures,       \* deferred_failures
    document,       \* the source document, or why there is none
    snapshot        \* what the user verified

sourceVars == <<request, todo, segments, told, failures, document, snapshot>>

Lines == DOMAIN Announces
NoSnapshot == [revision |-> 0, content |-> <<>>, text |-> <<>>]

-----------------------------------------------------------------------------
(* Texts *)

\* _merge_segments: the tiles of images overlap, a line read before is left out;
\* then _join_distinct leaves out a text that was there already.
Merge(parts) ==
    LET Line(s, l) == IF l \notin s.seen
                      THEN [seen |-> s.seen \cup {l}, kept |-> Append(s.kept, l)] ELSE s
        Add(s, p) ==
          LET tile == FoldLeft(Line, [seen |-> s.seen, kept |-> <<>>], p.lines)
          IN  IF ~p.grouped THEN [s EXCEPT !.texts = Append(@, p.lines)]
              ELSE [seen |-> tile.seen, texts |-> Append(s.texts, tile.kept)]
        Join(texts, t) == IF t = <<>> \/ t \in ToSet(texts) THEN texts ELSE Append(texts, t)
    IN  FlattenSeq(FoldLeft(Join, <<>>,
          FoldLeft(Add, [seen |-> {}, texts |-> <<>>], parts).texts))

\* _is_sufficient_posting_text
Sufficient(lines) ==
    LET signals == UNION {Announces[l] : l \in ToSet(lines)}
    IN  /\ Len(lines) >= EnoughLines /\ Cardinality(signals) >= 2
        /\ signals \cap {"duty", "requirement"} # {}

\* _drop_unrelated_tail: what follows the marker belongs to other postings.
BeforeTail(lines) ==
    LET cuts == {i \in DOMAIN lines : "tail" \in Announces[lines[i]]}
    IN  IF cuts = {} THEN lines
        ELSE SubSeq(lines, 1, (CHOOSE i \in cuts : \A k \in cuts : i <= k) - 1)

Plain(lines) == IF lines = <<>> THEN <<>> ELSE <<[lines |-> lines, grouped |-> FALSE]>>

\* split_image_tiles: of a long image the middle is left out.
Tiles(image) ==
    IF Len(image) <= MaxTiles THEN image
    ELSE LET tail == MaxTiles - (MaxTiles + 1) \div 2
         IN  SubSeq(image, 1, (MaxTiles + 1) \div 2)
               \o SubSeq(image, Len(image) - tail + 1, Len(image))

\* _from_image, when every tile could be read.
ReadTiles(image) ==
    [i \in DOMAIN SelectSeq(Tiles(image), LAMBDA t : t # <<>>) |->
       [lines |-> SelectSeq(Tiles(image), LAMBDA t : t # <<>>)[i],
        grouped |-> Len(Tiles(image)) > 1]]

TileWarnings(image) ==
    (IF Len(image) > MaxTiles THEN {"IMAGE_TILES_OMITTED"} ELSE {})
      \cup (IF <<>> \in ToSet(Tiles(image)) THEN {"IMAGE_TILE_EMPTY"} ELSE {})

-----------------------------------------------------------------------------
(* Acquisition *)

AcceptedRequest(r) ==
    /\ r.given = {r.type}
    /\ (r.type = "IMAGE") <=> r.metadata

Nothing == [pc |-> "done", frames |-> <<>>, images |-> <<>>, readers |-> <<>>]

Refused(code, retryable) == [status |-> code, retryable |-> retryable, raw |-> <<>>, revision |-> 0]

\* The document of what was read, or the refusal: nothing was read, or the page
\* of a URL does not read like a posting.
Document(r, parts, revision) ==
    LET raw == Merge(parts)
    IN  IF raw = <<>> THEN Refused("SOURCE_FETCH_FAILED", TRUE)
        ELSE IF r.type = "URL" /\ ~Sufficient(raw) THEN Refused("SOURCE_FETCH_FAILED", FALSE)
        ELSE [status |-> "AWAITING_VERIFICATION", retryable |-> FALSE, raw |-> raw,
              revision |-> revision]

Conclude(parts, warnings) ==
    /\ segments' = parts /\ told' = warnings /\ todo' = Nothing
    /\ document' = Document(request, parts, document.revision + 1)

Refuse(code, retryable) ==
    /\ document' = Refused(code, retryable)
    /\ todo' = Nothing /\ UNCHANGED <<segments, told>>

\* Pasted text, or an uploaded image whose tiles are read one by one.
AcquirePasted ==
    /\ todo.pc = "start" /\ request.type = "TEXT"
    /\ IF request.text = <<>> THEN Refuse("SOURCE_FETCH_FAILED", FALSE)
       ELSE Conclude(Plain(request.text), {})
    /\ UNCHANGED <<request, failures, snapshot>>

AcquireImage(read) ==
    /\ todo.pc = "start" /\ request.type = "IMAGE"
    /\ IF ~request.configured THEN Refuse("AI_PROVIDER_NOT_CONFIGURED", FALSE)
       ELSE IF ~read THEN \E retryable \in BOOLEAN : Refuse("SOURCE_FETCH_FAILED", retryable)
       ELSE Conclude(ReadTiles(request.image), TileWarnings(request.image))
    /\ UNCHANGED <<request, failures, snapshot>>

Deferred(code) == failures' = Append(failures, code)

Found(parts, warnings) == segments' = segments \o parts /\ told' = told \cup warnings

\* _from_url, the page itself: an unsafe address ends the request, any other
\* failure is deferred.
FetchPage(ok) ==
    /\ todo.pc = "start" /\ request.type = "URL"
    /\ CASE request.unsafe -> Refuse("SOURCE_FETCH_FAILED", FALSE) /\ UNCHANGED failures
         [] ~request.unsafe /\ (~ok \/ request.media = "other") ->
              /\ Deferred(IF ok THEN "DIRECT_CONTENT_UNSUPPORTED" ELSE "DIRECT_FETCH_FAILED")
              /\ todo' = [todo EXCEPT !.pc = "readers", !.readers = request.readers]
              /\ UNCHANGED <<segments, told, document>>
         [] ~request.unsafe /\ ok /\ request.media = "image" ->
              /\ Found(ReadTiles(request.image), TileWarnings(request.image))
              /\ todo' = [todo EXCEPT !.pc = "readers", !.readers = request.readers]
              /\ UNCHANGED <<failures, document>>
         [] ~request.unsafe /\ ok /\ request.media = "html" ->
              /\ Found(Plain(BeforeTail(request.text)),
                       (IF BeforeTail(request.text) # request.text
                        THEN {"UNRELATED_TAIL_DROPPED"} ELSE {})
                       \cup (IF Len(request.frames) > MaxIframes
                             THEN {"IFRAME_LIMIT_REACHED"} ELSE {}))
              /\ todo' = [todo EXCEPT !.pc = "frames", !.readers = request.readers,
                            !.frames = SubSeq(request.frames, 1,
                               IF Len(request.frames) < MaxIframes
                               THEN Len(request.frames) ELSE MaxIframes)]
              /\ UNCHANGED <<failures, document>>
    /\ UNCHANGED <<request, snapshot>>

\* A frame is an image, a text of its own, or a page of images.
FetchFrame(ok) ==
    /\ todo.pc = "frames" /\ todo.images = <<>> /\ todo.frames # <<>>
    /\ LET f == Head(todo.frames)
       IN  IF ~ok
           THEN Deferred("IFRAME_FETCH_FAILED") /\ todo' = [todo EXCEPT !.frames = Tail(@)]
                /\ UNCHANGED <<segments, told>>
           ELSE /\ CASE f.media = "image" -> Found(ReadTiles(f.images[1]), TileWarnings(f.images[1]))
                     [] f.media = "html" /\ Len(f.text) >= FrameLines -> Found(Plain(f.text), {})
                     [] OTHER -> UNCHANGED <<segments, told>>
                /\ todo' = [todo EXCEPT !.frames = Tail(@),
                     !.images = IF f.media = "image" \/ Len(f.text) >= FrameLines THEN <<>>
                                ELSE SubSeq(f.images, 1, IF Len(f.images) < MaxImages
                                                         THEN Len(f.images) ELSE MaxImages)]
                /\ UNCHANGED failures
    /\ UNCHANGED <<request, document, snapshot>>

\* An image in a frame: one tile that cannot be read loses the image.
FetchImage(ok) ==
    /\ todo.pc = "frames" /\ todo.images # <<>>
    /\ IF ok THEN Found(ReadTiles(Head(todo.images)), TileWarnings(Head(todo.images)))
                  /\ UNCHANGED failures
       ELSE Deferred("IMAGE_FETCH_OR_READ_FAILED") /\ UNCHANGED <<segments, told>>
    /\ todo' = [todo EXCEPT !.images = Tail(@)]
    /\ UNCHANGED <<request, document, snapshot>>

FramesDone ==
    /\ todo.pc = "frames" /\ todo.frames = <<>> /\ todo.images = <<>>
    /\ todo' = [todo EXCEPT !.pc = "readers"]
    /\ UNCHANGED <<request, segments, told, failures, document, snapshot>>

\* Mutant: a reader that fails is the last one.
CallLastReader(ok) ==
    /\ todo.pc = "readers" /\ todo.readers # <<>>
    /\ request.fragment \/ ~Sufficient(Merge(segments))
    /\ IF ok THEN Found(Plain(BeforeTail(Head(todo.readers))), {}) /\ UNCHANGED failures
       ELSE Deferred("READER_FAILED") /\ UNCHANGED <<segments, told>>
    /\ todo' = [todo EXCEPT !.readers = IF ok THEN Tail(@) ELSE <<>>]
    /\ UNCHANGED <<request, document, snapshot>>

\* Jina, Firecrawl and Tavily, in this order and as far as they are configured:
\* called as long as the text does not suffice, or because of the fragment.
CallReader(ok) ==
    /\ todo.pc = "readers" /\ todo.readers # <<>>
    /\ request.fragment \/ ~Sufficient(Merge(segments))
    /\ IF ok THEN Found(Plain(BeforeTail(Head(todo.readers))), {}) /\ UNCHANGED failures
       ELSE Deferred("READER_FAILED") /\ UNCHANGED <<segments, told>>
    /\ todo' = [todo EXCEPT !.readers = Tail(@)]
    /\ UNCHANGED <<request, document, snapshot>>

\* The end of _from_url and of acquire: the deferred failures become warnings
\* of a text that does not suffice (which acquire then refuses).
CollectedUrl ==
    /\ todo.pc = "readers"
    /\ todo.readers = <<>> \/ (~request.fragment /\ Sufficient(Merge(segments)))
    /\ Conclude(segments, told \cup
         (IF Merge(segments) # <<>> /\ ~Sufficient(Merge(segments)) THEN ToSet(failures) ELSE {}))
    /\ UNCHANGED <<request, failures, snapshot>>

-----------------------------------------------------------------------------
(* Verification *)

\* verify: the user confirms the text, or corrects what was really in it.
Verify(text, corrections) ==
    /\ document.status \in {"AWAITING_VERIFICATION", "VERIFIED"}
    /\ text # <<>> /\ (text = document.raw \/ corrections # {})
    /\ \A c \in corrections :
         /\ ToSet(c.before) \subseteq ToSet(document.raw)
         /\ ToSet(c.after) \subseteq ToSet(text)
    /\ document' = [document EXCEPT !.status = "VERIFIED"]
    /\ snapshot' = [revision |-> document.revision, content |-> document.raw, text |-> text]
    /\ UNCHANGED <<request, todo, segments, told, failures>>

\* The posting is captured again, as the next revision.
Recapture ==
    /\ document.status # "NONE" /\ document.revision < MaxRevisions /\ todo.pc = "done"
    /\ todo' = [Nothing EXCEPT !.pc = "start"]
    /\ segments' = <<>> /\ told' = {} /\ failures' = <<>>
    /\ UNCHANGED <<request, document, snapshot>>

SourceInit ==
    /\ request \in {r \in Requests : AcceptedRequest(r)}
    /\ todo = [Nothing EXCEPT !.pc = "start"]
    /\ segments = <<>> /\ told = {} /\ failures = <<>>
    /\ document = [Refused("NONE", FALSE) EXCEPT !.revision = 0]
    /\ snapshot = NoSnapshot

SourceNext ==
    \/ AcquirePasted \/ FramesDone \/ CollectedUrl \/ Recapture
    \/ \E ok \in BOOLEAN :
         AcquireImage(ok) \/ FetchPage(ok) \/ FetchFrame(ok) \/ FetchImage(ok) \/ CallReader(ok)
    \/ \E c \in SUBSET Corrections :
         \E text \in {document.raw} \cup {x.text : x \in c} : Verify(text, c)

-----------------------------------------------------------------------------
(* Properties *)

\* Every line that was read is in the text: merging the overlapping tiles of an
\* image takes out repetitions and nothing else.
NothingReadIsLost ==
    ToSet(FlattenSeq([i \in DOMAIN segments |-> segments[i].lines])) = ToSet(Merge(segments))

\* A page is refused as no posting only after every configured reader was
\* called, whatever failed before.
RefusedAfterEveryReaderStep ==
    CollectedUrl /\ document'.status = "SOURCE_FETCH_FAILED" =>
      Cardinality({i \in DOMAIN request.readers :
                     ~(ToSet(BeforeTail(request.readers[i])) \subseteq ToSet(Merge(segments)))})
        <= Len(SelectSeq(failures, LAMBDA f : f = "READER_FAILED"))
=============================================================================
