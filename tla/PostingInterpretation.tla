----------------------- MODULE PostingInterpretation -----------------------
(***************************************************************************)
(* How a verified posting is interpreted (career_pipeline/interpretation): *)
(* the segments shown to the model under short aliases, what it proposes,  *)
(* the citations restored from the aliases, the texts grounded in what is  *)
(* cited, and the validation of the result.  A text is the set of its      *)
(* words; one text is found in another when its words are.  The model may  *)
(* drop the last character of an identifier it copies.                     *)
(***************************************************************************)
EXTENDS Integers, SequencesExt

CONSTANTS
    Sources,        \* source documents with the snapshot that comes with them
    DiscoveryDrafts, DetailDrafts, FullDrafts,  \* what the model may return
    Catalog,        \* the specialization of each canonical role
    Labels,         \* ROLE_DISPLAY_LABELS: the words of each specialization's label
    Latin,          \* the words an identity can be reduced to
    MaxShown        \* how many segments a prompt holds

VARIABLES
    source,         \* the document and the snapshot of the request
    posting,        \* the interpretation so far
    result          \* how the last call ended

interpretationVars == <<source, posting, result>>

NoText == {}
NoPosting == [company |-> NoText, companyIds |-> <<>>, title |-> NoText, titleIds |-> <<>>,
              positions |-> <<>>, shared |-> <<>>, warnings |-> {}]

-----------------------------------------------------------------------------
(* The prompt *)

\* E001, E002, ... and the identifiers themselves, as sequences of characters.
Alias(i) == <<"E", (i \div 100) % 10, (i \div 10) % 10, i % 10>>
Identifier(i) == <<"vseg", i, "end">>

\* What fits: the first half, then from the end backwards.
Shown(n) ==
    LET head == IF n \div 2 = 0 THEN 1 ELSE n \div 2
        order == [k \in 1 .. n |-> IF k <= head THEN k ELSE n - (k - head - 1)]
    IN  IF n <= MaxShown THEN 1 .. n ELSE {order[k] : k \in 1 .. MaxShown}

\* The identifiers accepted in a draft, and the segment of each.
Accepted(segments) ==
    [id \in {Alias(i) : i \in Shown(Len(segments))} \cup {Identifier(i) : i \in DOMAIN segments} |->
       CHOOSE i \in DOMAIN segments : id \in {Alias(i), Identifier(i)}]

Candidates(accepted, value) ==
    {accepted[id] : id \in {x \in DOMAIN accepted :
                              Len(x) = Len(value) + 1 /\ SubSeq(x, 1, Len(value)) = value}}

\* resolve in _restore_draft_evidence_ids; 0 is an identifier nothing is known of.
Resolve(accepted, value) ==
    IF value \in DOMAIN accepted THEN accepted[value]
    ELSE IF \E i \in Candidates(accepted, value) : Candidates(accepted, value) = {i}
         THEN CHOOSE i \in Candidates(accepted, value) : TRUE
    ELSE 0

Restore(accepted, cites) ==
    LET ids == [k \in DOMAIN cites |-> Resolve(accepted, cites[k])]
        First(k) == \A j \in 1 .. k - 1 : ids[j] # ids[k]
    IN  [k \in DOMAIN SelectSeq([i \in DOMAIN ids |-> i], First) |->
           ids[SelectSeq([i \in DOMAIN ids |-> i], First)[k]]]

Repaired(accepted, cites) ==
    \E k \in DOMAIN cites : cites[k] \notin DOMAIN accepted /\ Resolve(accepted, cites[k]) # 0

-----------------------------------------------------------------------------
(* Grounding *)

Cited(segments, ids) == UNION {segments[i] : i \in ToSet(ids) \cap DOMAIN segments}

\* _grounded_identity_text: as it stands, or a name of it, or a name in what is cited.
GroundedIdentity(text, evidence) ==
    IF text \subseteq evidence THEN text
    ELSE IF text \cap Latin \cap evidence # {} THEN {CHOOSE w \in text \cap Latin : w \in evidence}
    ELSE IF evidence \cap Latin # {} THEN {CHOOSE w \in evidence : w \in Latin}
    ELSE text

\* _grounded_source_title and _preferred_role_title.
GroundedTitle(text, specialization, segments, ids) ==
    LET evidence == Cited(segments, ids)
        cited == {segments[i] : i \in ToSet(ids) \cap DOMAIN segments}
        title == IF text \subseteq evidence THEN text
                 ELSE IF text \cap evidence # {} THEN {CHOOSE w \in text : w \in evidence}
                 ELSE IF cited # {}
                      THEN CHOOSE s \in cited : \A t \in cited : Cardinality(s) <= Cardinality(t)
                 ELSE text
    IN  IF specialization \in DOMAIN Labels /\ Labels[specialization] \subseteq evidence
        THEN Labels[specialization] ELSE title

\* _grounded_source_text: a text that was proposed is left for the validation.
GroundedText(text, segments, ids) ==
    IF text # NoText THEN text ELSE Cited(segments, ids)

\* _safe_optional_grounded_text
GroundedPostingTitle(draft, segments, ids) ==
    IF draft.title = NoText \/ ids = <<>> THEN [title |-> NoText, ids |-> <<>>]
    ELSE [title |-> GroundedIdentity(draft.title, Cited(segments, ids)), ids |-> ids]

-----------------------------------------------------------------------------
(* Compilation *)

CompileRole(role, ids) ==
    IF role.candidate \in DOMAIN Catalog
    THEN [specialization |-> Catalog[role.candidate], status |-> "CANDIDATE", ids |-> ids]
    ELSE [specialization |-> role.specialization, ids |-> ids,
          status |-> IF role.specialization = "unknown" THEN "UNKNOWN" ELSE "NEW_CANDIDATE"]

Relevant == {"TECHNOLOGY", "TECHNICAL_CAPABILITY", "DOMAIN_KNOWLEDGE", "CREDENTIAL",
             "CERTIFICATION", "LANGUAGE", "EXPERIENCE", "PORTFOLIO"}

\* _refine_formal_requirement_category: the wording tells a language or a certificate.
Refine(category, marker) ==
    CASE marker = "language"
           /\ category \in {"TECHNICAL_CAPABILITY", "BEHAVIORAL", "CREDENTIAL", "OTHER"} -> "LANGUAGE"
      [] marker = "certificate" /\ category = "CREDENTIAL" -> "CERTIFICATION"
      [] OTHER -> category

DuplicatesExperience(item, ids, experience) ==
    item.category = "EXPERIENCE" /\ ids # <<>> /\ ToSet(ids) \subseteq ToSet(experience)

CompileRequirement(item, ids, segments) ==
    [text |-> item.text, source |-> GroundedText(item.source, segments, ids), ids |-> ids,
     category |-> Refine(item.category, item.marker), obligation |-> item.obligation,
     applies |-> item.applies]

\* The items of a draft with their citations restored, without those that repeat
\* the experience of the position or an earlier item.
KeptRequirements(items, experience, accepted, segments) ==
    LET ids == [k \in DOMAIN items |-> Restore(accepted, items[k].cites)]
        Key(k) == <<items[k].source, IF items[k].source = NoText THEN ids[k] ELSE <<>>,
                    items[k].text, items[k].obligation, items[k].category>>
        Kept(k) == /\ ~DuplicatesExperience(items[k], ids[k], experience)
                   /\ \A j \in 1 .. k - 1 :
                        Key(j) = Key(k) => DuplicatesExperience(items[j], ids[j], experience)
        kept == SelectSeq([k \in DOMAIN items |-> k], Kept)
    IN  [n \in DOMAIN kept |-> CompileRequirement(items[kept[n]], ids[kept[n]], segments)]

Responsibilities(items, accepted, segments) ==
    [k \in DOMAIN items |->
       [source |-> GroundedText(items[k].source, segments, Restore(accepted, items[k].cites)),
        ids |-> Restore(accepted, items[k].cites)]]

CompilePosition(p, accepted, segments) ==
    LET ids == Restore(accepted, p.cites)
        role == CompileRole(p, ids)
    IN  [title |-> GroundedTitle(p.title, role.specialization, segments, ids), role |-> role,
         experience |-> Restore(accepted, p.experience), duties |-> <<>>, requirements |-> <<>>]

\* _compile_discovery: the company, the title and the positions, nothing else.
CompileDiscovery(draft, segments) ==
    LET accepted == Accepted(segments)
        company == Restore(accepted, draft.companyCites)
        titled == GroundedPostingTitle(draft, segments, Restore(accepted, draft.titleCites))
    IN  [NoPosting EXCEPT
           !.company = IF draft.company = NoText THEN NoText
                       ELSE GroundedIdentity(draft.company, Cited(segments, company)),
           !.companyIds = IF draft.company = NoText THEN <<>> ELSE company,
           !.title = titled.title, !.titleIds = titled.ids,
           !.positions = [k \in DOMAIN draft.positions |->
                            CompilePosition(draft.positions[k], accepted, segments)],
           !.warnings = IF Shown(Len(segments)) # DOMAIN segments THEN {"TRUNCATED"} ELSE {}]

DetailItems(items) ==
    SelectSeq(items, LAMBDA i : i.category \in Relevant
                                /\ i.obligation \in {"REQUIRED", "PREFERRED"})

\* _compile_selected_detail: the duties and requirements of one position.
CompileDetail(draft, discovery, p, segments) ==
    LET accepted == Accepted(segments)
    IN  [discovery EXCEPT
           !.positions[p].duties = Responsibilities(draft.duties, accepted, segments),
           !.positions[p].requirements =
              KeptRequirements(DetailItems(draft.requirements), discovery.positions[p].experience,
                           accepted, segments),
           !.shared = <<>>,
           !.warnings = @ \cup (IF DetailItems(draft.requirements) # draft.requirements
                                THEN {"NON_ROADMAP_REQUIREMENTS_OMITTED"} ELSE {})]

\* _compile_draft: everything in one call, with the conditions positions share.
CompileDraft(draft, segments) ==
    LET accepted == Accepted(segments)
        base == CompileDiscovery(draft, segments)
    IN  [base EXCEPT
           !.positions = [k \in DOMAIN base.positions |->
              [base.positions[k] EXCEPT
                 !.duties = Responsibilities(draft.positions[k].duties, accepted, segments),
                 !.requirements = KeptRequirements(draft.positions[k].requirements,
                                    base.positions[k].experience, accepted, segments)]],
           !.shared = [k \in DOMAIN draft.shared |->
              CompileRequirement(draft.shared[k], Restore(accepted, draft.shared[k].cites), segments)]]

-----------------------------------------------------------------------------
(* Validation *)

\* Every text of a posting with the segments it rests on.
Statements(p) ==
    {<<p.company, p.companyIds>>, <<p.title, p.titleIds>>}
      \cup UNION {{<<x.title, x.role.ids>>, <<NoText, x.experience>>}
                    \cup {<<d.source, d.ids>> : d \in ToSet(x.duties)}
                    \cup {<<q.source, q.ids>> : q \in ToSet(x.requirements)} : x \in ToSet(p.positions)}
      \cup {<<q.source, q.ids>> : q \in ToSet(p.shared)}

\* Mutant: the requirements are not compared with their evidence.
SupportedTitles(p, segments) ==
    \A s \in {<<p.company, p.companyIds>>, <<p.title, p.titleIds>>} :
      ToSet(s[2]) \subseteq DOMAIN segments /\ s[1] \subseteq Cited(segments, s[2])

\* validate_posting_evidence
Supported(p, segments) ==
    \A s \in Statements(p) :
      ToSet(s[2]) \subseteq DOMAIN segments /\ s[1] \subseteq Cited(segments, s[2])

\* validate_snapshot_source and require_verified_snapshot
Interpretable(s) ==
    /\ s.verified /\ s.snapshot.document = s.document /\ s.snapshot.revision = s.revision
    /\ s.snapshot.content = s.content

\* How a call of the model ends when it gives no draft.
ProviderFailures ==
    {"AI_PROVIDER_NOT_CONFIGURED", "CONTRACT_VALIDATION_FAILED", "AI_TIMEOUT", "AI_PROVIDER_UNAVAILABLE"}

Retryable(code) == code \in {"AI_TIMEOUT", "AI_PROVIDER_UNAVAILABLE", "POSTING_STRUCTURE_INVALID"}

Ended(code) == [code |-> code, retryable |-> Retryable(code)]

Compiled(p, segments, cites) ==
    IF ~Supported(p, segments)
    THEN result' = Ended("POSTING_STRUCTURE_INVALID") /\ UNCHANGED posting
    ELSE /\ result' = Ended("DONE")
         /\ posting' = IF \E c \in cites : Repaired(Accepted(segments), c)
                       THEN [p EXCEPT !.warnings = @ \cup {"EVIDENCE_ID_REPAIRED"}] ELSE p

Called(Act) ==
    IF ~Interpretable(source)
    THEN result' = Ended(IF source.verified /\ source.snapshot.document = source.document
                            /\ source.snapshot.revision = source.revision
                         THEN "CONTRACT_VALIDATION_FAILED" ELSE "SOURCE_NOT_VERIFIED")
         /\ UNCHANGED posting
    ELSE Act \/ (\E code \in ProviderFailures : result' = Ended(code) /\ UNCHANGED posting)

PositionCites(p) == {p.cites, p.experience}

Discover(draft) ==
    /\ posting = NoPosting
    /\ Called(IF draft.positions = <<>>
              THEN result' = Ended("ROLE_RESOLUTION_REQUIRED") /\ UNCHANGED posting
              ELSE Compiled(CompileDiscovery(draft, source.segments), source.segments,
                     {draft.companyCites, draft.titleCites}
                       \cup UNION {PositionCites(p) : p \in ToSet(draft.positions)}))
    /\ UNCHANGED source

InterpretSelected(draft, p) ==
    /\ posting # NoPosting
    /\ Called(IF p \notin DOMAIN posting.positions
              THEN result' = Ended("ANALYSIS_STALE_RESULT") /\ UNCHANGED posting
              ELSE Compiled(CompileDetail(draft, posting, p, source.segments), source.segments,
                     {x.cites : x \in ToSet(draft.duties) \cup ToSet(draft.requirements)}))
    /\ UNCHANGED source

Interpret(draft) ==
    /\ posting = NoPosting
    /\ Called(Compiled(CompileDraft(draft, source.segments), source.segments,
                {draft.companyCites, draft.titleCites}
                  \cup UNION {PositionCites(p) \cup {x.cites : x \in ToSet(p.duties) \cup ToSet(p.requirements)}
                                : p \in ToSet(draft.positions)}
                  \cup {x.cites : x \in ToSet(draft.shared)}))
    /\ UNCHANGED source

InterpretationInit == source \in Sources /\ posting = NoPosting /\ result = Ended("NONE")

InterpretationNext ==
    \/ \E d \in DiscoveryDrafts : Discover(d)
    \/ \E d \in DetailDrafts, p \in 1 .. 3 : InterpretSelected(d, p)
    \/ \E d \in FullDrafts : Interpret(d)

-----------------------------------------------------------------------------
(* Properties *)

\* A posting that is accepted says nothing but what the segments it cites say,
\* and cites only the segments of the snapshot the user verified.
AcceptedIsGrounded ==
    /\ posting # NoPosting => Interpretable(source)
    /\ \A s \in Statements(posting) :
         \A w \in s[1] : \E i \in ToSet(s[2]) : i \in DOMAIN source.segments /\ w \in source.segments[i]

\* An identifier of which the last character is missing is restored to the
\* segment it was copied from, or the draft is refused.
RepairedAsMeant ==
    \A i \in Shown(Len(source.segments)) :
      Resolve(Accepted(source.segments), SubSeq(Alias(i), 1, 3)) \in {0, i}

\* A required language or certificate is kept as such, whatever category the
\* model put it in (_refine_formal_requirement_category). Refuted:
\* repetitions are taken out before the category is refined.
FormalIsKept ==
    [][\A d \in DetailDrafts, p \in DOMAIN posting.positions :
         (InterpretSelected(d, p) /\ result'.code = "DONE") =>
           \A item \in ToSet(d.requirements) :
             (item.marker = "language" /\ item.obligation = "REQUIRED"
                /\ Refine(item.category, item.marker) = "LANGUAGE") =>
               \E q \in ToSet(posting'.positions[p].requirements) :
                 q.text = item.text /\ q.category = "LANGUAGE"]_interpretationVars
=============================================================================
