------------------------- MODULE CompetencyProposal -------------------------
(***************************************************************************)
(* What the map of a user is made of: the competencies a posting asks for  *)
(* and the project that proves them (v2bridge/mapping.py), as the contract *)
(* accepts them (v2bridge/models.py).  Requirements are read in order; a   *)
(* competency is made where it is met first.  A requirement names known    *)
(* skills, or only words of its own, or years of work.                     *)
(***************************************************************************)
EXTENDS Integers, SequencesExt

CONSTANTS
    Known,          \* keys of the skills the dictionary knows
    Coined,         \* keys made from the words of a requirement
    MaxRequirements,
    MaxRefs,        \* the competencies a project can prove (thirty)
    MaxCompetencies,\* the competencies of a proposal (a hundred)
    MaxRows         \* the requirements of a proposal (two hundred)

VARIABLES
    remaining,      \* requirements not read yet
    read,           \* requirements read
    drafts,         \* the competencies in the order they were met
    rows,           \* what is asked of them in this order: <<key, relation>>
    proposal        \* what came of it, the project empty when there is none
proposalVars == <<remaining, read, drafts, rows, proposal>>

Experience == "career.experience"
NoClasses == [k \in {} |-> FALSE]
Unfinished == [made |-> FALSE, classes |-> NoClasses, competencies |-> <<>>, rows |-> <<>>, project |-> <<>>]

\* A requirement: its skills in the order of the text, or the word it is known
\* by ("" for one that no key can be made of).
Requirements ==
    [relation : {"REQUIRED", "PREFERRED"}, years : {FALSE},
     skills : {s \in SeqOf(Known, 2) : IsInjective(s)}, word : Coined \cup {""}]
    \cup [relation : {"REQUIRED"}, years : {TRUE}, skills : {<<>>}, word : {""}]

ProposalInit ==
    /\ remaining \in SeqOf(Requirements, MaxRequirements)
    /\ read = <<>> /\ drafts = <<>> /\ rows = <<>> /\ proposal = Unfinished

-----------------------------------------------------------------------------
(* Competencies *)

\* _competencies_in: only what the dictionary knows can be verified.
CompetenciesIn(r) ==
    CASE r.years -> <<[key |-> Experience, eligible |-> FALSE]>>
      [] ~r.years /\ r.skills # <<>> -> [i \in DOMAIN r.skills |-> [key |-> r.skills[i], eligible |-> TRUE]]
      [] ~r.years /\ r.skills = <<>> /\ r.word # "" -> <<[key |-> r.word, eligible |-> FALSE]>>
      [] OTHER -> <<>>

Level(relation) == IF relation = "REQUIRED" THEN 3 ELSE 2

\* draft_competencies, one requirement: a competency met before is kept as it
\* was, with the level it was first asked for.
ReadRequirement ==
    /\ remaining # <<>> /\ ~proposal.made
    /\ LET r == Head(remaining)
           found == CompetenciesIn(r)
           fresh == SelectSeq(found, LAMBDA c : \A i \in DOMAIN drafts : drafts[i].key # c.key)
           asked == [i \in DOMAIN found |-> <<found[i].key, r.relation>>]
       IN  /\ drafts' = drafts \o [i \in DOMAIN fresh |->
                [key |-> fresh[i].key, eligible |-> fresh[i].eligible, level |-> Level(r.relation)]]
           /\ rows' = rows \o SelectSeq(asked, LAMBDA a : a \notin ToSet(rows))
           /\ read' = Append(read, r)
    /\ remaining' = Tail(remaining)
    /\ UNCHANGED proposal

-----------------------------------------------------------------------------
(* The project *)

Keys(competencies) == [i \in DOMAIN competencies |-> competencies[i].key]
AtMost(n, s) == SubSeq(s, 1, IF Len(s) < n THEN Len(s) ELSE n)

\* PostingEnrichment: in the conversation a model judges some of the competencies anew,
\* those it names; in an analysis nobody does.
Classifications == UNION {[named -> BOOLEAN] : named \in SUBSET ToSet(Keys(drafts))}
Judged(classes) ==
    [i \in DOMAIN drafts |->
       IF drafts[i].key \in DOMAIN classes
       THEN [drafts[i] EXCEPT !.eligible = classes[drafts[i].key]] ELSE drafts[i]]

\* Mutant: everything that is asked for has to be proved.
EagerProvable(competencies, relation) ==
    AtMost(MaxRefs, Keys(SelectSeq(competencies, LAMBDA c : <<c.key, relation>> \in ToSet(rows))))

Provable(competencies, relation) ==
    AtMost(MaxRefs, Keys(SelectSeq(competencies,
                           LAMBDA c : c.eligible /\ <<c.key, relation>> \in ToSet(rows))))

\* What can be verified and is required; only without any of it, what is
\* preferred.
Project(competencies) ==
    IF Provable(competencies, "REQUIRED") # <<>>
    THEN Provable(competencies, "REQUIRED") ELSE Provable(competencies, "PREFERRED")

\* _build_competency_proposal_from_posting: what is beyond the limits of the contract is
\* cut off, the rest left as it is. Without anything to prove there is no proposal, and
\* the analysis fails.
Conclude ==
    /\ remaining = <<>> /\ ~proposal.made
    /\ \E classes \in Classifications :
         proposal' = [made |-> TRUE, classes |-> classes,
                      competencies |-> AtMost(MaxCompetencies, Judged(classes)),
                      rows |-> AtMost(MaxRows, rows), project |-> Project(Judged(classes))]
    /\ UNCHANGED <<remaining, read, drafts, rows>>

ProposalNext == ReadRequirement \/ Conclude

-----------------------------------------------------------------------------
(* Properties *)

\* CompetencyProposal (unique_competencies, validate_references): what the contract takes.
Accepted(competencies, asked, refs) ==
    LET keys == Keys(competencies)
    IN  /\ competencies # <<>> /\ asked # <<>> /\ Len(competencies) <= MaxCompetencies
        /\ Len(asked) <= MaxRows /\ IsInjective(keys) /\ IsInjective(asked)
        /\ {asked[i][1] : i \in DOMAIN asked} \subseteq ToSet(keys)
        /\ refs # <<>> /\ IsInjective(refs)
        /\ \A i \in DOMAIN refs : \E j \in DOMAIN competencies :
             competencies[j].key = refs[i] /\ competencies[j].eligible

\* A proposal is refused by the contract it is written for, which throws the whole
\* analysis away, only when the posting asks for more competencies than the contract
\* takes: those cut off are still named (mapping.py, models.py).
ProposalIsAccepted ==
    proposal.made /\ proposal.project # <<>> /\ Len(drafts) <= MaxCompetencies
      => Accepted(proposal.competencies, proposal.rows, proposal.project)

\* An analysis fails for want of something to prove only when no requirement names a
\* skill that can be verified, or the model took every one of them back (mapping.py, the
\* measured case above the fallback to what is preferred).
OnlyUnverifiableFails ==
    proposal.made /\ proposal.project = <<>> =>
      \A i \in DOMAIN read : \A skill \in ToSet(read[i].skills) :
        skill \in DOMAIN proposal.classes /\ ~proposal.classes[skill]

\* However long the posting is, the proposal is accepted. Refuted: what is cut off stays
\* named by the requirements and the project.
LongProposalIsAccepted ==
    proposal.made /\ proposal.project # <<>>
      => Accepted(proposal.competencies, proposal.rows, proposal.project)

\* What a posting requires is asked for at the level of what is required
\* ("필수는 실무 수준, 우대는 인지 수준", mapping.py). Refuted: the
\* same skill may have been preferred before.
RequiredAtItsLevel ==
    \A i \in DOMAIN drafts : <<drafts[i].key, "REQUIRED">> \in ToSet(rows) => drafts[i].level = 3
=============================================================================
