---------------------------- MODULE CoverLetter ----------------------------
(***************************************************************************)
(* The agent that drafts a cover letter over several turns                 *)
(* (agents/coverletter_draft.py): it takes up the draft of the turn        *)
(* before, records paragraphs, has them checked, and what is shown and     *)
(* kept is assembled from the paragraphs that passed the verification.     *)
(***************************************************************************)
EXTENDS AgentLoop

CONSTANTS
    People,         \* profiles: [facts : Seq of sentences, skills : SUBSET Skills]
    Writings,       \* what save_draft may be given: functions from paragraphs to texts
    Requirements,   \* _requirements: the skills of each requirement of the posting
    Gaps,           \* _gapTopics: the skills each gap names
    MinSentences, MaxSentences, MaxFacts

VARIABLES
    person,     \* the profile of the session
    letter,     \* the paragraphs of the turn and the number of revisions
    kept,       \* session.coverletter: what the next turn takes up
    shown       \* what the turn came to

letterVars == <<loop, person, letter, kept, shown>>

\* A sentence names a skill, or none, and may be firm; a paragraph has sentences at places
Sentence(skill, firm) == [skill |-> skill, firm |-> firm]
Parts == {"motivation", "strengths", "improvement"}
NoLetter == [p \in Parts \cup {"revisions"} |-> IF p = "revisions" THEN 0 ELSE <<>>]
HasDraft(l) == \E p \in Parts : l[p] # <<>>
SkillsIn(text) == {text[i].skill : i \in DOMAIN text} \ {None}
SkillsOf(l) == UNION {SkillsIn(l[p]) : p \in Parts}
FirmIn(l) == \E p \in Parts : \E i \in DOMAIN l[p] : l[p][i].firm

\* _collect_facts
Evidence(who) == SubSeq(who.facts, 1, IF Len(who.facts) < MaxFacts THEN Len(who.facts) ELSE MaxFacts)

\* _check_report
Report(l, who) ==
    [empty |-> {p \in Parts : l[p] = <<>>},
     firm |-> FirmIn(l),
     ungrounded |-> SkillsIn(l["strengths"]) \ who.skills,
     offLength |-> {p \in Parts : l[p] # <<>> /\ Cardinality(DOMAIN l[p]) \notin MinSentences..MaxSentences},
     uncovered |-> {r \in Requirements : r # {} /\ r \cap SkillsOf(l) = {}},
     openGaps |-> {g \in Gaps : g \cap SkillsIn(l["improvement"]) = {}}]
Issues(report) ==
    \/ report.firm
    \/ \E part \in {"empty", "ungrounded", "offLength", "uncovered", "openGaps"} : report[part] # {}

\* _verify_draft: a sentence of the strengths that names a skill the profile has not
\* is taken out
Verified(l, who) ==
    [l EXCEPT !["strengths"] = RestrictValues(@, LAMBDA s : s.skill \in who.skills \cup {None})]

\* _template_draft: the facts in a row
Template(who) ==
    [NoLetter EXCEPT
       !["motivation"] = <<Sentence(None, FALSE)>>,
       !["strengths"] = SubSeq(who.facts, 1, IF Len(who.facts) < 5 THEN Len(who.facts) ELSE 5),
       !["improvement"] = SetToSeq({Sentence(s, FALSE) : s \in UNION Gaps})]

-----------------------------------------------------------------------------
LetterInit ==
    /\ loop = Idle /\ person \in People
    /\ letter = NoLetter /\ kept = NoLetter /\ shown = [kind |-> None]

\* _draft_state, and the refusal where there is nothing to write about
Open ==
    /\ loop = Idle
    /\ letter' = kept
    /\ IF Evidence(person) = <<>>
       THEN loop' = Idle /\ shown' = [kind |-> "no_facts"]
       ELSE loop' = Started /\ shown' = [kind |-> None]
    /\ UNCHANGED <<person, kept>>

\* find_evidence and check_draft look; ask_agent asks the one who diagnoses resumes
Look ==
    /\ \/ \E tool \in {"find_evidence", "check_draft"} : Uses(tool, {})
       \/ \E target \in Declared \cup {None} : AsksAgent("ask_agent", target, {"resume"})
       \/ \E tool \in Tools : Breaks(tool)
    /\ UNCHANGED <<person, letter, kept, shown>>

\* save_draft: the paragraphs that were given, the others stay
Save(writing) ==
    /\ Uses("save_draft", {})
    /\ letter' = IF DOMAIN writing = {} THEN letter
                 ELSE [p \in DOMAIN letter |->
                         IF p \in DOMAIN writing THEN writing[p]
                         ELSE IF p = "revisions" THEN letter[p] + 1 ELSE letter[p]]
    /\ UNCHANGED <<person, kept, shown>>

Speak == Talks /\ UNCHANGED <<person, letter, kept, shown>>

\* A fault for the check: the report of what was written, not of what is sent
FinishedUnmeasured(l, note, warnings) ==
    [kind |-> "draft", letter |-> Verified(l, person), note |-> note, check |-> Report(l, person),
     warned |-> warnings]

\* _finish: verified, measured again, assembled
Finished(l, note, warnings) ==
    LET verified == Verified(l, person)
        check == Report(verified, person)
    IN  [kind |-> "draft", letter |-> verified, note |-> note, check |-> check,
         warned |-> warnings
            \cup (IF FirmIn(l) THEN {"forbidden_expression"} ELSE {})
            \cup (IF verified # l THEN {"ungrounded_skill_removed"} ELSE {})
            \cup (IF Issues(check) THEN {"coverletter_check_unresolved"} ELSE {})]

\* run, after the loop: a recorded draft is sent without a note rather than lost; with no
\* model at all the facts are put in a row
Deliver(unconfigured) ==
    /\ loop.phase = "over"
    /\ unconfigured => "model" \in loop.warned
    /\ LET said == IF loop.reply = NoText THEN {"coverletter_note_missing"} ELSE {}
           result ==
             IF HasDraft(letter) THEN Finished(letter, loop.reply, loop.warned \cup said)
             ELSE IF unconfigured THEN Finished(Template(person), {"plain"}, loop.warned)
             ELSE [kind |-> "failed"]
       IN  /\ shown' = result
           /\ kept' = IF result.kind = "draft" THEN result.letter ELSE kept
    /\ loop' = Idle /\ letter' = NoLetter
    /\ UNCHANGED person

\* Another resume becomes the active one between two turns
NewResume(who) ==
    /\ loop = Idle /\ who # person /\ person' = who
    /\ UNCHANGED <<loop, letter, kept, shown>>

LetterNext ==
    \/ Open
    \/ Look
    \/ \E w \in Writings : letter["revisions"] < 3 /\ Save(w)
    \/ Speak
    \/ \E unconfigured \in BOOLEAN : Deliver(unconfigured)
    \/ \E who \in People : NewResume(who)

-----------------------------------------------------------------------------
\* What is shown of a draft is what is kept of it and what its check measured; its
\* strengths claim no skill the resume of the turn has not, however often that resume was
\* replaced, and a draft, once recorded, outlives a model that fails (coverletter_draft.py,
\* _finish and run)
DeliversWhatIsVerified ==
    (loop.phase = "over" /\ loop' = Idle) =>
      /\ shown'.kind = "draft" =>
           /\ kept' = shown'.letter
           /\ SkillsIn(kept'["strengths"]) \subseteq person.skills
           /\ shown'.check = Report(kept', person)
           /\ FirmIn(kept') => "forbidden_expression" \in shown'.warned
           /\ Issues(shown'.check) => "coverletter_check_unresolved" \in shown'.warned
      /\ HasDraft(letter) \/ HasDraft(kept) => shown'.kind = "draft"
=============================================================================
