----------------------------- MODULE MCServices -----------------------------
(***************************************************************************)
(* The way of postings from the sites to an answer, and what a user is     *)
(* answered, each stage on a small instance: the daily run over the        *)
(* crawlers, the table that is filled from their files and read by OCR     *)
(* workers, the index over the table, the search on it, the answer of a    *)
(* chat turn, the roadmap it leads to, the assessment of a competency, and *)
(* the sources and the evidence a user hands in for his career.        *)
(* A behaviour is one of a part, which the first state chooses; the parts  *)
(* share no state: what one hands to the next is a choice of the next      *)
(* one's first state.                                                      *)
(***************************************************************************)
EXTENDS Integers, Sequences, FiniteSets, TLC

CONSTANTS
    Postings, SiteOf, JobOf, Orders, Pages, MaxTexts, MaxPending, MaxNew, MaxCandidates,
    CheckpointEvery, OcrWorkers, Imports, MaxAttempts,      \* of PostingIntake
    Writers, Batches, SourceOf, Scripts, WindowSize,    \* of PostingIndex
    Callers, Scores, MaxQuestions, MaxSessions,     \* of CompetencyAssessment
    Evidence, Extractors, Verifiers, Profiles, Reads, MaxClaims, MaxRetries     \* of CareerEvidence

\* A posting can be tried (--max-attempts), a search lists postings of its own site, and
\* what was collected before has a text of its own or none, whatever else (load_rows)
ASSUME IntakeFits ==
    /\ MaxAttempts \in Nat \ {0}
    /\ \A p \in Postings : \A page \in Pages[p] : page.text \in {"", "original"}
    /\ \A p \in Postings : \A order \in Orders[SiteOf[p]] :
         order \in Seq({q \in Postings : SiteOf[q] = SiteOf[p]})
    /\ \A known \in Imports : \A p \in DOMAIN known :
         known[p].need \in {"O", "X"} /\ known[p].text \in {"", "original"}
\* A window has room for a chunk (RAG_INGEST_WINDOW_SIZE, model_config.py)
ASSUME IndexFits == WindowSize \in Nat \ {0}
\* A score is one of 0 to 100 (AssessCompetencyResponse, models.py)
ASSUME AssessmentBounds ==
    /\ MaxQuestions \in Nat \ {0} /\ MaxSessions \in Nat
    /\ \A k \in {"CONCEPT", "CODE", "SCENARIO"} : Scores[k] \subseteq 0 .. 100
\* The names differ, and a model that answers names a percentage (VerifyEvidenceResponse)
ASSUME EvidenceFits ==
    /\ "source" \notin Evidence /\ Extractors \cap Verifiers = {}
    /\ "nobody" \notin Extractors \cup Verifiers
    /\ MaxClaims \in Nat \ {0} /\ \A read \in Reads : read.percent \in Int

-----------------------------------------------------------------------------
(* What the sites show *)

Page(text, images) == [developer |-> TRUE, text |-> text, images |-> images]

\* Two postings of one site, which two workers read; the first shows a text now, images later
MCSiteOf == <<"a", "a">>
MCJobOf == <<"j", "k">>
MCOrders == [s \in {"a"} |-> {<<1, 2>>}]
\* What was collected before: images and a text, then nothing to read from and a text that
\* was noted as to be read
Known(need, text, images) == [need |-> need, text |-> text, images |-> images]
MCImports ==
    {(1 :> Known("O", "", "v2")) @@ (2 :> Known("X", "original", "v1")),
     (1 :> Known("O", "", "")) @@ (2 :> Known("O", "original", "v1"))}
ReadPages ==
    <<{Page("original", ""), Page("", "v1")}, {Page("", "v1")}>>
\* Three postings, two of them one job on two sites
DailyPages ==
    <<{Page("", "v1")}, {Page("original", ""), Page("", "v1")},
      {Page("original", ""), [developer |-> FALSE, text |-> "original", images |-> ""]}>>
PairPages == <<{Page("original", ""), Page("", "v1")}>>

-----------------------------------------------------------------------------
(* What is indexed and asked for *)

MCBatches ==
    {"a" :> <<"x", "y">>, ("a" :> <<"z">>) @@ ("b" :> <<"w">>)}

MCSourceOf == [uid \in {"a", "b"} |-> "site"]

Unstated == -1
Row(regions, floor, near, words, weight, same, stamp, titled, skills) ==
    [active |-> TRUE, regions |-> regions, floor |-> floor, near |-> near, words |-> words,
     weight |-> weight, raw |-> TRUE, same |-> same, stamp |-> stamp, states |-> floor,
     titled |-> titled, skills |-> skills, says |-> skills \cup regions]
FirstCorpus ==
    (1 :> Row({"seoul"}, 0, 3, 2, 10, "a", 1, 3, {"java"})) @@
    (2 :> Row({"busan"}, 1, 2, 0, 20, "b", 2, 4, {"java", "go"})) @@
    (3 :> Row({"seoul"}, 5, 1, 2, 30, "c", 3, Unstated, {"go"})) @@
    (4 :> Row({"busan"}, Unstated, Unstated, 1, 5, "a", 3, 2, {}))
MCCorpora ==
    {FirstCorpus,
     [FirstCorpus EXCEPT ![1].active = FALSE,
                         ![4] = Row({"seoul"}, 0, 1, 3, 40, "a", 4, Unstated, {"java"})],
     [FirstCorpus EXCEPT ![3].raw = FALSE, ![2].active = FALSE]}
Terms(regions, years, known) == [regions |-> regions, years |-> years, known |-> known]
MCAsks ==
    {[by |-> "title", says |-> Terms({}, Unstated, FALSE), topK |-> 2],
     [by |-> "title", says |-> Terms({"seoul"}, 0, TRUE), topK |-> 4],
     [by |-> "title", says |-> Terms({"seoul"}, Unstated, FALSE), topK |-> 3],
     [by |-> "profile", says |-> Terms({}, 0, TRUE), topK |-> 2],
     [by |-> "title", says |-> Terms({"busan"}, 0, TRUE), topK |-> 5]}
MCLocal ==
    <<[uid |-> 9, same |-> "l", exact |-> FALSE, score |-> 1, states |-> Unstated,
       titled |-> Unstated, skills |-> {"java"}, says |-> {"java"}],
      [uid |-> 8, same |-> "m", exact |-> FALSE, score |-> 1, states |-> 1, titled |-> 7,
       skills |-> {"go"}, says |-> {"go"}]>>
MCPeople ==
    {[years |-> 0, skills |-> {"java"}, prefers |-> {"seoul"}, known |-> TRUE],
     [years |-> 3, skills |-> {}, prefers |-> {"go", "busan"}, known |-> FALSE],
     [years |-> Unstated, skills |-> {"java", "go"}, prefers |-> {}, known |-> TRUE]}

-----------------------------------------------------------------------------
(* What the user says and a model scores *)

Message(paste, p, words) ==
    [paste |-> paste, posting |-> p, words |-> words, auto |-> TRUE, picked |-> <<>>, stored |-> FALSE]
MCMessages ==
    [c1 |-> {Message("none", "none", {"roadmap"}), Message("posting", "p1", {"analyse"}),
             Message("link", "p2", {"roadmap"}), Message("bare_link", "p1", {"roadmap"}),
             Message("resume", "none", {"interview"}),
             [Message("none", "none", {"analyse"}) EXCEPT !.auto = FALSE, !.picked = <<"p1">>,
                                                          !.stored = TRUE]},
     c2 |-> {Message("posting", "p1", {})}]
MCPlans ==
    {[selected |-> <<"posting_analysis">>, agents |-> <<"posting_analysis", "interview_prep">>],
     [selected |-> <<"coverletter_draft", "interview_prep">>,
      agents |-> <<"coverletter_draft", "interview_prep", "posting_analysis">>],
     [selected |-> <<"roadmap_manager">>, agents |-> <<"roadmap_manager">>],
     [selected |-> <<>>, agents |-> <<>>]}
MCScores == [CONCEPT |-> {70}, CODE |-> {50, 90}, SCENARIO |-> {70, 90}]

-----------------------------------------------------------------------------
(* What postings lead to *)

\* One posting may be taken as an entry or as a job that asks for a year, with a
\* capability of the user's own; the other one asks for a certificate
Way(kind, min, keys, own, cert) ==
    [kind |-> kind, role |-> "backend", min |-> min, max |-> 0, keys |-> keys, own |-> own,
     cert |-> cert]
MCWays ==
    [p |-> {Way("NEW_GRADUATE", 0, {"a"}, {}, "none"),
            Way("EXPERIENCE_REQUIRED", 12, {"b"}, {"x"}, "none")},
     q |-> {Way("NEW_GRADUATE", 0, {"b"}, {}, "EVIDENCED")}]
LegacyNode(section) ==
    [progress |-> "NOT_STARTED", section |-> section, refs |-> {}, atomic |-> FALSE,
     way |-> [kind |-> "NONE", role |-> "none", min |-> -1, max |-> 0, keys |-> {}, own |-> {},
              cert |-> "none"]]
MCLegacy ==
    (<<"CAPABILITY", "a">> :> LegacyNode("role")) @@ (<<"CAPABILITY", "l">> :> LegacyNode("common"))

\* Runs of an ingestion are alike
WriterSymmetry == Permutations(Writers)

-----------------------------------------------------------------------------
(* The parts *)

\* What a reading may find in a source: nothing, an entry without a title, two kinds
Found(section, title) == [section |-> section, title |-> title]
MCProfiles ==
    {{}, {Found("skills", ""), Found("languages", "b")},
     {Found("projects", "a"), Found("awards", "b")}}
MCReads == {[verdict |-> v, percent |-> p] : v \in {"VERIFIED", "REJECTED", "OK"}, p \in {70, 130}}

VARIABLES
    part,
    pages, collected, crawl, table, reading,
    lock, files, failed, merged, script, run, cut, met,
    rows, chunks, profile, model, runs,
    corpus, cache, search, reply, advice,
    kept, saved, turn, answer, turns,
    sessions, competency, caller,
    versions, drafts, pending, states, work, records,
    source, evidence, queued, task, progress, retries, strayed

Intake == INSTANCE PostingIntake WITH
            Workers <- OcrWorkers, Legacy <- Imports, files <- collected
Daily == INSTANCE DailyUpdate WITH
           Postings <- {1, 2, 3}, SiteOf <- <<"a", "a", "b">>, JobOf <- <<"j", "k", "j">>,
           Orders <- [s \in {"a", "b"} |-> IF s = "a" THEN {<<1, 2>>} ELSE {<<3>>}],
           Pages <- DailyPages, MaxTexts <- 3, MaxPending <- 2, MaxNew <- 2, MaxCandidates <- 2,
           CheckpointEvery <- 2, Runs <- {"r1"}, Excluded <- {}
Pair == INSTANCE DailyUpdate WITH
          Postings <- {1}, SiteOf <- <<"a">>, JobOf <- <<"j">>,
          Orders <- [s \in {"a"} |-> {<<1>>}], Pages <- PairPages, MaxTexts <- 1,
          MaxPending <- 1, MaxNew <- 1, MaxCandidates <- 1, CheckpointEvery <- 1,
          Runs <- {"r1", "r2"}, Excluded <- {}
Index == INSTANCE PostingIndex
Search == INSTANCE PostingSearch WITH
            Corpora <- MCCorpora, Asks <- MCAsks, LocalItems <- MCLocal, People <- MCPeople,
            CandidateK <- 3, MinResults <- 3, RerankN <- 3, MaxTopK <- 4, MaxAdvice <- 2
Output == INSTANCE ChatOutput WITH
            Chats <- {"c1", "c2"}, Facts <- {"f1", "f2"},
            Messages <- MCMessages, Plans <- MCPlans, MaxFacts <- 2, MaxTurns <- 2,
            MaxParallel <- 3
Assessment == INSTANCE CompetencyAssessment
Roadmap == INSTANCE RoadmapVersions WITH
             Postings <- {"p", "q"}, Ways <- MCWays, Releases <- {{<<"a", "b">>}},
             Legacy <- MCLegacy, Evidenced <- {"b"}, Months <- {12}, Worked <- {"p"},
             Learnt <- {"b"}, MaxVersions <- 3, MaxDrafts <- 1

Sources == INSTANCE CareerEvidence WITH
             Source <- "source", Evidence <- {}, Verifiers <- {}, rows <- queued
Proofs == INSTANCE CareerEvidence WITH
            Source <- "source", Extractors <- {}, rows <- queued

intakeVars == <<pages, collected, crawl, table, reading>>
dailyVars == <<lock, files, failed, merged, script, run, cut, met>>
indexVars == <<rows, chunks, profile, model, runs>>
searchVars == <<corpus, cache, search, reply, advice>>
outputVars == <<kept, saved, turn, answer, turns>>
assessmentVars == <<sessions, competency, caller>>
roadmapVars == <<versions, drafts, pending, states, work, records>>
careerVars == <<source, evidence, queued, task, progress, retries, strayed>>
allVars ==
    <<part, intakeVars, dailyVars, indexVars, searchVars, outputVars, assessmentVars, roadmapVars,
      careerVars>>

NoIntake ==
    pages = "off" /\ collected = "off" /\ crawl = "off" /\ table = "off" /\ reading = "off"
NoDaily ==
    /\ lock = "off" /\ files = "off" /\ failed = "off" /\ merged = "off" /\ script = "off"
    /\ run = "off" /\ cut = "off" /\ met = "off"
NoIndex ==
    rows = "off" /\ chunks = "off" /\ profile = "off" /\ model = "off" /\ runs = "off"
NoSearch ==
    corpus = "off" /\ cache = "off" /\ search = "off" /\ reply = "off" /\ advice = "off"
NoOutput ==
    kept = "off" /\ saved = "off" /\ turn = "off" /\ answer = "off" /\ turns = "off"
NoAssessment == sessions = "off" /\ competency = "off" /\ caller = "off"
NoRoadmap ==
    /\ versions = "off" /\ drafts = "off" /\ pending = "off" /\ states = "off" /\ work = "off"
    /\ records = "off"

NoCareer ==
    /\ source = "off" /\ evidence = "off" /\ queued = "off" /\ task = "off" /\ progress = "off"
    /\ retries = "off" /\ strayed = "off"

ServicesInit ==
    \/ /\ part \in {"daily", "pair"}
       /\ IF part = "daily" THEN Daily!DailyInit ELSE Pair!DailyInit
       /\ NoIntake /\ NoIndex /\ NoSearch /\ NoOutput /\ NoAssessment /\ NoRoadmap /\ NoCareer
    \/ /\ part = "intake" /\ Intake!IntakeInit
       /\ NoDaily /\ NoIndex /\ NoSearch /\ NoOutput /\ NoAssessment /\ NoRoadmap /\ NoCareer
    \/ /\ part = "index" /\ Index!IndexInit
       /\ NoDaily /\ NoIntake /\ NoSearch /\ NoOutput /\ NoAssessment /\ NoRoadmap /\ NoCareer
    \/ /\ part = "search" /\ Search!SearchInit
       /\ NoDaily /\ NoIntake /\ NoIndex /\ NoOutput /\ NoAssessment /\ NoRoadmap /\ NoCareer
    \/ /\ part = "output" /\ Output!OutputInit
       /\ NoDaily /\ NoIntake /\ NoIndex /\ NoSearch /\ NoAssessment /\ NoRoadmap /\ NoCareer
    \/ /\ part = "assessment" /\ Assessment!AssessmentInit
       /\ NoDaily /\ NoIntake /\ NoIndex /\ NoSearch /\ NoOutput /\ NoRoadmap /\ NoCareer
    \/ /\ part = "roadmap" /\ Roadmap!RoadmapInit
       /\ NoDaily /\ NoIntake /\ NoIndex /\ NoSearch /\ NoOutput /\ NoAssessment /\ NoCareer
    \/ /\ part \in {"sources", "evidence"}
       /\ IF part = "sources" THEN Sources!EvidenceInit ELSE Proofs!EvidenceInit
       /\ NoIntake /\ NoDaily /\ NoIndex /\ NoSearch /\ NoOutput /\ NoAssessment /\ NoRoadmap

ServicesNext ==
    \/ /\ part = "daily" /\ Daily!DailyNext
       /\ UNCHANGED <<part, intakeVars, indexVars, searchVars, outputVars,
                      assessmentVars, roadmapVars, careerVars>>
    \/ /\ part = "pair" /\ Pair!DailyNext
       /\ UNCHANGED <<part, intakeVars, indexVars, searchVars, outputVars,
                      assessmentVars, roadmapVars, careerVars>>
    \/ /\ part = "intake" /\ Intake!IntakeNext
       /\ UNCHANGED <<part, dailyVars, indexVars, searchVars, outputVars,
                      assessmentVars, roadmapVars, careerVars>>
    \/ /\ part = "index" /\ Index!IndexNext
       /\ UNCHANGED <<part, dailyVars, intakeVars, searchVars, outputVars,
                      assessmentVars, roadmapVars, careerVars>>
    \/ /\ part = "search" /\ Search!SearchNext
       /\ UNCHANGED <<part, dailyVars, intakeVars, indexVars, outputVars,
                      assessmentVars, roadmapVars, careerVars>>
    \/ /\ part = "output" /\ Output!OutputNext
       /\ UNCHANGED <<part, dailyVars, intakeVars, indexVars, searchVars,
                      assessmentVars, roadmapVars, careerVars>>
    \/ /\ part = "assessment" /\ Assessment!AssessmentNext
       /\ UNCHANGED <<part, dailyVars, intakeVars, indexVars, searchVars,
                      outputVars, roadmapVars, careerVars>>
    \/ /\ part = "roadmap" /\ Roadmap!RoadmapNext
       /\ UNCHANGED <<part, dailyVars, intakeVars, indexVars, searchVars,
                      outputVars, assessmentVars, careerVars>>
    \/ /\ part = "sources" /\ Sources!EvidenceNext
       /\ UNCHANGED <<part, dailyVars, intakeVars, indexVars, searchVars,
                      outputVars, assessmentVars, roadmapVars>>
    \/ /\ part = "evidence" /\ Proofs!EvidenceNext
       /\ UNCHANGED <<part, dailyVars, intakeVars, indexVars, searchVars,
                      outputVars, assessmentVars, roadmapVars>>

ServicesSpec == ServicesInit /\ [][ServicesNext]_allVars

-----------------------------------------------------------------------------
(* What is checked of each part *)

\* A posting without a text can still be read, unless it was given up after trying
\* or came without its images (ocr_postgres.py, export_postgres.py); the index holds
\* vectors of one model, a posting that came back apart, and no window of an
\* ingestion takes away what another one has written (store.py, ingest_windows.py); nothing is recommended that asks for more years than the
\* person has (job_recommend.py); on a roadmap the experience a job asks for can be
\* earned, what waits for the user can be applied, and a project is shown as verified
\* as it was completed (compiler_reference.py, V3RoadmapService).
EachStageIsWhole ==
    /\ part = "intake" => Intake!UnreadCanBeRead
    /\ part = "index" => Index!OneSpace /\ Index!WindowsKeepEachOther
    /\ part = "search" => Search!AdviceIsFit
    /\ part = "roadmap" =>
         Roadmap!CareerStepsStand /\ Roadmap!DraftsCanBeApplied /\ Roadmap!VerifiedAsShown

\* A run of the crawlers that works alone keeps what earlier runs collected, a file
\* whose writing was cut off apart, every job it collected is in what it merges, and a text that was read stays as long as the
\* images it was read from (run_daily_update.py, merge_job_postings.py,
\* export_postgres.py, ocr_postgres.py); an answer fits what was asked for, its
\* filters and its limit (search.py, rag.py); what the user tells of himself
\* reaches his profile (service.py, user_facts.py); a removal from the roadmap takes
\* what it names and what nothing else needs, and what was proved stays proved
\* (compiler_reference.py, V3AtomicCapabilityStateService); a fragment the user
\* confirmed stands until he deletes its source (CareerExtractionWorker).
EachStepKeeps ==
    [][/\ part = "daily" => Daily!CollectedStays /\ Daily!EveryJobIsMerged
       /\ part = "pair" => Pair!CollectedStays /\ Pair!EveryJobIsMerged
       /\ part = "intake" => Intake!TextsAreKept
       /\ part = "search" => Search!AnswerFitsTheQuestion
       /\ part = "output" => Output!FactsReachTheProfile
       /\ part = "roadmap" => Roadmap!RemovalIsExact /\ Roadmap!ProvedStaysProved
       /\ part = "sources" => Sources!ConfirmedStandsStep]_allVars

\* The plan of an answer is what ran, what is done without asking was asked for and
\* is about the posting it names, and a posting to confirm stands alone
\* (chat_events, service.py).
EachAnswerIsBound ==
    part = "output" =>
      Output!PlanIsWhatRan /\ Output!AutomaticIsBound /\ Output!ReviewStandsAlone

\* What a user is said to master was proved: the two sides of an assessment agree
\* on the next question, one question is open at a time, and a verified level was
\* earned (CompetencyAssessmentService, assess_competency); what he hands in is not
\* lost between its queue and its reader, the fragments of a source are those of one
\* reading, and a capability is held by verified evidence only
\* (V40__recover_auxiliary_ai_jobs.sql, CareerExtractionWorker,
\* EvidenceVerificationWorker).
EachVerdictIsEarned ==
    /\ part = "assessment" =>
         /\ Assessment!BothSidesAgree /\ Assessment!OneQuestionIsOpen
         /\ Assessment!VerifiedIsEarned
    /\ part = "sources" => Sources!NothingIsForgotten /\ Sources!FragmentsAreReviewed
    /\ part = "evidence" => Proofs!NothingIsForgotten /\ Proofs!ProgressIsProven
=============================================================================
