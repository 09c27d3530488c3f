----------------------- MODULE CareerAnalysisProofs -----------------------
(***************************************************************************)
(* What the proofs about the career pipeline say of the composite          *)
(* MCCareerAnalysis, whose properties the runs check: of two jobs, whose   *)
(* constants the configuration sets, and of the one that is retried.       *)
(***************************************************************************)
EXTENDS MCCareerAnalysis, CareerProofs

OneP == INSTANCE CareerProofs WITH
          Jobs <- {"j1"}, NoJob <- "none", MaxRetries <- 2, MaxEvidence <- 1,
          Kinds <- {"NEW_GRADUATE", "NEW_GRADUATE_OR_EXPERIENCED"}, Requirements <- {"q1", "q2"}

PartsInv ==
    /\ part = "two jobs" => CareerInv
    /\ part = "one job" => OneP!CareerInv /\ OneP!StoryInv

LEMMA OneFits == OneP!CareerBounds
BY CareerBounds DEF OneP!CareerBounds

LEMMA OneBegins == One!Init => OneP!Init
BY DEF One!Init, OneP!Init, One!NoStructure, OneP!NoStructure, One!NewJob, OneP!NewJob,
       One!NewRun, OneP!NewRun, One!NoReview, OneP!NoReview, One!NoKey, OneP!NoKey,
       One!NoStages, OneP!NoStages, One!Stages, OneP!Stages

LEMMA OneSteps == One!Next => OneP!Next
BY DEF One!Next, OneP!Next, One!ExpireLease, OneP!ExpireLease, One!Request, OneP!Request,
       One!Create, OneP!Create, One!LoadShared, OneP!LoadShared, One!AcquireLease, OneP!AcquireLease,
       One!WaitTooLong, OneP!WaitTooLong, One!Bind, OneP!Bind, One!Discover, OneP!Discover,
       One!ResolvePosting, OneP!ResolvePosting, One!Detail, OneP!Detail,
       One!ReviewPosting, OneP!ReviewPosting, One!Plan, OneP!Plan, One!Normalize, OneP!Normalize,
       One!Fit, OneP!Fit, One!Compose, OneP!Compose, One!Deliver, OneP!Deliver,
       One!Answer, OneP!Answer, One!Cancel, OneP!Cancel, One!CancelCall, OneP!CancelCall,
       One!Retry, OneP!Retry, One!AbandonedEnds, OneP!AbandonedEnds,
       One!Set, OneP!Set, One!Run, OneP!Run, One!With, OneP!With, One!Mark, OneP!Mark,
       One!Finish, OneP!Finish, One!FailStage, OneP!FailStage, One!Await, OneP!Await,
       One!Pause, OneP!Pause, One!Released, OneP!Released, One!Checkpoint, OneP!Checkpoint,
       One!Offered, OneP!Offered, One!Skip, OneP!Skip, One!Stops, OneP!Stops,
       One!Requires, OneP!Requires, One!Review, OneP!Review, One!Resolve, OneP!Resolve,
       One!PositionOf, OneP!PositionOf, One!KindOf, OneP!KindOf, One!TrackOf, OneP!TrackOf,
       One!KeysOf, OneP!KeysOf, One!Answered, OneP!Answered, One!IsDiscovery, OneP!IsDiscovery,
       One!PositionKey, OneP!PositionKey, One!TrackKey, OneP!TrackKey, One!Tracks, OneP!Tracks,
       One!WaitingStages, OneP!WaitingStages, One!NewRun, OneP!NewRun, One!NoReview, OneP!NoReview,
       One!NoKey, OneP!NoKey, One!NoStructure, OneP!NoStructure, One!NoStages, OneP!NoStages,
       One!Stages, OneP!Stages, One!BoundedSeq, OneP!BoundedSeq, One!SeqOf, OneP!SeqOf

LEMMA PartsBegin == CareerInit => PartsInv
BY CareerBegins, OneFits, OneBegins, OneP!CareerBegins, OneP!StoryBegins DEF CareerInit, PartsInv

LEMMA PartsGoOn == PartsInv /\ [CareerNext]_allVars => PartsInv'
<1>1. ASSUME PartsInv, [CareerNext]_allVars, part' = "two jobs" PROVE CareerInv'
  <2>1. part = "two jobs" /\ (Next \/ UNCHANGED vars)
    BY <1>1 DEF CareerNext, allVars
  <2> QED BY <1>1, <2>1, CareerStep DEF PartsInv
<1>2. ASSUME PartsInv, [CareerNext]_allVars, part' = "one job" PROVE OneP!CareerInv' /\ OneP!StoryInv'
  <2>1. part = "one job" /\ (One!Next \/ UNCHANGED vars)
    BY <1>2 DEF CareerNext, allVars
  <2>2. OneP!CareerInv /\ OneP!StoryInv /\ [OneP!Next]_OneP!vars
    BY <1>2, <2>1, OneSteps DEF PartsInv, vars, OneP!vars
  <2> QED BY <2>2, OneFits, OneP!CareerStep, OneP!StoryStep
<1> QED BY <1>1, <1>2 DEF PartsInv

\* The property of the run, from the theorem about every number of jobs: what is
\* planned was chosen and confirmed, no answer is stale, a run ends as cancelled only by
\* a call that came while it ran, its stages tell how it ended, and its questions are few
\* (AnalysisPipelineService.run, cancellation.py).
THEOREM JobsAreAsAsked == CareerSpec => []EachJobIsAsAsked
<1>1. PartsInv => EachJobIsAsAsked
  <2>1. CareerInv => NoStaleAnswer
    BY CareerPromises
  <2>2. OneP!CareerInv => OneP!PlannedAsConfirmed /\ OneP!CancelOnlyWhatWasAsked
    BY OneFits, OneP!CareerPromises
  <2>3. OneP!PlannedAsConfirmed /\ OneP!CancelOnlyWhatWasAsked
          => One!PlannedAsConfirmed /\ One!CancelOnlyWhatWasAsked
    BY DEF One!PlannedAsConfirmed, OneP!PlannedAsConfirmed, One!CancelOnlyWhatWasAsked,
           OneP!CancelOnlyWhatWasAsked, One!PositionKey, OneP!PositionKey,
           One!TrackKey, OneP!TrackKey, One!NoReview, OneP!NoReview
  <2>4. OneP!StoryInv => OneP!StagesTellOutcome /\ OneP!QuestionsSuffice
    BY OneFits, OneP!StoryPromises
  <2>5. OneP!StagesTellOutcome /\ OneP!QuestionsSuffice
          => One!StagesTellOutcome /\ One!QuestionsSuffice
    <3>1. One!Stages = OneP!Stages /\ One!WaitingStages = OneP!WaitingStages
      BY DEF One!Stages, OneP!Stages, One!WaitingStages, OneP!WaitingStages
    <3>c. \A S : One!Cardinality(S) = OneP!Cardinality(S)
      BY DEF One!Cardinality, OneP!Cardinality, One!IsFiniteSet, OneP!IsFiniteSet
    <3>2. OneP!StagesTellOutcome => One!StagesTellOutcome
      BY <3>1, <3>c DEF One!StagesTellOutcome, OneP!StagesTellOutcome
    <3>3. OneP!QuestionsSuffice => One!QuestionsSuffice
      BY <3>c DEF One!QuestionsSuffice, OneP!QuestionsSuffice
    <3> QED BY <3>2, <3>3
  <2> QED BY <2>1, <2>2, <2>3, <2>4, <2>5 DEF PartsInv, EachJobIsAsAsked
<1> QED BY <1>1, PartsBegin, PartsGoOn, PTL DEF CareerSpec
===========================================================================
