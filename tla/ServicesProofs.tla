---------------------------- MODULE ServicesProofs ----------------------------
(***************************************************************************)
(* What is proved of the services of MCServices for every value of their   *)
(* constants.                                                              *)
(***************************************************************************)
EXTENDS MCServices, FiniteSetTheorems, WellFoundedInduction, SequenceTheorems, TLAPS

-----------------------------------------------------------------------------
(* The assessment of a competency: what holds of its sessions and requests *)

Kinds == {"CONCEPT", "CODE", "SCENARIO"}
Question == [kind : Kinds, score : -1 .. 100]
Grades == UNION {[D -> 0 .. 100] : D \in SUBSET Kinds}
Session ==
    [status : {"IN_PROGRESS", "ABANDONED", "PASSED", "NEEDS_STUDY"}, retained : Grades,
     turns : Seq(Question), recent : BOOLEAN, review : {"NONE", "REQUESTED", "APPROVED", "REJECTED"}]
Starting == [doing : {"start"}, retained : Grades, next : Kinds]
Replying == [doing : {"answer"}, session : Nat, turn : Nat, score : 0 .. 100, next : Kinds \cup {"none"}]

Requests == [Callers -> {Assessment!Idle} \cup Starting \cup Replying]

AssessmentType == sessions \in Seq(Session) /\ caller \in Requests

Open(t) == t.score = Assessment!NoScore
HasEnded(s) == s.status \in {"PASSED", "NEEDS_STUDY"}

\* All questions but the last have an answer; the last one waits for its answer
\* unless the session has ended, and only then there is a review
InOrder(s) ==
    /\ s.review # "NONE" => HasEnded(s)
    /\ Len(s.turns) \in 1 .. MaxQuestions
    /\ \A k \in 1 .. Len(s.turns) : Open(s.turns[k]) <=> k = Len(s.turns) /\ ~HasEnded(s)

\* A score that was kept was given in a session that had ended before
GivenBefore(ss, n, marks) ==
    \A k \in DOMAIN marks : \E j \in 1 .. n :
      HasEnded(ss[j]) /\ \E m \in 1 .. Len(ss[j].turns) :
        ss[j].turns[m].kind = k /\ ss[j].turns[m].score = marks[k]

SessionsInOrder(ss) ==
    /\ \A i \in 1 .. Len(ss) : InOrder(ss[i]) /\ GivenBefore(ss, i - 1, ss[i].retained)
    /\ \A i, j \in 1 .. Len(ss) :
         ss[i].status = "IN_PROGRESS" /\ ss[j].status = "IN_PROGRESS" => i = j

\* With the answer of a request a session ends, or goes on with the question it needs
Closes(s, a) ==
    LET answered == [s.turns EXCEPT ![a.turn].score = a.score]
        best == Assessment!Best(s.retained, Assessment!ToSet(answered))
    IN  \/ Assessment!Passing(best)
        \/ Assessment!Cardinality(Assessment!Answered(answered)) >= MaxQuestions
        \/ a.next = Assessment!NextQuestionKind(best)

\* What a request brings back is about the open question, or comes too late
RequestsInOrder(ss, cc) ==
    \A c \in Callers :
      /\ cc[c].doing = "start" => GivenBefore(ss, Len(ss), cc[c].retained)
      /\ cc[c].doing = "answer" =>
           /\ cc[c].session \in 1 .. Len(ss) /\ cc[c].turn \in 1 .. Len(ss[cc[c].session].turns)
           /\ Open(ss[cc[c].session].turns[cc[c].turn]) => Closes(ss[cc[c].session], cc[c])

Earned(ss, i) ==
    UNION {Assessment!ToSet(ss[j].turns) : j \in {k \in 1 .. i : HasEnded(ss[k])}}
LevelIsEarned(ss) ==
    \E i \in 1 .. Len(ss) :
      ss[i].status = "PASSED" /\ Assessment!Passing(Assessment!Best([k \in {} |-> 0], Earned(ss, i)))

AssessmentInv ==
    /\ AssessmentType /\ SessionsInOrder(sessions) /\ RequestsInOrder(sessions, caller)
    /\ competency.by = "AI_ASSESSMENT" => LevelIsEarned(sessions)

SourcesP == INSTANCE CareerEvidenceProofs WITH
              Source <- "source", Evidence <- {}, Verifiers <- {}, rows <- queued
ProofsP == INSTANCE CareerEvidenceProofs WITH
             Source <- "source", Extractors <- {}, rows <- queued

PartsInv ==
    /\ part = "assessment" => AssessmentInv
    /\ part = "sources" => SourcesP!EvidenceInv
    /\ part = "evidence" => ProofsP!EvidenceInv

-----------------------------------------------------------------------------
(* The best of some scores *)

LEMMA Greatest ==
    ASSUME NEW S, S \subseteq 0 .. 100, S # {}
    PROVE  Assessment!Max(S) \in S /\ \A y \in S : y <= Assessment!Max(S)
<1> DEFINE T == {100 - x : x \in S}
<1>1. T \subseteq Nat /\ T # {}
  <2>1. PICK x \in S : TRUE
    OBVIOUS
  <2>2. 100 - x \in T
    BY <2>1
  <2>3. \A y \in S : 100 - y \in Nat
    OBVIOUS
  <2> QED BY <2>2, <2>3
<1>2. PICK n \in T : \A m \in T : ~(<<m, n>> \in OpToRel(<, Nat))
  <2> HIDE DEF T
  <2> QED BY <1>1, NatLessThanWellFounded, WFMin
<1>3. \A m \in T : n <= m
  <2> TAKE m \in T
  <2>1. m \in Nat /\ n \in Nat
    BY <1>1
  <2>2. <<m, n>> \in Nat \X Nat
    BY <2>1
  <2>3. ~(m < n)
    BY <1>2, <2>2 DEF OpToRel
  <2> QED BY <2>1, <2>3
<1>4. PICK x \in S : n = 100 - x
  OBVIOUS
<1>5. \A y \in S : y <= x
  <2> TAKE y \in S
  <2>1. n <= 100 - y
    BY <1>3
  <2>2. x \in 0 .. 100 /\ y \in 0 .. 100
    OBVIOUS
  <2> QED BY <1>4, <2>1, <2>2
<1> QED BY <1>5 DEF Assessment!Max

LEMMA Least ==
    ASSUME NEW S, S \subseteq 1 .. 3, S # {}
    PROVE  Assessment!Min(S) \in S
<1>1. \E x \in S : \A y \in S : x <= y
  <2>1. CASE 1 \in S
    BY <2>1
  <2>2. CASE 1 \notin S /\ 2 \in S
    BY <2>2
  <2>3. CASE 1 \notin S /\ 2 \notin S
    <3>1. PICK x \in S : TRUE
      OBVIOUS
    <3>2. \A y \in S : y = 3
      BY <2>3
    <3> QED BY <3>1, <3>2
  <2> QED BY <2>1, <2>2, <2>3
<1> QED BY <1>1 DEF Assessment!Min

LEMMA KindsAreThree == Assessment!Kinds = Kinds /\ \A i \in 1 .. 3 : Assessment!KindOrder[i] \in Kinds
BY DEF Assessment!Kinds, Assessment!KindOrder, Assessment!ToSet, Kinds

LEMMA ScoreOfGrades ==
    ASSUME NEW g \in Grades, NEW k
    PROVE  Assessment!ScoreOf(g, k) \in 0 .. 100
BY DEF Grades, Assessment!ScoreOf

\* What the best score of a kind is, and where it comes from
LEMMA BestOf ==
    ASSUME NEW g \in Grades, NEW E, E \subseteq Question
    PROVE  /\ Assessment!Best(g, E) \in Grades
           /\ \A k \in Kinds :
                LET b == Assessment!ScoreOf(Assessment!Best(g, E), k)
                IN  /\ b \in 0 .. 100 /\ Assessment!ScoreOf(g, k) <= b
                    /\ \A t \in E : t.kind = k => t.score <= b
                    /\ b = Assessment!ScoreOf(g, k) \/ \E t \in E : t.kind = k /\ t.score = b
<1> DEFINE scored == {t \in E : t.score # Assessment!NoScore}
           kinds == DOMAIN g \cup {t.kind : t \in scored}
           S(k) == {Assessment!ScoreOf(g, k)} \cup {t.score : t \in {u \in scored : u.kind = k}}
           best == Assessment!Best(g, E)
<1>1. best = [k \in kinds |-> Assessment!Max(S(k))]
  BY DEF Assessment!Best
<1>2. kinds \subseteq Kinds
  BY DEF Grades, Question
<1>3. \A t \in scored : t.score \in 0 .. 100
  BY DEF Question, Assessment!NoScore
<1>4. ASSUME NEW k PROVE Assessment!Max(S(k)) \in S(k) /\ Assessment!Max(S(k)) \in 0 .. 100
                          /\ \A y \in S(k) : y <= Assessment!Max(S(k))
  <2>1. S(k) \subseteq 0 .. 100 /\ S(k) # {}
    BY <1>3, ScoreOfGrades
  <2> HIDE DEF S
  <2> QED BY <2>1, Greatest
<1>5. best \in Grades
  <2>1. best \in [kinds -> 0 .. 100]
    <3> HIDE DEF S, kinds
    <3> QED BY <1>1, <1>4
  <2> QED BY <1>2, <2>1 DEF Grades
<1>6. ASSUME NEW k \in Kinds
      PROVE LET b == Assessment!ScoreOf(best, k)
                IN  /\ b \in 0 .. 100 /\ Assessment!ScoreOf(g, k) <= b
                    /\ \A t \in E : t.kind = k => t.score <= b
                    /\ b = Assessment!ScoreOf(g, k) \/ \E t \in E : t.kind = k /\ t.score = b
  <2>1. CASE k \in kinds
    <3>1. Assessment!ScoreOf(best, k) = Assessment!Max(S(k))
      BY <1>1, <2>1 DEF Assessment!ScoreOf
    <3>2. \A t \in E : t.kind = k => t.score \in S(k) \/ t.score = -1
      BY DEF Assessment!NoScore
    <3>3. Assessment!ScoreOf(g, k) \in S(k)
      OBVIOUS
    <3>4. \A y \in S(k) : y = Assessment!ScoreOf(g, k) \/ \E t \in E : t.kind = k /\ t.score = y
      OBVIOUS
    <3> HIDE DEF S
    <3> QED BY <1>4, <3>1, <3>2, <3>3, <3>4
  <2>2. CASE k \notin kinds
    <3>1. Assessment!ScoreOf(best, k) = 0 /\ Assessment!ScoreOf(g, k) = 0
      BY <1>1, <2>2 DEF Assessment!ScoreOf
    <3>2. \A t \in E : t.kind = k => t.score = -1
      BY <2>2 DEF Assessment!NoScore
    <3> QED BY <3>1, <3>2
  <2> QED BY <2>1, <2>2
<1> QED BY <1>5, <1>6

LEMMA PassingIsMonotone ==
    ASSUME NEW g \in Grades, NEW h \in Grades, Assessment!Passing(g),
           \A k \in Kinds : Assessment!ScoreOf(g, k) <= Assessment!ScoreOf(h, k)
    PROVE  Assessment!Passing(h)
<1>1. \A k \in Kinds : Assessment!ScoreOf(g, k) \in 0 .. 100 /\ Assessment!ScoreOf(h, k) \in 0 .. 100
  BY ScoreOfGrades
<1>2. \A i \in 1 .. 3 : 60 <= Assessment!ScoreOf(g, Assessment!KindOrder[i])
  BY <1>1, KindsAreThree DEF Assessment!Passing, Assessment!Short, Assessment!MinimumScore
<1>3. Assessment!Short(h) = {}
  BY <1>1, <1>2, KindsAreThree DEF Assessment!Short, Assessment!MinimumScore
<1>4. 75 <= Assessment!Average(g)
  BY DEF Assessment!Passing, Assessment!PassScore, Assessment!Average
<1>5. Assessment!Average(g) <= Assessment!Average(h) /\ Assessment!Average(g) \in Int /\ Assessment!Average(h) \in Int
  <2> DEFINE a(k) == Assessment!ScoreOf(g, k)
             b(k) == Assessment!ScoreOf(h, k)
  <2>1. \A k \in {"CONCEPT", "CODE", "SCENARIO"} : a(k) \in Nat /\ b(k) \in Nat /\ a(k) <= b(k)
    BY <1>1 DEF Kinds
  <2>2. Assessment!Average(g) = (a("CONCEPT") + a("CODE") + a("SCENARIO")) \div 3
    BY DEF Assessment!Average
  <2>3. Assessment!Average(h) = (b("CONCEPT") + b("CODE") + b("SCENARIO")) \div 3
    BY DEF Assessment!Average
  <2>4. \A m, n \in Nat : m <= n => m \div 3 <= n \div 3 /\ m \div 3 \in Int /\ n \div 3 \in Int
    OBVIOUS
  <2> HIDE DEF a, b
  <2>5. /\ a("CONCEPT") + a("CODE") + a("SCENARIO") \in Nat /\ b("CONCEPT") + b("CODE") + b("SCENARIO") \in Nat
        /\ a("CONCEPT") + a("CODE") + a("SCENARIO") <= b("CONCEPT") + b("CODE") + b("SCENARIO")
    BY <2>1
  <2> QED BY <2>2, <2>3, <2>4, <2>5
<1> QED BY <1>3, <1>4, <1>5 DEF Assessment!Passing, Assessment!PassScore

LEMMA NextKinds ==
    ASSUME NEW g \in Grades
    PROVE  /\ Assessment!NextQuestionKind(g) \in Kinds \cup {"none"}
           /\ Assessment!NextQuestionKind(g) = "none" <=> Assessment!Passing(g)
           /\ Assessment!NextAssessmentKind(g) = Assessment!NextQuestionKind(g)
           /\ Assessment!FirstKind(g) \in Kinds
<1>1. \A k : Assessment!ScoreOf(g, k) \in 0 .. 100
  BY ScoreOfGrades
<1>2. Assessment!Weakest(g) \in Kinds
  <2> DEFINE S == {i \in 1 .. 3 : \A j \in 1 .. 3 :
                     Assessment!ScoreOf(g, Assessment!KindOrder[i]) <= Assessment!ScoreOf(g, Assessment!KindOrder[j])}
  <2>1. S # {} /\ S \subseteq 1 .. 3
    BY <1>1
  <2>2. Assessment!Min(S) \in 1 .. 3
    BY <2>1, Least
  <2> QED BY <2>2, KindsAreThree DEF Assessment!Weakest
<1>3. Assessment!Short(g) # {} => Assessment!KindOrder[Assessment!Min(Assessment!Short(g))] \in Kinds
  <2>1. Assessment!Short(g) \subseteq 1 .. 3
    BY DEF Assessment!Short
  <2> QED BY <2>1, Least, KindsAreThree
<1>4. "none" \notin Kinds
  BY DEF Kinds
<1>5. Assessment!NextAssessmentKind(g) = Assessment!NextQuestionKind(g)
  BY DEF Assessment!NextAssessmentKind, Assessment!NextQuestionKind, Assessment!Passing, Assessment!Short,
         Assessment!PassScore, Assessment!MinimumScore
<1> QED BY <1>2, <1>3, <1>4, <1>5 DEF Assessment!NextQuestionKind, Assessment!FirstKind, Assessment!Passing

\* The number of answers of a session is the number of its questions when all of
\* them are answered
LEMMA AllAnswered ==
    ASSUME NEW q \in Seq(Question), \A k \in 1 .. Len(q) : ~Open(q[k])
    PROVE  Assessment!Cardinality(Assessment!Answered(q)) = Len(q)
<1>1. Assessment!Answered(q) = 1 .. Len(q)
  BY DEF Assessment!Answered, Open
<1>2. Cardinality(1 .. Len(q)) = Len(q)
  <2> DEFINE n == Len(q)
  <2>1. n \in Nat
    OBVIOUS
  <2> HIDE DEF n
  <2>2. Cardinality(1 .. n) = IF 1 > n THEN 0 ELSE n - 1 + 1
    BY <2>1, FS_Interval
  <2>3. Cardinality(1 .. n) = n
    BY <2>1, <2>2
  <2> QED BY <2>3 DEF n
<1> QED BY <1>1, <1>2 DEF Assessment!Cardinality, Assessment!IsFiniteSet, Cardinality, IsFiniteSet

LEMMA TurnsAreQuestions ==
    ASSUME NEW q \in Seq(Question)
    PROVE  /\ Assessment!ToSet(q) \subseteq Question
           /\ \A k \in 1 .. Len(q) : q[k] \in Assessment!ToSet(q)
           /\ \A t \in Assessment!ToSet(q) : \E k \in 1 .. Len(q) : t = q[k]
BY DEF Assessment!ToSet

LEMMA NothingIsGraded == [k \in {} |-> 0] \in Grades
<1>1. [k \in {} |-> 0] \in [{} -> 0 .. 100]
  OBVIOUS
<1> QED BY <1>1 DEF Grades

LEMMA Fields ==
    ASSUME NEW s \in Session
    PROVE  /\ s.retained \in Grades /\ s.turns \in Seq(Question) /\ Len(s.turns) \in Nat
           /\ s.status \in {"IN_PROGRESS", "ABANDONED", "PASSED", "NEEDS_STUDY"}
           /\ \A k \in 1 .. Len(s.turns) : s.turns[k] \in Question
<1>1. s.retained \in Grades /\ s.turns \in Seq(Question)
      /\ s.status \in {"IN_PROGRESS", "ABANDONED", "PASSED", "NEEDS_STUDY"}
  BY DEF Session
<1> QED BY <1>1

\* More answers pass where fewer did
LEMMA EarnedGrows ==
    ASSUME NEW E, NEW F, E \subseteq F, F \subseteq Question,
           Assessment!Passing(Assessment!Best([k \in {} |-> 0], E))
    PROVE  Assessment!Passing(Assessment!Best([k \in {} |-> 0], F))
<1> DEFINE none == [k \in {} |-> 0]
<1>1. none \in Grades
  BY NothingIsGraded
<1>2. \A k : Assessment!ScoreOf(none, k) = 0
  BY DEF Assessment!ScoreOf
<1>3. E \subseteq Question
  OBVIOUS
<1> HIDE DEF none
<1>4. Assessment!Best(none, E) \in Grades /\ Assessment!Best(none, F) \in Grades
  BY <1>1, <1>3, BestOf
<1>5. \A k \in Kinds : Assessment!ScoreOf(Assessment!Best(none, E), k)
                          <= Assessment!ScoreOf(Assessment!Best(none, F), k)
  <2> TAKE k \in Kinds
  <2>1. \A t \in F : t.kind = k => t.score <= Assessment!ScoreOf(Assessment!Best(none, F), k)
    BY <1>1, BestOf
  <2>2. Assessment!ScoreOf(none, k) <= Assessment!ScoreOf(Assessment!Best(none, F), k)
    BY <1>1, BestOf
  <2>3. \/ Assessment!ScoreOf(Assessment!Best(none, E), k) = Assessment!ScoreOf(none, k)
        \/ \E t \in E : t.kind = k /\ t.score = Assessment!ScoreOf(Assessment!Best(none, E), k)
    BY <1>1, <1>3, BestOf
  <2> QED BY <2>1, <2>2, <2>3
<1> QED BY <1>4, <1>5, PassingIsMonotone DEF none

LEMMA EarnedAreQuestions ==
    ASSUME NEW ss \in Seq(Session), NEW i \in 1 .. Len(ss)
    PROVE  Earned(ss, i) \subseteq Question
<1>1. \A j \in 1 .. i : Assessment!ToSet(ss[j].turns) \subseteq Question
  BY TurnsAreQuestions, Fields
<1> QED BY <1>1 DEF Earned

\* What is kept from a session that passes for the next one was earned
LEMMA PassedIsEarned ==
    ASSUME NEW ss \in Seq(Session), NEW i \in 1 .. Len(ss),
           GivenBefore(ss, i - 1, ss[i].retained), HasEnded(ss[i]),
           Assessment!Passing(Assessment!Best(ss[i].retained, Assessment!ToSet(ss[i].turns)))
    PROVE  Assessment!Passing(Assessment!Best([k \in {} |-> 0], Earned(ss, i)))
<1> DEFINE none == [k \in {} |-> 0]
           E == Earned(ss, i)
           T == Assessment!ToSet(ss[i].turns)
           g == ss[i].retained
<1>1. none \in Grades
  BY NothingIsGraded
<1>2. g \in Grades /\ T \subseteq Question
  BY TurnsAreQuestions, Fields
<1>3. E \subseteq Question
  BY EarnedAreQuestions
<1>4. T \subseteq E
  BY DEF Earned
<1>5. \A k \in DOMAIN g : \E t \in E : t.kind = k /\ t.score = g[k]
  <2> TAKE k \in DOMAIN g
  <2>1. PICK j \in 1 .. i - 1 : HasEnded(ss[j]) /\ \E m \in 1 .. Len(ss[j].turns) :
                                   ss[j].turns[m].kind = k /\ ss[j].turns[m].score = g[k]
    BY DEF GivenBefore
  <2>2. PICK m \in 1 .. Len(ss[j].turns) :
               ss[j].turns[m].kind = k /\ ss[j].turns[m].score = g[k]
    BY <2>1
  <2>3. ss[j].turns[m] \in Assessment!ToSet(ss[j].turns)
    BY TurnsAreQuestions, Fields
  <2>4. Assessment!ToSet(ss[j].turns) \subseteq E
    BY <2>1 DEF Earned
  <2> QED BY <2>2, <2>3, <2>4
<1> HIDE DEF E, T, g, none
<1>6. Assessment!Best(g, T) \in Grades /\ Assessment!Best(none, E) \in Grades
  BY <1>1, <1>2, <1>3, BestOf
<1>7. \A k \in Kinds : Assessment!ScoreOf(Assessment!Best(g, T), k)
                          <= Assessment!ScoreOf(Assessment!Best(none, E), k)
  <2> TAKE k \in Kinds
  <2> DEFINE b == Assessment!ScoreOf(Assessment!Best(none, E), k)
  <2>1. b \in 0 .. 100 /\ \A t \in E : t.kind = k => t.score <= b
    BY <1>1, <1>3, BestOf
  <2>2. \/ Assessment!ScoreOf(Assessment!Best(g, T), k) = Assessment!ScoreOf(g, k)
        \/ \E t \in T : t.kind = k /\ t.score = Assessment!ScoreOf(Assessment!Best(g, T), k)
    BY <1>2, BestOf
  <2>3. Assessment!ScoreOf(g, k) <= b
    <3>1. CASE k \in DOMAIN g
      BY <1>5, <2>1, <3>1 DEF Assessment!ScoreOf
    <3>2. CASE k \notin DOMAIN g
      <4>1. Assessment!ScoreOf(g, k) = 0
        BY <3>2 DEF Assessment!ScoreOf
      <4> HIDE DEF b
      <4> QED BY <2>1, <4>1
    <3> QED BY <3>1, <3>2
  <2> QED BY <1>4, <2>1, <2>2, <2>3
<1>8. Assessment!Passing(Assessment!Best(g, T))
  BY DEF g, T
<1> QED BY <1>6, <1>7, <1>8, PassingIsMonotone DEF none, E

\* loadRetainedScores
LEMMA RetainedWereGiven ==
    ASSUME sessions \in Seq(Session)
    PROVE  Assessment!Retained \in Grades /\ GivenBefore(sessions, Len(sessions), Assessment!Retained)
<1> DEFINE past == {i \in DOMAIN sessions : sessions[i].status \in {"PASSED", "NEEDS_STUDY"} /\ sessions[i].recent}
           scored == UNION {{t \in Assessment!ToSet(sessions[i].turns) : t.score >= Assessment!MinimumScore} : i \in past}
           S(k) == {t.score : t \in {u \in scored : u.kind = k}}
           kinds == {t.kind : t \in scored}
<1>1. Assessment!Retained = [k \in kinds |-> Assessment!Max(S(k))]
  BY DEF Assessment!Retained
<1>2. \A t \in scored : /\ t \in Question /\ t.score >= 60
                         /\ \E i \in past : \E m \in 1 .. Len(sessions[i].turns) : t = sessions[i].turns[m]
  <2> TAKE t \in scored
  <2>1. PICK i \in past : t \in Assessment!ToSet(sessions[i].turns) /\ t.score >= 60
    BY DEF Assessment!MinimumScore
  <2>2. sessions[i].turns \in Seq(Question)
    BY Fields
  <2> QED BY <2>1, <2>2, TurnsAreQuestions
<1>3. \A t \in scored : t.score \in 0 .. 100 /\ t.kind \in Kinds
  <2> TAKE t \in scored
  <2>1. t \in Question /\ t.score >= 60
    BY <1>2
  <2> HIDE DEF scored
  <2> QED BY <2>1 DEF Question
<1>4. ASSUME NEW k \in kinds PROVE S(k) \subseteq 0 .. 100 /\ S(k) # {}
  BY <1>3
<1>5. ASSUME NEW k \in kinds PROVE Assessment!Max(S(k)) \in S(k)
  BY <1>4, Greatest
<1>6. \A k \in kinds : Assessment!Max(S(k)) \in 0 .. 100
  BY <1>4, <1>5
<1>7. Assessment!Retained \in Grades
  <2>1. kinds \subseteq Kinds
    BY <1>3
  <2> HIDE DEF S, kinds
  <2>2. Assessment!Retained \in [kinds -> 0 .. 100]
    BY <1>1, <1>6
  <2> QED BY <2>1, <2>2 DEF Grades
<1>8. GivenBefore(sessions, Len(sessions), Assessment!Retained)
  <2> SUFFICES ASSUME NEW k \in DOMAIN Assessment!Retained
               PROVE  \E j \in 1 .. Len(sessions) :
                        HasEnded(sessions[j]) /\ \E m \in 1 .. Len(sessions[j].turns) :
                          sessions[j].turns[m].kind = k /\ sessions[j].turns[m].score = Assessment!Retained[k]
    BY DEF GivenBefore
  <2>1. k \in kinds /\ Assessment!Retained[k] = Assessment!Max(S(k))
    BY <1>1
  <2>2. PICK t \in scored : t.kind = k /\ t.score = Assessment!Retained[k]
    BY <1>5, <2>1
  <2>3. PICK i \in past : \E m \in 1 .. Len(sessions[i].turns) : t = sessions[i].turns[m]
    BY <1>2
  <2> QED BY <2>2, <2>3 DEF HasEnded
<1> QED BY <1>7, <1>8

-----------------------------------------------------------------------------
(* What a step does to the sessions *)

\* What ended stays as it is, and no session is lost
EndedStays(ss, tt) ==
    /\ Len(ss) <= Len(tt)
    /\ \A j \in 1 .. Len(ss) : HasEnded(ss[j]) => HasEnded(tt[j]) /\ tt[j].turns = ss[j].turns

LEMMA GivenStays ==
    ASSUME NEW ss \in Seq(Session), NEW tt \in Seq(Session), EndedStays(ss, tt),
           NEW n \in Nat, n <= Len(ss), NEW m \in Nat, n <= m, NEW marks, GivenBefore(ss, n, marks)
    PROVE  GivenBefore(tt, m, marks)
<1> SUFFICES ASSUME NEW k \in DOMAIN marks
             PROVE  \E j \in 1 .. m : HasEnded(tt[j]) /\ \E l \in 1 .. Len(tt[j].turns) :
                      tt[j].turns[l].kind = k /\ tt[j].turns[l].score = marks[k]
  BY DEF GivenBefore
<1>1. PICK j \in 1 .. n : HasEnded(ss[j]) /\ \E l \in 1 .. Len(ss[j].turns) :
               ss[j].turns[l].kind = k /\ ss[j].turns[l].score = marks[k]
  BY DEF GivenBefore
<1>2. j \in 1 .. Len(ss) /\ j \in 1 .. m
  OBVIOUS
<1>3. HasEnded(tt[j]) /\ tt[j].turns = ss[j].turns
  BY <1>1, <1>2 DEF EndedStays
<1> QED BY <1>1, <1>2, <1>3

LEMMA SessionMoves ==
    ASSUME NEW ss \in Seq(Session), SessionsInOrder(ss), NEW i \in 1 .. Len(ss), NEW t \in Session,
           NEW tt, tt = [ss EXCEPT ![i] = t], t.retained = ss[i].retained, InOrder(t),
           HasEnded(ss[i]) => HasEnded(t) /\ t.turns = ss[i].turns,
           t.status = "IN_PROGRESS" => ss[i].status = "IN_PROGRESS"
    PROVE  tt \in Seq(Session) /\ Len(tt) = Len(ss) /\ SessionsInOrder(tt) /\ EndedStays(ss, tt)
<1>1. tt \in Seq(Session) /\ Len(tt) = Len(ss) /\ Len(ss) \in Nat
  OBVIOUS
<1>2. \A j \in 1 .. Len(ss) : tt[j] = IF j = i THEN t ELSE ss[j]
  OBVIOUS
<1>3. EndedStays(ss, tt)
  BY <1>1, <1>2 DEF EndedStays
<1>4. ASSUME NEW j \in 1 .. Len(ss)
      PROVE  InOrder(tt[j]) /\ GivenBefore(tt, j - 1, tt[j].retained)
  <2>1. InOrder(tt[j]) /\ tt[j].retained = ss[j].retained
    BY <1>2 DEF SessionsInOrder
  <2>2. GivenBefore(ss, j - 1, ss[j].retained)
    BY DEF SessionsInOrder
  <2>3. j - 1 \in Nat /\ j - 1 <= Len(ss)
    BY <1>1
  <2> DEFINE n == j - 1
  <2>4. n \in Nat /\ n <= n /\ n <= Len(ss) /\ GivenBefore(ss, n, ss[j].retained)
    BY <2>2, <2>3
  <2> HIDE DEF n
  <2>5. GivenBefore(tt, n, ss[j].retained)
    BY <1>1, <1>3, <2>4, GivenStays
  <2> QED BY <2>1, <2>5 DEF n
<1>5. \A j, k \in 1 .. Len(tt) : tt[j].status = "IN_PROGRESS" /\ tt[k].status = "IN_PROGRESS" => j = k
  <2> SUFFICES ASSUME NEW j \in 1 .. Len(ss), NEW k \in 1 .. Len(ss),
                      tt[j].status = "IN_PROGRESS", tt[k].status = "IN_PROGRESS"
               PROVE  j = k
    BY <1>1
  <2>1. ss[j].status = "IN_PROGRESS" /\ ss[k].status = "IN_PROGRESS"
    BY <1>2
  <2> QED BY <2>1 DEF SessionsInOrder
<1> QED BY <1>1, <1>3, <1>4, <1>5 DEF SessionsInOrder

LEMMA EarnedStays ==
    ASSUME NEW ss \in Seq(Session), NEW tt \in Seq(Session), EndedStays(ss, tt), LevelIsEarned(ss),
           \A j \in 1 .. Len(ss) : ss[j].status = "PASSED" => tt[j].status = "PASSED"
    PROVE  LevelIsEarned(tt)
<1>1. PICK i \in 1 .. Len(ss) : ss[i].status = "PASSED" /\
        Assessment!Passing(Assessment!Best([k \in {} |-> 0], Earned(ss, i)))
  BY DEF LevelIsEarned
<1>2. i \in 1 .. Len(tt) /\ tt[i].status = "PASSED"
  BY <1>1 DEF EndedStays
<1>3. Earned(ss, i) \subseteq Earned(tt, i)
  BY DEF Earned, EndedStays
<1>4. Earned(tt, i) \subseteq Question
  BY <1>2, EarnedAreQuestions
<1>5. Assessment!Passing(Assessment!Best([k \in {} |-> 0], Earned(tt, i)))
  BY <1>1, <1>3, <1>4, EarnedGrows
<1> QED BY <1>2, <1>5 DEF LevelIsEarned

\* Every request is about what it was about, and finds an answer where there was one
LEMMA RequestsStay ==
    ASSUME NEW ss \in Seq(Session), NEW tt \in Seq(Session), EndedStays(ss, tt),
           NEW cc \in Requests, RequestsInOrder(ss, cc),
           \A j \in 1 .. Len(ss) :
             /\ tt[j].retained = ss[j].retained /\ Len(ss[j].turns) <= Len(tt[j].turns)
             /\ tt[j].turns = ss[j].turns \/ \A k \in 1 .. Len(ss[j].turns) : ~Open(tt[j].turns[k]),
           NEW dd \in Requests, \A c \in Callers : dd[c] = cc[c] \/ dd[c] = Assessment!Idle
    PROVE  RequestsInOrder(tt, dd)
<1> SUFFICES ASSUME NEW c \in Callers, dd[c] = cc[c]
             PROVE  /\ cc[c].doing = "start" => GivenBefore(tt, Len(tt), cc[c].retained)
                    /\ cc[c].doing = "answer" =>
                         /\ cc[c].session \in 1 .. Len(tt)
                         /\ cc[c].turn \in 1 .. Len(tt[cc[c].session].turns)
                         /\ Open(tt[cc[c].session].turns[cc[c].turn]) => Closes(tt[cc[c].session], cc[c])
  <2>1. Assessment!Idle.doing = "idle"
    BY DEF Assessment!Idle
  <2> QED BY <2>1 DEF RequestsInOrder
<1> DEFINE a == cc[c]
<1>1. ASSUME a.doing = "start" PROVE GivenBefore(tt, Len(tt), a.retained)
  <2>1. GivenBefore(ss, Len(ss), a.retained)
    BY <1>1 DEF RequestsInOrder
  <2>2. Len(ss) \in Nat /\ Len(tt) \in Nat /\ Len(ss) <= Len(tt)
    BY DEF EndedStays
  <2> HIDE DEF a
  <2> QED BY <2>1, <2>2, GivenStays
<1>2. ASSUME a.doing = "answer"
      PROVE  /\ a.session \in 1 .. Len(tt) /\ a.turn \in 1 .. Len(tt[a.session].turns)
             /\ Open(tt[a.session].turns[a.turn]) => Closes(tt[a.session], a)
  <2>1. /\ a.session \in 1 .. Len(ss) /\ a.turn \in 1 .. Len(ss[a.session].turns)
        /\ Open(ss[a.session].turns[a.turn]) => Closes(ss[a.session], a)
    BY <1>2 DEF RequestsInOrder
  <2> HIDE DEF a
  <2> DEFINE s == ss[a.session]
             t == tt[a.session]
  <2>2. a.session \in 1 .. Len(tt)
    BY <2>1 DEF EndedStays
  <2>3. s \in Session /\ t \in Session
    BY <2>1, <2>2
  <2>4. /\ t.retained = s.retained /\ Len(s.turns) <= Len(t.turns)
        /\ t.turns = s.turns \/ \A k \in 1 .. Len(s.turns) : ~Open(t.turns[k])
    BY <2>1
  <2>5. Len(s.turns) \in Nat /\ Len(t.turns) \in Nat
    BY <2>3, Fields
  <2> HIDE DEF s, t
  <2>6. a.turn \in 1 .. Len(s.turns) /\ (Open(s.turns[a.turn]) => Closes(s, a))
    BY <2>1 DEF s
  <2>7. a.turn \in 1 .. Len(t.turns)
    BY <2>4, <2>5, <2>6
  <2>8. Open(t.turns[a.turn]) => Closes(t, a)
    <3>1. CASE t.turns = s.turns
      BY <2>4, <2>6, <3>1 DEF Closes
    <3>2. CASE \A k \in 1 .. Len(s.turns) : ~Open(t.turns[k])
      BY <2>6, <3>2
    <3> QED BY <2>4, <3>1, <3>2
  <2> QED BY <2>2, <2>7, <2>8 DEF t
<1> QED BY <1>1, <1>2

-----------------------------------------------------------------------------
(* The steps of an assessment *)

\* A step that leaves the questions of a session alone
LEMMA SessionAlone ==
    ASSUME AssessmentInv, NEW i \in 1 .. Len(sessions), NEW t \in Session,
           sessions' = [sessions EXCEPT ![i] = t], caller' = caller,
           t.retained = sessions[i].retained, t.turns = sessions[i].turns,
           HasEnded(t) <=> HasEnded(sessions[i]), t.status # "IN_PROGRESS",
           t.review # "NONE" => HasEnded(t),
           \/ competency' = competency /\ (sessions[i].status = "PASSED" => t.status = "PASSED")
           \/ competency'.by = "OPERATOR_REVIEW"
    PROVE  AssessmentInv'
<1>1. /\ sessions \in Seq(Session) /\ caller \in Requests /\ SessionsInOrder(sessions)
      /\ RequestsInOrder(sessions, caller)
  BY DEF AssessmentInv, AssessmentType
<1>2. InOrder(t)
  <2>1. InOrder(sessions[i])
    BY <1>1 DEF SessionsInOrder
  <2> QED BY <2>1 DEF InOrder
<1>3. /\ sessions' \in Seq(Session) /\ Len(sessions') = Len(sessions) /\ SessionsInOrder(sessions')
      /\ EndedStays(sessions, sessions')
  BY <1>1, <1>2, SessionMoves
<1>4. \A j \in 1 .. Len(sessions) :
        /\ sessions'[j].retained = sessions[j].retained /\ sessions'[j].turns = sessions[j].turns
        /\ sessions[j].status = "PASSED" /\ j # i => sessions'[j].status = "PASSED"
  BY <1>1
<1>5. \A j \in 1 .. Len(sessions) : Len(sessions[j].turns) <= Len(sessions'[j].turns)
  BY <1>1, <1>4, Fields
<1>6. RequestsInOrder(sessions', caller')
  BY <1>1, <1>3, <1>4, <1>5, RequestsStay
<1>7. competency'.by = "AI_ASSESSMENT" => LevelIsEarned(sessions')
  <2>1. CASE competency' = competency /\ (sessions[i].status = "PASSED" => t.status = "PASSED")
    <3>1. \A j \in 1 .. Len(sessions) : sessions[j].status = "PASSED" => sessions'[j].status = "PASSED"
      BY <1>1, <2>1
    <3> QED BY <1>1, <1>3, <2>1, <3>1, EarnedStays DEF AssessmentInv
  <2>2. CASE competency'.by = "OPERATOR_REVIEW"
    BY <2>2
  <2> QED BY <2>1, <2>2
<1> QED BY <1>1, <1>3, <1>6, <1>7 DEF AssessmentInv, AssessmentType

LEMMA AbandonKeeps ==
    ASSUME AssessmentInv, NEW i \in DOMAIN sessions, Assessment!Abandon(i)
    PROVE  AssessmentInv'
<1>1. i \in 1 .. Len(sessions) /\ sessions[i] \in Session
  BY DEF AssessmentInv, AssessmentType
<1> DEFINE t == [sessions[i] EXCEPT !.status = "ABANDONED"]
<1>2. /\ t \in Session /\ t.retained = sessions[i].retained /\ t.turns = sessions[i].turns
      /\ t.status = "ABANDONED" /\ ~HasEnded(t) /\ ~HasEnded(sessions[i]) /\ t.review = "NONE"
  BY <1>1 DEF Session, HasEnded, Assessment!Abandon, AssessmentInv, SessionsInOrder, InOrder
<1>3. sessions' = [sessions EXCEPT ![i] = t] /\ caller' = caller /\ competency' = competency
      /\ sessions[i].status # "PASSED"
  BY DEF Assessment!Abandon
<1> HIDE DEF t
<1> QED BY <1>1, <1>2, <1>3, SessionAlone

LEMMA RequestReviewKeeps ==
    ASSUME AssessmentInv, NEW i \in DOMAIN sessions, Assessment!RequestReview(i)
    PROVE  AssessmentInv'
<1>1. i \in 1 .. Len(sessions) /\ sessions[i] \in Session
  BY DEF AssessmentInv, AssessmentType
<1> DEFINE t == [sessions[i] EXCEPT !.review = "REQUESTED"]
<1>2. /\ t \in Session /\ t.retained = sessions[i].retained /\ t.turns = sessions[i].turns
      /\ t.status = sessions[i].status /\ HasEnded(t) /\ HasEnded(sessions[i])
  BY <1>1 DEF Session, HasEnded, Assessment!RequestReview
<1>3. sessions' = [sessions EXCEPT ![i] = t] /\ caller' = caller /\ competency' = competency
  BY DEF Assessment!RequestReview
<1>4. t.status # "IN_PROGRESS"
  BY <1>2 DEF HasEnded
<1> HIDE DEF t
<1> QED BY <1>1, <1>2, <1>3, <1>4, SessionAlone

\* A review is asked for, and resolved, of a session that has ended
LEMMA ResolveReviewKeeps ==
    ASSUME AssessmentInv, NEW i \in DOMAIN sessions, Assessment!ResolveReview(i)
    PROVE  AssessmentInv'
<1>1. i \in 1 .. Len(sessions) /\ sessions[i] \in Session
  BY DEF AssessmentInv, AssessmentType
<1>2. HasEnded(sessions[i])
  BY <1>1 DEF Assessment!ResolveReview, AssessmentInv, SessionsInOrder, InOrder
<1>3. CASE sessions' = [sessions EXCEPT ![i].review = "REJECTED"] /\ competency' = competency
  <2> DEFINE t == [sessions[i] EXCEPT !.review = "REJECTED"]
  <2>1. /\ t \in Session /\ t.retained = sessions[i].retained /\ t.turns = sessions[i].turns
        /\ t.status = sessions[i].status /\ HasEnded(t)
    BY <1>1, <1>2 DEF Session, HasEnded
  <2>2. sessions' = [sessions EXCEPT ![i] = t] /\ caller' = caller
    BY <1>3 DEF Assessment!ResolveReview
  <2>3. t.status # "IN_PROGRESS"
    BY <2>1 DEF HasEnded
  <2> HIDE DEF t
  <2> QED BY <1>1, <1>3, <1>2, <2>1, <2>2, <2>3, SessionAlone
<1>4. CASE sessions' = [sessions EXCEPT ![i].review = "APPROVED", ![i].status = "PASSED"]
           /\ competency' = [verified |-> TRUE, by |-> "OPERATOR_REVIEW"]
  <2> DEFINE t == [sessions[i] EXCEPT !.review = "APPROVED", !.status = "PASSED"]
  <2>1. /\ t \in Session /\ t.retained = sessions[i].retained /\ t.turns = sessions[i].turns
        /\ t.status = "PASSED" /\ HasEnded(t)
    BY <1>1, <1>2 DEF Session, HasEnded
  <2>2. sessions' = [sessions EXCEPT ![i] = t] /\ caller' = caller
    BY <1>1, <1>4 DEF Assessment!ResolveReview, AssessmentInv, AssessmentType
  <2> HIDE DEF t
  <2> QED BY <1>1, <1>4, <1>2, <2>1, <2>2, SessionAlone
<1> QED BY <1>3, <1>4 DEF Assessment!ResolveReview

LEMMA AgeKeeps ==
    ASSUME AssessmentInv, NEW i \in DOMAIN sessions, Assessment!Age(i)
    PROVE  AssessmentInv'
<1>1. i \in 1 .. Len(sessions) /\ sessions[i] \in Session
  BY DEF AssessmentInv, AssessmentType
<1> DEFINE t == [sessions[i] EXCEPT !.recent = FALSE]
<1>2. /\ t \in Session /\ t.retained = sessions[i].retained /\ t.turns = sessions[i].turns
      /\ t.status = sessions[i].status /\ HasEnded(t) /\ HasEnded(sessions[i])
  BY <1>1 DEF Session, HasEnded, Assessment!Age
<1>3. sessions' = [sessions EXCEPT ![i] = t] /\ caller' = caller /\ competency' = competency
  BY DEF Assessment!Age
<1>4. t.status # "IN_PROGRESS"
  BY <1>2 DEF HasEnded
<1> HIDE DEF t
<1> QED BY <1>1, <1>2, <1>3, <1>4, SessionAlone

LEMMA StartKeeps ==
    ASSUME AssessmentInv, NEW c \in Callers, Assessment!Start(c)
    PROVE  AssessmentInv'
<1> DEFINE g == Assessment!Retained
           k == Assessment!FirstKind(g)
           r == [doing |-> "start", retained |-> g, next |-> k]
<1>1. sessions \in Seq(Session) /\ caller \in Requests
  BY DEF AssessmentInv, AssessmentType
<1>2. g \in Grades /\ GivenBefore(sessions, Len(sessions), g) /\ k \in Kinds /\ k # "none"
  <2>1. g \in Grades /\ GivenBefore(sessions, Len(sessions), g)
    BY <1>1, RetainedWereGiven
  <2> HIDE DEF g
  <2> QED BY <2>1, NextKinds DEF Kinds
<1> HIDE DEF k, g
<1>3. \A a \in Assessment!Assessment(<<>>, g, k, Assessment!NoScore) : a.next = k
  <2>1. k # "none"
    BY <1>2
  <2>2. Assessment!Cardinality({}) = 0
    BY FS_EmptySet DEF Assessment!Cardinality, Assessment!IsFiniteSet, Cardinality, IsFiniteSet
  <2>3. Assessment!Answered([i \in DOMAIN <<>> |->
            IF <<>>[i].score = Assessment!NoScore THEN [<<>>[i] EXCEPT !.score = Assessment!NoScore] ELSE <<>>[i]]) = {}
    BY DEF Assessment!Answered
  <2>4. 0 < MaxQuestions
    BY AssessmentBounds
  <2> QED BY <2>1, <2>2, <2>3, <2>4 DEF Assessment!Assessment
<1>4. UNCHANGED <<sessions, competency>>
      /\ (caller' = [caller EXCEPT ![c] = Assessment!Idle] \/ caller' = [caller EXCEPT ![c] = r])
  <2>1. \E a \in Assessment!Assessment(<<>>, g, k, Assessment!NoScore) :
          caller' = [caller EXCEPT ![c] = IF a.failed THEN Assessment!Idle
                                          ELSE [doing |-> "start", retained |-> g, next |-> a.next]]
    BY DEF Assessment!Start, k, g
  <2> QED BY <1>3, <2>1 DEF Assessment!Start
<1>5. r \in Starting
  BY <1>2 DEF Starting
<1>6. caller' \in Requests
  BY <1>1, <1>4, <1>5 DEF Requests
<1>7. r.doing = "start" /\ r.retained = g
  OBVIOUS
<1> HIDE DEF r
<1>8. \A d \in Callers : caller'[d] = caller[d] \/ caller'[d] = r \/ caller'[d] = Assessment!Idle
  BY <1>1, <1>4 DEF Requests
<1>9. RequestsInOrder(sessions, caller')
  <2>1. Assessment!Idle.doing = "idle"
    BY DEF Assessment!Idle
  <2>2. RequestsInOrder(sessions, caller)
    BY DEF AssessmentInv
  <2> QED BY <1>2, <1>7, <1>8, <2>1, <2>2 DEF RequestsInOrder
<1> QED BY <1>4, <1>6, <1>9 DEF AssessmentInv, AssessmentType

LEMMA StartedKeeps ==
    ASSUME AssessmentInv, NEW c \in Callers, Assessment!Started(c)
    PROVE  AssessmentInv'
<1> DEFINE a == caller[c]
           t == [status |-> "IN_PROGRESS", retained |-> a.retained, turns |-> <<Assessment!Turn(a.next)>>,
                 recent |-> TRUE, review |-> "NONE"]
           n == Len(sessions)
<1>1. /\ sessions \in Seq(Session) /\ n \in Nat /\ caller \in Requests /\ SessionsInOrder(sessions)
      /\ RequestsInOrder(sessions, caller) /\ a \in {Assessment!Idle} \cup Starting \cup Replying
  BY DEF AssessmentInv, AssessmentType, Requests
<1>2. a \in Starting /\ GivenBefore(sessions, n, a.retained)
  <2>1. a.doing = "start"
    BY DEF Assessment!Started
  <2>2. \A x \in Replying : x.doing = "answer"
    BY DEF Replying
  <2> QED BY <1>1, <2>1, <2>2 DEF Assessment!Idle, RequestsInOrder
<1>3. t \in Session /\ InOrder(t)
  <2>1. a.next \in Kinds /\ a.retained \in Grades
    BY <1>2 DEF Starting
  <2> HIDE DEF a
  <2>2. Assessment!Turn(a.next) \in Question /\ Open(Assessment!Turn(a.next))
    BY <2>1 DEF Assessment!Turn, Question, Open, Assessment!NoScore
  <2>3. <<Assessment!Turn(a.next)>> \in Seq(Question)
    BY <2>2
  <2>4. t \in Session
    BY <2>1, <2>3 DEF Session
  <2>5. 1 \in 1 .. MaxQuestions
    BY AssessmentBounds
  <2> QED BY <2>2, <2>4, <2>5 DEF InOrder, HasEnded
<1>4. t.retained = a.retained
  OBVIOUS
<1>5. caller' = [caller EXCEPT ![c] = Assessment!Idle] /\ competency' = competency
      /\ (sessions' = sessions \/ (Assessment!Active = {} /\ sessions' = Append(sessions, t)))
  <2>1. sessions' = IF Assessment!Active # {} THEN sessions ELSE Append(sessions, t)
    BY DEF Assessment!Started
  <2>2. caller' = [caller EXCEPT ![c] = Assessment!Idle] /\ competency' = competency
    BY DEF Assessment!Started
  <2> HIDE DEF a, t
  <2> QED BY <2>1, <2>2
<1> HIDE DEF a, t
<1>6. /\ sessions' \in Seq(Session) /\ n <= Len(sessions')
      /\ \A j \in 1 .. n : sessions'[j] = sessions[j]
  <2>1. /\ Append(sessions, t) \in Seq(Session) /\ Len(Append(sessions, t)) = n + 1
        /\ \A j \in 1 .. n : Append(sessions, t)[j] = sessions[j]
    BY <1>1, <1>3
  <2>2. CASE sessions' = sessions
    BY <1>1, <2>2
  <2>3. CASE sessions' = Append(sessions, t)
    BY <1>1, <2>1, <2>3
  <2> QED BY <1>5, <2>2, <2>3
<1>7. EndedStays(sessions, sessions')
  BY <1>1, <1>6 DEF EndedStays
<1>8. SessionsInOrder(sessions')
  <2>1. CASE sessions' = sessions
    BY <1>1, <2>1
  <2>2. CASE Assessment!Active = {} /\ sessions' = Append(sessions, t)
    <3>1. Len(sessions') = n + 1 /\ sessions'[n + 1] = t
      BY <1>1, <1>3, <2>2
    <3>2. \A j \in 1 .. n : sessions[j].status # "IN_PROGRESS"
      BY <1>1, <2>2 DEF Assessment!Active
    <3>3. \A m \in Nat : m <= n => \A marks : GivenBefore(sessions, m, marks) => GivenBefore(sessions', m, marks)
      BY <1>1, <1>6, <1>7, GivenStays
    <3>4. ASSUME NEW j \in 1 .. n + 1
          PROVE  InOrder(sessions'[j]) /\ GivenBefore(sessions', j - 1, sessions'[j].retained)
      <4>1. CASE j = n + 1
        <5>1. GivenBefore(sessions', n, t.retained)
          BY <1>1, <1>2, <1>4, <3>3
        <5>2. j - 1 = n
          BY <1>1, <4>1
        <5> QED BY <1>3, <3>1, <4>1, <5>1, <5>2
      <4>2. CASE j \in 1 .. n
        <5>1. InOrder(sessions[j]) /\ GivenBefore(sessions, j - 1, sessions[j].retained)
          BY <1>1, <4>2 DEF SessionsInOrder
        <5>2. j - 1 \in Nat /\ j - 1 <= n
          BY <1>1, <4>2
        <5> QED BY <1>6, <3>3, <4>2, <5>1, <5>2
      <4> QED BY <1>1, <4>1, <4>2
    <3>5. \A j, k \in 1 .. n + 1 :
            sessions'[j].status = "IN_PROGRESS" /\ sessions'[k].status = "IN_PROGRESS" => j = k
      <4>1. \A j \in 1 .. n + 1 : sessions'[j].status = "IN_PROGRESS" => j = n + 1
        BY <1>1, <1>6, <3>2
      <4> QED BY <4>1
    <3> HIDE DEF n
    <3> QED BY <3>1, <3>4, <3>5 DEF SessionsInOrder, n
  <2> QED BY <1>5, <2>1, <2>2
<1>9. caller' \in Requests /\ \A d \in Callers : caller'[d] = caller[d] \/ caller'[d] = Assessment!Idle
  BY <1>1, <1>5 DEF Requests
<1>10. RequestsInOrder(sessions', caller')
  <2>1. \A j \in 1 .. n : Len(sessions[j].turns) <= Len(sessions'[j].turns)
    BY <1>1, <1>6, Fields
  <2> QED BY <1>1, <1>6, <1>7, <1>9, <2>1, RequestsStay
<1>11. competency'.by = "AI_ASSESSMENT" => LevelIsEarned(sessions')
  BY <1>1, <1>5, <1>6, <1>7, EarnedStays DEF AssessmentInv
<1> QED BY <1>6, <1>8, <1>9, <1>10, <1>11 DEF AssessmentInv, AssessmentType

\* The question of a session in progress that has no answer is its last
LEMMA OpenIsLast ==
    ASSUME NEW q \in Seq(Question), Len(q) >= 1,
           \A k \in 1 .. Len(q) : Open(q[k]) <=> k = Len(q)
    PROVE  Assessment!SelectInSeq(q, LAMBDA t : t.score = Assessment!NoScore) = Len(q)
<1>1. {k \in 1 .. Len(q) : q[k].score = Assessment!NoScore} = {Len(q)}
  BY DEF Open
<1>2. Assessment!Min({Len(q)}) = Len(q)
  BY DEF Assessment!Min
<1> QED BY <1>1, <1>2 DEF Assessment!SelectInSeq

LEMMA ScoredQuestion ==
    ASSUME NEW t \in Question, NEW score \in 0 .. 100
    PROVE  [t EXCEPT !.score = score] \in Question /\ ~Open([t EXCEPT !.score = score])
<1>1. [t EXCEPT !.score = score].score = score /\ [t EXCEPT !.score = score].kind = t.kind
      /\ [t EXCEPT !.score = score] = [kind |-> t.kind, score |-> score]
  BY DEF Question
<1>2. t.kind \in Kinds /\ score \in -1 .. 100 /\ score # -1
  BY DEF Question
<1> QED BY <1>1, <1>2 DEF Question, Open, Assessment!NoScore

\* What becomes of the questions when the last one gets its score
LastScored(q, score) == [q EXCEPT ![Len(q)].score = score]

LEMMA Scored ==
    ASSUME NEW q \in Seq(Question), Len(q) >= 1, NEW score \in 0 .. 100,
           \A k \in 1 .. Len(q) : Open(q[k]) <=> k = Len(q)
    PROVE  /\ LastScored(q, score) \in Seq(Question) /\ Len(LastScored(q, score)) = Len(q)
           /\ \A k \in 1 .. Len(q) : ~Open(LastScored(q, score)[k])
           /\ LastScored(q, score) = [k \in DOMAIN q |-> IF q[k].score = Assessment!NoScore
                                                         THEN [q[k] EXCEPT !.score = score] ELSE q[k]]
           /\ Assessment!Cardinality(Assessment!Answered(LastScored(q, score))) = Len(q)
<1> DEFINE r == LastScored(q, score)
           e == [q[Len(q)] EXCEPT !.score = score]
<1>1. Len(q) \in 1 .. Len(q) /\ q[Len(q)] \in Question
  OBVIOUS
<1>2. e \in Question /\ ~Open(e)
  BY <1>1, ScoredQuestion
<1>3. r = [q EXCEPT ![Len(q)] = e]
  BY DEF LastScored
<1>4. r = [k \in DOMAIN q |-> IF q[k].score = Assessment!NoScore
                             THEN [q[k] EXCEPT !.score = score] ELSE q[k]]
  <2>1. \A k \in DOMAIN q : q[k].score = Assessment!NoScore <=> k = Len(q)
    BY DEF Open
  <2>2. r = [k \in DOMAIN q |-> IF k = Len(q) THEN [q[k] EXCEPT !.score = score] ELSE q[k]]
    BY <1>3
  <2> HIDE DEF r
  <2> QED BY <2>1, <2>2
<1> HIDE DEF e, r
<1>5. r \in Seq(Question) /\ Len(r) = Len(q)
  BY <1>2, <1>3
<1>6. \A k \in 1 .. Len(q) : r[k] = IF k = Len(q) THEN e ELSE q[k]
  BY <1>3
<1>7. \A k \in 1 .. Len(q) : ~Open(r[k])
  BY <1>2, <1>5, <1>6
<1>8. Assessment!Cardinality(Assessment!Answered(r)) = Len(q)
  BY <1>5, <1>7, AllAnswered
<1> QED BY <1>4, <1>5, <1>7, <1>8 DEF r

LEMMA AnswerKeeps ==
    ASSUME AssessmentInv, NEW c \in Callers, Assessment!Answer(c)
    PROVE  AssessmentInv'
<1>1. /\ sessions \in Seq(Session) /\ caller \in Requests /\ SessionsInOrder(sessions)
      /\ RequestsInOrder(sessions, caller)
  BY DEF AssessmentInv, AssessmentType
<1>2. PICK i \in Assessment!Active :
        LET s == sessions[i]
            open == Assessment!SelectInSeq(s.turns, LAMBDA t : t.score = Assessment!NoScore)
        IN  /\ open # 0
            /\ \E score \in Scores[s.turns[open].kind] :
               \E answer1 \in Assessment!Assessment(s.turns, s.retained, "none", score) :
                 caller' = [caller EXCEPT ![c] =
                   IF answer1.failed THEN Assessment!Idle
                   ELSE [doing |-> "answer", session |-> i, turn |-> open,
                         score |-> answer1.score, next |-> answer1.next]]
  BY DEF Assessment!Answer
<1> DEFINE s == sessions[i]
           q == s.turns
<1>3. /\ i \in 1 .. Len(sessions) /\ s \in Session /\ s.retained \in Grades /\ q \in Seq(Question)
      /\ Len(q) >= 1 /\ Len(q) \in Nat /\ Len(q) <= MaxQuestions
      /\ \A k \in 1 .. Len(q) : Open(q[k]) <=> k = Len(q)
  <2>1. i \in 1 .. Len(sessions) /\ s.status = "IN_PROGRESS"
    BY <1>1 DEF Assessment!Active
  <2>2. s \in Session /\ InOrder(s)
    BY <1>1, <2>1 DEF SessionsInOrder
  <2> QED BY <2>1, <2>2, Fields, AssessmentBounds DEF InOrder, HasEnded
<1>4. Assessment!SelectInSeq(q, LAMBDA t : t.score = Assessment!NoScore) = Len(q)
  BY <1>3, OpenIsLast
<1>5. PICK score \in Scores[q[Len(q)].kind] : \E answer1 \in Assessment!Assessment(q, s.retained, "none", score) :
        caller' = [caller EXCEPT ![c] =
          IF answer1.failed THEN Assessment!Idle
          ELSE [doing |-> "answer", session |-> i, turn |-> Len(q), score |-> answer1.score, next |-> answer1.next]]
  BY <1>2, <1>4
<1>6. score \in 0 .. 100
  <2>1. q[Len(q)] \in Question
    <3> HIDE DEF q
    <3> QED BY <1>3
  <2>2. \A t \in Question : t.kind \in Kinds
    BY DEF Question
  <2> QED BY <2>1, <2>2, AssessmentBounds DEF Kinds
<1> HIDE DEF s
<1> DEFINE scored == [q EXCEPT ![Len(q)].score = score]
           best == Assessment!Best(s.retained, Assessment!ToSet(scored))
<1> HIDE DEF q, scored
<1>7. /\ scored \in Seq(Question) /\ Assessment!Cardinality(Assessment!Answered(scored)) = Len(q)
      /\ scored = [k \in DOMAIN q |-> IF q[k].score = Assessment!NoScore
                                       THEN [q[k] EXCEPT !.score = score] ELSE q[k]]
  <2>1. scored = LastScored(q, score)
    BY DEF scored, LastScored
  <2>2. q \in Seq(Question) /\ Len(q) >= 1
    BY <1>3 DEF q
  <2>3. \A k \in 1 .. Len(q) : Open(q[k]) <=> k = Len(q)
    BY <1>3 DEF q
  <2> HIDE DEF best
  <2> QED BY <1>6, <2>1, <2>2, <2>3, Scored
<1>8. best \in Grades
  BY <1>3, <1>7, BestOf, TurnsAreQuestions DEF q
<1>9. ASSUME NEW a \in Assessment!Assessment(q, s.retained, "none", score)
      PROVE  /\ a.score = score /\ a.next \in Kinds \cup {"none"}
             /\ \/ Assessment!Passing(best) \/ Len(q) >= MaxQuestions
                \/ a.next = Assessment!NextQuestionKind(best)
  <2> DEFINE kind == Assessment!NextAssessmentKind(best)
  <2>1. kind = Assessment!NextQuestionKind(best) /\ kind \in Kinds \cup {"none"}
        /\ (kind = "none" => Assessment!Passing(best))
    BY <1>8, NextKinds
  <2>2. a \in IF Len(q) < MaxQuestions /\ kind # "none"
              THEN {[failed |-> ~Assessment!Written(d), score |-> score, next |-> kind] : d \in Assessment!Drafts}
              ELSE {[failed |-> FALSE, score |-> score, next |-> "none"]}
    BY <1>7, <1>9 DEF Assessment!Assessment, best
  <2> HIDE DEF kind
  <2>3. Len(q) \in Nat /\ MaxQuestions \in Nat
    BY <1>3, AssessmentBounds
  <2>4. a.score = score /\ (a.next = kind \/ a.next = "none")
    BY <2>2
  <2>5. Len(q) < MaxQuestions /\ kind # "none" => a.next = kind
    BY <2>2
  <2> QED BY <2>1, <2>3, <2>4, <2>5
<1> DEFINE Asked(n) == [doing |-> "answer", session |-> i, turn |-> Len(q), score |-> score, next |-> n]
<1>10. PICK n \in Kinds \cup {"none"} :
         /\ caller' = [caller EXCEPT ![c] = Assessment!Idle] \/ caller' = [caller EXCEPT ![c] = Asked(n)]
         /\ \/ Assessment!Passing(best) \/ Len(q) >= MaxQuestions
            \/ n = Assessment!NextQuestionKind(best)
  <2>1. PICK a \in Assessment!Assessment(q, s.retained, "none", score) :
          caller' = [caller EXCEPT ![c] =
            IF a.failed THEN Assessment!Idle
            ELSE [doing |-> "answer", session |-> i, turn |-> Len(q), score |-> a.score, next |-> a.next]]
    BY <1>5 DEF q
  <2> QED BY <1>9, <2>1
<1>11. sessions' = sessions /\ competency' = competency
  BY DEF Assessment!Answer
<1>12. Asked(n) \in Replying
  BY <1>3, <1>6 DEF Replying
<1>13. caller' \in Requests
  BY <1>1, <1>10, <1>12 DEF Requests
<1>14. \A d \in Callers : caller'[d] = caller[d] \/ caller'[d] = Asked(n) \/ caller'[d] = Assessment!Idle
  BY <1>1, <1>10 DEF Requests
<1>15. Closes(s, Asked(n))
  <2>1. [s.turns EXCEPT ![Len(q)].score = score] = scored
    BY DEF scored, q
  <2> HIDE DEF best
  <2>2. Assessment!Passing(best) \/ Assessment!Cardinality(Assessment!Answered(scored)) >= MaxQuestions
        \/ n = Assessment!NextQuestionKind(best)
    BY <1>7, <1>10
  <2> QED BY <2>1, <2>2 DEF Closes, best
<1>16. RequestsInOrder(sessions, caller')
  <2> SUFFICES ASSUME NEW d \in Callers, caller'[d] = Asked(n)
               PROVE  /\ i \in 1 .. Len(sessions) /\ Len(q) \in 1 .. Len(sessions[i].turns)
                      /\ Closes(sessions[i], Asked(n))
    <3>1. Assessment!Idle.doing = "idle"
      BY DEF Assessment!Idle
    <3>2. Asked(n).doing = "answer" /\ Asked(n).session = i /\ Asked(n).turn = Len(q)
      OBVIOUS
    <3> HIDE DEF Asked
    <3> QED BY <1>1, <1>14, <3>1, <3>2 DEF RequestsInOrder
  <2> QED BY <1>3, <1>15 DEF q, s
<1> QED BY <1>11, <1>13, <1>16 DEF AssessmentInv, AssessmentType

LEMMA AnsweringKeeps ==
    ASSUME AssessmentInv, NEW c \in Callers, Assessment!Answering(c)
    PROVE  AssessmentInv'
<1> DEFINE a == caller[c]
           i == a.session
           s == sessions[i]
           q == s.turns
           scored == [q EXCEPT ![a.turn].score = a.score]
           best == Assessment!Best(s.retained, Assessment!ToSet(scored))
           attempts == Assessment!Cardinality(Assessment!Answered(scored))
<1>1. /\ sessions \in Seq(Session) /\ caller \in Requests /\ SessionsInOrder(sessions)
      /\ RequestsInOrder(sessions, caller) /\ a \in {Assessment!Idle} \cup Starting \cup Replying
  BY DEF AssessmentInv, AssessmentType, Requests
<1>2. a \in Replying /\ i \in 1 .. Len(sessions) /\ a.turn \in 1 .. Len(q)
  <2>1. a.doing = "answer"
    BY DEF Assessment!Answering
  <2>2. \A x \in Starting : x.doing = "start"
    BY DEF Starting
  <2> QED BY <1>1, <2>1, <2>2 DEF Assessment!Idle, RequestsInOrder
<1>3. a.score \in 0 .. 100 /\ a.next \in Kinds \cup {"none"}
  <2> HIDE DEF a
  <2> QED BY <1>2 DEF Replying
<1>4. /\ s \in Session /\ s.retained \in Grades /\ q \in Seq(Question) /\ Len(q) \in Nat
      /\ Len(q) >= 1 /\ Len(q) <= MaxQuestions /\ InOrder(s)
      /\ \A k \in 1 .. Len(q) : Open(q[k]) <=> k = Len(q) /\ ~HasEnded(s)
  <2>1. s \in Session /\ InOrder(s)
    BY <1>1, <1>2 DEF SessionsInOrder
  <2> HIDE DEF s
  <2> QED BY <2>1, Fields, AssessmentBounds DEF InOrder
<1>5. /\ caller' = [caller EXCEPT ![c] = Assessment!Idle]
      /\ IF q[a.turn].score # Assessment!NoScore THEN UNCHANGED <<sessions, competency>>
         ELSE IF Assessment!Passing(best) \/ attempts >= MaxQuestions
         THEN /\ sessions' = [sessions EXCEPT
                    ![i].status = IF Assessment!Passing(best) THEN "PASSED"
                                  ELSE IF attempts >= MaxQuestions THEN "NEEDS_STUDY" ELSE s.status,
                    ![i].turns = scored]
              /\ competency' = IF Assessment!Passing(best) THEN [verified |-> TRUE, by |-> "AI_ASSESSMENT"]
                               ELSE competency
         ELSE IF a.next # Assessment!NextQuestionKind(best) THEN UNCHANGED <<sessions, competency>>
         ELSE /\ sessions' = [sessions EXCEPT ![i].turns = Append(scored, Assessment!Turn(a.next))]
              /\ UNCHANGED competency
  BY DEF Assessment!Answering
<1> HIDE DEF best, attempts, scored, q, s, i, a
<1>6. caller' \in Requests /\ \A d \in Callers : caller'[d] = caller[d] \/ caller'[d] = Assessment!Idle
  BY <1>1, <1>5 DEF Requests
<1>7. CASE UNCHANGED <<sessions, competency>>
  <2>1. EndedStays(sessions, sessions')
    BY <1>1, <1>7 DEF EndedStays
  <2>2. \A j \in 1 .. Len(sessions) : Len(sessions[j].turns) <= Len(sessions'[j].turns)
    BY <1>1, <1>7, Fields
  <2>3. RequestsInOrder(sessions', caller')
    BY <1>1, <1>6, <1>7, <2>1, <2>2, RequestsStay
  <2> QED BY <1>1, <1>6, <1>7, <2>3 DEF AssessmentInv, AssessmentType
<1>8. CASE Open(q[a.turn])
  <2>1. a.turn = Len(q) /\ ~HasEnded(s) /\ \A k \in 1 .. Len(q) : Open(q[k]) <=> k = Len(q)
    BY <1>2, <1>4, <1>8 DEF q
  <2>2. /\ scored \in Seq(Question) /\ Len(scored) = Len(q) /\ attempts = Len(q)
        /\ \A k \in 1 .. Len(q) : ~Open(scored[k])
    <3>1. scored = LastScored(q, a.score)
      BY <2>1 DEF scored, LastScored
    <3> QED BY <1>3, <1>4, <2>1, <3>1, Scored DEF attempts
  <2>3. best \in Grades
    BY <1>4, <2>2, BestOf, TurnsAreQuestions DEF best
  <2>4. ASSUME NEW t \in Session, t.retained = s.retained, InOrder(t), HasEnded(t) \/ t.status = s.status,
               Len(q) <= Len(t.turns), \A k \in 1 .. Len(q) : ~Open(t.turns[k]),
               sessions' = [sessions EXCEPT ![i] = t]
        PROVE  /\ sessions' \in Seq(Session) /\ SessionsInOrder(sessions') /\ RequestsInOrder(sessions', caller')
               /\ i \in 1 .. Len(sessions') /\ sessions'[i] = t
               /\ competency' = competency =>
                    (competency'.by = "AI_ASSESSMENT" => LevelIsEarned(sessions'))
    <3>1. /\ sessions[i] = s /\ (t.status = "IN_PROGRESS" => s.status = "IN_PROGRESS")
          /\ s.status # "PASSED" /\ s.turns = q
      BY <2>1, <2>4 DEF HasEnded, s, q
    <3>2. /\ sessions' \in Seq(Session) /\ Len(sessions') = Len(sessions) /\ SessionsInOrder(sessions')
          /\ EndedStays(sessions, sessions')
      <4>1. /\ t.retained = sessions[i].retained /\ InOrder(t)
            /\ (HasEnded(sessions[i]) => HasEnded(t) /\ t.turns = sessions[i].turns)
            /\ (t.status = "IN_PROGRESS" => sessions[i].status = "IN_PROGRESS")
        BY <2>1, <2>4, <3>1
      <4> QED BY <1>1, <1>2, <2>4, <4>1, SessionMoves
    <3>3. \A j \in 1 .. Len(sessions) : sessions'[j] = IF j = i THEN t ELSE sessions[j]
      BY <1>1, <2>4
    <3>4. \A j \in 1 .. Len(sessions) : Len(sessions[j].turns) \in Nat
      BY <1>1, Fields
    <3>5. \A j \in 1 .. Len(sessions) :
            /\ sessions'[j].retained = sessions[j].retained /\ Len(sessions[j].turns) <= Len(sessions'[j].turns)
            /\ \/ sessions'[j].turns = sessions[j].turns
               \/ \A k \in 1 .. Len(sessions[j].turns) : ~Open(sessions'[j].turns[k])
            /\ sessions[j].status = "PASSED" => sessions'[j].status = "PASSED"
      <4> TAKE j \in 1 .. Len(sessions)
      <4>1. CASE j = i
        BY <2>4, <3>1, <3>3, <4>1
      <4>2. CASE j # i
        BY <3>3, <3>4, <4>2
      <4> QED BY <4>1, <4>2
    <3>6. RequestsInOrder(sessions', caller')
      BY <1>1, <1>6, <3>2, <3>5, RequestsStay
    <3>7. competency' = competency => (competency'.by = "AI_ASSESSMENT" => LevelIsEarned(sessions'))
      BY <1>1, <3>2, <3>5, EarnedStays DEF AssessmentInv
    <3> QED BY <1>2, <3>2, <3>3, <3>6, <3>7
  <2>5. CASE Assessment!Passing(best) \/ attempts >= MaxQuestions
    <3> DEFINE ended == IF Assessment!Passing(best) THEN "PASSED"
                        ELSE IF attempts >= MaxQuestions THEN "NEEDS_STUDY" ELSE s.status
               t == [s EXCEPT !.status = ended, !.turns = scored]
    <3>1. /\ sessions' = [sessions EXCEPT ![i].status = ended, ![i].turns = scored]
          /\ competency' = IF Assessment!Passing(best) THEN [verified |-> TRUE, by |-> "AI_ASSESSMENT"]
                           ELSE competency
      BY <1>5, <1>8, <2>5 DEF Open
    <3>2. ended \in {"PASSED", "NEEDS_STUDY"} /\ (Assessment!Passing(best) => ended = "PASSED")
      BY <2>5
    <3> HIDE DEF ended
    <3>3. /\ t \in Session /\ t.retained = s.retained /\ t.turns = scored /\ t.status = ended
      BY <1>4, <2>2, <3>2 DEF Session
    <3>4. sessions' = [sessions EXCEPT ![i] = t]
      BY <1>1, <1>2, <3>1 DEF s
    <3> HIDE DEF t
    <3>5. HasEnded(t)
      BY <3>2, <3>3 DEF HasEnded
    <3>6. InOrder(t)
      <4>1. Len(t.turns) \in 1 .. MaxQuestions
        BY <1>4, <2>2, <3>3, AssessmentBounds
      <4>2. \A k \in 1 .. Len(t.turns) : ~Open(t.turns[k])
        BY <2>2, <3>3
      <4> QED BY <3>5, <4>1, <4>2 DEF InOrder
    <3>7. /\ sessions' \in Seq(Session) /\ SessionsInOrder(sessions') /\ RequestsInOrder(sessions', caller')
          /\ i \in 1 .. Len(sessions') /\ sessions'[i] = t
          /\ competency' = competency => (competency'.by = "AI_ASSESSMENT" => LevelIsEarned(sessions'))
      <4>1. Len(q) <= Len(t.turns) /\ \A k \in 1 .. Len(q) : ~Open(t.turns[k])
        BY <1>4, <2>2, <3>3
      <4> QED BY <2>4, <3>3, <3>4, <3>5, <3>6, <4>1
    <3>8. Assessment!Passing(best) => LevelIsEarned(sessions')
      <4> SUFFICES ASSUME Assessment!Passing(best) PROVE LevelIsEarned(sessions')
        OBVIOUS
      <4>1. GivenBefore(sessions', i - 1, sessions'[i].retained)
        BY <3>7 DEF SessionsInOrder
      <4>2. Assessment!Passing(Assessment!Best(sessions'[i].retained, Assessment!ToSet(sessions'[i].turns)))
        BY <3>3, <3>7 DEF best
      <4>3. Assessment!Passing(Assessment!Best([k \in {} |-> 0], Earned(sessions', i)))
        BY <3>5, <3>7, <4>1, <4>2, PassedIsEarned
      <4> QED BY <3>2, <3>3, <3>7, <4>3 DEF LevelIsEarned
    <3> QED BY <1>6, <3>1, <3>7, <3>8 DEF AssessmentInv, AssessmentType
  <2>6. CASE ~(Assessment!Passing(best) \/ attempts >= MaxQuestions)
             /\ a.next = Assessment!NextQuestionKind(best)
    <3> DEFINE t == [s EXCEPT !.turns = Append(scored, Assessment!Turn(a.next))]
    <3>1. sessions' = [sessions EXCEPT ![i].turns = Append(scored, Assessment!Turn(a.next))]
          /\ competency' = competency
      BY <1>5, <1>8, <2>6 DEF Open
    <3>2. a.next \in Kinds
      BY <1>3, <2>3, <2>6, NextKinds
    <3>3. Assessment!Turn(a.next) \in Question /\ Open(Assessment!Turn(a.next))
      BY <3>2 DEF Assessment!Turn, Question, Open, Assessment!NoScore
    <3> DEFINE r == Append(scored, Assessment!Turn(a.next))
    <3>4. /\ r \in Seq(Question) /\ Len(r) = Len(q) + 1 /\ r[Len(q) + 1] = Assessment!Turn(a.next)
          /\ \A k \in 1 .. Len(q) : r[k] = scored[k]
      BY <1>4, <2>2, <3>3
    <3> HIDE DEF r
    <3>5. t \in Session /\ t.retained = s.retained /\ t.status = s.status /\ t.review = s.review /\ t.turns = r
      BY <1>4, <3>4 DEF Session, r
    <3>6. sessions' = [sessions EXCEPT ![i] = t]
      BY <1>1, <1>2, <3>1 DEF s
    <3> HIDE DEF t
    <3>7. /\ Len(t.turns) = Len(q) + 1 /\ Open(t.turns[Len(q) + 1])
          /\ \A k \in 1 .. Len(q) : ~Open(t.turns[k])
      BY <2>2, <3>3, <3>4, <3>5
    <3>8. Len(q) + 1 \in 1 .. MaxQuestions
      <4>1. ~(Len(q) >= MaxQuestions)
        BY <2>2, <2>6
      <4> QED BY <1>4, <4>1, AssessmentBounds
    <3>9. ~HasEnded(t)
      BY <2>1, <3>5 DEF HasEnded
    <3>10. InOrder(t)
      <4>1. \A k \in 1 .. Len(q) + 1 : Open(t.turns[k]) <=> k = Len(q) + 1
        BY <1>4, <3>7
      <4>2. t.review = "NONE"
        BY <1>4, <2>1, <3>5 DEF InOrder
      <4> QED BY <3>7, <3>8, <3>9, <4>1, <4>2 DEF InOrder
    <3>11. Len(q) <= Len(t.turns)
      BY <1>4, <3>7
    <3> QED BY <1>6, <2>4, <3>1, <3>5, <3>6, <3>7, <3>10, <3>11 DEF AssessmentInv, AssessmentType
  <2> QED BY <1>5, <1>7, <2>5, <2>6
<1> QED BY <1>5, <1>7, <1>8 DEF Open

LEMMA AssessmentStep ==
    ASSUME AssessmentInv, Assessment!AssessmentNext
    PROVE  AssessmentInv'
BY StartKeeps, StartedKeeps, AnswerKeeps, AnsweringKeeps, AbandonKeeps, RequestReviewKeeps,
   ResolveReviewKeeps, AgeKeeps DEF Assessment!AssessmentNext

LEMMA AssessmentStarts ==
    ASSUME Assessment!AssessmentInit
    PROVE  AssessmentInv
<1>1. sessions = <<>> /\ caller \in Requests /\ \A c \in Callers : caller[c].doing = "idle"
  BY DEF Assessment!AssessmentInit, Assessment!Idle, Requests
<1>2. competency.by = "none"
  BY DEF Assessment!AssessmentInit
<1> QED BY <1>1, <1>2 DEF AssessmentInv, AssessmentType, SessionsInOrder, RequestsInOrder

LEMMA AssessmentHolds ==
    ASSUME AssessmentInv
    PROVE  Assessment!BothSidesAgree /\ Assessment!OneQuestionIsOpen /\ Assessment!VerifiedIsEarned
<1>1. sessions \in Seq(Session) /\ SessionsInOrder(sessions) /\ RequestsInOrder(sessions, caller)
  BY DEF AssessmentInv, AssessmentType
<1>2. Assessment!BothSidesAgree
  BY <1>1 DEF Assessment!BothSidesAgree, RequestsInOrder, Closes, Open
<1>3. Assessment!VerifiedIsEarned
  <2> DEFINE earned(i) == UNION {Assessment!ToSet(sessions[j].turns) : j \in {k \in 1 .. i :
                                   sessions[k].status \in {"PASSED", "NEEDS_STUDY"}}}
  <2>1. \A i : Earned(sessions, i) = earned(i)
    BY DEF Earned, HasEnded
  <2>2. competency.by = "AI_ASSESSMENT" =>
          \E i \in DOMAIN sessions : sessions[i].status = "PASSED" /\
            Assessment!Passing(Assessment!Best([k \in {} |-> 0], earned(i)))
    <3> HIDE DEF earned
    <3> QED BY <1>1, <2>1 DEF AssessmentInv, LevelIsEarned
  <2> QED BY <2>2 DEF Assessment!VerifiedIsEarned
<1>4. Assessment!OneQuestionIsOpen
  <2>1. Assessment!Cardinality(Assessment!Active) <= 1
    <3>1. Assessment!Active = {} \/ \E i : Assessment!Active = {i}
      <4>1. \A i, j \in Assessment!Active : i = j
        BY <1>1 DEF SessionsInOrder, Assessment!Active
      <4> QED BY <4>1
    <3>2. Cardinality({}) = 0 /\ \A i : Cardinality({i}) = 1
      BY FS_EmptySet, FS_Singleton
    <3>3. \A S : Assessment!Cardinality(S) = Cardinality(S)
      BY DEF Assessment!Cardinality, Assessment!IsFiniteSet, Cardinality, IsFiniteSet
    <3>4. CASE Assessment!Active = {}
      BY <3>2, <3>3, <3>4
    <3>5. CASE \E i : Assessment!Active = {i}
      <4>1. PICK i : Assessment!Active = {i}
        BY <3>5
      <4>2. Assessment!Cardinality({i}) = 1
        BY <3>2, <3>3
      <4> QED BY <4>1, <4>2
    <3> QED BY <3>1, <3>4, <3>5
  <2>2. ASSUME NEW i \in 1 .. Len(sessions)
        PROVE  /\ Len(sessions[i].turns) <= MaxQuestions
               /\ sessions[i].status = "IN_PROGRESS" =>
                    {k \in DOMAIN sessions[i].turns : sessions[i].turns[k].score = Assessment!NoScore}
                      = {Len(sessions[i].turns)}
    <3>1. InOrder(sessions[i]) /\ sessions[i].turns \in Seq(Question) /\ Len(sessions[i].turns) \in Nat
      BY <1>1, Fields DEF SessionsInOrder
    <3> QED BY <3>1, AssessmentBounds DEF InOrder, Open, HasEnded
  <2> QED BY <1>1, <2>1, <2>2 DEF Assessment!OneQuestionIsOpen
<1> QED BY <1>2, <1>3, <1>4

-----------------------------------------------------------------------------
(* The sources and the evidence: the instances of CareerEvidenceProofs *)

LEMMA CareerFits == SourcesP!EvidenceBounds /\ ProofsP!EvidenceBounds
<1>1. SourcesP!EvidenceBounds
  BY EvidenceFits DEF SourcesP!EvidenceBounds, SourcesP!Workers, SourcesP!Nobody
<1>2. ProofsP!EvidenceBounds
  BY EvidenceFits DEF ProofsP!EvidenceBounds, ProofsP!Workers, ProofsP!Nobody
<1> QED BY <1>1, <1>2

LEMMA SourcesBegin == Sources!EvidenceInit => SourcesP!EvidenceInit
BY DEF Sources!EvidenceInit, SourcesP!EvidenceInit, Sources!Items, SourcesP!Items,
       Sources!Workers, SourcesP!Workers, Sources!Nobody, SourcesP!Nobody, Sources!NoRow,
       SourcesP!NoRow, Sources!NewRow, SourcesP!NewRow, Sources!Idle, SourcesP!Idle,
       Sources!NoRead, SourcesP!NoRead

LEMMA SourcesStep == Sources!EvidenceNext => SourcesP!EvidenceNext
BY DEF Sources!Items, SourcesP!Items, Sources!Workers, SourcesP!Workers, Sources!WorkersOf,
       SourcesP!WorkersOf, Sources!Nobody, SourcesP!Nobody, Sources!NoRow, SourcesP!NoRow,
       Sources!NewRow, SourcesP!NewRow, Sources!Idle, SourcesP!Idle, Sources!NoRead,
       SourcesP!NoRead, Sources!KindOf, SourcesP!KindOf, Sources!Fragments, SourcesP!Fragments,
       Sources!Extracted, SourcesP!Extracted, Sources!Answer, SourcesP!Answer, Sources!Verdict,
       SourcesP!Verdict, Sources!Create, SourcesP!Create, Sources!Submit, SourcesP!Submit,
       Sources!Requeued, SourcesP!Requeued, Sources!RetrySource, SourcesP!RetrySource,
       Sources!RetryEvidence, SourcesP!RetryEvidence, Sources!CancelSource,
       SourcesP!CancelSource, Sources!Confirm, SourcesP!Confirm, Sources!DeleteSource,
       SourcesP!DeleteSource, Sources!Claim, SourcesP!Claim, Sources!At, SourcesP!At,
       Sources!Owns, SourcesP!Owns, Sources!Handles, SourcesP!Handles, Sources!Load,
       SourcesP!Load, Sources!Finished, SourcesP!Finished, Sources!Stores, SourcesP!Stores,
       Sources!Extract, SourcesP!Extract, Sources!Verify, SourcesP!Verify, Sources!Fail,
       SourcesP!Fail, Sources!Crash, SourcesP!Crash, Sources!Released, SourcesP!Released,
       Sources!Exhausted, SourcesP!Exhausted, Sources!Back, SourcesP!Back, Sources!GivenUp,
       SourcesP!GivenUp, Sources!Shutdown, SourcesP!Shutdown, Sources!Expire, SourcesP!Expire,
       Sources!Recover, SourcesP!Recover, Sources!EvidenceNext, SourcesP!EvidenceNext

LEMMA ProofsBegin == Proofs!EvidenceInit => ProofsP!EvidenceInit
BY DEF Proofs!EvidenceInit, ProofsP!EvidenceInit, Proofs!Items, ProofsP!Items, Proofs!Workers,
       ProofsP!Workers, Proofs!Nobody, ProofsP!Nobody, Proofs!NoRow, ProofsP!NoRow,
       Proofs!NewRow, ProofsP!NewRow, Proofs!Idle, ProofsP!Idle, Proofs!NoRead, ProofsP!NoRead

LEMMA ProofsStep == Proofs!EvidenceNext => ProofsP!EvidenceNext
BY DEF Proofs!Items, ProofsP!Items, Proofs!Workers, ProofsP!Workers, Proofs!WorkersOf,
       ProofsP!WorkersOf, Proofs!Nobody, ProofsP!Nobody, Proofs!NoRow, ProofsP!NoRow,
       Proofs!NewRow, ProofsP!NewRow, Proofs!Idle, ProofsP!Idle, Proofs!NoRead, ProofsP!NoRead,
       Proofs!KindOf, ProofsP!KindOf, Proofs!Fragments, ProofsP!Fragments, Proofs!Extracted,
       ProofsP!Extracted, Proofs!Answer, ProofsP!Answer, Proofs!Verdict, ProofsP!Verdict,
       Proofs!Create, ProofsP!Create, Proofs!Submit, ProofsP!Submit, Proofs!Requeued,
       ProofsP!Requeued, Proofs!RetrySource, ProofsP!RetrySource, Proofs!RetryEvidence,
       ProofsP!RetryEvidence, Proofs!CancelSource, ProofsP!CancelSource, Proofs!Confirm,
       ProofsP!Confirm, Proofs!DeleteSource, ProofsP!DeleteSource, Proofs!Claim, ProofsP!Claim,
       Proofs!At, ProofsP!At, Proofs!Owns, ProofsP!Owns, Proofs!Handles, ProofsP!Handles,
       Proofs!Load, ProofsP!Load, Proofs!Finished, ProofsP!Finished, Proofs!Stores,
       ProofsP!Stores, Proofs!Extract, ProofsP!Extract, Proofs!Verify, ProofsP!Verify,
       Proofs!Fail, ProofsP!Fail, Proofs!Crash, ProofsP!Crash, Proofs!Released,
       ProofsP!Released, Proofs!Exhausted, ProofsP!Exhausted, Proofs!Back, ProofsP!Back,
       Proofs!GivenUp, ProofsP!GivenUp, Proofs!Shutdown, ProofsP!Shutdown, Proofs!Expire,
       ProofsP!Expire, Proofs!Recover, ProofsP!Recover, Proofs!EvidenceNext,
       ProofsP!EvidenceNext

LEMMA SourcesHold ==
  ASSUME SourcesP!EvidenceInv PROVE Sources!NothingIsForgotten /\ Sources!FragmentsAreReviewed
<1>1. SourcesP!NothingIsForgotten /\ SourcesP!FragmentsAreReviewed BY DEF SourcesP!EvidenceInv
<1>2. Sources!NothingIsForgotten
  BY <1>1 DEF Sources!NothingIsForgotten, SourcesP!NothingIsForgotten
<1>3. Sources!Extracted = SourcesP!Extracted
  BY DEF Sources!Extracted, SourcesP!Extracted, Sources!Fragments, SourcesP!Fragments,
         Sources!KindOf, SourcesP!KindOf
<1> QED BY <1>1, <1>2, <1>3 DEF Sources!FragmentsAreReviewed, SourcesP!FragmentsAreReviewed

LEMMA ProofsHold ==
  ASSUME ProofsP!EvidenceInv PROVE Proofs!NothingIsForgotten /\ Proofs!ProgressIsProven
BY DEF ProofsP!EvidenceInv, Proofs!NothingIsForgotten, ProofsP!NothingIsForgotten,
       Proofs!ProgressIsProven, ProofsP!ProgressIsProven, Proofs!CareerText, ProofsP!CareerText

-----------------------------------------------------------------------------
(* The index: its vectors are of one space, and a run keeps what it has written *)

\* One text to a place, and no posting in two parts
Apart(ps) ==
    /\ \A p \in ps : \A c, d \in p : c[1] = d[1] => c[2] = d[2]
    /\ \A p, q \in ps : \A c \in p, d \in q : c[1][1] = d[1][1] => p = q

\* What is left of a run is of postings it knows, and none of it is of a posting
\* that the run has written
RunFits(r) ==
    /\ r = [at |-> r.at, script |-> r.script, batch |-> r.batch, parts |-> r.parts,
            unchanged |-> r.unchanged, space |-> r.space, written |-> r.written]
    /\ r.script \in Scripts \cup {"stale"} /\ r.space \in Index!Spaces
    /\ Apart(r.parts)
    /\ \/ r.at = "postings" /\ r.written = {} /\ Index!Uids(UNION r.parts) \subseteq DOMAIN r.batch
       \/ /\ r.at = "chunks" /\ Index!Uids(UNION r.parts) \subseteq DOMAIN rows
          /\ \A c \in r.written :
               /\ c[1] \in DOMAIN chunks /\ chunks[c[1]].text = c[2]
               /\ c[1][1] \notin Index!Uids(UNION r.parts)

\* The chunks of a posting that was always in use are in the space that is recorded, or in
\* the first one there was
AlwaysInUse(uid) == rows[uid].active /\ ~rows[uid].back
IndexInv ==
    /\ DOMAIN runs = Writers /\ model \in Index!Spaces
    /\ profile \in Index!Spaces \cup {Index!None}
    /\ \A id \in DOMAIN chunks : id[1] \in DOMAIN rows
    /\ \A uid \in DOMAIN rows :
         rows[uid].active \in BOOLEAN /\ rows[uid].back \in BOOLEAN
    /\ \A id \in DOMAIN chunks : AlwaysInUse(id[1]) =>
         chunks[id].space = IF profile = Index!None THEN Index!Legacy ELSE profile
    /\ \A w \in Writers : runs[w] = Index!NoRun \/ RunFits(runs[w])

LEMMA ChunkIsOfPosting ==
  ASSUME NEW uid, NEW texts, NEW c \in Index!ChunksOf(uid, texts)
  PROVE  c[1][1] = uid /\ c[2] = texts[c[1][2]]
BY DEF Index!ChunksOf

LEMMA IndexStarts == Index!IndexInit => IndexInv
<1> SUFFICES ASSUME Index!IndexInit PROVE IndexInv
  OBVIOUS
<1>1. PICK old \in Batches \cup {<<>>} :
        /\ rows = [uid \in DOMAIN old |-> [active |-> TRUE, texts |-> old[uid], back |-> FALSE]]
        /\ chunks = [id \in Index!Ids(UNION {Index!ChunksOf(uid, old[uid]) : uid \in DOMAIN old}) |->
                       [text |-> old[id[1]][id[2]], space |-> Index!Legacy]]
  BY DEF Index!IndexInit
<1>2. \A id \in DOMAIN chunks : id[1] \in DOMAIN rows /\ chunks[id].space = Index!Legacy
  <2> SUFFICES ASSUME NEW id \in DOMAIN chunks
               PROVE  id[1] \in DOMAIN rows /\ chunks[id].space = Index!Legacy
    OBVIOUS
  <2>1. PICK c \in UNION {Index!ChunksOf(uid, old[uid]) : uid \in DOMAIN old} : id = c[1]
    BY <1>1 DEF Index!Ids
  <2>2. PICK uid \in DOMAIN old : c \in Index!ChunksOf(uid, old[uid])
    BY <2>1
  <2>3. id[1] = uid BY <2>1, <2>2, ChunkIsOfPosting
  <2> QED BY <1>1, <2>2, <2>3
<1>3. \A uid \in DOMAIN rows : rows[uid].active /\ ~rows[uid].back
        /\ rows[uid].active \in BOOLEAN /\ rows[uid].back \in BOOLEAN
  BY <1>1
<1>4. /\ profile = Index!None /\ model = Index!Legacy /\ runs = [w \in Writers |-> Index!NoRun]
  BY DEF Index!IndexInit
<1> QED BY <1>2, <1>3, <1>4 DEF IndexInv, Index!Spaces

\* A run that goes on as it was fits an index that has only got more postings
LEMMA RunStays ==
  ASSUME NEW v, RunFits(runs[v]), runs'[v] = runs[v], chunks' = chunks,
         DOMAIN rows \subseteq DOMAIN rows'
  PROVE  RunFits(runs[v])'
<1>1. CASE runs[v].at = "postings"
  BY <1>1 DEF RunFits
<1>2. CASE runs[v].at = "chunks"
  BY <1>2 DEF RunFits
<1> QED BY <1>1, <1>2 DEF RunFits

\* A step of one run that leaves the index as it is
LEMMA OneRunKeeps ==
  ASSUME IndexInv, NEW w \in Writers, NEW r, runs' = [runs EXCEPT ![w] = r],
         UNCHANGED <<rows, chunks, profile>>, model' \in Index!Spaces,
         r = Index!NoRun \/ RunFits(r)
  PROVE  IndexInv'
<1>1. \A v \in Writers : runs'[v] = IF v = w THEN r ELSE runs[v]
  BY DEF IndexInv
<1>2. ASSUME NEW v \in Writers PROVE runs'[v] = Index!NoRun \/ RunFits(runs[v])'
  <2>1. CASE v = w /\ RunFits(r)
    <3>1. r.at = "postings" \/ r.at = "chunks" BY <2>1 DEF RunFits
    <3>2. runs'[v] = r BY <1>1, <2>1
    <3>3. CASE r.at = "postings" BY <2>1, <3>2, <3>3 DEF RunFits
    <3>4. CASE r.at = "chunks" BY <2>1, <3>2, <3>4 DEF RunFits
    <3> QED BY <3>1, <3>3, <3>4
  <2>2. CASE v # w /\ RunFits(runs[v])
    BY <1>1, <2>2, RunStays
  <2> QED BY <1>1, <2>1, <2>2 DEF IndexInv
<1> QED BY <1>2 DEF IndexInv, AlwaysInUse

LEMMA IngestKeeps ==
  ASSUME IndexInv, NEW w \in Writers, NEW s \in Scripts, NEW b \in Batches, Index!Ingest(w, s, b)
  PROVE  IndexInv'
<1> DEFINE exported == {Index!ChunksOf(uid, b[uid]) : uid \in DOMAIN b}
           ps == IF s = "additive" THEN exported \ {{}} ELSE {UNION exported}
           r == Index!Started("postings", s, b, ps, Index!Unchanged(UNION ps, model))
<1>1. runs' = [runs EXCEPT ![w] = r] /\ UNCHANGED <<rows, chunks, profile, model>>
  BY DEF Index!Ingest
<1>3. \A p \in exported : \A c \in p :
        /\ c[2] = b[c[1][1]][c[1][2]] /\ c[1][1] \in DOMAIN b
        /\ p = Index!ChunksOf(c[1][1], b[c[1][1]])
  BY ChunkIsOfPosting
<1>4. Apart(ps) /\ Index!Uids(UNION ps) \subseteq DOMAIN b
  <2>1. CASE s = "additive"
    <3>1. ps = exported \ {{}} BY <2>1
    <3> HIDE DEF exported, ps
    <3> QED BY <1>3, <3>1 DEF Apart, Index!Uids
  <2>2. CASE s # "additive"
    <3>1. ps = {UNION exported} BY <2>2
    <3> HIDE DEF exported, ps
    <3> QED BY <1>3, <3>1 DEF Apart, Index!Uids
  <2> QED BY <2>1, <2>2
<1>5. RunFits(r)
  <2> HIDE DEF exported, ps
  <2> QED BY <1>4 DEF RunFits, Index!Started, IndexInv
<1> HIDE DEF r
<1> QED BY <1>1, <1>5, OneRunKeeps DEF IndexInv

LEMMA RechunkKeeps ==
  ASSUME IndexInv, NEW w \in Writers, Index!Rechunk(w)
  PROVE  IndexInv'
<1> DEFINE new(uid) == Index!ChunksOf(uid, rows[uid].texts)
           stale == {uid \in Index!Active(rows) :
                       {<<id, chunks[id].text>> : id \in Index!Stored({uid})} # new(uid)}
           all == UNION {new(uid) : uid \in stale}
           same == Index!Unchanged(all, model)
           todo == {c \in all : c[1] \notin same}
           r == Index!Started("chunks", "stale", <<>>, {todo}, same)
<1>1. runs' = [runs EXCEPT ![w] = r] /\ UNCHANGED <<rows, chunks, profile, model>>
  BY DEF Index!Rechunk
<1>2. \A c \in todo : c[1][1] \in DOMAIN rows /\ c[2] = rows[c[1][1]].texts[c[1][2]]
  <2> SUFFICES ASSUME NEW c \in todo
               PROVE  c[1][1] \in DOMAIN rows /\ c[2] = rows[c[1][1]].texts[c[1][2]]
    OBVIOUS
  <2>1. PICK uid \in stale : c \in new(uid) OBVIOUS
  <2>2. c[1][1] = uid /\ c[2] = rows[uid].texts[c[1][2]] BY <2>1, ChunkIsOfPosting
  <2>3. uid \in DOMAIN rows BY DEF Index!Active
  <2> QED BY <2>2, <2>3
<1>3. RunFits(r)
  <2> HIDE DEF todo, same
  <2>1. Apart({todo}) BY <1>2 DEF Apart
  <2>2. Index!Uids(UNION {todo}) \subseteq DOMAIN rows BY <1>2 DEF Index!Uids
  <2> QED BY <2>1, <2>2 DEF RunFits, Index!Started, IndexInv
<1> HIDE DEF r
<1> QED BY <1>1, <1>3, OneRunKeeps DEF IndexInv

LEMMA PublishKeeps ==
  ASSUME IndexInv, NEW w \in Writers, Index!Publish(w)
  PROVE  IndexInv'
<1> DEFINE r == runs[w]
           published == [r EXCEPT !.at = "chunks"]
<1>1. r.at = "postings" /\ RunFits(r)
  BY DEF Index!Publish, IndexInv, Index!NoRun
<1>2. /\ runs' = [runs EXCEPT ![w] = published] /\ UNCHANGED <<chunks, profile, model>>
      /\ \A v \in Writers : runs'[v] = IF v = w THEN published ELSE runs[v]
  <2>1. runs' = [runs EXCEPT ![w] = published] BY DEF Index!Publish
  <2> HIDE DEF published
  <2> QED BY <2>1 DEF Index!Publish, IndexInv
<1>3. /\ DOMAIN rows' = DOMAIN rows \cup DOMAIN r.batch
      /\ \A uid \in DOMAIN rows' :
           rows'[uid].active \in BOOLEAN /\ rows'[uid].back \in BOOLEAN
      /\ \A uid \in DOMAIN rows : AlwaysInUse(uid)' => AlwaysInUse(uid)
  BY DEF Index!Publish, IndexInv, AlwaysInUse
<1>4. /\ published.at = "chunks" /\ published.parts = r.parts /\ published.written = {}
      /\ published.script = r.script /\ published.space = r.space
      /\ published = [at |-> published.at, script |-> published.script, batch |-> published.batch,
                      parts |-> published.parts, unchanged |-> published.unchanged,
                      space |-> published.space, written |-> published.written]
  BY <1>1 DEF RunFits
<1> HIDE DEF published
<1>5. ASSUME NEW v \in Writers PROVE runs'[v] = Index!NoRun \/ RunFits(runs[v])'
  <2>1. CASE v = w
    BY <1>1, <1>2, <1>3, <1>4, <2>1 DEF RunFits
  <2>2. CASE v # w
    BY <1>2, <1>3, <2>2, RunStays DEF IndexInv
  <2> QED BY <2>1, <2>2
<1> QED BY <1>2, <1>3, <1>5 DEF IndexInv

\* The space of the vectors is that of each chunk of a posting that was always in use
LEMMA CurrentIsTheirs ==
  ASSUME IndexInv, NEW id \in DOMAIN chunks, AlwaysInUse(id[1])
  PROVE  chunks[id].space = Index!Current /\ Index!Current # Index!None
BY DEF IndexInv, AlwaysInUse, Index!Current, Index!Active, Index!Spaces, Index!None, Index!Legacy

\* A run of which some parts are done
LEMMA Progress ==
  ASSUME NEW r, NEW some, NEW more,
         r = [at |-> r.at, script |-> r.script, batch |-> r.batch, parts |-> r.parts,
              unchanged |-> r.unchanged, space |-> r.space, written |-> r.written]
  PROVE  [r EXCEPT !.parts = @ \ some, !.written = @ \cup more] =
         [at |-> r.at, script |-> r.script, batch |-> r.batch, parts |-> r.parts \ some,
          unchanged |-> r.unchanged, space |-> r.space, written |-> r.written \cup more]
<1> DEFINE x == r.parts \ some
           y == r.written \cup more
           q == [r EXCEPT !.parts = x]
<1>1. [r EXCEPT !.parts = @ \ some, !.written = @ \cup more] = [q EXCEPT !.written = y]
  OBVIOUS
<1> HIDE DEF x, y
<1>2. q = [at |-> r.at, script |-> r.script, batch |-> r.batch, parts |-> x,
           unchanged |-> r.unchanged, space |-> r.space, written |-> r.written]
  OBVIOUS
<1> HIDE DEF q
<1>3. [q EXCEPT !.written = y] =
        [at |-> r.at, script |-> r.script, batch |-> r.batch, parts |-> x,
         unchanged |-> r.unchanged, space |-> r.space, written |-> y]
  BY <1>2
<1> QED BY <1>1, <1>3 DEF x, y

\* A run some of whose work was taken over
LEMMA Narrowed ==
  ASSUME NEW r, NEW gone,
         r = [at |-> r.at, script |-> r.script, batch |-> r.batch, parts |-> r.parts,
              unchanged |-> r.unchanged, space |-> r.space, written |-> r.written]
  PROVE  [r EXCEPT !.written = {c \in @ : c[1][1] \notin gone}] =
         [at |-> r.at, script |-> r.script, batch |-> r.batch, parts |-> r.parts,
          unchanged |-> r.unchanged, space |-> r.space,
          written |-> {c \in r.written : c[1][1] \notin gone}]
<1> DEFINE y == {c \in r.written : c[1][1] \notin gone}
<1>1. [r EXCEPT !.written = {c \in @ : c[1][1] \notin gone}] = [r EXCEPT !.written = y]
  OBVIOUS
<1> HIDE DEF y
<1>2. [r EXCEPT !.written = y] =
        [at |-> r.at, script |-> r.script, batch |-> r.batch, parts |-> r.parts,
         unchanged |-> r.unchanged, space |-> r.space, written |-> y]
  OBVIOUS
<1> QED BY <1>1, <1>2 DEF y

LEMMA WindowKeeps ==
  ASSUME IndexInv, NEW w \in Writers, NEW some, NEW e, Index!StoreWindow(w, some, e)
  PROVE  IndexInv'
<1> DEFINE r == runs[w]
           window == UNION some
           changed == {c \in window : ~Index!IsAt(c, r.space)}
           written == changed \cap e
           staying == {id \in DOMAIN chunks : id[1] \in Index!Uids(window) => id \in Index!Ids(window)}
           refused == Index!Switching(r.space) /\ (~Index!Covers(window) \/ changed # written)
<1>1. r.at = "chunks" /\ some \in SUBSET r.parts /\ UNCHANGED <<rows, model>>
  BY DEF Index!StoreWindow, Index!Windows
<1>2. RunFits(r)
  BY <1>1 DEF IndexInv, Index!NoRun
<1>3. CASE refused
  <2>1. runs' = [runs EXCEPT ![w] = Index!NoRun] /\ UNCHANGED <<chunks, profile>>
    BY <1>3 DEF Index!StoreWindow
  <2> QED BY <1>1, <2>1, OneRunKeeps DEF IndexInv
<1>4. CASE ~refused
  <2> DEFINE next == [r EXCEPT !.parts = @ \ some, !.written = @ \cup written]
             other(v) == [runs[v] EXCEPT !.written = {c \in @ : c[1][1] \notin Index!Uids(window)}]
  <2>1. /\ chunks' = [id \in staying \cup Index!Ids(written) |->
                        IF id \in Index!Ids(written)
                        THEN [text |-> Index!TextIn(written, id), space |-> r.space]
                        ELSE chunks[id]]
        /\ profile' = r.space
        /\ runs' = [v \in Writers |-> IF v = w THEN next
                                      ELSE IF runs[v].at = "idle" THEN runs[v] ELSE other(v)]
    BY <1>4 DEF Index!StoreWindow
  <2>2. \A c, d \in window : c[1] = d[1] => c[2] = d[2]
    <3> SUFFICES ASSUME NEW c \in window, NEW d \in window, c[1] = d[1] PROVE c[2] = d[2]
      OBVIOUS
    <3>1. PICK p \in some : c \in p OBVIOUS
    <3>2. PICK q \in some : d \in q OBVIOUS
    <3>3. p = q BY <1>1, <1>2, <3>1, <3>2 DEF RunFits, Apart
    <3> QED BY <1>1, <1>2, <3>1, <3>2, <3>3 DEF RunFits, Apart
  <2>3. \A c \in written : Index!TextIn(written, c[1]) = c[2]
    <3> SUFFICES ASSUME NEW c \in written PROVE Index!TextIn(written, c[1]) = c[2]
      OBVIOUS
    <3> DEFINE d == CHOOSE d \in written : d[1] = c[1]
    <3>1. d \in written /\ d[1] = c[1] OBVIOUS
    <3> HIDE DEF d
    <3>2. d[2] = c[2] BY <2>2, <3>1
    <3> QED BY <3>2 DEF d, Index!TextIn
  <2>4. Index!Uids(window) \subseteq DOMAIN rows
    BY <1>1, <1>2 DEF RunFits, Index!Uids
  <2>5. \A id \in DOMAIN chunks' : id[1] \in DOMAIN rows
    <3>1. \A id \in Index!Ids(written) : id[1] \in Index!Uids(window)
      BY DEF Index!Ids, Index!Uids
    <3>2. \A id \in staying : id[1] \in DOMAIN rows BY DEF IndexInv
    <3> HIDE DEF staying, written, window
    <3> QED BY <2>1, <2>4, <3>1, <3>2
  <2>6. \A id \in staying \ Index!Ids(written) : AlwaysInUse(id[1]) => chunks[id].space = r.space
    <3> SUFFICES ASSUME NEW id \in DOMAIN chunks, id \in staying, id \notin Index!Ids(written),
                        AlwaysInUse(id[1])
                 PROVE  chunks[id].space = r.space
      OBVIOUS
    <3>1. CASE ~Index!Switching(r.space)
      BY <3>1, CurrentIsTheirs DEF Index!Switching
    <3>2. CASE Index!Switching(r.space)
      <4>1. Index!Covers(window) /\ changed = written BY <1>4, <3>2
      <4>2. id[1] \in Index!Active(rows) BY DEF IndexInv, AlwaysInUse, Index!Active
      <4>3. id[1] \in Index!Uids(window)
        BY <4>1, <4>2 DEF Index!Covers, Index!Uncovered
      <4>4. PICK c \in window : id = c[1] BY <4>3 DEF Index!Ids
      <4>5. c \notin changed BY <4>1, <4>4 DEF Index!Ids
      <4>6. chunks[id] = [text |-> c[2], space |-> r.space] BY <4>4, <4>5 DEF Index!IsAt
      <4> QED BY <4>6
    <3> QED BY <3>1, <3>2
  <2>7. \A id \in DOMAIN chunks' : AlwaysInUse(id[1]) => chunks'[id].space = r.space
    <3> HIDE DEF staying, written
    <3> QED BY <2>1, <2>6
  <2>8. r.space \in Index!Spaces /\ r.space # Index!None
    BY <1>2 DEF RunFits, Index!Spaces, Index!None, Index!Legacy
  \* What was written of a posting outside of the window stays
  <2>9. \A id \in DOMAIN chunks : id[1] \notin Index!Uids(window) =>
           id \in DOMAIN chunks' /\ chunks'[id] = chunks[id]
    <3>1. \A id \in Index!Ids(written) : id[1] \in Index!Uids(window)
      BY DEF Index!Ids, Index!Uids
    <3>2. \A id \in DOMAIN chunks : id[1] \notin Index!Uids(window) => id \in staying
      OBVIOUS
    <3> HIDE DEF staying, written, window
    <3> QED BY <2>1, <3>1, <3>2
  <2>10. \A c \in written : c[1] \in DOMAIN chunks' /\ chunks'[c[1]].text = c[2]
    <3>1. \A c \in written : c[1] \in Index!Ids(written) BY DEF Index!Ids
    <3> HIDE DEF staying, written
    <3> QED BY <2>1, <2>3, <3>1
  <2>11. RunFits(runs[w])'
    <3>1. /\ next.at = "chunks" /\ next.parts = r.parts \ some
          /\ next.written = r.written \cup written
          /\ next.script = r.script /\ next.space = r.space
          /\ next = [at |-> next.at, script |-> next.script, batch |-> next.batch,
                     parts |-> next.parts, unchanged |-> next.unchanged,
                     space |-> next.space, written |-> next.written]
      <4>1. r = [at |-> r.at, script |-> r.script, batch |-> r.batch, parts |-> r.parts,
                 unchanged |-> r.unchanged, space |-> r.space, written |-> r.written]
        BY <1>2 DEF RunFits
      <4>2. next = [at |-> r.at, script |-> r.script, batch |-> r.batch, parts |-> r.parts \ some,
                    unchanged |-> r.unchanged, space |-> r.space,
                    written |-> r.written \cup written]
        <5> HIDE DEF written, window
        <5> QED BY <4>1, Progress
      <4> HIDE DEF written, window, next
      <4> QED BY <1>1, <4>2
    <3>2. Apart(next.parts) BY <1>2, <3>1 DEF RunFits, Apart
    <3>3. Index!Uids(UNION next.parts) \subseteq Index!Uids(UNION r.parts)
      BY <3>1 DEF Index!Uids
    <3>4. ASSUME NEW c \in r.written
          PROVE  /\ c[1] \in DOMAIN chunks' /\ chunks'[c[1]].text = c[2]
                 /\ c[1][1] \notin Index!Uids(UNION next.parts)
      <4>1. /\ c[1] \in DOMAIN chunks /\ chunks[c[1]].text = c[2]
            /\ c[1][1] \notin Index!Uids(UNION r.parts)
        BY <1>1, <1>2 DEF RunFits
      <4>2. c[1][1] \notin Index!Uids(window)
        BY <1>1, <4>1 DEF Index!Uids
      <4> QED BY <2>9, <3>3, <4>1, <4>2
    <3>5. ASSUME NEW c \in written
          PROVE  c[1][1] \notin Index!Uids(UNION next.parts)
      <4> SUFFICES ASSUME NEW d \in UNION next.parts, c[1][1] = d[1][1] PROVE FALSE
        BY DEF Index!Uids
      <4>1. PICK p \in some : c \in p OBVIOUS
      <4>2. PICK q \in next.parts : d \in q OBVIOUS
      <4>3. q \in r.parts /\ q \notin some BY <3>1, <4>2
      <4>4. p = q BY <1>1, <1>2, <4>1, <4>2, <4>3 DEF RunFits, Apart
      <4> QED BY <4>1, <4>3, <4>4
    <3>6. runs'[w] = next BY <2>1
    <3>7. /\ next.script \in Scripts \cup {"stale"} /\ next.space \in Index!Spaces
          /\ Index!Uids(UNION next.parts) \subseteq DOMAIN rows'
      BY <1>1, <1>2, <3>1, <3>3 DEF RunFits
    <3>8. \A c \in next.written :
            /\ c[1] \in DOMAIN chunks' /\ chunks'[c[1]].text = c[2]
            /\ c[1][1] \notin Index!Uids(UNION next.parts)
      <4> HIDE DEF next, written
      <4> QED BY <2>10, <3>1, <3>4, <3>5
    <3> HIDE DEF next
    <3> QED BY <3>1, <3>2, <3>6, <3>7, <3>8 DEF RunFits
  <2>12. ASSUME NEW v \in Writers, v # w PROVE runs'[v] = Index!NoRun \/ RunFits(runs[v])'
    <3>1. CASE runs[v] = Index!NoRun
      BY <2>1, <2>12, <3>1 DEF Index!NoRun
    <3>2. CASE RunFits(runs[v])
      <4> DEFINE s == runs[v]
      <4>1. runs'[v] = other(v) BY <2>1, <2>12, <3>2 DEF RunFits
      <4>2. /\ other(v).at = s.at /\ other(v).parts = s.parts /\ other(v).batch = s.batch
            /\ other(v).written = {c \in s.written : c[1][1] \notin Index!Uids(window)}
            /\ other(v).script = s.script /\ other(v).space = s.space
            /\ other(v) = [at |-> other(v).at, script |-> other(v).script,
                           batch |-> other(v).batch, parts |-> other(v).parts,
                           unchanged |-> other(v).unchanged, space |-> other(v).space,
                           written |-> other(v).written]
        <5>1. s = [at |-> s.at, script |-> s.script, batch |-> s.batch, parts |-> s.parts,
                   unchanged |-> s.unchanged, space |-> s.space, written |-> s.written]
          BY <3>2 DEF RunFits
        <5>2. other(v) = [at |-> s.at, script |-> s.script, batch |-> s.batch, parts |-> s.parts,
                          unchanged |-> s.unchanged, space |-> s.space,
                          written |-> {c \in s.written : c[1][1] \notin Index!Uids(window)}]
          <6> HIDE DEF window
          <6> QED BY <5>1, Narrowed
        <5> HIDE DEF window, other
        <5> QED BY <5>2
      <4> DEFINE o == other(v)
      <4> HIDE DEF other
      <4>3. \A c \in o.written :
              s.at = "chunks" =>
              /\ c[1] \in DOMAIN chunks' /\ chunks'[c[1]].text = c[2]
              /\ c[1][1] \notin Index!Uids(UNION o.parts)
        <5> SUFFICES ASSUME NEW c \in s.written, c[1][1] \notin Index!Uids(window), s.at = "chunks"
                     PROVE  /\ c[1] \in DOMAIN chunks' /\ chunks'[c[1]].text = c[2]
                            /\ c[1][1] \notin Index!Uids(UNION s.parts)
          BY <4>2
        <5> QED BY <2>9, <3>2 DEF RunFits
      <4> HIDE DEF window
      <4>4. s.at = "postings" => o.written = {}
        BY <3>2, <4>2 DEF RunFits
      <4> QED BY <1>1, <3>2, <4>1, <4>2, <4>3, <4>4 DEF RunFits
    <3> QED BY <3>1, <3>2 DEF IndexInv
  <2> QED
    <3>1. \A v \in Writers : runs'[v] = Index!NoRun \/ RunFits(runs[v])' BY <2>11, <2>12
    <3>2. DOMAIN runs' = Writers BY <2>1
    <3>3. profile' = r.space BY <2>1
    <3> QED BY <1>1, <2>5, <2>7, <2>8, <3>1, <3>2, <3>3 DEF IndexInv, AlwaysInUse
<1> QED BY <1>3, <1>4

LEMMA IndexGoesOn ==
  ASSUME IndexInv, [Index!IndexNext]_indexVars
  PROVE  IndexInv'
<1>1. ASSUME NEW w \in Writers, runs' = [runs EXCEPT ![w] = Index!NoRun],
             UNCHANGED <<rows, chunks, profile, model>>
      PROVE  IndexInv'
  BY <1>1, OneRunKeeps DEF IndexInv
<1>2. ASSUME UNCHANGED <<rows, chunks, profile, runs>>, model' \in Index!Spaces PROVE IndexInv'
  <2>1. \A v \in Writers : runs'[v] = Index!NoRun \/ RunFits(runs[v])'
    BY <1>2, RunStays DEF IndexInv
  <2> QED BY <1>2, <2>1 DEF IndexInv, AlwaysInUse
<1> QED
  <2>1. CASE Index!Reconfigure BY <1>2, <2>1 DEF Index!Reconfigure
  <2>2. CASE UNCHANGED indexVars BY <1>2, <2>2 DEF indexVars, IndexInv
  <2> QED
    BY <1>1, <2>1, <2>2, IngestKeeps, RechunkKeeps, PublishKeeps, WindowKeeps
       DEF Index!IndexNext, Index!Finish, Index!Die

LEMMA IndexHolds ==
  ASSUME IndexInv PROVE Index!OneSpace /\ Index!WindowsKeepEachOther
<1>1. Index!OneSpace
  BY CurrentIsTheirs DEF Index!OneSpace, Index!Active, AlwaysInUse
<1>2. ASSUME NEW w \in Writers, runs[w].at = "chunks", NEW c \in runs[w].written
      PROVE  c[1] \in DOMAIN chunks /\ chunks[c[1]].text = c[2]
  <2>1. RunFits(runs[w]) BY <1>2 DEF IndexInv, Index!NoRun
  <2> QED BY <1>2, <2>1 DEF RunFits
<1> QED BY <1>1, <1>2 DEF Index!WindowsKeepEachOther

-----------------------------------------------------------------------------
(* Postings on their way into the table: no text is lost, nothing is forgotten *)

OfSite(s) == {p \in Postings : SiteOf[p] = s}

\* A row of a file: a text, or images to read one from; a row of an import may have neither
IsCrawled(r) ==
    \/ r.need = "X" /\ r.text = "original" /\ r.images = ""
    \/ r.need = "O" /\ r.text = "" /\ r.images # ""
IsItem(p, r) ==
    /\ r.need \in {"O", "X"} /\ r.text \in {"", "original"}
    /\ r.images = "" => Intake!CameWithoutImages(p) \/ IsCrawled(r)
Crawled(s, f) == \A p \in DOMAIN f : SiteOf[p] = s /\ IsCrawled(f[p])
CrawlFits(s) ==
    crawl[s] # Intake!NoCrawl =>
      /\ DOMAIN crawl[s] = {"site", "rows", "known", "left", "scanned", "new"}
      /\ Crawled(s, crawl[s].rows) /\ crawl[s].left \in Seq(OfSite(s))

Columns ==
    {"need", "text", "images", "origin", "status", "attempts", "worker", "lease", "retry"}
AtRest == {"succeeded", "not_required", "pending", "dead"}
\* One that is to be read can be, is read, waits to be read again, or was given up
CanBeRead(p, row) ==
    \/ row.status = "pending" /\ row.attempts < MaxAttempts
    \/ row.status = "retry_wait" /\ row.retry # "none"
    \/ row.status = "processing" /\ row.lease # "none"
    \/ row.status = "dead" /\ row.attempts >= MaxAttempts
    \/ row.status = "dead" /\ row.attempts = 0 /\ Intake!CameWithoutImages(p)
\* A row that is whole is nobody's
RowFits(p, row) ==
    /\ DOMAIN row = Columns
    /\ row.attempts \in Nat
    /\ \/ row.need = "X" /\ row.text # "" /\ row.status \in AtRest
       \/ /\ row.need = "O" /\ row.origin = "none" /\ row.images = ""
          /\ row.status = "dead" /\ Intake!CameWithoutImages(p)
       \/ row.need = "O" /\ row.origin = "none" /\ row.images # "" /\ CanBeRead(p, row)

\* While a row is a worker's, it is as the worker has found it
Holding(w) ==
    reading[w] # Intake!Idle =>
      /\ reading[w].posting \in DOMAIN table
      /\ Intake!HoldsStill(w) => /\ reading[w].images = table[reading[w].posting].images
                                 /\ reading[w].attempt = table[reading[w].posting].attempts

IntakeInv ==
    /\ DOMAIN pages = Postings /\ \A p \in Postings : pages[p] \in Pages[p]
    /\ DOMAIN collected = Intake!Sites /\ DOMAIN crawl = Intake!Sites
    /\ DOMAIN reading = OcrWorkers
    /\ \A s \in Intake!Sites : Crawled(s, collected[s]) /\ CrawlFits(s)
    /\ \A p \in DOMAIN table : RowFits(p, table[p])
    /\ \A w \in OcrWorkers : Holding(w)

\* What may become of a row in a step that is not its worker's
Stays(row, next) ==
    /\ row.text # "" => next.text # ""
    /\ row.origin = "original" => next.origin = "original"
    /\ (next.text # row.text /\ next.text # "original") => next.text = next.images
Follows(p, row, next) ==
    /\ RowFits(p, next) /\ Stays(row, next)
    /\ next.status = "processing" =>
         /\ row.status = "processing" /\ next.worker = row.worker /\ next.images = row.images
         /\ next.attempts = row.attempts

LEMMA IntakeStarts == Intake!IntakeInit => IntakeInv
BY DEF Intake!IntakeInit, IntakeInv, Intake!NoCrawl, Intake!Idle, Crawled, CrawlFits, Holding

\* The steps of the crawlers leave the table
LEMMA OneCrawlKeeps ==
  ASSUME IntakeInv, NEW s \in Intake!Sites, NEW tour, NEW f,
         crawl' = [crawl EXCEPT ![s] = tour], DOMAIN collected' = DOMAIN collected,
         \A t \in DOMAIN collected : collected'[t] = IF t = s THEN f ELSE collected[t],
         UNCHANGED <<pages, table, reading>>,
         Crawled(s, f),
         tour # Intake!NoCrawl =>
           /\ DOMAIN tour = {"site", "rows", "known", "left", "scanned", "new"}
           /\ Crawled(s, tour.rows) /\ tour.left \in Seq(OfSite(s))
  PROVE  IntakeInv' /\ Intake!TextsAreKept
<1>1. ASSUME NEW t \in Intake!Sites PROVE Crawled(t, collected'[t]) /\ CrawlFits(t)'
  BY <1>1 DEF IntakeInv, CrawlFits
<1>2. \A w \in OcrWorkers : Holding(w)'
  BY DEF IntakeInv, Holding, Intake!HoldsStill
<1>3. Intake!TextsAreKept
  BY DEF Intake!TextsAreKept
<1> QED BY <1>1, <1>2, <1>3 DEF IntakeInv, Crawled

LEMMA CrawlKeeps ==
  ASSUME IntakeInv, NEW s \in Intake!Sites,
         \/ \E fresh \in BOOLEAN : \E order \in Orders[s] : Intake!StartCrawl(s, fresh, order)
         \/ Intake!VisitNext(s) \/ Intake!EndCrawl(s) \/ Intake!CrawlDies(s)
  PROVE  IntakeInv' /\ Intake!TextsAreKept
<1>1. Crawled(s, collected[s]) /\ CrawlFits(s)
  BY DEF IntakeInv
<1>2. ASSUME NEW fresh \in BOOLEAN, NEW order \in Orders[s], Intake!StartCrawl(s, fresh, order)
      PROVE  IntakeInv' /\ Intake!TextsAreKept
  <2> DEFINE tour == Intake!Begun(s, collected[s], {}, fresh, order)
  <2>1. order \in Seq(OfSite(s))
    <3>1. PICK p \in Postings : s = SiteOf[p] BY DEF Intake!Sites
    <3>2. order \in Seq({q \in Postings : SiteOf[q] = SiteOf[p]}) BY <3>1, IntakeFits
    <3> QED BY <3>1, <3>2 DEF OfSite
  <2>2. /\ DOMAIN tour = {"site", "rows", "known", "left", "scanned", "new"}
        /\ Crawled(s, tour.rows) /\ tour.left \in Seq(OfSite(s))
    <3>1. DOMAIN <<>> = {} OBVIOUS
    <3>2. tour.rows = IF fresh THEN <<>> ELSE collected[s] BY DEF Intake!Begun
    <3>3. tour.left = order BY DEF Intake!Begun
    <3>4. DOMAIN tour = {"site", "rows", "known", "left", "scanned", "new"} BY DEF Intake!Begun
    <3> HIDE DEF tour
    <3>5. Crawled(s, tour.rows) BY <1>1, <3>1, <3>2 DEF Crawled
    <3> QED BY <2>1, <3>3, <3>4, <3>5
  <2>3. crawl' = [crawl EXCEPT ![s] = tour] /\ UNCHANGED <<pages, collected, table, reading>>
    BY <1>2 DEF Intake!StartCrawl
  <2> HIDE DEF tour
  <2> QED BY <1>1, <2>2, <2>3, OneCrawlKeeps
<1>3. CASE Intake!VisitNext(s)
  <2> DEFINE tour == crawl[s]
             p == Head(tour.left)
             next == Intake!Visited(tour, pages[p])
  <2>1. /\ tour # Intake!NoCrawl /\ tour.left # <<>>
        /\ crawl' = [crawl EXCEPT ![s] = next] /\ UNCHANGED <<pages, table, reading>>
        /\ collected' = IF Intake!AtCheckpoint(tour, next) THEN [collected EXCEPT ![s] = next.rows]
                        ELSE collected
    BY <1>3 DEF Intake!VisitNext, Intake!Through
  <2>2. /\ DOMAIN tour = {"site", "rows", "known", "left", "scanned", "new"}
        /\ Crawled(s, tour.rows) /\ tour.left \in Seq(OfSite(s))
    BY <1>1, <2>1 DEF CrawlFits
  <2>3. p \in OfSite(s) /\ Tail(tour.left) \in Seq(OfSite(s))
    BY <2>1, <2>2
  <2>4. pages[p].text \in {"", "original"}
    BY <2>3, IntakeFits DEF IntakeInv, OfSite
  <2> DEFINE item == Intake!Classified(pages[p])
             more == [q \in DOMAIN tour.rows \cup {p} |-> IF q = p THEN item ELSE tour.rows[q]]
  <2>5. item.need \in {"X", "O"} => IsCrawled(item)
    BY <2>4 DEF Intake!Classified, Intake!Nothing, IsCrawled
  <2>6. /\ DOMAIN next = {"site", "rows", "known", "left", "scanned", "new"}
        /\ next.left = Tail(tour.left)
        /\ next.rows = tour.rows \/ (item.need \in {"X", "O"} /\ next.rows = more)
    <3> HIDE DEF item
    <3> QED BY <2>2 DEF Intake!Visited, item
  <2>7. Crawled(s, next.rows)
    <3>1. CASE next.rows = tour.rows BY <2>2, <3>1
    <3>2. CASE item.need \in {"X", "O"} /\ next.rows = more
      <4> HIDE DEF item, next
      <4> QED BY <2>2, <2>3, <2>5, <3>2 DEF Crawled, OfSite
    <3> QED BY <2>6, <3>1, <3>2
  <2> HIDE DEF next
  <2>8. CASE Intake!AtCheckpoint(tour, next)
    BY <2>1, <2>3, <2>6, <2>7, <2>8, OneCrawlKeeps
  <2>9. CASE ~Intake!AtCheckpoint(tour, next)
    BY <1>1, <2>1, <2>3, <2>6, <2>7, <2>9, OneCrawlKeeps
  <2> QED BY <2>8, <2>9
<1>4. CASE Intake!EndCrawl(s)
  <2>1. /\ crawl[s] # Intake!NoCrawl /\ crawl' = [crawl EXCEPT ![s] = Intake!NoCrawl]
        /\ collected' = [collected EXCEPT ![s] = crawl[s].rows] /\ UNCHANGED <<pages, table, reading>>
    BY <1>4 DEF Intake!EndCrawl
  <2>2. Crawled(s, crawl[s].rows) BY <1>1, <2>1 DEF CrawlFits
  <2> QED BY <2>1, <2>2, OneCrawlKeeps
<1>5. CASE Intake!CrawlDies(s)
  BY <1>1, <1>5, OneCrawlKeeps DEF Intake!CrawlDies
<1> QED BY <1>2, <1>3, <1>4, <1>5

-----------------------------------------------------------------------------
(* The statements that write the table *)

LEMMA ThereAreAttempts ==
  /\ MaxAttempts \in Nat /\ 0 < MaxAttempts
  /\ \A n : n = 0 => n \in Nat /\ n < MaxAttempts
<1>1. MaxAttempts \in Nat \ {0} BY IntakeFits
<1> QED BY <1>1

\* A row as it is inserted: what is not whole is to be read, from images it has or will have
LEMMA InsertedFits ==
  ASSUME NEW p, NEW r, IsItem(p, r)
  PROVE  LET new == Intake!Inserted(r)
         IN  /\ RowFits(p, new) /\ new.status \in AtRest
             /\ new.text = r.text /\ new.images = r.images /\ new.attempts = 0
             /\ IsCrawled(r) => new.need = r.need
             /\ new.need = "X" => new.text = "original" /\ new.status \in {"succeeded", "not_required"}
             /\ IsCrawled(r) /\ new.need = "X" =>
                  new.origin = "original" /\ new.status = "not_required"
<1> DEFINE new == Intake!Inserted(r)
<1>1. /\ DOMAIN new = Columns /\ new.text = r.text /\ new.images = r.images /\ new.attempts = 0
      /\ new.need \in {"X", "O"} /\ (new.need = "X" <=> r.need = "X" /\ r.text # "")
      /\ new.need = "O" => new.origin = "none"
      /\ new.need = "X" => new.origin = IF r.images # "" THEN "ocr" ELSE "original"
      /\ new.status = Intake!StatusOf(new.need, new.images, new.origin)
  BY DEF Intake!Inserted, Columns
<1> HIDE DEF new
<1>2. new.attempts \in Nat /\ new.attempts < MaxAttempts
  BY <1>1, ThereAreAttempts
<1>3. CASE new.need = "X"
  <2>1. new.text = "original" /\ new.status \in {"succeeded", "not_required"}
    BY <1>1, <1>3 DEF IsItem, Intake!StatusOf
  <2>2. new.text # "" BY <1>1, <1>3
  <2>3. IsCrawled(r) => r.need = "X" /\ r.images = "" BY <1>1, <1>3 DEF IsCrawled
  <2>4. IsCrawled(r) => new.origin = "original" /\ new.status = "not_required"
    BY <1>1, <1>3, <2>3 DEF Intake!StatusOf
  <2>5. RowFits(p, new) BY <1>1, <1>2, <1>3, <2>1, <2>2 DEF RowFits, AtRest
  <2>6. new.status \in AtRest BY <2>1 DEF AtRest
  <2> QED BY <1>1, <1>3, <2>1, <2>3, <2>4, <2>5, <2>6 DEF new
<1>4. CASE new.need = "O"
  <2>1. IsCrawled(r) => r.need = "O" /\ r.images # "" BY <1>1, <1>4 DEF IsCrawled
  <2>2. new.status = IF new.images # "" THEN "pending" ELSE "dead"
    BY <1>1, <1>4 DEF Intake!StatusOf
  <2>3. new.images = "" => Intake!CameWithoutImages(p)
    BY <1>1, <2>1 DEF IsItem
  <2>4. RowFits(p, new) BY <1>1, <1>2, <1>4, <2>2, <2>3 DEF RowFits, CanBeRead
  <2>5. new.status \in AtRest BY <2>2 DEF AtRest
  <2>6. new.need # "X" BY <1>4
  <2> QED BY <1>1, <1>4, <2>1, <2>4, <2>5, <2>6 DEF new
<1> QED BY <1>1, <1>3, <1>4

\* The trigger takes a row that is whole out of the queue, and touches no other
LEMMA NormalizedFits ==
  ASSUME NEW p, NEW row, NEW next, DOMAIN next = Columns, next.attempts \in Nat,
         next.need = "X", next.text # "", row.need = "O" \/ next.status \in AtRest,
         next.status \in AtRest \/ next.status = row.status
  PROVE  LET then == Intake!Normalized(row, next)
         IN  /\ RowFits(p, then) /\ then.status \in AtRest /\ then.text = next.text
             /\ then.origin = next.origin /\ then.images = next.images
<1> DEFINE then == Intake!Normalized(row, next)
<1>1. CASE next.need # row.need /\ next.status = row.status
  <2>1. /\ DOMAIN then = Columns /\ then.attempts = next.attempts /\ then.need = next.need
        /\ then.text = next.text /\ then.origin = next.origin /\ then.images = next.images
        /\ then.status = Intake!StatusOf(next.need, next.images, next.origin)
    BY <1>1 DEF Intake!Normalized, Intake!Free, Columns
  <2>2. then.status \in AtRest BY <2>1 DEF Intake!StatusOf, AtRest
  <2> HIDE DEF then
  <2>3. RowFits(p, then) BY <2>1, <2>2 DEF RowFits
  <2> QED BY <2>1, <2>2, <2>3 DEF then
<1>2. CASE ~(next.need # row.need /\ next.status = row.status)
  <2>1. then = next BY <1>2 DEF Intake!Normalized
  <2>2. next.status \in AtRest BY <1>2
  <2>3. RowFits(p, next) BY <2>2 DEF RowFits
  <2> QED BY <2>1, <2>2, <2>3
<1> QED BY <1>1, <1>2

LEMMA UpsertedFollows ==
  ASSUME NEW p, NEW row, NEW r, RowFits(p, row), IsItem(p, r), IsCrawled(r)
  PROVE  Follows(p, row, Intake!Normalized(row, Intake!Upserted(row, Intake!Inserted(r))))
<1> DEFINE new == Intake!Inserted(r)
           next == Intake!Upserted(row, new)
           then == Intake!Normalized(row, next)
<1>1. /\ RowFits(p, new) /\ new.status \in AtRest
      /\ new.need = "X" => new.text = "original" /\ new.origin = "original" /\ new.status = "not_required"
  BY InsertedFits
<1> HIDE DEF new
<1>2. CASE new.need = "X"
  <2>1. /\ DOMAIN next = DOMAIN row
        /\ next.need = "X" /\ next.text = new.text /\ next.origin = new.origin
        /\ next.status = new.status /\ next.attempts = row.attempts
    BY <1>2 DEF RowFits, Columns, Intake!Upserted, Intake!Free
  <2>2. /\ next.status \in AtRest /\ next.text = "original" /\ next.text # ""
        /\ next.origin = "original" /\ DOMAIN next = Columns /\ next.attempts \in Nat
    BY <1>1, <1>2, <2>1 DEF RowFits
  <2> HIDE DEF next
  <2>3. /\ RowFits(p, then) /\ then.status \in AtRest /\ then.text = next.text
        /\ then.origin = next.origin
    BY <2>1, <2>2, NormalizedFits
  <2> HIDE DEF then
  <2>4. Stays(row, then) BY <2>2, <2>3 DEF Stays
  <2>5. then.status # "processing" BY <2>3 DEF AtRest
  <2>6. Follows(p, row, then) BY <2>3, <2>4, <2>5 DEF Follows
  <2> QED BY <2>6 DEF then, next, new
<1>3. CASE new.need # "X"
  <2> DEFINE again == row.need = "O" /\ new.images # "" /\ new.images # row.images
  <2>1. /\ DOMAIN next = DOMAIN row
        /\ next.need = row.need /\ next.text = row.text /\ next.origin = row.origin
        /\ next.images = IF new.images # "" THEN new.images ELSE row.images
        /\ next.lease = row.lease /\ next.worker = row.worker
        /\ next.status = IF again THEN "pending" ELSE row.status
        /\ next.attempts = IF again THEN 0 ELSE row.attempts
        /\ next.retry = IF again THEN "none" ELSE row.retry
    BY <1>3 DEF RowFits, Columns, Intake!Upserted
  <2>7. then = next BY <2>1 DEF Intake!Normalized
  <2> HIDE DEF next, then
  <2>2. Stays(row, next) BY <2>1 DEF Stays
  <2>3. ASSUME row.need = "X" PROVE Follows(p, row, next)
    <3>1. row.status \in AtRest /\ row.text # "" /\ next.status = row.status
          /\ next.attempts = row.attempts /\ next.need = "X" /\ next.text # ""
      BY <2>1, <2>3 DEF RowFits
    <3>2. RowFits(p, next) BY <2>1, <3>1 DEF RowFits
    <3>3. next.status # "processing" BY <3>1 DEF AtRest
    <3> QED BY <2>2, <3>2, <3>3 DEF Follows
  <2>4. ASSUME row.need = "O", again PROVE Follows(p, row, next)
    <3>4. next.attempts = 0 BY <2>1, <2>4
    <3>2. next.attempts \in Nat /\ next.attempts < MaxAttempts BY <3>4, ThereAreAttempts
    <3>3. /\ DOMAIN next = DOMAIN row /\ next.need = "O" /\ row.origin = "none"
          /\ next.origin = row.origin /\ next.images # "" /\ next.status = "pending"
      BY <2>1, <2>4 DEF RowFits
    <3>1. RowFits(p, next) BY <3>2, <3>3 DEF RowFits, CanBeRead
    <3> QED BY <2>2, <3>1, <3>3 DEF Follows
  <2>5. ASSUME row.need = "O", ~again PROVE Follows(p, row, next)
    <3>1. next.images = row.images BY <2>1, <2>5
    <3>2. /\ next.status = row.status /\ next.attempts = row.attempts /\ next.retry = row.retry
          /\ next.lease = row.lease /\ next.need = row.need /\ next.origin = row.origin
          /\ DOMAIN next = DOMAIN row /\ next.worker = row.worker
      BY <2>1, <2>5
    <3>3. RowFits(p, next) BY <2>5, <3>1, <3>2 DEF RowFits, CanBeRead
    <3> QED BY <2>2, <3>1, <3>2, <3>3 DEF Follows
  <2>6. row.need \in {"X", "O"} BY DEF RowFits
  <2>8. Follows(p, row, then) BY <2>3, <2>4, <2>5, <2>6, <2>7
  <2> QED BY <2>8 DEF then, next, new
<1> QED BY <1>2, <1>3

LEMMA LegacyFollows ==
  ASSUME NEW p, NEW row, NEW r, RowFits(p, row), IsItem(p, r)
  PROVE  Follows(p, row, Intake!Normalized(row, Intake!LegacyUpserted(row, Intake!Inserted(r))))
<1> DEFINE new == Intake!Inserted(r)
           next == Intake!LegacyUpserted(row, new)
           then == Intake!Normalized(row, next)
           filled == row.text = "" /\ new.text # ""
           newImages == row.images = "" /\ new.images # ""
<1>1. new.status \in AtRest /\ new.text \in {"", "original"}
  BY InsertedFits DEF IsItem
<1> HIDE DEF new
<1>2. /\ DOMAIN next = DOMAIN row
      /\ next.text = IF filled THEN new.text ELSE row.text
      /\ next.origin = IF filled THEN new.origin ELSE row.origin
      /\ next.images = IF newImages THEN new.images ELSE row.images
      /\ next.need = IF row.text # "" \/ new.text # "" THEN "X" ELSE "O"
      /\ next.status = IF filled THEN new.status ELSE row.status
      /\ next.attempts = IF newImages THEN 0 ELSE row.attempts
      /\ next.retry = IF new.text # "" \/ newImages THEN "none" ELSE row.retry
      /\ next.lease = IF new.text # "" THEN "none" ELSE row.lease
      /\ next.worker = IF new.text # "" THEN "none" ELSE row.worker
  BY DEF RowFits, Columns, Intake!LegacyUpserted
<1>3. DOMAIN next = Columns /\ next.attempts \in Nat
  <2>1. row.attempts \in Nat /\ 0 \in Nat BY DEF RowFits
  <2>2. DOMAIN next = Columns BY <1>2 DEF RowFits
  <2> HIDE DEF next
  <2> QED BY <1>2, <2>1, <2>2
<1> HIDE DEF next
<1>4. CASE row.text # "" \/ new.text # ""
  <2>1. next.need = "X" /\ next.text # "" BY <1>2, <1>4
  <2>2. next.status \in AtRest \/ next.status = row.status BY <1>1, <1>2
  <2>3. row.need = "X" => row.text # "" /\ row.status \in AtRest BY DEF RowFits
  <2>4. row.need = "O" \/ next.status \in AtRest BY <1>1, <1>2, <2>3 DEF RowFits
  <2>5. /\ RowFits(p, then) /\ then.status \in AtRest /\ then.text = next.text
        /\ then.origin = next.origin
    BY <1>3, <2>1, <2>2, <2>4, NormalizedFits
  <2> HIDE DEF then
  <2>6. row.text = "" => row.origin # "original"
    BY <2>3 DEF RowFits
  <2>7. Stays(row, then)
    BY <1>1, <1>2, <2>1, <2>5, <2>6 DEF Stays
  <2>8. then.status # "processing" BY <2>5 DEF AtRest
  <2>9. Follows(p, row, then) BY <2>5, <2>7, <2>8 DEF Follows
  <2> QED BY <2>9 DEF then, next, new
<1>5. CASE row.text = "" /\ new.text = ""
  <2>1. row.need = "O" /\ row.origin = "none" BY <1>5 DEF RowFits
  <2>2. /\ next.need = row.need /\ next.text = row.text /\ next.origin = row.origin
        /\ next.status = row.status /\ next.lease = row.lease /\ next.worker = row.worker
    BY <1>2, <1>5, <2>1
  <2>3. then = next BY <2>2 DEF Intake!Normalized
  <2> HIDE DEF then
  <2>4. Stays(row, next) BY <2>2 DEF Stays
  <2>5. CASE newImages
    <3>1. row.status = "dead" /\ Intake!CameWithoutImages(p) BY <2>1, <2>5 DEF RowFits
    <3>2. next.attempts = 0 /\ next.images # "" BY <1>2, <2>5
    <3>3. CanBeRead(p, next) BY <2>2, <3>1, <3>2 DEF CanBeRead
    <3>4. RowFits(p, next) BY <1>3, <2>1, <2>2, <3>2, <3>3 DEF RowFits
    <3>5. next.status # "processing" BY <2>2, <3>1
    <3>6. Follows(p, row, then) BY <2>3, <2>4, <3>4, <3>5 DEF Follows
    <3> QED BY <3>6 DEF then, next, new
  <2>6. CASE ~newImages
    <3>1. next.images = row.images /\ next.attempts = row.attempts /\ next.retry = row.retry
      BY <1>2, <1>5, <2>6
    <3>2. RowFits(p, next) BY <1>3, <2>1, <2>2, <3>1 DEF RowFits, CanBeRead
    <3>3. Follows(p, row, then) BY <2>2, <2>3, <2>4, <3>1, <3>2 DEF Follows
    <3> QED BY <3>3 DEF then, next, new
  <2> QED BY <2>5, <2>6
<1> QED BY <1>4, <1>5

\* A statement that changes each row as is allowed, beside the readers
LEMMA TableKeeps ==
  ASSUME IntakeInv, UNCHANGED <<pages, collected, crawl, reading>>,
         DOMAIN table \subseteq DOMAIN table',
         \A p \in DOMAIN table : Follows(p, table[p], table'[p]),
         \A p \in DOMAIN table' \ DOMAIN table : RowFits(p, table'[p])
  PROVE  IntakeInv' /\ Intake!TextsAreKept
<1>1. \A p \in DOMAIN table' : RowFits(p, table'[p])
  BY DEF Follows
<1>2. ASSUME NEW w \in OcrWorkers PROVE Holding(w)'
  BY DEF IntakeInv, Holding, Intake!HoldsStill, Follows
<1>3. Intake!TextsAreKept
  BY DEF Intake!TextsAreKept, Follows, Stays
<1>4. \A s \in Intake!Sites : Crawled(s, collected'[s]) /\ CrawlFits(s)'
  BY DEF IntakeInv, CrawlFits
<1> QED BY <1>1, <1>2, <1>3, <1>4 DEF IntakeInv

LEMMA MergeKeeps ==
  ASSUME IntakeInv, NEW rs, NEW legacy \in BOOLEAN,
         table' = Intake!Merged(Intake!Chosen(rs), legacy),
         \A p \in DOMAIN rs : IsItem(p, rs[p]) /\ (legacy \/ IsCrawled(rs[p])),
         UNCHANGED <<pages, collected, crawl, reading>>
  PROVE  IntakeInv' /\ Intake!TextsAreKept
<1> DEFINE chosen == Intake!Chosen(rs)
<1>1. \A p \in DOMAIN chosen : IsItem(p, chosen[p]) /\ (legacy \/ IsCrawled(chosen[p]))
  BY DEF Intake!Chosen, Intake!Deduplicated
<1> HIDE DEF chosen
<1>2. /\ DOMAIN table' = DOMAIN table \cup DOMAIN chosen
      /\ \A p \in DOMAIN table' :
           table'[p] = IF p \notin DOMAIN chosen THEN table[p]
                       ELSE IF p \notin DOMAIN table THEN Intake!Inserted(chosen[p])
                       ELSE Intake!Normalized(table[p],
                              IF legacy THEN Intake!LegacyUpserted(table[p], Intake!Inserted(chosen[p]))
                              ELSE Intake!Upserted(table[p], Intake!Inserted(chosen[p])))
  BY DEF Intake!Merged, chosen
<1>3. ASSUME NEW p \in DOMAIN table PROVE Follows(p, table[p], table'[p])
  <2>1. RowFits(p, table[p]) BY DEF IntakeInv
  <2>2. CASE p \notin DOMAIN chosen
    BY <1>2, <2>1, <2>2 DEF Follows, Stays
  <2>3. CASE p \in DOMAIN chosen
    BY <1>1, <1>2, <2>1, <2>3, UpsertedFollows, LegacyFollows
  <2> QED BY <2>2, <2>3
<1>4. \A p \in DOMAIN table' \ DOMAIN table : RowFits(p, table'[p])
  BY <1>1, <1>2, InsertedFits
<1> QED BY <1>2, <1>3, <1>4, TableKeeps

LEMMA LoadKeeps ==
  ASSUME IntakeInv, Intake!Load
  PROVE  IntakeInv' /\ Intake!TextsAreKept
<1> DEFINE rs == [p \in UNION {DOMAIN collected[s] : s \in Intake!Sites} |-> collected[SiteOf[p]][p]]
<1>1. table' = Intake!Merged(Intake!Chosen(rs), FALSE) /\ UNCHANGED <<pages, collected, crawl, reading>>
  BY DEF Intake!Load
<1>2. ASSUME NEW p \in DOMAIN rs PROVE IsItem(p, rs[p]) /\ IsCrawled(rs[p])
  <2>1. PICK s \in Intake!Sites : p \in DOMAIN collected[s] OBVIOUS
  <2>2. SiteOf[p] = s /\ IsCrawled(collected[s][p])
    BY <2>1 DEF IntakeInv, Crawled
  <2>3. rs[p] = collected[s][p] BY <2>2
  <2> QED BY <2>2, <2>3 DEF IsItem, IsCrawled
<1> HIDE DEF rs
<1> QED BY <1>1, <1>2, MergeKeeps

LEMMA ImportKeeps ==
  ASSUME IntakeInv, NEW known \in Imports, Intake!ImportLegacy(known)
  PROVE  IntakeInv' /\ Intake!TextsAreKept
<1>1. \A p \in DOMAIN known : IsItem(p, known[p])
  BY IntakeFits DEF IsItem, Intake!CameWithoutImages
<1> QED BY <1>1, MergeKeeps DEF Intake!ImportLegacy

\* The passing of time, and what is given up
LEMMA RowsKeep ==
  ASSUME IntakeInv,
         \/ Intake!MarkExhausted
         \/ \E p \in Postings : Intake!LeaseRunsOut(p) \/ Intake!RetryComesDue(p)
  PROVE  IntakeInv' /\ Intake!TextsAreKept
<1>1. CASE Intake!MarkExhausted
  <2>1. /\ DOMAIN table' = DOMAIN table /\ UNCHANGED <<pages, collected, crawl, reading>>
        /\ \A p \in DOMAIN table :
             table'[p] = IF Intake!Exhausted(table[p])
                         THEN Intake!Free([table[p] EXCEPT !.status = "dead"]) ELSE table[p]
    BY <1>1 DEF Intake!MarkExhausted, Intake!GivenUp
  <2>2. ASSUME NEW p, NEW row, RowFits(p, row), Intake!Exhausted(row)
        PROVE  Follows(p, row, Intake!Free([row EXCEPT !.status = "dead"]))
    BY <2>2 DEF Intake!Exhausted, Intake!Free, Follows, Stays, RowFits, CanBeRead, Columns
  <2>3. ASSUME NEW p, NEW row, RowFits(p, row) PROVE Follows(p, row, row)
    BY <2>3 DEF Follows, Stays
  <2>4. \A p \in DOMAIN table : Follows(p, table[p], table'[p])
    BY <2>1, <2>2, <2>3 DEF IntakeInv
  <2> QED BY <2>1, <2>4, TableKeeps
<1>2. ASSUME NEW p \in Postings, Intake!LeaseRunsOut(p) \/ Intake!RetryComesDue(p)
      PROVE  IntakeInv' /\ Intake!TextsAreKept
  <2>1. ASSUME NEW q, NEW row, RowFits(q, row)
        PROVE  /\ row.lease = "held" => Follows(q, row, [row EXCEPT !.lease = "over"])
               /\ row.retry = "later" => Follows(q, row, [row EXCEPT !.retry = "due"])
               /\ Follows(q, row, row)
    BY <2>1 DEF Follows, Stays, RowFits, CanBeRead, Columns
  <2>2. PICK next :
          /\ p \in DOMAIN table /\ Follows(p, table[p], next)
          /\ table' = [table EXCEPT ![p] = next] /\ UNCHANGED <<pages, collected, crawl, reading>>
    <3>1. CASE Intake!LeaseRunsOut(p)
      BY <2>1, <3>1 DEF Intake!LeaseRunsOut, IntakeInv
    <3>2. CASE Intake!RetryComesDue(p)
      BY <2>1, <3>2 DEF Intake!RetryComesDue, IntakeInv
    <3> QED BY <1>2, <3>1, <3>2
  <2>3. \A q \in DOMAIN table : Follows(q, table[q], table'[q])
    BY <2>1, <2>2 DEF IntakeInv
  <2> QED BY <2>2, <2>3, TableKeeps
<1> QED BY <1>1, <1>2

-----------------------------------------------------------------------------
(* The workers *)

\* A step of one worker changes its own row, which is no other's
LEMMA WorkerKeeps ==
  ASSUME IntakeInv, NEW w \in OcrWorkers, NEW next, NEW task2, NEW p \in DOMAIN table,
         DOMAIN table' = DOMAIN table, \A q \in DOMAIN table : table'[q] = IF q = p THEN next ELSE table[q],
         reading' = [reading EXCEPT ![w] = task2],
         UNCHANGED <<pages, collected, crawl>>,
         RowFits(p, next), Stays(table[p], next),
         next = table[p] \/ next.status # "processing" \/ next.worker = w,
         task2 # Intake!Idle =>
           /\ task2.posting = p /\ task2.images = next.images /\ task2.attempt = next.attempts
  PROVE  IntakeInv' /\ Intake!TextsAreKept
<1>1. /\ DOMAIN table' = DOMAIN table
      /\ \A q \in DOMAIN table : table'[q] = IF q = p THEN next ELSE table[q]
      /\ \A v \in OcrWorkers : reading'[v] = IF v = w THEN task2 ELSE reading[v]
      /\ DOMAIN reading' = OcrWorkers
  BY DEF IntakeInv
<1>2. Holding(w)'
  BY <1>1 DEF Holding, Intake!HoldsStill
<1>3. ASSUME NEW v \in OcrWorkers, v # w PROVE Holding(v)'
  <2> SUFFICES ASSUME reading[v] # Intake!Idle, Intake!HoldsStill(v)'
               PROVE  /\ reading[v].images = table'[reading[v].posting].images
                      /\ reading[v].attempt = table'[reading[v].posting].attempts
    BY <1>1, <1>3 DEF Holding, IntakeInv
  <2>1. reading[v].posting \in DOMAIN table BY DEF Holding, IntakeInv
  <2>2. table'[reading[v].posting] = table[reading[v].posting]
    BY <1>1, <1>3, <2>1 DEF Intake!HoldsStill
  <2> QED BY <1>1, <1>3, <2>2 DEF Holding, IntakeInv, Intake!HoldsStill
<1>4. \A q \in DOMAIN table' : RowFits(q, table'[q])
  BY <1>1 DEF IntakeInv
<1>5. Intake!TextsAreKept
  BY <1>1 DEF Intake!TextsAreKept, Stays
<1>6. \A s \in Intake!Sites : Crawled(s, collected'[s]) /\ CrawlFits(s)'
  BY DEF IntakeInv, CrawlFits
<1> QED BY <1>1, <1>2, <1>3, <1>4, <1>5, <1>6 DEF IntakeInv

LEMMA ClaimKeeps ==
  ASSUME IntakeInv, NEW w \in OcrWorkers, NEW p \in Postings, Intake!Claim(w, p)
  PROVE  IntakeInv' /\ Intake!TextsAreKept
<1> DEFINE row == table[p]
           next == [row EXCEPT !.status = "processing", !.attempts = @ + 1, !.worker = w, !.lease = "held"]
           task2 == [at |-> "reading", posting |-> p, images |-> row.images, attempt |-> row.attempts + 1]
<1>1. p \in DOMAIN table /\ row.need = "O" /\ row.images # "" /\ UNCHANGED <<pages, collected, crawl>>
  BY DEF Intake!Claim, Intake!Claimable
<1>2. table' = [table EXCEPT ![p] = next]
  BY DEF Intake!Claim
<1>3. reading' = [reading EXCEPT ![w] = task2]
  BY DEF Intake!Claim
<1>4. RowFits(p, row) /\ row.images # "" BY <1>1 DEF IntakeInv
<1>5. /\ DOMAIN next = DOMAIN row /\ next.need = row.need /\ next.text = row.text
      /\ next.images = row.images /\ next.origin = row.origin /\ next.worker = w
      /\ next.status = "processing" /\ next.lease = "held" /\ next.attempts = row.attempts + 1
  BY <1>4 DEF RowFits, Columns
<1> HIDE DEF next
<1>6. RowFits(p, next)
  <2>3. row.attempts \in Nat BY <1>4 DEF RowFits
  <2>1. next.attempts \in Nat
    <3> HIDE DEF row
    <3> QED BY <1>5, <2>3
  <2>2. /\ DOMAIN next = DOMAIN row /\ next.need = "O" /\ next.text = row.text
        /\ next.images = row.images /\ next.origin = row.origin
        /\ next.status = "processing" /\ next.lease # "none"
    BY <1>1, <1>5
  <2> QED BY <1>1, <1>4, <2>1, <2>2 DEF RowFits, CanBeRead
<1>8. Stays(row, next) BY <1>5 DEF Stays
<1>7. /\ DOMAIN table' = DOMAIN table
      /\ \A q \in DOMAIN table : table'[q] = IF q = p THEN next ELSE table[q]
  BY <1>1, <1>2
<1> QED BY <1>1, <1>3, <1>5, <1>6, <1>7, <1>8, WorkerKeeps

LEMMA ReadingKeeps ==
  ASSUME IntakeInv, NEW w \in OcrWorkers,
         Intake!Succeed(w) \/ Intake!Fail(w) \/ Intake!WorkerDies(w)
  PROVE  IntakeInv' /\ Intake!TextsAreKept
<1> DEFINE p == reading[w].posting
           row == table[p]
<1>1. reading[w] # Intake!Idle /\ reading' = [reading EXCEPT ![w] = Intake!Idle]
      /\ UNCHANGED <<pages, collected, crawl>>
  BY DEF Intake!Succeed, Intake!Fail, Intake!WorkerDies
<1>2. p \in DOMAIN table /\ RowFits(p, row)
  BY <1>1 DEF IntakeInv, Holding
<1>3. CASE table' = table
  <2>1. Stays(row, row) BY DEF Stays
  <2> QED BY <1>1, <1>2, <1>3, <2>1, WorkerKeeps
<1>4. CASE Intake!Succeed(w) /\ Intake!HoldsStill(w)
  <2> DEFINE next == Intake!Free([row EXCEPT !.text = reading[w].images, !.origin = "ocr",
                                             !.need = "X", !.status = "succeeded"])
  <2>1. table' = [table EXCEPT ![p] = next] BY <1>4 DEF Intake!Succeed
  <2>2. row.status = "processing" /\ reading[w].images = row.images
    BY <1>1, <1>4 DEF Intake!HoldsStill, IntakeInv, Holding
  <2>3. RowFits(p, next) /\ Stays(row, next) /\ next.status # "processing"
    BY <1>2, <2>2 DEF RowFits, CanBeRead, AtRest, Columns, Stays, Intake!Free
  <2> HIDE DEF next
  <2> QED BY <1>1, <1>2, <2>1, <2>3, WorkerKeeps
<1>5. CASE Intake!Fail(w) /\ Intake!HoldsStill(w)
  <2> DEFINE dead == reading[w].attempt >= MaxAttempts
             next == [Intake!Free(row) EXCEPT !.status = IF dead THEN "dead" ELSE "retry_wait",
                                              !.retry = IF dead THEN "none" ELSE "later"]
  <2>1. table' = [table EXCEPT ![p] = next] BY <1>5 DEF Intake!Fail
  <2>2. row.status = "processing" /\ reading[w].attempt = row.attempts
    BY <1>1, <1>5 DEF Intake!HoldsStill, IntakeInv, Holding
  <2>3. RowFits(p, next) /\ Stays(row, next) /\ next.status # "processing"
    BY <1>2, <2>2 DEF RowFits, CanBeRead, AtRest, Columns, Stays, Intake!Free
  <2> HIDE DEF next
  <2> QED BY <1>1, <1>2, <2>1, <2>3, WorkerKeeps
<1> QED BY <1>3, <1>4, <1>5 DEF Intake!Succeed, Intake!Fail, Intake!WorkerDies

LEMMA NothingElseKeeps ==
  ASSUME IntakeInv, UNCHANGED <<collected, crawl, table, reading>>,
         DOMAIN pages' = Postings, \A p \in Postings : pages'[p] \in Pages[p]
  PROVE  IntakeInv' /\ Intake!TextsAreKept
<1>1. \A w \in OcrWorkers : Holding(w)'
  BY DEF IntakeInv, Holding, Intake!HoldsStill
<1>2. \A s \in Intake!Sites : Crawled(s, collected'[s]) /\ CrawlFits(s)'
  BY DEF IntakeInv, CrawlFits
<1>3. Intake!TextsAreKept BY DEF Intake!TextsAreKept
<1> QED BY <1>1, <1>2, <1>3 DEF IntakeInv

LEMMA IntakeGoesOn ==
  ASSUME IntakeInv, [Intake!IntakeNext]_intakeVars
  PROVE  IntakeInv' /\ Intake!TextsAreKept
<1>1. ASSUME NEW p \in Postings, Intake!PageChanges(p) PROVE IntakeInv' /\ Intake!TextsAreKept
  <2>1. UNCHANGED <<collected, crawl, table, reading>> BY <1>1 DEF Intake!PageChanges
  <2>2. DOMAIN pages' = Postings /\ \A q \in Postings : pages'[q] \in Pages[q]
    BY <1>1 DEF Intake!PageChanges, IntakeInv
  <2> QED BY <2>1, <2>2, NothingElseKeeps
<1>2. CASE UNCHANGED intakeVars
  BY <1>2, NothingElseKeeps DEF intakeVars, IntakeInv
<1> QED
  BY <1>1, <1>2, CrawlKeeps, LoadKeeps, ImportKeeps, RowsKeep, ClaimKeeps, ReadingKeeps
     DEF Intake!IntakeNext

LEMMA IntakeHolds == IntakeInv => Intake!UnreadCanBeRead
BY DEF IntakeInv, Intake!UnreadCanBeRead, RowFits, CanBeRead

-----------------------------------------------------------------------------
(* What is proved *)

\* The two sides of an assessment agree on the next question, one question is open
\* at a time, and a verified level was earned, for any number of requests, of
\* questions and of sessions and whatever scores a model gives; and nothing a user
\* hands in is forgotten, for any number of workers, pieces of evidence and retries
\* and whatever a model finds or judges (CompetencyAssessmentService,
\* CareerExtractionWorker, EvidenceVerificationWorker).
THEOREM VerdictsAreEarned == ServicesSpec => []EachVerdictIsEarned
<1>1. ServicesInit => PartsInv
  BY AssessmentStarts, SourcesBegin, ProofsBegin, CareerFits, SourcesP!CareerStarts, ProofsP!CareerStarts
     DEF ServicesInit, PartsInv
<1>2. PartsInv /\ [ServicesNext]_allVars => PartsInv'
  <2>1. ASSUME PartsInv, [ServicesNext]_allVars, part' = "assessment" PROVE AssessmentInv'
    <3>1. CASE part = "assessment" /\ Assessment!AssessmentNext
      BY <2>1, <3>1, AssessmentStep DEF PartsInv
    <3>2. CASE UNCHANGED <<part, assessmentVars>>
      BY <2>1, <3>2 DEF PartsInv, AssessmentInv, AssessmentType, assessmentVars
    <3>3. ServicesNext => part' = part /\ (part = "assessment" => Assessment!AssessmentNext)
      BY DEF ServicesNext
    <3>4. UNCHANGED allVars => UNCHANGED <<part, assessmentVars>>
      BY DEF allVars
    <3> QED BY <2>1, <3>1, <3>2, <3>3, <3>4
  <2>2. [ServicesNext]_allVars =>
          /\ part' = part
          /\ part = "sources" => Sources!EvidenceNext \/ UNCHANGED careerVars
          /\ part = "evidence" => Proofs!EvidenceNext \/ UNCHANGED careerVars
    BY DEF ServicesNext, allVars
  <2>3. ASSUME PartsInv, [ServicesNext]_allVars, part' = "sources" PROVE SourcesP!EvidenceInv'
    <3>1. SourcesP!EvidenceInv /\ [SourcesP!EvidenceNext]_SourcesP!evidenceVars
      BY <2>2, <2>3, SourcesStep DEF PartsInv, careerVars, SourcesP!evidenceVars
    <3> QED BY <3>1, CareerFits, SourcesP!CareerStays
  <2>4. ASSUME PartsInv, [ServicesNext]_allVars, part' = "evidence" PROVE ProofsP!EvidenceInv'
    <3>1. ProofsP!EvidenceInv /\ [ProofsP!EvidenceNext]_ProofsP!evidenceVars
      BY <2>2, <2>4, ProofsStep DEF PartsInv, careerVars, ProofsP!evidenceVars
    <3> QED BY <3>1, CareerFits, ProofsP!CareerStays
  <2> QED BY <2>1, <2>3, <2>4 DEF PartsInv
<1>3. PartsInv => EachVerdictIsEarned
  BY AssessmentHolds, SourcesHold, ProofsHold DEF PartsInv, EachVerdictIsEarned
<1> QED BY <1>1, <1>2, <1>3, PTL DEF ServicesSpec

\* However often a run dies, the model is changed and embeddings fail, and with any number
\* of runs at a time, whichever of the three scripts they are of: no window takes away what
\* another one has written, and what is compared with a query is of the one model the index
\* is recorded for, but for postings that were out of use before (store.py,
\* ingest_windows.py).
THEOREM IndexIsWhole ==
  ServicesSpec => [](part = "index" => Index!OneSpace /\ Index!WindowsKeepEachOther)
<1> DEFINE InPart == part = "index" => IndexInv
<1>1. ServicesInit => InPart
  BY IndexStarts DEF ServicesInit
<1>2. InPart /\ [ServicesNext]_allVars => InPart'
  <2>1. [ServicesNext]_allVars => part' = part /\ (part = "index" => [Index!IndexNext]_indexVars)
    BY DEF ServicesNext, allVars, indexVars
  <2> QED BY <2>1, IndexGoesOn
<1>3. InPart => (part = "index" => Index!OneSpace /\ Index!WindowsKeepEachOther)
  BY IndexHolds
<1> QED BY <1>1, <1>2, <1>3, PTL DEF ServicesSpec

\* However often crawlers and workers die, leases run out, pages change and files are
\* loaded again, with any number of sites, workers and attempts: a text that is there
\* stays, an original one is not replaced by one that was read, what a worker writes was
\* read from the images the row has; and a posting that has to be read can be, or was
\* tried as often as is allowed, or came from a legacy collection without images
\* (export_postgres.py, ocr_postgres.py, import_legacy_sqlite.py).
THEOREM PostingsAreKept ==
  ServicesSpec => /\ [](part = "intake" => Intake!UnreadCanBeRead)
                  /\ [][part = "intake" => Intake!TextsAreKept]_allVars
<1> DEFINE InPart == part = "intake" => IntakeInv
<1>1. ServicesInit => InPart
  BY IntakeStarts DEF ServicesInit
<1>2. [ServicesNext]_allVars => part' = part /\ (part = "intake" => [Intake!IntakeNext]_intakeVars)
  BY DEF ServicesNext, allVars, intakeVars
<1>3. InPart /\ [ServicesNext]_allVars => InPart' /\ [part = "intake" => Intake!TextsAreKept]_allVars
  BY <1>2, IntakeGoesOn
<1>4. InPart => (part = "intake" => Intake!UnreadCanBeRead)
  BY IntakeHolds
<1> QED BY <1>1, <1>3, <1>4, PTL DEF ServicesSpec
=============================================================================
