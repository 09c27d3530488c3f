--------------------------- MODULE MCAnalysisJobs ---------------------------
(* Small instances of AnalysisJobs.                                        *)
EXTENDS AnalysisJobs, TLC

CONSTANTS w1, w2, alice, bob

OneUser == [j \in Jobs |-> alice]
NoQuestions == [j \in Jobs |-> 0]
OneQuestion == [j \in Jobs |-> 1]
WorkerSymmetry == Permutations(Workers)
=============================================================================
