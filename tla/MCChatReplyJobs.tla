--------------------------- MODULE MCChatReplyJobs ---------------------------
(* Small instances of ChatReplyJobs.                                        *)
EXTENDS ChatReplyJobs, TLC

CONSTANTS w1, w2

OneConversation == [j \in Jobs |-> 1]
WorkerSymmetry == Permutations(Workers)
=============================================================================
