---------------------------- MODULE JobLifecycle ----------------------------
(***************************************************************************)
(* What the users of the analysis queue are promised of their jobs: the    *)
(* documented life cycle QUEUED, RUNNING, WAITING_FOR_INPUT, and the ends  *)
(* of a request.  Each request (the submission, a retry, an answer) is     *)
(* granted a number of attempts, and an execution uses up one.  One step   *)
(* may move several jobs, each along its own life.                         *)
(***************************************************************************)
EXTENDS Integers

CONSTANTS Jobs, Attempts

VARIABLES status, left

vars == <<status, left>>

Init == /\ status = [j \in Jobs |-> "NONE"]
        /\ left = [j \in Jobs |-> Attempts]

Moves(j, from, to, remaining) ==
    /\ status[j] \in from
    /\ status'[j] \in to
    /\ left'[j] = remaining

Submit(j) == Moves(j, {"NONE"}, {"QUEUED"}, Attempts)

Start(j) == left[j] > 0 /\ Moves(j, {"QUEUED"}, {"RUNNING"}, left[j] - 1)

\* The worker was lost; the job goes back to the queue if it may try again.
Interrupted(j) == left[j] > 0 /\ Moves(j, {"RUNNING"}, {"QUEUED"}, left[j])

End(j) == Moves(j, {"RUNNING"}, {"WAITING_FOR_INPUT", "SUCCEEDED", "FAILED"}, Attempts)

Cancel(j) == Moves(j, {"QUEUED", "RUNNING", "WAITING_FOR_INPUT"}, {"CANCELLED"}, Attempts)

Resume(j) == Moves(j, {"WAITING_FOR_INPUT", "FAILED", "CANCELLED"}, {"QUEUED"}, Attempts)

Rests(j) == status'[j] = status[j] /\ left'[j] = left[j]

Next == \A j \in Jobs : \/ Submit(j) \/ Start(j) \/ Interrupted(j)
                        \/ End(j) \/ Cancel(j) \/ Resume(j) \/ Rests(j)

Spec == Init /\ [][Next]_vars
=============================================================================
