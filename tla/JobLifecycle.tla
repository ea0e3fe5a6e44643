---------------------------- MODULE JobLifecycle ----------------------------
(* What a job of a serverless endpoint may go through, whatever happens to the *)
(* workers, the gateway and its callers: it is queued, handed to a worker,     *)
(* returned to the queue at most once, and finished once and for all.          *)
CONSTANT Job

VARIABLES
    status,        \* status[j]
    returned       \* the jobs that went back to the queue

Unfinished == {"IN_QUEUE", "IN_PROGRESS"}
Terminal == {"COMPLETED", "FAILED", "CANCELLED", "TIMED_OUT"}

(* Jobs may be queued from the start.                                          *)
Init ==
    /\ status \in [Job -> {"none", "IN_QUEUE"}]
    /\ returned = {}

Stays(j) == status'[j] = status[j] /\ (j \in returned' <=> j \in returned)
Kept(j) == j \in returned' <=> j \in returned

Submitted(j) == status[j] = "none" /\ status'[j] = "IN_QUEUE" /\ Kept(j)
Handed(j) == status[j] = "IN_QUEUE" /\ status'[j] = "IN_PROGRESS" /\ Kept(j)
Finished(j) == status[j] \in Unfinished /\ status'[j] \in Terminal /\ Kept(j)
Requeued(j) ==
    /\ status[j] = "IN_PROGRESS" /\ j \notin returned
    /\ status'[j] = "IN_QUEUE" /\ j \in returned'

(* A step of the system may move several jobs: a batch is taken, a queue is    *)
(* purged, a worker dies.                                                      *)
Next == \A j \in Job : Stays(j) \/ Submitted(j) \/ Handed(j) \/ Finished(j) \/ Requeued(j)

Spec == Init /\ [][Next]_<<status, returned>>
=============================================================================
