----------------------------- MODULE MCRuntime -----------------------------
(* Two workers for two jobs: the second job is there when a poll of the worker *)
(* that runs the first one is answered in vain.                               *)
EXTENDS Runtime, FiniteSets, TLC

CONSTANTS w1, w2

TwoJobs == 1..2

\* Bound: how many of these meet in one behaviour.
Unlucky == {w \in Worker : worker[w] \in {"stopping", "gone"} \/ run[w].at = "ended"}
Cut == {j \in Job : job[j].status \in {"CANCELLED", "TIMED_OUT"}}
Reading == {j \in Job : read[j] # 0}
FewEvents ==
  faults + Cardinality(Unlucky) + Cardinality(Cut) + Cardinality(Reading) <= 3

Alike == Permutations(Worker)
=============================================================================
