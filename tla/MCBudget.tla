------------------------------ MODULE MCBudget ------------------------------
(* One user, whose two servers run one after the other.                       *)
EXTENDS Budget, TLC

CONSTANTS alice, p1, p2

\* Bounds: how many of these rare things meet in one behaviour, and that a pass
\* of the meter and a look of the watcher, which share nothing, do not overlap.
Outages == {m \in 0..now - 1 : m \notin heartbeats /\ (m = 0 \/ m - 1 \in heartbeats)}
UsedPods == {p \in Pod : pod[p].at # "none"}
CpuPods == {p \in UsedPods : ~pod[p].gpu}
FewEvents ==
  /\ moves + faults + holder[alice] + Cardinality(Outages) + Cardinality(UsedPods)
       + Cardinality(CpuPods) <= 4
  /\ pass = Nothing \/ look = Nothing

Alike == Permutations(Pod)
=============================================================================
