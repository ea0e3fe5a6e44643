------------------------------ MODULE MCGateway ------------------------------
EXTENDS Gateway, TLC
CONSTANTS e1, alice, w1, w2

TheOwner == [e \in Endpoint |-> alice]
UpToOne == [e \in Endpoint |-> 1]
UpToTwo == [e \in Endpoint |-> 2]
OneJob == 1..1
TwoJobs == 1..2

\* Bound: with two jobs nothing else happens to go wrong, and a pod that ends is
\* removed at once; with a fault, a change of credit or an ended pod that stays
\* there is one job.
TwoJobsOrAFault ==
    \/ Cardinality({j \in Job : job[j] # Nothing}) <= 1
    \/ faults = {} /\ broke.moves = 0 /\ \A w \in Worker : pod[w] # "ended"
Alike == Permutations(Worker)
=============================================================================
