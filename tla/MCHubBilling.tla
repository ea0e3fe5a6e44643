---------------------------- MODULE MCHubBilling ----------------------------
(* A small hub: a size that takes GPUs of the one pool two at a time, so that  *)
(* both limits leave an odd one over, and a free size without a GPU.           *)
EXTENDS HubBilling, TLC

CONSTANTS alice, s1, s2, w1, w2, gpu, cpu, gpus

AliceOwnsAll == [k \in Server |-> alice]
MCPrice == gpu :> 3 @@ cpu :> 0
MCSizePool == gpu :> gpus @@ cpu :> NoPool
MCSizeGpus == gpu :> 2 @@ cpu :> 0
MCCap == gpus :> 5
TwoSessions == 1..2
ThreeSessions == 1..3
Interchangeable == Permutations({s1, s2}) \cup Permutations({w1, w2})
=============================================================================
