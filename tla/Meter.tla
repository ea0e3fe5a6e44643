------------------------------- MODULE Meter -------------------------------
(* The usage meter (src/sites/cpt-gpu170/meter/meter.py): the sampler, which   *)
(* counts the minutes of running pods, fills in those it missed and shares its *)
(* SQLite file with the requests that set and ask about budgets. Time is in    *)
(* minutes, as in the table of samples.                                        *)
EXTENDS Integers, FiniteSets

CONSTANTS
  User,
  Pod,           \* pod uids
  Everyone,      \* the user '*' of a budget
  Nothing,       \* no row, no user, no pass
  Unlimited,     \* a budget of NULL
  DefaultBudget, \* default_gpu_budget_hours
  Hours,         \* budgets that are set, in minutes of one GPU
  MonthLength,   \* minutes of a month
  BackfillMax,   \* BACKFILL_MAX_MINUTES
  MaxMinute,     \* bound: the clock
  MaxMoves,      \* bound: what administrators do
  MaxFaults      \* bound: crashes and failed writes

ASSUME MeterAssumption ==
  /\ {MonthLength, BackfillMax} \subseteq Nat \ {0}
  /\ {MaxMinute, MaxMoves, MaxFaults} \subseteq Nat /\ Hours \subseteq Nat
  /\ DefaultBudget \in Nat \cup {Unlimited}
  /\ Everyone \notin User /\ Nothing \notin User
  /\ Unlimited \notin Nat /\ Nothing \notin Nat \cup {Unlimited}

VARIABLES
  now,         \* the minute
  pod,         \* what Kubernetes knows of each pod
  up,          \* whether the meter runs
  pass,        \* the sampler's pass: the minute it began and the pods it listed
  heartbeats,  \* minutes in which a pass was recorded
  sampled,     \* samples of a pod with backfilled = 0
  filled,      \* and with backfilled = 1
  budget,      \* the newest row of each user and of '*'
  credit,      \* adjustments of GPU minutes, per user and month
  moves, faults

tables == <<heartbeats, sampled, filled>>
limits == <<budget, credit>>
meterVars == <<now, pod, up, pass, tables, limits, moves, faults>>

\* A pod is pending from the minute Kubernetes gave it a node (startTime).
NoPod == [at |-> "none", user |-> Nothing, gpu |-> FALSE, started |-> 0, ran |-> 0, ended |-> 0]
PodRecord == [at : {"none", "pending", "running", "gone"}, user : User \cup {Nothing},
              gpu : BOOLEAN, started : Nat, ran : Nat, ended : Nat]
Months == 0 .. MaxMinute \div MonthLength
Pass == [minute : Nat, pods : SUBSET Pod]

MeterInit ==
  /\ now = 0 /\ pod = [p \in Pod |-> NoPod]
  /\ up = TRUE /\ pass = Nothing
  /\ heartbeats = {} /\ sampled = [p \in Pod |-> {}] /\ filled = [p \in Pod |-> {}]
  /\ budget = [u \in User \cup {Everyone} |-> Nothing]
  /\ credit = [u \in User |-> [mo \in Months |-> 0]]
  /\ moves = 0 /\ faults = 0

MeterTypeOK ==
  /\ now \in Nat /\ pod \in [Pod -> PodRecord] /\ up \in BOOLEAN
  /\ pass = Nothing \/ pass \in Pass
  /\ heartbeats \subseteq Nat
  /\ sampled \in [Pod -> SUBSET Nat] /\ filled \in [Pod -> SUBSET Nat]
  /\ budget \in [User \cup {Everyone} -> Nat \cup {Unlimited, Nothing}]
  /\ credit \in [User -> [Months -> Int]]
  /\ moves \in Nat /\ faults \in Nat

Moves == moves < MaxMoves /\ moves' = moves + 1
Fails == faults < MaxFaults /\ faults' = faults + 1

-----------------------------------------------------------------------------
(* Kubernetes.                                                               *)

Tick ==
  /\ now < MaxMinute /\ now' = now + 1
  /\ UNCHANGED <<pod, up, pass, tables, limits, moves, faults>>

PodStarts(p, u, gpu) ==
  /\ pod[p].at = "none"
  /\ pod' = [pod EXCEPT ![p] = [NoPod EXCEPT !.at = "pending", !.user = u, !.gpu = gpu,
                                             !.started = now]]
PodRuns(p) ==
  /\ pod[p].at = "pending"
  /\ pod' = [pod EXCEPT ![p].at = "running", ![p].ran = now]
PodEnds(p) ==
  /\ pod[p].at \in {"pending", "running"}
  /\ pod' = [pod EXCEPT ![p].at = "gone", ![p].ended = now]

-----------------------------------------------------------------------------
(* The sampler.                                                              *)

\* kube.list_pods and parse_pods: a pending pod is not counted.
Lists ==
  /\ up /\ pass = Nothing
  /\ pass' = [minute |-> now, pods |-> {p \in Pod : pod[p].at = "running"}]
  /\ UNCHANGED <<now, pod, up, tables, limits, moves, faults>>

\* _backfill: minutes before m with no heartbeat, the pod's own first one excluded.
(* Fault for FilledIsProvable: the minute in which the pod was started is filled. *)
MissedFromStart(p, m) ==
  {k \in pod[p].started .. m - 1 : k >= m - BackfillMax /\ k \notin heartbeats}
Missed(p, m) ==
  {k \in pod[p].started + 1 .. m - 1 : k >= m - BackfillMax /\ k \notin heartbeats}

(* Fault for NothingMissed: one missed minute is not worth a look. *)
GapBeforeTwo(m) == \A h \in heartbeats : h < m - 2
GapBefore(m) == \A h \in heartbeats : h < m - 1

\* record: one transaction.
Records ==
  LET m == pass.minute
  IN /\ pass # Nothing
     /\ filled' = [p \in Pod |->
          filled[p] \cup IF p \in pass.pods /\ GapBefore(m) THEN Missed(p, m) \ sampled[p]
                         ELSE {}]
     /\ sampled' = [p \in Pod |->
          sampled[p] \cup IF p \in pass.pods /\ m \notin filled[p] THEN {m} ELSE {}]
     /\ heartbeats' = heartbeats \cup {m}
     /\ pass' = Nothing
     /\ UNCHANGED <<now, pod, up, limits, moves, faults>>

\* The write fails and is rolled back: the minute is not recorded.
RecordFails ==
  /\ pass # Nothing /\ Fails /\ pass' = Nothing
  /\ UNCHANGED <<now, pod, up, tables, limits, moves>>

MeterStops ==
  /\ up /\ Fails /\ up' = FALSE /\ pass' = Nothing
  /\ UNCHANGED <<now, pod, tables, limits, moves>>

MeterStarts ==
  /\ ~up /\ up' = TRUE
  /\ UNCHANGED <<now, pod, pass, tables, limits, moves, faults>>

-----------------------------------------------------------------------------
(* Budgets.                                                                  *)

SetBudget(u, b) ==
  /\ up /\ budget' = [budget EXCEPT ![u] = b]
  /\ UNCHANGED <<now, pod, up, pass, tables, credit, faults>>

AddAdjustment(u, mo, minutes) ==
  /\ up /\ minutes # 0 /\ credit' = [credit EXCEPT ![u][mo] = @ + minutes]
  /\ UNCHANGED <<now, pod, up, pass, tables, budget, faults>>

BudgetOf(u) ==
  IF budget[u] # Nothing THEN budget[u]
  ELSE IF budget[Everyone] # Nothing THEN budget[Everyone]
  ELSE DefaultBudget

Month(m) == m \div MonthLength
MonthMinutes(mo) == mo * MonthLength .. (mo + 1) * MonthLength - 1

\* gpu_used_this_month
GpuUsed(u) ==
  LET minutes(p) == (sampled[p] \cup filled[p]) \cap MonthMinutes(Month(now))
  IN Cardinality(UNION {{p} \X minutes(p) : p \in {q \in Pod : pod[q].gpu /\ pod[q].user = u}})
       + credit[u][Month(now)]

\* /api/check
Allowed(u) == BudgetOf(u) # Unlimited => GpuUsed(u) < BudgetOf(u)

-----------------------------------------------------------------------------
\* A minute is filled in only if the meter was not looking in it and the pod held
\* its resources from the first second of it to the last (_backfill).
FilledIsProvable ==
  \A p \in Pod : \A m \in filled[p] :
    m \notin heartbeats /\ pod[p].started < m /\ (pod[p].at = "gone" => m < pod[p].ended)

\* No minute in which a pod ran throughout is lost before the last one counted
\* for it, whatever passes failed, but in an outage longer than is filled in.
NothingMissed ==
  \A p \in Pod : \A last \in sampled[p] : \A m \in pod[p].ran + 1 .. last - 1 :
    \/ m \in sampled[p] \cup filled[p]
    \/ m .. m + BackfillMax \cap heartbeats = {}
=============================================================================
