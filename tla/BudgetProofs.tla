---------------------------- MODULE BudgetProofs ----------------------------
(* Types, the meter's minutes, applications and the watcher's stops, for any   *)
(* users, pods, budgets and faults.                                           *)
EXTENDS Budget, TLAPS

(***************************************************************************)
(* Applications. What a failed write leaves behind is remembered by lapses.  *)
(***************************************************************************)

Follows ==
  \A u \in Name : application[u] # Nobody =>
    /\ ~Exists(u) => lapses[u] >= 1
    /\ Exists(u) /\ lapses[u] < 2 => application[u].of = holder[u]

(***************************************************************************)
(* Minutes. The pods that run, and those that the pass in progress counts,   *)
(* have a sample for every recorded minute since they ran.                   *)
(***************************************************************************)

Counts(p) == pass # Nothing /\ p \in pass.pods
Tracked(p) == pod[p].at = "running" \/ Counts(p)

\* The order of times: nothing recorded is later than the pass, nor the pass than now.
Ordered ==
  /\ \A h \in heartbeats : h <= now
  /\ pass # Nothing => pass.minute <= now /\ \A h \in heartbeats : h <= pass.minute
  /\ \A p \in Pod : pod[p].started <= now /\ pod[p].ran <= now

\* What the tables say of a pod, and what a pass may rely on.
ToldOf(p) ==
  /\ sampled[p] \subseteq heartbeats
  /\ \A m \in filled[p] : m \notin heartbeats /\ pod[p].started < m /\ \E h \in heartbeats : m < h
  /\ \A m \in filled[p] : pod[p].at = "gone" => m < pod[p].ended
  /\ sampled[p] \cup filled[p] # {} => pod[p].at \in {"running", "gone"}
  /\ Tracked(p) => pod[p].at \in {"running", "gone"} /\ pod[p].started <= pod[p].ran
  /\ Tracked(p) => \A h \in heartbeats : pod[p].ran < h => h \in sampled[p]
  /\ Counts(p) => (pod[p].at = "gone" => pass.minute <= pod[p].ended)
  /\ pass # Nothing /\ pod[p].at = "running" /\ p \notin pass.pods => pass.minute <= pod[p].ran
Told == \A p \in Pod : ToldOf(p)

Counted == Ordered /\ Told /\ NothingMissed

(***************************************************************************)
(* The watcher. A final warning is no older than the stretch of looks that    *)
(* found the budget used up.                                                 *)
(***************************************************************************)

Warned ==
  /\ \A u \in User, mo \in Months :
       /\ over[u][mo] # Nothing => over[u][mo] <= now
       /\ notice[u][mo].final # Nothing =>
            over[u][mo] # Nothing /\ over[u][mo] <= notice[u][mo].final
  /\ look # Nothing /\ look.at = "stopping" => look.notice.final = Nothing

(***************************************************************************)
(* Types.                                                                    *)
(***************************************************************************)

\* The clock stays within the months the tables have.
Typed == TypeOK /\ now <= MaxMinute

USE MeterAssumption, AccessAssumption, BudgetAssumption

LEMMA MonthIs == ASSUME NEW n \in Nat, n <= MaxMinute PROVE Month(n) \in Months
<1>1. PICK q : q = n \div MonthLength OBVIOUS
<1>2. PICK Q : Q = MaxMinute \div MonthLength OBVIOUS
<1>3. q \in Nat /\ MonthLength * q <= n
  BY <1>1
<1>4. Q \in Nat /\ MaxMinute < MonthLength * (Q + 1)
  BY <1>2
<1>5. q < Q + 1
  <2>1. SUFFICES ASSUME Q + 1 <= q PROVE FALSE BY <1>3, <1>4
  <2>2. MonthLength * (Q + 1) <= MonthLength * q BY <1>3, <1>4, <2>1
  <2>3. QED BY <1>3, <1>4, <2>2
<1>6. QED BY <1>1, <1>2, <1>3, <1>4, <1>5 DEF Month, Months

LEMMA NoticeSaved ==
  ASSUME NEW n \in Notice, NEW time \in Nat
  PROVE  /\ [n EXCEPT !.warned = FALSE, !.final = Nothing] \in Notice
         /\ [n EXCEPT !.warned = TRUE, !.final = Nothing] \in Notice
         /\ [n EXCEPT !.warned = TRUE, !.final = time] \in Notice
         /\ [n EXCEPT !.final = Nothing, !.stopped = time] \in Notice
         /\ [n EXCEPT !.stopped = time] \in Notice
BY DEF Notice, Minute

LEMMA StepSaved ==
  ASSUME NEW n \in Notice, NEW used, NEW b, now \in Nat
  PROVE  Step(n, used, b) \in Notice
<1>1. Since(n.final) \in Nat
  BY DEF Since, Notice, Minute
<1>2. QED BY <1>1, NoticeSaved DEF Step

LEMMA InitTyped == Init => Typed
<1>1. SUFFICES ASSUME Init PROVE Typed OBVIOUS
<1>2. MeterTypeOK
  <2>1. NoPod \in PodRecord BY DEF NoPod, PodRecord
  <2>2. QED BY <1>1, <2>1 DEF Init, MeterInit, MeterTypeOK
<1>3. AccessTypeOK BY <1>1 DEF Init, AccessInit, AccessTypeOK
<1>4. server \in [User -> Server] BY <1>1 DEF Init, Stopped, Server
<1>5. notice \in [User -> [Months -> Notice]]
  <2>1. Untold \in Notice BY DEF Untold, Notice, Minute
  <2>2. QED BY <1>1, <2>1 DEF Init
<1>6. over \in [User -> [Months -> Minute]] BY <1>1 DEF Init, Minute
<1>7. QED BY <1>1, <1>2, <1>3, <1>4, <1>5, <1>6 DEF Init, MeterInit, Typed, TypeOK

LEMMA PodsTyped ==
  ASSUME MeterTypeOK, NEW p, NEW u \in User, NEW gpu \in BOOLEAN,
         PodStarts(p, u, gpu) \/ PodRuns(p) \/ PodEnds(p)
  PROVE  pod' \in [Pod -> PodRecord]
<1>1. pod \in [Pod -> PodRecord] /\ now \in Nat BY DEF MeterTypeOK
<1>2. CASE p \in Pod /\ PodStarts(p, u, gpu)
  <2>1. [NoPod EXCEPT !.at = "pending", !.user = u, !.gpu = gpu, !.started = now] \in PodRecord
    BY <1>1 DEF NoPod, PodRecord
  <2>2. QED BY <1>1, <1>2, <2>1 DEF PodStarts
<1>3. CASE p \in Pod /\ PodRuns(p)
  <2>1. [[pod[p] EXCEPT !.at = "running"] EXCEPT !.ran = now] \in PodRecord
    BY <1>1, <1>3 DEF PodRecord
  <2>2. pod' = [pod EXCEPT ![p] = [[pod[p] EXCEPT !.at = "running"] EXCEPT !.ran = now]]
    BY <1>1, <1>3 DEF PodRuns
  <2>3. QED BY <1>1, <2>1, <2>2
<1>4. CASE p \in Pod /\ PodEnds(p)
  <2>1. [[pod[p] EXCEPT !.at = "gone"] EXCEPT !.ended = now] \in PodRecord
    BY <1>1, <1>4 DEF PodRecord
  <2>2. pod' = [pod EXCEPT ![p] = [[pod[p] EXCEPT !.at = "gone"] EXCEPT !.ended = now]]
    BY <1>1, <1>4 DEF PodEnds
  <2>3. QED BY <1>1, <2>1, <2>2
<1>5. CASE p \notin Pod BY <1>1, <1>5 DEF PodStarts, PodRuns, PodEnds
<1>6. QED BY <1>2, <1>3, <1>4, <1>5

LEMMA ApplicationsTyped ==
  ASSUME AccessTypeOK, NEW u \in Name, NEW hours, NEW b \in BOOLEAN,
         (hours \in Asked /\ SignUp(u, hours, b)) \/ Approve(u) \/ Delete(u, b)
  PROVE  AccessTypeOK'
<1>1. CASE Approve(u) BY <1>1 DEF Approve, AccessTypeOK
<1>2. CASE Delete(u, b) BY <1>2 DEF Delete, AccessTypeOK, Saved, Lapse
<1>3. CASE hours \in Asked /\ SignUp(u, hours, b)
  <2>1. CASE Exists(u) BY <1>3, <2>1 DEF SignUp, AccessTypeOK, accessVars
  <2>2. CASE ~Exists(u)
    <3>1. holder[u] + 1 \in 0..MaxHolders BY <1>3 DEF SignUp, AccessTypeOK
    <3>2. [of |-> holder[u] + 1, hours |-> hours] \in [of : 0..MaxHolders, hours : Asked]
      BY <1>3, <3>1
    <3>3. application' \in [Name -> [of : 0..MaxHolders, hours : Asked] \cup {Nobody}]
      BY <1>3, <2>2, <3>2 DEF SignUp, AccessTypeOK, Saved
    <3>4. account' \in [Name -> {"none", "waiting", "approved"}] /\ holder' \in [Name -> 0..MaxHolders]
      BY <1>3, <2>2, <3>1 DEF SignUp, AccessTypeOK
    <3>5. lapses' \in [Name -> Nat]
      BY <1>3, <2>2 DEF SignUp, AccessTypeOK, Saved, Lapse
    <3>6. QED BY <3>3, <3>4, <3>5 DEF AccessTypeOK
  <2>3. QED BY <2>1, <2>2
<1>4. QED BY <1>1, <1>2, <1>3

LEMMA MeterTyped ==
  ASSUME Typed,
         \/ Tick \/ Lists \/ Records \/ RecordFails \/ MeterStops \/ MeterStarts
  PROVE  MeterTypeOK' /\ now' <= MaxMinute
<1>1. MeterTypeOK /\ now \in Nat /\ now <= MaxMinute BY DEF Typed, TypeOK, MeterTypeOK
<1>2. CASE Tick BY <1>1, <1>2 DEF Tick, MeterTypeOK, tables, limits
<1>3. CASE Lists
  <2>1. pass' \in Pass BY <1>1, <1>3 DEF Lists, Pass
  <2>2. QED BY <1>1, <1>3, <2>1 DEF Lists, MeterTypeOK, tables, limits
<1>4. CASE Records
  <2>1. pass.minute \in Nat BY <1>1, <1>4 DEF Records, MeterTypeOK, Pass
  <2>2. \A p \in Pod : Missed(p, pass.minute) \subseteq Nat
    BY <1>1, <2>1 DEF Missed, MeterTypeOK, PodRecord
  <2>3. filled' \in [Pod -> SUBSET Nat]
    BY <1>1, <1>4, <2>2 DEF Records, MeterTypeOK
  <2>4. sampled' \in [Pod -> SUBSET Nat]
    BY <1>1, <1>4, <2>1 DEF Records, MeterTypeOK
  <2>5. QED BY <1>1, <1>4, <2>1, <2>3, <2>4 DEF Records, MeterTypeOK, limits
<1>5. CASE RecordFails \/ MeterStops \/ MeterStarts
  <2>1. CASE RecordFails BY <1>1, <2>1 DEF RecordFails, Fails, MeterTypeOK, tables, limits
  <2>2. CASE MeterStops
    <3>1. up' \in BOOLEAN BY <2>2 DEF MeterStops
    <3>2. faults' \in Nat BY <1>1, <2>2 DEF MeterStops, Fails, MeterTypeOK
    <3>3. UNCHANGED <<now, pod, tables, limits, moves>> /\ pass' = Nothing BY <2>2 DEF MeterStops
    <3>4. QED BY <1>1, <3>1, <3>2, <3>3 DEF MeterTypeOK, tables, limits
  <2>3. CASE MeterStarts BY <1>1, <2>3 DEF MeterStarts, MeterTypeOK, tables, limits
  <2>4. QED BY <1>5, <2>1, <2>2, <2>3
<1>6. QED BY <1>2, <1>3, <1>4, <1>5

LEMMA SavesTyped ==
  ASSUME Typed, NEW u \in User, NEW mo \in Months, NEW n \in Notice, NEW since \in Minute,
         Saves(u, mo, n, since)
  PROVE  /\ notice' \in [User -> [Months -> Notice]]
         /\ over' \in [User -> [Months -> Minute]] /\ faults' \in Nat
         /\ UNCHANGED <<now, up, pass, tables, limits, moves>>
<1>1. [notice[u] EXCEPT ![mo] = n] \in [Months -> Notice] BY DEF Typed, TypeOK
<1>2. [over[u] EXCEPT ![mo] = since] \in [Months -> Minute] BY DEF Typed, TypeOK
<1>3. notice' \in [User -> [Months -> Notice]] BY <1>1 DEF Saves, Typed, TypeOK
<1>4. over' \in [User -> [Months -> Minute]] BY <1>2 DEF Saves, Typed, TypeOK
<1>5. faults' \in Nat BY DEF Saves, Fails, Typed, TypeOK, MeterTypeOK
<1>6. UNCHANGED <<now, up, pass, tables, limits, moves>> BY DEF Saves
<1>7. QED BY <1>3, <1>4, <1>5, <1>6

LEMMA JudgesTyped ==
  ASSUME Typed, Judges
  PROVE  /\ notice' \in [User -> [Months -> Notice]] /\ over' \in [User -> [Months -> Minute]]
         /\ server' \in [User -> Server] /\ (look' = Nothing \/ look' \in Look)
         /\ faults' \in Nat
         /\ UNCHANGED <<now, up, pass, tables, limits, moves, pod, accessVars, enforce>>
<1>1. PICK u : u = look.user OBVIOUS
<1>2. PICK mo : mo = Month(now) OBVIOUS
<1>3. u \in User /\ mo \in Months /\ now \in Nat
  BY <1>1, <1>2, MonthIs DEF Typed, TypeOK, MeterTypeOK, Judges, Look
<1>4. PICK n : n = notice[u][mo] OBVIOUS
<1>5. n \in Notice BY <1>3, <1>4 DEF Typed, TypeOK
<1>6. ASSUME NEW n2 \in Notice, NEW since \in Minute, Saves(u, mo, n2, since)
      PROVE  /\ notice' \in [User -> [Months -> Notice]]
             /\ over' \in [User -> [Months -> Minute]] /\ faults' \in Nat
             /\ UNCHANGED <<now, up, pass, tables, limits, moves>>
  BY <1>3, <1>6, SavesTyped
<1>7. UNCHANGED <<accessVars, enforce>> BY DEF Judges
<1>8. CASE look' = Nothing /\ UNCHANGED <<meterVars, server, notice, over>>
  BY <1>7, <1>8 DEF Typed, TypeOK, MeterTypeOK, meterVars
<1>9. ASSUME NEW n2 \in Notice, NEW since \in Minute, Saves(u, mo, n2, since),
             look' = Nothing /\ UNCHANGED <<pod, server>>
      PROVE  /\ notice' \in [User -> [Months -> Notice]] /\ over' \in [User -> [Months -> Minute]]
             /\ server' \in [User -> Server] /\ (look' = Nothing \/ look' \in Look)
             /\ faults' \in Nat
             /\ UNCHANGED <<now, up, pass, tables, limits, moves, pod, accessVars, enforce>>
  BY <1>6, <1>7, <1>9 DEF Typed, TypeOK
<1>10. CASE /\ server' = [server EXCEPT ![u].at = IF @ = "ready" THEN "stopping" ELSE @]
            /\ look' = [look EXCEPT !.at = "stopping", !.month = mo,
                         !.notice = [n EXCEPT !.final = Nothing, !.stopped = now]]
            /\ UNCHANGED <<meterVars, notice, over>>
  <2>1. server' \in [User -> Server]
    BY <1>3, <1>10 DEF Typed, TypeOK, Server
  <2>2. look \in Look BY DEF Judges, Typed, TypeOK
  <2>3. look' \in Look
    BY <1>3, <1>5, <1>10, <2>2, NoticeSaved DEF Look
  <2>4. QED BY <1>7, <1>10, <2>1, <2>3 DEF Typed, TypeOK, MeterTypeOK, meterVars
<1>11. \A used, b : Step(n, used, b) \in Notice /\ [n EXCEPT !.stopped = now] \in Notice
  BY <1>3, <1>5, StepSaved, NoticeSaved
<1>12. \A used, b : (IF UsedUp(used, b) THEN Since(over[u][mo]) ELSE Nothing) \in Minute
  BY <1>3 DEF Typed, TypeOK, Since, Minute
<1>13. QED BY <1>1, <1>2, <1>4, <1>8, <1>9, <1>10, <1>11, <1>12 DEF Judges

LEMMA WatcherTyped == ASSUME Typed, Watcher PROVE Typed'
<1>1. TypeOK /\ now \in Nat /\ now <= MaxMinute BY DEF Typed, TypeOK, MeterTypeOK
<1>2. CASE LetsBe
  BY <1>1, <1>2 DEF LetsBe, Typed, TypeOK, MeterTypeOK, AccessTypeOK, meterVars, tables, limits,
                    accessVars, Exists
<1>3. ASSUME NEW u \in User, Asks(u) PROVE Typed'
  <2>1. 0 \in Months BY MonthIs, <1>1 DEF Months
  <2>2. Untold \in Notice BY DEF Untold, Notice, Minute
  <2>3. look' \in Look BY <1>3, <2>1, <2>2 DEF Asks, Look
  <2>4. QED BY <1>1, <1>3, <2>3 DEF Asks, Typed, TypeOK, MeterTypeOK, AccessTypeOK, meterVars,
                                    tables, limits, accessVars
<1>4. CASE Judges
  <2>1. MeterTypeOK' /\ AccessTypeOK'
    BY <1>1, <1>4, JudgesTyped DEF TypeOK, MeterTypeOK, AccessTypeOK, tables, limits, accessVars
  <2>2. QED BY <1>1, <1>4, <2>1, JudgesTyped DEF Typed, TypeOK
<1>5. CASE WatcherStops
  <2>1. look.user \in User /\ look.month \in Months /\ look.notice \in Notice
    BY <1>1, <1>5 DEF WatcherStops, TypeOK, Look
  <2>2. Nothing \in Minute BY DEF Minute
  <2>3. /\ notice' \in [User -> [Months -> Notice]]
        /\ over' \in [User -> [Months -> Minute]] /\ faults' \in Nat
        /\ UNCHANGED <<now, up, pass, tables, limits, moves>>
    BY <1>5, <2>1, <2>2, SavesTyped DEF WatcherStops
  <2>4. server' \in [User -> Server] /\ pod' \in [Pod -> PodRecord]
    <3>1. CASE UNCHANGED <<pod, server>> BY <1>1, <3>1 DEF TypeOK, MeterTypeOK
    <3>2. CASE server[look.user].at = "stopping" /\ Ends(look.user)
      <4>1. server[look.user] \in Server /\ Stopped \in Server
        BY <1>1, <2>1 DEF TypeOK, Server, Stopped
      <4>2. PodEnds(server[look.user].pod) BY <3>2 DEF Ends
      <4>3. pod' \in [Pod -> PodRecord] BY <1>1, <2>1, <4>2, PodsTyped DEF TypeOK
      <4>4. QED BY <1>1, <2>1, <3>2, <4>1, <4>3 DEF Ends, TypeOK
    <3>3. QED BY <1>5, <3>1, <3>2 DEF WatcherStops
  <2>5. MeterTypeOK' /\ AccessTypeOK'
    BY <1>1, <1>5, <2>3, <2>4
    DEF WatcherStops, TypeOK, MeterTypeOK, AccessTypeOK, tables, limits, accessVars
  <2>6. QED BY <1>1, <1>5, <2>3, <2>4, <2>5 DEF WatcherStops, Typed, TypeOK
<1>6. CASE StopFails
  <2>1. look.user \in User BY <1>1, <1>6 DEF StopFails, TypeOK, Look
  <2>2. server' \in [User -> Server] BY <1>1, <1>6, <2>1 DEF StopFails, TypeOK, Server
  <2>3. MeterTypeOK' BY <1>1, <1>6 DEF StopFails, Fails, TypeOK, MeterTypeOK, tables, limits
  <2>4. AccessTypeOK' BY <1>1, <1>6 DEF StopFails, TypeOK, AccessTypeOK, accessVars
  <2>5. QED BY <1>1, <1>6, <2>2, <2>3, <2>4 DEF StopFails, Typed, TypeOK
<1>7. QED BY <1>2, <1>3, <1>4, <1>5, <1>6 DEF Watcher

LEMMA ServersTyped == ASSUME Typed, NEW u \in User, Servers(u) PROVE Typed'
<1>1. TypeOK BY DEF Typed
<1>2. server[u] \in Server BY <1>1 DEF TypeOK
<1>3. CASE UserStops(u)
  <2>1. [server[u] EXCEPT !.at = "stopping"] \in Server BY <1>2 DEF Server
  <2>2. server' \in [User -> Server] BY <1>1, <1>3, <2>1 DEF UserStops, TypeOK
  <2>3. QED BY <1>1, <1>3, <2>2 DEF UserStops, Typed, TypeOK, MeterTypeOK, AccessTypeOK, meterVars,
                                    tables, limits, accessVars, watcher
<1>4. ASSUME pod' \in [Pod -> PodRecord], NEW s \in Server, server' = [server EXCEPT ![u] = s],
             UNCHANGED <<now, up, pass, tables, limits, moves, faults, accessVars, enforce, watcher>>
      PROVE  Typed'
  <2>1. server' \in [User -> Server] BY <1>1, <1>4 DEF TypeOK
  <2>2. MeterTypeOK' BY <1>1, <1>4 DEF TypeOK, MeterTypeOK, tables, limits
  <2>3. AccessTypeOK' BY <1>1, <1>4 DEF TypeOK, AccessTypeOK, accessVars
  <2>4. QED BY <1>1, <1>4, <2>1, <2>2, <2>3 DEF Typed, TypeOK, watcher
<1>5. ASSUME NEW p \in Pod, NEW gpu \in BOOLEAN, Starts(u, p, gpu) PROVE Typed'
  <2>1. pod' \in [Pod -> PodRecord]
    <3>1. PodStarts(p, u, gpu) /\ MeterTypeOK BY <1>1, <1>5 DEF Starts, TypeOK
    <3>2. QED BY <3>1, PodsTyped
  <2>2. [at |-> "starting", pod |-> p] \in Server BY DEF Server
  <2>3. QED BY <1>4, <1>5, <2>1, <2>2 DEF Starts
<1>6. CASE Ready(u)
  <2>1. pod' \in [Pod -> PodRecord] BY <1>1, <1>6, PodsTyped DEF Ready, TypeOK
  <2>2. [server[u] EXCEPT !.at = "ready"] \in Server BY <1>2 DEF Server
  <2>3. server' = [server EXCEPT ![u] = [server[u] EXCEPT !.at = "ready"]]
    BY <1>1, <1>6 DEF Ready, TypeOK
  <2>4. QED BY <1>4, <1>6, <2>1, <2>2, <2>3 DEF Ready
<1>7. CASE StopEnds(u)
  <2>1. pod' \in [Pod -> PodRecord] BY <1>1, <1>7, PodsTyped DEF StopEnds, Ends, TypeOK
  <2>2. Stopped \in Server BY DEF Stopped, Server
  <2>3. QED BY <1>4, <1>7, <2>1, <2>2 DEF StopEnds, Ends
<1>8. QED BY <1>3, <1>5, <1>6, <1>7 DEF Servers

LEMMA AccountsTyped == ASSUME Typed, NEW u \in User, Accounts(u) PROVE Typed'
<1>1. TypeOK /\ u \in Name BY DEF Typed
<1>2. ASSUME NEW hours \in Asked, SignsUp(u, hours) PROVE Typed'
  <2>1. AccessTypeOK' BY <1>1, <1>2, ApplicationsTyped DEF SignsUp, TypeOK
  <2>2. faults' \in Nat
    <3>1. Fails \/ UNCHANGED faults BY <1>2, Zenon DEF SignsUp
    <3>2. QED BY <1>1, <3>1 DEF Fails, TypeOK, MeterTypeOK
  <2>3. MeterTypeOK' BY <1>1, <1>2, <2>2 DEF SignsUp, TypeOK, MeterTypeOK, tables, limits
  <2>4. QED BY <1>1, <1>2, <2>1, <2>3 DEF SignsUp, Typed, TypeOK, watcher
<1>3. CASE Deletes(u)
  <2>1. AccessTypeOK' BY <1>1, <1>3, ApplicationsTyped DEF Deletes, TypeOK
  <2>2. moves' \in Nat BY <1>1, <1>3 DEF Deletes, Moves, TypeOK, MeterTypeOK
  <2>3. faults' \in Nat
    <3>1. Fails \/ UNCHANGED faults BY <1>3, Zenon DEF Deletes
    <3>2. QED BY <1>1, <3>1 DEF Fails, TypeOK, MeterTypeOK
  <2>4. MeterTypeOK' BY <1>1, <1>3, <2>2, <2>3 DEF Deletes, TypeOK, MeterTypeOK, tables, limits
  <2>5. QED BY <1>1, <1>3, <2>1, <2>4 DEF Deletes, Typed, TypeOK, watcher
<1>4. ASSUME NEW hours \in Asked \cup {Nothing}, Approves(u, hours) PROVE Typed'
  <2>1. AccessTypeOK' BY <1>1, <1>4 DEF Approves, Approve, TypeOK, AccessTypeOK
  <2>2. moves' \in Nat BY <1>1, <1>4 DEF Approves, Moves, TypeOK, MeterTypeOK
  <2>3. MeterTypeOK' /\ UNCHANGED now
    <3>1. CASE hours = Nothing
      BY <1>1, <1>4, <2>2, <3>1 DEF Approves, TypeOK, MeterTypeOK, tables, limits
    <3>2. CASE SetBudget(u, hours) /\ hours \in Nat
      BY <1>1, <2>2, <3>2 DEF SetBudget, TypeOK, MeterTypeOK, tables
    <3>3. QED BY <1>4, <3>1, <3>2 DEF Approves
  <2>4. QED BY <1>1, <1>4, <2>1, <2>3 DEF Approves, Typed, TypeOK, watcher
<1>5. QED BY <1>2, <1>3, <1>4 DEF Accounts

LEMMA TypedInductive == ASSUME Typed, [Next]_vars PROVE Typed'
<1>1. TypeOK /\ now \in Nat /\ now <= MaxMinute BY DEF Typed, TypeOK, MeterTypeOK
<1>2. ASSUME MeterTypeOK', now' <= MaxMinute, UNCHANGED <<accessVars, enforce, server, watcher>>
      PROVE  Typed'
  <2>1. AccessTypeOK' BY <1>1, <1>2 DEF TypeOK, AccessTypeOK, accessVars
  <2>2. QED BY <1>1, <1>2, <2>1 DEF Typed, TypeOK, watcher
<1>3. CASE MeterAlone BY <1>2, <1>3, MeterTyped DEF MeterAlone
<1>4. CASE Administers
  <2>1. moves' \in Nat BY <1>1, <1>4 DEF Administers, Moves, TypeOK, MeterTypeOK
  <2>2. ASSUME NEW u \in User \cup {Everyone}, NEW b \in Hours \cup {Unlimited}, SetBudget(u, b)
        PROVE  Typed'
    <3>1. MeterTypeOK' BY <1>1, <2>1, <2>2 DEF SetBudget, TypeOK, MeterTypeOK, tables
    <3>2. QED BY <1>1, <1>2, <1>4, <2>2, <3>1 DEF Administers, SetBudget
  <2>3. ASSUME NEW u \in User, NEW minutes \in {-1, 1}, AddAdjustment(u, Month(now), minutes)
        PROVE  Typed'
    <3>1. Month(now) \in Months BY <1>1, MonthIs
    <3>2. [credit[u] EXCEPT ![Month(now)] = @ + minutes] \in [Months -> Int]
      BY <1>1, <3>1 DEF TypeOK, MeterTypeOK
    <3>3. credit' \in [User -> [Months -> Int]]
      BY <1>1, <2>3, <3>2 DEF AddAdjustment, TypeOK, MeterTypeOK
    <3>4. MeterTypeOK' BY <1>1, <2>1, <2>3, <3>3 DEF AddAdjustment, TypeOK, MeterTypeOK, tables
    <3>5. QED BY <1>1, <1>2, <1>4, <2>3, <3>4 DEF Administers, AddAdjustment
  <2>4. QED BY <1>4, <2>2, <2>3 DEF Administers
<1>5. CASE HubRestarts
  <2>1. server' \in [User -> Server]
    <3>1. \A s \in Server : [s EXCEPT !.at = "ready"] \in Server BY DEF Server
    <3>2. QED BY <1>1, <1>5, <3>1 DEF HubRestarts, TypeOK
  <2>2. MeterTypeOK'
    BY <1>1, <1>5 DEF HubRestarts, Fails, TypeOK, MeterTypeOK, tables, limits
  <2>3. AccessTypeOK' BY <1>1, <1>5 DEF HubRestarts, TypeOK, AccessTypeOK, accessVars
  <2>4. enforce' \in BOOLEAN BY <1>5 DEF HubRestarts
  <2>5. QED BY <1>1, <1>5, <2>1, <2>2, <2>3, <2>4 DEF HubRestarts, Typed, TypeOK
<1>6. CASE UNCHANGED vars
  <2>1. MeterTypeOK' BY <1>1, <1>6 DEF vars, meterVars, TypeOK, MeterTypeOK, tables, limits
  <2>2. QED BY <1>1, <1>2, <1>6, <2>1 DEF vars, meterVars
<1>7. QED BY <1>3, <1>4, <1>5, <1>6, WatcherTyped, ServersTyped, AccountsTyped DEF Next

\* The types, and that whoever counts minutes or months stays within the tables:
\* the rows of the meter, the applications and the watcher (TypeOK).
THEOREM TypeCorrect == Spec => []TypeOK
<1>1. Typed => TypeOK BY DEF Typed
<1>2. QED BY <1>1, InitTyped, TypedInductive, PTL DEF Spec

(***************************************************************************)
(* Applications.                                                             *)
(***************************************************************************)

LEMMA ApplicationsFollow ==
  ASSUME AccessTypeOK, Follows, NEW u \in Name, NEW hours, NEW b \in BOOLEAN,
         (hours \in Asked /\ SignUp(u, hours, b)) \/ (Approve(u) /\ Exists(u)) \/ Delete(u, b)
  PROVE  Follows'
<1>1. \A v \in Name : v # u =>
        account'[v] = account[v] /\ holder'[v] = holder[v] /\ lapses'[v] = lapses[v]
          /\ application'[v] = application[v]
  BY DEF SignUp, Approve, Delete, Saved, Lapse, AccessTypeOK, accessVars
<1>2. SUFFICES
        application'[u] # Nobody =>
          /\ account'[u] = "none" => lapses'[u] >= 1
          /\ account'[u] # "none" /\ lapses'[u] < 2 => application'[u].of = holder'[u]
  BY <1>1 DEF Follows, Exists
<1>3. CASE Approve(u) /\ Exists(u) BY <1>3 DEF Approve, Follows, Exists, AccessTypeOK
<1>4. CASE Delete(u, b) BY <1>4 DEF Delete, Saved, Lapse, Follows, Exists, AccessTypeOK
<1>5. CASE hours \in Asked /\ SignUp(u, hours, b)
  <2>1. CASE Exists(u) BY <1>5, <2>1 DEF SignUp, accessVars, Follows, Exists
  <2>2. CASE ~Exists(u) /\ Saved(u, [of |-> holder[u] + 1, hours |-> hours])
    BY <1>5, <2>2 DEF SignUp, Saved, Exists, AccessTypeOK
  <2>3. CASE ~Exists(u) /\ Lapse(u) /\ UNCHANGED application
    BY <1>5, <2>3 DEF SignUp, Lapse, Follows, Exists, AccessTypeOK
  <2>4. QED BY <1>5, <2>1, <2>2, <2>3 DEF SignUp
<1>6. QED BY <1>3, <1>4, <1>5

LEMMA FollowsStep == ASSUME Typed, Follows, [Next]_vars PROVE Follows'
<1>1. AccessTypeOK BY DEF Typed, TypeOK
<1>2. CASE UNCHANGED accessVars BY <1>2 DEF accessVars, Follows, Exists
<1>3. ASSUME NEW u \in User, Accounts(u) PROVE Follows'
  <2>1. u \in Name OBVIOUS
  <2>2. ASSUME NEW hours \in Asked, SignsUp(u, hours) PROVE Follows'
    <3>1. PICK b \in BOOLEAN : SignUp(u, hours, b) BY <2>2, Zenon DEF SignsUp
    <3>2. QED BY <1>1, <2>1, <2>2, <3>1, ApplicationsFollow
  <2>3. ASSUME NEW hours, Approves(u, hours) PROVE Follows'
    BY <1>1, <2>1, <2>3, ApplicationsFollow DEF Approves, Exists
  <2>4. CASE Deletes(u) BY <1>1, <2>1, <2>4, ApplicationsFollow DEF Deletes
  <2>5. QED BY <1>3, <2>2, <2>3, <2>4 DEF Accounts
<1>4. CASE MeterAlone \/ Administers \/ Watcher \/ HubRestarts
  BY <1>2, <1>4 DEF MeterAlone, Administers, Watcher, Asks, LetsBe, Judges, WatcherStops, StopFails,
                    HubRestarts
<1>5. ASSUME NEW u \in User, Servers(u) PROVE Follows'
  BY <1>2, <1>5 DEF Servers, Starts, Ready, UserStops, StopEnds
<1>6. CASE UNCHANGED vars BY <1>2, <1>6 DEF vars
<1>7. QED BY <1>3, <1>4, <1>5, <1>6 DEF Next

\* An application shown beside an account was made for that account, unless two
\* writes of that name failed, however often the name changed hands.
THEOREM ApplicationsAreOwn == Spec => []ApplicationIsOwn
<1>1. Init => Follows BY DEF Init, AccessInit, Follows
<1>2. Follows => ApplicationIsOwn BY DEF Follows, ApplicationIsOwn
<1>3. QED BY <1>1, <1>2, InitTyped, TypedInductive, FollowsStep, PTL DEF Spec

(***************************************************************************)
(* The watcher.                                                              *)
(***************************************************************************)

LEMMA ClockGoesOn == ASSUME Typed, [Next]_vars PROVE now <= now'
<1>1. now \in Nat BY DEF Typed, TypeOK, MeterTypeOK
<1>2. CASE UNCHANGED now BY <1>1, <1>2
<1>3. CASE MeterAlone
  BY <1>1, <1>3 DEF MeterAlone, Tick, Lists, Records, RecordFails, MeterStops, MeterStarts
<1>4. CASE Administers BY <1>2, <1>4 DEF Administers, SetBudget, AddAdjustment
<1>5. CASE Watcher \/ HubRestarts
  BY <1>2, <1>5 DEF Watcher, Asks, LetsBe, Judges, WatcherStops, StopFails, HubRestarts, Saves, meterVars
<1>6. ASSUME NEW u \in User, Accounts(u) \/ Servers(u) PROVE now <= now'
  BY <1>2, <1>6 DEF Accounts, Servers, SignsUp, Approves, Deletes, SetBudget, Starts, Ready, UserStops,
                    StopEnds, meterVars
<1>7. CASE UNCHANGED vars BY <1>2, <1>7 DEF vars, meterVars
<1>8. QED BY <1>3, <1>4, <1>5, <1>6, <1>7 DEF Next

\* Steps that are neither a look's end nor a stop's leave what is written alone.
LEMMA Unwatched ==
  ASSUME [Next]_vars PROVE Watcher \/ UNCHANGED watcher \/ (look' = Nothing /\ UNCHANGED <<notice, over>>)
<1>1. ASSUME NEW u \in User, Accounts(u) \/ Servers(u) PROVE UNCHANGED watcher
  BY <1>1 DEF Accounts, Servers, SignsUp, Approves, Deletes, Starts, Ready, UserStops, StopEnds
<1>2. QED BY <1>1 DEF Next, MeterAlone, Administers, HubRestarts, vars

LEMMA WarnedStep == ASSUME Typed, Warned, [Next]_vars PROVE Warned'
<1>1. now \in Nat /\ now' \in Nat /\ now <= now'
      /\ notice \in [User -> [Months -> Notice]] /\ over \in [User -> [Months -> Minute]]
  BY TypedInductive, ClockGoesOn DEF Typed, TypeOK, MeterTypeOK
<1>2. ASSUME UNCHANGED <<notice, over>>,
             look' # Nothing /\ look'.at = "stopping" => look'.notice.final = Nothing
      PROVE  Warned'
  BY <1>1, <1>2 DEF Warned, Notice, Minute
<1>3. ASSUME NEW u \in User, NEW mo \in Months, NEW n, NEW since, Saves(u, mo, n, since),
             look' = Nothing,
             since # Nothing => since \in Nat /\ since <= now,
             n.final # Nothing => since # Nothing /\ since <= n.final
      PROVE  Warned'
  <2>1. now' = now BY <1>3 DEF Saves
  <2>2. CASE UNCHANGED <<notice, over>> BY <1>2, <1>3, <2>2
  <2>3. CASE notice' = [notice EXCEPT ![u][mo] = n] /\ over' = [over EXCEPT ![u][mo] = since]
    <3>1. \A v \in User, mm \in Months : <<v, mm>> # <<u, mo>> =>
            notice'[v][mm] = notice[v][mm] /\ over'[v][mm] = over[v][mm]
      BY <1>1, <2>3
    <3>2. notice'[u][mo] = n /\ over'[u][mo] = since BY <1>1, <2>3
    <3>3. QED BY <1>3, <2>1, <3>1, <3>2 DEF Warned
  <2>4. QED BY <1>3, <2>2, <2>3 DEF Saves
<1>4. CASE Judges
  <2>1. PICK u : u = look.user OBVIOUS
  <2>2. PICK mo : mo = Month(now) OBVIOUS
  <2>3. PICK n : n = notice[u][mo] OBVIOUS
  <2>4. u \in User /\ mo \in Months /\ n \in Notice
    BY <1>1, <1>4, <2>1, <2>2, <2>3, MonthIs DEF Typed, TypeOK, Judges, Look
  <2>5. ASSUME NEW used, NEW b
        PROVE  LET stop == StopDue(n, used, b)
                   n2 == IF stop THEN [n EXCEPT !.stopped = now] ELSE Step(n, used, b)
                   since == IF UsedUp(used, b) THEN Since(over[u][mo]) ELSE Nothing
               IN /\ since # Nothing => since \in Nat /\ since <= now
                  /\ n2.final # Nothing => since # Nothing /\ since <= n2.final
    BY <1>1, <2>3, <2>4 DEF StopDue, Step, Since, Warned, Notice, Minute
  <2>6. ASSUME look' = [look EXCEPT !.at = "stopping", !.month = mo,
                         !.notice = [n EXCEPT !.final = Nothing, !.stopped = now]],
               UNCHANGED <<notice, over>>
        PROVE  Warned'
    <3>1. look \in Look BY <1>4 DEF Judges, Typed, TypeOK
    <3>2. look'.notice.final = Nothing BY <2>4, <2>6, <3>1 DEF Look, Notice
    <3>3. QED BY <1>2, <2>6, <3>2
  <2>7. QED BY <1>2, <1>3, <1>4, <2>6, <2>1, <2>2, <2>3, <2>4, <2>5 DEF Judges, meterVars
<1>5. CASE WatcherStops
  <2>1. look.user \in User /\ look.month \in Months BY <1>5 DEF WatcherStops, Typed, TypeOK, Look
  <2>2. look.notice.final = Nothing BY <1>5 DEF WatcherStops, Warned
  <2>3. QED BY <1>3, <1>5, <2>1, <2>2 DEF WatcherStops
<1>6. CASE UNCHANGED watcher BY <1>1, <1>2, <1>6 DEF watcher, Warned
<1>7. CASE LetsBe \/ StopFails BY <1>2, <1>7 DEF LetsBe, StopFails
<1>8. ASSUME NEW u \in User, Asks(u) PROVE Warned' BY <1>2, <1>8 DEF Asks
<1>9. CASE look' = Nothing /\ UNCHANGED <<notice, over>> BY <1>2, <1>9
<1>10. QED BY <1>4, <1>5, <1>6, <1>7, <1>8, <1>9, Unwatched DEF Watcher

\* No server is stopped by the watcher before every look of a whole grace period
\* found the budget used up, whatever changes, fails or restarts meanwhile.
THEOREM StopsWaitForGrace == Spec => StopAfterGrace
<1>1. Init => Warned BY DEF Init, Untold, Warned
<1>2. ASSUME Typed, Warned, Next, NEW u \in User, ~Watches(u), Watches(u)'
      PROVE  over[u][Month(now)] # Nothing /\ now - over[u][Month(now)] >= Grace
  <2>1. now \in Nat BY <1>2 DEF Typed, TypeOK, MeterTypeOK
  <2>2. CASE Judges
    <3>1. look \in Look /\ Month(now) \in Months
      BY <1>2, <2>1, <2>2, MonthIs DEF Judges, Typed, TypeOK
    <3>2. PICK n : n = notice[look.user][Month(now)] OBVIOUS
    <3>3. look'.user = look.user /\ n.final # Nothing /\ now - n.final >= Grace
      BY <1>2, <2>2, <3>1, <3>2 DEF Judges, Watches, StopDue, Look
    <3>4. u = look.user BY <1>2, <3>3 DEF Watches
    <3>5. n \in Notice /\ over[u][Month(now)] \in Minute
      BY <1>2, <3>1, <3>2, <3>4 DEF Typed, TypeOK
    <3>6. QED BY <1>2, <2>1, <3>1, <3>2, <3>3, <3>4, <3>5 DEF Warned, Notice, Minute
  <2>3. ASSUME NEW v \in User, Asks(v) PROVE FALSE BY <1>2, <2>3 DEF Asks, Watches
  <2>4. CASE LetsBe \/ WatcherStops \/ StopFails \/ look' = Nothing
    BY <1>2, <2>4 DEF LetsBe, WatcherStops, StopFails, Watches
  <2>5. CASE UNCHANGED watcher BY <1>2, <2>5 DEF watcher, Watches
  <2>6. QED BY <1>2, <2>2, <2>3, <2>4, <2>5, Unwatched DEF Watcher
<1>3. Typed /\ Warned /\ [Next]_vars =>
        [\A u \in User : (~Watches(u) /\ Watches(u)') =>
           /\ over[u][Month(now)] # Nothing
           /\ now - over[u][Month(now)] >= Grace]_vars
  BY <1>2
<1>4. QED BY <1>1, <1>3, InitTyped, TypedInductive, WarnedStep, PTL DEF Spec, StopAfterGrace

(***************************************************************************)
(* The meter.                                                                *)
(***************************************************************************)

\* What a step does to the clock, the pods, the pass and the tables.
PassEnds == pass' \in {pass, Nothing} /\ UNCHANGED <<now, pod, tables>>
PodMoves(p) ==
  /\ PodRuns(p) \/ PodEnds(p) \/ \E u \in User, gpu \in BOOLEAN : PodStarts(p, u, gpu)
  /\ UNCHANGED <<now, pass, tables>>

LEMMA MeterSteps ==
  ASSUME [Next]_vars PROVE Tick \/ Lists \/ Records \/ PassEnds \/ \E p : PodMoves(p)
<1>1. CASE MeterAlone
  BY <1>1 DEF MeterAlone, RecordFails, MeterStops, MeterStarts, PassEnds, tables
<1>2. CASE Administers
  BY <1>2 DEF Administers, SetBudget, AddAdjustment, PassEnds, tables
<1>3. CASE HubRestarts BY <1>3 DEF HubRestarts, PassEnds
<1>4. CASE Judges
  <2>1. UNCHANGED <<now, pass, tables>> BY <1>4 DEF Judges, Saves, meterVars
  <2>2. UNCHANGED pod BY <1>4 DEF Judges, meterVars
  <2>3. QED BY <2>1, <2>2 DEF PassEnds
<1>5. CASE WatcherStops
  <2>1. UNCHANGED <<now, pass, tables>> BY <1>5 DEF WatcherStops, Saves
  <2>2. UNCHANGED pod \/ \E p : PodEnds(p) BY <1>5 DEF WatcherStops, Ends
  <2>3. QED BY <2>1, <2>2 DEF PassEnds, PodMoves
<1>6. CASE Watcher
  BY <1>4, <1>5, <1>6 DEF Watcher, Asks, LetsBe, StopFails, PassEnds, meterVars
<1>7. ASSUME NEW u \in User, Accounts(u) PROVE PassEnds
  <2>1. UNCHANGED <<now, pod, pass, tables>>
    BY <1>7 DEF Accounts, SignsUp, Approves, Deletes, SetBudget
  <2>2. QED BY <2>1 DEF PassEnds
<1>8. ASSUME NEW u \in User, Servers(u) PROVE PassEnds \/ \E p : PodMoves(p)
  <2>1. CASE UserStops(u) BY <2>1 DEF UserStops, PassEnds, meterVars
  <2>2. ASSUME NEW p \in Pod, NEW gpu \in BOOLEAN, Starts(u, p, gpu) PROVE PodMoves(p)
    BY <2>2, Zenon DEF Starts, PodMoves
  <2>3. CASE Ready(u) BY <2>3 DEF Ready, PodMoves
  <2>4. CASE StopEnds(u) BY <2>4 DEF StopEnds, Ends, PodMoves
  <2>5. QED BY <1>8, <2>1, <2>2, <2>3, <2>4 DEF Servers
<1>9. CASE UNCHANGED vars BY <1>9 DEF vars, meterVars, PassEnds
<1>10. QED BY <1>1, <1>2, <1>3, <1>6, <1>7, <1>8, <1>9 DEF Next

\* Numbers are numbers, for the steps below.
LEMMA MinutesTyped ==
  ASSUME Typed
  PROVE  /\ now \in Nat /\ heartbeats \subseteq Nat
         /\ pass # Nothing => pass \in Pass /\ pass.minute \in Nat /\ pass.pods \subseteq Pod
         /\ \A p \in Pod : /\ sampled[p] \subseteq Nat /\ filled[p] \subseteq Nat
                           /\ pod[p] \in PodRecord /\ pod[p].started \in Nat
                           /\ pod[p].ran \in Nat /\ pod[p].ended \in Nat
BY DEF Typed, TypeOK, MeterTypeOK, Pass, PodRecord

LEMMA InitCounted == Init => Counted
BY DEF Init, MeterInit, NoPod, Counted, Ordered, Told, ToldOf, NothingMissed, Tracked, Counts

LEMMA PassEndsCounted == ASSUME Typed, Counted, PassEnds PROVE Counted'
BY MinutesTyped DEF PassEnds, Counted, Ordered, Told, ToldOf, NothingMissed, Tracked, Counts, tables

LEMMA TickCounted == ASSUME Typed, Counted, Tick PROVE Counted'
<1>1. Ordered' BY MinutesTyped DEF Tick, Counted, Ordered, tables
<1>2. Told' BY DEF Tick, Counted, Told, ToldOf, Tracked, Counts, tables
<1>3. NothingMissed' BY DEF Tick, Counted, NothingMissed, tables
<1>4. QED BY <1>1, <1>2, <1>3 DEF Counted

LEMMA ListsCounted == ASSUME Typed, Counted, Lists PROVE Counted'
<1>1. CASE pass' = Nothing
  BY <1>1, PassEndsCounted DEF Lists, PassEnds
<1>2. CASE pass' # Nothing
  <2>1. /\ pass'.minute = now /\ pass'.pods = {p \in Pod : pod[p].at = "running"}
        /\ UNCHANGED <<now, pod, heartbeats, sampled, filled>>
    BY DEF Lists, tables
  <2>2. \A p \in Pod : Counts(p)' <=> pod[p].at = "running"
    BY <1>2, <2>1 DEF Counts
  <2>3. Ordered' BY <2>1, MinutesTyped DEF Counted, Ordered
  <2>4. Told' BY <2>1, <2>2 DEF Counted, Told, ToldOf, Tracked
  <2>5. NothingMissed' BY <2>1 DEF Counted, NothingMissed
  <2>6. QED BY <2>3, <2>4, <2>5 DEF Counted
<1>3. QED BY <1>1, <1>2

LEMMA PodMovesCounted == ASSUME Typed, Counted, NEW p, PodMoves(p) PROVE Counted'
<1>1. pod \in [Pod -> PodRecord] BY DEF Typed, TypeOK, MeterTypeOK
<1>2. CASE pod' = pod BY <1>2, PassEndsCounted DEF PodMoves, PassEnds
<1>3. CASE p \in Pod
  <2>1. /\ UNCHANGED <<now, pass, heartbeats, sampled, filled>>
        /\ \A q \in Pod : q # p => pod'[q] = pod[q]
    BY <1>1 DEF PodMoves, PodStarts, PodRuns, PodEnds, tables
  <2>2. \/ pod[p].at = "none" /\ pod'[p].at = "pending" /\ pod'[p].started = now /\ pod'[p].ran = 0
        \/ /\ pod[p].at = "pending" /\ pod'[p].at = "running"
           /\ pod'[p].started = pod[p].started /\ pod'[p].ran = now
        \/ /\ pod[p].at \in {"pending", "running"} /\ pod'[p].at = "gone" /\ pod'[p].ended = now
           /\ pod'[p].started = pod[p].started /\ pod'[p].ran = pod[p].ran
    <3>1. CASE PodRuns(p) BY <1>1, <1>3, <3>1 DEF PodRuns, PodRecord
    <3>2. CASE PodEnds(p) BY <1>1, <1>3, <3>2 DEF PodEnds, PodRecord
    <3>3. ASSUME NEW u \in User, NEW gpu \in BOOLEAN, PodStarts(p, u, gpu)
          PROVE  /\ pod[p].at = "none" /\ pod'[p].at = "pending"
                 /\ pod'[p].started = now /\ pod'[p].ran = 0
      BY <1>1, <1>3, <3>3 DEF PodStarts, NoPod
    <3>4. QED BY <3>1, <3>2, <3>3 DEF PodMoves
  <2>3. Counts(p) => pod[p].at \in {"running", "gone"} BY <1>3 DEF Counted, Told, ToldOf, Tracked
  <2>4. Ordered' BY <2>1, <2>2, MinutesTyped DEF Counted, Ordered
  <2>5. \A q \in Pod : Counts(q)' <=> Counts(q) BY <2>1 DEF Counts
  <2>6. ASSUME NEW q \in Pod PROVE ToldOf(q)'
    <3>1. ToldOf(q) BY DEF Counted, Told
    <3>2. CASE q # p BY <2>1, <2>5, <3>1, <3>2 DEF ToldOf, Tracked
    <3>3. CASE q = p /\ pod'[p].at = "pending"
      BY <2>1, <2>2, <2>3, <2>5, <3>1, <3>3 DEF ToldOf, Tracked
    <3>4. CASE q = p /\ pod'[p].at = "running"
      <4>1. pod[p].at = "pending" /\ ~Counts(p) BY <2>2, <2>3, <3>4
      <4>2. sampled[p] = {} /\ filled[p] = {} BY <3>1, <3>4, <4>1 DEF ToldOf
      <4>3. \A h \in heartbeats : h <= now BY DEF Counted, Ordered
      <4>4. pass # Nothing => pass.minute <= now BY DEF Counted, Ordered
      <4>5. pod[p].started <= now BY <1>3 DEF Counted, Ordered
      <4>6. QED BY <2>1, <2>2, <2>5, <3>4, <4>1, <4>2, <4>3, <4>4, <4>5, MinutesTyped
                DEF ToldOf, Tracked
    <3>5. CASE q = p /\ pod'[p].at = "gone"
      <4>1. \A m \in filled[p] : m < now
        BY <1>3, <3>1, <3>5, MinutesTyped DEF ToldOf, Counted, Ordered
      <4>2. pass # Nothing => pass.minute <= now BY DEF Counted, Ordered
      <4>3. pod'[p].ended = now BY <2>2, <3>5
      <4>4. Tracked(p)' => Counts(p) BY <2>5, <3>5 DEF Tracked
      <4>5. Tracked(p)' =>
              /\ pod[p].started <= pod[p].ran /\ pass # Nothing
              /\ \A h \in heartbeats : pod[p].ran < h => h \in sampled[p]
        BY <3>1, <3>5, <4>4 DEF ToldOf, Tracked, Counts
      <4>6. pod'[p].started = pod[p].started /\ pod'[p].ran = pod[p].ran BY <2>2, <3>5
      <4>7. /\ sampled[p] \subseteq heartbeats
            /\ \A m \in filled[p] : /\ m \notin heartbeats /\ pod[p].started < m
                                    /\ \E h \in heartbeats : m < h
        BY <3>1, <3>5 DEF ToldOf
      <4>8. Counts(p)' => pass'.minute <= pod'[p].ended BY <2>1, <4>2, <4>3 DEF Counts
      <4>9. QED BY <2>1, <3>5, <4>1, <4>3, <4>5, <4>6, <4>7, <4>8 DEF ToldOf
    <3>6. QED BY <2>2, <3>2, <3>3, <3>4, <3>5
  <2>7. NothingMissed'
    BY <1>3, <2>1, <2>2, MinutesTyped DEF Counted, Told, ToldOf, NothingMissed
  <2>8. QED BY <2>4, <2>6, <2>7 DEF Counted, Told
<1>4. QED BY <1>1, <1>2, <1>3 DEF PodMoves, PodStarts, PodRuns, PodEnds

\* A pass is recorded. A pod that it counts has a sample of its minute, and what
\* is filled in was not looked at, before it and after the pod's start.
LEMMA RecordsPod ==
  ASSUME Typed, Counted, Records, NEW p \in Pod
  PROVE  /\ sampled'[p] = sampled[p] \cup IF Counts(p) THEN {pass.minute} ELSE {}
         /\ filled[p] \subseteq filled'[p]
         /\ \A m \in filled'[p] : m \in filled[p] \/ (Counts(p) /\ m \in Missed(p, pass.minute))
         /\ Counts(p) /\ GapBefore(pass.minute) =>
              Missed(p, pass.minute) \subseteq sampled'[p] \cup filled'[p]
<1>1. pass.minute \notin filled[p]
  <2>1. \A m \in filled[p] : \E h \in heartbeats : m < h BY DEF Counted, Told, ToldOf
  <2>2. \A h \in heartbeats : h <= pass.minute BY DEF Counted, Ordered, Records
  <2>3. QED BY <2>1, <2>2, MinutesTyped DEF Records
<1>2. sampled'[p] = sampled[p] \cup IF p \in pass.pods /\ pass.minute \notin filled[p]
                                    THEN {pass.minute} ELSE {}
  BY DEF Records
<1>3. filled'[p] = filled[p] \cup IF p \in pass.pods /\ GapBefore(pass.minute)
                                  THEN Missed(p, pass.minute) \ sampled[p] ELSE {}
  BY DEF Records
<1>4. Counts(p) <=> p \in pass.pods BY DEF Counts, Records
<1>5. QED BY <1>1, <1>2, <1>3, <1>4

LEMMA RecordsCounted == ASSUME Typed, Counted, Records PROVE Counted'
<1>1. PICK M : M = pass.minute OBVIOUS
<1>2. /\ M \in Nat /\ M <= now /\ \A h \in heartbeats : h <= M
      /\ pass # Nothing /\ pass' = Nothing /\ heartbeats' = heartbeats \cup {M}
      /\ UNCHANGED <<now, pod>>
  BY <1>1, MinutesTyped DEF Records, Counted, Ordered
<1>3. Ordered' BY <1>2, MinutesTyped DEF Counted, Ordered
<1>4. ASSUME NEW p \in Pod PROVE ToldOf(p)'
  <2>1. ToldOf(p) BY DEF Counted, Told
  <2>2. /\ sampled'[p] = sampled[p] \cup IF Counts(p) THEN {M} ELSE {}
        /\ \A m \in filled'[p] : m \in filled[p] \/ (Counts(p) /\ m \in Missed(p, M))
    BY <1>1, RecordsPod
  <2>3. \A m \in Missed(p, M) : m \in Nat /\ m < M /\ m \notin heartbeats /\ pod[p].started < m
    BY <1>2, MinutesTyped DEF Missed
  <2>4. Tracked(p)' <=> pod[p].at = "running" BY <1>2 DEF Tracked, Counts
  <2>5. sampled'[p] \subseteq heartbeats' BY <1>2, <2>1, <2>2 DEF ToldOf
  <2>6. \A m \in filled'[p] : /\ m \notin heartbeats' /\ pod[p].started < m
                              /\ \E h \in heartbeats' : m < h
    <3>1. ASSUME NEW m \in filled[p]
          PROVE  m \notin heartbeats' /\ pod[p].started < m /\ \E h \in heartbeats' : m < h
      <4>1. PICK h \in heartbeats : m < h BY <2>1, <3>1 DEF ToldOf
      <4>2. m # M BY <1>2, <4>1, MinutesTyped
      <4>3. QED BY <1>2, <2>1, <4>1, <4>2 DEF ToldOf
    <3>2. ASSUME NEW m \in Missed(p, M)
          PROVE  m \notin heartbeats' /\ pod[p].started < m /\ \E h \in heartbeats' : m < h
      BY <1>2, <2>3
    <3>3. QED BY <2>2, <3>1, <3>2
  <2>7. \A m \in filled'[p] : pod[p].at = "gone" => m < pod[p].ended
    <3>1. Counts(p) /\ pod[p].at = "gone" => M <= pod[p].ended BY <1>1, <2>1 DEF ToldOf
    <3>2. QED BY <1>2, <2>1, <2>2, <2>3, <3>1, MinutesTyped DEF ToldOf
  <2>8. sampled'[p] \cup filled'[p] # {} => pod[p].at \in {"running", "gone"}
    BY <2>1, <2>2 DEF ToldOf, Tracked
  <2>9. pod[p].at = "running" =>
          pod[p].started <= pod[p].ran /\ \A h \in heartbeats' : pod[p].ran < h => h \in sampled'[p]
    <3>1. SUFFICES ASSUME pod[p].at = "running"
                   PROVE  /\ pod[p].started <= pod[p].ran
                          /\ \A h \in heartbeats' : pod[p].ran < h => h \in sampled'[p]
      OBVIOUS
    <3>2. Tracked(p) BY <3>1 DEF Tracked
    <3>3. ~Counts(p) => M <= pod[p].ran BY <1>1, <1>2, <2>1, <3>1 DEF ToldOf, Counts
    <3>4. QED BY <1>2, <2>1, <2>2, <3>2, <3>3, MinutesTyped DEF ToldOf
  <2>10. QED BY <1>2, <2>4, <2>5, <2>6, <2>7, <2>8, <2>9 DEF ToldOf, Counts
<1>5. ASSUME NEW p \in Pod, NEW last \in sampled'[p], NEW m \in pod[p].ran + 1 .. last - 1
      PROVE  m \in sampled'[p] \cup filled'[p] \/ (m .. m + BackfillMax) \cap heartbeats' = {}
  <2>1. ToldOf(p) BY DEF Counted, Told
  <2>2. /\ sampled'[p] = sampled[p] \cup IF Counts(p) THEN {M} ELSE {}
        /\ filled[p] \subseteq filled'[p]
        /\ Counts(p) /\ GapBefore(M) => Missed(p, M) \subseteq sampled'[p] \cup filled'[p]
    BY <1>1, RecordsPod
  <2>3. last \in Nat /\ m \in Nat /\ pod[p].ran < m /\ m < last /\ BackfillMax \in Nat
    BY <1>2, <1>5, <2>2, MinutesTyped
  <2>4. ASSUME NEW h \in heartbeats, m < h, h \in sampled[p]
        PROVE  m \in sampled[p] \cup filled[p] \/ (m .. m + BackfillMax) \cap heartbeats' = {}
    <3>1. m \in pod[p].ran + 1 .. h - 1 BY <2>3, <2>4, MinutesTyped
    <3>2. \/ m \in sampled[p] \cup filled[p]
          \/ m .. m + BackfillMax \cap heartbeats = {}
      BY <2>4, <3>1 DEF Counted, NothingMissed
    <3>3. ASSUME m .. m + BackfillMax \cap heartbeats = {}
          PROVE  (m .. m + BackfillMax) \cap heartbeats' = {}
      <4>1. h \notin m .. m + BackfillMax BY <2>4, <3>3
      <4>2. m + BackfillMax < M BY <1>2, <2>3, <2>4, <4>1, MinutesTyped
      <4>3. QED BY <1>2, <2>3, <3>3, <4>2
    <3>4. QED BY <3>2, <3>3
  <2>5. CASE \E h \in heartbeats : m < h /\ h \in sampled[p] BY <2>2, <2>4, <2>5
  <2>6. CASE ~\E h \in heartbeats : m < h /\ h \in sampled[p]
    <3>1. Counts(p) /\ last = M BY <2>1, <2>2, <2>3, <2>6 DEF ToldOf
    <3>2. Tracked(p) /\ pod[p].started <= pod[p].ran
      BY <2>1, <3>1 DEF ToldOf, Tracked
    <3>3. \A h \in heartbeats : pod[p].ran < h => h \in sampled[p]
      BY <2>1, <3>2 DEF ToldOf
    <3>4. \A h \in heartbeats : h <= m BY <2>3, <2>6, <3>3, MinutesTyped
    <3>5. CASE m \in heartbeats BY <2>2, <2>3, <3>3, <3>5
    <3>6. CASE m \notin heartbeats
      <4>1. \A h \in heartbeats : h < m BY <2>3, <3>4, <3>6, MinutesTyped
      <4>2. GapBefore(M) BY <1>2, <2>3, <3>1, <4>1, MinutesTyped DEF GapBefore
      <4>3. CASE m >= M - BackfillMax
        <5>1. m \in Missed(p, M)
          BY <1>2, <2>3, <3>1, <3>2, <3>6, <4>3, MinutesTyped DEF Missed
        <5>2. QED BY <2>2, <3>1, <4>2, <5>1
      <4>4. CASE m < M - BackfillMax
        BY <1>2, <2>3, <4>1, <4>4, MinutesTyped
      <4>5. QED BY <1>2, <2>3, <4>3, <4>4
    <3>7. QED BY <3>5, <3>6
  <2>7. QED BY <2>5, <2>6
<1>6. NothingMissed' BY <1>2, <1>5 DEF NothingMissed
<1>7. QED BY <1>3, <1>4, <1>6 DEF Counted, Told

LEMMA CountedStep == ASSUME Typed, Counted, [Next]_vars PROVE Counted'
BY MeterSteps, PassEndsCounted, TickCounted, ListsCounted, RecordsCounted, PodMovesCounted

\* A minute that is filled in was not looked at, and the pod was there before it
\* began and after it ended, whatever passes were lost.
THEOREM FilledIsProven == Spec => []FilledIsProvable
<1>1. Counted => FilledIsProvable BY DEF Counted, Told, ToldOf, FilledIsProvable
<1>2. QED BY <1>1, InitTyped, InitCounted, TypedInductive, CountedStep, PTL DEF Spec

\* No minute of a pod is lost between its start and the last one counted for it,
\* but in an outage that is longer than what is filled in.
THEOREM MinutesAreCounted == Spec => []NothingMissed
<1>1. Counted => NothingMissed BY DEF Counted
<1>2. QED BY <1>1, InitTyped, InitCounted, TypedInductive, CountedStep, PTL DEF Spec
=============================================================================
