------------------------------- MODULE Budget -------------------------------
(* GPU budgets on the hub (src/sites/cpt-gpu170/values.yaml, blocks 04-usage   *)
(* and 08-budget-enforcement): approval with hours, the check before a GPU     *)
(* server starts, and the watcher of those that run. It composes the meter,    *)
(* which it asks, with sign-up. The hub is one asyncio process: an action is   *)
(* the code between two awaits.                                                *)
EXTENDS Meter, Access

CONSTANTS
  WarnPart, WarnOf,  \* _BW_WARN_AT as a fraction
  Grace,             \* _BW_GRACE, in minutes
  FailOpen           \* METER_FAIL_OPEN

ASSUME BudgetAssumption ==
  /\ Name = User /\ Asked \subseteq Hours
  /\ {WarnPart, WarnOf, Grace} \subseteq Nat /\ WarnPart <= WarnOf /\ FailOpen \in BOOLEAN

VARIABLES
  enforce,  \* _BW_ENFORCE: it may change at a restart of the hub
  server,   \* each user's spawner and its pod
  notice,   \* zai_budget_notices
  look,     \* the watcher's check of one user, over its awaits
  over      \* history: since when every recorded look found the budget used up

watcher == <<notice, look, over>>
vars == <<meterVars, accessVars, enforce, server, watcher>>

Stopped == [at |-> "stopped", pod |-> Nothing]
Server == [at : {"stopped", "starting", "ready", "stopping"}, pod : Pod \cup {Nothing}]
Minute == Nat \cup {Nothing}
\* When the first warning was given is kept but never compared.
Untold == [warned |-> FALSE, final |-> Nothing, stopped |-> Nothing]
Notice == {n \in [warned : BOOLEAN, final : Minute, stopped : Minute] :
             n.final # Nothing => n.warned}
Look == [user : User, at : {"asked", "stopping"}, month : Months, notice : Notice]

Init ==
  /\ MeterInit /\ AccessInit
  /\ enforce \in BOOLEAN
  /\ server = [u \in User |-> Stopped]
  /\ notice = [u \in User |-> [mo \in Months |-> Untold]]
  /\ look = Nothing /\ over = [u \in User |-> [mo \in Months |-> Nothing]]

TypeOK ==
  /\ MeterTypeOK /\ AccessTypeOK /\ enforce \in BOOLEAN
  /\ server \in [User -> Server] /\ notice \in [User -> [Months -> Notice]]
  /\ look = Nothing \/ look \in Look
  /\ over \in [User -> [Months -> Minute]]

-----------------------------------------------------------------------------
(* Accounts.                                                                 *)

SignsUp(u, hours) ==
  /\ \/ SignUp(u, hours, TRUE) /\ UNCHANGED faults
     \/ SignUp(u, hours, FALSE) /\ Fails
  /\ UNCHANGED <<now, pod, up, pass, tables, limits, moves, enforce, server, watcher>>

\* ApproveWithBudget: the budget first, and no approval if the meter refuses it.
\* With no hours (Nothing) the meter is not asked. A budget whose answer is lost is
\* set without an approval, which is a step of Administers.
Approves(u, hours) ==
  /\ account[u] = "waiting" /\ Moves /\ Approve(u)
  /\ IF hours = Nothing THEN UNCHANGED <<now, pod, up, pass, tables, limits, faults>>
                        ELSE SetBudget(u, hours)
  /\ UNCHANGED <<enforce, server, watcher>>

Deletes(u) ==
  /\ server[u] = Stopped /\ Moves
  /\ \/ Delete(u, TRUE) /\ UNCHANGED faults
     \/ Delete(u, FALSE) /\ Fails
  /\ UNCHANGED <<now, pod, up, pass, tables, limits, enforce, server, watcher>>

\* UsageBudget and UsageAdjust, for administrators.
Administers ==
  /\ Moves
  /\ \/ \E u \in User \cup {Everyone}, b \in Hours \cup {Unlimited} : SetBudget(u, b)
     \/ \E u \in User, minutes \in {-1, 1} : AddAdjustment(u, Month(now), minutes)
  /\ UNCHANGED <<accessVars, enforce, server, watcher>>

-----------------------------------------------------------------------------
(* Servers. Starting asks the meter only for a GPU, and lets it pass unheard. *)

Starts(u, p, gpu) ==
  /\ account[u] = "approved" /\ server[u].at = "stopped"
  /\ ~(look # Nothing /\ look.user = u /\ look.at = "stopping")
  /\ gpu => IF up THEN Allowed(u) ELSE FailOpen
  /\ PodStarts(p, u, gpu)
  /\ server' = [server EXCEPT ![u] = [at |-> "starting", pod |-> p]]
  /\ UNCHANGED <<now, up, pass, tables, limits, moves, faults, accessVars, enforce, watcher>>

Ready(u) ==
  /\ server[u].at = "starting" /\ PodRuns(server[u].pod)
  /\ server' = [server EXCEPT ![u].at = "ready"]
  /\ UNCHANGED <<now, up, pass, tables, limits, moves, faults, accessVars, enforce, watcher>>

UserStops(u) ==
  /\ server[u].at = "ready" /\ server' = [server EXCEPT ![u].at = "stopping"]
  /\ UNCHANGED <<meterVars, accessVars, enforce, watcher>>

Ends(u) == PodEnds(server[u].pod) /\ server' = [server EXCEPT ![u] = Stopped]
Watches(u) == look # Nothing /\ look.user = u /\ look.at = "stopping"

StopEnds(u) ==
  /\ server[u].at = "stopping" /\ ~Watches(u) /\ Ends(u)
  /\ UNCHANGED <<now, up, pass, tables, limits, moves, faults, accessVars, enforce, watcher>>

-----------------------------------------------------------------------------
(* The watcher: _bw_check.                                                   *)

\* The meter is asked about a running GPU server.
Asks(u) ==
  /\ look = Nothing /\ server[u].at = "ready" /\ pod[server[u].pod].gpu
  /\ look' = [user |-> u, at |-> "asked", month |-> 0, notice |-> Untold]
  /\ UNCHANGED <<meterVars, accessVars, enforce, server, notice, over>>

\* Without an answer, or without a budget, nothing is done.
LetsBe ==
  /\ look # Nothing /\ look.at = "asked" /\ look' = Nothing
  /\ UNCHANGED <<meterVars, accessVars, enforce, server, notice, over>>

\* _bw_fraction
UsedUp(used, b) == b <= 0 \/ used >= b
UnderWarning(used, b) == b > 0 /\ used * WarnOf < WarnPart * b

Since(time) == IF time = Nothing THEN now ELSE time

\* _bw_step: what is to be written, and whether the server is to be stopped.
(* Fault for StopAfterGrace: a budget raised a little leaves the final warning. *)
StepKeepsFinal(n, used, b) ==
  IF UnderWarning(used, b) THEN [n EXCEPT !.warned = FALSE, !.final = Nothing]
  ELSE IF ~UsedUp(used, b) THEN [n EXCEPT !.warned = TRUE]
  ELSE [n EXCEPT !.warned = TRUE, !.final = Since(@)]
Step(n, used, b) ==
  IF UnderWarning(used, b) THEN [n EXCEPT !.warned = FALSE, !.final = Nothing]
  ELSE IF ~UsedUp(used, b) THEN [n EXCEPT !.warned = TRUE, !.final = Nothing]
  ELSE [n EXCEPT !.warned = TRUE, !.final = Since(@)]
StopDue(n, used, b) ==
  /\ UsedUp(used, b) /\ n.final # Nothing /\ now - n.final >= Grace
  /\ n.stopped # Nothing => n.stopped < n.final

\* _bw_save, when there is something to save; a failure leaves the row as it was.
Saves(u, mo, n, since) ==
  /\ \/ /\ notice' = [notice EXCEPT ![u][mo] = n]
        /\ over' = [over EXCEPT ![u][mo] = since]
        /\ UNCHANGED faults
     \/ n # notice[u][mo] /\ Fails /\ UNCHANGED <<notice, over>>
  /\ UNCHANGED <<now, up, pass, tables, limits, moves>>

\* The answer comes, and _bw_check goes on up to its next await. With `enforce`
\* off a stop is only noted; a server that is starting or stopping is left for the
\* next pass.
Judges ==
  LET u == look.user
      mo == Month(now)
      n == notice[u][mo]
      used == GpuUsed(u)
      b == BudgetOf(u)
      stop == StopDue(n, used, b)
  IN /\ look # Nothing /\ look.at = "asked" /\ up /\ b # Unlimited
     /\ \/ /\ ~(stop /\ enforce)
           /\ Saves(u, mo, IF stop THEN [n EXCEPT !.stopped = now] ELSE Step(n, used, b),
                    IF UsedUp(used, b) THEN Since(over[u][mo]) ELSE Nothing)
           /\ look' = Nothing /\ UNCHANGED <<pod, server>>
        \/ /\ stop /\ enforce /\ server[u].at \in {"starting", "stopping"}
           /\ look' = Nothing /\ UNCHANGED <<meterVars, server, notice, over>>
        \/ /\ stop /\ enforce /\ server[u].at \in {"ready", "stopped"}
           /\ server' = [server EXCEPT ![u].at = IF @ = "ready" THEN "stopping" ELSE @]
           /\ look' = [look EXCEPT !.at = "stopping", !.month = mo,
                         !.notice = [n EXCEPT !.final = Nothing, !.stopped = now]]
           /\ UNCHANGED <<meterVars, notice, over>>
     /\ UNCHANGED <<accessVars, enforce>>

\* _bw_stop ends, and what was done is saved.
WatcherStops ==
  LET u == look.user
  IN /\ look # Nothing /\ look.at = "stopping"
     /\ \/ server[u].at = "stopping" /\ Ends(u)
        \/ server[u].at = "stopped" /\ UNCHANGED <<pod, server>>
     /\ Saves(u, look.month, look.notice, Nothing)
     /\ look' = Nothing
     /\ UNCHANGED <<accessVars, enforce>>

StopFails ==
  /\ look # Nothing /\ look.at = "stopping" /\ Fails
  /\ server' = [server EXCEPT ![look.user].at = IF @ = "stopping" THEN "ready" ELSE @]
  /\ look' = Nothing
  /\ UNCHANGED <<now, pod, up, pass, tables, limits, moves, accessVars, enforce, notice, over>>

\* A restart forgets the check and any stop in progress; the rows stay.
HubRestarts ==
  /\ Fails /\ enforce' \in BOOLEAN /\ look' = Nothing
  /\ server' = [u \in User |-> IF server[u].at = "stopping"
                               THEN [server[u] EXCEPT !.at = "ready"] ELSE server[u]]
  /\ UNCHANGED <<now, pod, up, pass, tables, limits, moves, accessVars, notice, over>>

-----------------------------------------------------------------------------
MeterAlone ==
  /\ Tick \/ Lists \/ Records \/ RecordFails \/ MeterStops \/ MeterStarts
  /\ UNCHANGED <<accessVars, enforce, server, watcher>>

Accounts(u) ==
  \/ \E hours \in Asked : SignsUp(u, hours) \/ Approves(u, hours)
  \/ Approves(u, Nothing) \/ Deletes(u)

Servers(u) ==
  \/ \E p \in Pod, gpu \in BOOLEAN : Starts(u, p, gpu)
  \/ Ready(u) \/ UserStops(u) \/ StopEnds(u)

Watcher == (\E u \in User : Asks(u)) \/ LetsBe \/ Judges \/ WatcherStops \/ StopFails

Next ==
  \/ MeterAlone \/ Administers \/ Watcher \/ HubRestarts
  \/ \E u \in User : Accounts(u) \/ Servers(u)

Spec == Init /\ [][Next]_vars

-----------------------------------------------------------------------------
\* The watcher decides to stop a server only when every look it recorded in the
\* last Grace minutes found the month's budget used up: a budget raised, credited
\* or begun anew in between gives a fresh grace period ("A budget raised during
\* the grace period cancels the stop"), and no answer of the meter stops nothing.
StopAfterGrace ==
  [][\A u \in User : (~Watches(u) /\ Watches(u)') =>
       /\ over[u][Month(now)] # Nothing
       /\ now - over[u][Month(now)] >= Grace]_vars
=============================================================================
