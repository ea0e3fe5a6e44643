----------------------------- MODULE HubBilling -----------------------------
(***************************************************************************)
(* The hub's billing and admission (hub-ext/zai_platform.py): the SQLite   *)
(* tables `sessions` and `ledger`, the spawner that starts, polls and      *)
(* stops notebook servers, and the calls with which the serverless         *)
(* gateway opens and closes worker sessions.                               *)
(*                                                                         *)
(* The hub is one asyncio process, so a handler runs alone between two of  *)
(* its awaits: one action is the code from one await to the next.  What    *)
(* JupyterHub and Kubernetes do around it (the pod of a server, the hub's  *)
(* own view of the server, a restart) is external.                         *)
(***************************************************************************)
EXTENDS Integers, Sequences, FiniteSets, FiniteSetsExt

CONSTANTS
    User,          \* accounts
    Server,        \* notebook servers, each a (user, server name) pair
    Worker,        \* serverless worker ids; their sessions have server "w:<id>"
    Size,          \* sizes of the catalog
    Pool,          \* gpu_pools of the catalog
    NoPool,        \* the pool of a size without a GPU
    NoSize,        \* no start in flight, no pod
    Owner,         \* Owner[k]: the user of notebook server k
    Free,          \* users whose servers cost nothing (admins, admins_free)
    Price,         \* Price[z]: price of size z, micros per hour
    SizePool,      \* SizePool[z]: the pool size z takes GPUs from, or NoPool
    SizeGpus,      \* SizeGpus[z]: how many it takes
    Cap,           \* Cap[p]: GPUs of pool p
    SvMaxGpus,     \* serverless.max_gpus
    Enforce,       \* billing.enforce
    MinTicks,      \* billing.min_minutes_to_start
    TicksPerHour,  \* ticks of the clock in an hour
    SignupCredit,  \* billing.signup_credit
    Amounts,       \* what admins add to or take from an account
    Sid,           \* ids of session rows: 1..n bounds the sessions of a behaviour
    MaxTime,       \* bound on the clock
    MaxPaid,       \* bound on the credit of one account
    MaxFaults      \* bound on database failures and hub restarts

ASSUME HubAssumption ==
    /\ Owner \in [Server -> User]
    /\ Free \subseteq User
    /\ Price \in [Size -> Nat]
    /\ SizePool \in [Size -> Pool \cup {NoPool}]
    /\ SizeGpus \in [Size -> Nat]
    /\ Cap \in [Pool -> Nat]
    /\ NoPool \notin Pool
    /\ NoSize \notin Size
    /\ Server \cap Worker = {}
    /\ SvMaxGpus \in Nat
    /\ MinTicks \in Nat
    /\ TicksPerHour \in Nat \ {0}
    /\ SignupCredit \in Nat
    /\ Amounts \subseteq Int
    /\ Sid \subseteq Nat
    /\ IsFiniteSet(Sid)
    /\ IsFiniteSet(Server)
    /\ MaxTime \in Nat
    /\ MaxFaults \in Nat

VARIABLES
    clock,     \* time.time(), in ticks
    paid,      \* paid[u]: SUM(micros) of the ledger's rows of u that are not usage
    welcomed,  \* the users with a `signup` row in the ledger
    session,   \* the table `sessions`, by id
    usage,     \* usage[s]: the charges (-micros) of the ledger's usage rows for s
    choice,    \* choice[k]: the size a start in flight holds for k (`_starting`)
    server,    \* server[k]: what JupyterHub believes of k
    pod,       \* pod[k]: the size of k's pod in the cluster, or NoSize
    faults     \* database failures and hub restarts so far

vars == <<clock, paid, welcomed, session, usage, choice, server, pod, faults>>
ledger == <<paid, welcomed, usage>>
hubView == <<choice, server, pod>>

-----------------------------------------------------------------------------
Open == -1            \* `stopped IS NULL`
Key == Server \cup Worker
NoSession == [key |-> "none"]
Session == [key: Key, user: User, size: Size, rate: Nat, started: Nat,
            stopped: Nat \cup {Open}, charged: BOOLEAN]

Rate(u, z) == IF u \in Free THEN 0 ELSE Price[z]

Later(a, b) == IF a < b THEN b - a ELSE 0

SessionCost(rate, started, end) == (rate * Later(started, end)) \div TicksPerHour

Need(rate) == (rate * MinTicks) \div TicksPerHour

Rows(tab) == {s \in Sid : tab[s] # NoSession}
OpenRows(tab) == {s \in Rows(tab) : tab[s].stopped = Open}
SumOf(f, S) == MapThenSumSet(LAMBDA s : f[s], S)

\* _close_sessions(con, username, server, stopped, now): `stopped` is Open for None.
(* Faults: rows already closed are closed again; every server of the user is closed. *)
ToCloseAgain(k, u) == {s \in Rows(session) : session[s].key = k /\ session[s].user = u}
ToCloseAnyServer(k, u) == {s \in OpenRows(session) : session[s].user = u}
ToClose(k, u) == {s \in OpenRows(session) : session[s].key = k /\ session[s].user = u}
EndOf(r, stopped) == IF stopped = Open THEN r.started ELSE stopped
CostOf(r, stopped) == SessionCost(r.rate, r.started, EndOf(r, stopped))

ClosedSessions(k, u, stopped) ==
    [s \in Sid |-> IF s \in ToClose(k, u)
                   THEN [session[s] EXCEPT !.stopped = EndOf(session[s], stopped),
                                           !.charged = TRUE]
                   ELSE session[s]]

(* Fault: the charge is posted with its sign in the ledger. *)
PostedUsageSigned(k, u, stopped) ==
    [s \in Sid |-> IF s \in ToClose(k, u) /\ CostOf(session[s], stopped) > 0
                   THEN Append(usage[s], -CostOf(session[s], stopped))
                   ELSE usage[s]]
PostedUsage(k, u, stopped) ==
    [s \in Sid |-> IF s \in ToClose(k, u) /\ CostOf(session[s], stopped) > 0
                   THEN Append(usage[s], CostOf(session[s], stopped))
                   ELSE usage[s]]

\* account(con, username): grants the signup credit, then sums the ledger and
\* what the sessions not yet charged have cost up to now.
Granted(u) == IF u \in welcomed \/ SignupCredit = 0 THEN paid[u] ELSE paid[u] + SignupCredit
Welcome(u) == IF SignupCredit = 0 THEN welcomed ELSE welcomed \cup {u}

RowCharge(use) == [s \in Sid |-> SumOf(use[s], DOMAIN use[s])]
(* Fault: the running cost does not skip sessions already charged. *)
AccruedWithCharged(tab) ==
    [s \in Rows(tab) |->
        SessionCost(tab[s].rate, tab[s].started,
                    IF tab[s].stopped = Open THEN clock ELSE tab[s].stopped)]
Accrued(tab) ==
    [s \in Rows(tab) |->
        IF tab[s].charged THEN 0
        ELSE SessionCost(tab[s].rate, tab[s].started,
                         IF tab[s].stopped = Open THEN clock ELSE tab[s].stopped)]

Account(u, tab, use) ==
    LET mine == {s \in Rows(tab) : tab[s].user = u}
    IN Granted(u) - SumOf(RowCharge(use), mine) - SumOf(Accrued(tab), mine)

Balance(u) == Account(u, session, usage)

Billable(u) == \E s \in OpenRows(session) :
                  session[s].user = u /\ ~session[s].charged /\ session[s].rate > 0
OutOfCredit(u) == Billable(u) /\ Balance(u) <= 0

-----------------------------------------------------------------------------
(* GPUs are counted as units <<holder, i>>, so that a count is the size of a set. *)
UnitsOf(h, z, p) == IF SizePool[z] = p THEN {h} \X (1..SizeGpus[z]) ELSE {}
SessionUnits(tab, p) == UNION {UnitsOf(s, tab[s].size, p) : s \in OpenRows(tab)}
Starting == {k \in Server : choice[k] # NoSize}
(* Fault: starts in flight are not counted. *)
StartingUnitsIgnored(p) == {}
StartingUnits(p) == UNION {UnitsOf(k, choice[k], p) : k \in Starting}
WorkerRows(tab) == {s \in OpenRows(tab) : tab[s].key \in Worker}
WorkerUnits(tab) ==
    UNION {UnitsOf(s, tab[s].size, p) : s \in WorkerRows(tab), p \in Pool}

GpusInUse(tab, p) == Cardinality(SessionUnits(tab, p)) + Cardinality(StartingUnits(p))
WorkerGpusInUse(tab) == Cardinality(WorkerUnits(tab))

Fits(tab, z) ==
    SizePool[z] \in Pool => GpusInUse(tab, SizePool[z]) + SizeGpus[z] <= Cap[SizePool[z]]
CanPay(u, z, tab, use) ==
    Enforce /\ Rate(u, z) > 0 => Account(u, tab, use) >= Need(Rate(u, z))
\* account() runs, and grants the signup credit, only when the check needs it.
SeenIfChecked(u, z) ==
    IF Enforce /\ Rate(u, z) > 0
    THEN paid' = [paid EXCEPT ![u] = Granted(u)] /\ welcomed' = Welcome(u)
    ELSE UNCHANGED <<paid, welcomed>>

NextSid(s) == session[s] = NoSession /\ \A t \in Sid : t < s => session[t] # NoSession
NewSession(k, u, z) == [key |-> k, user |-> u, size |-> z, rate |-> Rate(u, z),
                        started |-> clock, stopped |-> Open, charged |-> FALSE]
-----------------------------------------------------------------------------
Init ==
    /\ clock = 0
    /\ paid = [u \in User |-> 0]
    /\ welcomed = {}
    /\ session = [s \in Sid |-> NoSession]
    /\ usage = [s \in Sid |-> <<>>]
    /\ choice = [k \in Server |-> NoSize]
    /\ server = [k \in Server |-> "stopped"]
    /\ pod = [k \in Server |-> NoSize]
    /\ faults = 0

(* Fault: a row left open by a failed stop hook is not closed by the next start. *)
StartBeginKeepsRow(k, z) ==
    /\ server[k] = "stopped"
    /\ CanPay(Owner[k], z, session, usage)
    /\ Fits(session, z)
    /\ SeenIfChecked(Owner[k], z)
    /\ choice' = [choice EXCEPT ![k] = z]
    /\ server' = [server EXCEPT ![k] = "starting"]
    /\ UNCHANGED <<clock, usage, session, pod, faults>>

(* ZaiSpawner.start up to `await super().start()`.  One transaction: a refusal *)
(* (402, 503) rolls everything back, so only an accepted start is a step.      *)
StartBegin(k, z) ==
    LET u == Owner[k]
        tab == ClosedSessions(k, u, Open)
        use == PostedUsage(k, u, Open)
    IN /\ server[k] = "stopped"
       /\ CanPay(u, z, tab, use)
       /\ Fits(tab, z)
       /\ session' = tab
       /\ usage' = use
       /\ SeenIfChecked(u, z)
       /\ choice' = [choice EXCEPT ![k] = z]
       /\ server' = [server EXCEPT ![k] = "starting"]
       /\ UNCHANGED <<clock, pod, faults>>

(* Kubernetes brings the pod up while start waits, in place of one that a failed *)
(* stop left behind.                                                             *)
PodUp(k) ==
    /\ choice[k] # NoSize
    /\ pod[k] # choice[k]
    /\ pod' = [pod EXCEPT ![k] = choice[k]]
    /\ UNCHANGED <<clock, ledger, session, choice, server, faults>>

(* super().start() returned: the reservation goes and the session row comes, *)
(* with no await between the two.                                            *)
StartDone(k, s) ==
    /\ choice[k] # NoSize
    /\ pod[k] = choice[k]
    /\ NextSid(s)
    /\ session' = [session EXCEPT ![s] = NewSession(k, Owner[k], choice[k])]
    /\ choice' = [choice EXCEPT ![k] = NoSize]
    /\ server' = [server EXCEPT ![k] = "running"]
    /\ UNCHANGED <<clock, ledger, pod, faults>>

(* The INSERT raised (a locked or full database): logged, and the server runs on. *)
StartUnrecorded(k) ==
    /\ faults < MaxFaults
    /\ choice[k] # NoSize
    /\ pod[k] = choice[k]
    /\ choice' = [choice EXCEPT ![k] = NoSize]
    /\ server' = [server EXCEPT ![k] = "running"]
    /\ faults' = faults + 1
    /\ UNCHANGED <<clock, ledger, session, pod>>

(* super().start() raised or timed out: `finally` drops the reservation and the *)
(* hub stops whatever was created.                                              *)
StartFails(k) ==
    /\ choice[k] # NoSize
    /\ choice' = [choice EXCEPT ![k] = NoSize]
    /\ server' = [server EXCEPT ![k] = "stopping"]
    /\ UNCHANGED <<clock, ledger, session, pod, faults>>

(* Fault: only an overdrawn owner is stopped. *)
PollOverdrawn(k) ==
    /\ Enforce
    /\ server[k] = "running"
    /\ pod[k] # NoSize
    /\ Billable(Owner[k])
    /\ Balance(Owner[k]) < 0
    /\ server' = [server EXCEPT ![k] = "stopping"]
    /\ UNCHANGED <<clock, ledger, session, choice, pod, faults>>

(* poll() finds the owner out of credit and starts `await self.stop()`. *)
PollOutOfCredit(k) ==
    LET u == Owner[k]
    IN /\ Enforce
       /\ server[k] = "running"
       /\ pod[k] # NoSize
       /\ OutOfCredit(u)
       /\ paid' = [paid EXCEPT ![u] = Granted(u)]
       /\ welcomed' = Welcome(u)
       /\ server' = [server EXCEPT ![k] = "stopping"]
       /\ UNCHANGED <<clock, usage, session, choice, pod, faults>>

(* The hub stops a running server: its pod is gone, or a user or the culler asked. *)
StopAsked(k) ==
    /\ server[k] = "running"
    /\ server' = [server EXCEPT ![k] = "stopping"]
    /\ UNCHANGED <<clock, ledger, session, choice, pod, faults>>

PodGone(k) ==
    /\ pod[k] # NoSize
    /\ pod' = [pod EXCEPT ![k] = NoSize]
    /\ UNCHANGED <<clock, ledger, session, choice, server, faults>>

(* run_post_stop_hook: close the server's sessions now and post their charge.  It *)
(* runs in the stop's `finally`, so a stop that raised is recorded like any other *)
(* and may leave the pod behind.                                                  *)
PostStop(k) ==
    /\ server[k] = "stopping"
    /\ IF pod[k] = NoSize THEN UNCHANGED faults ELSE faults < MaxFaults /\ faults' = faults + 1
    /\ session' = ClosedSessions(k, Owner[k], clock)
    /\ usage' = PostedUsage(k, Owner[k], clock)
    /\ server' = [server EXCEPT ![k] = "stopped"]
    /\ UNCHANGED <<clock, paid, welcomed, choice, pod>>

(* The hook's transaction raised: logged, and the row stays open. *)
PostStopUnrecorded(k) ==
    /\ faults < MaxFaults
    /\ server[k] = "stopping"
    /\ server' = [server EXCEPT ![k] = "stopped"]
    /\ faults' = faults + 1
    /\ UNCHANGED <<clock, ledger, session, choice, pod>>

(* The hub process dies and comes back: `_starting` is empty again, servers whose *)
(* pod runs are re-adopted, the others are stopped.                               *)
HubRestart ==
    /\ faults < MaxFaults
    /\ faults' = faults + 1
    /\ choice' = [k \in Server |-> NoSize]
    /\ server' = [k \in Server |-> CASE server[k] = "stopped" -> "stopped"
                                     [] server[k] # "stopped" /\ pod[k] # NoSize -> "running"
                                     [] OTHER -> "stopping"]
    /\ UNCHANGED <<clock, ledger, session, pod>>

(* add_credit: a top-up or an adjustment, then account() for the new balance. *)
AddCredit(u, amount) ==
    /\ amount # 0
    /\ Granted(u) + amount \in -MaxPaid..MaxPaid
    /\ paid' = [paid EXCEPT ![u] = Granted(u) + amount]
    /\ welcomed' = Welcome(u)
    /\ UNCHANGED <<clock, usage, session, hubView, faults>>

(* Any page or API call that shows the balance grants the signup credit. *)
ShowAccount(u) ==
    /\ paid' = [paid EXCEPT ![u] = Granted(u)]
    /\ welcomed' = Welcome(u)
    /\ UNCHANGED <<clock, usage, session, hubView, faults>>

(* POST workers/open: synchronous, so checks and INSERT are one step. *)
WorkerOpen(w, u, z, s) ==
    /\ ~\E t \in OpenRows(session) : session[t].key = w
    /\ CanPay(u, z, session, usage)
    /\ SizePool[z] \in Pool => WorkerGpusInUse(session) + SizeGpus[z] <= SvMaxGpus
    /\ Fits(session, z)
    /\ NextSid(s)
    /\ session' = [session EXCEPT ![s] = NewSession(w, u, z)]
    /\ SeenIfChecked(u, z)
    /\ UNCHANGED <<clock, usage, hubView, faults>>

(* POST workers/close: idempotent, so only the call that finds the row is a step. *)
WorkerClose(w) ==
    \E t \in OpenRows(session) :
        /\ session[t].key = w
        /\ session' = ClosedSessions(w, session[t].user, clock)
        /\ usage' = PostedUsage(w, session[t].user, clock)
        /\ UNCHANGED <<clock, paid, welcomed, hubView, faults>>

Tick ==
    /\ clock < MaxTime
    /\ clock' = clock + 1
    /\ UNCHANGED <<ledger, session, hubView, faults>>

Next ==
    \/ \E k \in Server, z \in Size : StartBegin(k, z)
    \/ \E k \in Server, s \in Sid : StartDone(k, s)
    \/ \E k \in Server : \/ PodUp(k)
                         \/ StartUnrecorded(k)
                         \/ StartFails(k)
                         \/ PollOutOfCredit(k)
                         \/ StopAsked(k)
                         \/ PodGone(k)
                         \/ PostStop(k)
                         \/ PostStopUnrecorded(k)
    \/ HubRestart
    \/ \E u \in User, a \in Amounts : AddCredit(u, a)
    \/ \E u \in User : ShowAccount(u)
    \/ \E w \in Worker, u \in User, z \in Size, s \in Sid : WorkerOpen(w, u, z, s)
    \/ \E w \in Worker : WorkerClose(w)
    \/ Tick

Spec == Init /\ [][Next]_vars

(* The hub polls every running server (every 30 s), stops one whose pod is gone *)
(* or whose owner is out of credit, and finishes a stop it began.               *)
Fairness ==
    \A k \in Server : /\ WF_vars(PollOutOfCredit(k))
                      /\ WF_vars(pod[k] = NoSize /\ StopAsked(k))
                      /\ WF_vars(server[k] = "stopping" /\ PodGone(k))
                      /\ WF_vars(pod[k] = NoSize /\ PostStop(k))

FairSpec == Spec /\ Fairness
-----------------------------------------------------------------------------
TypeOK ==
    /\ clock \in Nat
    /\ paid \in [User -> Int]
    /\ welcomed \subseteq User
    /\ session \in [Sid -> Session \cup {NoSession}]
    /\ usage \in [Sid -> Seq(Nat)]
    /\ choice \in [Server -> Size \cup {NoSize}]
    /\ server \in [Server -> {"stopped", "starting", "running", "stopping"}]
    /\ pod \in [Server -> Size \cup {NoSize}]
    /\ faults \in 0..MaxFaults

RunningUnits(p) ==
    UNION {UnitsOf(k, pod[k], p) : k \in {j \in Server : server[j] = "running" /\ pod[j] # NoSize}}
Recorded == {k \in Server : pod[k] # NoSize /\ \E s \in OpenRows(session) : session[s].key = k}
RecordedUnits(p) == UNION {UnitsOf(k, pod[k], p) : k \in Recorded}
WorkerUnitsOf(p) == {x \in SessionUnits(session, p) : x[1] \in WorkerRows(session)}

(* Notebooks running that have a row, notebooks being started and workers never *)
(* hold more GPUs of a pool than it has, and workers never more than            *)
(* serverless.max_gpus, faults and restarts included: the checks of             *)
(* ZaiSpawner.start and of WorkerOpenAPI race each other, and the reservation   *)
(* in `_starting` spans an await.  Neither the code nor this bound counts a     *)
(* notebook that runs without a row (its INSERT failed, the hub restarted       *)
(* during its start, or its stop raised): with one, more may run than there is. *)
AdmissionWithinCapacity ==
    /\ \A p \in Pool : Cardinality(RecordedUnits(p)) + Cardinality(StartingUnits(p))
                            + Cardinality(WorkerUnitsOf(p)) <= Cap[p]
    /\ WorkerGpusInUse(session) <= SvMaxGpus

(* Each session is charged at most once, only when it ends, and then exactly    *)
(* its cost at the price recorded at its start: double stops, a stop during a   *)
(* restart and a left-open row closed by the next start charge nothing twice.   *)
ChargedExactlyOnce ==
    \A s \in Sid :
        /\ usage[s] # <<>> => session[s] # NoSession /\ session[s].stopped # Open
        /\ s \in Rows(session) =>
              LET cost == SessionCost(session[s].rate, session[s].started, session[s].stopped)
              IN /\ session[s].charged <=> session[s].stopped # Open
                 /\ session[s].charged =>
                       usage[s] = (IF cost > 0 THEN <<cost>> ELSE <<>>)

(* A server or a worker has at most one open session, whatever fails: a start *)
(* closes what a failed stop hook left, and a second workers/open is a 409.   *)
OneOpenSessionPerKey ==
    \A s, t \in OpenRows(session) : session[s].key = session[t].key => s = t

(* No moment of a server or of a worker is on two bills: of two sessions of a  *)
(* key one ended no later than the other began, although a row whose stop hook *)
(* failed is closed by the next start, and its end was never seen.             *)
Before(r, q) == r.stopped # Open /\ r.stopped <= q.started
NoMomentBilledTwice ==
    \A s, t \in Rows(session) :
        s # t /\ session[s].key = session[t].key =>
            Before(session[s], session[t]) \/ Before(session[t], session[s])

(* Only time takes money: as long as the clock stands, a balance moves by the  *)
(* credit that is granted, added or taken back and by nothing else, closing a  *)
(* session turning what it accrued into its charge to the micro.  The one step *)
(* that moves it otherwise gives money back: a start that closes, at its own   *)
(* beginning, a row that a failed stop hook left open.                         *)
ChargingKeepsBalance ==
    [][clock' = clock =>
          \A u \in User :
              \/ Balance(u)' - Balance(u) = Granted(u)' - Granted(u)
              \/ /\ Balance(u)' - Balance(u) > Granted(u)' - Granted(u)
                 /\ \E k \in Server : Owner[k] = u /\ server[k] = "stopped"
                                      /\ server'[k] = "starting"]_vars

(* "A running server is charged ... from when it is ready until it stops"      *)
(* (docs/PLATFORM.md): a server the hub calls running has an open session.     *)
RunningIsBilled ==
    \A k \in Server : server[k] = "running" =>
                         \E s \in OpenRows(session) : session[s].key = k

(* The books agree with the cluster until a first database failure or hub      *)
(* restart: what runs is billed, and running notebooks and admitted workers,   *)
(* with no notebook left out, fit the GPUs there are.                          *)
BooksMatchCluster ==
    faults = 0 =>
        /\ RunningIsBilled
        /\ \A p \in Pool : Cardinality(RunningUnits(p)) + Cardinality(WorkerUnitsOf(p)) <= Cap[p]

(* "When a balance reaches zero, that user's server is stopped": once its owner *)
(* is out of credit a running server stops, unless the owner is topped up or    *)
(* nothing of theirs is billed any more.                                        *)
OutOfCreditStops ==
    \A k \in Server :
        (Enforce /\ server[k] = "running" /\ OutOfCredit(Owner[k]))
            ~> (server[k] = "stopped" \/ ~OutOfCredit(Owner[k]))
=============================================================================
