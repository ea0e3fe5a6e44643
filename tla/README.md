# A verified model of the ZAI platform

The repository turns one GPU server into a small cloud: JupyterHub with
prepaid credit, GPU slices shared by notebooks, a serverless gateway that runs
customers' jobs on demand, online payments, and the account services around
them. This directory models the parts of it that keep state and run
concurrently, checks them with TLC and proves what matters most with TLAPS.
All paths below are relative to the repository.

## 1. The system

### Components

| Component | Source | State it keeps | Operations |
|---|---|---|---|
| Hub billing and admission | `hub-ext/zai_platform.py` | tables `sessions`, `ledger`; `_starting` in memory | start, poll and stop of a notebook server; `workers/open`, `workers/close`, `workers/accounts`; add credit; balances |
| Credit requests | `hub-ext/zai_credit.py` | table `zai_credit_requests` | ask, withdraw, approve, decline |
| Online payments | `hub-ext/zai_payments.py` | table `zai_payments`; top-ups in `ledger` | start a payment, check one, the background pass, apply an answer |
| Serverless gateway | `serverless/gateway.py` | tables `endpoints`, `jobs`, `workers`, `stream`; cached accounts | create and delete endpoints; run, status, cancel, purge; job-take, job-done; the control loop |
| Worker runtime | `serverless/runtime/zai_serverless.py` | none that outlives the worker | take a job, run the handler, stream its yields, return the result |
| Caimex accounts | `hub-ext/zai_caimex.py` | link to an account, grants given | sign-in, membership, allowance pass |
| Password reset | `hub-ext/zai_reset.py` | table of links; request limits in memory | ask for a link, use it |
| Two-factor sign-in | `hub-ext/zai_2fa.py` | secret of a user; steps used and sign-ins waiting, in memory | enrol, sign in, turn off |
| Access requests and teams | `hub-ext/zai_access.py` | applications | save at sign-up, show, forget with the account |
| Usage pages | `hub-ext/zai_myusage.py` | none | read-only report |
| Meter | `sites/cpt-gpu170/meter/meter.py` | minute samples, budgets, adjustments | sample, backfill, answer what a user has used |
| Budget watcher | `sites/cpt-gpu170/values.yaml` | notices given | approve with hours, check before a start, warn, stop |
| Client, scripts, images, templates | `cli`, `scripts`, `images`, `templates` ... | none shared | install, call the APIs, lay out pages |

### How they interact

* The hub is one asyncio process; all `hub-ext` modules run in it and share its
  SQLite database. A transaction holds no `await`, so interleavings happen only
  between one `await` and the next. `ZaiSpawner.start` checks credit and
  capacity, reserves GPUs in `_starting`, awaits the pod, and writes the
  session row. Workers' sessions share the capacity check.
* The gateway is another asyncio process with its own SQLite file. For each
  worker it asks the hub for a session (`workers/open`), creates a pod in
  Kubernetes, and closes the session once the pod is gone. It learns of credit
  by asking `workers/accounts` every few seconds. Workers call it back
  (`job-take`, `job-done`); customers call it over HTTP.
* Credit requests paid online go through an external provider. The return
  page, the *Check payment* button, the webhook and the background pass all
  ask the provider for a payment's status and apply the answer.
* Caimex is an external service. The hub registers a user there in the
  background of a sign-in, and a pass over the members caps each of them once.
* Sign-in and password reset share the check of an authenticator code and its
  memory of used steps.
* The meter is a process of its own. The hub sets budgets there when an
  account is approved, asks it before a GPU server starts, and its watcher asks
  it about every server that runs.

### What is hard

Checks made before an `await` and relied upon after it (a start, a worker's
admission, the control loop's lists); answers that arrive late, twice or never
(payments, pod creation, session closing); restarts between two stores (hub and
gateway, provider and hub); partial failures (a pod deletion, a database
write); and things that must eventually happen (a job finishes, a paid request
is credited, a stopped worker stops being billed). `PROJECT.json` lists each
hazard at its line with the properties aimed at it.

### What makes each component correct

* Billing: what has a row or a reservation never holds more GPUs than there
  are, and until a fault that is everything that runs; a session is charged
  once, exactly; a key has one open session; who is out of credit stops.
* Payments: a request is credited once and only when the provider says that it
  was paid, for the amount asked where the answer tells it; a user has one
  waiting request; paid means credited, failed means free to try again.
* Gateway: a job is queued, handed out, returned at most once and finished for
  good; every job finishes; pods, rows and sessions stay related; a stopped
  worker disappears and is not billed; an owner out of credit runs nothing.
* Runtime: a job that completed has its whole stream, and who was told that it
  is finished has read all of it, although calls are lost, late and repeated.
* Caimex: the allowance is given once per person, and every member is capped.
* Sign-in and reset: a code works once; two-factor sign-in is on only with a
  secret that was proved; one reset link works; a password reset ends the
  links and the devices of before, a sign-in just being answered excepted. The
  change-password pages end neither.
* Meter: every minute of a pod that can be proved is counted, and no other.
  Budget: nobody's server is stopped before a whole grace period over budget.

## 2. Plan

The modules were written in the order in which a mistake costs users money or
work: `HubBilling` (sessions, ledger, admission), `Payments` over the abstract
`CreditPromise`, `Gateway` over the abstract `JobLifecycle`, `Caimex` (the
allowance and its record), `SignIn` (links, codes, devices), `Meter` and
`Access` composed by `Budget`, and `Runtime` (streams and results). All of them
are written, and every safety property and action property that a run checks
is proved.

What is left, in this order: a composition of `Gateway` and `HubBilling` on the
session calls (the gateway's view of a session against the hub's row); changes
of an endpoint's settings and the purge of old jobs in `Gateway`, with the limit
of workers (`LimitHolds`) proved again under them; the registered
webhook and the checkout address in `Payments`; the meter's reports against its
samples.

## 3. The modules

### HubBilling

`session` and `usage` are the tables `sessions` and the usage rows of `ledger`;
`paid` and `welcomed` are the rest of the ledger; `choice` is `_starting`;
`server` and `pod` are JupyterHub's and Kubernetes' views. `StartBegin` is
`ZaiSpawner.start` up to `super().start()`: one transaction with
`_close_sessions`, credit and capacity. `StartDone`, `StartFails` and
`StartUnrecorded` are its three ends. `PollOutOfCredit` is `poll`, `PostStop`
the post-stop hook, which runs in the stop's `finally` and so also for a stop
that raised and left its pod behind (a fault). `WorkerOpen` and `WorkerClose`
are the two worker handlers, `AddCredit` and `ShowAccount` the calls that touch
an account. GPUs are counted as units `<<holder, i>>`, so a count is the size of
a set: `GpusInUse` is what the code counts, rows and reservations,
`RecordedUnits` what the pods with an open row really hold, and `RunningUnits`
what all running notebooks hold, recorded or not.

### Payments and CreditPromise

`request` and `payment` are the two tables, `credit` the top-ups in the ledger,
`start`, `check` and `sweep` the tasks that wait for the provider, `prov` and
`short` what the provider knows. `RequestAfter`, `PaymentAfter` and
`CreditAfter` are the three effects of `_pay_apply`. An answer says whether
another amount came, or says nothing of the amount: for the requests in
`Silent`, of which the provider may leave it out. Between a question and
what is done with its answer everything else may happen, a second check of the
same payment included. `CreditPromise` says only where a request stands and
whether its credit was received; `Payments!Promise` is the refinement mapping.

### Gateway and JobLifecycle

`endpoint`, `job`, `worker` are the tables; `seen` the owners the last
`accounts` answer showed out of credit; `deletes` the pod deletions in flight;
`pod`, `session` and `broke` are Kubernetes' and the hub's state.

`tick` holds where the control loop is: the phase, the pods as listed at the
start of the round, the items its current `for` has left, the workers it has
still to stop, and the call it waits for. A lost answer of `workers/open` is no
`HubError` and ends the round. An item is taken in the same step as
the query that found it when it is the first, and from the stale list when it
is not, as in the code: `Items` says which. `StopsAll` is the loop around
`stop_worker`: its UPDATE is immediate, the deletion is awaited, the next
worker follows after the answer. Handling an answer (`KillReturns`,
`CloseReturns`, ...) and turning to the next item are two steps; the first
changes nothing that a caller reads, except a queue failed with its answer.

`now` is read once per round, so timeouts pass only in `TickLists`, and
`TimesRestart` takes a job or worker out of `due` when its status changes. An
execution timeout is counted from `started`, an idle timeout from
`last_active`, a start timeout from `created`. A worker that becomes idle by an
empty `job-take` keeps its `last_active`, so its idle timeout may have passed.

`JobLifecycle` says what a job may go through: queued, handed out, returned
once, finished once.

Streams are in `Runtime`. Not in the model, because no property needs them: the
purge of finished jobs and old workers, result sizes (a refused result fails the job
as `JobDone` with FAILED), the lookup of the home volume (its failure does
nothing), wake-up events (a waiting poll is a `JobTake` at any time), and a
restart between two auto-committed statements with no `await` in between.

### Runtime

The program in a worker with the gateway's side of its calls. `run` is where a
runtime stands: asking for a job (`Takes`), running its handler (`Streams` once
per yield, `HandlerEnds`), posting the result (`Posts`, up to `Tries` times), or
ended. A call that is given up goes to `late`, from where it may still arrive
(`LateArrives`), before or after what follows it. `Accepts` is the condition of
the gateway's UPDATE and of its stream handler; `stream` is its table; `Reads`
is the customer's reader. `Abandoned`, `StopsWorker`, `PodEnds` and `WorkerGone`
are what the control loop does to jobs and workers, reduced to what a call can
notice; `Gateway` has it in full. A job may stand in the queue when a behaviour
begins, so `JobLifecycle` lets it begin queued as well as unsubmitted; that late
and repeated results keep to it too is `Runtime!ImplementsJobs`.

### Caimex

`account`, `member`, `exempt` and `cap` are Caimex's, and move by themselves
(`CaimexMoves`, `Join`, `Leave`). `status`, `auto` and `granted` are the hub's
tables. `task` is the background task of a sign-in, over its three calls; each
call reaches Caimex or not, and is answered or not (`RegisterReaches`,
`RegisterAnswers`, `RegisterFails` ...). `sweep` is the allowance pass: the list
it read, who had been granted by then, and the member whose cap was set and is
not yet recorded. `SweepCaps` is one PATCH, `SweepRecords` the INSERT after it.

### SignIn

`zai_2fa.py` and `zai_reset.py` together, since a reset takes a code. `step` is
the 30 s step, `lastUsed` the dict of used steps, `waiting` the tickets of the
two-step sign-in, `post` the requests with a code over their `await`, `link`
the table of links. `Verifies` and `Accepts` are `verify`, which every handler
calls. Passwords are numbered, and `devices` remembers with which of them a
device was signed in. `CodeArrives`, `CodeJudged` and `CodeAnswered` are the
parts of `SignInCodeHandler.post` between its awaits, `Login` and `LoginDone` those of a
sign-in in one form: `login_user` judges the credentials, awaits, and sets the
cookie with the `cookie_id` of then. `PageChanges` is a password changed on the
change-password pages, which leave devices and links alone; `lastReset` is the
password the last complete reset set, and `late` the sign-ins that it found
already judged. The lockout is the authenticator's.

### Meter, Access and Budget

`Meter` is the sampler: `Lists` reads the pods, `Records` is the transaction that
writes the heartbeat, the samples and the backfill (`_backfill` as the set
`Missed`), and everything else may happen in between. `Access` is sign-up with
an application and the deletion of the account. `Budget` extends both with the
hub's part: `Approves` (budget first, account second), `Starts` (the check
before a GPU server), and the watcher: `Asks` up to its await, `Judges` what it
does with the answer (`Step` and `StopDue` are `_bw_step`), `WatcherStops` and
`StopFails` the stop. Time is counted in minutes and a month has `MonthLength`
of them, so that it turns within a behaviour.

## 4. The runs

| Run | What it shows | Bounds |
|---|---|---|
| `hub_admission` | what is recorded, starting or a worker's fits the GPUs; until a fault nothing runs unrecorded; with races of starts and workers | 2 servers, 2 workers, 1 pool of GPUs, 3 sessions, 2 faults |
| `hub_credit` | types, exact single charging, no moment billed twice, what may move a balance, out of credit stops | 1 server, 1 worker, a clock, priced sizes |
| `hub_unrecorded` | **violated**: a running server without a session row after a failed INSERT | 1 fault |
| `payments_safety` | types, single crediting, credit only for what the provider says was paid, one waiting request, implements `CreditPromise` | 1 user, 2 requests, answers about one of which may leave the amount out, 1 check beside the background pass, 1 restart |
| `payments_settle` | the background pass alone credits what was paid and frees who failed | 2 requests, no other check, 1 restart |
| `gateway_jobs` | types, no worker busy without a job, sessions known, jobs at live workers, unbilled pods are orphans, an owner out of credit runs nothing, jobs implement `JobLifecycle` | 2 workers; either 2 jobs in batches of 2, or 1 job with a fault of any kind, credit lost and regained, and ended pods that stay until they are deleted |
| `gateway_live` | every job finishes, every stopped worker disappears and is closed | 1 job, 1 worker, 2 faults |
| `gateway_idle` | **violated**: a worker with a batch is stopped as idle while it works | 2 jobs, 1 worker |
| `caimex` | the allowance once, a refused password once, the direct way in only for whom Caimex knows, every member capped at last | 1 user of the hub and 1 guest, 2 memberships, 3 moves at Caimex, 1 fault |
| `sign_in` | types, codes used once, two-factor sign-in proven, a reset signs devices out, one link, a reset ends links | 1 user, 2 links, 2 tickets, 2 requests at once, 2 secrets; 3 of: links, secrets, steps, changes, faults, a request in flight |
| `budget` | filled minutes provable, no minute missed, applications of their own account, stops after the grace period | 1 user, 2 pods, 5 minutes, months of 3, backfill of 1, 4 events |
| `runtime` | a completed job's stream is whole, a told customer has read it, jobs implement `JobLifecycle` | 2 workers, 2 jobs, 2 yields, 2 tries, 2 lost calls, 3 rare events |

Every property has a mutant: a definition of the model changed the way a bug
would change the code, under which the run finds the property violated. The
mutants stand beside the definitions they replace, marked *Fault*.

### Why these bounds

The races in the hub are between two holders for the last GPUs, in one pool;
a third only repeats them. A payment is applied by at most two answers at a
time (a check and the pass) and a user's requests interact in pairs. In the
gateway the stale lists need two items: two jobs, or two workers. A fault of
each kind can be met once (`Fails`); one or two at a time show whether the
loop's retries repair it. At Caimex a person joins, leaves and joins again, and
the pass meets a second member behind the first. In `sign_in` two requests with
a code race over two tickets, and a newer link over an older one. In `budget`
five minutes hold an outage, its end, a grace period and a new month, and two
pods a replacement or a pod beside the meter's restart. In `runtime` a job meets
a second worker, and a worker a second job, after the first attempt's calls.

Counters (`MaxFaults`, `MaxRestarts`, `MaxMoves`, `MaxTime`, `MaxPaid`,
`MaxMinute`, `MaxStep`, `MaxSecret`, `MaxJoins`, `MaxHolders`) and the sets of
ids (`Sid`, `Rid`, `Job`, `Worker`, `Link`, `Ticket`, `Pod`) bound what the
environment does, never what the code does: when ids run out, no more rows are
created. The constraints of the MC modules (`TwoJobsOrAFault`, `FewEvents`)
bound how many rare things meet in one behaviour, and are used with safety
properties only. Pods, workers and requests are symmetric where the runs check
no liveness. Only `runtime` switches deadlock checking off: there all workers
may have left or died, and nobody starts more than the set holds.

### Fairness

* Hub: JupyterHub polls every running server and finishes a stop that began
  (`HubBilling!Fairness`). Starts, users and faults are not fair.
* Payments: the background pass runs for as long as the hub does, and a
  question ends (20 s timeout). The provider does answer a payment's question
  at last if asked again and again; the other checks need not happen.
* Caimex: the pass is repeated every minute (`SweepWorks`), and the service
  login is tried again 300 s after it was refused (`ServiceRetries`). Sign-ins,
  members and administrators are not fair, and faults are finitely many.
* Gateway: the control loop goes on (`run_loop` catches every exception),
  time passes, so a timeout that stands is met by some round (strong
  fairness of `TickLists` for each job and worker), a delete request arrives
  or fails, and Kubernetes ends a deleted pod. Nothing is assumed of
  callers, workers or of pods coming up. Faults are finitely many.

## 5. What is proved

`HubBillingProofs` (all constants arbitrary, from `HubAssumption`):

* `TypeCorrect`: `TypeOK` is inductive; the work is in `CloseTypes` and
  `SessionCostNat` (a charge is a natural number).
* `AdmissionSafe` in two halves. What the code counts fits (`RowsFit`, inductive
  with `TypeOK`): each action either drops units (`ClosingFreesUnits`,
  `FewerUnits`) or adds those its own check allowed (`AddRow`, `MoreUnits`), and
  `StartDone` moves units from `_starting` to the table, which is why both are
  counted. And what runs with a row holds what the row says (`PodsMatchRows`):
  a pod comes up only for a start, which by `SessionInv` below has no row yet,
  and the row is given the size the pod came up with. So the units of recorded
  notebooks map one to one into those of rows that are not a worker's
  (`RecordedFit`). Nothing is claimed of notebooks without a row.
* `ChargingSafe`: each row is open and uncharged or closed and charged its
  exact cost.
* `OneOpenSession` needs the stronger `SessionInv`: a server whose start is in
  flight has no open row, so `StartDone` cannot add a second.
* `BilledOnce` (`NoMomentBilledTwice`) adds `Timely` to it, that no row begins or
  ends later than the clock. Rows of one key are made only when the others of it
  are closed, and a closed row never changes (`ClosedFollow`), so the new one
  begins where all of them have ended (`OpeningKeepsSpans`); closing a row ends
  it no earlier than it began (`ClosingKeepsSpans`).
* `BalanceKept` (`ChargingKeepsBalance`): a balance is what was granted minus
  what the user's rows owe, posted or still accruing (`BalanceOwed`). `Settled`,
  which is `ChargedExactlyOnce` said of any two tables, gives what a row owes:
  its cost up to the clock while it is open, its charge afterwards (`RowOwes`).
  Closing a row at the clock leaves that as it is and closing it at its own
  start, as a start does with a row left open, makes it nothing
  (`ClosingOwes`); a new row owes nothing yet (`NewRowOwes`). `OwedCompares`
  carries this from rows to sums.
* `BooksMatch` needs `Booked`: until a first fault a size is reserved only while
  its server starts, and a running server has an open row, which others' changes
  leave there (`RowSurvives`). Then all running notebooks are recorded ones, and
  `AdmissionSafe` bounds them.

`SumOf` is the community modules' fold over a set, which is defined by recursion.
The library's induction theorems take an operator and cannot be used here, so
the lemmas on sums argue by smallest counterexamples: proper inclusion is
well-founded on the subsets of a finite set, so a nonempty family of subsets has
a smallest member (`Smallest`), and what holds of a set whenever it holds of all
sets with one element less holds of all (`BySmaller`). On this rest that a fold
exists (`SumExists`), takes one element at a time (`SumStep`), the same whichever
element that is (`SumWithout`, `SumWith`), and that sums compare as their terms do
(`SumsCompare`).

`PaymentsProofs` (all constants arbitrary, from `PaymentsAssumption` and
`NothingAssumption`; the second says that "no row" is not a row):

* `PaymentsTyped`: `TypeOK` is not inductive, because an answer is applied to
  whatever row its task names. The strengthening is `Wellformed`, `TypeOK` with
  `References`: a task's payment has a row, a payment has its online request,
  a payment being created has no row yet, and a known payment exists at the
  provider. `TurnWellformed` does the background pass.
* `StepKinds` reduces every step to what it does to a request's rows: asking,
  deciding, applying an answer (the pass may close others in the same step),
  or resting, where requests are at most closed and no credit mark moves. The
  four theorems below argue over these four kinds.
* `SingleCredit`: `CreditedOnce`, as `AllAgree` over the rows of each request.
  `credited` is tested in the transaction that sets it, so an online request
  that credits had no top-up; the administrator never decides such a request.
* `OnlyPaid`: needs `Truths`, that a task which heard of a success heard what was
  true and still is, since money that came can only be refunded; and that it
  heard of another amount if there was one, unless the request is in `Silent`.
  With `Silent` empty this is the claim of `docs/PAYMENTS.md`.
* `OneWaitingRequest`: only `Ask` makes a request wait (`OnlyAskWaits`).
* `KeepsPromise`: the refinement of `CreditPromise`. A step that credits is
  `Grant`, `Ask` is `Ask`, and every other step is `Close`, of no request when
  it is a stutter.

`GatewayProofs` and `GatewaySafetyProofs` (from `GatewayAssumption`):

* `TypeCorrect`: `TypeOK` alone is not inductive, because the loop acts on
  lists it read before. `Typed` adds that what it has still to do, and whom it
  stops, has a row.
* `JobsLiveOnce`: `JobMoves` reduces each step to what it does to one job or to
  the jobs of a worker or an endpoint, and each of these is a step of
  `JobLifecycle` or a stutter.
* The safety theorems argue over `StepKinds`: most steps only settle something
  (jobs finish or are handed to a worker that serves, workers stop serving).
  All use `LoopKnows`, what the loop knows over each of its awaits: who is being
  started has no row yet, and whose session is closed or whose stray pod is
  deleted is gone. `PodsAreBilled` follows pods that hold a GPU (`HoldsGpu`),
  which only the gateway makes, and only after the hub's admission.
  `SessionsAreKnown` needs `Remembered`: an open session is in its row, or
  belongs to the call in flight. `JobsStayWithTheLiving` needs `Placed`: a job
  in progress is at a worker that has a row, of its own endpoint, and that is
  not gone. `NobodyRunsOnCredit` needs `CreditKnows`: the owners the credit step
  is done with have no job, and serve with nobody but those it has still to
  stop. `BusyWorkersWork` needs `Occupied`, that a busy worker without a job is
  one that a deletion or the loop will stop.
* `LimitHolds` says that no endpoint has more serving workers than its
  `max_workers`. The comparison is made before `workers/open` is awaited, so the
  invariant (`WithinLimit`) adds that there is room for as long as a worker is
  being started: only the control loop starts one, it awaits each start, and
  nothing else makes a worker serve (`ActiveShrinks`, `OpensFollow`). No run
  lists it: their workers are as many as their limits, so that other races meet.

`CaimexProofs` (from `CaimexAssumption`): `AllowanceOnce` needs
`GiftsAreRecorded`, that every allowance given is on record, about to be
recorded or kept off the record by a fault, and `SweepSound`, that the list of
a pass stays right while it waits, because only the pass writes grants.
`KnockingEnds` and `OffersAreUseful` need `AccountsExist` and
`TriesAreRemembered`: what a row and a running task say of the account is so.

`SignInProofs` (from `SignInAssumption`): `AllTyped` adds to `TypeOK` that no
live ticket or link has used up its wrong codes. `CodesAreUsedOnce` needs
`CodesPast`: an accepted code belongs to an older secret or is not later than
the last one, and wherever the last one is forgotten the secret is new or the
hub was restarted. `OnWasProven`, `ResetsSignOut`, `LinksAreSingle` and
`ChangesSpendLinks` are each shown over the few ways in which a step moves the
setting, the devices or the links (`SettingMoves`, `DevicesMove`, `LinksMove`).

`BudgetProofs` (from the assumptions of `Meter`, `Access` and `Budget`):
`Typed` bounds the clock; `Follows` says that an application without an
account, or of another one, takes failed writes; `Warned` that a final warning
is no older than the stretch of looks over budget, by which the grace period is
measured; `Counted` that times are in order (`Ordered`) and that a pod that runs,
or is in the pass in progress, has a sample for every recorded minute since it
ran (`Told`). `MeterSteps` reduces the steps that touch the meter to five kinds.
These proofs hold for any number of pods and for any month, grace and backfill.

`RuntimeProofs` (from `RuntimeAssumption`): `Typed` adds to `TypeOK` that a
runtime that runs or posts has a job and tries left. `StepKinds` reduces the
steps to calls sent, jobs handed out and the rest, and `EveryJobStep` to what
each does to one job. `FinishedRead` needs `ToldAll`: the job stays finished,
and the stream of a finished job is not appended to. `WholeStreams` needs two
more: `Holding`, that a worker with anything to do with a job (its chunks, its
late calls, its run) has it until the worker is gone, and so finds a job that is
handed to it untouched; and `InOrder`, what stands behind a call while it would
be taken (`Vouches`): a run has streamed exactly the yields before its own with
no call late, and a result that says COMPLETED, posted or late, has the whole
stream and no late chunk behind it. The one exception is a chunk that was
refused, which the runtime does not notice. `JobsLiveOnce` shows that every step
is one of `JobLifecycle` or a stutter: a result, late or repeated, counts only for
a job in progress at its worker, and only a job that was never returned goes
back to the queue (`Retried`).

Left to TLC is liveness, which is out of this prover's reach: `OutOfCreditStops`,
`PaidIsCredited`, `FailedFreesUser`, `EveryJobFinishes`, `StoppedEnds` and
`EveryMemberCapped`. The other way round, `OneOpenSessionPerKey`,
`WorkersWithinLimit` and the types of `budget` and `runtime` are proved and not
listed in a run.

## 6. What the code does differently from its documents

Shown by a run:

* A server whose session row cannot be written runs free of charge, and so does
  one in whose start the hub restarted (`hub_unrecorded`). Its GPUs are counted
  by nobody, so notebooks and workers may then hold more than there are, although
  `zai_platform.py:1088-1090` says that "the two can never oversubscribe the
  slices between them"; a stop that raises and leaves its pod does the same.
  `AdmissionWithinCapacity` names this limit, and `BooksMatchCluster` says that
  before a fault it is never met.
* `job-done` makes a worker idle whatever else it runs (`gateway_idle`).

Seen while modelling, and kept in the models as the code has it:

* `docs/PAYMENTS.md:114-115` says that the hub credits only when the amount
  matches. `zai_payments.py:272` compares the amount only when the answer has
  one, and credits what was asked for when it has none.
* A restart while `POST /payments` is in flight leaves no payment row: whether the
  provider made the payment is never asked, and `PaidIsCredited`, which is about
  recorded payments, does not speak of it.
* `zai_reset.py:7` says that a reset signs every other device out. A sign-in that
  `login_user` has judged before the reset, and whose cookie is made after it,
  carries the new `cookie_id` and stays signed in (`late` in `ResetSignsOut`).
  The change-password pages (`templates/change-password.html` and
  `change-password-admin.html`) renew no `cookie_id` and spend no reset link, so
  devices and links of before go on working after them.
* A payment that the provider reports FAILED in the answer to its creation keeps
  the user's only request waiting, for the pass skips it.
* Idle workers are stopped only for endpoints that still exist, although one may
  be started while its endpoint is deleted.
* A session that the hub opened just before the gateway restarted, or whose
  answer was lost, is never closed: only rows are retried. `SessionIsKnown`
  says that nothing else leaves one.
* `docs/CAIMEX.md` says that a cap set by hand is left alone. The pass works
  from a list read before other calls, so a cap set meanwhile is overwritten;
  and a PATCH whose answer is lost, or whose record fails, is given again.
* `values.yaml:1289` speaks of a fresh grace period. A user who stops the server
  themselves, a hub that stops between the stop and its record, or a start
  allowed while the meter did not answer leave the old final warning, and the
  next server may be stopped at the watcher's next look. And a stop that was only
  noted while enforcement was off keeps the watcher from stopping that user
  this month once it is on.
* The backfill calls a minute provable from the pod's `startTime`, which is when
  it got its node, so minutes in which its image was pulled are counted.
* A budget at the meter outlives the account, and is that of the next account
  of the same name.
* `docs/SERVERLESS.md:111` says that each yield is streamed. A yield that the
  gateway refuses (over 20 MB, or not JSON) or meets with a server error is
  dropped without a word, and the job completes: the exception in `WholeStream`.
  A retried job's stream holds the yields of both attempts.
* A result with a NaN is refused and not tried again, so the job runs into its
  execution timeout. A poll whose answer is lost takes a job that nobody runs,
  whose timeout stops the worker in the middle of another.

Two weaker spots are stated in the properties themselves: a worker whose
creation seemed to fail may hold a job until its execution timeout
(`JobsAtLiveWorkers`), and a restart in the middle of a credit stop may leave
a worker busy without a job (`BusyHasJob`).

## 7. Not modelled

* In the modelled files: the parsing of the catalog and of forms, pages, exports,
  authentication and the wording of messages. In `gateway.py` also changes of an
  endpoint's settings and the purge of old jobs; in `zai_payments.py` the
  refresh of method names, the webhook's registration and the checkout address;
  in `meter.py` the reports, statements and backups; in `zai_access.py` the team
  page; in `zai_2fa.py` the checkbox of the sign-up page that asks for two-factor
  sign-in, which is off by default. Mail delivery is left out: a link that was
  made is one that was sent.
* The limits on reset mails are kept per user, although the code counts them per
  address, which several accounts may share.
* The usage page is a read-only report. The client is sequential; scripts,
  charts, images and templates are not a running program.
