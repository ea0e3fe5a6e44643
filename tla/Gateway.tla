------------------------------- MODULE Gateway -------------------------------
(***************************************************************************)
(* The serverless gateway (serverless/gateway.py): endpoints, jobs and     *)
(* workers in its SQLite file, the control loop `tick` that reconciles     *)
(* them with the worker pods and with the hub's sessions, and the handlers *)
(* that customers and workers call in between.                             *)
(*                                                                         *)
(* The gateway is one asyncio process: an action is the code from one      *)
(* await to the next.  `tick` awaits Kubernetes and the hub many times, so *)
(* its loops are a phase, the items still to do and the call in flight.    *)
(* Kubernetes, the hub and the program in a worker's pod are external.     *)
(***************************************************************************)
EXTENDS Naturals, Sequences, FiniteSets

CONSTANTS
    Endpoint,
    Owner,         \* users who own endpoints
    OwnerOf,       \* OwnerOf[e]
    MaxWorkers,    \* MaxWorkers[e]: max_workers of e
    Job,           \* job ids, 1..n in order of creation; bounds the jobs submitted
    Worker,        \* worker ids; bounds the workers started
    Batch,         \* the most jobs one job-take hands out
    Nothing,       \* no row, no worker, no call
    MaxMoves,      \* bound on the owners' going out of and back into credit
    MaxFaults      \* bound on the kinds of fault a behaviour meets, each once

ASSUME GatewayAssumption ==
    /\ OwnerOf \in [Endpoint -> Owner]
    /\ MaxWorkers \in [Endpoint -> Nat]
    /\ Job \subseteq Nat
    /\ Batch \in Nat
    /\ Nothing \notin Worker
    /\ Nothing \notin Endpoint
    /\ MaxMoves \in Nat
    /\ MaxFaults \in Nat
    /\ IsFiniteSet(Worker)

VARIABLES
    endpoint,      \* endpoint[e]: "none", "alive" or "deleted"
    job,           \* the table `jobs`: endpoint, status, worker, retries
    worker,        \* the table `workers`: endpoint, state, session_open
    due,           \* jobs and workers the control loop's `now` finds past their timeout
    seen,          \* owners the last accounts answer showed out of credit
    tick,          \* where the control loop is
    doomed,        \* workers a deletion of an endpoint has still to stop
    deletes,       \* the pod deletions in flight, and who waits for them
    pod,           \* pod[w]: the pod sw-<w> in Kubernetes
    session,       \* the workers with an open session at the hub
    broke,         \* owners out of credit at the hub, and how often that changed
    faults         \* the faults so far: restarts, and calls that failed or lost their answer

vars == <<endpoint, job, worker, due, seen, tick, doomed, deletes, pod, session, broke, faults>>
outside == <<pod, session, broke>>
-----------------------------------------------------------------------------
Unfinished == {"IN_QUEUE", "IN_PROGRESS"}
Terminal == {"COMPLETED", "FAILED", "CANCELLED", "TIMED_OUT"}
JobRow == [ep: Endpoint, status: Unfinished \cup Terminal,
           at: Worker \cup {Nothing}, again: BOOLEAN]
WorkerRow == [ep: Endpoint, open: BOOLEAN,
              state: {"starting", "idle", "busy", "stopping", "gone"}]
ASSUME RowAssumption == Nothing \notin JobRow /\ Nothing \notin WorkerRow
Row(e, status, at, again) == [ep |-> e, status |-> status, at |-> at, again |-> again]
PodPhase == {"none", "pending", "stuck", "running", "ended", "deleting"}

Alive == {e \in Endpoint : endpoint[e] = "alive"}
Jobs(S) == {j \in Job : job[j] # Nothing /\ job[j].status \in S}
JobsOf(e, S) == {j \in Jobs(S) : job[j].ep = e}
JobsAt(w) == {j \in Jobs({"IN_PROGRESS"}) : job[j].at = w}
Queue(e) == JobsOf(e, {"IN_QUEUE"})
InState(S) == {w \in Worker : worker[w] # Nothing /\ worker[w].state \in S}
Serving == {"starting", "idle", "busy"}
Active(e) == {w \in InState(Serving) : worker[w].ep = e}
Ready(e) == {w \in Active(e) : worker[w].state \in {"starting", "idle"}}
OwnedBy(o) == {e \in Endpoint : OwnerOf[e] = o}

\* finish_job for the jobs of S: a job already finished stays as it is.
(* Fault: whatever its status was. *)
FinishedAgain(S, status) ==
    [j \in Job |-> IF j \in S THEN [job[j] EXCEPT !.status = status] ELSE job[j]]
Finished(S, status) ==
    [j \in Job |-> IF j \in S /\ job[j].status \in Unfinished
                   THEN [job[j] EXCEPT !.status = status] ELSE job[j]]

\* The UPDATE of stop_worker, for the workers of S.
Stopped(S) ==
    [w \in Worker |-> IF w \in S \cap InState(Serving)
                      THEN [worker[w] EXCEPT !.state = "stopping"] ELSE worker[w]]

\* worker_gone: its jobs go back to the queue once, and fail the second time.
(* Fault: a job that may not be returned again stays in progress. *)
AfterGoneLeavesJob(w) ==
    [j \in Job |->
        IF j \notin JobsAt(w) \/ job[j].again THEN job[j]
        ELSE [job[j] EXCEPT !.status = "IN_QUEUE", !.at = Nothing, !.again = TRUE]]
(* Fault: the worker column is not cleared. *)
AfterGoneKeepsWorker(w) ==
    [j \in Job |->
        IF j \notin JobsAt(w) THEN job[j]
        ELSE IF job[j].again THEN [job[j] EXCEPT !.status = "FAILED"]
        ELSE [job[j] EXCEPT !.status = "IN_QUEUE", !.again = TRUE]]
AfterGone(w) ==
    [j \in Job |->
        IF j \notin JobsAt(w) THEN job[j]
        ELSE IF job[j].again THEN [job[j] EXCEPT !.status = "FAILED"]
        ELSE Row(job[j].ep, "IN_QUEUE", Nothing, TRUE)]
Gone(w) == [worker EXCEPT ![w].state = "gone"]

(* The oldest n jobs of e's queue. *)
Oldest(e, n) == {j \in Queue(e) : Cardinality({i \in Queue(e) : i < j}) < n}

NoCall == [op |-> "none", w |-> Nothing, ep |-> Nothing]
Call(op, w, e) == [op |-> op, w |-> w, ep |-> e]
NoPods == [w \in Worker |-> "none"]

(* The parts of `tick` that await something, in their order.                   *)
Phases == <<"sleep", "listed", "reap", "again", "orphans", "unclosed",
            "credit", "late", "expired", "unready", "scale">>
Asleep == [phase |-> 1, snap |-> NoPods, todo |-> {}, kill |-> {}, call |-> NoCall]
In(name) == Phases[tick.phase] = name

(* What changes status gets a new start for its timeout, except that a worker  *)
(* ready before there is a job has been idle since its creation: how long that *)
(* is against idle_timeout, its time to start does not tell.                   *)
TimesRestart ==
    \E W \in SUBSET {w \in InState({"starting"}) : worker'[w].state = "idle"} :
        due' = [jobs |-> {j \in due.jobs : job'[j].status = job[j].status},
                workers |-> W \cup {w \in due.workers : worker'[w].state = worker[w].state}]

Fails(kind) ==
    /\ kind \notin faults /\ Cardinality(faults) < MaxFaults
    /\ faults' = faults \cup {kind}

Delete(w, by) == [w |-> w, by |-> by]

Init ==
    /\ endpoint = [e \in Endpoint |-> "none"]
    /\ job = [j \in Job |-> Nothing]
    /\ worker = [w \in Worker |-> Nothing]
    /\ due = [jobs |-> {}, workers |-> {}]
    /\ seen = {}
    /\ tick = Asleep
    /\ doomed = {}
    /\ deletes = {}
    /\ pod = [w \in Worker |-> "none"]
    /\ session = {}
    /\ broke = [owners |-> {}, moves |-> 0]
    /\ faults = {}
-----------------------------------------------------------------------------
(* The public API. *)

(* EndpointsHandler.post *)
CreateEndpoint(e) ==
    /\ endpoint[e] = "none"
    /\ endpoint' = [endpoint EXCEPT ![e] = "alive"]
    /\ UNCHANGED <<job, worker, due, seen, tick, doomed, deletes, outside, faults>>

(* EndpointHandler.delete: everything of e finishes, then its workers are      *)
(* stopped one await at a time.                                                *)
DeleteEndpoint(e) ==
    /\ endpoint[e] = "alive"
    /\ endpoint' = [endpoint EXCEPT ![e] = "deleted"]
    /\ job' = Finished(JobsOf(e, Unfinished), "CANCELLED")
    /\ IF Active(e) = {} THEN UNCHANGED <<worker, doomed, deletes>>
       ELSE \E w \in Active(e) : /\ worker' = Stopped({w})
                                 /\ doomed' = doomed \cup (Active(e) \ {w})
                                 /\ deletes' = deletes \cup {Delete(w, "owner")}
    /\ UNCHANGED <<seen, tick, outside, faults>>
    /\ TimesRestart

DeleteGoesOn(w) ==
    /\ w \in doomed
    /\ \A d \in deletes : ~(d.by = "owner" /\ worker[d.w].ep = worker[w].ep)
    /\ doomed' = doomed \ {w}
    /\ worker' = Stopped({w})
    /\ deletes' = deletes \cup {Delete(w, "owner")}
    /\ UNCHANGED <<endpoint, job, seen, tick, outside, faults>>
    /\ TimesRestart

(* RunHandler.post: submit. *)
(* Fault: the account is not looked at. *)
SubmitOnCredit(j, e) ==
    /\ e \in Alive
    /\ job[j] = Nothing /\ \A i \in Job : i < j => job[i] # Nothing
    /\ job' = [job EXCEPT ![j] = Row(e, "IN_QUEUE", Nothing, FALSE)]
    /\ UNCHANGED <<endpoint, worker, due, seen, tick, doomed, deletes, outside, faults>>
Submit(j, e) ==
    /\ e \in Alive
    /\ OwnerOf[e] \notin seen
    /\ job[j] = Nothing /\ \A i \in Job : i < j => job[i] # Nothing
    /\ job' = [job EXCEPT ![j] = Row(e, "IN_QUEUE", Nothing, FALSE)]
    /\ UNCHANGED <<endpoint, worker, due, seen, tick, doomed, deletes, outside, faults>>

(* CancelHandler.post; a running job's worker is stopped with it. *)
(* Fault: the worker goes on. *)
CancelLeavesWorker(j) ==
    /\ j \in Jobs(Unfinished) /\ job[j].ep \in Alive
    /\ job' = Finished({j}, "CANCELLED")
    /\ UNCHANGED <<endpoint, worker, seen, tick, doomed, deletes, outside, faults>>
    /\ TimesRestart
Cancel(j) ==
    /\ j \in Jobs(Unfinished) /\ job[j].ep \in Alive
    /\ job' = Finished({j}, "CANCELLED")
    /\ IF job[j].status = "IN_PROGRESS"
       THEN worker' = Stopped({job[j].at}) /\ deletes' = deletes \cup {Delete(job[j].at, "call")}
       ELSE UNCHANGED <<worker, deletes>>
    /\ UNCHANGED <<endpoint, seen, tick, doomed, outside, faults>>
    /\ TimesRestart

(* PurgeHandler.post *)
PurgeQueue(e) ==
    /\ e \in Alive
    /\ Queue(e) # {}
    /\ job' = Finished(Queue(e), "CANCELLED")
    /\ UNCHANGED <<endpoint, worker, seen, tick, doomed, deletes, outside, faults>>
    /\ TimesRestart
-----------------------------------------------------------------------------
(* The workers' protocol. *)

(* `worker`: a stopping or gone worker is refused. A call of a worker that has *)
(* called before may outlive its pod.                                          *)
CanCall(w) ==
    /\ w \in InState(Serving)
    /\ pod[w] = "running" \/ worker[w].state \in {"idle", "busy"}

(* JobTakeHandler.get: `take`, at the call or when the queue's event wakes it. *)
JobTake(w, n) ==
    LET S == Oldest(worker[w].ep, n)
    IN /\ CanCall(w)
       /\ job' = [j \in Job |-> IF j \in S THEN Row(job[j].ep, "IN_PROGRESS", w, job[j].again)
                                ELSE job[j]]
       /\ IF S # {} THEN worker' = [worker EXCEPT ![w].state = "busy"]
          ELSE worker' = [worker EXCEPT ![w].state = IF @ = "starting" THEN "idle" ELSE @]
       /\ UNCHANGED <<endpoint, seen, tick, doomed, deletes, outside, faults>>
       /\ TimesRestart

(* JobDoneHandler.post: a result is taken only for a job in progress at this    *)
(* worker; with stopPod the worker is stopped.                                  *)
JobDone(w, j, status, stopPod) ==
    /\ CanCall(w)
    /\ j \in JobsAt(w)
    /\ job' = Finished({j}, status)
    /\ worker' = IF stopPod THEN Stopped({w})
                 ELSE [worker EXCEPT ![w].state = IF @ = "busy" THEN "idle" ELSE @]
    /\ deletes' = IF stopPod THEN deletes \cup {Delete(w, "call")} ELSE deletes
    /\ UNCHANGED <<endpoint, seen, tick, doomed, outside, faults>>
    /\ TimesRestart
-----------------------------------------------------------------------------
(* The control loop. *)

NotGone == InState(Serving \cup {"stopping"})
(* Fault: the session of a worker that still stops is closed. *)
UnclosedStopping == {w \in InState({"stopping", "gone"}) : worker[w].open}
Unclosed == {w \in InState({"gone"}) : worker[w].open}
(* Fault: a stop is not retried. *)
AgainNever == {}
Again == {w \in InState({"stopping"}) : tick.snap[w] \notin {"none", "deleting"}}
Late == Jobs({"IN_PROGRESS"}) \cap due.jobs
(* Fault: a job back in the queue has no ttl any more. *)
ExpiredFirst == {j \in Jobs({"IN_QUEUE"}) \cap due.jobs : ~job[j].again}
Expired == Jobs({"IN_QUEUE"}) \cap due.jobs
(* What a phase of `tick` finds to do when it starts. *)
Work(name) ==
    CASE name = "reap" -> {w \in NotGone : tick.snap[w] \in {"none", "ended", "stuck"}}
      [] name = "again" -> Again
      [] name = "orphans" -> {w \in Worker \ NotGone : tick.snap[w] \notin {"none", "deleting"}}
      [] name = "unclosed" -> Unclosed
      [] name = "credit" -> {OwnerOf[e] : e \in Alive \cup {job[j].ep : j \in Jobs(Unfinished)}
                                                \cup {worker[w].ep : w \in NotGone}}
      [] name = "late" -> Late
      [] name = "expired" -> Expired
      [] name = "unready" -> InState({"starting"}) \cap due.workers
      [] name = "scale" -> Alive

(* The loop waits for an answer, or for a deletion it asked for.               *)
TickWaits == tick.call # NoCall \/ \E d \in deletes : d.by = "tick"
Between == ~TickWaits /\ tick.kill = {}

(* What the loop can take up next, in one go with the query that found it: an  *)
(* item left of its phase, or, when there is none, one of the next phase with  *)
(* anything to do. The accounts are asked only every CREDIT_EVERY seconds.     *)
EmptyPhase(name) == name = "credit" \/ Work(name) = {}
EmptyUpTo(i) == tick.todo = {} /\ \A k \in (tick.phase + 1)..(i - 1) : EmptyPhase(Phases[k])
Items(name) ==
    IF ~Between \/ In("sleep") THEN {}
    ELSE IF In(name) THEN tick.todo
    ELSE IF \E i \in (tick.phase + 1)..Len(Phases) : Phases[i] = name /\ EmptyUpTo(i)
         THEN Work(name) ELSE {}

NumberOf(name) == CHOOSE i \in DOMAIN Phases : Phases[i] = name
At(name, todo, kill, call) ==
    [phase |-> NumberOf(name), todo |-> todo, kill |-> kill, call |-> call,
     snap |-> IF name \in {"reap", "again", "orphans"} THEN tick.snap ELSE NoPods]

(* The call is followed by another one about the same worker, or is over.      *)
Follow(op) == [tick EXCEPT !.call = Call(op, tick.call.w, tick.call.ep)]
Answered == [tick EXCEPT !.call = NoCall]

(* stop_worker for each worker of S: the first at once, the others after the   *)
(* answer to each deletion, whatever they do by then.                          *)
StopsAll(name, todo, S) ==
    IF S = {} THEN tick' = At(name, todo, {}, NoCall) /\ UNCHANGED <<worker, deletes>>
    ELSE \E w \in S :
            /\ tick' = At(name, todo, S \ {w}, NoCall)
            /\ worker' = Stopped({w})
            /\ deletes' = deletes \cup {Delete(w, "tick")}

TickStops ==
    /\ tick.kill # {} /\ ~TickWaits
    /\ StopsAll(Phases[tick.phase], tick.todo, tick.kill)
    /\ UNCHANGED <<endpoint, job, seen, doomed, outside, faults>>
    /\ TimesRestart

(* `now`, and the answer to worker_pods(). *)
Timed == InState({"starting", "idle"})
TickLists(J, W) ==
    /\ In("sleep")
    /\ tick' = [phase |-> NumberOf("listed"), snap |-> pod, todo |-> {}, kill |-> {}, call |-> NoCall]
    /\ due' = [jobs |-> due.jobs \cup J, workers |-> due.workers \cup W]
    /\ UNCHANGED <<endpoint, job, worker, seen, doomed, deletes, outside, faults>>

TickSleeps ==
    /\ ~In("sleep") /\ Between /\ EmptyUpTo(Len(Phases) + 1)
    /\ tick' = Asleep
    /\ UNCHANGED <<endpoint, job, worker, due, seen, doomed, deletes, outside, faults>>

(* Step 1: a worker whose pod is not there is gone; a pod that ended or cannot *)
(* start is first deleted at once, and so is a pod without a worker; stops     *)
(* whose deletion failed are retried, and so are the closings of sessions.     *)
TickReaps(w) ==
    /\ w \in Items("reap")
    /\ LET Then(op) == tick' = At("reap", Items("reap") \ {w}, {}, Call(op, w, Nothing))
       IN IF tick.snap[w] = "none"
          THEN job' = AfterGone(w) /\ worker' = Gone(w) /\ Then("close")
          ELSE Then("kill") /\ UNCHANGED <<job, worker>>
    /\ UNCHANGED <<endpoint, seen, doomed, deletes, outside, faults>>
    /\ TimesRestart

TickStopsAgain ==
    /\ Items("again") # {}
    /\ StopsAll("again", {}, Items("again"))
    /\ UNCHANGED <<endpoint, job, due, seen, doomed, outside, faults>>

TickKillsOrphan(w) ==
    /\ w \in Items("orphans")
    /\ tick' = At("orphans", Items("orphans") \ {w}, {}, Call("kill", w, Nothing))
    /\ UNCHANGED <<endpoint, job, worker, due, seen, doomed, deletes, outside, faults>>

TickCloses(w) ==
    /\ w \in Items("unclosed")
    /\ tick' = At("unclosed", Items("unclosed") \ {w}, {}, Call("close", w, Nothing))
    /\ UNCHANGED <<endpoint, job, worker, due, seen, doomed, deletes, outside, faults>>

KillReturns ==
    LET w == tick.call.w
    IN /\ tick.call.op = "kill"
       /\ pod' = [pod EXCEPT ![w] = "none"]
       /\ IF In("reap") THEN job' = AfterGone(w) /\ worker' = Gone(w) ELSE UNCHANGED <<job, worker>>
       /\ tick' = Follow("close")
       /\ UNCHANGED <<endpoint, seen, doomed, deletes, session, broke, faults>>
       /\ TimesRestart

(* delete_pod raises: the rest of this tick is skipped. *)
KillFails ==
    /\ tick.call.op = "kill"
    /\ Fails("kill")
    /\ pod' \in {pod, [pod EXCEPT ![tick.call.w] = "none"]}
    /\ tick' = Asleep
    /\ UNCHANGED <<endpoint, job, worker, due, seen, doomed, deletes, session, broke>>

(* close_session returns; a worker that could not start fails its queue. *)
Unstartable == In("reap") /\ tick.snap[tick.call.w] = "stuck"
AfterClose ==
    /\ job' = IF Unstartable THEN Finished(Queue(worker[tick.call.w].ep), "FAILED") ELSE job
    /\ tick' = Answered
    /\ UNCHANGED <<endpoint, seen, doomed, deletes, pod, broke>>
    /\ TimesRestart

CloseReturns ==
    /\ tick.call.op = "close"
    /\ session' = session \ {tick.call.w}
    /\ worker' = [worker EXCEPT ![tick.call.w].open = FALSE]
    /\ AfterClose
    /\ UNCHANGED faults

(* Fault: the row is marked closed whatever the hub answered. *)
CloseFailsForgets ==
    /\ tick.call.op = "close"
    /\ Fails("close")
    /\ session' \in {session, session \ {tick.call.w}}
    /\ worker' = [worker EXCEPT ![tick.call.w].open = FALSE]
    /\ AfterClose

CloseFails ==
    /\ tick.call.op = "close"
    /\ Fails("close")
    /\ session' \in {session, session \ {tick.call.w}}
    /\ UNCHANGED worker
    /\ AfterClose

(* Step 2: credit. *)
TickAsks ==
    /\ ~In("credit") /\ Items("credit") # {}
    /\ tick' = At("credit", Items("credit"), {}, Call("accounts", Nothing, Nothing))
    /\ UNCHANGED <<endpoint, job, worker, due, seen, doomed, deletes, outside, faults>>

AccountsReturn(S) ==
    /\ tick.call.op = "accounts"
    /\ seen' = S
    /\ tick' = At("credit", S, {}, NoCall)
    /\ UNCHANGED <<endpoint, job, worker, due, doomed, deletes, outside>>
AccountsAnswered == AccountsReturn(tick.todo \cap broke.owners) /\ UNCHANGED faults
AccountsFail == AccountsReturn(seen) /\ Fails("accounts")

TickFailsOwner(o) ==
    /\ In("credit") /\ o \in Items("credit")
    /\ job' = Finished({j \in Jobs(Unfinished) : OwnerOf[job[j].ep] = o}, "FAILED")
    /\ StopsAll("credit", tick.todo \ {o}, {w \in InState(Serving) : OwnerOf[worker[w].ep] = o})
    /\ UNCHANGED <<endpoint, seen, doomed, outside, faults>>
    /\ TimesRestart

(* Step 3: timeouts. *)
TickTimesOut(j) ==
    /\ j \in Items("late")
    /\ job' = Finished({j}, "TIMED_OUT")
    /\ StopsAll("late", Items("late") \ {j}, {job[j].at})
    /\ UNCHANGED <<endpoint, seen, doomed, outside, faults>>
    /\ TimesRestart

TickExpires ==
    /\ Items("expired") # {}
    /\ job' = Finished(Items("expired"), "TIMED_OUT")
    /\ tick' = At("expired", {}, {}, NoCall)
    /\ UNCHANGED <<endpoint, worker, seen, doomed, deletes, outside, faults>>
    /\ TimesRestart

TickStopsUnready ==
    /\ Items("unready") # {}
    /\ StopsAll("unready", {}, Items("unready"))
    /\ UNCHANGED <<endpoint, job, seen, doomed, outside, faults>>
    /\ TimesRestart

(* Step 4: scale. A worker's id is fresh. *)
Demand(e) == Cardinality(JobsOf(e, Unfinished))
Wanted(e) ==
    /\ Cardinality(Queue(e)) > Cardinality(Ready(e))
    /\ Cardinality(Active(e)) < MaxWorkers[e] /\ Cardinality(Active(e)) < Demand(e)
Unused == {w \in Worker : worker[w] = Nothing /\ w \notin session /\ pod[w] = "none"}
Idle(e) == {w \in Active(e) : worker[w].state = "idle" /\ w \in due.workers}

TickScales(e) ==
    /\ e \in Items("scale")
    /\ LET rest == Items("scale") \ {e}
       IN IF Wanted(e) /\ Unused # {}
          THEN /\ \E w \in Unused : tick' = At("scale", rest, {}, Call("open", w, e))
               /\ UNCHANGED <<worker, deletes>>
          ELSE StopsAll("scale", rest, IF Queue(e) = {} THEN Idle(e) ELSE {})
    /\ UNCHANGED <<endpoint, job, seen, doomed, outside, faults>>
    /\ TimesRestart

(* start_worker: the hub is asked for a session, ... *)
OpenRefused(code) ==
    /\ tick.call.op = "open"
    /\ code = 402 <=> OwnerOf[tick.call.ep] \in broke.owners
    /\ job' = IF code = 402 THEN Finished(Queue(tick.call.ep), "FAILED") ELSE job
    /\ tick' = Answered
    /\ UNCHANGED <<endpoint, worker, seen, doomed, deletes, outside, faults>>
    /\ TimesRestart

HubAdmits ==
    /\ tick.call.op = "open"
    /\ OwnerOf[tick.call.ep] \notin broke.owners
    /\ session' = session \cup {tick.call.w}
    /\ tick' = Follow("admitted")
    /\ UNCHANGED <<endpoint, job, worker, due, seen, doomed, deletes, pod, broke, faults>>

(* ... whose answer may be lost, which is no HubError: this tick ends ... *)
OpenLost ==
    /\ tick.call.op \in {"open", "admitted"}
    /\ Fails("open")
    /\ tick' = Asleep
    /\ UNCHANGED <<endpoint, job, worker, due, seen, doomed, deletes, outside>>

(* ... or gives the worker its row; then the pod is created. *)
OpenAnswered ==
    /\ tick.call.op = "admitted"
    /\ worker' = [worker EXCEPT ![tick.call.w] =
                     [ep |-> tick.call.ep, open |-> TRUE, state |-> "starting"]]
    /\ tick' = Follow("create")
    /\ UNCHANGED <<endpoint, job, due, seen, doomed, deletes, outside, faults>>

PodCreated ==
    /\ tick.call.op = "create"
    /\ pod' = [pod EXCEPT ![tick.call.w] = "pending"]
    /\ tick' = Follow("created")
    /\ UNCHANGED <<endpoint, job, worker, due, seen, doomed, deletes, session, broke, faults>>

CreateAnswered ==
    /\ tick.call.op = "created"
    /\ tick' = Answered
    /\ UNCHANGED <<endpoint, job, worker, due, seen, doomed, deletes, outside, faults>>

(* An error, or no answer to a request Kubernetes carried out. *)
CreateFails ==
    /\ tick.call.op \in {"create", "created"}
    /\ Fails("create")
    /\ worker' = Gone(tick.call.w)
    /\ tick' = Follow("close")
    /\ UNCHANGED <<endpoint, job, seen, doomed, deletes, outside>>
    /\ TimesRestart

GatewayRestart ==
    /\ Fails("restart")
    /\ tick' = Asleep
    /\ seen' = {}
    /\ doomed' = {}
    /\ deletes' = {}
    /\ UNCHANGED <<endpoint, job, worker, due, outside>>
-----------------------------------------------------------------------------
(* Kubernetes, and the owners' credit at the hub. *)

PodMoves(w, to) ==
    /\ pod' = [pod EXCEPT ![w] = to]
    /\ UNCHANGED <<endpoint, job, worker, due, seen, tick, doomed, session, broke>>
PodStarts(w, to) == pod[w] = "pending" /\ to \in {"running", "stuck"}
                    /\ PodMoves(w, to) /\ UNCHANGED <<deletes, faults>>
PodEnds(w, to) == pod[w] = "running" /\ to \in {"ended", "none"}
                  /\ PodMoves(w, to) /\ UNCHANGED <<deletes, faults>>
PodDeleted(w) == pod[w] = "deleting" /\ PodMoves(w, "none") /\ UNCHANGED <<deletes, faults>>

DeleteArrives(d) ==
    /\ d \in deletes
    /\ deletes' = deletes \ {d}
    /\ PodMoves(d.w, IF pod[d.w] \in {"none", "ended"} THEN "none" ELSE "deleting")
    /\ UNCHANGED faults
DeleteFails(d) ==
    /\ d \in deletes
    /\ Fails("delete")
    /\ deletes' = deletes \ {d}
    /\ UNCHANGED <<endpoint, job, worker, due, seen, tick, doomed, outside>>

CreditMoves(o) ==
    /\ broke.moves < MaxMoves
    /\ broke' = [owners |-> IF o \in broke.owners THEN broke.owners \ {o} ELSE broke.owners \cup {o},
                 moves |-> broke.moves + 1]
    /\ UNCHANGED <<endpoint, job, worker, due, seen, tick, doomed, deletes, pod, session, faults>>
-----------------------------------------------------------------------------
Calls ==
    \/ \E e \in Endpoint : CreateEndpoint(e) \/ DeleteEndpoint(e) \/ PurgeQueue(e)
    \/ \E w \in Worker : DeleteGoesOn(w)
    \/ \E j \in Job, e \in Endpoint : Submit(j, e)
    \/ \E j \in Job : Cancel(j)
    \/ \E w \in Worker, n \in 1..Batch : JobTake(w, n)
    \/ \E w \in Worker, j \in Job, status \in {"COMPLETED", "FAILED"}, stopPod \in BOOLEAN :
          JobDone(w, j, status, stopPod)

TickItem ==
    \/ \E w \in Worker : TickReaps(w) \/ TickKillsOrphan(w) \/ TickCloses(w)
    \/ TickStops \/ TickStopsAgain \/ TickStopsUnready
    \/ TickAsks \/ \E o \in Owner : TickFailsOwner(o)
    \/ TickExpires \/ \E j \in Job : TickTimesOut(j)
    \/ \E e \in Endpoint : TickScales(e)

TickAnswered ==
    \/ KillReturns \/ CloseReturns \/ AccountsAnswered
    \/ HubAdmits \/ OpenAnswered \/ PodCreated \/ CreateAnswered
    \/ OpenRefused(402) \/ OpenRefused(503)

Tick ==
    \/ \E J \in SUBSET Jobs(Unfinished), W \in SUBSET Timed : TickLists(J, W)
    \/ TickSleeps \/ TickItem \/ TickAnswered

Faults ==
    \/ KillFails \/ CloseFails \/ AccountsFail \/ OpenLost \/ CreateFails \/ GatewayRestart
    \/ \E d \in deletes : DeleteFails(d)

Cluster ==
    \/ \E w \in Worker, to \in PodPhase : PodStarts(w, to) \/ PodEnds(w, to)
    \/ \E w \in Worker : PodDeleted(w)
    \/ \E d \in deletes : DeleteArrives(d)
    \/ \E o \in Owner : CreditMoves(o)

Next == Calls \/ Tick \/ Faults \/ Cluster

Spec == Init /\ [][Next]_vars

(* The control loop goes on, timeouts pass, and Kubernetes answers and deletes. *)
(* Nothing is assumed of callers, of workers or of pods coming up.             *)
Fairness ==
    /\ WF_vars(Tick)
    /\ \A j \in Job : SF_vars(\E W \in SUBSET Timed : TickLists({j} \cap Jobs(Unfinished), W))
    /\ \A w \in Worker :
          /\ SF_vars(\E J \in SUBSET Jobs(Unfinished) : TickLists(J, {w} \cap Timed))
          /\ WF_vars(DeleteGoesOn(w))
          /\ WF_vars(PodDeleted(w))
          /\ \A by \in {"owner", "call", "tick"} : WF_vars(DeleteArrives(Delete(w, by)))

FairSpec == Spec /\ Fairness
-----------------------------------------------------------------------------
CallOp == {"none", "kill", "close", "accounts", "open", "admitted", "create", "created"}
TypeOK ==
    /\ endpoint \in [Endpoint -> {"none", "alive", "deleted"}]
    /\ job \in [Job -> JobRow \cup {Nothing}]
    /\ \A j \in Jobs({"IN_QUEUE"}) : job[j].at = Nothing
    /\ \A j \in Jobs({"IN_PROGRESS"}) : job[j].at \in Worker
    /\ worker \in [Worker -> WorkerRow \cup {Nothing}]
    /\ due.jobs \subseteq Jobs(Unfinished) /\ due.workers \subseteq Timed
    /\ seen \subseteq Owner
    /\ tick.phase \in DOMAIN Phases
    /\ tick.call.op \in CallOp
    /\ doomed \subseteq Worker
    /\ deletes \subseteq [w: Worker, by: {"owner", "call", "tick"}]
    /\ pod \in [Worker -> PodPhase]
    /\ session \subseteq Worker
    /\ broke.owners \subseteq Owner

(* A job in progress is at a worker the gateway still counts: what the end of  *)
(* its pod triggers (worker_gone) will find it. Only a worker whose creation   *)
(* looked like a failure can die with a job on its hands.                      *)
JobsAtLiveWorkers == "create" \notin faults => \A j \in Jobs({"IN_PROGRESS"}) : job[j].at \in NotGone

(* A pod that holds a GPU is billed to its owner, or it is one that the next   *)
(* tick deletes because its worker is gone.                                    *)
UnbilledPodIsOrphan ==
    \A w \in Worker : pod[w] \in {"pending", "stuck", "running"} =>
        w \in session \/ w \in InState({"gone"})

(* Without a lost answer or a restart, every session open at the hub belongs   *)
(* to a row whose closing the control loop retries, or to the call in flight.  *)
SessionIsKnown ==
    {"open", "restart"} \cap faults = {} =>
        \A w \in session : w = tick.call.w \/ (worker[w] # Nothing /\ worker[w].open)

(* A busy worker has a job, or somebody is about to stop it: `busy` is never   *)
(* left by a timeout of its own, so any other one would be billed for nothing. *)
BusyHasJob ==
    "restart" \notin faults =>
        \A w \in InState({"busy"}) : JobsAt(w) # {} \/ w \in doomed \cup tick.kill

(* Once the gateway has seen an owner out of credit and gone through the       *)
(* credit step, the owner has no job waiting or running and no worker serving. *)
BrokeIsStopped ==
    ~In("credit") => \A o \in seen :
        /\ \A j \in Jobs(Unfinished) : OwnerOf[job[j].ep] # o
        /\ \A w \in InState(Serving) : OwnerOf[worker[w].ep] # o

(* A job is handed out, returned and finished as JobLifecycle says.            *)
Lifecycle == INSTANCE JobLifecycle WITH
    status <- [j \in Job |-> IF job[j] = Nothing THEN "none" ELSE job[j].status],
    returned <- {j \in Job : job[j] # Nothing /\ job[j].again}
ImplementsJobs == Lifecycle!Spec

(* Every submitted job is finished, whatever its worker does. *)
EveryJobFinishes == \A j \in Job : j \in Jobs(Unfinished) ~> j \in Jobs(Terminal)

(* A worker that is being stopped, or whose pod ended, loses its pod and its   *)
(* billing session, whichever call fails on the way.                           *)
StoppedEnds ==
    \A w \in Worker : w \in InState({"stopping", "gone"}) ~>
        w \in InState({"gone"}) /\ pod[w] = "none" /\ w \notin session

(* docs/SERVERLESS.md: a worker "is stopped after `idle_timeout` seconds       *)
(* without work": the control loop stops no worker for idling that has a job.  *)
IdleStopHasNoJob ==
    [][(TickStops \/ \E e \in Endpoint : TickScales(e)) /\ Phases[tick'.phase] = "scale"
         => \A w \in Worker : worker'[w] = worker[w] \/ JobsAt(w) = {}]_vars
=============================================================================
