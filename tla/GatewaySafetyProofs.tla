------------------------- MODULE GatewaySafetyProofs -------------------------
(* The safety invariants of the serverless gateway, for any endpoints, jobs,   *)
(* workers and faults.                                                        *)
EXTENDS GatewayProofs, FiniteSetTheorems

(***************************************************************************)
(* The updates of the two tables, as the invariants see them.               *)
(***************************************************************************)

Running == Jobs({"IN_PROGRESS"})
Open == Jobs(Unfinished)
SameEp == \A j \in Made : job'[j] # Nothing /\ job'[j].ep = job[j].ep

LEMMA FinishedIs ==
  ASSUME JobsTyped, NEW S \in SUBSET Made, NEW status \in Terminal, job' = Finished(S, status)
  PROVE  /\ Running' = Running \ S /\ Open' = Open \ S /\ SameEp /\ Made' = Made
         /\ \A j \in Made : job'[j].at = job[j].at
<1>1. ASSUME NEW j \in Job, j \in S, job[j].status \in Unfinished
      PROVE  /\ job'[j] # Nothing /\ job'[j].ep = job[j].ep /\ job'[j].status = status
             /\ job'[j].at = job[j].at
  <2>1. job[j] \in JobRow BY <1>1 DEF Made, JobsTyped
  <2>2. job'[j] = Row(job[j].ep, status, job[j].at, job[j].again)
    BY <1>1, <2>1, Restated DEF Finished
  <2>3. Row(job[j].ep, status, job[j].at, job[j].again) \in JobRow
    BY <2>1 DEF Row, JobRow
  <2>4. QED BY <2>2, <2>3, RowAssumption DEF Row
<1>2. ASSUME NEW j \in Job, ~(j \in S /\ job[j].status \in Unfinished) PROVE job'[j] = job[j]
  BY <1>2 DEF Finished
<1>3. status \notin Unfinished BY DEF Terminal, Unfinished
<1>4. QED BY <1>1, <1>2, <1>3 DEF Running, Open, Jobs, SameEp, Made, Unfinished

LEMMA HandedIs ==
  ASSUME JobsTyped, NEW w \in Worker, NEW S \in SUBSET Jobs({"IN_QUEUE"}),
         job' = [j \in Job |-> IF j \in S THEN Row(job[j].ep, "IN_PROGRESS", w, job[j].again)
                               ELSE job[j]]
  PROVE  /\ Running' = Running \cup S /\ Open' = Open /\ SameEp /\ Made' = Made
         /\ \A j \in Made : job'[j].at = IF j \in S THEN w ELSE job[j].at
<1>1. ASSUME NEW j \in S
      PROVE  /\ job'[j] # Nothing /\ job'[j].ep = job[j].ep /\ job'[j].status = "IN_PROGRESS"
             /\ job'[j].at = w
  <2>1. job[j] \in JobRow BY DEF Jobs, JobsTyped
  <2>2. job'[j] = Row(job[j].ep, "IN_PROGRESS", w, job[j].again) BY DEF Jobs
  <2>3. Row(job[j].ep, "IN_PROGRESS", w, job[j].again) \in JobRow
    BY <2>1 DEF Row, JobRow, Unfinished
  <2>4. QED BY <2>2, <2>3, RowAssumption DEF Row
<1>2. QED BY <1>1 DEF Running, Open, Jobs, SameEp, Made, Unfinished

LEMMA SubmittedIs ==
  ASSUME JobsTyped, NEW j \in Job, NEW e \in Endpoint, job[j] = Nothing,
         job' = [job EXCEPT ![j] = Row(e, "IN_QUEUE", Nothing, FALSE)]
  PROVE  /\ Running' = Running /\ Open' = Open \cup {j} /\ job'[j].ep = e /\ SameEp
         /\ \A i \in Made : job'[i] = job[i]
<1>1. Row(e, "IN_QUEUE", Nothing, FALSE) \in JobRow BY DEF Row, JobRow, Unfinished
<1>2. job'[j] # Nothing /\ job'[j].status = "IN_QUEUE" /\ job'[j].ep = e
  BY <1>1, RowAssumption DEF Row, JobsTyped
<1>3. QED BY <1>2 DEF Running, Open, Jobs, SameEp, Made, Unfinished, JobsTyped

LEMMA AfterGoneIs ==
  ASSUME JobsTyped, NEW w, job' = AfterGone(w)
  PROVE  /\ Running' = Running \ JobsAt(w) /\ Open' \subseteq Open /\ SameEp
         /\ \A j \in Running' : job'[j] = job[j]
<1>1. ASSUME NEW j \in JobsAt(w)
      PROVE  /\ job'[j] # Nothing /\ job'[j].ep = job[j].ep
             /\ job'[j].status \in {"FAILED", "IN_QUEUE"}
  <2>1. job[j] \in JobRow /\ j \in Job BY DEF JobsAt, Jobs, JobsTyped
  <2>2. CASE job[j].again
    <3>1. job'[j] = Row(job[j].ep, "FAILED", job[j].at, job[j].again)
      BY <2>1, <2>2, Restated DEF AfterGone, Terminal
    <3>2. Row(job[j].ep, "FAILED", job[j].at, job[j].again) \in JobRow
      BY <2>1 DEF Row, JobRow, Terminal
    <3>3. QED BY <3>1, <3>2, RowAssumption DEF Row
  <2>3. CASE ~job[j].again
    <3>1. job'[j] = Row(job[j].ep, "IN_QUEUE", Nothing, TRUE)
      BY <2>1, <2>3 DEF AfterGone
    <3>2. Row(job[j].ep, "IN_QUEUE", Nothing, TRUE) \in JobRow
      BY <2>1 DEF Row, JobRow, Unfinished
    <3>3. PICK row : row = Row(job[j].ep, "IN_QUEUE", Nothing, TRUE) OBVIOUS
    <3>4. row.ep = job[j].ep /\ row.status = "IN_QUEUE" BY <3>3, Zenon DEF Row
    <3>5. job'[j] = row /\ row # Nothing BY <3>1, <3>2, <3>3, RowAssumption
    <3>6. QED BY <3>4, <3>5
  <2>4. QED BY <2>2, <2>3
<1>2. \A j \in Job : j \notin JobsAt(w) => job'[j] = job[j] BY DEF AfterGone
<1>3. \A j \in JobsAt(w) : j \in Running /\ j \in Open BY DEF JobsAt, Running, Open, Jobs, Unfinished
<1>4. QED BY <1>1, <1>2, <1>3 DEF Running, Open, Jobs, SameEp, Made, Unfinished

SameRows == \A w \in Rows : w \in Rows' /\ worker'[w].ep = worker[w].ep

LEMMA StoppedIs ==
  ASSUME WorkersTyped, NEW S, worker' = Stopped(S)
  PROVE  /\ SameRows /\ Rows' = Rows /\ \A w \in Rows : worker'[w].open = worker[w].open
         /\ InState({"busy"})' = InState({"busy"}) \ S
         /\ InState(Serving)' = InState(Serving) \ S
         /\ InState({"gone"})' = InState({"gone"}) /\ NotGone' = NotGone
<1>1. ASSUME NEW w \in Worker, w \in S \cap InState(Serving)
      PROVE  /\ worker'[w] # Nothing /\ worker'[w].ep = worker[w].ep
             /\ worker'[w].open = worker[w].open /\ worker'[w].state = "stopping"
  <2>1. worker[w] \in WorkerRow BY <1>1 DEF InState, WorkersTyped
  <2>2. worker'[w] = [worker[w] EXCEPT !.state = "stopping"] BY <1>1 DEF Stopped
  <2>3. [worker[w] EXCEPT !.state = "stopping"] \in WorkerRow BY <2>1 DEF WorkerRow
  <2>4. QED BY <2>1, <2>2, <2>3, RowAssumption DEF WorkerRow
<1>2. ASSUME NEW w \in Worker, w \notin S \cap InState(Serving) PROVE worker'[w] = worker[w]
  BY <1>2 DEF Stopped
<1>3. QED BY <1>1, <1>2 DEF SameRows, Rows, InState, NotGone, Serving

LEMMA StateIs ==
  ASSUME WorkersTyped, NEW w \in Rows, NEW state \in State,
         worker' = [worker EXCEPT ![w].state = state]
  PROVE  /\ SameRows /\ Rows' = Rows /\ \A v \in Rows : worker'[v].open = worker[v].open
         /\ worker'[w].state = state /\ \A v \in Worker : v # w => worker'[v] = worker[v]
<1>1. worker[w] \in WorkerRow /\ w \in Worker BY DEF Rows, WorkersTyped
<1>2. [worker[w] EXCEPT !.state = state] \in WorkerRow
  BY <1>1 DEF WorkerRow, State, Serving
<1>3. worker'[w] = [worker[w] EXCEPT !.state = state] BY <1>1 DEF WorkersTyped
<1>4. QED BY <1>1, <1>2, <1>3, RowAssumption DEF SameRows, Rows, WorkersTyped, WorkerRow

LEMMA ClosedIs ==
  ASSUME WorkersTyped, NEW w \in Rows, worker' = [worker EXCEPT ![w].open = FALSE]
  PROVE  /\ SameRows /\ Rows' = Rows /\ worker'[w].state = worker[w].state
         /\ \A v \in Worker : v # w => worker'[v] = worker[v]
<1>1. worker[w] \in WorkerRow /\ w \in Worker BY DEF Rows, WorkersTyped
<1>2. PICK row : row = [worker[w] EXCEPT !.open = FALSE] OBVIOUS
<1>3. row \in WorkerRow /\ row.ep = worker[w].ep /\ row.state = worker[w].state
  BY <1>1, <1>2 DEF WorkerRow
<1>4. worker'[w] = row BY <1>1, <1>2 DEF WorkersTyped
<1>5. \A v \in Worker : v # w => worker'[v] = worker[v] BY DEF WorkersTyped
<1>6. QED BY <1>3, <1>4, <1>5, RowAssumption DEF SameRows, Rows

LEMMA CreatedIs ==
  ASSUME WorkersTyped, NEW w \in Worker, NEW e \in Endpoint,
         worker' = [worker EXCEPT ![w] = NewRow(e)]
  PROVE  /\ Rows' = Rows \cup {w} /\ worker'[w].ep = e /\ worker'[w].state = "starting"
         /\ worker'[w].open /\ \A v \in Worker : v # w => worker'[v] = worker[v]
<1>1. NewRow(e) \in WorkerRow BY DEF NewRow, WorkerRow
<1>2. worker'[w] = NewRow(e) BY DEF WorkersTyped
<1>3. worker'[w] # Nothing BY <1>1, <1>2, RowAssumption
<1>4. PICK row : row = NewRow(e) OBVIOUS
<1>5. row.ep = e /\ row.state = "starting" /\ row.open BY <1>4, Zenon DEF NewRow
<1>6. worker'[w] = row BY <1>2, <1>4
<1>7. QED BY <1>3, <1>5, <1>6 DEF Rows, WorkersTyped

(***************************************************************************)
(* The kinds of step. Most of them settle something: jobs finish or are     *)
(* handed to a worker that serves, workers stop serving, nothing is new.    *)
(***************************************************************************)

Left == InState({"gone"})

Settles ==
  /\ SameEp /\ Open' \subseteq Open
  /\ \A j \in Running' : \/ j \in Running /\ job'[j].at = job[j].at
                         \/ /\ j \in Open /\ job'[j].at \in InState(Serving)
                            /\ worker[job'[j].at].ep = job[j].ep
  /\ SameRows /\ Rows' = Rows /\ NotGone' = NotGone /\ Left' = Left
  /\ InState(Serving)' \subseteq InState(Serving)
Submits == UNCHANGED worker /\ \E j \in Job, e \in Endpoint : Submit(j, e)
Loses(w) ==
  /\ worker' = Gone(w)
  /\ job' = AfterGone(w) \/ (UNCHANGED job /\ "create" \in faults')

JobsSettle ==
  /\ SameEp /\ Running' \subseteq Running /\ Open' \subseteq Open
  /\ \A j \in Running' : job'[j].at = job[j].at
WorkersSettle ==
  /\ SameRows /\ Rows' = Rows /\ NotGone' = NotGone /\ Left' = Left
  /\ InState(Serving)' \subseteq InState(Serving)

LEMMA BothSettle == ASSUME JobsSettle, WorkersSettle PROVE Settles
BY DEF JobsSettle, WorkersSettle, Settles

LEMMA JobsRest == ASSUME UNCHANGED job PROVE JobsSettle
BY DEF JobsSettle, SameEp, Running, Open, Jobs, Made

LEMMA JobsEnd ==
  ASSUME JobsTyped, NEW S \in SUBSET Made, NEW status \in Terminal, job' = Finished(S, status)
  PROVE  JobsSettle
BY FinishedIs DEF JobsSettle, Running, Made, Jobs

LEMMA WorkersRest == ASSUME UNCHANGED worker PROVE WorkersSettle
BY DEF WorkersSettle, SameRows, Rows, NotGone, Left, InState

LEMMA WorkersStop == ASSUME WorkersTyped, NEW S, worker' = Stopped(S) PROVE WorkersSettle
BY StoppedIs DEF WorkersSettle, Left

LEMMA WorkerGoesOn ==
  ASSUME WorkersTyped, NEW w \in InState(Serving), NEW state \in Serving,
         worker' = [worker EXCEPT ![w].state = state]
  PROVE  WorkersSettle
<1>1. w \in Rows /\ state \in State BY ActiveRows DEF State
<1>2. /\ SameRows /\ Rows' = Rows /\ worker'[w].state = state
      /\ \A v \in Worker : v # w => worker'[v] = worker[v]
  BY <1>1, StateIs
<1>3. QED BY <1>1, <1>2 DEF WorkersSettle, NotGone, Left, InState, Rows, Serving

LEMMA WorkerCloses ==
  ASSUME WorkersTyped, NEW w \in Rows, worker' = [worker EXCEPT ![w].open = FALSE]
  PROVE  WorkersSettle
BY ClosedIs DEF WorkersSettle, NotGone, Left, InState, Rows

LEMMA StopsSettle ==
  ASSUME WorkersTyped, NEW name, NEW todo, NEW S, StopsAll(name, todo, S)
  PROVE  WorkersSettle
BY WorkersRest, WorkersStop DEF StopsAll

LEMMA CallsSettle == ASSUME Typed, Calls PROVE Settles \/ Submits
<1> USE DEF outside
<1>1. JobsTyped /\ WorkersTyped BY DEF Typed
<1>2. ASSUME NEW e \in Endpoint, CreateEndpoint(e) PROVE Settles
  BY <1>2, JobsRest, WorkersRest, BothSettle DEF CreateEndpoint
<1>3. ASSUME NEW e \in Endpoint, DeleteEndpoint(e) PROVE Settles
  <2>1. JobsOf(e, Unfinished) \in SUBSET Made /\ "CANCELLED" \in Terminal
    BY DEF JobsOf, Jobs, Made, Terminal
  <2>2. JobsSettle BY <1>1, <1>3, <2>1, JobsEnd DEF DeleteEndpoint
  <2>3. QED BY <1>1, <1>3, <2>2, WorkersRest, WorkersStop, BothSettle DEF DeleteEndpoint
<1>4. ASSUME NEW w \in Worker, DeleteGoesOn(w) PROVE Settles
  BY <1>1, <1>4, JobsRest, WorkersStop, BothSettle DEF DeleteGoesOn
<1>5. ASSUME NEW j \in Job, NEW e \in Endpoint, Submit(j, e) PROVE Submits
  BY <1>5 DEF Submits, Submit
<1>6. ASSUME NEW j \in Job, Cancel(j) PROVE Settles
  <2>1. {j} \in SUBSET Made /\ "CANCELLED" \in Terminal
    BY <1>6 DEF Cancel, Jobs, Made, Terminal
  <2>2. JobsSettle BY <1>1, <1>6, <2>1, JobsEnd DEF Cancel
  <2>3. QED BY <1>1, <1>6, <2>2, WorkersRest, WorkersStop, BothSettle DEF Cancel
<1>7. ASSUME NEW e \in Endpoint, PurgeQueue(e) PROVE Settles
  <2>1. JobsSettle BY <1>1, <1>7, QueueMade, JobsEnd DEF PurgeQueue, Terminal
  <2>2. QED BY <1>7, <2>1, WorkersRest, BothSettle DEF PurgeQueue
<1>8. ASSUME NEW w \in Worker, NEW n \in 1..Batch, JobTake(w, n) PROVE Settles
  <2>1. PICK S : S = Oldest(worker[w].ep, n) OBVIOUS
  <2>2. S \in SUBSET Jobs({"IN_QUEUE"}) /\ \A j \in S : job[j].ep = worker[w].ep
    BY <2>1 DEF Oldest, Queue, JobsOf
  <2>3. /\ Running' = Running \cup S /\ Open' = Open /\ SameEp
        /\ \A j \in Made : job'[j].at = IF j \in S THEN w ELSE job[j].at
    BY <1>1, <1>8, <2>1, <2>2, HandedIs DEF JobTake
  <2>4. w \in InState(Serving) BY <1>8 DEF JobTake, CanCall
  <2>5. PICK state \in Serving : worker' = [worker EXCEPT ![w].state = state]
    BY <1>8, <2>4 DEF JobTake, InState, Serving
  <2>6. WorkersSettle BY <1>1, <2>4, <2>5, WorkerGoesOn
  <2>7. Running \subseteq Made /\ S \subseteq Made /\ S \subseteq Open
    BY <2>2 DEF Running, Open, Jobs, Made, Unfinished
  <2>8. QED BY <2>2, <2>3, <2>4, <2>6, <2>7 DEF WorkersSettle, Settles
<1>9. ASSUME NEW w \in Worker, NEW j \in Job, NEW status \in {"COMPLETED", "FAILED"},
             NEW stopPod \in BOOLEAN, JobDone(w, j, status, stopPod)
      PROVE  Settles
  <2>1. {j} \in SUBSET Made /\ status \in Terminal
    BY <1>9 DEF JobDone, JobsAt, Jobs, Made, Terminal
  <2>2. JobsSettle BY <1>1, <1>9, <2>1, JobsEnd DEF JobDone
  <2>3. w \in InState(Serving) BY <1>9 DEF JobDone, CanCall
  <2>4. worker' = Stopped({w}) \/ \E state \in Serving : worker' = [worker EXCEPT ![w].state = state]
    BY <1>9, <2>3 DEF JobDone, InState, Serving
  <2>5. QED BY <1>1, <2>2, <2>3, <2>4, WorkersStop, WorkerGoesOn, BothSettle
<1>10. QED BY <1>2, <1>3, <1>4, <1>5, <1>6, <1>7, <1>8, <1>9 DEF Calls

LEMMA ItemsSettle == ASSUME Typed, TickItem PROVE Settles \/ \E w \in Rows : Loses(w)
<1>1. JobsTyped /\ WorkersTyped BY DEF Typed
<1>2. ASSUME NEW w \in Worker, TickReaps(w) PROVE Settles \/ \E v \in Rows : Loses(v)
  <2>1. w \in Rows BY <1>2, ItemsTyped DEF TickReaps, TodoOK
  <2>2. QED BY <1>2, <2>1, JobsRest, WorkersRest, BothSettle DEF TickReaps, Loses
<1>3. CASE TickAsks \/ \E w \in Worker : TickKillsOrphan(w) \/ TickCloses(w)
  BY <1>3, JobsRest, WorkersRest, BothSettle DEF TickAsks, TickKillsOrphan, TickCloses
<1>4. CASE TickStops \/ TickStopsAgain \/ TickStopsUnready
  BY <1>1, <1>4, JobsRest, StopsSettle, BothSettle DEF TickStops, TickStopsAgain, TickStopsUnready
<1>5. ASSUME NEW o \in Owner, TickFailsOwner(o) PROVE Settles
  <2>1. {j \in Jobs(Unfinished) : OwnerOf[job[j].ep] = o} \in SUBSET Made /\ "FAILED" \in Terminal
    BY DEF Jobs, Made, Terminal
  <2>2. JobsSettle BY <1>1, <1>5, <2>1, JobsEnd DEF TickFailsOwner
  <2>3. QED BY <1>1, <1>5, <2>2, StopsSettle, BothSettle DEF TickFailsOwner
<1>6. CASE TickExpires
  <2>1. Items("expired") \in SUBSET Made /\ "TIMED_OUT" \in Terminal
    BY ItemsTyped DEF Jobs, Made, Terminal
  <2>2. JobsSettle BY <1>1, <1>6, <2>1, JobsEnd DEF TickExpires
  <2>3. QED BY <1>6, <2>2, WorkersRest, BothSettle DEF TickExpires
<1>7. ASSUME NEW j \in Job, TickTimesOut(j) PROVE Settles
  <2>1. {j} \in SUBSET Made /\ "TIMED_OUT" \in Terminal
    BY <1>7, ItemsTyped DEF TickTimesOut, TodoOK, Terminal
  <2>2. JobsSettle BY <1>1, <1>7, <2>1, JobsEnd DEF TickTimesOut
  <2>3. QED BY <1>1, <1>7, <2>2, StopsSettle, BothSettle DEF TickTimesOut
<1>8. ASSUME NEW e \in Endpoint, TickScales(e) PROVE Settles
  <2>1. UNCHANGED worker \/ \E todo, S : StopsAll("scale", todo, S)
    BY <1>8 DEF TickScales
  <2>2. WorkersSettle BY <1>1, <2>1, WorkersRest, StopsSettle
  <2>3. QED BY <1>8, <2>2, JobsRest, BothSettle DEF TickScales
<1>9. QED BY <1>2, <1>3, <1>4, <1>5, <1>6, <1>7, <1>8 DEF TickItem

LEMMA AnswersSettle ==
  ASSUME Typed,
         \/ TickAnswered \/ KillFails \/ CloseFails \/ AccountsFail \/ OpenLost \/ CreateFails
  PROVE  Settles \/ OpenAnswered \/ \E w \in Rows : Loses(w)
<1>1. JobsTyped /\ WorkersTyped /\ CallOK(tick.call) BY DEF Typed, TickTyped
<1>2. CASE KillReturns
  <2>1. tick.call.w \in Rows BY <1>1, <1>2 DEF KillReturns, CallOK
  <2>2. QED BY <1>2, <2>1, JobsRest, WorkersRest, BothSettle DEF KillReturns, Loses
<1>3. CASE CloseReturns \/ CloseFails
  <2>1. tick.call.w \in Rows /\ AfterClose BY <1>1, <1>3 DEF CloseReturns, CloseFails, CallOK
  <2>2. JobsSettle BY <1>1, <2>1, QueueMade, JobsRest, JobsEnd DEF AfterClose, Terminal
  <2>3. WorkersSettle BY <1>1, <1>3, <2>1, WorkersRest, WorkerCloses DEF CloseReturns, CloseFails
  <2>4. QED BY <2>2, <2>3, BothSettle
<1>4. ASSUME NEW code, OpenRefused(code) PROVE Settles
  <2>1. JobsSettle BY <1>1, <1>4, QueueMade, JobsRest, JobsEnd DEF OpenRefused, Terminal
  <2>2. QED BY <1>4, <2>1, WorkersRest, BothSettle DEF OpenRefused
<1>5. CASE CreateFails
  <2>1. tick.call.w \in Rows BY <1>1, <1>5 DEF CreateFails, CallOK
  <2>2. UNCHANGED job /\ "create" \in faults' BY <1>5 DEF CreateFails, Fails
  <2>3. QED BY <1>5, <2>1, <2>2 DEF CreateFails, Loses
<1>6. CASE \/ AccountsAnswered \/ AccountsFail \/ HubAdmits \/ PodCreated \/ CreateAnswered
           \/ OpenLost \/ KillFails
  <2>1. UNCHANGED <<job, worker>>
    BY <1>6 DEF AccountsAnswered, AccountsFail, AccountsReturn, HubAdmits, PodCreated,
                CreateAnswered, OpenLost, KillFails
  <2>2. QED BY <2>1, JobsRest, WorkersRest, BothSettle
<1>7. QED BY <1>2, <1>3, <1>4, <1>5, <1>6 DEF TickAnswered

LEMMA StepKinds ==
  ASSUME Typed, [Next]_vars
  PROVE  Settles \/ Submits \/ OpenAnswered \/ \E w \in Rows : Loses(w)
<1>1. CASE \/ \E J \in SUBSET Jobs(Unfinished), W \in SUBSET Timed : TickLists(J, W)
           \/ TickSleeps \/ GatewayRestart \/ Cluster \/ \E d \in deletes : DeleteFails(d)
           \/ UNCHANGED vars
  BY <1>1, OthersTyped, JobsRest, WorkersRest, BothSettle
<1>2. QED BY <1>1, CallsSettle, ItemsSettle, AnswersSettle DEF Next, Tick, Faults

(***************************************************************************)
(* What the control loop knows of the workers it deals with: over each of   *)
(* its awaits, who is being started has no row yet, and whose session is    *)
(* closed or whose stray pod is deleted is gone.                            *)
(***************************************************************************)

LoopOK(name, todo, kill, call) ==
  /\ call.op \in {"open", "admitted"} => worker[call.w] = Nothing /\ name = "scale"
  /\ call.op \in {"admitted", "create", "created"} => call.w \in session
  /\ call.op = "close" \/ (call.op = "kill" /\ name # "reap") => call.w \in Left
  /\ name \in {"orphans", "unclosed"} => todo \subseteq Left
  /\ name = "credit" => call.op \in {"none", "accounts"}
  /\ call.op # "none" \/ name = "sleep" => kill = {}
LoopKnows == LoopOK(Phases[tick.phase], tick.todo, tick.kill, tick.call)

LEMMA LostIs ==
  ASSUME WorkersTyped, NEW w \in Rows, worker' = Gone(w)
  PROVE  /\ SameRows /\ Rows' = Rows /\ NotGone' = NotGone \ {w} /\ Left' = Left \cup {w}
         /\ InState(Serving)' \subseteq InState(Serving)
<1>1. /\ SameRows /\ Rows' = Rows /\ worker'[w].state = "gone"
      /\ \A v \in Worker : v # w => worker'[v] = worker[v]
  BY StateIs DEF Gone, State
<1>2. QED BY <1>1 DEF NotGone, Left, InState, Rows, Serving

LEMMA StartedIs ==
  ASSUME Typed, LoopKnows, OpenAnswered
  PROVE  /\ SameRows /\ Rows' = Rows \cup {tick.call.w} /\ NotGone' = NotGone \cup {tick.call.w}
         /\ Left' = Left /\ InState(Serving)' = InState(Serving) \cup {tick.call.w}
         /\ worker'[tick.call.w].ep = tick.call.ep /\ worker'[tick.call.w].open
         /\ worker[tick.call.w] = Nothing
<1>1. WorkersTyped /\ CallOK(tick.call) BY DEF Typed, TickTyped
<1>2. tick.call.w \in Worker /\ tick.call.ep \in Endpoint /\ worker[tick.call.w] = Nothing
  BY <1>1 DEF OpenAnswered, CallOK, LoopKnows, LoopOK
<1>3. PICK w \in Worker : w = tick.call.w BY <1>2
<1>4. PICK e \in Endpoint : e = tick.call.ep BY <1>2
<1>5. worker' = [worker EXCEPT ![w] = NewRow(e)] BY <1>3, <1>4 DEF OpenAnswered, NewRow
<1>6. /\ Rows' = Rows \cup {w} /\ worker'[w].ep = e /\ worker'[w].state = "starting"
      /\ worker'[w].open /\ \A v \in Worker : v # w => worker'[v] = worker[v]
  BY <1>1, <1>5, CreatedIs
<1>7. w \notin Rows BY <1>2, <1>3 DEF Rows
<1>8. w \in Rows' BY <1>6
<1>9. QED BY <1>2, <1>3, <1>4, <1>6, <1>7, <1>8 DEF SameRows, NotGone, Left, InState, Rows, Serving

\* Rows stay, with their endpoint, and who is gone stays gone.
LEMMA RowsKept ==
  ASSUME Typed, LoopKnows, [Next]_vars
  PROVE  /\ SameRows /\ Rows \subseteq Rows' /\ Left \subseteq Left'
         /\ OpenAnswered \/ Rows' = Rows
<1>1. WorkersTyped BY DEF Typed
<1>2. CASE Settles BY <1>2 DEF Settles
<1>3. CASE Submits BY <1>3, WorkersRest DEF Submits, WorkersSettle
<1>4. CASE OpenAnswered BY <1>4, StartedIs
<1>5. ASSUME NEW w \in Rows, Loses(w) PROVE SameRows /\ Rows' = Rows /\ Left \subseteq Left'
  BY <1>1, <1>5, LostIs DEF Loses
<1>6. QED BY <1>2, <1>3, <1>4, <1>5, StepKinds

LEMMA LoopStays ==
  ASSUME Rows' = Rows, Left \subseteq Left', session \subseteq session',
         NEW name, NEW todo, NEW kill, NEW call, call.op \in {"open", "admitted"} => call.w \in Worker,
         LoopOK(name, todo, kill, call)
  PROVE  LoopOK(name, todo, kill, call)'
BY DEF LoopOK, Rows

\* The loop takes something up.
LEMMA TakesUpKnows ==
  ASSUME tick \in TickRow, NEW name \in PhaseNames, NEW todo \in SUBSET Item,
         NEW kill \in SUBSET Worker, NEW call \in CallRow, tick' = At(name, todo, kill, call),
         LoopOK(name, todo, kill, call)'
  PROVE  LoopKnows'
<1>1. /\ Phases[tick'.phase] = name /\ tick'.todo = todo /\ tick'.kill = kill /\ tick'.call = call
  BY AtTyped
<1>2. QED BY <1>1 DEF LoopKnows

LEMMA StopsKnow ==
  ASSUME Typed, NEW name \in PhaseNames, NEW todo \in SUBSET Item, NEW S \in SUBSET Worker,
         StopsAll(name, todo, S), name # "sleep",
         name \in {"orphans", "unclosed"} => todo \subseteq Left'
  PROVE  LoopKnows'
<1>1. PICK kill \in SUBSET Worker : tick' = At(name, todo, kill, NoCall)
  <2>1. CASE S = {} BY <2>1 DEF StopsAll
  <2>2. CASE S # {}
    <3>1. PICK w \in S : tick' = At(name, todo, S \ {w}, NoCall) BY <2>2 DEF StopsAll
    <3>2. S \ {w} \in SUBSET Worker OBVIOUS
    <3>3. QED BY <3>1, <3>2
  <2>3. QED BY <2>1, <2>2
<1>2. LoopOK(name, todo, kill, NoCall)' BY DEF LoopOK, NoCall, Left
<1>3. NoCall \in CallRow BY NoCallOK DEF CallOK
<1>4. tick \in TickRow BY DEF Typed, TickTyped
<1>5. QED BY <1>1, <1>2, <1>3, <1>4, TakesUpKnows

LEMMA AsleepKnows == ASSUME tick' = Asleep PROVE LoopKnows'
BY PhaseNumbers DEF Asleep, LoopKnows, LoopOK, NoCall

LEMMA ItemsLeft ==
  ASSUME Typed, LoopKnows PROVE Items("orphans") \subseteq Left /\ Items("unclosed") \subseteq Left
<1>1. \A name \in PhaseNames : \A x \in Items(name) :
        (Phases[tick.phase] = name /\ x \in tick.todo) \/ x \in Work(name)
  BY ItemsAre DEF In
<1>2. Work("orphans") \subseteq Left
  <2>1. Rows \ NotGone \subseteq Left
    BY DEF Rows, NotGone, Left, InState, Typed, WorkersTyped, WorkerRow, Serving
  <2>2. \A w \in Worker : tick.snap[w] # "none" => w \in Rows BY DEF Typed, PodsTyped
  <2>3. QED BY <2>1, <2>2, WorkIs
<1>3. Work("unclosed") \subseteq Left BY WorkIs DEF Unclosed, Left
<1>4. QED BY <1>1, <1>2, <1>3 DEF LoopKnows, LoopOK, PhaseNames

LEMMA ItemsKnow == ASSUME Typed, LoopKnows, TickItem PROVE LoopKnows'
<1> USE DEF PhaseNames
<1>1. tick \in TickRow /\ WorkersTyped BY DEF Typed, TickTyped
<1>2. Left \subseteq Left' BY RowsKept DEF Next, Tick
<1>3. ASSUME NEW w \in Worker, TickReaps(w) PROVE LoopKnows'
  <2>1. TodoOK("reap", Items("reap")) /\ w \in Rows
    BY <1>3, ItemsTyped DEF TickReaps, TodoOK
  <2>2. PICK todo : todo = Items("reap") \ {w} OBVIOUS
  <2>3. todo \in SUBSET Item BY <2>1, <2>2, TodoShrinks, TodoItems
  <2>4. PICK op \in {"close", "kill"} : /\ tick' = At("reap", todo, {}, Call(op, w, Nothing))
                                        /\ op = "close" => worker' = Gone(w)
    BY <1>3, <2>2 DEF TickReaps
  <2>5. Call(op, w, Nothing) \in CallRow BY DEF Call, CallRow, CallOp
  <2>6. op = "close" => w \in Left' BY <1>1, <2>1, <2>4, LostIs
  <2>7. LoopOK("reap", todo, {}, Call(op, w, Nothing))' BY <2>6 DEF LoopOK, Call, Left
  <2>8. QED BY <1>1, <2>3, <2>4, <2>5, <2>7, TakesUpKnows
<1>4. ASSUME NEW w \in Worker, NEW name \in {"orphans", "unclosed"}, NEW op \in {"kill", "close"},
             w \in Items(name), tick' = At(name, Items(name) \ {w}, {}, Call(op, w, Nothing))
      PROVE  LoopKnows'
  <2>1. Items(name) \subseteq Left' BY <1>2, <1>4, ItemsLeft
  <2>2. PICK todo : todo = Items(name) \ {w} OBVIOUS
  <2>3. todo \in SUBSET Item /\ todo \subseteq Left' /\ w \in Left'
    BY <1>4, <2>1, <2>2 DEF Left, InState, Item
  <2>4. Call(op, w, Nothing) \in CallRow BY DEF Call, CallRow, CallOp
  <2>5. LoopOK(name, todo, {}, Call(op, w, Nothing))' BY <2>3 DEF LoopOK, Call, Left
  <2>6. QED BY <1>1, <1>4, <2>2, <2>3, <2>4, <2>5, TakesUpKnows
<1>5. ASSUME NEW w \in Worker, TickKillsOrphan(w) PROVE LoopKnows'
  BY <1>4, <1>5 DEF TickKillsOrphan
<1>6. ASSUME NEW w \in Worker, TickCloses(w) PROVE LoopKnows'
  BY <1>4, <1>6 DEF TickCloses
<1>7. CASE TickStops
  <2>1. PICK name, todo, S : name = Phases[tick.phase] /\ todo = tick.todo /\ S = tick.kill OBVIOUS
  <2>2. name \in PhaseNames /\ todo \in SUBSET Item /\ S \in SUBSET Worker
    BY <1>1, <2>1, PhaseNumbers DEF TickRow
  <2>3. name # "sleep" /\ (name \in {"orphans", "unclosed"} => todo \subseteq Left')
    BY <1>2, <1>7, <2>1 DEF TickStops, LoopKnows, LoopOK
  <2>4. StopsAll(name, todo, S) BY <1>7, <2>1 DEF TickStops
  <2>5. QED BY <2>2, <2>3, <2>4, StopsKnow
<1>8. CASE TickStopsAgain \/ TickStopsUnready
  <2>1. Items("again") \in SUBSET Worker /\ Items("unready") \in SUBSET Worker
    BY ItemsTyped DEF InState
  <2>2. QED BY <1>8, <2>1, StopsKnow DEF TickStopsAgain, TickStopsUnready
<1>9. CASE TickAsks
  <2>1. PICK todo : todo = Items("credit") OBVIOUS
  <2>2. todo \in SUBSET Item BY <2>1, ItemsTyped, TodoItems
  <2>3. Call("accounts", Nothing, Nothing) \in CallRow BY DEF Call, CallRow, CallOp
  <2>4. LoopOK("credit", todo, {}, Call("accounts", Nothing, Nothing))' BY DEF LoopOK, Call
  <2>5. QED BY <1>1, <1>9, <2>1, <2>2, <2>3, <2>4, TakesUpKnows DEF TickAsks
<1>10. ASSUME NEW o \in Owner, TickFailsOwner(o) PROVE LoopKnows'
  <2>1. tick.todo \ {o} \in SUBSET Item BY <1>1 DEF TickRow
  <2>2. {w \in InState(Serving) : OwnerOf[worker[w].ep] = o} \in SUBSET Worker BY DEF InState
  <2>3. QED BY <1>10, <2>1, <2>2, StopsKnow DEF TickFailsOwner
<1>11. CASE TickExpires
  <2>1. NoCall \in CallRow BY NoCallOK DEF CallOK
  <2>2. LoopOK("expired", {}, {}, NoCall)' BY DEF LoopOK, NoCall
  <2>3. QED BY <1>1, <1>11, <2>1, <2>2, TakesUpKnows DEF TickExpires
<1>12. ASSUME NEW j \in Job, TickTimesOut(j) PROVE LoopKnows'
  <2>1. TodoOK("late", Items("late")) /\ job[j].at \in Worker
    BY <1>12, ItemsTyped DEF TickTimesOut, TodoOK
  <2>2. Items("late") \ {j} \in SUBSET Item BY <2>1, TodoShrinks, TodoItems
  <2>3. PICK S \in SUBSET Worker : S = {job[j].at} BY <2>1
  <2>4. QED BY <1>12, <2>2, <2>3, StopsKnow DEF TickTimesOut
<1>13. ASSUME NEW e \in Endpoint, TickScales(e) PROVE LoopKnows'
  <2>1. PICK todo : todo = Items("scale") \ {e} OBVIOUS
  <2>2. todo \in SUBSET Item BY <2>1, ItemsTyped, TodoShrinks, TodoItems
  <2>3. CASE \E w \in Unused : /\ tick' = At("scale", todo, {}, Call("open", w, e))
                               /\ UNCHANGED <<worker, deletes>>
    <3>1. PICK w \in Unused : tick' = At("scale", todo, {}, Call("open", w, e)) BY <2>3
    <3>2. Call("open", w, e) \in CallRow BY DEF Call, CallRow, CallOp, Unused
    <3>3. worker'[w] = Nothing BY <2>3 DEF Unused
    <3>4. LoopOK("scale", todo, {}, Call("open", w, e))' BY <3>3 DEF LoopOK, Call
    <3>5. QED BY <1>1, <2>2, <3>1, <3>2, <3>4, TakesUpKnows
  <2>4. CASE \E S \in SUBSET Idle(e) : StopsAll("scale", todo, S)
    <3>1. Idle(e) \in SUBSET Worker BY DEF Idle, Active, InState
    <3>2. QED BY <2>2, <2>4, <3>1, StopsKnow
  <2>5. QED BY <1>13, <2>1, <2>3, <2>4 DEF TickScales
<1>14. QED BY <1>3, <1>5, <1>6, <1>7, <1>8, <1>9, <1>10, <1>11, <1>12, <1>13 DEF TickItem

\* A call is over, or is followed by the next.
LEMMA AnsweredKnows ==
  ASSUME Typed, LoopKnows, Left \subseteq Left', tick.call.op # "none", tick' = Answered
  PROVE  LoopKnows'
<1>1. tick \in TickRow BY DEF Typed, TickTyped
<1>2. /\ tick'.phase = tick.phase /\ tick'.todo = tick.todo
      /\ tick'.kill = tick.kill /\ tick'.call = NoCall
  BY <1>1, AnsweredTyped
<1>3. QED BY <1>2 DEF LoopKnows, LoopOK, NoCall

LEMMA FollowKnows ==
  ASSUME Typed, LoopKnows, Left \subseteq Left', NEW op \in {"close", "admitted", "create", "created"},
         tick.call.op \notin {"none", "accounts"},
         tick' = Follow(op), NEW w, w = tick.call.w,
         op = "close" => w \in Left', op # "close" => w \in session',
         op = "admitted" => Phases[tick.phase] = "scale" /\ worker'[w] = Nothing
  PROVE  LoopKnows'
<1>1. tick \in TickRow /\ op \in CallOp BY DEF Typed, TickTyped, CallOp
<1>2. PICK c : c = Call(op, w, tick.call.ep) OBVIOUS
<1>3. c.op = op /\ c.w = w BY <1>2 DEF Call
<1>4. /\ tick'.phase = tick.phase /\ tick'.todo = tick.todo
      /\ tick'.kill = tick.kill /\ tick'.call = c
  BY <1>1, <1>2, FollowTyped
<1>5. QED BY <1>3, <1>4 DEF LoopKnows, LoopOK

LEMMA AnswersKnow ==
  ASSUME Typed, LoopKnows, [Next]_vars,
         \/ TickAnswered \/ KillFails \/ CloseFails \/ AccountsFail \/ OpenLost \/ CreateFails
  PROVE  LoopKnows'
<1>1. WorkersTyped /\ CallOK(tick.call) /\ tick \in TickRow BY DEF Typed, TickTyped
<1>2. Left \subseteq Left' BY RowsKept
<1>3. PICK w : w = tick.call.w OBVIOUS
<1>4. CASE KillReturns
  <2>1. w \in Rows BY <1>1, <1>3, <1>4 DEF KillReturns, CallOK
  <2>2. CASE In("reap")
    <3>1. worker' = Gone(w) BY <1>3, <1>4, <2>2 DEF KillReturns
    <3>2. w \in Left' BY <1>1, <2>1, <3>1, LostIs
    <3>3. QED BY <1>2, <1>3, <1>4, <3>2, FollowKnows DEF KillReturns
  <2>3. CASE ~In("reap")
    <3>1. w \in Left' BY <1>2, <1>3, <1>4, <2>3 DEF KillReturns, LoopKnows, LoopOK, In
    <3>2. QED BY <1>2, <1>3, <1>4, <3>1, FollowKnows DEF KillReturns
  <2>4. QED BY <2>2, <2>3
<1>5. CASE CloseReturns \/ CloseFails
  BY <1>2, <1>5, AnsweredKnows DEF CloseReturns, CloseFails, AfterClose
<1>6. CASE AccountsAnswered \/ AccountsFail
  <2>1. PICK S \in SUBSET Owner : AccountsReturn(S)
    BY <1>6 DEF AccountsAnswered, AccountsFail, Typed, RestTyped
  <2>2. S \in SUBSET Item /\ "credit" \in PhaseNames BY DEF Item, PhaseNames
  <2>3. NoCall \in CallRow BY NoCallOK DEF CallOK
  <2>4. LoopOK("credit", S, {}, NoCall)' BY DEF LoopOK, NoCall
  <2>5. QED BY <1>1, <2>1, <2>2, <2>3, <2>4, TakesUpKnows DEF AccountsReturn
<1>7. CASE HubAdmits
  <2>1. w \in session' /\ UNCHANGED worker BY <1>3, <1>7 DEF HubAdmits
  <2>2. Phases[tick.phase] = "scale" /\ worker[w] = Nothing
    BY <1>3, <1>7 DEF HubAdmits, LoopKnows, LoopOK
  <2>3. QED BY <1>2, <1>3, <1>7, <2>1, <2>2, FollowKnows DEF HubAdmits
<1>8. CASE OpenAnswered \/ PodCreated
  <2>1. w \in session'
    BY <1>3, <1>8 DEF OpenAnswered, PodCreated, outside, LoopKnows, LoopOK
  <2>2. QED BY <1>2, <1>3, <1>8, <2>1, FollowKnows DEF OpenAnswered, PodCreated
<1>9. CASE CreateAnswered \/ \E code : OpenRefused(code)
  BY <1>2, <1>9, AnsweredKnows DEF CreateAnswered, OpenRefused
<1>10. CASE CreateFails
  <2>1. w \in Rows BY <1>1, <1>3, <1>10 DEF CreateFails, CallOK
  <2>2. w \in Left' BY <1>1, <1>3, <1>10, <2>1, LostIs DEF CreateFails
  <2>3. QED BY <1>2, <1>3, <1>10, <2>2, FollowKnows DEF CreateFails
<1>11. CASE KillFails \/ OpenLost BY <1>11, AsleepKnows DEF KillFails, OpenLost
<1>12. QED
  BY <1>4, <1>5, <1>6, <1>7, <1>8, <1>9, <1>10, <1>11 DEF TickAnswered

LEMMA NextKnows == ASSUME Typed, LoopKnows, [Next]_vars PROVE LoopKnows'
<1> USE DEF outside
<1>1. CASE UNCHANGED <<tick, session>> /\ ~OpenAnswered
  <2>1. Rows' = Rows /\ Left \subseteq Left' BY <1>1, RowsKept
  <2>2. PICK name, todo, kill, call :
          name = Phases[tick.phase] /\ todo = tick.todo /\ kill = tick.kill /\ call = tick.call
    OBVIOUS
  <2>3. call.op \in {"open", "admitted"} => call.w \in Worker
    BY <2>2 DEF Typed, TickTyped, CallOK
  <2>4. LoopOK(name, todo, kill, call) BY <2>2 DEF LoopKnows
  <2>5. LoopOK(name, todo, kill, call)' BY <1>1, <2>1, <2>3, <2>4, LoopStays
  <2>6. QED BY <1>1, <2>2, <2>5 DEF LoopKnows
<1>2. CASE \/ TickAnswered \/ KillFails \/ CloseFails \/ AccountsFail \/ OpenLost \/ CreateFails
  BY <1>2, AnswersKnow
<1>3. CASE Calls
  BY <1>1, <1>2, <1>3, CallsMove DEF CallFrame, TickAnswered
<1>4. CASE \/ Cluster \/ (\E d \in deletes : DeleteFails(d)) \/ UNCHANGED vars
  <2>1. UNCHANGED <<tick, session>>
    BY <1>4 DEF Cluster, PodStarts, PodEnds, PodDeleted, DeleteArrives, CreditMoves, PodMoves,
                DeleteFails, vars
  <2>2. QED BY <1>1, <1>2, <2>1 DEF TickAnswered
<1>5. ASSUME NEW J \in SUBSET Jobs(Unfinished), NEW W \in SUBSET Timed, TickLists(J, W)
      PROVE  LoopKnows'
  <2>1. NumberOf("listed") = 2 BY Numbered, PhaseNumbers DEF PhaseNames
  <2>2. Phases[tick'.phase] = "listed" /\ tick'.kill = {} /\ tick'.call = NoCall
    BY <1>5, <2>1, PhaseNumbers DEF TickLists
  <2>3. QED BY <2>2 DEF LoopKnows, LoopOK, NoCall
<1>6. CASE TickSleeps \/ GatewayRestart BY <1>6, AsleepKnows DEF TickSleeps, GatewayRestart
<1>7. QED BY <1>2, <1>3, <1>4, <1>5, <1>6, ItemsKnow DEF Next, Tick, Faults

Knows == Typed /\ LoopKnows

LEMMA InitKnows == Init => Knows
<1>1. Init => LoopKnows BY PhaseNumbers DEF Init, Asleep, LoopKnows, LoopOK, NoCall
<1>2. QED BY <1>1, InitTyped DEF Knows

LEMMA KnowsInductive == Knows /\ [Next]_vars => Knows'
BY NextTyped, NextKnows DEF Knows

(***************************************************************************)
(* Pods and sessions.                                                      *)
(***************************************************************************)

LEMMA FaultsStay == ASSUME Typed, [Next]_vars PROVE faults \subseteq faults'
<1> USE DEF Fails
<1>1. CASE Calls BY <1>1, CallsMove DEF CallFrame
<1>2. CASE Tick
  BY <1>2 DEF Tick, TickLists, TickSleeps, TickItem, TickReaps, TickKillsOrphan, TickCloses,
     TickStops, TickStopsAgain, TickStopsUnready, TickAsks, TickFailsOwner, TickExpires,
     TickTimesOut, TickScales, TickAnswered, KillReturns, CloseReturns, AccountsAnswered,
     HubAdmits, OpenAnswered, PodCreated, CreateAnswered, OpenRefused
<1>3. CASE Faults \/ Cluster \/ UNCHANGED vars
  BY <1>3 DEF Faults, KillFails, CloseFails, AccountsFail, OpenLost, CreateFails, GatewayRestart,
     DeleteFails, Cluster, PodStarts, PodEnds, PodDeleted, DeleteArrives, CreditMoves, vars
<1>4. QED BY <1>1, <1>2, <1>3 DEF Next

\* A session begins with the hub's admission and ends when it is closed.
LEMMA SessionsMove ==
  ASSUME Typed, [Next]_vars
  PROVE  \/ UNCHANGED session
         \/ HubAdmits /\ session' = session \cup {tick.call.w}
         \/ /\ CloseReturns \/ CloseFails
            /\ session \ {tick.call.w} \subseteq session' /\ session' \subseteq session
            /\ CloseReturns => session' = session \ {tick.call.w}
<1> USE DEF outside
<1>1. CASE Calls BY <1>1, CallsMove DEF CallFrame
<1>2. CASE Tick
  BY <1>2 DEF Tick, TickLists, TickSleeps, TickItem, TickReaps, TickKillsOrphan, TickCloses,
     TickStops, TickStopsAgain, TickStopsUnready, TickAsks, TickFailsOwner, TickExpires,
     TickTimesOut, TickScales, TickAnswered, KillReturns, CloseReturns, AccountsAnswered,
     AccountsReturn, HubAdmits, OpenAnswered, PodCreated, CreateAnswered, OpenRefused
<1>3. CASE Faults \/ Cluster \/ UNCHANGED vars
  BY <1>3 DEF Faults, KillFails, CloseFails, CloseReturns, AccountsFail, AccountsReturn, OpenLost,
     CreateFails, GatewayRestart, DeleteFails, Cluster, PodStarts, PodEnds, PodDeleted,
     DeleteArrives, CreditMoves, PodMoves, vars
<1>4. QED BY <1>1, <1>2, <1>3 DEF Next

HoldsGpu == {w \in Worker : pod[w] \in {"pending", "stuck", "running"}}

\* Only the gateway makes a pod that holds a GPU.
LEMMA PodsMove ==
  ASSUME Typed, [Next]_vars
  PROVE  HoldsGpu' \subseteq HoldsGpu \/ (PodCreated /\ HoldsGpu' \subseteq HoldsGpu \cup {tick.call.w})
<1> USE DEF outside
<1>1. pod \in [Worker -> PodPhase] BY DEF Typed, PodsTyped
<1>2. CASE UNCHANGED pod BY <1>2 DEF HoldsGpu
<1>3. ASSUME NEW w, NEW to, to \in {"none", "ended", "deleting"} \/ w \in HoldsGpu,
             pod' = [pod EXCEPT ![w] = to]
      PROVE  HoldsGpu' \subseteq HoldsGpu
  BY <1>1, <1>3 DEF HoldsGpu
<1>4. CASE PodCreated BY <1>1, <1>4 DEF PodCreated, HoldsGpu
<1>5. CASE Calls BY <1>2, <1>5, CallsMove DEF CallFrame
<1>6. CASE Tick
  <2>1. UNCHANGED pod \/ KillReturns \/ PodCreated
    BY <1>6 DEF Tick, TickLists, TickSleeps, TickItem, TickReaps, TickKillsOrphan, TickCloses,
       TickStops, TickStopsAgain, TickStopsUnready, TickAsks, TickFailsOwner, TickExpires,
       TickTimesOut, TickScales, TickAnswered, KillReturns, CloseReturns, AfterClose,
       AccountsAnswered, AccountsReturn, HubAdmits, OpenAnswered, PodCreated, CreateAnswered,
       OpenRefused
  <2>2. KillReturns => HoldsGpu' \subseteq HoldsGpu BY <1>3 DEF KillReturns
  <2>3. QED BY <1>2, <1>4, <2>1, <2>2
<1>7. CASE Faults
  <2>1. UNCHANGED pod \/ KillFails
    BY <1>7 DEF Faults, KillFails, CloseFails, AfterClose, AccountsFail, AccountsReturn, OpenLost,
       CreateFails, GatewayRestart, DeleteFails
  <2>2. KillFails => UNCHANGED pod \/ \E w : pod' = [pod EXCEPT ![w] = "none"]
    BY DEF KillFails
  <2>3. ASSUME NEW w, pod' = [pod EXCEPT ![w] = "none"] PROVE HoldsGpu' \subseteq HoldsGpu
    BY <1>3, <2>3
  <2>4. QED BY <1>2, <2>1, <2>2, <2>3
<1>8. CASE Cluster \/ UNCHANGED vars
  <2>1. ASSUME NEW w \in Worker, NEW to \in PodPhase, PodStarts(w, to) \/ PodEnds(w, to)
        PROVE  HoldsGpu' \subseteq HoldsGpu
    BY <1>3, <2>1 DEF PodStarts, PodEnds, PodMoves, HoldsGpu
  <2>2. ASSUME NEW w \in Worker, PodDeleted(w) PROVE HoldsGpu' \subseteq HoldsGpu
    BY <1>3, <2>2 DEF PodDeleted, PodMoves
  <2>3. ASSUME NEW d \in deletes, DeleteArrives(d) PROVE HoldsGpu' \subseteq HoldsGpu
    BY <1>3, <2>3 DEF DeleteArrives, PodMoves
  <2>4. QED BY <1>2, <1>8, <2>1, <2>2, <2>3 DEF Cluster, CreditMoves, vars
<1>9. QED BY <1>5, <1>6, <1>7, <1>8 DEF Next

LEMMA BilledStep ==
  ASSUME Knows, [Next]_vars, HoldsGpu \subseteq session \cup Left
  PROVE  (HoldsGpu \subseteq session \cup Left)'
<1>1. Left \subseteq Left' BY RowsKept DEF Knows
<1>2. session \subseteq session' \cup Left
  BY SessionsMove DEF Knows, LoopKnows, LoopOK, CloseReturns, CloseFails
<1>3. PodCreated => tick.call.w \in session BY DEF Knows, LoopKnows, LoopOK, PodCreated
<1>4. HoldsGpu' \subseteq HoldsGpu \cup session BY <1>3, PodsMove DEF Knows
<1>5. QED BY <1>1, <1>2, <1>4

\* A pod that holds a GPU is billed, or its worker is gone and the next pass of
\* the loop deletes it, whatever the hub, Kubernetes or a crash do to the loop.
THEOREM PodsAreBilled == Spec => []UnbilledPodIsOrphan
<1>1. Init => HoldsGpu \subseteq session \cup Left BY DEF Init, HoldsGpu
<1>2. HoldsGpu \subseteq session \cup Left => UnbilledPodIsOrphan
  BY DEF HoldsGpu, Left, UnbilledPodIsOrphan
<1>3. QED BY <1>1, <1>2, InitKnows, KnowsInductive, BilledStep, PTL DEF Spec

OpenStays == \A w \in Rows : worker'[w].open = worker[w].open

\* A row is marked closed by the hub's answer alone.
LEMMA OpensStay == ASSUME Knows, [Next]_vars, ~CloseReturns PROVE OpenStays
<1> USE DEF outside
<1>1. WorkersTyped BY DEF Knows, Typed
<1>2. CASE UNCHANGED worker BY <1>2 DEF OpenStays
<1>3. ASSUME NEW S, worker' = Stopped(S) PROVE OpenStays BY <1>1, <1>3, StoppedIs DEF OpenStays
<1>4. ASSUME NEW w \in Rows, NEW state \in State, worker' = [worker EXCEPT ![w].state = state]
      PROVE  OpenStays
  BY <1>1, <1>4, StateIs DEF OpenStays
<1>5. ASSUME NEW w \in Rows, worker' = Gone(w) PROVE OpenStays BY <1>4, <1>5 DEF Gone, State
<1>6. ASSUME NEW name, NEW todo, NEW S, StopsAll(name, todo, S) PROVE OpenStays
  BY <1>2, <1>3, <1>6 DEF StopsAll
<1>7. CASE Calls
  <2>1. ASSUME NEW w \in Worker, NEW n \in 1..Batch, JobTake(w, n) PROVE OpenStays
    <3>1. w \in InState(Serving) /\ w \in Rows BY <2>1, ActiveRows DEF JobTake, CanCall
    <3>2. PICK state \in Serving : worker' = [worker EXCEPT ![w].state = state]
      BY <2>1, <3>1 DEF JobTake, InState, Serving
    <3>3. QED BY <1>4, <3>1, <3>2 DEF State
  <2>2. ASSUME NEW w \in Worker, NEW j \in Job, NEW status \in {"COMPLETED", "FAILED"},
               NEW stopPod \in BOOLEAN, JobDone(w, j, status, stopPod)
        PROVE  OpenStays
    <3>1. w \in InState(Serving) /\ w \in Rows BY <2>2, ActiveRows DEF JobDone, CanCall
    <3>2. worker' = Stopped({w}) \/ \E state \in Serving : worker' = [worker EXCEPT ![w].state = state]
      BY <2>2, <3>1 DEF JobDone, InState, Serving
    <3>3. QED BY <1>3, <1>4, <3>1, <3>2 DEF State
  <2>3. ASSUME NEW e \in Endpoint, CreateEndpoint(e) \/ DeleteEndpoint(e) \/ PurgeQueue(e)
        PROVE  OpenStays
    BY <1>2, <1>3, <2>3 DEF CreateEndpoint, DeleteEndpoint, PurgeQueue
  <2>4. ASSUME NEW w \in Worker, DeleteGoesOn(w) PROVE OpenStays BY <1>3, <2>4 DEF DeleteGoesOn
  <2>5. ASSUME NEW j \in Job, Cancel(j) \/ \E e \in Endpoint : Submit(j, e) PROVE OpenStays
    BY <1>2, <1>3, <2>5 DEF Cancel, Submit
  <2>6. QED BY <1>7, <2>1, <2>2, <2>3, <2>4, <2>5 DEF Calls
<1>8. CASE TickItem
  <2>1. ASSUME NEW w \in Worker, TickReaps(w) PROVE OpenStays
    <3>1. w \in Rows BY <2>1, ItemsTyped DEF TickReaps, TodoOK, Knows
    <3>2. QED BY <1>2, <1>5, <2>1, <3>1 DEF TickReaps
  <2>2. CASE TickAsks \/ TickExpires \/ \E w \in Worker : TickKillsOrphan(w) \/ TickCloses(w)
    BY <1>2, <2>2 DEF TickAsks, TickExpires, TickKillsOrphan, TickCloses
  <2>3. CASE TickStops \/ TickStopsAgain \/ TickStopsUnready
    BY <1>6, <2>3 DEF TickStops, TickStopsAgain, TickStopsUnready
  <2>4. ASSUME NEW o \in Owner, TickFailsOwner(o) PROVE OpenStays BY <1>6, <2>4 DEF TickFailsOwner
  <2>5. ASSUME NEW j \in Job, TickTimesOut(j) PROVE OpenStays BY <1>6, <2>5 DEF TickTimesOut
  <2>6. ASSUME NEW e \in Endpoint, TickScales(e) PROVE OpenStays
    BY <1>2, <1>6, <2>6 DEF TickScales
  <2>7. QED BY <1>8, <2>1, <2>2, <2>3, <2>4, <2>5, <2>6 DEF TickItem
<1>9. CASE \/ TickAnswered \/ KillFails \/ CloseFails \/ AccountsFail \/ OpenLost \/ CreateFails
  <2>1. KillReturns \/ CreateFails => tick.call.w \in Rows
    BY DEF KillReturns, CreateFails, Knows, Typed, TickTyped, CallOK
  <2>2. ASSUME OpenAnswered PROVE OpenStays
    <3>1. PICK row : worker' = [worker EXCEPT ![tick.call.w] = row] BY <2>2 DEF OpenAnswered
    <3>2. tick.call.w \notin Rows BY <2>2 DEF OpenAnswered, Rows, Knows, LoopKnows, LoopOK
    <3>3. QED BY <1>1, <3>1, <3>2 DEF OpenStays, Rows, WorkersTyped
  <2>3. \/ UNCHANGED worker \/ OpenAnswered
        \/ (KillReturns \/ CreateFails) /\ worker' = Gone(tick.call.w)
    BY <1>9 DEF TickAnswered, KillReturns, AccountsAnswered, AccountsFail, AccountsReturn,
       HubAdmits, PodCreated, CreateAnswered, OpenRefused, KillFails, CloseFails, OpenLost,
       CreateFails
  <2>4. QED BY <1>2, <1>5, <2>1, <2>2, <2>3
<1>10. CASE \/ \E J \in SUBSET Jobs(Unfinished), W \in SUBSET Timed : TickLists(J, W)
            \/ TickSleeps \/ GatewayRestart \/ Cluster \/ (\E d \in deletes : DeleteFails(d))
            \/ UNCHANGED vars
  BY <1>2, <1>10, OthersTyped DEF Knows
<1>11. QED BY <1>7, <1>8, <1>9, <1>10 DEF Next, Tick, Faults

\* The call in flight is answered, or lost with its answer, before anything else
\* is done for a worker that has no row yet.
LEMMA AdmittedWaits ==
  ASSUME Knows, [Next]_vars, tick.call.op = "admitted"
  PROVE  UNCHANGED tick \/ OpenAnswered \/ "open" \in faults' \/ "restart" \in faults'
<1>1. tick.call # NoCall BY DEF NoCall
<1>2. ~Between BY <1>1 DEF Between, TickWaits
<1>3. \A name : Items(name) = {} BY <1>2 DEF Items
<1>4. ~In("sleep") /\ ~In("credit") BY DEF Knows, LoopKnows, LoopOK, In
<1>5. CASE Calls BY <1>5, CallsMove DEF Knows, CallFrame
<1>6. CASE Tick
  BY <1>1, <1>2, <1>3, <1>4, <1>6
  DEF Tick, TickLists, TickSleeps, TickItem, TickReaps, TickKillsOrphan, TickCloses,
      TickStops, TickWaits, TickStopsAgain, TickStopsUnready, TickAsks, TickFailsOwner, TickExpires,
      TickTimesOut, TickScales, TickAnswered, KillReturns, CloseReturns, AccountsAnswered,
      AccountsReturn, HubAdmits, PodCreated, CreateAnswered, OpenRefused
<1>7. CASE Faults
  BY <1>7 DEF Faults, KillFails, CloseFails, AccountsFail, AccountsReturn, OpenLost, CreateFails,
              GatewayRestart, DeleteFails, Fails
<1>8. CASE Cluster \/ UNCHANGED vars
  BY <1>8 DEF Cluster, PodStarts, PodEnds, PodDeleted, DeleteArrives, CreditMoves, PodMoves, vars
<1>9. QED BY <1>5, <1>6, <1>7, <1>8 DEF Next

\* Nobody's session is forgotten: its row says that it is open, or comes now.
OpenRows == {w \in Rows : worker[w].open}
Starting(c) == IF c.op = "admitted" THEN {c.w} ELSE {}
Remembered ==
  {"open", "restart"} \cap faults = {} => session \subseteq OpenRows \cup Starting(tick.call)

LEMMA RememberedStep == ASSUME Knows, [Next]_vars, Remembered PROVE Remembered'
<1> SUFFICES ASSUME {"open", "restart"} \cap faults' = {}
             PROVE  session' \subseteq OpenRows' \cup Starting(tick'.call)
  BY DEF Remembered
<1>1. {"open", "restart"} \cap faults = {} BY FaultsStay DEF Knows
<1>2. session \subseteq OpenRows \cup Starting(tick.call) BY <1>1 DEF Remembered
<1>3. tick \in TickRow /\ CallOK(tick.call) /\ session \subseteq Worker
  BY DEF Knows, Typed, TickTyped, RestTyped
<1>4. Rows \subseteq Rows' BY RowsKept DEF Knows
<1>5. CASE CloseReturns
  <2>1. \A w \in Rows : w # tick.call.w => worker'[w] = worker[w]
    BY <1>5 DEF CloseReturns, Rows, Knows, Typed, WorkersTyped
  <2>2. session' = session \ {tick.call.w} BY <1>5 DEF CloseReturns
  <2>3. Starting(tick.call) = {} BY <1>5 DEF CloseReturns, Starting
  <2>4. QED BY <1>2, <1>4, <2>1, <2>2, <2>3 DEF OpenRows
<1>6. CASE ~CloseReturns
  <2>1. OpenRows \subseteq OpenRows' BY <1>4, <1>6, OpensStay DEF OpenRows, OpenStays
  <2>2. CASE HubAdmits
    <3>1. PICK c : c = Call("admitted", tick.call.w, tick.call.ep) OBVIOUS
    <3>2. tick'.call = c BY <1>3, <2>2, <3>1, FollowTyped DEF HubAdmits, CallOp
    <3>3. Starting(tick'.call) = {tick.call.w} BY <3>1, <3>2 DEF Starting, Call
    <3>4. Starting(tick.call) = {} BY <2>2 DEF HubAdmits, Starting
    <3>5. session' = session \cup {tick.call.w} BY <2>2 DEF HubAdmits
    <3>6. QED BY <1>2, <2>1, <3>3, <3>4, <3>5
  <2>3. CASE ~HubAdmits
    <3>1. session' \subseteq session BY <1>6, <2>3, SessionsMove DEF Knows
    <3>2. CASE UNCHANGED tick BY <1>2, <2>1, <3>1, <3>2
    <3>3. CASE OpenAnswered
      <4>1. tick.call.w \in OpenRows'
        BY <3>3, StartedIs DEF Knows, OpenRows
      <4>2. Starting(tick.call) \subseteq {tick.call.w} BY DEF Starting
      <4>3. QED BY <1>2, <2>1, <3>1, <4>1, <4>2
    <3>4. CASE ~UNCHANGED tick /\ ~OpenAnswered
      <4>1. Starting(tick.call) = {} BY <3>4, AdmittedWaits DEF Starting
      <4>2. QED BY <1>2, <2>1, <3>1, <4>1
    <3>5. QED BY <3>2, <3>3, <3>4
  <2>4. QED BY <2>2, <2>3
<1>7. QED BY <1>5, <1>6

\* Without a lost answer or a restart, every open session belongs to a row that
\* says so, whose closing the loop retries, or to the worker being started.
THEOREM SessionsAreKnown == Spec => []SessionIsKnown
<1>1. Init => Remembered BY DEF Init, Remembered
<1>2. Remembered => SessionIsKnown BY DEF Remembered, SessionIsKnown, OpenRows, Rows, Starting
<1>3. QED BY <1>1, <1>2, InitKnows, KnowsInductive, RememberedStep, PTL DEF Spec

(***************************************************************************)
(* Jobs and the workers they are at.                                       *)
(***************************************************************************)

\* A job in progress is at a worker of its endpoint, and at a live one.
Placed ==
  /\ \A j \in Running : job[j].at \in Rows /\ worker[job[j].at].ep = job[j].ep
  /\ "create" \notin faults => \A j \in Running : job[j].at \in NotGone

LEMMA PlacedStep == ASSUME Knows, [Next]_vars, Placed PROVE Placed'
<1>1. JobsTyped /\ WorkersTyped BY DEF Knows, Typed
<1>2. SameRows /\ Rows \subseteq Rows' BY RowsKept DEF Knows
<1>3. faults \subseteq faults' BY FaultsStay DEF Knows
<1>4. Running \subseteq Made /\ Open \subseteq Made BY DEF Running, Open, Jobs, Made
<1>5. InState(Serving) \subseteq NotGone /\ InState(Serving) \subseteq Rows
  BY DEF InState, NotGone, Rows
<1>6. CASE Settles BY <1>2, <1>3, <1>4, <1>5, <1>6 DEF Settles, Placed, SameRows, SameEp
<1>7. CASE Submits
  <2>1. PICK j \in Job, e \in Endpoint : Submit(j, e) BY <1>7 DEF Submits
  <2>2. Running' = Running /\ \A i \in Made : job'[i] = job[i]
    BY <1>1, <2>1, SubmittedIs DEF Submit
  <2>3. NotGone' = NotGone BY <1>7 DEF Submits, NotGone, InState
  <2>4. QED BY <1>2, <1>3, <1>4, <2>2, <2>3 DEF Placed, SameRows
<1>8. CASE OpenAnswered
  <2>1. UNCHANGED job /\ Running' = Running BY <1>8 DEF OpenAnswered, Running, Jobs
  <2>2. NotGone \subseteq NotGone' BY <1>8, StartedIs DEF Knows
  <2>3. QED BY <1>2, <1>3, <2>1, <2>2 DEF Placed, SameRows
<1>9. ASSUME NEW w \in Rows, Loses(w) PROVE Placed'
  <2>1. NotGone' = NotGone \ {w} BY <1>1, <1>9, LostIs DEF Loses
  <2>2. CASE job' = AfterGone(w)
    <3>1. /\ Running' = Running \ JobsAt(w)
          /\ \A j \in Running' : job'[j] = job[j]
      BY <1>1, <2>2, AfterGoneIs
    <3>2. \A j \in Running' : j \in Running /\ job[j].at # w BY <3>1 DEF JobsAt, Running
    <3>3. QED BY <1>2, <1>3, <2>1, <3>1, <3>2 DEF Placed, SameRows
  <2>3. CASE UNCHANGED job /\ "create" \in faults'
    <3>1. Running' = Running BY <2>3 DEF Running, Jobs
    <3>2. QED BY <1>2, <2>3, <3>1 DEF Placed, SameRows
  <2>4. QED BY <1>9, <2>2, <2>3 DEF Loses
<1>10. QED BY <1>6, <1>7, <1>8, <1>9, StepKinds DEF Knows

LEMMA InitPlaced == Init => Placed
BY DEF Init, Placed, Running, Jobs

\* A job in progress is at a worker that the end of a pod will find, unless a
\* creation failed; the loop's list of pods may be as old as it likes.
THEOREM JobsStayWithTheLiving == Spec => []JobsAtLiveWorkers
<1>1. Placed => JobsAtLiveWorkers BY DEF Placed, Running, JobsAtLiveWorkers
<1>2. QED BY <1>1, InitKnows, InitPlaced, KnowsInductive, PlacedStep, PTL DEF Spec

(***************************************************************************)
(* Owners out of credit. While the credit step works through the owners it  *)
(* was told of, those done have nothing left but what it has still to stop. *)
(***************************************************************************)

NoJobs(o) == \A j \in Open : OwnerOf[job[j].ep] # o
Serves(o) == {w \in InState(Serving) : OwnerOf[worker[w].ep] = o}
Clear == \A o \in seen : NoJobs(o) /\ Serves(o) = {}

CreditKnows ==
  /\ ~In("credit") => Clear
  /\ In("credit") /\ tick.call.op # "accounts" =>
        \A o \in seen \ tick.todo : NoJobs(o) /\ Serves(o) \subseteq tick.kill
  /\ tick.call.op \in {"open", "admitted"} => OwnerOf[tick.call.ep] \notin seen

\* Who is known to be out of credit gets no job and no worker.
LEMMA NothingNew ==
  ASSUME Knows, [Next]_vars, CreditKnows, NEW o \in seen
  PROVE  (NoJobs(o) => NoJobs(o)') /\ Serves(o)' \subseteq Serves(o)
<1>1. JobsTyped /\ WorkersTyped BY DEF Knows, Typed
<1>2. SameRows BY RowsKept DEF Knows
<1>3. Open \subseteq Made BY DEF Open, Jobs, Made
<1>4. ASSUME InState(Serving)' \subseteq InState(Serving) PROVE Serves(o)' \subseteq Serves(o)
  BY <1>2, <1>4, ActiveRows DEF Serves, SameRows
<1>5. ASSUME Open' \subseteq Open, SameEp PROVE NoJobs(o) => NoJobs(o)'
  BY <1>3, <1>5 DEF NoJobs, SameEp
<1>6. CASE Settles BY <1>4, <1>5, <1>6 DEF Settles
<1>7. CASE Submits
  <2>1. PICK j \in Job, e \in Endpoint : Submit(j, e) BY <1>7 DEF Submits
  <2>2. Open' = Open \cup {j} /\ job'[j].ep = e /\ \A i \in Made : job'[i] = job[i]
    BY <1>1, <2>1, SubmittedIs DEF Submit
  <2>3. OwnerOf[e] # o BY <2>1 DEF Submit
  <2>4. Serves(o)' = Serves(o) BY <1>7 DEF Submits, Serves, InState
  <2>5. QED BY <1>3, <2>2, <2>3, <2>4 DEF NoJobs
<1>8. CASE OpenAnswered
  <2>1. InState(Serving)' = InState(Serving) \cup {tick.call.w} /\ worker'[tick.call.w].ep = tick.call.ep
    BY <1>8, StartedIs DEF Knows
  <2>2. OwnerOf[tick.call.ep] # o BY <1>8 DEF OpenAnswered, CreditKnows
  <2>3. Serves(o)' \subseteq Serves(o)
    BY <1>2, <2>1, <2>2, ActiveRows DEF Serves, SameRows
  <2>4. NoJobs(o)' <=> NoJobs(o) BY <1>8 DEF OpenAnswered, NoJobs, Open, Jobs
  <2>5. QED BY <2>3, <2>4
<1>9. ASSUME NEW w \in Rows, Loses(w)
      PROVE  (NoJobs(o) => NoJobs(o)') /\ Serves(o)' \subseteq Serves(o)
  <2>1. Serves(o)' \subseteq Serves(o) BY <1>1, <1>4, <1>9, LostIs DEF Loses
  <2>2. CASE job' = AfterGone(w) BY <1>1, <1>5, <2>1, <2>2, AfterGoneIs
  <2>3. CASE UNCHANGED job BY <2>1, <2>3 DEF NoJobs, Open, Jobs
  <2>4. QED BY <1>9, <2>2, <2>3 DEF Loses
<1>10. QED BY <1>6, <1>7, <1>8, <1>9, StepKinds DEF Knows

LEMMA ClearStays ==
  ASSUME Knows, [Next]_vars, CreditKnows, Clear, seen' \subseteq seen, ~In("credit")',
         tick'.call.op \in {"open", "admitted"} => OwnerOf[tick'.call.ep] \notin seen
  PROVE  CreditKnows'
<1>1. Clear' BY NothingNew DEF Clear
<1>2. QED BY <1>1 DEF CreditKnows

\* Another phase than the credit step begins when that has nothing left to do.
LEMMA ClearElsewhere ==
  ASSUME CreditKnows, Between, tick.todo = {} \/ ~In("credit")
  PROVE  Clear
BY DEF Between, TickWaits, NoCall, CreditKnows, Clear

LEMMA ItemsClear ==
  ASSUME CreditKnows, NEW name \in PhaseNames \ {"credit"}, Items(name) # {}
  PROVE  Clear
<1>1. Between /\ (In(name) \/ tick.todo = {}) BY DEF Items, EmptyUpTo
<1>2. QED BY <1>1, ClearElsewhere DEF In

LEMMA StopsAre ==
  ASSUME tick \in TickRow, NEW name \in PhaseNames, NEW todo \in SUBSET Item,
         NEW S \in SUBSET Worker, StopsAll(name, todo, S)
  PROVE  /\ Phases[tick'.phase] = name /\ tick'.todo = todo /\ tick'.call = NoCall
         /\ \/ S = {} /\ tick'.kill = {} /\ UNCHANGED worker
            \/ \E w \in S : tick'.kill = S \ {w} /\ worker' = Stopped({w})
<1>1. NoCall \in CallRow BY NoCallOK DEF CallOK
<1>2. CASE S = {}
  <2>1. tick' = At(name, todo, {}, NoCall) /\ UNCHANGED worker BY <1>2 DEF StopsAll
  <2>2. QED BY <1>1, <1>2, <2>1, AtTyped
<1>3. CASE S # {}
  <2>1. PICK w \in S : tick' = At(name, todo, S \ {w}, NoCall) /\ worker' = Stopped({w})
    BY <1>3 DEF StopsAll
  <2>2. S \ {w} \in SUBSET Worker OBVIOUS
  <2>3. QED BY <1>1, <2>1, <2>2, AtTyped
<1>4. QED BY <1>2, <1>3

\* The loop takes up something of another phase.
LEMMA ElsewhereStays ==
  ASSUME Knows, [Next]_vars, CreditKnows, NEW name \in PhaseNames \ {"credit"}, Items(name) # {},
         seen' = seen, Phases[tick'.phase] = name,
         tick'.call.op \in {"open", "admitted"} => OwnerOf[tick'.call.ep] \notin seen
  PROVE  CreditKnows'
BY ItemsClear, ClearStays DEF In

LEMMA ItemsCredit == ASSUME Knows, [Next]_vars, CreditKnows, TickItem PROVE CreditKnows'
<1> USE DEF PhaseNames
<1>1. tick \in TickRow /\ WorkersTyped /\ JobsTyped BY DEF Knows, Typed, TickTyped
<1>2. TodoOK("reap", Items("reap")) /\ TodoOK("orphans", Items("orphans"))
      /\ TodoOK("unclosed", Items("unclosed")) /\ TodoOK("late", Items("late"))
      /\ TodoOK("credit", Items("credit")) /\ TodoOK("scale", Items("scale"))
      /\ Items("again") \subseteq Worker /\ Items("unready") \subseteq Worker
  BY ItemsTyped DEF Knows, InState
<1>3. ASSUME NEW name \in {"reap", "orphans", "unclosed"}, NEW op \in {"close", "kill"},
             NEW w \in Items(name), TodoOK(name, Items(name)), seen' = seen,
             tick' = At(name, Items(name) \ {w}, {}, Call(op, w, Nothing))
      PROVE  CreditKnows'
  <2>1. PICK c : c = Call(op, w, Nothing) OBVIOUS
  <2>2. w \in Worker BY <1>3 DEF TodoOK, Rows
  <2>3. c \in CallRow /\ c.op = op BY <2>1, <2>2 DEF Call, CallRow, CallOp
  <2>4. Items(name) \ {w} \in SUBSET Item BY <1>3, TodoShrinks, TodoItems
  <2>5. Phases[tick'.phase] = name /\ tick'.call = c BY <1>1, <1>3, <2>1, <2>3, <2>4, AtTyped
  <2>6. QED BY <1>3, <2>3, <2>5, ElsewhereStays
<1>4. ASSUME NEW w \in Worker, TickReaps(w) PROVE CreditKnows'
  <2>1. w \in Items("reap") /\ seen' = seen BY <1>4 DEF TickReaps
  <2>2. \E op \in {"close", "kill"} : tick' = At("reap", Items("reap") \ {w}, {}, Call(op, w, Nothing))
    BY <1>4 DEF TickReaps
  <2>3. QED BY <1>2, <1>3, <2>1, <2>2
<1>5. ASSUME NEW w \in Worker, TickKillsOrphan(w) PROVE CreditKnows'
  BY <1>2, <1>3, <1>5 DEF TickKillsOrphan
<1>6. ASSUME NEW w \in Worker, TickCloses(w) PROVE CreditKnows'
  BY <1>2, <1>3, <1>6 DEF TickCloses
<1>7. CASE TickStops
  <2>1. PICK name, todo, S : name = Phases[tick.phase] /\ todo = tick.todo /\ S = tick.kill OBVIOUS
  <2>2. name \in PhaseNames /\ todo \in SUBSET Item /\ S \in SUBSET Worker
    BY <1>1, <2>1, PhaseNumbers DEF TickRow
  <2>3. StopsAll(name, todo, S) /\ S # {} /\ seen' = seen BY <1>7, <2>1 DEF TickStops
  <2>4. /\ Phases[tick'.phase] = name /\ tick'.todo = todo /\ tick'.call = NoCall
        /\ \E w \in S : tick'.kill = S \ {w} /\ worker' = Stopped({w})
    BY <1>1, <2>2, <2>3, StopsAre
  <2>5. PICK w \in S : tick'.kill = S \ {w} /\ worker' = Stopped({w}) BY <2>4
  <2>6. CASE name = "credit"
    <3>1. tick.call.op # "accounts" BY <1>7 DEF TickStops, TickWaits, NoCall
    <3>2. w \notin InState(Serving)' BY <1>1, <2>5, StoppedIs
    <3>3. ASSUME NEW o \in seen \ todo PROVE NoJobs(o)' /\ Serves(o)' \subseteq S \ {w}
      <4>1. NoJobs(o) /\ Serves(o) \subseteq S BY <2>1, <2>6, <3>1 DEF CreditKnows, In
      <4>2. QED BY <3>2, <4>1, NothingNew DEF Serves
    <3>4. QED BY <2>1, <2>3, <2>4, <2>5, <2>6, <3>3 DEF CreditKnows, In, NoCall
  <2>7. CASE name # "credit"
    <3>1. Clear BY <2>1, <2>7 DEF CreditKnows, In
    <3>2. QED BY <2>3, <2>4, <2>7, <3>1, ClearStays DEF In, NoCall
  <2>8. QED BY <2>6, <2>7
<1>8. ASSUME NEW name \in PhaseNames \ {"credit"}, NEW todo \in SUBSET Item, NEW S \in SUBSET Worker,
             StopsAll(name, todo, S), Items(name) # {}, seen' = seen
      PROVE  CreditKnows'
  <2>1. Phases[tick'.phase] = name /\ tick'.call = NoCall BY <1>1, <1>8, StopsAre
  <2>2. tick'.call.op = "none" BY <2>1 DEF NoCall
  <2>3. QED BY <1>8, <2>1, <2>2, ElsewhereStays
<1>9. CASE TickStopsAgain \/ TickStopsUnready
  <2>1. {} \in SUBSET Item OBVIOUS
  <2>2. QED BY <1>2, <1>8, <1>9, <2>1 DEF TickStopsAgain, TickStopsUnready
<1>10. CASE TickAsks
  <2>1. PICK todo : todo = Items("credit") OBVIOUS
  <2>2. todo \in SUBSET Item BY <1>2, <2>1, TodoItems
  <2>3. PICK c : c = Call("accounts", Nothing, Nothing) OBVIOUS
  <2>4. c \in CallRow /\ c.op = "accounts" BY <2>3 DEF Call, CallRow, CallOp
  <2>5. tick' = At("credit", todo, {}, c) BY <1>10, <2>1, <2>3 DEF TickAsks
  <2>6. Phases[tick'.phase] = "credit" /\ tick'.call = c BY <1>1, <2>2, <2>4, <2>5, AtTyped
  <2>7. QED BY <2>4, <2>6 DEF CreditKnows, In
<1>11. ASSUME NEW o \in Owner, TickFailsOwner(o) PROVE CreditKnows'
  <2>1. PICK todo, S : todo = tick.todo \ {o} /\ S = Serves(o) OBVIOUS
  <2>2. todo \in SUBSET Item /\ S \in SUBSET Worker BY <1>1, <2>1 DEF TickRow, Serves, InState
  <2>3. StopsAll("credit", todo, S) /\ seen' = seen BY <1>11, <2>1 DEF TickFailsOwner, Serves
  <2>4. /\ Phases[tick'.phase] = "credit" /\ tick'.todo = todo /\ tick'.call = NoCall
        /\ \/ S = {} /\ tick'.kill = {} /\ UNCHANGED worker
           \/ \E w \in S : tick'.kill = S \ {w} /\ worker' = Stopped({w})
    BY <1>1, <2>2, <2>3, StopsAre
  <2>5. In("credit") /\ tick.kill = {} /\ tick.call.op # "accounts"
    BY <1>11, ItemsAre DEF TickFailsOwner, Between, TickWaits, NoCall
  <2>6. o \in seen => NoJobs(o)'
    <3>1. PICK T : T = {j \in Jobs(Unfinished) : OwnerOf[job[j].ep] = o} OBVIOUS
    <3>2. T \in SUBSET Made /\ "FAILED" \in Terminal BY <3>1 DEF Jobs, Made, Terminal
    <3>3. job' = Finished(T, "FAILED") BY <1>11, <3>1 DEF TickFailsOwner
    <3>4. Open' = Open \ T /\ SameEp BY <1>1, <3>2, <3>3, FinishedIs
    <3>5. Open \subseteq Made BY DEF Open, Jobs, Made
    <3>6. QED BY <3>1, <3>4, <3>5 DEF NoJobs, SameEp, Open
  <2>7. o \in seen => Serves(o)' \subseteq tick'.kill
    <3>1. CASE S = {} BY <2>1, <3>1, NothingNew
    <3>2. ASSUME NEW w \in S, tick'.kill = S \ {w}, worker' = Stopped({w})
          PROVE  o \in seen => Serves(o)' \subseteq tick'.kill
      <4>1. w \notin InState(Serving)' BY <1>1, <3>2, StoppedIs
      <4>2. QED BY <2>1, <3>2, <4>1, NothingNew DEF Serves
    <3>3. QED BY <2>4, <3>1, <3>2
  <2>8. ASSUME NEW p \in seen \ tick.todo PROVE NoJobs(p)' /\ Serves(p)' = {}
    BY <2>5, NothingNew DEF CreditKnows
  <2>9. QED BY <2>1, <2>3, <2>4, <2>6, <2>7, <2>8 DEF CreditKnows, In, NoCall
<1>12. CASE TickExpires
  <2>1. NoCall \in CallRow BY NoCallOK DEF CallOK
  <2>2. Phases[tick'.phase] = "expired" /\ tick'.call = NoCall
    BY <1>1, <1>12, <2>1, AtTyped DEF TickExpires
  <2>3. QED BY <1>12, <2>2, ElsewhereStays DEF TickExpires, NoCall
<1>13. ASSUME NEW j \in Job, TickTimesOut(j) PROVE CreditKnows'
  <2>1. job[j].at \in Worker BY <1>2, <1>13 DEF TickTimesOut, TodoOK
  <2>2. Items("late") \ {j} \in SUBSET Item BY <1>2, TodoShrinks, TodoItems
  <2>3. PICK S \in SUBSET Worker : S = {job[j].at} BY <2>1
  <2>4. QED BY <1>8, <1>13, <2>2, <2>3 DEF TickTimesOut
<1>14. ASSUME NEW e \in Endpoint, TickScales(e) PROVE CreditKnows'
  <2>1. PICK todo : todo = Items("scale") \ {e} OBVIOUS
  <2>2. todo \in SUBSET Item BY <1>2, <2>1, TodoShrinks, TodoItems
  <2>3. Items("scale") # {} /\ seen' = seen BY <1>14 DEF TickScales
  <2>4. CASE Wanted(e) /\ \E w \in Unused : tick' = At("scale", todo, {}, Call("open", w, e))
    <3>1. PICK w \in Unused : tick' = At("scale", todo, {}, Call("open", w, e)) BY <2>4
    <3>2. PICK c : c = Call("open", w, e) OBVIOUS
    <3>3. c \in CallRow /\ c.ep = e BY <3>2 DEF Call, CallRow, CallOp, Unused
    <3>4. Phases[tick'.phase] = "scale" /\ tick'.call = c BY <1>1, <2>2, <3>1, <3>2, <3>3, AtTyped
    <3>5. Queue(e) # {}
      <4>1. IsFiniteSet(Ready(e))
        BY GatewayAssumption, FS_Subset DEF Ready, Active, InState
      <4>2. Cardinality(Ready(e)) \in Nat BY <4>1, FS_CardinalityType
      <4>3. Cardinality({}) = 0 BY FS_EmptySet
      <4>4. QED BY <2>4, <4>2, <4>3 DEF Wanted
    <3>6. Clear BY <2>3, ItemsClear
    <3>7. OwnerOf[e] \notin seen
      BY <3>5, <3>6 DEF Clear, NoJobs, Open, Queue, JobsOf, Jobs, Unfinished
    <3>8. QED BY <2>3, <3>3, <3>4, <3>7, ElsewhereStays
  <2>5. CASE \E S \in SUBSET Idle(e) : StopsAll("scale", todo, S)
    <3>1. Idle(e) \in SUBSET Worker BY DEF Idle, Active, InState
    <3>2. QED BY <1>8, <2>2, <2>3, <2>5, <3>1
  <2>6. QED BY <1>14, <2>1, <2>4, <2>5 DEF TickScales
<1>15. QED
  BY <1>4, <1>5, <1>6, <1>7, <1>9, <1>10, <1>11, <1>12, <1>13, <1>14 DEF TickItem

LEMMA AnswersCredit ==
  ASSUME Knows, [Next]_vars, CreditKnows,
         \/ TickAnswered \/ KillFails \/ CloseFails \/ AccountsFail \/ OpenLost \/ CreateFails
  PROVE  CreditKnows'
<1>1. tick \in TickRow BY DEF Knows, Typed, TickTyped
<1>2. CASE AccountsAnswered \/ AccountsFail
  <2>1. PICK S \in SUBSET Owner : AccountsReturn(S) /\ seen' \subseteq S
    BY <1>2 DEF AccountsAnswered, AccountsFail, AccountsReturn, Knows, Typed, RestTyped
  <2>2. S \in SUBSET Item /\ "credit" \in PhaseNames BY DEF Item, PhaseNames
  <2>3. NoCall \in CallRow BY NoCallOK DEF CallOK
  <2>4. Phases[tick'.phase] = "credit" /\ tick'.todo = S /\ tick'.call = NoCall
    BY <1>1, <2>1, <2>2, <2>3, AtTyped DEF AccountsReturn
  <2>5. seen' \ tick'.todo = {} BY <2>1, <2>4
  <2>6. QED BY <2>4, <2>5 DEF CreditKnows, In, NoCall
<1>3. ASSUME tick.call.op \notin {"none", "accounts"}, seen' = seen, tick'.phase = tick.phase,
             tick'.call.op \in {"open", "admitted"} =>
               tick.call.op = "open" /\ tick'.call.ep = tick.call.ep
      PROVE  CreditKnows'
  <2>1. ~In("credit") /\ ~In("credit")' BY <1>3 DEF Knows, LoopKnows, LoopOK, In
  <2>2. Clear BY <2>1 DEF CreditKnows
  <2>3. tick'.call.op \in {"open", "admitted"} => OwnerOf[tick'.call.ep] \notin seen
    BY <1>3 DEF CreditKnows
  <2>4. QED BY <1>3, <2>1, <2>2, <2>3, ClearStays
<1>4. ASSUME NEW op \in {"close", "create", "created"}, tick' = Follow(op),
             tick.call.op \notin {"none", "accounts"}, seen' = seen
      PROVE  CreditKnows'
  <2>1. PICK c : c = Call(op, tick.call.w, tick.call.ep) OBVIOUS
  <2>2. tick'.phase = tick.phase /\ tick'.call = c
    BY <1>1, <1>4, <2>1, FollowTyped DEF CallOp
  <2>3. c.op = op BY <2>1 DEF Call
  <2>4. QED BY <1>3, <1>4, <2>2, <2>3
<1>5. CASE KillReturns \/ OpenAnswered \/ PodCreated \/ CreateFails
  BY <1>4, <1>5 DEF KillReturns, OpenAnswered, PodCreated, CreateFails
<1>6. CASE HubAdmits
  <2>1. PICK c : c = Call("admitted", tick.call.w, tick.call.ep) OBVIOUS
  <2>2. tick'.phase = tick.phase /\ tick'.call = c
    BY <1>1, <1>6, <2>1, FollowTyped DEF HubAdmits, CallOp
  <2>3. c.ep = tick.call.ep BY <2>1 DEF Call
  <2>4. QED BY <1>3, <1>6, <2>2, <2>3 DEF HubAdmits
<1>7. CASE CloseReturns \/ CloseFails \/ CreateAnswered \/ \E code : OpenRefused(code)
  <2>1. tick' = Answered /\ seen' = seen /\ tick.call.op \notin {"none", "accounts"}
    BY <1>7 DEF CloseReturns, CloseFails, AfterClose, CreateAnswered, OpenRefused
  <2>2. tick'.phase = tick.phase /\ tick'.call = NoCall BY <1>1, <2>1, AnsweredTyped
  <2>3. tick'.call.op = "none" BY <2>2 DEF NoCall
  <2>4. QED BY <1>3, <2>1, <2>2, <2>3
<1>8. CASE KillFails \/ OpenLost
  <2>1. ~In("credit") BY <1>8 DEF KillFails, OpenLost, Knows, LoopKnows, LoopOK, In
  <2>2. ~In("credit")' /\ tick'.call.op = "none"
    BY <1>8, PhaseNumbers DEF KillFails, OpenLost, Asleep, In, NoCall
  <2>3. QED BY <1>8, <2>1, <2>2, ClearStays DEF KillFails, OpenLost, CreditKnows
<1>9. QED BY <1>2, <1>5, <1>6, <1>7, <1>8 DEF TickAnswered

LEMMA CreditStep == ASSUME Knows, [Next]_vars, CreditKnows PROVE CreditKnows'
<1>1. CASE UNCHANGED <<tick, seen>> BY <1>1, NothingNew DEF CreditKnows, Clear, In
<1>2. CASE Calls BY <1>1, <1>2, CallsMove DEF Knows, CallFrame
<1>3. CASE \/ Cluster \/ (\E d \in deletes : DeleteFails(d)) \/ UNCHANGED vars
  BY <1>1, <1>3 DEF Cluster, PodStarts, PodEnds, PodDeleted, DeleteArrives, CreditMoves, PodMoves,
                    DeleteFails, vars
<1>4. CASE \E J \in SUBSET Jobs(Unfinished), W \in SUBSET Timed : TickLists(J, W)
  <2>1. In("sleep") /\ seen' = seen /\ tick'.phase = NumberOf("listed") /\ tick'.call = NoCall
    BY <1>4 DEF TickLists
  <2>2. ~In("credit") /\ Phases[tick'.phase] = "listed" BY <2>1, Numbered DEF In, PhaseNames
  <2>3. tick'.call.op = "none" BY <2>1 DEF NoCall
  <2>4. QED BY <2>1, <2>2, <2>3, ClearStays DEF CreditKnows, In
<1>5. CASE TickSleeps \/ GatewayRestart
  <2>1. ~In("credit")' /\ tick'.call.op = "none"
    BY <1>5, PhaseNumbers DEF TickSleeps, GatewayRestart, Asleep, In, NoCall
  <2>2. CASE TickSleeps
    <3>1. Clear BY <2>2, ClearElsewhere DEF TickSleeps, EmptyUpTo
    <3>2. QED BY <2>1, <2>2, <3>1, ClearStays DEF TickSleeps
  <2>3. CASE GatewayRestart BY <2>1, <2>3 DEF GatewayRestart, CreditKnows, Clear
  <2>4. QED BY <1>5, <2>2, <2>3
<1>6. QED BY <1>2, <1>3, <1>4, <1>5, ItemsCredit, AnswersCredit DEF Next, Tick, Faults

\* An owner seen out of credit has, after the credit step, no job waiting or
\* running and no worker serving, whatever was submitted or scaled meanwhile.
THEOREM NobodyRunsOnCredit == Spec => []BrokeIsStopped
<1>1. Init => CreditKnows
  BY PhaseNumbers DEF Init, CreditKnows, Clear, Asleep, In, NoCall
<1>2. CreditKnows => BrokeIsStopped
  BY DEF CreditKnows, Clear, NoJobs, Open, Serves, BrokeIsStopped
<1>3. QED BY <1>1, <1>2, InitKnows, KnowsInductive, CreditStep, PTL DEF Spec

(***************************************************************************)
(* Busy workers.                                                           *)
(***************************************************************************)

Busy == InState({"busy"})
ToStop == doomed \cup tick.kill
Occupied == "restart" \notin faults => \A w \in Busy : JobsAt(w) # {} \/ w \in ToStop

LEMMA JobsAtIs == ASSUME NEW w PROVE JobsAt(w) = {j \in Running : job[j].at = w}
BY DEF JobsAt, Running

\* Whom the loop has still to stop is forgotten by a restart alone.
LEMMA KillStays ==
  ASSUME Knows, [Next]_vars
  PROVE  tick.kill \subseteq tick'.kill \/ TickStops \/ "restart" \in faults'
<1>1. CASE tick.kill = {} BY <1>1
<1>2. CASE tick.kill # {}
  <2>1. tick.call.op = "none" /\ ~In("sleep") BY <1>2 DEF Knows, LoopKnows, LoopOK, In
  <2>2. ~Between BY <1>2 DEF Between
  <2>3. \A name : Items(name) = {} BY <2>2 DEF Items
  <2>4. CASE Calls BY <2>4, CallsMove DEF Knows, CallFrame
  <2>5. CASE Tick /\ ~TickStops
    BY <2>1, <2>2, <2>3, <2>5
    DEF Tick, TickLists, TickSleeps, TickItem, TickReaps, TickKillsOrphan, TickCloses,
        TickStopsAgain, TickStopsUnready, TickAsks, TickFailsOwner, TickExpires, TickTimesOut,
        TickScales, TickAnswered, KillReturns, CloseReturns, AccountsAnswered, AccountsReturn,
        HubAdmits, OpenAnswered, PodCreated, CreateAnswered, OpenRefused
  <2>6. CASE Faults
    BY <2>1, <2>6 DEF Faults, KillFails, CloseFails, AccountsFail, AccountsReturn, OpenLost,
                      CreateFails, GatewayRestart, DeleteFails, Fails
  <2>7. CASE Cluster \/ UNCHANGED vars
    BY <2>7 DEF Cluster, PodStarts, PodEnds, PodDeleted, DeleteArrives, CreditMoves, PodMoves, vars
  <2>8. QED BY <2>4, <2>5, <2>6, <2>7 DEF Next
<1>3. QED BY <1>1, <1>2

\* A worker that is still busy keeps its jobs, or its stop.
LEMMA OccupiedBy ==
  ASSUME Knows, [Next]_vars, Occupied,
         "restart" \notin faults' =>
           \A w \in Busy' :
             /\ w \in Busy
             /\ JobsAt(w) # {} => JobsAt(w)' # {} \/ w \in ToStop'
             /\ w \in ToStop => w \in ToStop'
  PROVE  Occupied'
BY FaultsStay DEF Knows, Occupied

LEMMA BusyKept == ASSUME UNCHANGED worker PROVE Busy' = Busy
BY DEF Busy, InState
LEMMA BusyStops == ASSUME WorkersTyped, NEW S, worker' = Stopped(S) PROVE Busy' = Busy \ S
BY StoppedIs DEF Busy
LEMMA BusyLost == ASSUME WorkersTyped, NEW w \in Rows, worker' = Gone(w) PROVE Busy' = Busy \ {w}
<1>1. worker'[w].state = "gone" /\ Rows' = Rows /\ \A v \in Worker : v # w => worker'[v] = worker[v]
  BY StateIs DEF Gone, State
<1>2. QED BY <1>1 DEF Busy, InState, Rows

LEMMA AtKept == ASSUME UNCHANGED job, NEW w PROVE JobsAt(w)' = JobsAt(w)
BY DEF JobsAt, Jobs
LEMMA AtEnds ==
  ASSUME JobsTyped, NEW S \in SUBSET Made, NEW status \in Terminal, job' = Finished(S, status),
         NEW w
  PROVE  JobsAt(w)' = JobsAt(w) \ S
<1>1. Running' = Running \ S /\ \A j \in Made : job'[j].at = job[j].at BY FinishedIs
<1>2. Running \subseteq Made BY DEF Running, Jobs, Made
<1>3. QED BY <1>1, <1>2 DEF JobsAt, Running
LEMMA AtLost ==
  ASSUME JobsTyped, NEW v, job' = AfterGone(v), NEW w, w # v PROVE JobsAt(w)' = JobsAt(w)
<1>1. Running' = Running \ JobsAt(v) /\ \A j \in Running' : job'[j] = job[j] BY AfterGoneIs
<1>2. QED BY <1>1 DEF JobsAt, Running

\* Jobs end without their worker: only the queue's, or those of workers stopped.
LEMMA CallsOccupy == ASSUME Knows, Placed, [Next]_vars, Occupied, Calls PROVE Occupied'
<1>1. JobsTyped /\ WorkersTyped BY DEF Knows, Typed
<1>2. UNCHANGED tick BY CallsMove DEF Knows, CallFrame
<1>3. ASSUME UNCHANGED <<job, worker, doomed>> PROVE Occupied'
  BY <1>2, <1>3, OccupiedBy, BusyKept, AtKept DEF ToStop
<1>4. ASSUME NEW e \in Endpoint, CreateEndpoint(e) PROVE Occupied'
  BY <1>3, <1>4 DEF CreateEndpoint
<1>5. ASSUME NEW e \in Endpoint, DeleteEndpoint(e) PROVE Occupied'
  <2>1. PICK S : S = JobsOf(e, Unfinished) OBVIOUS
  <2>2. S \in SUBSET Made /\ "CANCELLED" \in Terminal /\ job' = Finished(S, "CANCELLED")
    BY <1>5, <2>1 DEF DeleteEndpoint, JobsOf, Jobs, Made, Terminal
  <2>3. \A w : JobsAt(w)' = JobsAt(w) \ S BY <1>1, <2>2, AtEnds
  <2>4. ASSUME NEW w, w \notin Active(e) PROVE JobsAt(w) \cap S = {} \/ w \notin Busy
    BY <2>1, <2>4 DEF Placed, JobsAt, Running, JobsOf, Active, Busy, InState, Serving
  <2>5. \/ Active(e) = {} /\ UNCHANGED <<worker, doomed>>
        \/ \E w \in Active(e) : worker' = Stopped({w}) /\ doomed' = doomed \cup (Active(e) \ {w})
    BY <1>5 DEF DeleteEndpoint
  <2>6. Busy' \subseteq Busy /\ doomed \subseteq doomed' /\ \A w \in Busy' : w \in Active(e) => w \in doomed'
    <3>1. CASE Active(e) = {} /\ UNCHANGED <<worker, doomed>> BY <3>1, BusyKept
    <3>2. ASSUME NEW w \in Active(e), worker' = Stopped({w}), doomed' = doomed \cup (Active(e) \ {w})
          PROVE  Busy' \subseteq Busy /\ doomed \subseteq doomed' /\ \A v \in Busy' : v \in Active(e) => v \in doomed'
      BY <1>1, <3>2, BusyStops
    <3>3. QED BY <2>5, <3>1, <3>2
  <2>7. \A w \in Busy' : w \in doomed' \/ JobsAt(w)' = JobsAt(w)
    BY <2>3, <2>4, <2>6
  <2>8. QED BY <1>2, <2>6, <2>7, OccupiedBy DEF ToStop
<1>6. ASSUME NEW w \in Worker, DeleteGoesOn(w) PROVE Occupied'
  <2>1. Busy' = Busy \ {w} /\ doomed' = doomed \ {w} /\ \A v : JobsAt(v)' = JobsAt(v)
    BY <1>1, <1>6, BusyStops, AtKept DEF DeleteGoesOn
  <2>2. QED BY <1>2, <2>1, OccupiedBy DEF ToStop
<1>7. ASSUME NEW j \in Job, NEW e \in Endpoint, Submit(j, e) PROVE Occupied'
  <2>1. Running' = Running /\ \A i \in Made : job'[i] = job[i]
    BY <1>1, <1>7, SubmittedIs DEF Submit
  <2>2. \A w : JobsAt(w)' = JobsAt(w) BY <2>1 DEF JobsAt, Running, Jobs, Made
  <2>3. UNCHANGED <<worker, doomed>> BY <1>7 DEF Submit
  <2>4. QED BY <1>2, <2>2, <2>3, OccupiedBy, BusyKept DEF ToStop
<1>8. ASSUME NEW j \in Job, Cancel(j) PROVE Occupied'
  <2>1. {j} \in SUBSET Made /\ "CANCELLED" \in Terminal /\ job' = Finished({j}, "CANCELLED")
    BY <1>8 DEF Cancel, Jobs, Made, Terminal
  <2>2. \A w : JobsAt(w)' = JobsAt(w) \ {j} BY <1>1, <2>1, AtEnds
  <2>3. CASE job[j].status = "IN_PROGRESS"
    <3>1. worker' = Stopped({job[j].at}) /\ doomed' = doomed BY <1>8, <2>3 DEF Cancel
    <3>2. Busy' = Busy \ {job[j].at} BY <1>1, <3>1, BusyStops
    <3>3. \A w : w # job[j].at => JobsAt(w)' = JobsAt(w) BY <2>2 DEF JobsAt
    <3>4. QED BY <1>2, <3>1, <3>2, <3>3, OccupiedBy DEF ToStop
  <2>4. CASE job[j].status # "IN_PROGRESS"
    <3>1. UNCHANGED <<worker, doomed>> BY <1>8, <2>4 DEF Cancel
    <3>2. \A w : JobsAt(w)' = JobsAt(w) BY <2>2, <2>4 DEF JobsAt, Jobs
    <3>3. QED BY <1>2, <3>1, <3>2, OccupiedBy, BusyKept DEF ToStop
  <2>5. QED BY <2>3, <2>4
<1>9. ASSUME NEW e \in Endpoint, PurgeQueue(e) PROVE Occupied'
  <2>1. PICK S : S = Queue(e) OBVIOUS
  <2>2. S \in SUBSET Made /\ "CANCELLED" \in Terminal /\ job' = Finished(S, "CANCELLED")
    BY <1>9, <2>1, QueueMade DEF PurgeQueue, Terminal
  <2>3. \A w : JobsAt(w)' = JobsAt(w) \ S BY <1>1, <2>2, AtEnds
  <2>4. \A w : JobsAt(w)' = JobsAt(w) BY <2>1, <2>3 DEF JobsAt, Queue, JobsOf, Jobs
  <2>5. UNCHANGED <<worker, doomed>> BY <1>9 DEF PurgeQueue
  <2>6. QED BY <1>2, <2>4, <2>5, OccupiedBy, BusyKept DEF ToStop
<1>10. ASSUME NEW w \in Worker, NEW n \in 1..Batch, JobTake(w, n) PROVE Occupied'
  <2>1. PICK S : S = Oldest(worker[w].ep, n) OBVIOUS
  <2>2. S \in SUBSET Jobs({"IN_QUEUE"}) BY <2>1 DEF Oldest, Queue, JobsOf
  <2>3. Running' = Running \cup S /\ \A j \in Made : job'[j].at = IF j \in S THEN w ELSE job[j].at
    BY <1>1, <1>10, <2>1, <2>2, HandedIs DEF JobTake
  <2>4. Running \subseteq Made /\ S \subseteq Made /\ S \cap Running = {}
    BY <2>2 DEF Running, Jobs, Made
  <2>5. (\A v : JobsAt(v) \subseteq JobsAt(v)') /\ S \subseteq JobsAt(w)'
    BY <2>3, <2>4 DEF JobsAt, Running
  <2>6. w \in InState(Serving) BY <1>10 DEF JobTake, CanCall
  <2>7. PICK state \in Serving :
          worker' = [worker EXCEPT ![w].state = state]
          /\ (S # {} \/ (state = "busy" => worker[w].state = "busy"))
    BY <1>10, <2>1, <2>6 DEF JobTake, InState, Serving
  <2>8. w \in Rows /\ state \in State BY <2>6, ActiveRows DEF State
  <2>9. worker'[w].state = state /\ Rows' = Rows /\ \A v \in Worker : v # w => worker'[v] = worker[v]
    BY <1>1, <2>7, <2>8, StateIs
  <2>10. Busy' \subseteq Busy \cup {w} /\ (S = {} => Busy' \subseteq Busy)
    BY <2>7, <2>9 DEF Busy, InState, Rows
  <2>11. doomed' = doomed /\ faults' = faults BY <1>10 DEF JobTake
  <2>12. QED BY <1>2, <2>5, <2>10, <2>11 DEF Occupied, ToStop
<1>11. ASSUME NEW w \in Worker, NEW j \in Job, NEW status \in {"COMPLETED", "FAILED"},
              NEW stopPod \in BOOLEAN, JobDone(w, j, status, stopPod)
       PROVE  Occupied'
  <2>1. /\ {j} \in SUBSET Made /\ status \in Terminal /\ job' = Finished({j}, status)
        /\ j \in JobsAt(w) /\ doomed' = doomed
    BY <1>11 DEF JobDone, JobsAt, Jobs, Made, Terminal
  <2>2. \A v : JobsAt(v)' = JobsAt(v) \ {j} BY <1>1, <2>1, AtEnds
  <2>3. \A v : v # w => JobsAt(v)' = JobsAt(v) BY <2>1, <2>2 DEF JobsAt
  <2>4. Busy' = Busy \ {w}
    <3>1. CASE stopPod BY <1>1, <1>11, <3>1, BusyStops DEF JobDone
    <3>2. CASE ~stopPod
      <4>1. w \in InState(Serving) /\ w \in Rows BY <1>11, ActiveRows DEF JobDone, CanCall
      <4>2. PICK state \in {"starting", "idle"} : worker' = [worker EXCEPT ![w].state = state]
        BY <1>11, <3>2, <4>1 DEF JobDone, InState, Serving
      <4>3. state \in State BY DEF State, Serving
      <4>4. worker'[w].state = state /\ Rows' = Rows /\ \A v \in Worker : v # w => worker'[v] = worker[v]
        BY <1>1, <4>1, <4>2, <4>3, StateIs
      <4>5. QED BY <4>4 DEF Busy, InState, Rows
    <3>3. QED BY <3>1, <3>2
  <2>5. QED BY <1>2, <2>1, <2>3, <2>4, OccupiedBy DEF ToStop
<1>12. QED BY <1>4, <1>5, <1>6, <1>7, <1>8, <1>9, <1>10, <1>11 DEF Calls

\* Between two items nobody is left to stop.
LEMMA ItemsFree == ASSUME NEW name, Items(name) # {} PROVE tick.kill = {}
BY DEF Items, Between

LEMMA ItemsOccupy == ASSUME Knows, Placed, [Next]_vars, Occupied, TickItem PROVE Occupied'
<1> USE DEF PhaseNames
<1>1. tick \in TickRow /\ WorkersTyped /\ JobsTyped BY DEF Knows, Typed, TickTyped
<1>2. TodoOK("late", Items("late")) /\ Items("again") \subseteq Worker
      /\ Items("unready") \subseteq Worker
  BY ItemsTyped DEF Knows, InState
<1>3. ASSUME UNCHANGED <<job, worker, doomed>>, tick.kill = {} PROVE Occupied'
  BY <1>3, OccupiedBy, BusyKept, AtKept DEF ToStop
<1>4. ASSUME NEW w \in Worker, TickReaps(w) PROVE Occupied'
  <2>1. w \in Rows BY <1>4, ItemsTyped DEF TickReaps, TodoOK, Knows
  <2>2. tick.kill = {} /\ doomed' = doomed BY <1>4, ItemsFree DEF TickReaps
  <2>3. CASE job' = AfterGone(w) /\ worker' = Gone(w)
    <3>1. Busy' = Busy \ {w} BY <1>1, <2>1, <2>3, BusyLost
    <3>2. \A v : v # w => JobsAt(v)' = JobsAt(v) BY <1>1, <2>3, AtLost
    <3>3. QED BY <2>2, <3>1, <3>2, OccupiedBy DEF ToStop
  <2>4. CASE UNCHANGED <<job, worker>> BY <1>3, <2>2, <2>4
  <2>5. QED BY <1>4, <2>3, <2>4 DEF TickReaps
<1>5. CASE TickAsks \/ \E w \in Worker : TickKillsOrphan(w) \/ TickCloses(w)
  BY <1>3, <1>5, ItemsFree DEF TickAsks, TickKillsOrphan, TickCloses
<1>6. ASSUME NEW name \in PhaseNames, NEW todo \in SUBSET Item, NEW S \in SUBSET Worker,
             StopsAll(name, todo, S), doomed' = doomed, tick.kill = {} \/ tick.kill = S,
             \A w : w \notin S => JobsAt(w)' = JobsAt(w)
      PROVE  Occupied'
  <2>1. \/ S = {} /\ tick'.kill = {} /\ UNCHANGED worker
        \/ \E w \in S : tick'.kill = S \ {w} /\ worker' = Stopped({w})
    BY <1>1, <1>6, StopsAre
  <2>2. Busy' \subseteq Busy /\ \A w \in Busy' : w \in S => w \in tick'.kill
    <3>1. CASE S = {} /\ UNCHANGED worker BY <3>1, BusyKept
    <3>2. ASSUME NEW w \in S, tick'.kill = S \ {w}, worker' = Stopped({w})
          PROVE  Busy' \subseteq Busy /\ \A v \in Busy' : v \in S => v \in tick'.kill
      BY <1>1, <3>2, BusyStops
    <3>3. QED BY <2>1, <3>1, <3>2
  <2>3. QED BY <1>6, <2>2, OccupiedBy DEF ToStop
<1>7. CASE TickStops
  <2>1. PICK name, todo, S : name = Phases[tick.phase] /\ todo = tick.todo /\ S = tick.kill OBVIOUS
  <2>2. name \in PhaseNames /\ todo \in SUBSET Item /\ S \in SUBSET Worker
    BY <1>1, <2>1, PhaseNumbers DEF TickRow
  <2>3. StopsAll(name, todo, S) /\ doomed' = doomed /\ \A w : JobsAt(w)' = JobsAt(w)
    BY <1>7, <2>1, AtKept DEF TickStops
  <2>4. QED BY <1>6, <2>1, <2>2, <2>3
<1>8. CASE TickStopsAgain \/ TickStopsUnready
  <2>1. {} \in SUBSET Item /\ tick.kill = {} /\ doomed' = doomed /\ UNCHANGED job
    BY <1>8, ItemsFree DEF TickStopsAgain, TickStopsUnready
  <2>2. QED BY <1>2, <1>6, <1>8, <2>1, AtKept DEF TickStopsAgain, TickStopsUnready
<1>9. ASSUME NEW o \in Owner, TickFailsOwner(o) PROVE Occupied'
  <2>1. PICK todo, S, T : todo = tick.todo \ {o} /\ S = Serves(o)
                          /\ T = {j \in Jobs(Unfinished) : OwnerOf[job[j].ep] = o}
    OBVIOUS
  <2>2. todo \in SUBSET Item /\ S \in SUBSET Worker BY <1>1, <2>1 DEF TickRow, Serves, InState
  <2>3. /\ StopsAll("credit", todo, S) /\ doomed' = doomed /\ tick.kill = {}
        /\ job' = Finished(T, "FAILED")
    BY <1>9, <2>1, ItemsFree DEF TickFailsOwner, Serves
  <2>4. T \in SUBSET Made /\ "FAILED" \in Terminal BY <2>1 DEF Jobs, Made, Terminal
  <2>5. \A w : JobsAt(w)' = JobsAt(w) \ T BY <1>1, <2>3, <2>4, AtEnds
  <2>6. \A w \in Busy : w \notin S => JobsAt(w) \cap T = {}
    BY <2>1 DEF Placed, JobsAt, Running, Serves, Busy, InState, Serving
  <2>7. /\ Busy' \subseteq Busy /\ \A w \in Busy' : w \in S => w \in tick'.kill
    <3>1. \/ S = {} /\ UNCHANGED worker
          \/ \E w \in S : tick'.kill = S \ {w} /\ worker' = Stopped({w})
      BY <1>1, <2>2, <2>3, StopsAre
    <3>2. ASSUME NEW w \in S, tick'.kill = S \ {w}, worker' = Stopped({w})
          PROVE  Busy' \subseteq Busy /\ \A v \in Busy' : v \in S => v \in tick'.kill
      BY <1>1, <3>2, BusyStops
    <3>3. QED BY <3>1, <3>2, BusyKept
  <2>8. \A w \in Busy' : w \in tick'.kill \/ JobsAt(w)' = JobsAt(w) BY <2>5, <2>6, <2>7
  <2>9. QED BY <2>3, <2>7, <2>8, OccupiedBy DEF ToStop
<1>10. CASE TickExpires
  <2>1. PICK S : S = Items("expired") OBVIOUS
  <2>2. S \subseteq Jobs({"IN_QUEUE"}) BY <2>1, ItemsTyped DEF Knows
  <2>3. S \in SUBSET Made /\ "TIMED_OUT" \in Terminal /\ job' = Finished(S, "TIMED_OUT")
    BY <1>10, <2>1, <2>2 DEF TickExpires, Jobs, Made, Terminal
  <2>4. \A w : JobsAt(w)' = JobsAt(w) \ S BY <1>1, <2>3, AtEnds
  <2>5. \A w : JobsAt(w)' = JobsAt(w) BY <2>2, <2>4 DEF JobsAt, Jobs
  <2>6. UNCHANGED <<worker, doomed>> /\ tick.kill = {} BY <1>10, ItemsFree DEF TickExpires
  <2>7. QED BY <2>5, <2>6, OccupiedBy, BusyKept DEF ToStop
<1>11. ASSUME NEW j \in Job, TickTimesOut(j) PROVE Occupied'
  <2>1. j \in Made /\ job[j].at \in Worker BY <1>2, <1>11 DEF TickTimesOut, TodoOK
  <2>2. Items("late") \ {j} \in SUBSET Item BY <1>2, TodoShrinks, TodoItems
  <2>3. PICK S \in SUBSET Worker : S = {job[j].at} BY <2>1
  <2>4. {j} \in SUBSET Made /\ "TIMED_OUT" \in Terminal /\ job' = Finished({j}, "TIMED_OUT")
    BY <1>11, <2>1 DEF TickTimesOut, Terminal
  <2>5. \A w : JobsAt(w)' = JobsAt(w) \ {j} BY <1>1, <2>4, AtEnds
  <2>6. \A w : w \notin S => JobsAt(w)' = JobsAt(w) BY <2>3, <2>5 DEF JobsAt
  <2>7. /\ StopsAll("late", Items("late") \ {j}, S) /\ doomed' = doomed /\ tick.kill = {}
    BY <1>11, <2>3, ItemsFree DEF TickTimesOut
  <2>8. QED BY <1>6, <2>2, <2>6, <2>7
<1>12. ASSUME NEW e \in Endpoint, TickScales(e) PROVE Occupied'
  <2>1. PICK todo : todo = Items("scale") \ {e} OBVIOUS
  <2>2. todo \in SUBSET Item
    <3>1. TodoOK("scale", Items("scale")) BY ItemsTyped DEF Knows
    <3>2. QED BY <2>1, <3>1, TodoShrinks, TodoItems
  <2>3. tick.kill = {} /\ UNCHANGED <<job, doomed>> BY <1>12, ItemsFree DEF TickScales
  <2>4. Idle(e) \in SUBSET Worker BY DEF Idle, Active, InState
  <2>5. UNCHANGED worker \/ \E S \in SUBSET Idle(e) : StopsAll("scale", todo, S)
    BY <1>12, <2>1 DEF TickScales
  <2>6. CASE UNCHANGED worker BY <1>3, <2>3, <2>6
  <2>7. ASSUME NEW S \in SUBSET Idle(e), StopsAll("scale", todo, S) PROVE Occupied'
    BY <1>6, <2>2, <2>3, <2>4, <2>7, AtKept
  <2>8. QED BY <2>5, <2>6, <2>7
<1>13. QED BY <1>4, <1>5, <1>7, <1>8, <1>9, <1>10, <1>11, <1>12 DEF TickItem

LEMMA AnswersOccupy ==
  ASSUME Knows, [Next]_vars, Occupied, ~TickStops,
         \/ TickAnswered \/ KillFails \/ CloseFails \/ AccountsFail \/ OpenLost \/ CreateFails
  PROVE  Occupied'
<1>1. WorkersTyped /\ JobsTyped /\ CallOK(tick.call) BY DEF Knows, Typed, TickTyped
<1>2. doomed' = doomed
  BY DEF TickAnswered, KillReturns, CloseReturns, AfterClose, AccountsAnswered, AccountsFail,
     AccountsReturn, HubAdmits, OpenAnswered, PodCreated, CreateAnswered, OpenRefused, KillFails,
     CloseFails, OpenLost, CreateFails
<1>3. "restart" \notin faults' => ToStop \subseteq ToStop' BY <1>2, KillStays DEF ToStop
<1>4. ASSUME Busy' \subseteq Busy, \A w \in Busy' : JobsAt(w)' = JobsAt(w) PROVE Occupied'
  BY <1>3, <1>4, OccupiedBy
<1>5. CASE KillReturns \/ CreateFails
  <2>1. tick.call.w \in Rows BY <1>1, <1>5 DEF KillReturns, CreateFails, CallOK
  <2>2. PICK w \in Rows : w = tick.call.w BY <2>1
  <2>3. CASE UNCHANGED <<job, worker>> BY <1>4, <2>3, BusyKept, AtKept
  <2>4. CASE worker' = Gone(w) /\ (job' = AfterGone(w) \/ UNCHANGED job)
    <3>1. Busy' = Busy \ {w} BY <1>1, <2>4, BusyLost
    <3>2. \A v : v # w => JobsAt(v)' = JobsAt(v) BY <1>1, <2>4, AtLost, AtKept
    <3>3. QED BY <1>4, <3>1, <3>2
  <2>5. QED BY <1>5, <2>2, <2>3, <2>4 DEF KillReturns, CreateFails
<1>6. ASSUME Busy' \subseteq Busy,
             UNCHANGED job \/ \E e : job' = Finished(Queue(e), "FAILED")
      PROVE  Occupied'
  <2>1. CASE UNCHANGED job BY <1>4, <1>6, <2>1, AtKept
  <2>2. ASSUME NEW e, job' = Finished(Queue(e), "FAILED") PROVE Occupied'
    <3>1. PICK S : S = Queue(e) OBVIOUS
    <3>2. S \in SUBSET Made /\ "FAILED" \in Terminal /\ job' = Finished(S, "FAILED")
      BY <2>2, <3>1, QueueMade DEF Terminal
    <3>3. \A w : JobsAt(w)' = JobsAt(w) \ S BY <1>1, <3>2, AtEnds
    <3>4. \A w : JobsAt(w)' = JobsAt(w) BY <3>1, <3>3 DEF JobsAt, Queue, JobsOf, Jobs
    <3>5. QED BY <1>4, <1>6, <3>4
  <2>3. QED BY <1>6, <2>1, <2>2
<1>7. CASE CloseReturns \/ CloseFails
  <2>1. tick.call.w \in Rows /\ AfterClose BY <1>1, <1>7 DEF CloseReturns, CloseFails, CallOK
  <2>2. UNCHANGED worker \/ worker' = [worker EXCEPT ![tick.call.w].open = FALSE]
    BY <1>7 DEF CloseReturns, CloseFails
  <2>3. Busy' \subseteq Busy BY <1>1, <2>1, <2>2, BusyKept, ClosedIs DEF Busy, InState, Rows
  <2>4. QED BY <1>6, <2>1, <2>3 DEF AfterClose
<1>8. CASE \E code : OpenRefused(code) BY <1>6, <1>8, BusyKept DEF OpenRefused
<1>9. CASE OpenAnswered
  <2>0. PICK row : row = NewRow(tick.call.ep)
    OBVIOUS
  <2>1. worker' = [worker EXCEPT ![tick.call.w] = row] /\ row.state = "starting"
    <3>1. row.state = "starting"
      BY <2>0, Zenon DEF NewRow
    <3>2. worker' = [worker EXCEPT ![tick.call.w] = row]
      BY <1>9, <2>0 DEF OpenAnswered, NewRow
    <3>3. QED
      BY <3>1, <3>2
  <2>2. Busy' \subseteq Busy BY <1>1, <2>1 DEF Busy, InState, WorkersTyped
  <2>3. QED BY <1>6, <1>9, <2>2 DEF OpenAnswered
<1>10. CASE \/ AccountsAnswered \/ AccountsFail \/ HubAdmits \/ PodCreated \/ CreateAnswered
            \/ OpenLost \/ KillFails
  <2>1. UNCHANGED <<job, worker>>
    BY <1>10 DEF AccountsAnswered, AccountsFail, AccountsReturn, HubAdmits, PodCreated,
                 CreateAnswered, OpenLost, KillFails
  <2>2. QED BY <1>4, <2>1, BusyKept, AtKept
<1>11. QED BY <1>5, <1>7, <1>8, <1>9, <1>10 DEF TickAnswered

LEMMA OccupiedStep == ASSUME Knows, Placed, [Next]_vars, Occupied PROVE Occupied'
<1>1. CASE \/ \E J \in SUBSET Jobs(Unfinished), W \in SUBSET Timed : TickLists(J, W)
           \/ TickSleeps \/ GatewayRestart \/ Cluster \/ (\E d \in deletes : DeleteFails(d))
           \/ UNCHANGED vars
  <2>1. UNCHANGED <<job, worker>> BY <1>1, OthersTyped DEF Knows
  <2>2. doomed' = doomed \/ "restart" \in faults'
    BY <1>1 DEF TickLists, TickSleeps, GatewayRestart, Fails, Cluster, PodStarts, PodEnds, PodDeleted,
                DeleteArrives, CreditMoves, PodMoves, DeleteFails, vars
  <2>3. CASE TickStops BY <2>3, ItemsOccupy DEF TickItem
  <2>4. CASE ~TickStops
    BY <2>1, <2>2, <2>4, KillStays, OccupiedBy, BusyKept, AtKept DEF ToStop
  <2>5. QED BY <2>3, <2>4
<1>2. CASE TickStops BY <1>2, ItemsOccupy DEF TickItem
<1>3. QED
  BY <1>1, <1>2, CallsOccupy, ItemsOccupy, AnswersOccupy DEF Next, Tick, Faults

\* A busy worker has a job, or is one that a deletion or the loop is about to
\* stop, unless a restart of the gateway forgot it.
THEOREM BusyWorkersWork == Spec => []BusyHasJob
<1>1. Init => Occupied BY DEF Init, Occupied, Busy, InState
<1>2. Occupied => BusyHasJob BY DEF Occupied, Busy, ToStop, BusyHasJob
<1>3. QED BY <1>1, <1>2, InitKnows, InitPlaced, KnowsInductive, PlacedStep, OccupiedStep, PTL DEF Spec

(***************************************************************************)
(* The number of workers. max_workers is compared with the workers at the   *)
(* beginning of the endpoint's turn; the row of the new one comes only      *)
(* after the hub's answer. Nothing else makes a worker serve meanwhile.     *)
(***************************************************************************)

\* No endpoint ever has more workers that serve than its max_workers.
WorkersWithinLimit == \A e \in Endpoint : Cardinality(Active(e)) <= MaxWorkers[e]

\* While a worker is being started, there is room for it.
Opening(c) == c.op \in {"open", "admitted"}
RoomFor(c) == Opening(c) => Cardinality(Active(c.ep)) < MaxWorkers[c.ep]
WithinLimit == WorkersWithinLimit /\ RoomFor(tick.call)

LEMMA ActiveFinite == ASSUME NEW e PROVE IsFiniteSet(Active(e)) /\ Cardinality(Active(e)) \in Nat
<1>1. Active(e) \subseteq Worker BY DEF Active, InState
<1>2. IsFiniteSet(Active(e)) BY <1>1, GatewayAssumption, FS_Subset
<1>3. QED BY <1>2, FS_CardinalityType

\* Only the answer to `workers/open` makes a worker serve.
LEMMA ActiveShrinks ==
  ASSUME Knows, [Next]_vars, ~OpenAnswered, NEW e
  PROVE  Active(e)' \subseteq Active(e)
<1>1. WorkersTyped BY DEF Knows, Typed
<1>2. SameRows /\ Rows' = Rows BY RowsKept DEF Knows
<1>3. InState(Serving)' \subseteq InState(Serving)
  <2>1. CASE Settles BY <2>1 DEF Settles
  <2>2. CASE Submits BY <2>2, WorkersRest DEF Submits, WorkersSettle
  <2>3. ASSUME NEW w \in Rows, Loses(w) PROVE InState(Serving)' \subseteq InState(Serving)
    BY <1>1, <2>3, LostIs DEF Loses
  <2>4. QED BY <2>1, <2>2, <2>3, StepKinds DEF Knows
<1>4. InState(Serving) \subseteq Rows BY ActiveRows
<1>5. QED BY <1>2, <1>3, <1>4 DEF Active, SameRows

LEMMA OpensAt ==
  ASSUME NEW name, NEW todo, NEW kill, NEW call, tick' = At(name, todo, kill, call)
  PROVE  tick'.call = call
BY DEF At

LEMMA StopsOpenNone ==
  ASSUME NEW name, NEW todo, NEW S, StopsAll(name, todo, S) PROVE ~Opening(tick'.call)
<1>1. ~Opening(NoCall) BY DEF Opening, NoCall
<1>2. \E kill : tick' = At(name, todo, kill, NoCall) BY DEF StopsAll
<1>3. QED BY <1>1, <1>2, OpensAt

\* A worker is being started since the turn of its endpoint.
LEMMA OpensFollow ==
  ASSUME Knows, [Next]_vars, Opening(tick'.call)
  PROVE  /\ ~OpenAnswered
         /\ \/ Opening(tick.call) /\ tick'.call.ep = tick.call.ep
            \/ Wanted(tick'.call.ep) /\ UNCHANGED worker
<1> USE DEF outside
<1> DEFINE Goal == /\ ~OpenAnswered
                   /\ \/ Opening(tick.call) /\ tick'.call.ep = tick.call.ep
                      \/ Wanted(tick'.call.ep) /\ UNCHANGED worker
<1>1. tick \in TickRow BY DEF Knows, Typed, TickTyped
<1>2. ~Opening(NoCall) BY DEF Opening, NoCall
<1>3. ASSUME NEW op \in CallOp, tick' = Follow(op)
      PROVE  tick'.call.op = op /\ tick'.call.ep = tick.call.ep
  <2>1. PICK c : c = Call(op, tick.call.w, tick.call.ep) OBVIOUS
  <2>2. tick'.call = c BY <1>1, <1>3, <2>1, FollowTyped
  <2>3. QED BY <2>1, <2>2 DEF Call
<1>4. CASE OpenAnswered
  <2>1. tick' = Follow("create") /\ "create" \in CallOp BY <1>4 DEF OpenAnswered, CallOp
  <2>2. tick'.call.op = "create" BY <1>3, <2>1
  <2>3. QED BY <2>2 DEF Opening
<1>5. CASE UNCHANGED tick /\ ~OpenAnswered BY <1>5
<1>6. ASSUME tick' = Answered PROVE FALSE BY <1>1, <1>2, <1>6, AnsweredTyped
<1>7. ASSUME tick' = Asleep PROVE FALSE BY <1>2, <1>7 DEF Asleep
<1>8. CASE HubAdmits
  <2>1. tick' = Follow("admitted") /\ "admitted" \in CallOp /\ tick.call.op = "open"
    BY <1>8 DEF HubAdmits, CallOp
  <2>2. tick'.call.ep = tick.call.ep BY <1>3, <2>1
  <2>3. QED BY <1>4, <2>1, <2>2 DEF Opening
<1>9. ASSUME NEW op \in CallOp \ {"open", "admitted"}, tick' = Follow(op) PROVE FALSE
  BY <1>3, <1>9 DEF Opening
<1>10. CASE Calls BY <1>4, <1>5, <1>10, CallsMove DEF Knows, CallFrame
<1>11. CASE TickItem
  <2>1. ASSUME NEW w \in Worker, TickReaps(w) \/ TickKillsOrphan(w) \/ TickCloses(w) PROVE FALSE
    <3>1. \E name, todo, op : op \in {"kill", "close"} /\ tick' = At(name, todo, {}, Call(op, w, Nothing))
      BY <2>1 DEF TickReaps, TickKillsOrphan, TickCloses
    <3>2. PICK op \in {"kill", "close"} : tick'.call = Call(op, w, Nothing) BY <3>1, OpensAt
    <3>3. QED BY <3>2 DEF Call, Opening
  <2>2. CASE TickStops \/ TickStopsAgain \/ TickStopsUnready
    BY <2>2, StopsOpenNone DEF TickStops, TickStopsAgain, TickStopsUnready
  <2>3. CASE TickAsks
    <3>1. tick'.call = Call("accounts", Nothing, Nothing) BY <2>3, OpensAt DEF TickAsks
    <3>2. QED BY <3>1 DEF Call, Opening
  <2>4. ASSUME NEW o \in Owner, TickFailsOwner(o) PROVE FALSE
    BY <2>4, StopsOpenNone DEF TickFailsOwner
  <2>5. CASE TickExpires BY <1>2, <2>5, OpensAt DEF TickExpires
  <2>6. ASSUME NEW j \in Job, TickTimesOut(j) PROVE FALSE
    BY <2>6, StopsOpenNone DEF TickTimesOut
  <2>7. ASSUME NEW e \in Endpoint, TickScales(e) PROVE Goal
    <3>1. CASE \E todo, S : StopsAll("scale", todo, S) BY <3>1, StopsOpenNone
    <3>2. ASSUME NEW todo, NEW w, Wanted(e), UNCHANGED worker,
                 tick' = At("scale", todo, {}, Call("open", w, e))
          PROVE  Goal
      <4>1. PICK c : c = Call("open", w, e) OBVIOUS
      <4>2. tick'.call = c BY <3>2, <4>1, OpensAt
      <4>3. tick'.call.ep = e BY <4>1, <4>2 DEF Call
      <4>4. QED BY <1>4, <3>2, <4>3
    <3>3. QED BY <2>7, <3>1, <3>2 DEF TickScales
  <2>8. QED BY <1>11, <2>1, <2>2, <2>3, <2>4, <2>5, <2>6, <2>7 DEF TickItem
<1>12. CASE TickAnswered
  <2>1. ~(KillReturns \/ PodCreated)
    BY <1>9 DEF KillReturns, PodCreated, CallOp
  <2>2. ~(CloseReturns \/ CreateAnswered \/ \E code : OpenRefused(code))
    BY <1>6 DEF CloseReturns, AfterClose, CreateAnswered, OpenRefused
  <2>3. ASSUME AccountsAnswered PROVE FALSE
    <3>1. \E S : tick' = At("credit", S, {}, NoCall) BY <2>3 DEF AccountsAnswered, AccountsReturn
    <3>2. QED BY <1>2, <3>1, OpensAt
  <2>4. QED BY <1>4, <1>8, <1>12, <2>1, <2>2, <2>3 DEF TickAnswered
<1>13. CASE \/ TickSleeps \/ \E J \in SUBSET Jobs(Unfinished), W \in SUBSET Timed : TickLists(J, W)
  BY <1>2, <1>7, <1>13 DEF TickSleeps, TickLists
<1>14. CASE Faults
  <2>1. ASSUME AccountsFail PROVE FALSE
    <3>1. \E S : tick' = At("credit", S, {}, NoCall) BY <2>1 DEF AccountsFail, AccountsReturn
    <3>2. QED BY <1>2, <3>1, OpensAt
  <2>2. ~(KillFails \/ OpenLost \/ GatewayRestart)
    BY <1>7 DEF KillFails, OpenLost, GatewayRestart
  <2>3. ~CloseFails BY <1>6 DEF CloseFails, AfterClose
  <2>4. ~CreateFails BY <1>9 DEF CreateFails, CallOp
  <2>5. (\E d \in deletes : DeleteFails(d)) => UNCHANGED tick BY DEF DeleteFails
  <2>6. QED BY <1>4, <1>5, <1>14, <2>1, <2>2, <2>3, <2>4, <2>5 DEF Faults
<1>15. CASE Cluster \/ UNCHANGED vars
  <2>1. UNCHANGED tick
    BY <1>15 DEF Cluster, PodStarts, PodEnds, PodDeleted, DeleteArrives, CreditMoves, PodMoves, vars
  <2>2. QED BY <1>4, <1>5, <2>1
<1>16. QED BY <1>10, <1>11, <1>12, <1>13, <1>14, <1>15 DEF Next, Tick

LEMMA LimitStep == ASSUME Knows, [Next]_vars, WithinLimit PROVE WithinLimit'
<1>1. \A e : IsFiniteSet(Active(e)) /\ Cardinality(Active(e)) \in Nat BY ActiveFinite
<1>2. MaxWorkers \in [Endpoint -> Nat] BY GatewayAssumption
<1>3. CASE OpenAnswered
  <2>1. PICK w, e : w = tick.call.w /\ e = tick.call.ep OBVIOUS
  <2>2. Cardinality(Active(e)) < MaxWorkers[e]
    BY <1>3, <2>1 DEF OpenAnswered, WithinLimit, RoomFor, Opening
  <2>3. e \in Endpoint
    BY <1>3, <2>1 DEF OpenAnswered, Knows, Typed, TickTyped, CallOK
  <2>4. /\ SameRows /\ Rows' = Rows \cup {w} /\ InState(Serving)' = InState(Serving) \cup {w}
        /\ worker'[w].ep = e
    BY <1>3, <2>1, StartedIs DEF Knows
  <2>5. InState(Serving) \subseteq Rows BY ActiveRows
  <2>6. \A f : Active(f)' \subseteq Active(f) \cup {w}
    BY <2>4, <2>5 DEF Active, SameRows
  <2>7. \A f : f # e => Active(f)' \subseteq Active(f)
    BY <2>4, <2>5 DEF Active, SameRows
  <2>8. Cardinality(Active(e)') <= Cardinality(Active(e)) + 1
    <3>1. PICK S, T : S = Active(e) /\ T = Active(e)' OBVIOUS
    <3>2. IsFiniteSet(S) /\ Cardinality(S) \in Nat BY <1>1, <3>1
    <3>3. IsFiniteSet(S \cup {w}) /\ Cardinality(S \cup {w}) <= Cardinality(S) + 1
      BY <3>2, FS_AddElement
    <3>4. T \subseteq S \cup {w} BY <2>6, <3>1
    <3>5. IsFiniteSet(T) /\ Cardinality(T) \in Nat /\ Cardinality(S \cup {w}) \in Nat
          /\ Cardinality(T) <= Cardinality(S \cup {w})
      BY <3>3, <3>4, FS_Subset, FS_CardinalityType
    <3>6. QED BY <3>1, <3>2, <3>3, <3>5
  <2>9. ASSUME NEW f \in Endpoint PROVE Cardinality(Active(f)') <= MaxWorkers[f]
    <3>1. Active(f)' \subseteq Worker BY DEF Active, InState
    <3>2. IsFiniteSet(Active(f)') /\ Cardinality(Active(f)') \in Nat
      BY <3>1, GatewayAssumption, FS_Subset, FS_CardinalityType
    <3>3. CASE f = e BY <1>1, <1>2, <2>2, <2>3, <2>8, <3>2, <3>3
    <3>4. CASE f # e
      <4>1. Cardinality(Active(f)') <= Cardinality(Active(f)) BY <1>1, <2>7, <3>4, FS_Subset
      <4>2. QED BY <1>1, <1>2, <3>2, <4>1 DEF WithinLimit, WorkersWithinLimit
    <3>5. QED BY <3>3, <3>4
  <2>10. ~Opening(tick'.call) BY <1>3, OpensFollow
  <2>11. QED BY <2>9, <2>10 DEF WithinLimit, WorkersWithinLimit, RoomFor
<1>4. CASE ~OpenAnswered
  <2>1. ASSUME NEW e
        PROVE  /\ Cardinality(Active(e)') \in Nat
               /\ Cardinality(Active(e)') <= Cardinality(Active(e))
    <3>1. Active(e)' \subseteq Active(e) BY <1>4, ActiveShrinks
    <3>2. QED BY <1>1, <3>1, FS_Subset, FS_CardinalityType
  <2>2. WorkersWithinLimit'
    <3>1. ASSUME NEW e \in Endpoint PROVE Cardinality(Active(e)') <= MaxWorkers[e]
      BY <1>1, <1>2, <2>1 DEF WithinLimit, WorkersWithinLimit
    <3>2. QED BY <3>1 DEF WorkersWithinLimit
  <2>3. ASSUME Opening(tick'.call), NEW e, e = tick'.call.ep
        PROVE  Cardinality(Active(e)') < MaxWorkers[e]
    <3>1. e \in Endpoint
      BY <2>3, KnowsInductive DEF Knows, Typed, TickTyped, CallOK, Opening
    <3>2. Cardinality(Active(e)) < MaxWorkers[e]
      BY <2>3, OpensFollow DEF WithinLimit, RoomFor, Wanted
    <3>3. QED BY <1>1, <1>2, <2>1, <3>1, <3>2
  <2>4. RoomFor(tick.call)' BY <2>3 DEF RoomFor
  <2>5. QED BY <2>2, <2>4 DEF WithinLimit
<1>5. QED BY <1>3, <1>4

\* An endpoint never has more workers than its max_workers, although the check is
\* made before the hub's answer is awaited, whatever fails or restarts meanwhile.
THEOREM LimitHolds == Spec => []WorkersWithinLimit
<1>1. Init => WithinLimit
  <2>1. ASSUME Init, NEW e \in Endpoint PROVE Cardinality(Active(e)) <= MaxWorkers[e]
    <3>1. Active(e) = {} BY <2>1 DEF Init, Active, InState
    <3>2. QED BY <3>1, FS_EmptySet, GatewayAssumption
  <2>2. Init => ~Opening(tick.call) BY DEF Init, Asleep, NoCall, Opening
  <2>3. QED BY <2>1, <2>2 DEF WithinLimit, WorkersWithinLimit, RoomFor
<1>2. WithinLimit => WorkersWithinLimit BY DEF WithinLimit
<1>3. QED BY <1>1, <1>2, InitKnows, KnowsInductive, LimitStep, PTL DEF Spec
=============================================================================
