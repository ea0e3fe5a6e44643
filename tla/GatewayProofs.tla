---------------------------- MODULE GatewayProofs ----------------------------
(* Theorems about the serverless gateway, for any endpoints, jobs, workers and *)
(* faults.                                                                    *)
EXTENDS Gateway, TLAPS

(***************************************************************************)
(* The phases of the control loop.                                         *)
(***************************************************************************)

PhaseNames == {"sleep", "listed", "reap", "again", "orphans", "unclosed",
               "credit", "late", "expired", "unready", "scale"}

LEMMA PhaseNumbers ==
  /\ DOMAIN Phases = 1..11 /\ Len(Phases) = 11
  /\ Phases[1] = "sleep" /\ Phases[2] = "listed" /\ Phases[3] = "reap"
  /\ Phases[4] = "again" /\ Phases[5] = "orphans" /\ Phases[6] = "unclosed"
  /\ Phases[7] = "credit" /\ Phases[8] = "late" /\ Phases[9] = "expired"
  /\ Phases[10] = "unready" /\ Phases[11] = "scale"
BY DEF Phases

LEMMA Numbered ==
  ASSUME NEW name \in PhaseNames
  PROVE  NumberOf(name) \in 1..11 /\ Phases[NumberOf(name)] = name
<1>1. \E i \in DOMAIN Phases : Phases[i] = name
  BY PhaseNumbers DEF PhaseNames
<1>2. QED BY <1>1, PhaseNumbers DEF NumberOf

LEMMA PhaseIs ==
  ASSUME tick.phase \in 1..11, NEW name \in PhaseNames
  PROVE  In(name) <=> tick.phase = NumberOf(name)
BY Numbered, PhaseNumbers DEF In, PhaseNames

LEMMA WorkIs ==
  /\ Work("reap") = {w \in NotGone : tick.snap[w] \in {"none", "ended", "stuck"}}
  /\ Work("again") = Again
  /\ Work("orphans") = {w \in Worker \ NotGone : tick.snap[w] \notin {"none", "deleting"}}
  /\ Work("unclosed") = Unclosed
  /\ Work("credit") = {OwnerOf[e] : e \in Alive \cup {job[j].ep : j \in Jobs(Unfinished)}
                                                \cup {worker[w].ep : w \in NotGone}}
  /\ Work("late") = Late
  /\ Work("expired") = Expired
  /\ Work("unready") = InState({"starting"}) \cap due.workers
  /\ Work("scale") = Alive
BY DEF Work

\* What is taken up next is left of the phase, or found by its query.
LEMMA ItemsAre ==
  ASSUME NEW name \in PhaseNames, NEW x \in Items(name)
  PROVE  Between /\ ((In(name) /\ x \in tick.todo) \/ (~In(name) /\ x \in Work(name)))
BY DEF Items

(***************************************************************************)
(* What a step can do to the jobs and to the workers' rows.                 *)
(***************************************************************************)

State == Serving \cup {"stopping", "gone"}
Rows == {w \in Worker : worker[w] # Nothing}
Made == {j \in Job : job[j] # Nothing}

JobsTyped ==
  /\ job \in [Job -> JobRow \cup {Nothing}]
  /\ \A j \in Jobs({"IN_QUEUE"}) : job[j].at = Nothing
  /\ \A j \in Jobs({"IN_PROGRESS"}) : job[j].at \in Worker
WorkersTyped == worker \in [Worker -> WorkerRow \cup {Nothing}]

JobsFinish == \E S \in SUBSET Made, status \in Terminal : job' = Finished(S, status)
JobSubmitted ==
  \E j \in Job, e \in Endpoint :
    job[j] = Nothing /\ job' = [job EXCEPT ![j] = Row(e, "IN_QUEUE", Nothing, FALSE)]
JobsHanded ==
  \E w \in Worker, S \in SUBSET Jobs({"IN_QUEUE"}) :
    job' = [j \in Job |-> IF j \in S THEN Row(job[j].ep, "IN_PROGRESS", w, job[j].again)
                          ELSE job[j]]
JobsGoOn == UNCHANGED job \/ JobsFinish \/ JobSubmitted \/ JobsHanded
JobsMove == JobsGoOn \/ \E w : job' = AfterGone(w)

NewRow(e) == [ep |-> e, open |-> TRUE, state |-> "starting"]
WorkersMove ==
  \/ UNCHANGED worker
  \/ \E S : worker' = Stopped(S)
  \/ \E w \in Rows, state \in State : worker' = [worker EXCEPT ![w].state = state]
  \/ \E w \in Rows : worker' = [worker EXCEPT ![w].open = FALSE]
  \/ \E w \in Worker, e \in Endpoint : worker' = [worker EXCEPT ![w] = NewRow(e)]

\* Rows of jobs: what one step makes of one of them.
JobMoves(j) ==
  \/ job'[j] = job[j]
  \/ /\ job[j] \in JobRow /\ job[j].status \in Unfinished
     /\ \E status \in Terminal : job'[j] = Row(job[j].ep, status, job[j].at, job[j].again)
  \/ job[j] = Nothing /\ \E e \in Endpoint : job'[j] = Row(e, "IN_QUEUE", Nothing, FALSE)
  \/ /\ job[j] \in JobRow /\ job[j].status = "IN_QUEUE"
     /\ \E w \in Worker : job'[j] = Row(job[j].ep, "IN_PROGRESS", w, job[j].again)
  \/ /\ job[j] \in JobRow /\ job[j].status = "IN_PROGRESS" /\ ~job[j].again
     /\ job'[j] = Row(job[j].ep, "IN_QUEUE", Nothing, TRUE)

LEMMA Restated ==
  ASSUME NEW row \in JobRow, NEW status \in Terminal
  PROVE  [row EXCEPT !.status = status] = Row(row.ep, status, row.at, row.again)
BY DEF JobRow, Row

LEMMA EachJobMoves ==
  ASSUME JobsTyped, JobsMove
  PROVE  job' \in [Job -> {job'[j] : j \in Job}] /\ \A j \in Job : JobMoves(j)
<1> USE DEF JobsTyped
<1>1. ASSUME NEW S \in SUBSET Made, NEW status \in Terminal, job' = Finished(S, status),
             NEW j \in Job
      PROVE  JobMoves(j)
  <2>1. CASE j \in S /\ job[j].status \in Unfinished
    <3>1. job'[j] = [job[j] EXCEPT !.status = status] BY <1>1, <2>1 DEF Finished
    <3>2. job[j] \in JobRow BY <2>1 DEF Made
    <3>3. QED BY <2>1, <3>1, <3>2, Restated DEF JobMoves
  <2>2. QED BY <1>1, <2>1 DEF Finished, JobMoves
<1>2. ASSUME NEW j \in Job, JobSubmitted PROVE JobMoves(j)
  BY <1>2 DEF JobSubmitted, JobMoves
<1>3. ASSUME NEW j \in Job, JobsHanded PROVE JobMoves(j)
  BY <1>3 DEF JobsHanded, Jobs, JobMoves
<1>4. ASSUME NEW w, job' = AfterGone(w), NEW j \in Job PROVE JobMoves(j)
  <2>1. CASE j \in JobsAt(w) /\ job[j].again
    <3>1. job[j] \in JobRow /\ job[j].status = "IN_PROGRESS" BY <2>1 DEF JobsAt, Jobs
    <3>2. job'[j] = [job[j] EXCEPT !.status = "FAILED"] BY <1>4, <2>1 DEF AfterGone
    <3>3. QED BY <3>1, <3>2, Restated DEF JobMoves, Terminal, Unfinished
  <2>2. CASE j \in JobsAt(w) /\ ~job[j].again
    BY <1>4, <2>2 DEF AfterGone, JobMoves, JobsAt, Jobs
  <2>3. QED BY <1>4, <2>1, <2>2 DEF AfterGone, JobMoves
<1>5. \A j \in Job : JobMoves(j)
  <2> TAKE j \in Job
  <2>1. CASE UNCHANGED job BY <2>1 DEF JobMoves
  <2>2. QED BY <1>1, <1>2, <1>3, <1>4, <2>1 DEF JobsMove, JobsGoOn, JobsFinish
<1>6. job' \in [Job -> {job'[j] : j \in Job}]
  BY DEF JobsMove, JobsGoOn, JobsFinish, JobSubmitted, JobsHanded, Finished, AfterGone
<1>7. QED BY <1>5, <1>6

LEMMA JobsStayTyped == ASSUME JobsTyped, JobsMove PROVE JobsTyped'
<1>1. \A j \in Job : JobMoves(j) BY EachJobMoves
<1>2. ASSUME NEW j \in Job
      PROVE  /\ job'[j] \in JobRow \cup {Nothing}
             /\ job'[j] # Nothing /\ job'[j].status = "IN_QUEUE" => job'[j].at = Nothing
             /\ job'[j] # Nothing /\ job'[j].status = "IN_PROGRESS" => job'[j].at \in Worker
  <2>1. CASE job'[j] = job[j] BY <2>1 DEF JobsTyped, Jobs
  <2>2. ASSUME NEW status \in Terminal, job[j] \in JobRow,
               job'[j] = Row(job[j].ep, status, job[j].at, job[j].again)
        PROVE  job'[j] \in JobRow /\ job'[j].status = status
    BY <2>2 DEF JobRow, Row
  <2>3. ASSUME NEW e \in Endpoint, job'[j] = Row(e, "IN_QUEUE", Nothing, FALSE)
        PROVE  job'[j] \in JobRow /\ job'[j].status = "IN_QUEUE" /\ job'[j].at = Nothing
    BY <2>3 DEF JobRow, Row, Unfinished
  <2>4. ASSUME NEW w \in Worker, job[j] \in JobRow,
               job'[j] = Row(job[j].ep, "IN_PROGRESS", w, job[j].again)
        PROVE  job'[j] \in JobRow /\ job'[j].status = "IN_PROGRESS" /\ job'[j].at = w
    BY <2>4 DEF JobRow, Row, Unfinished
  <2>5. ASSUME job[j] \in JobRow, job'[j] = Row(job[j].ep, "IN_QUEUE", Nothing, TRUE)
        PROVE  job'[j] \in JobRow /\ job'[j].status = "IN_QUEUE" /\ job'[j].at = Nothing
    BY <2>5 DEF JobRow, Row, Unfinished
  <2>6. JobMoves(j) BY <1>1
  <2>7. QED BY <2>1, <2>2, <2>3, <2>4, <2>5, <2>6 DEF JobMoves, Terminal
<1>3. job' \in [Job -> JobRow \cup {Nothing}] BY <1>2, EachJobMoves
<1>4. QED BY <1>2, <1>3 DEF JobsTyped, Jobs

LEMMA WorkersStayTyped == ASSUME WorkersTyped, WorkersMove PROVE WorkersTyped' /\ Rows \subseteq Rows'
<1> USE DEF WorkersTyped, Rows
<1>1. ASSUME NEW S, worker' = Stopped(S) PROVE WorkersTyped' /\ Rows \subseteq Rows'
  <2>1. \A w \in Worker : w \in S \cap InState(Serving) =>
          [worker[w] EXCEPT !.state = "stopping"] \in WorkerRow
    BY DEF InState, WorkerRow
  <2>2. QED BY <1>1, <2>1, RowAssumption DEF Stopped
<1>2. ASSUME NEW w \in Rows, NEW state \in State, worker' = [worker EXCEPT ![w].state = state]
      PROVE  WorkersTyped' /\ Rows \subseteq Rows'
  <2>1. [worker[w] EXCEPT !.state = state] \in WorkerRow BY DEF WorkerRow, State, Serving
  <2>2. QED BY <1>2, <2>1, RowAssumption
<1>3. ASSUME NEW w \in Rows, worker' = [worker EXCEPT ![w].open = FALSE]
      PROVE  WorkersTyped' /\ Rows \subseteq Rows'
  <2>1. [worker[w] EXCEPT !.open = FALSE] \in WorkerRow BY DEF WorkerRow
  <2>2. QED BY <1>3, <2>1, RowAssumption
<1>4. ASSUME NEW w \in Worker, NEW e \in Endpoint, worker' = [worker EXCEPT ![w] = NewRow(e)]
      PROVE  WorkersTyped' /\ Rows \subseteq Rows'
  <2>1. NewRow(e) \in WorkerRow BY DEF NewRow, WorkerRow
  <2>2. QED BY <1>4, <2>1, RowAssumption
<1>5. QED BY <1>1, <1>2, <1>3, <1>4 DEF WorkersMove

(***************************************************************************)
(* The control loop's own state. Whoever is still to be dealt with has a    *)
(* row, also when an await lies between.                                   *)
(***************************************************************************)

CallRow == [op : CallOp, w : Worker \cup {Nothing}, ep : Endpoint \cup {Nothing}]
Item == Worker \cup Job \cup Owner \cup Endpoint
TickRow == [phase : 1..11, snap : [Worker -> PodPhase], todo : SUBSET Item,
            kill : SUBSET Worker, call : CallRow]

CallOK(c) ==
  /\ c \in CallRow
  /\ c.op \in {"kill", "close", "create", "created"} => c.w \in Rows
  /\ c.op \in {"open", "admitted"} => c.w \in Worker
  /\ c.op \in {"open", "admitted", "create", "created"} => c.ep \in Endpoint

TodoOK(name, todo) ==
  /\ name \in {"reap", "orphans", "unclosed"} => todo \subseteq Rows
  /\ name = "late" => todo \subseteq {j \in Made : job[j].at \in Worker}
  /\ name = "credit" => todo \subseteq Owner
  /\ name = "scale" => todo \subseteq Endpoint
  /\ name \in {"sleep", "listed", "again", "expired", "unready"} => todo = {}

TickTyped ==
  /\ tick \in TickRow
  /\ CallOK(tick.call) /\ TodoOK(Phases[tick.phase], tick.todo) /\ tick.kill \subseteq Rows

PodsTyped ==
  /\ pod \in [Worker -> PodPhase]
  /\ \A w \in Worker : pod[w] # "none" \/ tick.snap[w] # "none" => w \in Rows

DeletesTyped == doomed \subseteq Rows /\ deletes \subseteq [w : Worker, by : {"owner", "call", "tick"}]

DueTyped == /\ due \in [jobs : SUBSET Job, workers : SUBSET Worker]
            /\ due.jobs \subseteq Jobs(Unfinished) /\ due.workers \subseteq Timed

RestTyped ==
  /\ endpoint \in [Endpoint -> {"none", "alive", "deleted"}] /\ seen \subseteq Owner
  /\ session \subseteq Worker
  /\ broke \in [owners : SUBSET Owner, moves : Nat]

Typed ==
  /\ JobsTyped /\ WorkersTyped /\ TickTyped /\ PodsTyped /\ DeletesTyped /\ DueTyped /\ RestTyped

LEMMA TypedIsTypeOK == Typed => TypeOK
BY PhaseNumbers DEF Typed, JobsTyped, WorkersTyped, TickTyped, PodsTyped, DeletesTyped, DueTyped,
   RestTyped, TypeOK, TickRow, CallOK, CallRow, Rows

LEMMA AsleepTyped ==
  /\ Asleep \in TickRow /\ CallOK(Asleep.call) /\ TodoOK(Phases[Asleep.phase], Asleep.todo)
  /\ Asleep.kill \subseteq Rows /\ \A w \in Worker : Asleep.snap[w] = "none"
<1>1. NoCall \in CallRow /\ NoCall.op = "none"
  BY DEF NoCall, CallRow, CallOp
<1>2. NoPods \in [Worker -> PodPhase] BY DEF NoPods, PodPhase
<1>3. Asleep \in TickRow BY <1>1, <1>2 DEF Asleep, TickRow
<1>4. QED BY <1>1, <1>3, PhaseNumbers DEF Asleep, CallOK, TodoOK, NoPods

LEMMA InitTyped == Init => Typed
<1> SUFFICES ASSUME Init PROVE Typed
  OBVIOUS
<1>1. JobsTyped /\ WorkersTyped BY DEF Init, JobsTyped, WorkersTyped, Jobs
<1>2. TickTyped BY AsleepTyped DEF Init, TickTyped
<1>3. PodsTyped BY AsleepTyped DEF Init, PodsTyped, PodPhase
<1>4. DeletesTyped BY DEF Init, DeletesTyped
<1>5. DueTyped BY DEF Init, DueTyped
<1>6. RestTyped BY DEF Init, RestTyped
<1>7. QED BY <1>1, <1>2, <1>3, <1>4, <1>5, <1>6 DEF Typed

\* What `tick` becomes when it takes up an item of the phase `name`.
LEMMA AtTyped ==
  ASSUME tick \in TickRow, NEW name \in PhaseNames, NEW todo \in SUBSET Item,
         NEW kill \in SUBSET Worker, NEW call \in CallRow, tick' = At(name, todo, kill, call)
  PROVE  /\ tick' \in TickRow /\ Phases[tick'.phase] = name /\ tick'.todo = todo
         /\ tick'.kill = kill /\ tick'.call = call
         /\ \A w \in Worker : tick'.snap[w] # "none" => tick.snap[w] # "none"
<1>1. NoPods \in [Worker -> PodPhase] BY DEF NoPods, PodPhase
<1>2. PICK snap : /\ snap = IF name \in {"reap", "again", "orphans"} THEN tick.snap ELSE NoPods
  OBVIOUS
<1>3. tick' = [phase |-> NumberOf(name), todo |-> todo, kill |-> kill, call |-> call, snap |-> snap]
  BY <1>2 DEF At
<1>4. snap \in [Worker -> PodPhase] BY <1>1, <1>2 DEF TickRow
<1>5. tick' \in TickRow BY <1>3, <1>4, Numbered DEF TickRow
<1>6. \A w \in Worker : snap[w] # "none" => tick.snap[w] # "none"
  BY <1>2 DEF NoPods
<1>7. QED BY <1>3, <1>5, <1>6, Numbered

\* A deletion that is requested.
LEMMA DeleteTyped ==
  ASSUME NEW w \in Worker, NEW by \in {"owner", "call", "tick"}
  PROVE  Delete(w, by) \in [w : Worker, by : {"owner", "call", "tick"}]
BY DEF Delete

LEMMA NoCallOK == CallOK(NoCall)
BY DEF CallOK, NoCall, CallRow, CallOp

(***************************************************************************)
(* Steps. Rows and jobs only come, so what was found stays where it was.    *)
(***************************************************************************)

LEMMA RowsStay ==
  ASSUME Typed, JobsMove, WorkersMove
  PROVE  Rows \subseteq Rows' /\ Made \subseteq Made'
<1>1. \A j \in Job : JobMoves(j) BY EachJobMoves DEF Typed
<1>2. \A e \in Endpoint : Row(e, "IN_QUEUE", Nothing, FALSE) \in JobRow
  BY DEF Row, JobRow, Unfinished
<1>3. JobsTyped' BY JobsStayTyped DEF Typed
<1>4. ASSUME NEW j \in Made PROVE job'[j] # Nothing
  <2>1. job[j] \in JobRow BY DEF Made, Typed, JobsTyped
  <2>2. ASSUME NEW status \in Terminal, NEW at \in Worker \cup {Nothing}
        PROVE  Row(job[j].ep, status, at, job[j].again) \in JobRow
    BY <2>1 DEF Row, JobRow
  <2>3. ASSUME NEW w \in Worker
        PROVE  Row(job[j].ep, "IN_PROGRESS", w, job[j].again) \in JobRow
    BY <2>1 DEF Row, JobRow, Unfinished
  <2>4. Row(job[j].ep, "IN_QUEUE", Nothing, TRUE) \in JobRow
    BY <2>1 DEF Row, JobRow, Unfinished
  <2>5. job[j].at \in Worker \cup {Nothing} BY <2>1 DEF JobRow
  <2>6. JobMoves(j) BY <1>1 DEF Made
  <2>7. QED BY <2>1, <2>2, <2>3, <2>4, <2>5, <2>6, RowAssumption DEF JobMoves, Made
<1>5. QED BY <1>4, WorkersStayTyped DEF Typed, Made

LEMMA CallStaysOK ==
  ASSUME Rows \subseteq Rows', NEW c, CallOK(c) PROVE CallOK(c)'
BY DEF CallOK, CallRow

LEMMA TodoStaysOK ==
  ASSUME Typed, JobsMove, WorkersMove, NEW name, NEW todo, TodoOK(name, todo),
         JobsGoOn \/ name # "late"
  PROVE  TodoOK(name, todo)'
<1>1. Rows \subseteq Rows' /\ Made \subseteq Made' BY RowsStay
<1>2. ASSUME JobsGoOn, NEW j \in Made, job[j].at \in Worker PROVE job'[j].at \in Worker
  <2>1. job[j] \in JobRow BY <1>2 DEF Made, Typed, JobsTyped
  <2>2. CASE JobsFinish
    <3>1. PICK S \in SUBSET Made, status \in Terminal : job' = Finished(S, status)
      BY <2>2 DEF JobsFinish
    <3>2. job'[j] = job[j] \/ job'[j] = [job[j] EXCEPT !.status = status]
      BY <3>1 DEF Finished, Made
    <3>3. QED BY <1>2, <2>1, <3>2, Restated DEF Row
  <2>3. CASE JobSubmitted BY <1>2, <2>3 DEF JobSubmitted, Made, Typed, JobsTyped
  <2>4. CASE JobsHanded BY <1>2, <2>4 DEF JobsHanded, Made, Row
  <2>5. QED BY <1>2, <2>2, <2>3, <2>4 DEF JobsGoOn
<1>3. QED BY <1>1, <1>2 DEF TodoOK

LEMMA DueStaysTyped ==
  ASSUME Typed, JobsMove, WorkersMove, TimesRestart \/ UNCHANGED <<job, worker, due>>
  PROVE  DueTyped'
<1>1. CASE UNCHANGED <<job, worker, due>>
  BY <1>1 DEF Typed, DueTyped, Jobs, Timed, InState
<1>2. CASE TimesRestart
  <2>1. Rows \subseteq Rows' /\ Made \subseteq Made' BY RowsStay
  <2>2. PICK W \in SUBSET {w \in InState({"starting"}) : worker'[w].state = "idle"} :
           due' = [jobs |-> {j \in due.jobs : job'[j].status = job[j].status},
                   workers |-> W \cup {w \in due.workers : worker'[w].state = worker[w].state}]
    BY <1>2 DEF TimesRestart
  <2>3. W \subseteq Worker BY <2>2 DEF InState
  <2>4. due' \in [jobs : SUBSET Job, workers : SUBSET Worker]
    BY <2>2, <2>3 DEF Typed, DueTyped
  <2>5. due'.jobs \subseteq Jobs(Unfinished)'
    BY <2>1, <2>2 DEF Typed, DueTyped, Jobs, Made
  <2>6. W \subseteq Timed' BY <2>1, <2>2 DEF Timed, InState, Rows
  <2>7. {w \in due.workers : worker'[w].state = worker[w].state} \subseteq Timed'
    BY <2>1 DEF Typed, DueTyped, Timed, InState, Rows
  <2>8. QED BY <2>2, <2>4, <2>5, <2>6, <2>7 DEF DueTyped
<1>3. QED BY <1>1, <1>2

\* A step of somebody else than the control loop.
LEMMA StillTyped ==
  ASSUME Typed, JobsGoOn, WorkersMove, UNCHANGED <<tick, pod>>
  PROVE  JobsTyped' /\ WorkersTyped' /\ TickTyped' /\ PodsTyped'
<1>1. JobsMove BY DEF JobsMove
<1>2. JobsTyped' BY <1>1, JobsStayTyped DEF Typed
<1>3. WorkersTyped' BY WorkersStayTyped DEF Typed
<1>4. Rows \subseteq Rows' BY <1>1, RowsStay
<1>5. TickTyped'
  BY <1>1, <1>4, CallStaysOK, TodoStaysOK DEF Typed, TickTyped, TickRow, CallRow
<1>6. PodsTyped' BY <1>4 DEF Typed, PodsTyped
<1>7. QED BY <1>2, <1>3, <1>5, <1>6

LEMMA ActiveRows == ASSUME NEW S PROVE InState(S) \subseteq Rows
BY DEF InState, Rows

\* What a call of a customer or of a worker leaves alone.
CallFrame ==
  /\ JobsGoOn /\ WorkersMove /\ UNCHANGED <<tick, pod, broke, session, seen, faults>>
  /\ DeletesTyped' /\ endpoint' \in [Endpoint -> {"none", "alive", "deleted"}]
  /\ TimesRestart \/ (JobsGoOn /\ UNCHANGED <<worker, due>> /\ (JobSubmitted \/ UNCHANGED job))

LEMMA DeletesGrow ==
  ASSUME Typed, JobsMove, WorkersMove, NEW by \in {"owner", "call", "tick"},
         doomed' \subseteq Rows,
         deletes' = deletes \/ \E w \in Worker : deletes' = deletes \cup {Delete(w, by)}
  PROVE  DeletesTyped'
BY RowsStay, DeleteTyped DEF Typed, DeletesTyped

LEMMA OneWorkerMoves ==
  ASSUME Typed, NEW w \in InState(Serving), NEW state \in State,
         worker' = [worker EXCEPT ![w].state = state]
  PROVE  WorkersMove
BY ActiveRows DEF WorkersMove

LEMMA CallsMove == ASSUME Typed, Calls PROVE CallFrame
<1> USE DEF outside
<1>1. ASSUME NEW e \in Endpoint, CreateEndpoint(e) PROVE CallFrame
  <2>1. JobsGoOn /\ JobsMove /\ WorkersMove
    BY <1>1 DEF CreateEndpoint, JobsGoOn, JobsMove, WorkersMove
  <2>2. DeletesTyped'
    BY <1>1, <2>1, DeletesGrow DEF CreateEndpoint, Typed, DeletesTyped
  <2>3. QED BY <1>1, <2>1, <2>2 DEF CreateEndpoint, CallFrame, Typed, RestTyped
<1>2. ASSUME NEW e \in Endpoint, DeleteEndpoint(e) PROVE CallFrame
  <2>1. JobsGoOn /\ JobsMove
    <3>1. JobsOf(e, Unfinished) \in SUBSET Made /\ "CANCELLED" \in Terminal
      BY DEF JobsOf, Jobs, Made, Terminal
    <3>2. QED BY <1>2, <3>1 DEF DeleteEndpoint, JobsFinish, JobsGoOn, JobsMove
  <2>2. WorkersMove BY <1>2 DEF DeleteEndpoint, WorkersMove
  <2>3. Active(e) \subseteq Rows /\ Active(e) \subseteq Worker
    BY ActiveRows DEF Active, Rows
  <2>4. DeletesTyped'
    BY <1>2, <2>1, <2>2, <2>3, DeletesGrow DEF DeleteEndpoint, Typed, DeletesTyped
  <2>5. QED BY <1>2, <2>1, <2>2, <2>4 DEF DeleteEndpoint, CallFrame, Typed, RestTyped
<1>3. ASSUME NEW w \in Worker, DeleteGoesOn(w) PROVE CallFrame
  <2>1. JobsGoOn /\ JobsMove /\ WorkersMove
    BY <1>3 DEF DeleteGoesOn, JobsGoOn, JobsMove, WorkersMove
  <2>2. DeletesTyped'
    BY <1>3, <2>1, DeletesGrow DEF DeleteGoesOn, Typed, DeletesTyped
  <2>3. QED BY <1>3, <2>1, <2>2 DEF DeleteGoesOn, CallFrame, Typed, RestTyped
<1>4. ASSUME NEW j \in Job, NEW e \in Endpoint, Submit(j, e) PROVE CallFrame
  <2>1. JobSubmitted BY <1>4 DEF Submit, JobSubmitted
  <2>2. JobsGoOn /\ JobsMove /\ WorkersMove
    BY <1>4, <2>1 DEF Submit, JobsGoOn, JobsMove, WorkersMove
  <2>3. DeletesTyped' BY <1>4, <2>2, DeletesGrow DEF Submit, Typed, DeletesTyped
  <2>4. QED BY <1>4, <2>1, <2>2, <2>3 DEF Submit, CallFrame, Typed, RestTyped
<1>5. ASSUME NEW j \in Job, Cancel(j) PROVE CallFrame
  <2>1. JobsGoOn /\ JobsMove
    <3>1. {j} \in SUBSET Made /\ "CANCELLED" \in Terminal
      BY <1>5 DEF Cancel, Jobs, Made, Terminal
    <3>2. QED BY <1>5, <3>1 DEF Cancel, JobsFinish, JobsGoOn, JobsMove
  <2>2. WorkersMove BY <1>5 DEF Cancel, WorkersMove
  <2>3. job[j].status = "IN_PROGRESS" => job[j].at \in Worker
    BY <1>5 DEF Cancel, Typed, JobsTyped, Jobs
  <2>4. DeletesTyped'
    BY <1>5, <2>1, <2>2, <2>3, DeletesGrow DEF Cancel, Typed, DeletesTyped
  <2>5. QED BY <1>5, <2>1, <2>2, <2>4 DEF Cancel, CallFrame, Typed, RestTyped
<1>6. ASSUME NEW e \in Endpoint, PurgeQueue(e) PROVE CallFrame
  <2>1. JobsGoOn /\ JobsMove /\ WorkersMove
    <3>1. Queue(e) \in SUBSET Made /\ "CANCELLED" \in Terminal
      BY DEF Queue, JobsOf, Jobs, Made, Terminal
    <3>2. QED BY <1>6, <3>1 DEF PurgeQueue, JobsFinish, JobsGoOn, JobsMove, WorkersMove
  <2>2. DeletesTyped' BY <1>6, <2>1, DeletesGrow DEF PurgeQueue, Typed, DeletesTyped
  <2>3. QED BY <1>6, <2>1, <2>2 DEF PurgeQueue, CallFrame, Typed, RestTyped
<1>7. ASSUME NEW w \in Worker, NEW n \in 1..Batch, JobTake(w, n) PROVE CallFrame
  <2>1. JobsGoOn /\ JobsMove
    <3>1. Oldest(worker[w].ep, n) \in SUBSET Jobs({"IN_QUEUE"})
      BY DEF Oldest, Queue, JobsOf
    <3>2. QED BY <1>7, <3>1 DEF JobTake, JobsHanded, JobsGoOn, JobsMove
  <2>2. WorkersMove
    <3>1. w \in InState(Serving) BY <1>7 DEF JobTake, CanCall
    <3>2. worker[w].state \in State BY <3>1 DEF InState, State
    <3>3. \E state \in State : worker' = [worker EXCEPT ![w].state = state]
      BY <1>7, <3>2 DEF JobTake, State, Serving
    <3>4. QED BY <3>1, <3>3, OneWorkerMoves
  <2>3. DeletesTyped' BY <1>7, <2>1, <2>2, DeletesGrow DEF JobTake, Typed, DeletesTyped
  <2>4. QED BY <1>7, <2>1, <2>2, <2>3 DEF JobTake, CallFrame, Typed, RestTyped
<1>8. ASSUME NEW w \in Worker, NEW j \in Job, NEW status \in {"COMPLETED", "FAILED"},
             NEW stopPod \in BOOLEAN, JobDone(w, j, status, stopPod)
      PROVE  CallFrame
  <2>1. JobsGoOn /\ JobsMove
    <3>1. {j} \in SUBSET Made /\ status \in Terminal
      BY <1>8 DEF JobDone, JobsAt, Jobs, Made, Terminal
    <3>2. QED BY <1>8, <3>1 DEF JobDone, JobsFinish, JobsGoOn, JobsMove
  <2>2. WorkersMove
    <3>1. w \in InState(Serving) BY <1>8 DEF JobDone, CanCall
    <3>2. worker[w].state \in State BY <3>1 DEF InState, State
    <3>3. \/ worker' = Stopped({w})
          \/ \E state \in State : worker' = [worker EXCEPT ![w].state = state]
      BY <1>8, <3>2 DEF JobDone, State, Serving
    <3>4. QED BY <3>1, <3>3, OneWorkerMoves DEF WorkersMove
  <2>3. DeletesTyped' BY <1>8, <2>1, <2>2, DeletesGrow DEF JobDone, Typed, DeletesTyped
  <2>4. QED BY <1>8, <2>1, <2>2, <2>3 DEF JobDone, CallFrame, Typed, RestTyped
<1>9. QED BY <1>1, <1>2, <1>3, <1>4, <1>5, <1>6, <1>7, <1>8 DEF Calls

LEMMA CallsTyped == ASSUME Typed, Calls PROVE Typed'
<1>1. CallFrame BY CallsMove
<1>2. JobsMove /\ WorkersMove BY <1>1 DEF CallFrame, JobsMove
<1>3. JobsTyped' /\ WorkersTyped' /\ TickTyped' /\ PodsTyped'
  BY <1>1, StillTyped DEF CallFrame
<1>4. DueTyped'
  <2>1. CASE JobSubmitted /\ UNCHANGED <<worker, due>>
    BY <1>3, <2>1 DEF JobSubmitted, Typed, DueTyped, JobsTyped, Jobs, Timed, InState
  <2>2. QED BY <1>1, <1>2, <2>1, DueStaysTyped DEF CallFrame
<1>5. RestTyped' BY <1>1 DEF CallFrame, Typed, RestTyped
<1>6. QED BY <1>1, <1>3, <1>4, <1>5 DEF CallFrame, Typed

\* The control loop takes something up.
LEMMA TakesUp ==
  ASSUME Typed, JobsMove, WorkersMove, NEW name \in PhaseNames, NEW todo \in SUBSET Item,
         NEW kill \in SUBSET Rows, NEW call, TodoOK(name, todo)', CallOK(call),
         tick' = At(name, todo, kill, call), UNCHANGED pod
  PROVE  TickTyped' /\ PodsTyped'
<1>1. Rows \subseteq Rows' /\ Rows \subseteq Worker BY RowsStay DEF Rows
<1>2. call \in CallRow /\ CallOK(call)' BY <1>1, CallStaysOK DEF CallOK
<1>3. tick \in TickRow BY DEF Typed, TickTyped
<1>4. /\ tick' \in TickRow /\ Phases[tick'.phase] = name /\ tick'.todo = todo
      /\ tick'.kill = kill /\ tick'.call = call
      /\ \A w \in Worker : tick'.snap[w] # "none" => tick.snap[w] # "none"
  BY <1>1, <1>2, <1>3, AtTyped
<1>5. TickTyped'
  <2>1. TickRow' = TickRow BY DEF TickRow, CallRow
  <2>2. QED BY <1>1, <1>2, <1>4, <2>1 DEF TickTyped
<1>6. PodsTyped' BY <1>1, <1>4 DEF Typed, PodsTyped
<1>7. QED BY <1>5, <1>6

LEMMA FollowTyped ==
  ASSUME tick \in TickRow, NEW op \in CallOp, tick' = Follow(op)
  PROVE  /\ tick' \in TickRow /\ tick'.phase = tick.phase /\ tick'.todo = tick.todo
         /\ tick'.kill = tick.kill /\ tick'.snap = tick.snap
         /\ tick'.call = Call(op, tick.call.w, tick.call.ep)
<1>1. PICK c : c = Call(op, tick.call.w, tick.call.ep) OBVIOUS
<1>2. c \in CallRow BY <1>1 DEF Call, CallRow, TickRow
<1>3. tick' = [tick EXCEPT !.call = c] BY <1>1 DEF Follow
<1>4. QED BY <1>1, <1>2, <1>3 DEF TickRow

LEMMA AnsweredTyped ==
  ASSUME tick \in TickRow, tick' = Answered
  PROVE  /\ tick' \in TickRow /\ tick'.phase = tick.phase /\ tick'.todo = tick.todo
         /\ tick'.kill = tick.kill /\ tick'.snap = tick.snap /\ tick'.call = NoCall
<1>1. NoCall \in CallRow BY NoCallOK DEF CallOK
<1>2. PICK c : c = NoCall OBVIOUS
<1>3. tick' = [tick EXCEPT !.call = c] BY <1>2 DEF Answered
<1>4. QED BY <1>1, <1>2, <1>3 DEF TickRow

\* A call in flight is answered or followed by another one.
LEMMA GoesOnTyped ==
  ASSUME Typed, JobsMove, WorkersMove, JobsGoOn \/ In("reap"), NEW call, CallOK(call)',
         tick' \in TickRow, tick'.phase = tick.phase, tick'.todo = tick.todo,
         tick'.kill = tick.kill, tick'.snap = tick.snap, tick'.call = call
  PROVE  TickTyped' /\ (UNCHANGED pod => PodsTyped')
<1>1. Rows \subseteq Rows' BY RowsStay
<1>2. TodoOK(Phases[tick.phase], tick.todo)'
  <2>1. JobsGoOn \/ Phases[tick.phase] # "late" BY DEF In
  <2>2. PICK name, todo : name = Phases[tick.phase] /\ todo = tick.todo OBVIOUS
  <2>3. TodoOK(name, todo) BY <2>2 DEF Typed, TickTyped
  <2>4. TodoOK(name, todo)' BY <2>1, <2>2, <2>3, TodoStaysOK
  <2>5. QED BY <2>2, <2>4
<1>3. TickTyped'
  <2>1. TickRow' = TickRow BY DEF TickRow, CallRow
  <2>2. QED BY <1>1, <1>2, <2>1 DEF TickTyped, Typed
<1>4. QED BY <1>1, <1>3 DEF Typed, PodsTyped

\* What a phase works on.
LEMMA ItemsTyped ==
  ASSUME Typed
  PROVE  /\ TodoOK("reap", Items("reap")) /\ TodoOK("orphans", Items("orphans"))
         /\ TodoOK("unclosed", Items("unclosed")) /\ TodoOK("late", Items("late"))
         /\ TodoOK("credit", Items("credit")) /\ TodoOK("scale", Items("scale"))
         /\ Items("again") \subseteq InState({"stopping"})
         /\ Items("unready") \subseteq InState({"starting"})
         /\ Items("expired") \subseteq Jobs({"IN_QUEUE"})
<1>1. \A name \in PhaseNames : \A x \in Items(name) :
        (Phases[tick.phase] = name /\ x \in tick.todo) \/ x \in Work(name)
  BY ItemsAre DEF In
<1>2. TodoOK(Phases[tick.phase], tick.todo) BY DEF Typed, TickTyped
<1>3. NotGone \subseteq Rows BY DEF NotGone, InState, Rows
<1>4. TodoOK("reap", Items("reap")) BY <1>1, <1>2, <1>3, WorkIs DEF TodoOK, PhaseNames
<1>5. TodoOK("orphans", Items("orphans"))
  <2>1. Work("orphans") \subseteq Rows BY WorkIs DEF Typed, PodsTyped
  <2>2. QED BY <1>1, <1>2, <2>1 DEF TodoOK, PhaseNames
<1>6. TodoOK("unclosed", Items("unclosed"))
  <2>1. Work("unclosed") \subseteq Rows BY WorkIs DEF Unclosed, InState, Rows
  <2>2. QED BY <1>1, <1>2, <2>1 DEF TodoOK, PhaseNames
<1>7. TodoOK("late", Items("late"))
  <2>1. Work("late") \subseteq {j \in Made : job[j].at \in Worker}
    BY WorkIs DEF Late, Jobs, Made, Typed, JobsTyped
  <2>2. QED BY <1>1, <1>2, <2>1 DEF TodoOK, PhaseNames
<1>8. TodoOK("credit", Items("credit"))
  <2>1. \A j \in Jobs(Unfinished) : job[j].ep \in Endpoint
    BY DEF Jobs, Typed, JobsTyped, JobRow
  <2>2. \A w \in NotGone : worker[w].ep \in Endpoint
    BY DEF NotGone, InState, Typed, WorkersTyped, WorkerRow
  <2>3. Work("credit") \subseteq Owner
    BY <2>1, <2>2, WorkIs, GatewayAssumption DEF Alive
  <2>4. QED BY <1>1, <1>2, <2>3 DEF TodoOK, PhaseNames
<1>9. TodoOK("scale", Items("scale"))
  BY <1>1, <1>2, WorkIs DEF TodoOK, PhaseNames, Alive
<1>10. Items("again") \subseteq InState({"stopping"})
  BY <1>1, <1>2, WorkIs DEF TodoOK, PhaseNames, Again
<1>11. Items("unready") \subseteq InState({"starting"})
  BY <1>1, <1>2, WorkIs DEF TodoOK, PhaseNames
<1>12. Items("expired") \subseteq Jobs({"IN_QUEUE"})
  BY <1>1, <1>2, WorkIs DEF TodoOK, PhaseNames, Expired
<1>13. QED BY <1>4, <1>5, <1>6, <1>7, <1>8, <1>9, <1>10, <1>11, <1>12

\* stop_worker for each of S.
LEMMA StopsAllMoves ==
  ASSUME NEW name, NEW todo, NEW S \in SUBSET Worker, S \subseteq Rows \/ \E w : S = {w},
         StopsAll(name, todo, S)
  PROVE  /\ WorkersMove
         /\ \E kill \in SUBSET Rows : tick' = At(name, todo, kill, NoCall)
         /\ deletes' = deletes \/ \E w \in Worker : deletes' = deletes \cup {Delete(w, "tick")}
<1>1. CASE S = {} BY <1>1 DEF StopsAll, WorkersMove
<1>2. CASE S # {}
  <2>1. PICK w \in S : /\ tick' = At(name, todo, S \ {w}, NoCall)
                       /\ worker' = Stopped({w})
                       /\ deletes' = deletes \cup {Delete(w, "tick")}
    BY <1>2 DEF StopsAll
  <2>2. S \ {w} \subseteq Rows OBVIOUS
  <2>3. QED BY <2>1, <2>2 DEF WorkersMove
<1>3. QED BY <1>1, <1>2

LEMMA TodoItems ==
  ASSUME NEW name \in PhaseNames, NEW todo, TodoOK(name, todo) PROVE todo \in SUBSET Item
BY DEF TodoOK, Item, Rows, Made, PhaseNames

\* What a step of the control loop does.
TickFrame ==
  JobsMove /\ WorkersMove /\ TickTyped' /\ PodsTyped' /\ DeletesTyped' /\ DueTyped' /\ RestTyped'

LEMMA FrameTyped == ASSUME Typed, TickFrame PROVE Typed'
BY JobsStayTyped, WorkersStayTyped DEF Typed, TickFrame

\* A step that takes up a phase's item and calls nobody but Kubernetes' deletions.
LEMMA TakesUpFrame ==
  ASSUME Typed, JobsMove, WorkersMove, NEW name \in PhaseNames, NEW todo, NEW kill \in SUBSET Rows,
         NEW call, TodoOK(name, todo), JobsGoOn \/ name # "late", CallOK(call),
         tick' = At(name, todo, kill, call),
         UNCHANGED <<endpoint, seen, doomed, outside>>,
         deletes' = deletes \/ \E w \in Worker : deletes' = deletes \cup {Delete(w, "tick")},
         TimesRestart \/ UNCHANGED <<job, worker, due>>
  PROVE  TickFrame
<1>1. TodoOK(name, todo)' /\ todo \in SUBSET Item BY TodoStaysOK, TodoItems
<1>2. TickTyped' /\ PodsTyped' BY <1>1, TakesUp DEF outside
<1>3. DeletesTyped' BY DeletesGrow DEF Typed, DeletesTyped
<1>4. DueTyped' BY DueStaysTyped
<1>5. RestTyped' BY DEF outside, Typed, RestTyped
<1>6. QED BY <1>2, <1>3, <1>4, <1>5 DEF TickFrame

LEMMA TodoShrinks ==
  ASSUME NEW name, NEW todo, TodoOK(name, todo), NEW left, left \subseteq todo
  PROVE  TodoOK(name, left)
BY DEF TodoOK

LEMMA StopsFrame ==
  ASSUME Typed, JobsMove, NEW name \in PhaseNames, NEW todo, NEW S \in SUBSET Worker,
         S \subseteq Rows \/ \E w : S = {w}, TodoOK(name, todo), JobsGoOn \/ name # "late",
         StopsAll(name, todo, S), UNCHANGED <<endpoint, seen, doomed, outside>>,
         TimesRestart \/ UNCHANGED <<job, worker, due>>
  PROVE  TickFrame
<1>1. PICK kill \in SUBSET Rows : tick' = At(name, todo, kill, NoCall) BY StopsAllMoves
<1>2. WorkersMove
      /\ (deletes' = deletes \/ \E w \in Worker : deletes' = deletes \cup {Delete(w, "tick")})
  BY StopsAllMoves
<1>3. QED BY <1>1, <1>2, TakesUpFrame, NoCallOK

LEMMA SameJobs == ASSUME UNCHANGED job PROVE JobsGoOn /\ JobsMove
BY DEF JobsGoOn, JobsMove

LEMMA SameWorkers == ASSUME UNCHANGED worker PROVE WorkersMove
BY DEF WorkersMove

LEMMA FinishedJobs ==
  ASSUME NEW S \in SUBSET Made, NEW status \in Terminal, job' = Finished(S, status)
  PROVE  JobsGoOn /\ JobsMove
BY DEF JobsFinish, JobsGoOn, JobsMove

LEMMA WorkerOfRow == ASSUME NEW w \in Rows, worker' = Gone(w) PROVE WorkersMove
BY DEF Gone, WorkersMove, State

\* Step 1 of the loop, and what is left of a stop.
LEMMA ReapFrame ==
  ASSUME Typed, TickItem,
         \/ \E w \in Worker : TickReaps(w) \/ TickKillsOrphan(w) \/ TickCloses(w)
         \/ TickStops \/ TickStopsAgain \/ TickStopsUnready
  PROVE  TickFrame
<1> USE DEF PhaseNames
<1>1. ASSUME NEW w \in Worker, TickReaps(w) PROVE TickFrame
  <2>1. TodoOK("reap", Items("reap")) /\ w \in Rows
    BY <1>1, ItemsTyped DEF TickReaps, TodoOK
  <2>2. TodoOK("reap", Items("reap") \ {w}) BY <2>1, TodoShrinks
  <2>3. \A op \in {"close", "kill"} : CallOK(Call(op, w, Nothing))
    BY <2>1 DEF CallOK, Call, CallRow, CallOp, Rows
  <2>4. PICK op \in {"close", "kill"} :
          tick' = At("reap", Items("reap") \ {w}, {}, Call(op, w, Nothing))
    BY <1>1 DEF TickReaps
  <2>5. JobsMove /\ WorkersMove
    BY <1>1, <2>1, SameJobs, SameWorkers, WorkerOfRow DEF TickReaps, JobsMove
  <2>6. {} \in SUBSET Rows /\ UNCHANGED <<endpoint, seen, doomed, outside, deletes>> /\ TimesRestart
    BY <1>1 DEF TickReaps
  <2>7. QED BY <2>2, <2>3, <2>4, <2>5, <2>6, TakesUpFrame
<1>2. ASSUME NEW w \in Worker, TickKillsOrphan(w) PROVE TickFrame
  <2>1. TodoOK("orphans", Items("orphans")) /\ w \in Rows
    BY <1>2, ItemsTyped DEF TickKillsOrphan, TodoOK
  <2>2. TodoOK("orphans", Items("orphans") \ {w}) BY <2>1, TodoShrinks
  <2>3. CallOK(Call("kill", w, Nothing)) BY <2>1 DEF CallOK, Call, CallRow, CallOp, Rows
  <2>4. QED BY <1>2, <2>2, <2>3, TakesUpFrame, SameJobs, SameWorkers DEF TickKillsOrphan
<1>3. ASSUME NEW w \in Worker, TickCloses(w) PROVE TickFrame
  <2>1. TodoOK("unclosed", Items("unclosed")) /\ w \in Rows
    BY <1>3, ItemsTyped DEF TickCloses, TodoOK
  <2>2. TodoOK("unclosed", Items("unclosed") \ {w}) BY <2>1, TodoShrinks
  <2>3. CallOK(Call("close", w, Nothing)) BY <2>1 DEF CallOK, Call, CallRow, CallOp, Rows
  <2>4. QED BY <1>3, <2>2, <2>3, TakesUpFrame, SameJobs, SameWorkers DEF TickCloses
<1>4. CASE TickStops
  <2>1. TodoOK(Phases[tick.phase], tick.todo) /\ tick.kill \subseteq Rows /\ tick.phase \in 1..11
    BY DEF Typed, TickTyped, TickRow
  <2>2. Phases[tick.phase] \in PhaseNames BY <2>1, PhaseNumbers
  <2>3. tick.kill \in SUBSET Worker BY <2>1 DEF Rows
  <2>4. QED BY <1>4, <2>1, <2>2, <2>3, StopsFrame, SameJobs DEF TickStops
<1>5. CASE TickStopsAgain
  <2>1. Items("again") \in SUBSET Worker /\ Items("again") \subseteq Rows
    BY ItemsTyped, ActiveRows DEF InState
  <2>2. UNCHANGED worker
    <3>1. PICK w \in Items("again") : worker' = Stopped({w})
      BY <1>5 DEF TickStopsAgain, StopsAll
    <3>2. w \notin InState(Serving) BY ItemsTyped DEF InState, Serving
    <3>3. QED BY <3>1, <3>2 DEF Stopped, Typed, WorkersTyped
  <2>3. TodoOK("again", {}) BY DEF TodoOK
  <2>4. QED BY <1>5, <2>1, <2>2, <2>3, StopsFrame, SameJobs DEF TickStopsAgain
<1>6. CASE TickStopsUnready
  <2>1. Items("unready") \in SUBSET Worker /\ Items("unready") \subseteq Rows
    BY ItemsTyped, ActiveRows DEF InState
  <2>2. TodoOK("unready", {}) BY DEF TodoOK
  <2>3. QED BY <1>6, <2>1, <2>2, StopsFrame, SameJobs DEF TickStopsUnready
<1>7. QED BY <1>1, <1>2, <1>3, <1>4, <1>5, <1>6

\* Steps 2 to 4.
LEMMA ScaleFrame ==
  ASSUME Typed,
         \/ TickAsks \/ \E o \in Owner : TickFailsOwner(o)
         \/ TickExpires \/ \E j \in Job : TickTimesOut(j)
         \/ \E e \in Endpoint : TickScales(e)
  PROVE  TickFrame
<1> USE DEF PhaseNames
<1>1. CASE TickAsks
  <2>1. TodoOK("credit", Items("credit")) BY ItemsTyped
  <2>2. CallOK(Call("accounts", Nothing, Nothing)) BY DEF CallOK, Call, CallRow, CallOp
  <2>3. QED BY <1>1, <2>1, <2>2, TakesUpFrame, SameJobs, SameWorkers DEF TickAsks
<1>2. ASSUME NEW o \in Owner, TickFailsOwner(o) PROVE TickFrame
  <2>1. TodoOK("credit", tick.todo \ {o})
    <3>1. Phases[tick.phase] = "credit" BY <1>2 DEF TickFailsOwner, In
    <3>2. TodoOK("credit", tick.todo) BY <3>1 DEF Typed, TickTyped
    <3>3. QED BY <3>2, TodoShrinks
  <2>2. JobsGoOn /\ JobsMove
    <3>1. {j \in Jobs(Unfinished) : OwnerOf[job[j].ep] = o} \in SUBSET Made
      BY DEF Jobs, Made
    <3>2. QED BY <1>2, <3>1, FinishedJobs DEF TickFailsOwner, Terminal
  <2>3. {w \in InState(Serving) : OwnerOf[worker[w].ep] = o} \in SUBSET Rows
        /\ {w \in InState(Serving) : OwnerOf[worker[w].ep] = o} \in SUBSET Worker
    BY ActiveRows DEF InState
  <2>4. QED BY <1>2, <2>1, <2>2, <2>3, StopsFrame DEF TickFailsOwner
<1>3. CASE TickExpires
  <2>1. JobsGoOn /\ JobsMove
    <3>1. Items("expired") \in SUBSET Made BY ItemsTyped DEF Jobs, Made
    <3>2. QED BY <1>3, <3>1, FinishedJobs DEF TickExpires, Terminal
  <2>2. TodoOK("expired", {}) BY DEF TodoOK
  <2>3. QED BY <1>3, <2>1, <2>2, NoCallOK, TakesUpFrame, SameWorkers DEF TickExpires
<1>4. ASSUME NEW j \in Job, TickTimesOut(j) PROVE TickFrame
  <2>1. TodoOK("late", Items("late")) BY ItemsTyped
  <2>2. j \in Made /\ job[j].at \in Worker BY <1>4, <2>1 DEF TickTimesOut, TodoOK
  <2>3. JobsGoOn /\ JobsMove
    BY <1>4, <2>2, FinishedJobs DEF TickTimesOut, Terminal
  <2>4. TodoOK("late", Items("late") \ {j}) BY <2>1, TodoShrinks
  <2>5. PICK S \in SUBSET Worker : S = {job[j].at} BY <2>2
  <2>6. /\ StopsAll("late", Items("late") \ {j}, S) /\ TimesRestart
        /\ UNCHANGED <<endpoint, seen, doomed, outside>>
    BY <1>4, <2>5 DEF TickTimesOut
  <2>7. QED BY <2>3, <2>4, <2>5, <2>6, StopsFrame
<1>5. ASSUME NEW e \in Endpoint, TickScales(e) PROVE TickFrame
  <2>1. TodoOK("scale", Items("scale") \ {e}) BY ItemsTyped, TodoShrinks
  <2>2. CASE \E w \in Unused : /\ tick' = At("scale", Items("scale") \ {e}, {}, Call("open", w, e))
                               /\ UNCHANGED <<worker, deletes>>
    <3>1. PICK w \in Unused : tick' = At("scale", Items("scale") \ {e}, {}, Call("open", w, e))
      BY <2>2
    <3>2. CallOK(Call("open", w, e)) BY DEF CallOK, Call, CallRow, CallOp, Unused
    <3>3. QED BY <1>5, <2>1, <2>2, <3>1, <3>2, TakesUpFrame, SameJobs, SameWorkers DEF TickScales
  <2>3. CASE \E S \in SUBSET Idle(e) : StopsAll("scale", Items("scale") \ {e}, S)
    <3>1. Idle(e) \in SUBSET Rows /\ Idle(e) \in SUBSET Worker
      BY ActiveRows DEF Idle, Active, InState
    <3>2. QED BY <1>5, <2>1, <2>3, <3>1, StopsFrame, SameJobs DEF TickScales
  <2>4. QED BY <1>5, <2>2, <2>3 DEF TickScales
<1>6. QED BY <1>1, <1>2, <1>3, <1>4, <1>5

\* A call in flight gets its answer, or none.
LEMMA AnswerFrame ==
  ASSUME Typed, JobsGoOn, WorkersMove, tick' = Answered,
         UNCHANGED <<endpoint, doomed, deletes, pod, broke>>, seen' \subseteq Owner,
         session' \subseteq Worker, TimesRestart \/ UNCHANGED <<job, worker, due>>
  PROVE  TickFrame
<1>1. JobsMove BY DEF JobsMove
<1>2. tick \in TickRow BY DEF Typed, TickTyped
<1>3. CallOK(NoCall)' BY <1>1, NoCallOK, RowsStay, CallStaysOK
<1>4. TickTyped' /\ PodsTyped' BY <1>1, <1>2, <1>3, AnsweredTyped, GoesOnTyped
<1>5. DeletesTyped' BY <1>1, DeletesGrow DEF Typed, DeletesTyped
<1>6. QED BY <1>1, <1>4, <1>5, DueStaysTyped DEF TickFrame, RestTyped, Typed

\* It is followed by the next call about the same worker.
LEMMA FollowFrame ==
  ASSUME Typed, JobsMove, WorkersMove, JobsGoOn \/ In("reap"), NEW op \in CallOp,
         NEW c, c = Call(op, tick.call.w, tick.call.ep), CallOK(c)', tick' = Follow(op),
         UNCHANGED <<endpoint, seen, doomed, deletes, broke>>, session' \subseteq Worker,
         UNCHANGED pod \/ \E w \in Rows', phase \in PodPhase : pod' = [pod EXCEPT ![w] = phase],
         TimesRestart \/ UNCHANGED <<job, worker, due>> \/ DueTyped'
  PROVE  TickFrame
<1>1. tick \in TickRow BY DEF Typed, TickTyped
<1>2. /\ tick' \in TickRow /\ tick'.phase = tick.phase /\ tick'.todo = tick.todo
      /\ tick'.kill = tick.kill /\ tick'.snap = tick.snap /\ tick'.call = c
  BY <1>1, FollowTyped
<1>3. TickTyped' /\ (UNCHANGED pod => PodsTyped') BY <1>2, GoesOnTyped
<1>4. PodsTyped'
  <2>1. Rows \subseteq Rows' BY RowsStay
  <2>2. ASSUME NEW w \in Rows', NEW phase \in PodPhase, pod' = [pod EXCEPT ![w] = phase]
        PROVE  PodsTyped'
    BY <1>2, <2>1, <2>2 DEF Typed, PodsTyped
  <2>3. QED BY <1>3, <2>2
<1>5. DeletesTyped' BY DeletesGrow DEF Typed, DeletesTyped
<1>6. QED BY <1>3, <1>4, <1>5, DueStaysTyped DEF TickFrame, RestTyped, Typed

LEMMA QueueMade == ASSUME NEW e PROVE Queue(e) \in SUBSET Made
BY DEF Queue, JobsOf, Jobs, Made

LEMMA AnswersTyped ==
  ASSUME Typed,
         \/ TickAnswered \/ KillFails \/ CloseFails \/ AccountsFail \/ OpenLost \/ CreateFails
  PROVE  TickFrame
<1> USE DEF outside
<1>1. tick \in TickRow /\ tick.call \in CallRow /\ CallOK(tick.call)
  BY DEF Typed, TickTyped, TickRow
<1>2. CASE KillReturns
  <2>1. tick.call.w \in Rows BY <1>1, <1>2 DEF KillReturns, CallOK
  <2>2. JobsMove /\ WorkersMove /\ (JobsGoOn \/ In("reap"))
    BY <1>2, <2>1, SameJobs, SameWorkers, WorkerOfRow DEF KillReturns, JobsMove
  <2>3. PICK c : c = Call("close", tick.call.w, tick.call.ep) OBVIOUS
  <2>4. Rows \subseteq Rows' BY <2>2, RowsStay
  <2>5. CallOK(c) BY <1>1, <2>1, <2>3 DEF CallOK, Call, CallRow, CallOp
  <2>6. CallOK(c)' BY <2>4, <2>5, CallStaysOK
  <2>7. "close" \in CallOp /\ "none" \in PodPhase BY DEF CallOp, PodPhase
  <2>8. QED BY <1>2, <2>1, <2>2, <2>3, <2>4, <2>6, <2>7, FollowFrame DEF KillReturns, Typed, RestTyped
<1>3. CASE CloseReturns \/ CloseFails
  <2>1. tick.call.w \in Rows BY <1>1, <1>3 DEF CloseReturns, CloseFails, CallOK
  <2>2. AfterClose BY <1>3 DEF CloseReturns, CloseFails
  <2>3. JobsGoOn
    BY <2>2, SameJobs, FinishedJobs, QueueMade DEF AfterClose, Terminal
  <2>4. WorkersMove
    BY <1>3, <2>1 DEF CloseReturns, CloseFails, WorkersMove
  <2>5. session' \subseteq Worker /\ seen' \subseteq Owner
    BY <1>3, <2>2 DEF CloseReturns, CloseFails, AfterClose, Typed, RestTyped
  <2>6. QED BY <2>2, <2>3, <2>4, <2>5, AnswerFrame DEF AfterClose
<1>4. CASE AccountsAnswered \/ AccountsFail
  <2>1. tick.call.op = "accounts" BY <1>4 DEF AccountsAnswered, AccountsFail, AccountsReturn
  <2>2. PICK S \in SUBSET Owner : AccountsReturn(S)
    BY <1>4 DEF AccountsAnswered, AccountsFail, Typed, RestTyped
  <2>3. TodoOK("credit", S) BY DEF TodoOK
  <2>4. TickTyped' /\ PodsTyped'
    BY <2>2, <2>3, SameJobs, SameWorkers, NoCallOK, TodoItems, TodoStaysOK, TakesUp
       DEF AccountsReturn, PhaseNames
  <2>5. DeletesTyped' BY <2>2, DeletesGrow, SameJobs, SameWorkers DEF AccountsReturn, Typed, DeletesTyped
  <2>6. DueTyped' BY <2>2, DueStaysTyped, SameJobs, SameWorkers DEF AccountsReturn
  <2>7. RestTyped' BY <2>2 DEF AccountsReturn, Typed, RestTyped
  <2>8. QED BY <2>2, <2>4, <2>5, <2>6, <2>7, SameJobs, SameWorkers DEF AccountsReturn, TickFrame
<1>5. CASE HubAdmits
  <2>1. PICK c : c = Call("admitted", tick.call.w, tick.call.ep) OBVIOUS
  <2>2. CallOK(c) BY <1>1, <1>5, <2>1 DEF HubAdmits, CallOK, Call, CallRow, CallOp
  <2>3. JobsMove /\ JobsGoOn /\ WorkersMove BY <1>5, SameJobs, SameWorkers DEF HubAdmits
  <2>4. CallOK(c)' BY <2>2, <2>3, RowsStay, CallStaysOK
  <2>5. session' \subseteq Worker
    BY <1>1, <1>5 DEF HubAdmits, CallOK, Typed, RestTyped
  <2>6. "admitted" \in CallOp BY DEF CallOp
  <2>7. QED BY <1>5, <2>1, <2>3, <2>4, <2>5, <2>6, FollowFrame DEF HubAdmits
<1>6. CASE OpenAnswered
  <2>1. tick.call.w \in Worker /\ tick.call.ep \in Endpoint
    BY <1>1, <1>6 DEF OpenAnswered, CallOK
  <2>2. JobsMove /\ JobsGoOn /\ WorkersMove
    BY <1>6, <2>1, SameJobs DEF OpenAnswered, WorkersMove, NewRow
  <2>3. PICK c : c = Call("create", tick.call.w, tick.call.ep) OBVIOUS
  <2>4. worker'[tick.call.w] \in WorkerRow /\ worker'[tick.call.w].state = "starting"
    <3>1. NewRow(tick.call.ep) \in WorkerRow /\ NewRow(tick.call.ep).state = "starting"
      BY <2>1 DEF NewRow, WorkerRow
    <3>2. QED BY <1>6, <2>1, <3>1 DEF OpenAnswered, NewRow, Typed, WorkersTyped
  <2>5. tick.call.w \in Rows' BY <2>1, <2>4, RowAssumption DEF Rows
  <2>6. c \in CallRow /\ c.op = "create" /\ c.w = tick.call.w /\ c.ep = tick.call.ep
    BY <2>1, <2>3 DEF Call, CallRow, CallOp
  <2>7. CallOK(c)' BY <2>1, <2>5, <2>6 DEF CallOK, CallRow
  <2>8. DueTyped'
    BY <1>6, <2>1, <2>4, RowAssumption
       DEF OpenAnswered, Typed, DueTyped, Jobs, Timed, InState, WorkersTyped
  <2>9. "create" \in CallOp BY DEF CallOp
  <2>10. QED BY <1>6, <2>2, <2>3, <2>7, <2>8, <2>9, FollowFrame DEF OpenAnswered, Typed, RestTyped
<1>7. CASE PodCreated
  <2>1. PICK c : c = Call("created", tick.call.w, tick.call.ep) OBVIOUS
  <2>2. CallOK(c) /\ tick.call.w \in Rows
    BY <1>1, <1>7, <2>1 DEF PodCreated, CallOK, Call, CallRow, CallOp
  <2>3. JobsMove /\ JobsGoOn /\ WorkersMove BY <1>7, SameJobs, SameWorkers DEF PodCreated
  <2>4. CallOK(c)' /\ tick.call.w \in Rows' BY <2>2, <2>3, RowsStay, CallStaysOK
  <2>5. "created" \in CallOp /\ "pending" \in PodPhase BY DEF CallOp, PodPhase
  <2>6. QED BY <1>7, <2>1, <2>3, <2>4, <2>5, FollowFrame DEF PodCreated, Typed, RestTyped
<1>8. CASE CreateAnswered
  BY <1>8, SameJobs, SameWorkers, AnswerFrame DEF CreateAnswered, Typed, RestTyped
<1>9. ASSUME NEW code, OpenRefused(code) PROVE TickFrame
  <2>1. JobsGoOn
    BY <1>9, SameJobs, FinishedJobs, QueueMade DEF OpenRefused, Terminal
  <2>2. QED BY <1>9, <2>1, SameWorkers, AnswerFrame DEF OpenRefused, Typed, RestTyped
<1>10. CASE CreateFails
  <2>1. tick.call.w \in Rows BY <1>1, <1>10 DEF CreateFails, CallOK
  <2>2. JobsMove /\ JobsGoOn /\ WorkersMove
    BY <1>10, <2>1, SameJobs, WorkerOfRow DEF CreateFails
  <2>3. PICK c : c = Call("close", tick.call.w, tick.call.ep) OBVIOUS
  <2>4. CallOK(c) BY <1>1, <2>1, <2>3 DEF CallOK, Call, CallRow, CallOp
  <2>5. CallOK(c)' BY <2>2, <2>4, RowsStay, CallStaysOK
  <2>6. "close" \in CallOp BY DEF CallOp
  <2>7. QED BY <1>10, <2>2, <2>3, <2>5, <2>6, FollowFrame DEF CreateFails, Typed, RestTyped
<1>11. CASE KillFails
  <2>1. JobsMove /\ WorkersMove BY <1>11, SameJobs, SameWorkers DEF KillFails
  <2>2. TickTyped' BY <1>11, AsleepTyped DEF KillFails, TickTyped, TickRow, CallRow, CallOK, TodoOK,
                      Rows, Made
  <2>3. tick.call.w \in Rows BY <1>1, <1>11 DEF KillFails, CallOK
  <2>4. PodsTyped'
    BY <1>11, <2>3, AsleepTyped DEF KillFails, Typed, PodsTyped, PodPhase, Rows
  <2>5. DeletesTyped' BY <1>11, <2>1, DeletesGrow DEF KillFails, Typed, DeletesTyped
  <2>6. DueTyped' BY <1>11, <2>1, DueStaysTyped DEF KillFails
  <2>7. QED BY <1>11, <2>1, <2>2, <2>4, <2>5, <2>6 DEF KillFails, TickFrame, Typed, RestTyped
<1>12. CASE OpenLost
  <2>1. JobsMove /\ WorkersMove BY <1>12, SameJobs, SameWorkers DEF OpenLost
  <2>2. TickTyped' BY <1>12, AsleepTyped DEF OpenLost, TickTyped, TickRow, CallRow, CallOK, TodoOK,
                      Rows, Made
  <2>3. PodsTyped' BY <1>12, AsleepTyped DEF OpenLost, outside, Typed, PodsTyped, Rows
  <2>4. DeletesTyped' BY <1>12, <2>1, DeletesGrow DEF OpenLost, Typed, DeletesTyped
  <2>5. DueTyped' BY <1>12, <2>1, DueStaysTyped DEF OpenLost
  <2>6. QED
    BY <1>12, <2>1, <2>2, <2>3, <2>4, <2>5 DEF OpenLost, outside, TickFrame, Typed, RestTyped
<1>13. QED
  BY <1>2, <1>3, <1>4, <1>5, <1>6, <1>7, <1>8, <1>9, <1>10, <1>11, <1>12 DEF TickAnswered

\* The start and the end of a pass, a restart, and what happens outside.
LEMMA OthersTyped ==
  ASSUME Typed,
         \/ \E J \in SUBSET Jobs(Unfinished), W \in SUBSET Timed : TickLists(J, W)
         \/ TickSleeps \/ GatewayRestart \/ Cluster \/ \E d \in deletes : DeleteFails(d)
         \/ UNCHANGED vars
  PROVE  UNCHANGED <<job, worker>> /\ TickFrame
<1> USE DEF outside
<1>1. ASSUME NEW J \in SUBSET Jobs(Unfinished), NEW W \in SUBSET Timed, TickLists(J, W)
      PROVE  UNCHANGED <<job, worker>> /\ TickFrame
  <2>1. JobsMove /\ WorkersMove BY <1>1, SameJobs, SameWorkers DEF TickLists
  <2>2. /\ tick' \in TickRow /\ tick'.phase = 2 /\ tick'.snap = pod /\ tick'.todo = {}
        /\ tick'.kill = {} /\ tick'.call = NoCall
    <3>1. NumberOf("listed") = 2 BY Numbered, PhaseNumbers DEF PhaseNames
    <3>2. NoCall \in CallRow BY NoCallOK DEF CallOK
    <3>3. QED BY <1>1, <3>1, <3>2 DEF TickLists, TickRow, Typed, PodsTyped
  <2>3. TickTyped'
    BY <2>2, NoCallOK, PhaseNumbers DEF TickTyped, TickRow, CallRow, CallOK, TodoOK, NoCall
  <2>4. PodsTyped' BY <1>1, <2>2 DEF TickLists, Typed, PodsTyped, Rows
  <2>5. DeletesTyped' BY <1>1, <2>1, DeletesGrow DEF TickLists, Typed, DeletesTyped
  <2>6. DueTyped' BY <1>1 DEF TickLists, Typed, DueTyped, Jobs, Timed, InState
  <2>7. QED BY <1>1, <2>1, <2>3, <2>4, <2>5, <2>6 DEF TickLists, TickFrame, Typed, RestTyped
<1>2. CASE TickSleeps \/ GatewayRestart
  <2>1. UNCHANGED <<job, worker, due, endpoint, outside>> /\ tick' = Asleep
    BY <1>2 DEF TickSleeps, GatewayRestart
  <2>2. JobsMove /\ WorkersMove BY <2>1, SameJobs, SameWorkers
  <2>3. TickTyped'
    BY <2>1, AsleepTyped DEF TickTyped, TickRow, CallRow, CallOK, TodoOK, Rows, Made
  <2>4. PodsTyped' BY <2>1, AsleepTyped DEF Typed, PodsTyped, Rows
  <2>5. DeletesTyped'
    BY <1>2, <2>1 DEF TickSleeps, GatewayRestart, Typed, DeletesTyped, Rows
  <2>6. DueTyped' BY <2>1, <2>2, DueStaysTyped
  <2>7. RestTyped' BY <1>2, <2>1 DEF TickSleeps, GatewayRestart, Typed, RestTyped
  <2>8. QED BY <2>1, <2>2, <2>3, <2>4, <2>5, <2>6, <2>7 DEF TickFrame
<1>3. ASSUME UNCHANGED <<endpoint, job, worker, due, seen, tick, doomed, session>>, RestTyped',
             deletes' \subseteq deletes,
             UNCHANGED pod \/ \E w \in Worker, to \in PodPhase :
                (pod[w] = "none" => to = "none") /\ pod' = [pod EXCEPT ![w] = to]
      PROVE  UNCHANGED <<job, worker>> /\ TickFrame
  <2>1. JobsMove /\ JobsGoOn /\ WorkersMove BY <1>3, SameJobs, SameWorkers
  <2>2. TickTyped'
    BY <1>3 DEF Typed, TickTyped, TickRow, CallRow, CallOK, TodoOK, Rows, Made
  <2>3. PodsTyped' BY <1>3 DEF Typed, PodsTyped, Rows
  <2>4. DeletesTyped' BY <1>3 DEF Typed, DeletesTyped, Rows
  <2>5. DueTyped' BY <1>3, <2>1, DueStaysTyped
  <2>6. QED BY <1>3, <2>1, <2>2, <2>3, <2>4, <2>5 DEF TickFrame
<1>4. CASE Cluster
  <2>1. ASSUME NEW w \in Worker, NEW to \in PodPhase, PodStarts(w, to) \/ PodEnds(w, to)
        PROVE  UNCHANGED <<job, worker>> /\ TickFrame
    BY <1>3, <2>1 DEF PodStarts, PodEnds, PodMoves, Typed, RestTyped
  <2>2. ASSUME NEW w \in Worker, PodDeleted(w) PROVE UNCHANGED <<job, worker>> /\ TickFrame
    BY <1>3, <2>2 DEF PodDeleted, PodMoves, Typed, RestTyped, PodPhase
  <2>3. ASSUME NEW d \in deletes, DeleteArrives(d) PROVE UNCHANGED <<job, worker>> /\ TickFrame
    <3>1. d.w \in Worker BY DEF Typed, DeletesTyped
    <3>2. QED BY <1>3, <2>3, <3>1 DEF DeleteArrives, PodMoves, Typed, RestTyped, PodPhase
  <2>4. ASSUME NEW o \in Owner, CreditMoves(o) PROVE UNCHANGED <<job, worker>> /\ TickFrame
    <3>1. PICK owners \in SUBSET Owner : broke' = [owners |-> owners, moves |-> broke.moves + 1]
      BY <2>4 DEF CreditMoves, Typed, RestTyped
    <3>2. broke' \in [owners : SUBSET Owner, moves : Nat] BY <3>1 DEF Typed, RestTyped
    <3>3. QED BY <1>3, <2>4, <3>2 DEF CreditMoves, Typed, RestTyped
  <2>5. QED BY <1>4, <2>1, <2>2, <2>3, <2>4 DEF Cluster
<1>5. ASSUME NEW d \in deletes, DeleteFails(d) PROVE UNCHANGED <<job, worker>> /\ TickFrame
  BY <1>3, <1>5 DEF DeleteFails, Typed, RestTyped
<1>6. CASE UNCHANGED vars BY <1>3, <1>6 DEF vars, Typed, RestTyped
<1>7. QED BY <1>1, <1>2, <1>4, <1>5, <1>6

LEMMA TickMoves ==
  ASSUME Typed, Tick \/ Faults \/ Cluster \/ UNCHANGED vars PROVE TickFrame
BY ReapFrame, ScaleFrame, AnswersTyped, OthersTyped DEF Tick, TickItem, Faults

LEMMA NextTyped == Typed /\ [Next]_vars => Typed'
BY CallsTyped, TickMoves, FrameTyped DEF Next

\* Every reachable state is well typed: a queued job is at no worker and a job in
\* progress is at one, and what is past its timeout is unfinished.
THEOREM TypeCorrect == Spec => []TypeOK
<1>1. QED BY InitTyped, NextTyped, TypedIsTypeOK, PTL DEF Spec

(***************************************************************************)
(* A job's life.                                                           *)
(***************************************************************************)

StatusOf(row) == IF row = Nothing THEN "none" ELSE row.status
Returned(row) == row # Nothing /\ row.again

LEMMA RowLife ==
  ASSUME JobsTyped, JobsTyped', NEW j \in Job, JobMoves(j)
  PROVE  \/ StatusOf(job'[j]) = StatusOf(job[j]) /\ (Returned(job'[j]) <=> Returned(job[j]))
         \/ /\ StatusOf(job[j]) = "none" /\ StatusOf(job'[j]) = "IN_QUEUE"
            /\ (Returned(job'[j]) <=> Returned(job[j]))
         \/ /\ StatusOf(job[j]) = "IN_QUEUE" /\ StatusOf(job'[j]) = "IN_PROGRESS"
            /\ (Returned(job'[j]) <=> Returned(job[j]))
         \/ /\ StatusOf(job[j]) \in Unfinished /\ StatusOf(job'[j]) \in Terminal
            /\ (Returned(job'[j]) <=> Returned(job[j]))
         \/ /\ StatusOf(job[j]) = "IN_PROGRESS" /\ ~Returned(job[j])
            /\ StatusOf(job'[j]) = "IN_QUEUE" /\ Returned(job'[j])
<1>1. job[j] \in JobRow => job[j] # Nothing BY RowAssumption
<1>2. ASSUME job[j] \in JobRow, NEW status \in Terminal \cup Unfinished,
             NEW at \in Worker \cup {Nothing}, NEW again \in BOOLEAN,
             job'[j] = Row(job[j].ep, status, at, again)
      PROVE  StatusOf(job'[j]) = status /\ (Returned(job'[j]) <=> again)
  <2>1. Row(job[j].ep, status, at, again) \in JobRow BY <1>2 DEF Row, JobRow
  <2>2. QED BY <1>2, <2>1, RowAssumption DEF StatusOf, Returned, Row
<1>3. ASSUME NEW e \in Endpoint, job'[j] = Row(e, "IN_QUEUE", Nothing, FALSE)
      PROVE  StatusOf(job'[j]) = "IN_QUEUE" /\ ~Returned(job'[j])
  <2>1. Row(e, "IN_QUEUE", Nothing, FALSE) \in JobRow BY DEF Row, JobRow, Unfinished
  <2>2. PICK row : row = [ep |-> e, status |-> "IN_QUEUE", at |-> Nothing, again |-> FALSE]
    OBVIOUS
  <2>3. row.again = FALSE /\ row.status = "IN_QUEUE" BY <2>2, Zenon
  <2>4. job'[j] = row BY <1>3, <2>2 DEF Row
  <2>5. row # Nothing BY <2>1, <2>2, RowAssumption DEF Row
  <2>6. StatusOf(row) = "IN_QUEUE" BY <2>3, <2>5 DEF StatusOf
  <2>7. ~Returned(row) BY <2>3, Zenon DEF Returned
  <2>8. QED BY <2>4, <2>6, <2>7
<1>4. job[j] \in JobRow => job[j].at \in Worker \cup {Nothing} /\ job[j].again \in BOOLEAN
  BY DEF JobRow
<1>5. CASE job'[j] = job[j] BY <1>5
<1>6. ASSUME job[j] \in JobRow, job[j].status \in Unfinished, NEW status \in Terminal,
             job'[j] = Row(job[j].ep, status, job[j].at, job[j].again)
      PROVE  /\ StatusOf(job[j]) \in Unfinished /\ StatusOf(job'[j]) \in Terminal
             /\ (Returned(job'[j]) <=> Returned(job[j]))
  BY <1>1, <1>2, <1>4, <1>6 DEF StatusOf, Returned
<1>7. CASE job[j] = Nothing /\ \E e \in Endpoint : job'[j] = Row(e, "IN_QUEUE", Nothing, FALSE)
  BY <1>3, <1>7 DEF StatusOf, Returned
<1>8. ASSUME job[j] \in JobRow, job[j].status = "IN_QUEUE", NEW w \in Worker,
             job'[j] = Row(job[j].ep, "IN_PROGRESS", w, job[j].again)
      PROVE  /\ StatusOf(job[j]) = "IN_QUEUE" /\ StatusOf(job'[j]) = "IN_PROGRESS"
             /\ (Returned(job'[j]) <=> Returned(job[j]))
  BY <1>1, <1>2, <1>4, <1>8 DEF StatusOf, Returned, Unfinished
<1>9. CASE /\ job[j] \in JobRow /\ job[j].status = "IN_PROGRESS" /\ ~job[j].again
           /\ job'[j] = Row(job[j].ep, "IN_QUEUE", Nothing, TRUE)
  BY <1>1, <1>2, <1>9 DEF StatusOf, Returned, Unfinished
<1>10. QED BY <1>5, <1>6, <1>7, <1>8, <1>9 DEF JobMoves

\* A job is queued once, handed out, returned at most once and finished for good,
\* whatever the loop, the calls, the faults and a restart do.
THEOREM JobsLiveOnce == Spec => ImplementsJobs
<1>1. Init => Lifecycle!Init BY DEF Init, Lifecycle!Init
<1>2. ASSUME Typed, [Next]_vars
      PROVE  [Lifecycle!Next]_<<[j \in Job |-> IF job[j] = Nothing THEN "none" ELSE job[j].status],
                                {j \in Job : job[j] # Nothing /\ job[j].again}>>
  <2>1. JobsTyped /\ JobsTyped' BY <1>2, NextTyped DEF Typed
  <2>2. JobsMove BY <1>2, CallsMove, TickMoves DEF Next, CallFrame, TickFrame, JobsMove
  <2>3. \A j \in Job : JobMoves(j) BY <2>1, <2>2, EachJobMoves
  <2>4. Lifecycle!Next
    <3> SUFFICES ASSUME NEW j \in Job
                 PROVE  \/ Lifecycle!Stays(j) \/ Lifecycle!Submitted(j) \/ Lifecycle!Handed(j)
                        \/ Lifecycle!Finished(j) \/ Lifecycle!Requeued(j)
      BY DEF Lifecycle!Next
    <3>1. JobMoves(j) BY <2>3
    <3>2. QED BY <2>1, <3>1, RowLife
          DEF StatusOf, Returned, Lifecycle!Stays, Lifecycle!Submitted, Lifecycle!Handed,
              Lifecycle!Finished, Lifecycle!Requeued, Lifecycle!Kept, Lifecycle!Unfinished,
              Lifecycle!Terminal, Unfinished, Terminal
  <2>5. QED BY <2>4
<1>3. QED BY <1>1, <1>2, InitTyped, NextTyped, PTL DEF Spec, ImplementsJobs, Lifecycle!Spec
=============================================================================
