------------------------------ MODULE Runtime ------------------------------
(* The program in a serverless worker (serverless/runtime/zai_serverless.py)   *)
(* and what the gateway's handlers do with its calls: jobs are handed out,     *)
(* each yield of a generator is streamed, and a result is posted up to three   *)
(* times. A call may be lost on the way there or back, and one the runtime has *)
(* given up may still reach the gateway later. Workers and jobs are less       *)
(* detailed than in Gateway: what matters here is which calls are accepted.    *)
EXTENDS Naturals, Sequences

CONSTANTS
  Job,        \* job ids, in order of submission
  Worker,
  Nothing,    \* no job, no worker
  Yields,     \* what a generator handler yields
  Tries,      \* posts of a result
  MaxFaults   \* bound: calls that are lost or fail

ASSUME RuntimeAssumption ==
  /\ Job \subseteq Nat /\ Nothing \notin Job \cup Worker
  /\ {Yields, MaxFaults} \subseteq Nat /\ Tries \in Nat \ {0}

VARIABLES
  job,      \* the table `jobs`: status, worker, whether it was returned
  stream,   \* the table `stream`: of each job, who sent which yield
  worker,   \* whether the gateway lets a worker's calls pass
  run,      \* the runtime of each worker
  late,     \* calls given up that may still arrive
  read,     \* chunks of a job its customer has fetched
  told,     \* jobs whose customer was told that they are finished
  refused,  \* history: <<job, worker>> of chunks whose answer was a refusal
  faults

vars == <<job, stream, worker, run, late, read, told, refused, faults>>

Terminal == {"COMPLETED", "FAILED", "CANCELLED", "TIMED_OUT"}
JobRow == [status : {"IN_QUEUE", "IN_PROGRESS"} \cup Terminal,
           at : Worker \cup {Nothing}, again : BOOLEAN]
\* A runtime asks for a job, runs its handler, posts the result or has ended.
RunState == [at : {"none", "asking", "running", "posting", "ended"},
             job : Job \cup {Nothing}, yield : 1..Yields + 1,
             result : {"COMPLETED", "FAILED"}, stopPod : BOOLEAN, tries : 0..Tries]
Resting(where) == [at |-> where, job |-> Nothing, yield |-> 1, result |-> "FAILED",
                   stopPod |-> FALSE, tries |-> 0]
Chunk(w, j, y) == [kind |-> "chunk", w |-> w, j |-> j, yield |-> y]
Result(w, j, status, stopPod) ==
  [kind |-> "result", w |-> w, j |-> j, status |-> status, stopPod |-> stopPod]

Init ==
  /\ job = [j \in Job |-> [status |-> "IN_QUEUE", at |-> Nothing, again |-> FALSE]]
  /\ stream = [j \in Job |-> <<>>]
  /\ worker = [w \in Worker |-> "none"] /\ run = [w \in Worker |-> Resting("none")]
  /\ late = {} /\ read = [j \in Job |-> 0] /\ told = {} /\ refused = {} /\ faults = 0

TypeOK ==
  /\ job \in [Job -> JobRow] /\ stream \in [Job -> Seq(Worker \X (1..Yields))]
  /\ worker \in [Worker -> {"none", "serving", "stopping", "gone"}]
  /\ run \in [Worker -> RunState]
  /\ late \subseteq {Chunk(w, j, y) : w \in Worker, j \in Job, y \in 1..Yields}
       \cup {Result(w, j, s, b) : w \in Worker, j \in Job, s \in {"COMPLETED", "FAILED"},
                                 b \in BOOLEAN}
  /\ read \in [Job -> Nat] /\ told \subseteq Job
  /\ refused \subseteq Job \X Worker /\ faults \in Nat

Fails == faults < MaxFaults /\ faults' = faults + 1
Queue == {j \in Job : job[j].status = "IN_QUEUE"}
Ends(j, status) == job' = [job EXCEPT ![j].status = status]
Stops(w) == worker' = [worker EXCEPT ![w] = IF @ = "serving" THEN "stopping" ELSE @]
Goes(w, state) == run' = [run EXCEPT ![w] = state]

-----------------------------------------------------------------------------
(* What the gateway does with a call when it arrives.                        *)

\* JobDoneHandler: the worker is let in, the job is assigned to it, and it is
\* still in progress; a call that fails one of these changes nothing.
(* Fault for FinishedIsRead: calls for a finished job count. *)
AcceptsAny(w, j) == worker[w] = "serving" /\ job[j].at = w
Accepts(w, j) ==
  worker[w] = "serving" /\ job[j].at = w /\ job[j].status = "IN_PROGRESS"

\* A chunk is appended; over a limit it ends the job.
ChunkArrives(w, j, y) ==
  IF ~Accepts(w, j) THEN UNCHANGED <<job, stream, worker>>
  ELSE \/ stream' = [stream EXCEPT ![j] = Append(@, <<w, y>>)] /\ UNCHANGED <<job, worker>>
       \/ Ends(j, "FAILED") /\ UNCHANGED <<stream, worker>>

\* A result ends the job, and over a limit fails it; stopPod stops the worker.
ResultArrives(w, j, status, stopPod) ==
  /\ UNCHANGED stream
  /\ IF ~Accepts(w, j) THEN UNCHANGED <<job, worker>>
     ELSE \/ /\ Ends(j, status)
             /\ IF stopPod THEN Stops(w) ELSE UNCHANGED worker
          \/ Ends(j, "FAILED") /\ UNCHANGED worker

Arrives(m) ==
  \/ m.kind = "chunk" /\ ChunkArrives(m.w, m.j, m.yield)
  \/ m.kind = "result" /\ ResultArrives(m.w, m.j, m.status, m.stopPod)

\* What the runtime gives up arrived, will arrive, or never does.
GivenUp(m) ==
  \/ Arrives(m) /\ UNCHANGED late
  \/ late' = late \cup {m} /\ UNCHANGED <<job, stream, worker>>
  \/ UNCHANGED <<job, stream, worker, late>>

LateArrives(m) ==
  /\ late' = late \ {m} /\ Arrives(m)
  /\ UNCHANGED <<run, read, told, refused, faults>>

-----------------------------------------------------------------------------
(* The runtime: start, _run_job and _stream.                                 *)

Starts(w) ==
  /\ worker[w] = "none"
  /\ worker' = [worker EXCEPT ![w] = "serving"] /\ Goes(w, Resting("asking"))
  /\ UNCHANGED <<job, stream, late, read, told, refused, faults>>

HandsOut(w, j) ==
  /\ worker[w] = "serving" /\ j \in Queue /\ \A i \in Queue : j <= i
  /\ job' = [job EXCEPT ![j].status = "IN_PROGRESS", ![j].at = w]

Takes(w, j) ==
  /\ run[w].at = "asking" /\ HandsOut(w, j)
  /\ Goes(w, [Resting("running") EXCEPT !.job = j])
  /\ UNCHANGED <<stream, worker, late, read, told, refused, faults>>

\* A poll whose connection has broken still takes the job, and its answer is
\* lost; the runtime has asked again meanwhile, or runs another job.
TakesInVain(w, j) ==
  /\ run[w].at # "none" /\ HandsOut(w, j) /\ Fails
  /\ UNCHANGED <<stream, worker, run, late, read, told, refused>>

\* 410
Leaves(w) ==
  /\ run[w].at = "asking" /\ worker[w] # "serving" /\ Goes(w, Resting("ended"))
  /\ UNCHANGED <<job, stream, worker, late, read, told, refused, faults>>

Posting(w, result, stopPod) ==
  [run[w] EXCEPT !.at = "posting", !.result = result, !.stopPod = stopPod]
Onwards(w) == [run[w] EXCEPT !.yield = @ + 1]

\* _stream: every answer is the same to it, a refusal (not JSON, too large by
\* itself, a server error) too; no answer raises in the handler's loop, and
\* _run_job makes that the job's error.
(* Fault for WholeStream: _stream tries only its best. *)
StreamsAnyway(w) ==
  LET r == run[w]
  IN /\ r.at = "running" /\ r.yield <= Yields
     /\ \/ /\ ChunkArrives(w, r.job, r.yield) /\ Goes(w, Onwards(w))
           /\ UNCHANGED <<late, refused, faults>>
        \/ /\ Fails /\ UNCHANGED <<job, stream, worker, late>> /\ Goes(w, Onwards(w))
           /\ refused' = refused \cup {<<r.job, w>>}
        \/ /\ Fails /\ GivenUp(Chunk(w, r.job, r.yield)) /\ Goes(w, Onwards(w))
           /\ UNCHANGED refused
     /\ UNCHANGED <<read, told>>
Streams(w) ==
  LET r == run[w]
  IN /\ r.at = "running" /\ r.yield <= Yields
     /\ \/ /\ ChunkArrives(w, r.job, r.yield) /\ Goes(w, Onwards(w))
           /\ UNCHANGED <<late, refused, faults>>
        \/ /\ Fails /\ UNCHANGED <<job, stream, worker, late>> /\ Goes(w, Onwards(w))
           /\ refused' = refused \cup {<<r.job, w>>}
        \/ /\ Fails /\ GivenUp(Chunk(w, r.job, r.yield))
           /\ \E b \in BOOLEAN : Goes(w, Posting(w, "FAILED", b))
           /\ UNCHANGED refused
     /\ UNCHANGED <<read, told>>

\* The handler returns after its last yield, or raises or returns an error.
HandlerEnds(w) ==
  /\ run[w].at = "running"
  /\ \E result \in {"COMPLETED", "FAILED"}, stopPod \in BOOLEAN :
       /\ result = "COMPLETED" => run[w].yield = Yields + 1
       /\ Goes(w, Posting(w, result, stopPod))
  /\ UNCHANGED <<job, stream, worker, late, read, told, refused, faults>>

\* After the result, unless it was asked to stop. A result refused as it is (not
\* JSON) is not posted again; a server error counts as no answer.
GoesOn(w) == Goes(w, Resting(IF run[w].stopPod THEN "ended" ELSE "asking"))

Posts(w) ==
  LET r == run[w]
  IN /\ r.at = "posting"
     /\ \/ /\ ResultArrives(w, r.job, r.result, r.stopPod) /\ GoesOn(w)
           /\ UNCHANGED <<late, faults>>
        \/ /\ Fails /\ UNCHANGED <<job, stream, worker, late>> /\ GoesOn(w)
        \/ /\ Fails /\ GivenUp(Result(w, r.job, r.result, r.stopPod))
           /\ IF r.tries + 1 = Tries THEN GoesOn(w)
                                     ELSE Goes(w, [r EXCEPT !.tries = @ + 1])
     /\ UNCHANGED <<read, told, refused>>

-----------------------------------------------------------------------------
(* The gateway's own steps, its customers and Kubernetes.                    *)

\* CancelHandler, and the execution timeout.
Abandoned(j, status) ==
  /\ job[j].status \notin Terminal /\ Ends(j, status)
  /\ IF job[j].status = "IN_PROGRESS" THEN Stops(job[j].at) ELSE UNCHANGED worker
  /\ UNCHANGED <<stream, run, late, read, told, refused, faults>>

\* Scaled down, idle, out of credit.
StopsWorker(w) ==
  /\ worker[w] = "serving" /\ Stops(w)
  /\ UNCHANGED <<job, stream, run, late, read, told, refused, faults>>

PodEnds(w) ==
  /\ run[w].at \notin {"none", "ended"} /\ Goes(w, Resting("ended"))
  /\ UNCHANGED <<job, stream, worker, late, read, told, refused, faults>>

\* worker_gone, for a worker whose pod has ended.
(* Fault for ImplementsJobs: a job goes back to the queue however often it was there. *)
WorkerGoneReturnsAll(w) ==
  /\ run[w].at = "ended" /\ worker[w] # "gone"
  /\ worker' = [worker EXCEPT ![w] = "gone"]
  /\ job' = [j \in Job |->
       IF job[j].at # w \/ job[j].status # "IN_PROGRESS" THEN job[j]
       ELSE [status |-> "IN_QUEUE", at |-> Nothing, again |-> TRUE]]
  /\ UNCHANGED <<stream, run, late, read, told, refused, faults>>
WorkerGone(w) ==
  /\ run[w].at = "ended" /\ worker[w] # "gone"
  /\ worker' = [worker EXCEPT ![w] = "gone"]
  /\ job' = [j \in Job |->
       IF job[j].at # w \/ job[j].status # "IN_PROGRESS" THEN job[j]
       ELSE IF job[j].again THEN [job[j] EXCEPT !.status = "FAILED"]
       ELSE [status |-> "IN_QUEUE", at |-> Nothing, again |-> TRUE]]
  /\ UNCHANGED <<stream, run, late, read, told, refused, faults>>

\* StreamHandler: the status, and the chunks not yet read.
Reads(j) ==
  /\ read' = [read EXCEPT ![j] = Len(stream[j])]
  /\ told' = IF job[j].status \in Terminal THEN told \cup {j} ELSE told
  /\ UNCHANGED <<job, stream, worker, run, late, refused, faults>>

-----------------------------------------------------------------------------
RuntimeStep(w) ==
  \/ Starts(w) \/ Leaves(w) \/ Streams(w) \/ HandlerEnds(w) \/ Posts(w)
  \/ \E j \in Job : Takes(w, j) \/ TakesInVain(w, j)

GatewayStep ==
  \/ \E w \in Worker : StopsWorker(w) \/ WorkerGone(w)
  \/ \E j \in Job, status \in {"CANCELLED", "TIMED_OUT"} : Abandoned(j, status)
  \/ \E j \in Job : Reads(j)

Next ==
  \/ \E w \in Worker : RuntimeStep(w) \/ PodEnds(w)
  \/ \E m \in late : LateArrives(m)
  \/ GatewayStep

Spec == Init /\ [][Next]_vars

-----------------------------------------------------------------------------
\* With its late and repeated calls too, a job is handed out, returned and
\* finished as JobLifecycle says: a result is not taken twice, nor from a worker
\* that lost the job.
Lifecycle == INSTANCE JobLifecycle WITH
  status <- [j \in Job |-> job[j].status],
  returned <- {j \in Job : job[j].again}
ImplementsJobs == Lifecycle!Spec

\* The chunks of w in the stream s are its first n yields, once and in order.
FirstYields(s, w, n) ==
  LET Of == {i \in DOMAIN s : s[i][1] = w}
  IN /\ \A y \in 1..n : \E i \in Of : s[i][2] = y
     /\ \A i \in Of : s[i][2] \in 1..n
     /\ \A i, k \in Of : i < k => s[i][2] < s[k][2]

\* A job that completed has every yield of the run that completed it in its
\* stream, once and in order, although calls were lost, delayed and repeated
\* and an earlier worker died on it ("each yield is streamed"); a chunk that was
\* answered with a refusal of it is the one exception.
WholeStream ==
  \A j \in Job :
    job[j].status = "COMPLETED" /\ <<j, job[j].at>> \notin refused =>
      FirstYields(stream[j], job[j].at, Yields)

\* A customer who was told that the job is finished has read all there will be
\* of its stream, whichever calls of the runtime arrive after that.
FinishedIsRead == \A j \in told : read[j] = Len(stream[j])
=============================================================================
