---------------------------- MODULE RuntimeProofs ----------------------------
(* Theorems about streams and results, for any number of jobs, workers, yields *)
(* and lost calls.                                                            *)
EXTENDS Runtime, TLAPS

Typed ==
  /\ TypeOK
  /\ \A j \in Queue : job[j].at = Nothing
  /\ \A w \in Worker : /\ run[w].at \in {"running", "posting"} => run[w].job \in Job
                       /\ run[w].tries < Tries

\* Whoever was told of a finished job has read a stream that is not appended to.
ToldAll == \A j \in told : job[j].status \in Terminal /\ read[j] = Len(stream[j])

(***************************************************************************)
(* Who has something to do with a job: its chunks, its late calls, its run. *)
(***************************************************************************)
LateOf(w, j) == {m \in late : m.w = w /\ m.j = j}
Touches(w, j) ==
  \/ \E i \in DOMAIN stream[j] : stream[j][i][1] = w
  \/ LateOf(w, j) # {}
  \/ run[w].job = j
\* A worker keeps its job until it is gone, and does not come back to it.
Keeps == \A w \in Worker, j \in Job : Touches(w, j) => job[j].at = w \/ worker[w] = "gone"

(***************************************************************************)
(* What a result that says COMPLETED vouches for, while it would be taken.  *)
(***************************************************************************)
LateChunk(w, j) == \E m \in LateOf(w, j) : m.kind = "chunk"
LateDone(w, j) == \E m \in LateOf(w, j) : m.kind = "result" /\ m.status = "COMPLETED"
Runs(w, j, at) == run[w].job = j /\ run[w].at = at
Done(w, j) == LateDone(w, j) \/ (Runs(w, j, "posting") /\ run[w].result = "COMPLETED")
Vouches(w, j) ==
  /\ Runs(w, j, "running") => FirstYields(stream[j], w, run[w].yield - 1) /\ LateOf(w, j) = {}
  /\ Done(w, j) => FirstYields(stream[j], w, Yields) /\ ~LateChunk(w, j)
InOrder == \A w \in Worker, j \in Job : Accepts(w, j) /\ <<j, w>> \notin refused => Vouches(w, j)

(***************************************************************************)
(* What a call does to the tables when it arrives, if anything.             *)
(***************************************************************************)
Tables == <<job, stream, worker>>
Appends(w, j, y) ==
  /\ Accepts(w, j) /\ stream' = [stream EXCEPT ![j] = Append(@, <<w, y>>)]
  /\ UNCHANGED <<job, worker>>
Finishes(w, j, status) ==
  /\ Accepts(w, j) /\ job' = [job EXCEPT ![j].status = status] /\ UNCHANGED stream
  /\ UNCHANGED worker \/ Stops(w)
Effect(m) ==
  \/ ~Accepts(m.w, m.j) /\ UNCHANGED Tables
  \/ m.kind = "chunk" /\ Appends(m.w, m.j, m.yield)
  \/ m.kind = "chunk" /\ Finishes(m.w, m.j, "FAILED")
  \/ m.kind = "result" /\ \E s \in {m.status, "FAILED"} : Finishes(m.w, m.j, s)

Message == {Chunk(w, j, y) : w \in Worker, j \in Job, y \in 1..Yields}
             \cup {Result(w, j, s, b) : w \in Worker, j \in Job, s \in {"COMPLETED", "FAILED"},
                                       b \in BOOLEAN}

LEMMA MessageFields ==
  ASSUME NEW m \in Message
  PROVE  /\ m.w \in Worker /\ m.j \in Job /\ m.kind \in {"chunk", "result"}
         /\ m.kind = "chunk" => m.yield \in 1..Yields
         /\ m.kind = "result" => m.status \in {"COMPLETED", "FAILED"}
<1>1. CASE m \in {Chunk(w, j, y) : w \in Worker, j \in Job, y \in 1..Yields}
  BY <1>1 DEF Chunk
<1>2. CASE m \in {Result(w, j, s, b) : w \in Worker, j \in Job, s \in {"COMPLETED", "FAILED"},
                                       b \in BOOLEAN}
  <2>1. PICK w \in Worker, j \in Job, s \in {"COMPLETED", "FAILED"}, b \in BOOLEAN :
          m = Result(w, j, s, b)
    BY <1>2
  <2>2. m.w = w /\ m.j = j /\ m.kind = "result" /\ m.status = s
    BY <2>1, Zenon DEF Result
  <2> QED
    BY <2>2
<1> QED
  BY <1>1, <1>2 DEF Message

LEMMA ChunkFields ==
  ASSUME NEW w \in Worker, NEW j \in Job, NEW y \in 1..Yields
  PROVE  /\ Chunk(w, j, y) \in Message /\ Chunk(w, j, y).kind = "chunk"
         /\ Chunk(w, j, y).w = w /\ Chunk(w, j, y).j = j /\ Chunk(w, j, y).yield = y
BY DEF Chunk, Message

LEMMA ResultFields ==
  ASSUME NEW w \in Worker, NEW j \in Job, NEW s \in {"COMPLETED", "FAILED"}, NEW b \in BOOLEAN
  PROVE  /\ Result(w, j, s, b) \in Message /\ Result(w, j, s, b).kind = "result"
         /\ Result(w, j, s, b).w = w /\ Result(w, j, s, b).j = j
         /\ Result(w, j, s, b).status = s
<1>1. Result(w, j, s, b) \in Message
  <2>1. \E v \in Worker, i \in Job, st \in {"COMPLETED", "FAILED"}, c \in BOOLEAN :
          Result(w, j, s, b) = Result(v, i, st, c)
    BY Zenon
  <2> QED
    BY <2>1 DEF Message
<1>2. /\ Result(w, j, s, b).kind = "result" /\ Result(w, j, s, b).w = w
      /\ Result(w, j, s, b).j = j /\ Result(w, j, s, b).status = s
  BY Zenon DEF Result
<1> QED
  BY <1>1, <1>2

LEMMA ChunkEffect ==
  ASSUME NEW w, NEW j, NEW y, ChunkArrives(w, j, y)
  PROVE  \/ ~Accepts(w, j) /\ UNCHANGED Tables
         \/ Appends(w, j, y)
         \/ Finishes(w, j, "FAILED")
BY DEF ChunkArrives, Ends, Tables, Appends, Finishes

LEMMA ResultEffect ==
  ASSUME NEW w, NEW j, NEW status, NEW stopPod, ResultArrives(w, j, status, stopPod)
  PROVE  \/ ~Accepts(w, j) /\ UNCHANGED Tables
         \/ \E s \in {status, "FAILED"} : Finishes(w, j, s)
<1>1. CASE ~Accepts(w, j)
  BY <1>1 DEF ResultArrives, Tables
<1>2. CASE Accepts(w, j) /\ Ends(j, status) /\ UNCHANGED stream
           /\ (IF stopPod THEN Stops(w) ELSE UNCHANGED worker)
  BY <1>2 DEF Ends, Finishes
<1>3. CASE Accepts(w, j) /\ Ends(j, "FAILED") /\ UNCHANGED <<stream, worker>>
  BY <1>3 DEF Ends, Finishes
<1> QED
  BY <1>1, <1>2, <1>3 DEF ResultArrives

LEMMA Arrival ==
  ASSUME NEW m, Arrives(m)
  PROVE  Effect(m)
<1>1. CASE m.kind = "chunk" /\ ChunkArrives(m.w, m.j, m.yield)
  BY <1>1, ChunkEffect DEF Effect
<1>2. CASE m.kind = "result" /\ ResultArrives(m.w, m.j, m.status, m.stopPod)
  BY <1>2, ResultEffect DEF Effect
<1> QED
  BY <1>1, <1>2 DEF Arrives

(***************************************************************************)
(* Steps.                                                                  *)
(***************************************************************************)
\* A call about the job of a run: it has its effect, now or later, or none.
Sent(m) ==
  \/ Effect(m) /\ late' = late
  \/ UNCHANGED Tables /\ (late' = late \/ late' = late \cup {m})
SendsChunk(w) ==
  LET m == Chunk(w, run[w].job, run[w].yield)
  IN /\ Runs(w, run[w].job, "running") /\ run[w].yield <= Yields
     /\ \/ Effect(m) /\ late' = late /\ Goes(w, Onwards(w)) /\ UNCHANGED refused
        \/ /\ UNCHANGED <<Tables, late>> /\ Goes(w, Onwards(w))
           /\ refused' = refused \cup {<<run[w].job, w>>}
        \/ /\ Sent(m) /\ (\E b \in BOOLEAN : Goes(w, Posting(w, "FAILED", b)))
           /\ UNCHANGED refused
     /\ faults' \in Nat /\ UNCHANGED <<read, told>>
SendsResult(w) ==
  /\ Runs(w, run[w].job, "posting")
  /\ Sent(Result(w, run[w].job, run[w].result, run[w].stopPod))
  /\ GoesOn(w) \/ (run[w].tries + 1 # Tries /\ Goes(w, [run[w] EXCEPT !.tries = @ + 1]))
  /\ faults' \in Nat /\ UNCHANGED <<read, told, refused>>
Handed(w, j) ==
  /\ HandsOut(w, j) /\ UNCHANGED <<stream, worker, late, read, told, refused>>
  /\ faults' \in Nat
  /\ UNCHANGED run \/ (run[w].at = "asking" /\ Goes(w, [Resting("running") EXCEPT !.job = j]))
\* What a runtime does by itself.
Alone(w) ==
  /\ \/ Goes(w, Resting("ended"))
     \/ /\ run[w].at = "running"
        /\ \E result \in {"COMPLETED", "FAILED"}, b \in BOOLEAN :
             /\ result = "COMPLETED" => run[w].yield = Yields + 1
             /\ Goes(w, Posting(w, result, b))
  /\ UNCHANGED <<Tables, late, read, told, refused, faults>>

LEMMA Given ==
  ASSUME NEW m, GivenUp(m)
  PROVE  Sent(m)
<1>1. CASE Arrives(m) /\ UNCHANGED late
  BY <1>1, Arrival DEF Sent
<1>2. CASE UNCHANGED Tables /\ (late' = late \cup {m} \/ UNCHANGED late)
  BY <1>2 DEF Sent, Effect
<1> QED
  BY <1>1, <1>2 DEF GivenUp, Tables

LEMMA StreamsKind ==
  ASSUME Typed, NEW w \in Worker, Streams(w)
  PROVE  SendsChunk(w)
<1> DEFINE m == Chunk(w, run[w].job, run[w].yield)
<1>1. /\ run[w].at = "running" /\ run[w].yield <= Yields /\ run[w].job \in Job
      /\ run[w].yield \in 1..Yields
  BY RuntimeAssumption DEF Streams, Typed, TypeOK, RunState
<1>2. faults' \in Nat /\ UNCHANGED <<read, told>>
  BY DEF Streams, Fails, Typed, TypeOK
<1>3. m.kind = "chunk" /\ m.w = w /\ m.j = run[w].job /\ m.yield = run[w].yield
  BY <1>1, ChunkFields
<1>4. ASSUME ChunkArrives(w, run[w].job, run[w].yield), UNCHANGED late
      PROVE  Effect(m)
  <2>1. \/ ~Accepts(w, run[w].job) /\ UNCHANGED Tables
        \/ Appends(w, run[w].job, run[w].yield)
        \/ Finishes(w, run[w].job, "FAILED")
    BY <1>4, ChunkEffect
  <2> HIDE DEF m
  <2> QED
    BY <2>1, <1>3, <1>4 DEF Effect
<1> HIDE DEF m
<1>5. CASE ChunkArrives(w, run[w].job, run[w].yield) /\ Goes(w, Onwards(w))
           /\ UNCHANGED <<late, refused, faults>>
  BY <1>1, <1>2, <1>4, <1>5 DEF SendsChunk, Runs, m
<1>6. CASE /\ UNCHANGED <<job, stream, worker, late>> /\ Goes(w, Onwards(w))
           /\ refused' = refused \cup {<<run[w].job, w>>}
  BY <1>1, <1>2, <1>6 DEF SendsChunk, Runs, Tables
<1>7. CASE /\ GivenUp(m) /\ (\E b \in BOOLEAN : Goes(w, Posting(w, "FAILED", b)))
           /\ UNCHANGED refused
  BY <1>1, <1>2, <1>7, Given DEF SendsChunk, Runs, m
<1> QED
  BY <1>5, <1>6, <1>7 DEF Streams, m

LEMMA PostsKind ==
  ASSUME Typed, NEW w \in Worker, Posts(w)
  PROVE  SendsResult(w)
<1> DEFINE m == Result(w, run[w].job, run[w].result, run[w].stopPod)
<1>1. /\ run[w].at = "posting" /\ run[w].job \in Job
      /\ run[w].result \in {"COMPLETED", "FAILED"}
  BY DEF Posts, Typed, TypeOK, RunState
<1>a. run[w].stopPod \in BOOLEAN
  <2>1. run[w] \in RunState
    BY DEF Typed, TypeOK
  <2> QED
    BY <2>1, Zenon DEF RunState
<1>2. faults' \in Nat /\ UNCHANGED <<read, told, refused>>
  BY DEF Posts, Fails, Typed, TypeOK
<1>3. m.kind = "result" /\ m.w = w /\ m.j = run[w].job /\ m.status = run[w].result
  BY <1>1, <1>a, ResultFields
<1>4. ASSUME ResultArrives(w, run[w].job, run[w].result, run[w].stopPod), UNCHANGED late
      PROVE  Sent(m)
  <2>1. \/ ~Accepts(w, run[w].job) /\ UNCHANGED Tables
        \/ \E s \in {run[w].result, "FAILED"} : Finishes(w, run[w].job, s)
    BY <1>4, ResultEffect
  <2> HIDE DEF m
  <2> QED
    BY <2>1, <1>3, <1>4 DEF Sent, Effect
<1> HIDE DEF m
<1>5. CASE ResultArrives(w, run[w].job, run[w].result, run[w].stopPod) /\ GoesOn(w)
           /\ UNCHANGED late
  BY <1>1, <1>2, <1>4, <1>5 DEF SendsResult, Runs, m
<1>6. CASE UNCHANGED <<job, stream, worker, late>> /\ GoesOn(w)
  <2>1. Sent(m)
    BY <1>6 DEF Sent, Effect, Tables
  <2> QED
    BY <1>1, <1>2, <1>6, <2>1 DEF SendsResult, Runs, m
<1>7. CASE /\ GivenUp(m)
           /\ IF run[w].tries + 1 = Tries THEN GoesOn(w)
                                          ELSE Goes(w, [run[w] EXCEPT !.tries = @ + 1])
  BY <1>1, <1>2, <1>7, Given DEF SendsResult, Runs, m
<1> QED
  BY <1>5, <1>6, <1>7 DEF Posts, m

\* Every step is a call, a job handed out, or something else of one side alone.
LEMMA StepKinds ==
  ASSUME Typed, [Next]_vars
  PROVE  \/ UNCHANGED vars
         \/ \E w \in Worker : Starts(w) \/ Alone(w) \/ SendsChunk(w) \/ SendsResult(w)
         \/ \E w \in Worker, j \in Job : Handed(w, j)
         \/ \E m \in late : LateArrives(m)
         \/ \E w \in Worker : StopsWorker(w) \/ WorkerGone(w)
         \/ \E j \in Job, status \in {"CANCELLED", "TIMED_OUT"} : Abandoned(j, status)
         \/ \E j \in Job : Reads(j)
<1>1. ASSUME NEW w \in Worker, Leaves(w) \/ HandlerEnds(w) \/ PodEnds(w)
      PROVE  Alone(w)
  BY <1>1 DEF Leaves, HandlerEnds, PodEnds, Alone, Tables
<1>2. ASSUME NEW w \in Worker, NEW j \in Job, Takes(w, j) \/ TakesInVain(w, j)
      PROVE  Handed(w, j)
  BY <1>2 DEF Takes, TakesInVain, Handed, Fails, Typed, TypeOK
<1> QED
  BY <1>1, <1>2, StreamsKind, PostsKind DEF Next, RuntimeStep, GatewayStep

LEMMA MessagesTyped == ASSUME Typed PROVE late \subseteq Message
BY DEF Typed, TypeOK, Message

\* Whether a job was returned to the queue.
Retried(r) == r.again

\* Records with one part changed.
LEMMA StatusSet ==
  ASSUME NEW a, NEW b, NEW c, NEW s
  PROVE  [[status |-> a, at |-> b, again |-> c] EXCEPT !.status = s]
           = [status |-> s, at |-> b, again |-> c]
OBVIOUS

LEMMA RowTyped ==
  ASSUME NEW r \in JobRow, NEW s \in Terminal
  PROVE  /\ [r EXCEPT !.status = s] \in JobRow
         /\ [r EXCEPT !.status = s].status = s /\ [r EXCEPT !.status = s].at = r.at
         /\ Retried([r EXCEPT !.status = s]) <=> Retried(r)
<1>1. PICK a \in {"IN_QUEUE", "IN_PROGRESS"} \cup Terminal, b \in Worker \cup {Nothing},
           c \in BOOLEAN : r = [status |-> a, at |-> b, again |-> c]
  BY Zenon DEF JobRow
<1>2. [r EXCEPT !.status = s] = [status |-> s, at |-> b, again |-> c]
  <2>1. [r EXCEPT !.status = s] = [[status |-> a, at |-> b, again |-> c] EXCEPT !.status = s]
    BY <1>1, Zenon
  <2>2. [[status |-> a, at |-> b, again |-> c] EXCEPT !.status = s]
          = [status |-> s, at |-> b, again |-> c]
    BY StatusSet
  <2> QED
    BY <2>1, <2>2, Zenon
<1>3. [status |-> s, at |-> b, again |-> c] \in JobRow
  BY Zenon DEF JobRow
<1>4. /\ [status |-> s, at |-> b, again |-> c].status = s
      /\ [status |-> s, at |-> b, again |-> c].at = r.at
  BY <1>1, Zenon
<1>5. Retried([r EXCEPT !.status = s]) <=> Retried(r)
  <2>1. [status |-> s, at |-> b, again |-> c].again = r.again
    BY <1>1, Zenon
  <2> QED
    BY <1>2, <2>1, Zenon DEF Retried
<1> QED
  BY <1>2, <1>3, <1>4, <1>5, Zenon

LEMMA RunSet ==
  ASSUME NEW a, NEW j, NEW y, NEW q, NEW p, NEW t, NEW result, NEW b
  PROVE  [[at |-> a, job |-> j, yield |-> y, result |-> q, stopPod |-> p, tries |-> t]
             EXCEPT !.at = "posting", !.result = result, !.stopPod = b]
           = [at |-> "posting", job |-> j, yield |-> y, result |-> result, stopPod |-> b,
              tries |-> t]
<1> DEFINE r(x, u, v) ==
             [at |-> x, job |-> j, yield |-> y, result |-> u, stopPod |-> v, tries |-> t]
<1>1. [r(a, q, p) EXCEPT !.at = "posting", !.result = result, !.stopPod = b]
        = [[[r(a, q, p) EXCEPT !.at = "posting"] EXCEPT !.result = result] EXCEPT !.stopPod = b]
  BY Zenon
<1>2. [r(a, q, p) EXCEPT !.at = "posting"] = r("posting", q, p)
  OBVIOUS
<1>3. [r("posting", q, p) EXCEPT !.result = result] = r("posting", result, p)
  OBVIOUS
<1>4. [r("posting", result, p) EXCEPT !.stopPod = b] = r("posting", result, b)
  OBVIOUS
<1> HIDE DEF r
<1>5. [r(a, q, p) EXCEPT !.at = "posting", !.result = result, !.stopPod = b]
        = r("posting", result, b)
  BY <1>1, <1>2, <1>3, <1>4, Zenon
<1> QED
  BY <1>5 DEF r

\* What an arrival does to the types.
LEMMA EffectTyped ==
  ASSUME Typed, NEW m \in Message, Effect(m)
  PROVE  /\ job' \in [Job -> JobRow] /\ stream' \in [Job -> Seq(Worker \X (1..Yields))]
         /\ worker' \in [Worker -> {"none", "serving", "stopping", "gone"}]
         /\ \A j \in Queue' : job'[j].at = Nothing
<1>1. /\ m.w \in Worker /\ m.j \in Job
      /\ m.kind = "chunk" => m.yield \in 1..Yields
      /\ m.kind = "result" => m.status \in {"COMPLETED", "FAILED"}
  BY MessageFields
<1>2. CASE UNCHANGED Tables
  BY <1>2 DEF Tables, Typed, TypeOK, Queue
<1>3. CASE m.kind = "chunk" /\ Appends(m.w, m.j, m.yield)
  <2>1. stream[m.j] \in Seq(Worker \X (1..Yields)) /\ <<m.w, m.yield>> \in Worker \X (1..Yields)
    BY <1>1, <1>3 DEF Typed, TypeOK
  <2>2. Append(stream[m.j], <<m.w, m.yield>>) \in Seq(Worker \X (1..Yields))
    BY <2>1
  <2> QED
    BY <1>1, <1>3, <2>2 DEF Appends, Typed, TypeOK, Queue
<1>4. ASSUME NEW s \in {"COMPLETED", "FAILED"}, Finishes(m.w, m.j, s)
      PROVE  /\ job' \in [Job -> JobRow] /\ stream' \in [Job -> Seq(Worker \X (1..Yields))]
             /\ worker' \in [Worker -> {"none", "serving", "stopping", "gone"}]
             /\ \A j \in Queue' : job'[j].at = Nothing
  <2>1. job' = [job EXCEPT ![m.j] = [job[m.j] EXCEPT !.status = s]]
    BY <1>1, <1>4 DEF Finishes, Typed, TypeOK
  <2>2. [job[m.j] EXCEPT !.status = s] \in JobRow /\ [job[m.j] EXCEPT !.status = s].status = s
    <3>1. job[m.j] \in JobRow /\ s \in Terminal
      BY <1>1 DEF Typed, TypeOK, Terminal
    <3> QED
      BY <3>1, RowTyped, Zenon
  <2>3. job' \in [Job -> JobRow]
    <3>1. job \in [Job -> JobRow]
      BY DEF Typed, TypeOK
    <3> QED
      BY <1>1, <2>1, <2>2, <3>1, Zenon
  <2>4. worker' \in [Worker -> {"none", "serving", "stopping", "gone"}] /\ stream' = stream
    <3>1. worker \in [Worker -> {"none", "serving", "stopping", "gone"}]
      BY DEF Typed, TypeOK
    <3> QED
      BY <1>1, <1>4, <3>1 DEF Finishes, Stops
  <2>5. job'[m.j].status = s
    BY <1>1, <2>1, <2>2 DEF Typed, TypeOK
  <2> QED
    BY <2>1, <2>3, <2>4, <2>5 DEF Typed, TypeOK, Queue
<1> QED
  BY <1>1, <1>2, <1>3, <1>4 DEF Effect

\* A run that goes on: the parts of a record change.
RunOK(r) == /\ r \in RunState /\ r.tries < Tries
            /\ r.at \in {"running", "posting"} => r.job \in Job

LEMMA RestingOK ==
  ASSUME NEW where \in {"none", "asking", "ended"}
  PROVE  RunOK(Resting(where)) /\ Resting(where).job = Nothing /\ Resting(where).at = where
<1> DEFINE r == Resting(where)
<1>1. r.stopPod = FALSE /\ r.at = where /\ r.job = Nothing /\ r.tries = 0
  BY DEF Resting
<1>2. r \in RunState
  <2>1. FALSE \in BOOLEAN /\ 1 \in 1..Yields + 1 /\ 0 \in 0..Tries
    BY RuntimeAssumption
  <2> QED
    BY <2>1, Zenon DEF Resting, RunState
<1> QED
  BY <1>1, <1>2, RuntimeAssumption DEF RunOK

LEMMA RunsTyped ==
  ASSUME Typed, NEW w \in Worker, NEW r, RunOK(r), run' = [run EXCEPT ![w] = r]
  PROVE  /\ run' \in [Worker -> RunState]
         /\ \A v \in Worker : /\ run'[v].at \in {"running", "posting"} => run'[v].job \in Job
                              /\ run'[v].tries < Tries
BY DEF Typed, TypeOK, RunOK

LEMMA PostingOK ==
  ASSUME Typed, NEW w \in Worker, run[w].at = "running", NEW result \in {"COMPLETED", "FAILED"},
         NEW b \in BOOLEAN
  PROVE  RunOK(Posting(w, result, b))
<1>1. RunOK(run[w]) /\ run[w] \in RunState
  BY DEF Typed, TypeOK, RunOK
<1>2. Posting(w, result, b) \in RunState
  <2>1. PICK a \in {"none", "asking", "running", "posting", "ended"}, j \in Job \cup {Nothing},
             y \in 1..Yields + 1, q \in {"COMPLETED", "FAILED"}, p \in BOOLEAN, t \in 0..Tries :
          run[w] = [at |-> a, job |-> j, yield |-> y, result |-> q, stopPod |-> p, tries |-> t]
    BY <1>1, Zenon DEF RunState
  <2>2. Posting(w, result, b) = [at |-> "posting", job |-> j, yield |-> y,
                                 result |-> result, stopPod |-> b, tries |-> t]
    <3>1. Posting(w, result, b)
            = [[at |-> a, job |-> j, yield |-> y, result |-> q, stopPod |-> p, tries |-> t]
                  EXCEPT !.at = "posting", !.result = result, !.stopPod = b]
      BY <2>1, Zenon DEF Posting
    <3> QED
      BY <3>1, RunSet
  <2>3. "posting" \in {"none", "asking", "running", "posting", "ended"}
    OBVIOUS
  <2>4. [at |-> "posting", job |-> j, yield |-> y, result |-> result, stopPod |-> b, tries |-> t]
          \in RunState
    BY <2>3, Zenon DEF RunState
  <2> QED
    BY <2>2, <2>4, Zenon
<1>3. Posting(w, result, b).job = run[w].job /\ Posting(w, result, b).tries = run[w].tries
  BY <1>1 DEF Posting, RunState
<1> QED
  BY <1>1, <1>2, <1>3 DEF RunOK

\* The next yield, the next try and the next job.
LEMMA YieldSet ==
  ASSUME NEW a, NEW j, NEW y, NEW q, NEW p, NEW t, NEW n
  PROVE  /\ [[at |-> a, job |-> j, yield |-> y, result |-> q, stopPod |-> p, tries |-> t]
                EXCEPT !.yield = n]
              = [at |-> a, job |-> j, yield |-> n, result |-> q, stopPod |-> p, tries |-> t]
         /\ [[at |-> a, job |-> j, yield |-> y, result |-> q, stopPod |-> p, tries |-> t]
                EXCEPT !.tries = n]
              = [at |-> a, job |-> j, yield |-> y, result |-> q, stopPod |-> p, tries |-> n]
         /\ [[at |-> a, job |-> j, yield |-> y, result |-> q, stopPod |-> p, tries |-> t]
                EXCEPT !.job = n]
              = [at |-> a, job |-> n, yield |-> y, result |-> q, stopPod |-> p, tries |-> t]
OBVIOUS

LEMMA RunTyped ==
  ASSUME NEW r \in RunState
  PROVE  /\ \A n \in 1..Yields + 1 : [r EXCEPT !.yield = n] \in RunState
         /\ \A n \in 0..Tries : [r EXCEPT !.tries = n] \in RunState
         /\ \A n \in Job : [r EXCEPT !.job = n] \in RunState
<1>1. PICK a \in {"none", "asking", "running", "posting", "ended"}, j \in Job \cup {Nothing},
           y \in 1..Yields + 1, q \in {"COMPLETED", "FAILED"}, p \in BOOLEAN, t \in 0..Tries :
        r = [at |-> a, job |-> j, yield |-> y, result |-> q, stopPod |-> p, tries |-> t]
  BY Zenon DEF RunState
<1> DEFINE full == [at |-> a, job |-> j, yield |-> y, result |-> q, stopPod |-> p, tries |-> t]
<1>2. ASSUME NEW n \in 1..Yields + 1
      PROVE  [r EXCEPT !.yield = n] \in RunState
  <2>1. [r EXCEPT !.yield = n] = [full EXCEPT !.yield = n]
    BY <1>1, Zenon
  <2>2. [full EXCEPT !.yield = n]
          = [at |-> a, job |-> j, yield |-> n, result |-> q, stopPod |-> p, tries |-> t]
    BY YieldSet
  <2>3. [at |-> a, job |-> j, yield |-> n, result |-> q, stopPod |-> p, tries |-> t] \in RunState
    BY Zenon DEF RunState
  <2> QED
    BY <2>1, <2>2, <2>3, Zenon
<1>3. ASSUME NEW n \in 0..Tries
      PROVE  [r EXCEPT !.tries = n] \in RunState
  <2>1. [r EXCEPT !.tries = n] = [full EXCEPT !.tries = n]
    BY <1>1, Zenon
  <2>2. [full EXCEPT !.tries = n]
          = [at |-> a, job |-> j, yield |-> y, result |-> q, stopPod |-> p, tries |-> n]
    BY YieldSet
  <2>3. [at |-> a, job |-> j, yield |-> y, result |-> q, stopPod |-> p, tries |-> n] \in RunState
    BY Zenon DEF RunState
  <2> QED
    BY <2>1, <2>2, <2>3, Zenon
<1>4. ASSUME NEW n \in Job
      PROVE  [r EXCEPT !.job = n] \in RunState
  <2>1. [r EXCEPT !.job = n] = [full EXCEPT !.job = n]
    BY <1>1, Zenon
  <2>2. [full EXCEPT !.job = n]
          = [at |-> a, job |-> n, yield |-> y, result |-> q, stopPod |-> p, tries |-> t]
    BY YieldSet
  <2>3. [at |-> a, job |-> n, yield |-> y, result |-> q, stopPod |-> p, tries |-> t] \in RunState
    <3>1. n \in Job \cup {Nothing}
      OBVIOUS
    <3> QED
      BY <3>1, Zenon DEF RunState
  <2> QED
    BY <2>1, <2>2, <2>3, Zenon
<1> QED
  BY <1>2, <1>3, <1>4

LEMMA NextRunOK ==
  ASSUME Typed, NEW w \in Worker
  PROVE  /\ run[w].yield <= Yields /\ run[w].at = "running" => RunOK(Onwards(w))
         /\ run[w].tries + 1 # Tries => RunOK([run[w] EXCEPT !.tries = @ + 1])
         /\ \A j \in Job : RunOK([Resting("running") EXCEPT !.job = j])
<1>1. run[w] \in RunState /\ RunOK(run[w])
  BY DEF Typed, TypeOK, RunOK
<1>2. ASSUME run[w].yield <= Yields, run[w].at = "running"
      PROVE  RunOK(Onwards(w))
  <2>1. run[w].yield + 1 \in 1..Yields + 1
    BY <1>1, <1>2, RuntimeAssumption DEF RunState
  <2>2. Onwards(w) \in RunState
    BY <1>1, <2>1, RunTyped, Zenon DEF Onwards
  <2>3. /\ Onwards(w).at = run[w].at /\ Onwards(w).job = run[w].job
        /\ Onwards(w).tries = run[w].tries
    BY <1>1 DEF Onwards, RunState
  <2> QED
    BY <1>1, <2>2, <2>3 DEF RunOK
<1>3. ASSUME run[w].tries + 1 # Tries
      PROVE  RunOK([run[w] EXCEPT !.tries = @ + 1])
  <2>1. run[w].tries \in Nat /\ run[w].tries + 1 \in 0..Tries /\ run[w].tries + 1 < Tries
    BY <1>1, <1>3, RuntimeAssumption DEF RunState, RunOK
  <2>2. [run[w] EXCEPT !.tries = @ + 1] \in RunState
    BY <1>1, <2>1, RunTyped, Zenon
  <2>3. /\ [run[w] EXCEPT !.tries = @ + 1].at = run[w].at
        /\ [run[w] EXCEPT !.tries = @ + 1].job = run[w].job
        /\ [run[w] EXCEPT !.tries = @ + 1].tries = run[w].tries + 1
    BY <1>1 DEF RunState
  <2> QED
    BY <1>1, <2>1, <2>2, <2>3 DEF RunOK
<1>4. ASSUME NEW j \in Job
      PROVE  RunOK([Resting("running") EXCEPT !.job = j])
  <2>1. Resting("running") \in RunState
    <3>1. FALSE \in BOOLEAN /\ 1 \in 1..Yields + 1 /\ 0 \in 0..Tries
      BY RuntimeAssumption
    <3> QED
      BY <3>1, Zenon DEF Resting, RunState
  <2>2. [Resting("running") EXCEPT !.job = j] \in RunState
    BY <2>1, RunTyped
  <2>3. /\ [Resting("running") EXCEPT !.job = j].job = j
        /\ [Resting("running") EXCEPT !.job = j].tries = 0
    BY DEF Resting
  <2> QED
    BY <2>2, <2>3, RuntimeAssumption DEF RunOK
<1> QED
  BY <1>2, <1>3, <1>4

\* Rows of jobs: handed out, returned or given up.
LEMMA PlaceTyped ==
  ASSUME NEW r \in JobRow, NEW w \in Worker
  PROVE  /\ [[r EXCEPT !.status = "IN_PROGRESS"] EXCEPT !.at = w] \in JobRow
         /\ [[r EXCEPT !.status = "IN_PROGRESS"] EXCEPT !.at = w].status = "IN_PROGRESS"
         /\ [[r EXCEPT !.status = "IN_PROGRESS"] EXCEPT !.at = w].at = w
         /\ Retried([[r EXCEPT !.status = "IN_PROGRESS"] EXCEPT !.at = w]) <=> Retried(r)
<1>1. PICK a \in {"IN_QUEUE", "IN_PROGRESS"} \cup Terminal, b \in Worker \cup {Nothing},
           c \in BOOLEAN : r = [status |-> a, at |-> b, again |-> c]
  BY Zenon DEF JobRow
<1> DEFINE row(x, y) == [status |-> x, at |-> y, again |-> c]
<1>2. [row(a, b) EXCEPT !.status = "IN_PROGRESS"] = row("IN_PROGRESS", b)
  OBVIOUS
<1>3. [row("IN_PROGRESS", b) EXCEPT !.at = w] = row("IN_PROGRESS", w)
  OBVIOUS
<1>4. row("IN_PROGRESS", w) \in JobRow
  <2>1. "IN_PROGRESS" \in {"IN_QUEUE", "IN_PROGRESS"} \cup Terminal /\ w \in Worker \cup {Nothing}
    OBVIOUS
  <2> QED
    BY <2>1, Zenon DEF JobRow
<1>5. row("IN_PROGRESS", w).status = "IN_PROGRESS" /\ row("IN_PROGRESS", w).at = w
  BY Zenon
<1>6. r = row(a, b)
  BY <1>1
<1>7. Retried(row("IN_PROGRESS", w)) <=> Retried(row(a, b))
  <2>1. row("IN_PROGRESS", w).again = c /\ row(a, b).again = c
    BY Zenon
  <2> QED
    BY <2>1, Zenon DEF Retried
<1> HIDE DEF row
<1> QED
  BY <1>2, <1>3, <1>4, <1>5, <1>6, <1>7, Zenon

LEMMA HandedRow ==
  ASSUME Typed, NEW w \in Worker, NEW j \in Job, HandsOut(w, j)
  PROVE  /\ job' \in [Job -> JobRow] /\ job'[j].status = "IN_PROGRESS" /\ job'[j].at = w
         /\ Retried(job'[j]) <=> Retried(job[j])
         /\ \A i \in Job : i # j => job'[i] = job[i]
<1> DEFINE first == [job EXCEPT ![j] = [job[j] EXCEPT !.status = "IN_PROGRESS"]]
           row == [[job[j] EXCEPT !.status = "IN_PROGRESS"] EXCEPT !.at = w]
<1>1. job \in [Job -> JobRow] /\ job[j] \in JobRow
  BY DEF Typed, TypeOK
<1>2. job' = [first EXCEPT ![j] = [first[j] EXCEPT !.at = w]]
  BY <1>1 DEF HandsOut
<1>3. first[j] = [job[j] EXCEPT !.status = "IN_PROGRESS"] /\ DOMAIN first = Job
      /\ \A i \in Job : i # j => first[i] = job[i]
  BY <1>1
<1>4. /\ row \in JobRow /\ row.status = "IN_PROGRESS" /\ row.at = w
      /\ Retried(row) <=> Retried(job[j])
  BY <1>1, PlaceTyped
<1>5. job' = [i \in Job |-> IF i = j THEN row ELSE job[i]]
  <2>1. [first[j] EXCEPT !.at = w] = row
    BY <1>3, Zenon
  <2> HIDE DEF first, row
  <2>2. job' = [i \in Job |-> IF i = j THEN row ELSE first[i]]
    BY <1>2, <1>3, <2>1
  <2> QED
    BY <1>3, <2>2
<1> HIDE DEF row
<1> QED
  BY <1>1, <1>4, <1>5

LEMMA GoneRow ==
  ASSUME Typed, NEW w \in Worker, WorkerGone(w), NEW j \in Job
  PROVE  /\ job'[j] \in JobRow
         /\ \/ job'[j] = job[j]
            \/ /\ job[j].status = "IN_PROGRESS" /\ job[j].at = w
               /\ \/ /\ job'[j].status = "FAILED" /\ job'[j].at = w
                     /\ Retried(job'[j]) <=> Retried(job[j])
                  \/ /\ job'[j].status = "IN_QUEUE" /\ job'[j].at = Nothing
                     /\ ~Retried(job[j]) /\ Retried(job'[j])
<1>1. job[j] \in JobRow
  BY DEF Typed, TypeOK
<1>2. CASE job[j].at # w \/ job[j].status # "IN_PROGRESS"
  BY <1>1, <1>2 DEF WorkerGone
<1>3. CASE job[j].at = w /\ job[j].status = "IN_PROGRESS" /\ job[j].again
  <2>1. job'[j] = [job[j] EXCEPT !.status = "FAILED"]
    BY <1>3, Zenon DEF WorkerGone
  <2>2. "FAILED" \in Terminal
    BY DEF Terminal
  <2> QED
    <3> DEFINE row == [job[j] EXCEPT !.status = "FAILED"]
    <3>1. /\ row \in JobRow /\ row.status = "FAILED" /\ row.at = job[j].at
          /\ Retried(row) <=> Retried(job[j])
      BY <1>1, <2>2, RowTyped, Zenon
    <3>2. job'[j] = row
      BY <2>1
    <3> HIDE DEF row
    <3> QED
      BY <1>3, <3>1, <3>2, Zenon
<1>4. CASE job[j].at = w /\ job[j].status = "IN_PROGRESS" /\ ~job[j].again
  <2>1. job'[j] = [status |-> "IN_QUEUE", at |-> Nothing, again |-> TRUE]
    BY <1>4, Zenon DEF WorkerGone
  <2>2. "IN_QUEUE" \in {"IN_QUEUE", "IN_PROGRESS"} \cup Terminal
        /\ Nothing \in Worker \cup {Nothing} /\ TRUE \in BOOLEAN
    OBVIOUS
  <2>3. [status |-> "IN_QUEUE", at |-> Nothing, again |-> TRUE] \in JobRow
    BY <2>2, Zenon DEF JobRow
  <2>4. job'[j].status = "IN_QUEUE" /\ job'[j].at = Nothing
    <3>1. /\ [status |-> "IN_QUEUE", at |-> Nothing, again |-> TRUE].status = "IN_QUEUE"
          /\ [status |-> "IN_QUEUE", at |-> Nothing, again |-> TRUE].at = Nothing
      BY Zenon
    <3> QED
      BY <2>1, <3>1, Zenon
  <2>5. ~Retried(job[j]) /\ Retried(job'[j])
    <3>1. [status |-> "IN_QUEUE", at |-> Nothing, again |-> TRUE].again = TRUE
      BY Zenon
    <3> QED
      BY <1>4, <2>1, <3>1, Zenon DEF Retried
  <2> QED
    BY <1>4, <2>1, <2>3, <2>4, <2>5, Zenon
<1> QED
  BY <1>2, <1>3, <1>4, Zenon

LEMMA AbandonedRow ==
  ASSUME Typed, NEW j \in Job, NEW status \in {"CANCELLED", "TIMED_OUT"}, Abandoned(j, status)
  PROVE  /\ job' \in [Job -> JobRow] /\ job[j].status \notin Terminal
         /\ job'[j].status = status /\ job'[j].at = job[j].at
         /\ Retried(job'[j]) <=> Retried(job[j])
         /\ \A i \in Job : i # j => job'[i] = job[i]
<1>1. job \in [Job -> JobRow] /\ job[j] \in JobRow /\ status \in Terminal
  BY DEF Typed, TypeOK, Terminal
<1>2. job' = [job EXCEPT ![j] = [job[j] EXCEPT !.status = status]] /\ job[j].status \notin Terminal
  BY DEF Abandoned, Ends
<1> DEFINE row == [job[j] EXCEPT !.status = status]
<1>3. /\ row \in JobRow /\ row.status = status /\ row.at = job[j].at
      /\ Retried(row) <=> Retried(job[j])
  BY <1>1, RowTyped, Zenon
<1> HIDE DEF row
<1> QED
  BY <1>1, <1>2, <1>3 DEF row

LEMMA StopsTyped ==
  ASSUME Typed, NEW w, Stops(w)
  PROVE  /\ worker' \in [Worker -> {"none", "serving", "stopping", "gone"}]
         /\ \A v \in Worker : \/ worker'[v] = worker[v]
                              \/ worker[v] = "serving" /\ worker'[v] = "stopping"
<1>1. worker \in [Worker -> {"none", "serving", "stopping", "gone"}]
  BY DEF Typed, TypeOK
<1>2. CASE w \in Worker
  BY <1>1, <1>2 DEF Stops
<1>3. CASE w \notin Worker
  <2>1. worker' = worker
    BY <1>1, <1>3 DEF Stops
  <2> QED
    BY <1>1, <2>1
<1> QED
  BY <1>2, <1>3

TablesTyped ==
  /\ job \in [Job -> JobRow] /\ stream \in [Job -> Seq(Worker \X (1..Yields))]
  /\ worker \in [Worker -> {"none", "serving", "stopping", "gone"}]
  /\ \A j \in Queue : job[j].at = Nothing
RunsAreTyped ==
  /\ run \in [Worker -> RunState]
  /\ \A w \in Worker : /\ run[w].at \in {"running", "posting"} => run[w].job \in Job
                       /\ run[w].tries < Tries
RestTyped ==
  /\ late \subseteq Message /\ read \in [Job -> Nat] /\ told \subseteq Job
  /\ refused \subseteq Job \X Worker /\ faults \in Nat

LEMMA TypedParts == Typed <=> TablesTyped /\ RunsAreTyped /\ RestTyped
<1>1. Typed => TablesTyped
  BY DEF Typed, TypeOK, TablesTyped
<1>2. Typed => RunsAreTyped
  BY DEF Typed, TypeOK, RunsAreTyped
<1>3. Typed => RestTyped
  BY DEF Typed, TypeOK, RestTyped, Message
<1>4. TablesTyped /\ RunsAreTyped /\ RestTyped => TypeOK
  BY DEF TypeOK, TablesTyped, RunsAreTyped, RestTyped, Message
<1>5. TablesTyped /\ RunsAreTyped => \A j \in Queue : job[j].at = Nothing
  BY DEF TablesTyped
<1> QED
  BY <1>1, <1>2, <1>3, <1>4, <1>5 DEF Typed, RunsAreTyped

LEMMA NextTypedParts == TablesTyped' /\ RunsAreTyped' /\ RestTyped' => Typed'
<1>1. TablesTyped' /\ RunsAreTyped' /\ RestTyped' => TypeOK'
  BY DEF TypeOK, TablesTyped, RunsAreTyped, RestTyped, Message
<1>2. TablesTyped' => \A j \in Queue' : job'[j].at = Nothing
  BY DEF TablesTyped
<1> QED
  BY <1>1, <1>2 DEF Typed, RunsAreTyped

LEMMA SameTables == ASSUME TablesTyped, UNCHANGED Tables PROVE TablesTyped'
BY DEF TablesTyped, Tables, Queue

LEMMA RunChanges ==
  ASSUME Typed, NEW w \in Worker, NEW r, RunOK(r), Goes(w, r)
  PROVE  RunsAreTyped'
BY RunsTyped DEF Goes, RunsAreTyped

LEMMA EffectTables ==
  ASSUME Typed, NEW m \in Message, Effect(m)
  PROVE  TablesTyped'
BY EffectTyped DEF TablesTyped

\* The message of a run, and what it sends.
LEMMA RunMessage ==
  ASSUME Typed, NEW w \in Worker
  PROVE  /\ SendsChunk(w) =>
              LET m == Chunk(w, run[w].job, run[w].yield)
              IN m \in Message /\ m.kind = "chunk" /\ m.w = w /\ m.j = run[w].job
                   /\ m.yield = run[w].yield
         /\ SendsResult(w) =>
              LET m == Result(w, run[w].job, run[w].result, run[w].stopPod)
              IN m \in Message /\ m.kind = "result" /\ m.w = w /\ m.j = run[w].job
                   /\ m.status = run[w].result
<1>1. run[w] \in RunState
  BY DEF Typed, TypeOK
<1>2. ASSUME SendsChunk(w)
      PROVE  run[w].job \in Job /\ run[w].yield \in 1..Yields
  BY <1>1, <1>2, RuntimeAssumption DEF SendsChunk, Runs, Typed, RunState
<1>3. ASSUME SendsResult(w)
      PROVE  run[w].job \in Job
  BY <1>3 DEF SendsResult, Runs, Typed
<1>4. run[w].result \in {"COMPLETED", "FAILED"}
  BY <1>1 DEF RunState
<1>5. run[w].stopPod \in BOOLEAN
  BY <1>1, Zenon DEF RunState
<1> QED
  BY <1>2, <1>3, <1>4, <1>5, ChunkFields, ResultFields

LEMMA TypedInductive == Typed /\ [Next]_vars => Typed'
<1> SUFFICES ASSUME Typed, [Next]_vars
             PROVE  Typed'
  OBVIOUS
<1>0. TablesTyped /\ RunsAreTyped /\ RestTyped
  BY TypedParts
<1>1. CASE UNCHANGED vars
  BY <1>1 DEF vars, Typed, TypeOK, Queue
<1>2. ASSUME NEW w \in Worker, Starts(w)
      PROVE  Typed'
  <2>1. RunsAreTyped'
    BY <1>2, RestingOK, RunChanges DEF Starts
  <2>2. TablesTyped' /\ RestTyped'
    BY <1>0, <1>2 DEF Starts, TablesTyped, RestTyped, Queue
  <2> QED
    BY <2>1, <2>2, NextTypedParts
<1>3. ASSUME NEW w \in Worker, Alone(w)
      PROVE  Typed'
  <2>1. RunsAreTyped'
    BY <1>3, RestingOK, PostingOK, RunChanges DEF Alone
  <2>2. TablesTyped' /\ RestTyped'
    BY <1>0, <1>3, SameTables DEF Alone, RestTyped
  <2> QED
    BY NextTypedParts, <2>1, <2>2
<1>4. ASSUME NEW w \in Worker, SendsChunk(w)
      PROVE  Typed'
  <2> DEFINE m == Chunk(w, run[w].job, run[w].yield)
  <2>1. m \in Message
    BY <1>4, RunMessage
  <2>2. run[w].at = "running" /\ run[w].yield <= Yields /\ run[w].job \in Job
    BY <1>4 DEF SendsChunk, Runs, Typed
  <2>3. \/ Goes(w, Onwards(w))
        \/ \E b \in BOOLEAN : Goes(w, Posting(w, "FAILED", b))
    BY <1>4 DEF SendsChunk
  <2>4. RunsAreTyped'
    BY <2>2, <2>3, NextRunOK, PostingOK, RunChanges
  <2>5. TablesTyped'
    BY <1>0, <1>4, <2>1, EffectTables, SameTables DEF SendsChunk, Sent
  <2>6. /\ late' = late \/ late' = late \cup {m}
        /\ refused' = refused \/ refused' = refused \cup {<<run[w].job, w>>}
        /\ faults' \in Nat /\ UNCHANGED <<read, told>>
    BY <1>4 DEF SendsChunk, Sent
  <2> HIDE DEF m
  <2>7. RestTyped'
    BY <1>0, <2>1, <2>2, <2>6 DEF RestTyped
  <2> QED
    BY NextTypedParts, <2>4, <2>5, <2>7
<1>5. ASSUME NEW w \in Worker, SendsResult(w)
      PROVE  Typed'
  <2> DEFINE m == Result(w, run[w].job, run[w].result, run[w].stopPod)
  <2>1. m \in Message
    BY <1>5, RunMessage
  <2>2. RunsAreTyped'
    <3>1. CASE GoesOn(w)
      <4>1. PICK where \in {"asking", "ended"} : Goes(w, Resting(where))
        BY <3>1 DEF GoesOn
      <4> QED
        BY <4>1, RestingOK, RunChanges
    <3>2. CASE run[w].tries + 1 # Tries /\ Goes(w, [run[w] EXCEPT !.tries = @ + 1])
      BY <3>2, NextRunOK, RunChanges
    <3> QED
      BY <1>5, <3>1, <3>2 DEF SendsResult
  <2>3. (Effect(m) \/ UNCHANGED Tables) /\ (late' = late \/ late' = late \cup {m})
        /\ faults' \in Nat /\ UNCHANGED <<read, told, refused>>
    BY <1>5 DEF SendsResult, Sent
  <2> HIDE DEF m
  <2>4. TablesTyped' /\ RestTyped'
    BY <1>0, <2>1, <2>3, EffectTables, SameTables DEF RestTyped
  <2> QED
    BY NextTypedParts, <2>2, <2>4
<1>6. ASSUME NEW w \in Worker, NEW j \in Job, Handed(w, j)
      PROVE  Typed'
  <2>1. RunsAreTyped'
    <3>1. CASE UNCHANGED run
      BY <1>0, <3>1 DEF RunsAreTyped
    <3>2. CASE Goes(w, [Resting("running") EXCEPT !.job = j])
      BY <3>2, NextRunOK, RunChanges
    <3> QED
      BY <1>6, <3>1, <3>2 DEF Handed
  <2>2. /\ job' \in [Job -> JobRow] /\ job'[j].status = "IN_PROGRESS"
        /\ \A i \in Job : i # j => job'[i] = job[i]
    BY <1>6, HandedRow DEF Handed
  <2>3. TablesTyped' /\ RestTyped'
    BY <1>0, <1>6, <2>2 DEF Handed, TablesTyped, RestTyped, Queue
  <2> QED
    BY NextTypedParts, <2>1, <2>3
<1>7. ASSUME NEW m \in late, LateArrives(m)
      PROVE  Typed'
  <2>1. m \in Message /\ Effect(m)
    BY <1>0, <1>7, Arrival DEF LateArrives, RestTyped
  <2>2. TablesTyped' /\ RunsAreTyped' /\ RestTyped'
    BY <1>0, <1>7, <2>1, EffectTables DEF LateArrives, RunsAreTyped, RestTyped
  <2> QED
    BY NextTypedParts, <2>2
<1>8. ASSUME NEW w \in Worker, StopsWorker(w)
      PROVE  Typed'
  <2>1. worker' \in [Worker -> {"none", "serving", "stopping", "gone"}]
    BY <1>8, StopsTyped DEF StopsWorker
  <2> QED
    BY <1>0, <1>8, NextTypedParts, <2>1 DEF StopsWorker, TablesTyped, RunsAreTyped, RestTyped, Queue
<1>9. ASSUME NEW w \in Worker, WorkerGone(w)
      PROVE  Typed'
  <2>1. \A j \in Job : job'[j] \in JobRow /\ (job'[j].status = "IN_QUEUE" => job'[j].at = Nothing)
    BY <1>0, <1>9, GoneRow DEF TablesTyped, Queue
  <2>2. DOMAIN job' = Job /\ job' = [j \in Job |-> job'[j]]
    BY <1>9 DEF WorkerGone
  <2>3. worker' \in [Worker -> {"none", "serving", "stopping", "gone"}]
    BY <1>0, <1>9 DEF WorkerGone, TablesTyped
  <2> QED
    BY <1>0, <1>9, NextTypedParts, <2>1, <2>2, <2>3
       DEF WorkerGone, TablesTyped, RunsAreTyped, RestTyped, Queue
<1>10. ASSUME NEW j \in Job, NEW status \in {"CANCELLED", "TIMED_OUT"}, Abandoned(j, status)
       PROVE  Typed'
  <2>1. /\ job' \in [Job -> JobRow] /\ job'[j].status = status
        /\ \A i \in Job : i # j => job'[i] = job[i]
    BY <1>10, AbandonedRow
  <2>2. worker' \in [Worker -> {"none", "serving", "stopping", "gone"}]
    BY <1>0, <1>10, StopsTyped DEF Abandoned, TablesTyped
  <2> QED
    BY <1>0, <1>10, NextTypedParts, <2>1, <2>2
       DEF Abandoned, TablesTyped, RunsAreTyped, RestTyped, Queue
<1>11. ASSUME NEW j \in Job, Reads(j)
       PROVE  Typed'
  <2>1. Len(stream[j]) \in Nat
    BY <1>0 DEF TablesTyped
  <2> QED
    BY <1>0, <1>11, NextTypedParts, <2>1 DEF Reads, TablesTyped, RunsAreTyped, RestTyped, Queue
<1> QED
  BY <1>1, <1>2, <1>3, <1>4, <1>5, <1>6, <1>7, <1>8, <1>9, <1>10, <1>11, StepKinds

LEMMA InitTyped == Init => Typed
<1> SUFFICES ASSUME Init
             PROVE  Typed
  OBVIOUS
<1>1. /\ job = [j \in Job |-> [status |-> "IN_QUEUE", at |-> Nothing, again |-> FALSE]]
      /\ run = [w \in Worker |-> Resting("none")]
  BY DEF Init
<1>2. [status |-> "IN_QUEUE", at |-> Nothing, again |-> FALSE] \in JobRow
  <2>1. "IN_QUEUE" \in {"IN_QUEUE", "IN_PROGRESS"} \cup Terminal
        /\ Nothing \in Worker \cup {Nothing} /\ FALSE \in BOOLEAN
    OBVIOUS
  <2> QED
    BY <2>1, Zenon DEF JobRow
<1>3. job \in [Job -> JobRow] /\ \A j \in Job : job[j].at = Nothing
  BY <1>1, <1>2
<1>4. RunsAreTyped
  BY <1>1, RestingOK DEF RunsAreTyped, RunOK
<1>5. TablesTyped /\ RestTyped
  <2>1. stream \in [Job -> Seq(Worker \X (1..Yields))] /\ read \in [Job -> Nat]
    BY DEF Init
  <2>2. /\ worker \in [Worker -> {"none", "serving", "stopping", "gone"}]
        /\ late = {} /\ told = {} /\ refused = {} /\ faults = 0
    BY DEF Init
  <2> QED
    BY <1>3, <2>1, <2>2 DEF TablesTyped, RestTyped, Queue
<1> QED
  BY <1>4, <1>5, TypedParts

\* Every reachable state is well typed.
THEOREM TypeCorrect == Spec => []TypeOK
<1>1. Typed => TypeOK
  BY DEF Typed
<1> QED
  BY <1>1, InitTyped, TypedInductive, PTL DEF Spec

LEMMA AlwaysTyped == Spec => []Typed
<1>1. Init => Typed
  BY InitTyped
<1> QED
  BY <1>1, TypedInductive, PTL DEF Spec

(***************************************************************************)
(* What a step does to one job and its stream.                             *)
(***************************************************************************)
Rests(j) == job'[j] = job[j] /\ stream'[j] = stream[j]
Over(j) ==
  /\ job[j].status \notin Terminal /\ job'[j].status \in Terminal
  /\ job'[j].at = job[j].at /\ stream'[j] = stream[j]
  /\ Retried(job'[j]) <=> Retried(job[j])
Handover(w, j) ==
  /\ worker[w] = "serving" /\ job[j].status = "IN_QUEUE"
  /\ job'[j].status = "IN_PROGRESS" /\ job'[j].at = w /\ stream'[j] = stream[j]
  /\ Retried(job'[j]) <=> Retried(job[j])
Returns(w, j) ==
  /\ job[j].status = "IN_PROGRESS" /\ job[j].at = w /\ worker'[w] = "gone"
  /\ job'[j].status = "IN_QUEUE" /\ job'[j].at = Nothing /\ stream'[j] = stream[j]
  /\ ~Retried(job[j]) /\ Retried(job'[j])
Grows(w, j) ==
  /\ Accepts(w, j) /\ job'[j] = job[j]
  /\ \E y \in 1..Yields : stream'[j] = Append(stream[j], <<w, y>>)
JobStep(j) ==
  Rests(j) \/ Over(j) \/ \E w \in Worker : Handover(w, j) \/ Returns(w, j) \/ Grows(w, j)

LEMMA FinishedRow ==
  ASSUME Typed, NEW w \in Worker, NEW j \in Job, NEW s \in {"COMPLETED", "FAILED"},
         Finishes(w, j, s)
  PROVE  /\ Over(j) /\ job'[j].status = s
         /\ \A i \in Job : i # j => job'[i] = job[i]
<1>1. job \in [Job -> JobRow] /\ job[j] \in JobRow /\ s \in Terminal
  BY DEF Typed, TypeOK, Terminal
<1> DEFINE row == [job[j] EXCEPT !.status = s]
<1>2. job' = [job EXCEPT ![j] = row] /\ stream' = stream /\ job[j].status = "IN_PROGRESS"
  BY DEF Finishes, Accepts
<1>3. /\ row \in JobRow /\ row.status = s /\ row.at = job[j].at
      /\ Retried(row) <=> Retried(job[j])
  BY <1>1, RowTyped, Zenon
<1> HIDE DEF row
<1>4. job'[j] = row /\ \A i \in Job : i # j => job'[i] = job[i]
  BY <1>1, <1>2
<1> QED
  BY <1>1, <1>2, <1>3, <1>4 DEF Over, Terminal

LEMMA EffectStep ==
  ASSUME Typed, NEW m \in Message, Effect(m), NEW j \in Job
  PROVE  /\ JobStep(j)
         /\ j # m.j => Rests(j)
         /\ m.kind = "result" => stream' = stream
<1>1. /\ m.w \in Worker /\ m.j \in Job
      /\ m.kind = "chunk" => m.yield \in 1..Yields
      /\ m.kind = "result" => m.status \in {"COMPLETED", "FAILED"}
      /\ m.kind \in {"chunk", "result"}
  BY MessageFields
<1>2. CASE UNCHANGED Tables
  BY <1>2 DEF Tables, JobStep, Rests
<1>3. CASE m.kind = "chunk" /\ Appends(m.w, m.j, m.yield)
  <2>1. stream \in [Job -> Seq(Worker \X (1..Yields))]
    BY DEF Typed, TypeOK
  <2>2. /\ j # m.j => Rests(j)
        /\ j = m.j => Grows(m.w, j)
    BY <1>1, <1>3, <2>1 DEF Appends, Rests, Grows
  <2> QED
    BY <1>1, <1>3, <2>2 DEF JobStep
<1>4. ASSUME NEW s \in {"COMPLETED", "FAILED"}, Finishes(m.w, m.j, s)
      PROVE  /\ JobStep(j) /\ (j # m.j => Rests(j)) /\ stream' = stream
  BY <1>1, <1>4, FinishedRow DEF Finishes, JobStep, Rests
<1> QED
  BY <1>1, <1>2, <1>3, <1>4 DEF Effect

LEMMA EveryJobStep ==
  ASSUME Typed, [Next]_vars, NEW j \in Job
  PROVE  JobStep(j)
<1>0. TablesTyped /\ RunsAreTyped /\ RestTyped
  BY TypedParts
<1>1. ASSUME NEW w \in Worker, SendsChunk(w)
      PROVE  JobStep(j)
  BY <1>1, RunMessage, EffectStep DEF SendsChunk, Sent, Tables, JobStep, Rests
<1>2. ASSUME NEW w \in Worker, SendsResult(w)
      PROVE  JobStep(j)
  BY <1>2, RunMessage, EffectStep DEF SendsResult, Sent, Tables, JobStep, Rests
<1>3. ASSUME NEW w \in Worker, NEW i \in Job, Handed(w, i)
      PROVE  JobStep(j)
  <2>1. /\ job'[i].status = "IN_PROGRESS" /\ job'[i].at = w /\ stream' = stream
        /\ Retried(job'[i]) <=> Retried(job[i])
        /\ \A k \in Job : k # i => job'[k] = job[k]
    BY <1>3, HandedRow DEF Handed
  <2>2. worker[w] = "serving" /\ job[i].status = "IN_QUEUE"
    BY <1>3 DEF Handed, HandsOut, Queue
  <2> QED
    BY <2>1, <2>2 DEF JobStep, Rests, Handover
<1>4. ASSUME NEW m \in late, LateArrives(m)
      PROVE  JobStep(j)
  BY <1>0, <1>4, Arrival, EffectStep DEF LateArrives, RestTyped
<1>5. ASSUME NEW w \in Worker, WorkerGone(w)
      PROVE  JobStep(j)
  <2>1. worker'[w] = "gone" /\ stream' = stream
    BY <1>0, <1>5 DEF WorkerGone, TablesTyped
  <2> QED
    BY <1>5, <2>1, GoneRow DEF JobStep, Rests, Over, Returns, Terminal
<1>6. ASSUME NEW i \in Job, NEW status \in {"CANCELLED", "TIMED_OUT"}, Abandoned(i, status)
      PROVE  JobStep(j)
  <2>1. stream' = stream /\ status \in Terminal
    BY <1>6 DEF Abandoned, Terminal
  <2> QED
    BY <1>6, <2>1, AbandonedRow DEF JobStep, Rests, Over
<1>7. ASSUME \/ UNCHANGED vars
             \/ \E w \in Worker : Starts(w) \/ Alone(w) \/ StopsWorker(w)
             \/ \E i \in Job : Reads(i)
      PROVE  JobStep(j)
  BY <1>7 DEF vars, Starts, Alone, StopsWorker, Reads, Tables, JobStep, Rests
<1> QED
  BY <1>1, <1>2, <1>3, <1>4, <1>5, <1>6, <1>7, StepKinds

\* A job goes through no other states here than in the gateway's control loop: it
\* is handed out from the queue, returned to it at most once, and finished once,
\* whichever calls are repeated or late.
THEOREM JobsLiveOnce == Spec => ImplementsJobs
<1>1. Init => Lifecycle!Init
  <2> SUFFICES ASSUME Init PROVE Lifecycle!Init
    OBVIOUS
  <2> DEFINE row == [status |-> "IN_QUEUE", at |-> Nothing, again |-> FALSE]
  <2>1. \A j \in Job : job[j] = row
    BY DEF Init
  <2>2. row.status = "IN_QUEUE" /\ row.again = FALSE
    BY Zenon
  <2> HIDE DEF row
  <2>3. \A j \in Job : job[j].status = "IN_QUEUE" /\ ~job[j].again
    BY <2>1, <2>2, Zenon
  <2> QED
    BY <2>3, Zenon DEF Lifecycle!Init
<1>2. ASSUME Typed, [Next]_vars
      PROVE  [Lifecycle!Next]_<<[j \in Job |-> job[j].status], {j \in Job : job[j].again}>>
  <2>1. ASSUME NEW j \in Job
        PROVE  \/ Lifecycle!Stays(j) \/ Lifecycle!Submitted(j) \/ Lifecycle!Handed(j)
               \/ Lifecycle!Finished(j) \/ Lifecycle!Requeued(j)
    <3>1. /\ job[j].status \in {"IN_QUEUE", "IN_PROGRESS"} \cup Terminal
      BY <1>2 DEF Typed, TypeOK, JobRow
    <3>2. /\ j \in {i \in Job : job[i].again} <=> Retried(job[j])
          /\ j \in {i \in Job : job'[i].again} <=> Retried(job'[j])
      BY Zenon DEF Retried
    <3>3. JobStep(j)
      BY <1>2, EveryJobStep
    <3>4. CASE job'[j] = job[j]
      BY <3>2, <3>4 DEF Lifecycle!Stays
    <3>5. CASE Over(j)
      BY <3>1, <3>2, <3>5 DEF Over, Terminal, Lifecycle!Finished, Lifecycle!Kept,
         Lifecycle!Unfinished, Lifecycle!Terminal
    <3>6. ASSUME NEW w \in Worker, Handover(w, j)
          PROVE  Lifecycle!Handed(j)
      BY <3>2, <3>6 DEF Handover, Lifecycle!Handed, Lifecycle!Kept
    <3>7. ASSUME NEW w \in Worker, Returns(w, j)
          PROVE  Lifecycle!Requeued(j)
      BY <3>2, <3>7 DEF Returns, Lifecycle!Requeued
    <3> QED
      BY <3>3, <3>4, <3>5, <3>6, <3>7 DEF JobStep, Rests, Grows
  <2> QED
    BY <2>1 DEF Lifecycle!Next
<1> QED
  BY <1>1, <1>2, AlwaysTyped, PTL DEF Spec, ImplementsJobs, Lifecycle!Spec

\* What customers read.
LEMMA ReadsAlone ==
  ASSUME Typed, [Next]_vars
  PROVE  UNCHANGED <<read, told>> \/ \E j \in Job : Reads(j)
BY StepKinds DEF vars, Starts, Alone, SendsChunk, SendsResult, Handed, LateArrives, StopsWorker,
                 WorkerGone, Abandoned

\* A customer who was told that a job is finished has read its whole stream, for
\* the stream of a finished job does not grow, whichever call arrives late.
THEOREM FinishedRead == Spec => []FinishedIsRead
<1>1. Init => ToldAll
  BY DEF Init, ToldAll
<1>2. Typed /\ ToldAll /\ [Next]_vars => ToldAll'
  <2> SUFFICES ASSUME Typed, ToldAll, [Next]_vars, NEW j \in told'
               PROVE  job'[j].status \in Terminal /\ read'[j] = Len(stream'[j])
    BY DEF ToldAll
  <2>0. told \subseteq Job /\ read \in [Job -> Nat]
    BY DEF Typed, TypeOK
  <2>1. ASSUME NEW i \in Job, job[i].status \in Terminal
        PROVE  Rests(i)
    BY <2>1, EveryJobStep DEF JobStep, Over, Handover, Returns, Grows, Accepts, Terminal
  <2>2. CASE UNCHANGED <<read, told>>
    BY <2>0, <2>1, <2>2 DEF ToldAll, Rests
  <2>3. ASSUME NEW i \in Job, Reads(i)
        PROVE  job'[j].status \in Terminal /\ read'[j] = Len(stream'[j])
    <3>1. job' = job /\ stream' = stream /\ read' = [read EXCEPT ![i] = Len(stream[i])]
      BY <2>3 DEF Reads
    <3>2. j \in told \/ (j = i /\ job[i].status \in Terminal)
      BY <2>3 DEF Reads
    <3> QED
      BY <2>0, <3>1, <3>2 DEF ToldAll
  <2> QED
    BY <2>2, <2>3, ReadsAlone
<1>3. ToldAll => FinishedIsRead
  BY DEF ToldAll, FinishedIsRead
<1> QED
  BY <1>1, <1>2, <1>3, AlwaysTyped, PTL DEF Spec

(***************************************************************************)
(* Workers keep their jobs.                                                *)
(***************************************************************************)
Begun == \A w \in Worker, j \in Job : job[j].at = w => worker[w] # "none"
Holding == Keeps /\ Begun

LEMMA WorkerStep ==
  ASSUME Typed, [Next]_vars, NEW w \in Worker
  PROVE  /\ worker[w] = "gone" => worker'[w] = "gone"
         /\ worker[w] # "none" => worker'[w] # "none"
         /\ worker'[w] = "serving" => worker[w] = "serving" \/ Starts(w)
<1>0. worker \in [Worker -> {"none", "serving", "stopping", "gone"}] /\ late \subseteq Message
  BY TypedParts DEF TablesTyped, RestTyped
<1>1. ASSUME NEW v, Stops(v) \/ UNCHANGED worker
      PROVE  worker'[w] = worker[w] \/ (worker[w] = "serving" /\ worker'[w] = "stopping")
  BY <1>1, StopsTyped
<1>2. ASSUME NEW m \in Message, Effect(m) \/ UNCHANGED Tables
      PROVE  worker'[w] = worker[w] \/ (worker[w] = "serving" /\ worker'[w] = "stopping")
  BY <1>1, <1>2 DEF Effect, Tables, Appends, Finishes
<1>3. CASE \E v \in Worker : SendsChunk(v) \/ SendsResult(v)
  BY <1>2, <1>3, RunMessage DEF SendsChunk, SendsResult, Sent, Tables
<1>4. CASE \E m \in late : LateArrives(m)
  BY <1>0, <1>2, <1>4, Arrival DEF LateArrives
<1>5. CASE \/ UNCHANGED vars
           \/ \E v \in Worker : Alone(v) \/ \E j \in Job : Handed(v, j)
           \/ \E j \in Job : Reads(j)
  BY <1>5 DEF vars, Alone, Tables, Handed, Reads
<1>6. CASE \E v \in Worker : StopsWorker(v)
  BY <1>1, <1>6 DEF StopsWorker
<1>7. CASE \E j \in Job, status \in {"CANCELLED", "TIMED_OUT"} : Abandoned(j, status)
  BY <1>1, <1>7 DEF Abandoned
<1>8. CASE \E v \in Worker : WorkerGone(v)
  BY <1>0, <1>8 DEF WorkerGone
<1>9. CASE \E v \in Worker : Starts(v)
  BY <1>0, <1>9 DEF Starts
<1> QED
  BY <1>3, <1>4, <1>5, <1>6, <1>7, <1>8, <1>9, StepKinds

\* The job of a run changes when the run ends or a job is handed out.
LEMMA RunJobStep ==
  ASSUME Typed, [Next]_vars, NEW w \in Worker
  PROVE  \/ run'[w].job \in {run[w].job, Nothing}
         \/ \E j \in Job : Handed(w, j) /\ run'[w].job = j
<1>0. run \in [Worker -> RunState]
  BY TypedParts DEF RunsAreTyped
<1>1. ASSUME NEW v \in Worker, NEW r, Goes(v, r), r.job \in {run[v].job, Nothing}
      PROVE  run'[w].job \in {run[w].job, Nothing}
  BY <1>0, <1>1 DEF Goes
<1>2. ASSUME NEW v \in Worker
      PROVE  /\ Onwards(v).job = run[v].job
             /\ \A result, b : Posting(v, result, b).job = run[v].job
             /\ [run[v] EXCEPT !.tries = @ + 1].job = run[v].job
  BY <1>0 DEF Onwards, Posting, RunState
<1>3. ASSUME NEW where PROVE Resting(where).job = Nothing
  BY DEF Resting
<1>4. ASSUME NEW v \in Worker, Starts(v) \/ Alone(v) \/ SendsChunk(v) \/ SendsResult(v)
      PROVE  run'[w].job \in {run[w].job, Nothing}
  <2>1. \/ \E where : Goes(v, Resting(where))
        \/ Goes(v, Onwards(v))
        \/ \E result, b : Goes(v, Posting(v, result, b))
        \/ Goes(v, [run[v] EXCEPT !.tries = @ + 1])
    BY <1>4 DEF Starts, Alone, SendsChunk, SendsResult, GoesOn
  <2>2. CASE \E where : Goes(v, Resting(where))
    BY <1>1, <1>3, <2>2
  <2>3. CASE Goes(v, Onwards(v))
    BY <1>1, <1>2, <2>3
  <2>4. CASE \E result, b : Goes(v, Posting(v, result, b))
    BY <1>1, <1>2, <2>4
  <2>5. CASE Goes(v, [run[v] EXCEPT !.tries = @ + 1])
    BY <1>1, <1>2, <2>5
  <2> QED
    BY <2>1, <2>2, <2>3, <2>4, <2>5
<1>5. ASSUME NEW v \in Worker, NEW j \in Job, Handed(v, j)
      PROVE  \/ run'[w].job = run[w].job
             \/ Handed(w, j) /\ run'[w].job = j
  <2>1. [Resting("running") EXCEPT !.job = j].job = j
    BY DEF Resting
  <2>2. CASE UNCHANGED run
    BY <2>2
  <2>3. CASE Goes(v, [Resting("running") EXCEPT !.job = j])
    BY <1>0, <1>5, <2>1, <2>3 DEF Goes
  <2> QED
    BY <1>5, <2>2, <2>3 DEF Handed
<1>6. CASE \/ UNCHANGED vars
           \/ \E m \in late : LateArrives(m)
           \/ \E v \in Worker : StopsWorker(v) \/ WorkerGone(v)
           \/ \E j \in Job, status \in {"CANCELLED", "TIMED_OUT"} : Abandoned(j, status)
           \/ \E j \in Job : Reads(j)
  BY <1>6 DEF vars, LateArrives, StopsWorker, WorkerGone, Abandoned, Reads
<1> QED
  BY <1>4, <1>5, <1>6, StepKinds

\* A call becomes late only from the run of its job.
LEMMA LateStep ==
  ASSUME Typed, [Next]_vars, NEW m \in late', m \notin late
  PROVE  /\ m.w \in Worker /\ run[m.w].job = m.j
         /\ \/ m.kind = "chunk" /\ SendsChunk(m.w)
            \/ m.kind = "result" /\ m.status = run[m.w].result /\ SendsResult(m.w)
<1>1. ASSUME NEW w \in Worker, SendsChunk(w)
      PROVE  m.kind = "chunk" /\ m.w = w /\ m.j = run[w].job
  BY <1>1, RunMessage DEF SendsChunk, Sent
<1>2. ASSUME NEW w \in Worker, SendsResult(w)
      PROVE  m.kind = "result" /\ m.w = w /\ m.j = run[w].job /\ m.status = run[w].result
  BY <1>2, RunMessage DEF SendsResult, Sent
<1>3. CASE \/ UNCHANGED vars
           \/ \E i \in late : LateArrives(i)
           \/ \E w \in Worker : \/ Starts(w) \/ Alone(w) \/ StopsWorker(w) \/ WorkerGone(w)
                                \/ \E j \in Job : Handed(w, j)
           \/ \E j \in Job, status \in {"CANCELLED", "TIMED_OUT"} : Abandoned(j, status)
           \/ \E j \in Job : Reads(j)
  BY <1>3 DEF vars, LateArrives, Starts, Alone, Handed, StopsWorker, WorkerGone, Abandoned, Reads
<1> QED
  BY <1>1, <1>2, <1>3, StepKinds

LEMMA HoldingInductive == Typed /\ Holding /\ [Next]_vars => Holding'
<1> SUFFICES ASSUME Typed, Holding, [Next]_vars, NEW w \in Worker, NEW j \in Job
             PROVE  /\ Touches(w, j)' => job'[j].at = w \/ worker'[w] = "gone"
                    /\ job'[j].at = w => worker'[w] # "none"
  BY DEF Holding, Keeps, Begun
<1>0. /\ \A i \in Queue : job[i].at = Nothing
      /\ stream[j] \in Seq(Worker \X (1..Yields)) /\ job[j] \in JobRow /\ w # Nothing
      /\ Nothing \notin Job
  BY RuntimeAssumption, TypedParts DEF TablesTyped
<1>1. JobStep(j)
  BY EveryJobStep
<1>2. job'[j].at = w => job[j].at = w \/ worker[w] = "serving"
  BY <1>0, <1>1 DEF JobStep, Rests, Over, Handover, Returns, Grows
<1>3. job[j].at = w => job'[j].at = w \/ worker'[w] = "gone"
  <2>1. ASSUME NEW v \in Worker, Handover(v, j), job[j].at = w
        PROVE  FALSE
    BY <1>0, <2>1 DEF Handover, Queue
  <2> QED
    BY <1>1, <2>1 DEF JobStep, Rests, Over, Returns, Grows
<1>4. Touches(w, j)' => Touches(w, j) \/ job'[j].at = w
  <2>1. ASSUME NEW i \in DOMAIN stream'[j], stream'[j][i][1] = w
        PROVE  Touches(w, j) \/ job'[j].at = w
    <3>1. CASE stream'[j] = stream[j]
      BY <2>1, <3>1 DEF Touches
    <3>2. ASSUME NEW v \in Worker, Grows(v, j)
          PROVE  Touches(w, j) \/ job'[j].at = w
      <4>1. PICK y \in 1..Yields : stream'[j] = Append(stream[j], <<v, y>>)
        BY <3>2 DEF Grows
      <4>2. CASE i = Len(stream[j]) + 1
        <5>1. stream'[j][i] = <<v, y>>
          BY <1>0, <4>1, <4>2
        <5> QED
          BY <2>1, <3>2, <5>1 DEF Grows, Accepts
      <4>3. CASE i # Len(stream[j]) + 1
        <5>1. i \in DOMAIN stream[j] /\ stream'[j][i] = stream[j][i]
          BY <1>0, <2>1, <4>1, <4>3
        <5> QED
          BY <2>1, <5>1 DEF Touches
      <4> QED
        BY <4>2, <4>3
    <3> QED
      BY <1>1, <3>1, <3>2 DEF JobStep, Rests, Over, Handover, Returns
  <2>2. ASSUME LateOf(w, j)' # {}
        PROVE  Touches(w, j)
    BY <2>2, LateStep DEF LateOf, Touches
  <2>3. ASSUME run'[w].job = j
        PROVE  Touches(w, j) \/ job'[j].at = w
    <3>1. run'[w].job \in {run[w].job, Nothing} \/ Handed(w, j)
      BY <2>3, RunJobStep
    <3>2. Handed(w, j) => job'[j].at = w
      BY HandedRow DEF Handed
    <3> QED
      BY <1>0, <2>3, <3>1, <3>2 DEF Touches
  <2> QED
    BY <2>1, <2>2, <2>3 DEF Touches
<1>5. CASE Touches(w, j)
  BY <1>2, <1>3, <1>5, WorkerStep DEF Holding, Keeps, Begun
<1>6. CASE ~Touches(w, j)
  BY <1>2, <1>4, <1>6, WorkerStep DEF Holding, Begun
<1> QED
  BY <1>5, <1>6

(***************************************************************************)
(* Streams.                                                                *)
(***************************************************************************)
LEMMA NoYields ==
  ASSUME NEW s, NEW w, \A i \in DOMAIN s : s[i][1] # w
  PROVE  FirstYields(s, w, 0)
BY DEF FirstYields

LEMMA OneMore ==
  ASSUME NEW s \in Seq(Worker \X (1..Yields)), NEW w, NEW n \in Nat, FirstYields(s, w, n)
  PROVE  FirstYields(Append(s, <<w, n + 1>>), w, n + 1)
<1> DEFINE t == Append(s, <<w, n + 1>>)
           Of == {i \in DOMAIN s : s[i][1] = w}
           More == {i \in DOMAIN t : t[i][1] = w}
<1>1. /\ Len(s) \in Nat /\ DOMAIN s = 1..Len(s) /\ DOMAIN t = 1..Len(s) + 1
      /\ \A i \in 1..Len(s) : t[i] = s[i]
      /\ t[Len(s) + 1] = <<w, n + 1>>
  OBVIOUS
<1> HIDE DEF t
<1>2. More = Of \cup {Len(s) + 1} /\ \A i \in Of : i < Len(s) + 1 /\ t[i] = s[i]
  BY <1>1
<1>3. /\ \A y \in 1..n : \E i \in Of : s[i][2] = y
      /\ \A i \in Of : s[i][2] \in 1..n
      /\ \A i, k \in Of : i < k => s[i][2] < s[k][2]
  BY DEF FirstYields
<1>4. t[Len(s) + 1][2] = n + 1
  BY <1>1
<1> HIDE DEF Of, More
<1>5. ASSUME NEW y \in 1..n + 1
      PROVE  \E i \in More : t[i][2] = y
  <2>1. CASE y \in 1..n
    BY <1>2, <1>3, <2>1
  <2>2. CASE y = n + 1
    BY <1>2, <1>4, <2>2
  <2> QED
    BY <2>1, <2>2
<1>6. \A i \in More : t[i][2] \in 1..n + 1
  BY <1>2, <1>3, <1>4
<1>7. ASSUME NEW i \in More, NEW k \in More, i < k
      PROVE  t[i][2] < t[k][2]
  <2>1. i \in Of
    BY <1>1, <1>2, <1>7 DEF Of
  <2>2. CASE k \in Of
    BY <1>2, <1>3, <1>7, <2>1, <2>2
  <2>3. CASE k = Len(s) + 1
    BY <1>2, <1>3, <1>4, <2>1, <2>3
  <2> QED
    BY <1>2, <2>2, <2>3
<1> QED
  BY <1>5, <1>6, <1>7 DEF FirstYields, t, More

\* A worker's calls about other jobs, and others' calls, leave its stream alone.
LEMMA ForeignEffect ==
  ASSUME Typed, NEW m \in Message, Effect(m) \/ UNCHANGED Tables, NEW w \in Worker, NEW j \in Job,
         job[j].at = w, m.w # w \/ m.j # j \/ m.kind = "result"
  PROVE  stream'[j] = stream[j]
<1>1. m.j # j \/ m.kind = "result" => stream'[j] = stream[j]
  BY EffectStep DEF Rests, Tables
<1>2. CASE m.j = j /\ m.w # w
  BY <1>2 DEF Effect, Tables, Appends, Finishes, Accepts
<1> QED
  BY <1>1, <1>2


\* Only a job that is handed out begins to be accepted from its worker.
LEMMA NewlyAccepted ==
  ASSUME Typed, Holding, [Next]_vars, NEW w \in Worker, NEW j \in Job,
         Accepts(w, j)', ~Accepts(w, j)
  PROVE  Handed(w, j)
<1>0. /\ \A i \in Queue : job[i].at = Nothing
      /\ w # Nothing /\ late \subseteq Message
      /\ worker \in [Worker -> {"none", "serving", "stopping", "gone"}]
  BY RuntimeAssumption, TypedParts DEF TablesTyped, RestTyped
<1>1. worker'[w] = "serving" /\ job'[j].at = w /\ job'[j].status = "IN_PROGRESS"
  BY DEF Accepts
<1>2. ASSUME job'[j] = job[j]
      PROVE  FALSE
  <2>1. worker[w] # "none"
    BY <1>1, <1>2 DEF Holding, Begun
  <2> QED
    BY <1>1, <1>2, <2>1, WorkerStep DEF Accepts, Starts
<1>3. ASSUME NEW m \in Message, Effect(m) \/ UNCHANGED Tables
      PROVE  job'[j] = job[j] \/ job'[j].status \in Terminal
  <2>1. m.w \in Worker /\ m.j \in Job /\ (m.kind = "result" => m.status \in {"COMPLETED", "FAILED"})
    BY MessageFields
  <2>2. ASSUME NEW s \in {"COMPLETED", "FAILED"}, Finishes(m.w, m.j, s)
        PROVE  job'[j] = job[j] \/ job'[j].status \in Terminal
    BY <2>1, <2>2, FinishedRow DEF Over
  <2> QED
    BY <1>3, <2>1, <2>2 DEF Effect, Tables, Appends
<1>4. CASE \E v \in Worker : SendsChunk(v) \/ SendsResult(v)
  BY <1>1, <1>2, <1>3, <1>4, RunMessage DEF SendsChunk, SendsResult, Sent, Tables, Terminal
<1>5. CASE \E m \in late : LateArrives(m)
  BY <1>0, <1>1, <1>2, <1>3, <1>5, Arrival DEF LateArrives, Terminal
<1>6. ASSUME NEW v \in Worker, NEW i \in Job, Handed(v, i)
      PROVE  Handed(w, j)
  <2>1. /\ job'[i].at = v /\ \A k \in Job : k # i => job'[k] = job[k]
    BY <1>6, HandedRow DEF Handed
  <2>2. i = j /\ v = w
    BY <1>1, <1>2, <2>1
  <2> QED
    BY <1>6, <2>2
<1>7. CASE \E v \in Worker : WorkerGone(v)
  BY <1>1, <1>2, <1>7, GoneRow
<1>8. CASE \E i \in Job, status \in {"CANCELLED", "TIMED_OUT"} : Abandoned(i, status)
  BY <1>1, <1>2, <1>8, AbandonedRow
<1>9. CASE \/ UNCHANGED vars
           \/ \E v \in Worker : Starts(v) \/ Alone(v) \/ StopsWorker(v)
           \/ \E i \in Job : Reads(i)
  BY <1>2, <1>9 DEF vars, Starts, Alone, StopsWorker, Reads, Tables
<1> QED
  BY <1>4, <1>5, <1>6, <1>7, <1>8, <1>9, StepKinds

\* A job that is handed out finds nothing of its worker.
LEMMA HandedVouches ==
  ASSUME Typed, Holding, NEW w \in Worker, NEW j \in Job, Handed(w, j)
  PROVE  Vouches(w, j)'
<1>1. /\ worker[w] = "serving" /\ job[j].at = Nothing /\ w # Nothing /\ late' = late
      /\ stream' = stream
  BY RuntimeAssumption, TypedParts DEF Handed, HandsOut, TablesTyped
<1>2. ~Touches(w, j)
  BY <1>1 DEF Holding, Keeps
<1>3. LateOf(w, j)' = {} /\ FirstYields(stream'[j], w, 0)
  BY <1>1, <1>2, NoYields DEF Touches, LateOf
<1>4. ~LateDone(w, j)' /\ ~LateChunk(w, j)'
  BY <1>3 DEF LateDone, LateChunk
<1>5. CASE UNCHANGED run
  BY <1>2, <1>4, <1>5 DEF Touches, Vouches, Done, Runs
<1>6. CASE Goes(w, [Resting("running") EXCEPT !.job = j])
  <2>1. run'[w].yield = 1 /\ run'[w].at = "running"
    BY <1>6, TypedParts DEF Goes, Resting, RunsAreTyped
  <2> QED
    BY <1>3, <1>4, <2>1 DEF Vouches, Done, Runs
<1> QED
  BY <1>5, <1>6 DEF Handed


LEMMA RefusedGrows ==
  ASSUME Typed, [Next]_vars
  PROVE  refused \subseteq refused'
BY StepKinds DEF vars, Starts, Alone, SendsChunk, SendsResult, Handed, LateArrives, StopsWorker,
                 WorkerGone, Abandoned, Reads

\* Nothing new about a job.
LEMMA SameVouches ==
  ASSUME NEW w \in Worker, NEW j \in Job, Vouches(w, j), stream'[j] = stream[j],
         LateOf(w, j)' \subseteq LateOf(w, j), run'[w] = run[w] \/ run'[w].job # j
  PROVE  Vouches(w, j)'
<1>1. /\ LateChunk(w, j)' => LateChunk(w, j)
      /\ LateDone(w, j)' => LateDone(w, j)
      /\ LateOf(w, j) = {} => LateOf(w, j)' = {}
  BY DEF LateChunk, LateDone
<1>2. CASE run'[w] = run[w]
  BY <1>1, <1>2 DEF Vouches, Runs, Done
<1>3. CASE run'[w].job # j
  BY <1>1, <1>3 DEF Vouches, Runs, Done
<1> QED
  BY <1>2, <1>3

\* A call of another worker, or about another job.
LEMMA OtherCall ==
  ASSUME Typed, NEW w \in Worker, NEW j \in Job, Accepts(w, j), Vouches(w, j),
         NEW m \in Message, m.w # w \/ m.j # j,
         Effect(m) \/ UNCHANGED Tables, late' \subseteq late \cup {m},
         run'[w] = run[w] \/ run'[w].job # j
  PROVE  Vouches(w, j)'
<1>1. stream'[j] = stream[j]
  BY ForeignEffect DEF Accepts
<1>2. LateOf(w, j)' \subseteq LateOf(w, j)
  BY DEF LateOf
<1> QED
  BY <1>1, <1>2, SameVouches

LEMMA PostingFields ==
  ASSUME Typed, NEW w \in Worker, NEW result, NEW b, Goes(w, Posting(w, result, b))
  PROVE  run'[w].at = "posting" /\ run'[w].result = result /\ run'[w].job = run[w].job
<1>1. run \in [Worker -> RunState]
  BY DEF Typed, TypeOK
<1>2. /\ Posting(w, result, b).at = "posting" /\ Posting(w, result, b).result = result
      /\ Posting(w, result, b).job = run[w].job
  BY <1>1 DEF Posting, RunState
<1> QED
  BY <1>1, <1>2 DEF Goes

\* The next yield of the run of a job.
LEMMA OwnChunk ==
  ASSUME Typed, NEW w \in Worker, NEW j \in Job, Accepts(w, j), Accepts(w, j)', Vouches(w, j),
         SendsChunk(w), run[w].job = j, <<j, w>> \notin refused'
  PROVE  Vouches(w, j)'
<1> DEFINE m == Chunk(w, run[w].job, run[w].yield)
<1>1. m \in Message /\ m.kind = "chunk" /\ m.w = w /\ m.j = j /\ m.yield = run[w].yield
  BY RunMessage
<1>2. /\ Runs(w, j, "running") /\ run[w].yield \in 1..Yields
      /\ run \in [Worker -> RunState] /\ stream \in [Job -> Seq(Worker \X (1..Yields))]
  BY RuntimeAssumption DEF SendsChunk, Typed, TypeOK, RunState
<1>3. FirstYields(stream[j], w, run[w].yield - 1) /\ LateOf(w, j) = {}
  BY <1>2 DEF Vouches
<1>4. \/ Effect(m) /\ late' = late /\ Goes(w, Onwards(w))
      \/ Sent(m) /\ \E b \in BOOLEAN : Goes(w, Posting(w, "FAILED", b))
  BY DEF SendsChunk
<1> HIDE DEF m
<1>5. CASE Effect(m) /\ late' = late /\ Goes(w, Onwards(w))
  <2>1. ~ Finishes(w, j, "FAILED")
    BY FinishedRow DEF Accepts
  <2>2. Appends(w, j, run[w].yield)
    BY <1>1, <1>5, <2>1 DEF Effect
  <2>3. stream'[j] = Append(stream[j], <<w, run[w].yield>>)
    BY <1>2, <2>2 DEF Appends
  <2>4. run[w].yield - 1 \in Nat /\ (run[w].yield - 1) + 1 = run[w].yield
    BY <1>2
  <2>5. FirstYields(stream'[j], w, run[w].yield)
    <3> DEFINE n == run[w].yield - 1
    <3>1. n \in Nat /\ n + 1 = run[w].yield /\ FirstYields(stream[j], w, n)
      BY <1>3, <2>4
    <3> HIDE DEF n
    <3>2. FirstYields(Append(stream[j], <<w, n + 1>>), w, n + 1)
      BY <1>2, <3>1, OneMore
    <3> QED
      BY <2>3, <3>1, <3>2
  <2>6. LateOf(w, j)' = {}
    BY <1>3, <1>5 DEF LateOf
  <2>7. run'[w].yield = run[w].yield + 1 /\ run'[w].at = "running"
    BY <1>2, <1>5 DEF Goes, Onwards, Runs, RunState
  <2>8. run'[w].yield - 1 = run[w].yield
    BY <1>2, <2>7
  <2>9. ~Done(w, j)'
    BY <2>6, <2>7 DEF Done, LateDone, Runs
  <2> QED
    BY <2>5, <2>6, <2>8, <2>9 DEF Vouches
<1>6. CASE Sent(m) /\ \E b \in BOOLEAN : Goes(w, Posting(w, "FAILED", b))
  <2>1. run'[w].at = "posting" /\ run'[w].result = "FAILED"
    BY <1>6, PostingFields
  <2>2. late' \subseteq late \cup {m}
    BY <1>6 DEF Sent
  <2>3. ~LateDone(w, j)'
    BY <1>1, <1>3, <2>2 DEF LateDone, LateOf
  <2> QED
    BY <2>1, <2>3 DEF Vouches, Done, Runs
<1> QED
  BY <1>4, <1>5, <1>6

\* The result of the run of a job.
LEMMA OwnResult ==
  ASSUME Typed, NEW w \in Worker, NEW j \in Job, Accepts(w, j), Vouches(w, j),
         SendsResult(w), run[w].job = j
  PROVE  Vouches(w, j)'
<1> DEFINE m == Result(w, run[w].job, run[w].result, run[w].stopPod)
<1>1. /\ m \in Message /\ m.kind = "result" /\ m.w = w /\ m.j = j
      /\ m.status = run[w].result
  BY RunMessage
<1>2. run \in [Worker -> RunState] /\ Runs(w, j, "posting")
  BY DEF SendsResult, Typed, TypeOK
<1>3. Sent(m)
  BY DEF SendsResult
<1> HIDE DEF m
<1>4. stream'[j] = stream[j] /\ late' \subseteq late \cup {m}
  BY <1>1, <1>3, ForeignEffect DEF Sent, Accepts
<1>5. LateChunk(w, j)' => LateChunk(w, j)
  BY <1>1, <1>4 DEF LateChunk, LateOf
<1>6. LateDone(w, j)' => Done(w, j)
  BY <1>1, <1>2, <1>4 DEF LateDone, LateOf, Done
<1>7. run'[w].at # "running" /\ (run'[w].at = "posting" => run'[w].result = run[w].result)
  <2>1. CASE GoesOn(w)
    <3>1. PICK where \in {"ended", "asking"} : Goes(w, Resting(where))
      BY <2>1 DEF GoesOn
    <3> QED
      BY <1>2, <3>1 DEF Goes, Resting
  <2>2. CASE Goes(w, [run[w] EXCEPT !.tries = @ + 1])
    BY <1>2, <2>2 DEF Goes, Runs, RunState
  <2> QED
    BY <2>1, <2>2 DEF SendsResult
<1>8. Done(w, j)' => Done(w, j)
  BY <1>2, <1>6, <1>7 DEF Done, Runs
<1> QED
  BY <1>4, <1>5, <1>7, <1>8 DEF Vouches, Runs

\* The end of a run, by its handler or with its pod.
LEMMA OwnEnd ==
  ASSUME Typed, NEW w \in Worker, NEW j \in Job, Vouches(w, j), Alone(w)
  PROVE  Vouches(w, j)'
<1>1. stream' = stream /\ late' = late /\ run \in [Worker -> RunState]
  BY DEF Alone, Tables, Typed, TypeOK
<1>2. LateChunk(w, j)' = LateChunk(w, j) /\ LateDone(w, j)' = LateDone(w, j)
  BY <1>1 DEF LateChunk, LateDone, LateOf
<1>3. CASE Goes(w, Resting("ended"))
  <2>1. run'[w].at = "ended"
    BY <1>1, <1>3 DEF Goes, Resting
  <2> QED
    BY <1>1, <1>2, <2>1 DEF Vouches, Done, Runs
<1>4. ASSUME run[w].at = "running",
             NEW result \in {"COMPLETED", "FAILED"}, NEW b \in BOOLEAN,
             result = "COMPLETED" => run[w].yield = Yields + 1, Goes(w, Posting(w, result, b))
      PROVE  Vouches(w, j)'
  <2>1. run'[w].at = "posting" /\ run'[w].result = result /\ run'[w].job = run[w].job
    BY <1>4, PostingFields
  <2>2. CASE LateDone(w, j) \/ run[w].job # j \/ result = "FAILED"
    BY <1>1, <1>2, <1>4, <2>1, <2>2 DEF Vouches, Done, Runs
  <2>3. CASE run[w].job = j /\ result = "COMPLETED"
    <3>1. FirstYields(stream[j], w, run[w].yield - 1) /\ LateOf(w, j) = {}
      BY <1>4, <2>3 DEF Vouches, Runs
    <3>2. run[w].yield - 1 = Yields
      BY <1>4, <2>3, RuntimeAssumption
    <3> QED
      BY <1>1, <1>2, <2>1, <3>1, <3>2 DEF Vouches, Runs, LateChunk
  <2> QED
    BY <2>2, <2>3
<1> QED
  BY <1>3, <1>4 DEF Alone

LEMMA SentRun ==
  ASSUME Typed, NEW v \in Worker, SendsChunk(v) \/ SendsResult(v)
  PROVE  /\ \A w \in Worker : w # v => run'[w] = run[w]
         /\ run'[v].job \in {run[v].job, Nothing}
<1>0. run \in [Worker -> RunState]
  BY DEF Typed, TypeOK
<1>1. \E r : Goes(v, r)
  BY DEF SendsChunk, SendsResult, GoesOn
<1>2. \A w \in Worker : w # v => run'[w] = run[w]
  BY <1>0, <1>1 DEF Goes
<1>3. ASSUME NEW result, NEW b, Goes(v, Posting(v, result, b))
      PROVE  run'[v].job = run[v].job
  BY <1>3, PostingFields
<1>4. CASE \E where : Goes(v, Resting(where))
  BY <1>0, <1>4 DEF Goes, Resting
<1>5. CASE Goes(v, Onwards(v)) \/ Goes(v, [run[v] EXCEPT !.tries = @ + 1])
  BY <1>0, <1>5 DEF Goes, Onwards, RunState
<1> QED
  BY <1>2, <1>3, <1>4, <1>5 DEF SendsChunk, SendsResult, GoesOn

LEMMA InOrderInductive == Typed /\ Holding /\ InOrder /\ [Next]_vars => InOrder'
<1> SUFFICES ASSUME Typed, Holding, InOrder, [Next]_vars, NEW w \in Worker, NEW j \in Job,
                    Accepts(w, j)', <<j, w>> \notin refused'
             PROVE  Vouches(w, j)'
  BY DEF InOrder
<1>0. /\ late \subseteq Message /\ Nothing \notin Job /\ run \in [Worker -> RunState]
      /\ worker \in [Worker -> {"none", "serving", "stopping", "gone"}]
      /\ job \in [Job -> JobRow]
  BY RuntimeAssumption, TypedParts DEF RestTyped, RunsAreTyped, TablesTyped
<1>1. CASE ~Accepts(w, j)
  BY <1>1, NewlyAccepted, HandedVouches
<1>2. CASE Accepts(w, j)
  <2>1. Vouches(w, j) /\ job[j].at = w /\ job[j].status = "IN_PROGRESS"
    BY <1>2, RefusedGrows DEF InOrder, Accepts
  <2>2. ASSUME UNCHANGED <<stream, late>>, run'[w] = run[w] \/ run'[w].job # j
        PROVE  Vouches(w, j)'
    BY <2>1, <2>2, SameVouches DEF LateOf
  <2>3. ASSUME NEW v \in Worker, SendsChunk(v) \/ SendsResult(v)
        PROVE  Vouches(w, j)'
    <3>1. CASE v = w /\ run[w].job = j
      BY <1>2, <2>1, <2>3, <3>1, OwnChunk, OwnResult
    <3>2. CASE v # w \/ run[w].job # j
      <4>1. PICK m \in Message : m.w = v /\ m.j = run[v].job /\ (Sent(m) \/ UNCHANGED <<Tables, late>>)
        BY <2>3, RunMessage DEF SendsChunk, SendsResult, Sent
      <4>2. run'[w] = run[w] \/ run'[w].job # j
        BY <1>0, <2>3, <3>2, SentRun
      <4>3. /\ m.w # w \/ m.j # j
            /\ Effect(m) \/ UNCHANGED Tables
            /\ late' \subseteq late \cup {m}
        BY <3>2, <4>1 DEF Sent
      <4> QED
        BY <1>2, <2>1, <4>2, <4>3, OtherCall
    <3> QED
      BY <3>1, <3>2
  <2>4. ASSUME NEW v \in Worker, Alone(v)
        PROVE  Vouches(w, j)'
    <3>1. CASE v = w
      BY <2>1, <2>4, <3>1, OwnEnd
    <3>2. CASE v # w
      <4>1. \E r : Goes(v, r)
        BY <2>4 DEF Alone
      <4>2. run'[w] = run[w] /\ UNCHANGED <<stream, late>>
        BY <1>0, <2>4, <3>2, <4>1 DEF Goes, Alone, Tables
      <4> QED
        BY <2>2, <4>2
    <3> QED
      BY <3>1, <3>2
  <2>5. ASSUME NEW v \in Worker, Starts(v)
        PROVE  Vouches(w, j)'
    <3>1. v # w
      BY <1>2, <2>5 DEF Starts, Accepts
    <3> QED
      BY <1>0, <2>2, <2>5, <3>1 DEF Starts, Goes
  <2>6. ASSUME NEW v \in Worker, NEW i \in Job, Handed(v, i)
        PROVE  Vouches(w, j)'
    <3>1. i # j
      BY <2>1, <2>6 DEF Handed, HandsOut, Queue
    <3>2. [Resting("running") EXCEPT !.job = i].job = i
      BY DEF Resting
    <3>3. run'[w] = run[w] \/ run'[w].job = i
      BY <1>0, <2>6, <3>2 DEF Handed, Goes
    <3> QED
      BY <2>2, <2>6, <3>1, <3>3 DEF Handed
  <2>7. ASSUME NEW m \in late, LateArrives(m)
        PROVE  Vouches(w, j)'
    <3>1. m \in Message /\ Effect(m) /\ late' = late \ {m} /\ run' = run
      BY <1>0, <2>7, Arrival DEF LateArrives
    <3>2. LateOf(w, j)' \subseteq LateOf(w, j)
      BY <3>1 DEF LateOf
    <3>3. CASE m.w = w /\ m.j = j /\ m.kind = "chunk"
      <4>1. LateChunk(w, j)
        BY <3>3 DEF LateChunk, LateOf
      <4>2. ~Done(w, j) /\ ~Runs(w, j, "running")
        BY <2>1, <4>1 DEF Vouches, LateChunk
      <4>3. ~Done(w, j)' /\ ~Runs(w, j, "running")'
        BY <3>1, <3>2, <4>2 DEF Done, LateDone, Runs
      <4> QED
        BY <4>3 DEF Vouches
    <3>4. CASE m.w # w \/ m.j # j \/ m.kind = "result"
      <4>1. stream'[j] = stream[j]
        BY <2>1, <3>1, <3>4, ForeignEffect
      <4> QED
        BY <2>1, <3>1, <3>2, <4>1, SameVouches
    <3> QED
      BY <3>1, <3>3, <3>4, MessageFields
  <2>8. ASSUME \/ UNCHANGED vars
               \/ \E v \in Worker : StopsWorker(v) \/ WorkerGone(v)
               \/ \E i \in Job, status \in {"CANCELLED", "TIMED_OUT"} : Abandoned(i, status)
               \/ \E i \in Job : Reads(i)
        PROVE  Vouches(w, j)'
    BY <2>2, <2>8 DEF vars, StopsWorker, WorkerGone, Abandoned, Reads
  <2> QED
    BY <2>3, <2>4, <2>5, <2>6, <2>7, <2>8, StepKinds
<1> QED
  BY <1>1, <1>2

\* Who completes a job has vouched for its stream.
LEMMA CompletedBy ==
  ASSUME Typed, [Next]_vars, NEW j \in Job, job'[j].status = "COMPLETED", ~Rests(j)
  PROVE  \E w \in Worker : /\ Accepts(w, j) /\ Done(w, j)
                           /\ job'[j].at = w /\ stream'[j] = stream[j]
<1>0. late \subseteq Message /\ job \in [Job -> JobRow]
  BY TypedParts DEF RestTyped, TablesTyped
<1>1. Over(j)
  BY EveryJobStep DEF JobStep, Handover, Returns, Grows, Accepts
<1>2. job'[j] # job[j]
  BY <1>1 DEF Rests, Over
<1>3. ASSUME NEW m \in Message, Effect(m) \/ UNCHANGED Tables
      PROVE  /\ m.kind = "result" /\ m.status = "COMPLETED" /\ m.j = j /\ Accepts(m.w, j)
             /\ job'[j].at = m.w
  <2>1. /\ m.w \in Worker /\ m.j \in Job
        /\ m.kind = "result" => m.status \in {"COMPLETED", "FAILED"}
    BY MessageFields
  <2>2. PICK s \in {"COMPLETED", "FAILED"} :
          Finishes(m.w, m.j, s) /\ (s = "FAILED" \/ (m.kind = "result" /\ m.status = s))
    BY <1>2, <1>3, <2>1 DEF Effect, Appends, Tables
  <2>3. m.j = j /\ s = "COMPLETED"
    BY <1>2, <2>1, <2>2, FinishedRow
  <2> QED
    BY <1>1, <2>2, <2>3 DEF Finishes, Accepts, Over
<1>4. ASSUME NEW v \in Worker, SendsChunk(v) \/ SendsResult(v)
      PROVE  Accepts(v, j) /\ Done(v, j) /\ job'[j].at = v
  <2>1. CASE SendsChunk(v)
    BY <1>3, <2>1, RunMessage DEF SendsChunk, Sent, Tables
  <2>2. CASE SendsResult(v)
    BY <1>3, <2>2, RunMessage DEF SendsResult, Sent, Done, Runs
  <2> QED
    BY <1>4, <2>1, <2>2
<1>5. ASSUME NEW m \in late, LateArrives(m)
      PROVE  m.w \in Worker /\ Accepts(m.w, j) /\ Done(m.w, j) /\ job'[j].at = m.w
  BY <1>0, <1>3, <1>5, Arrival, MessageFields DEF LateArrives, Done, LateDone, LateOf
<1>6. CASE \E w \in Worker, i \in Job : Handed(w, i)
  BY <1>1, <1>2, <1>6, HandedRow DEF Handed, Terminal
<1>7. CASE \E w \in Worker : WorkerGone(w)
  BY <1>2, <1>7, GoneRow
<1>8. CASE \E i \in Job, status \in {"CANCELLED", "TIMED_OUT"} : Abandoned(i, status)
  BY <1>2, <1>8, AbandonedRow
<1>9. CASE \/ UNCHANGED vars
           \/ \E w \in Worker : Starts(w) \/ Alone(w) \/ StopsWorker(w)
           \/ \E i \in Job : Reads(i)
  BY <1>2, <1>9 DEF vars, Starts, Alone, StopsWorker, Reads, Tables
<1> QED
  BY <1>1, <1>4, <1>5, <1>6, <1>7, <1>8, <1>9, StepKinds DEF Over

\* The stream of a job that completed holds each yield of the run that completed
\* it, once and in order, unless one of its chunks was answered with a refusal:
\* for any number of calls lost, delayed and repeated, and of workers that died.
THEOREM WholeStreams == Spec => []WholeStream
<1>1. Init => Holding /\ InOrder /\ WholeStream
  <2> SUFFICES ASSUME Init PROVE Holding /\ InOrder /\ WholeStream
    OBVIOUS
  <2>1. /\ \A j \in Job : job[j].status = "IN_QUEUE" /\ job[j].at = Nothing /\ stream[j] = <<>>
        /\ \A w \in Worker : run[w].job = Nothing /\ worker[w] = "none"
        /\ late = {} /\ Nothing \notin Job \cup Worker
    BY RuntimeAssumption DEF Init, Resting
  <2> QED
    BY <2>1 DEF Holding, Keeps, Begun, Touches, LateOf, InOrder, Accepts, WholeStream
<1>2. Typed /\ Holding /\ InOrder /\ WholeStream /\ [Next]_vars => WholeStream'
  <2> SUFFICES ASSUME Typed, Holding, InOrder, WholeStream, [Next]_vars, NEW j \in Job,
                      job'[j].status = "COMPLETED", <<j, job'[j].at>> \notin refused'
               PROVE  FirstYields(stream'[j], job'[j].at, Yields)
    BY DEF WholeStream
  <2>1. CASE Rests(j)
    BY <2>1, RefusedGrows DEF Rests, WholeStream
  <2>2. CASE ~Rests(j)
    BY <2>2, CompletedBy, RefusedGrows DEF InOrder, Vouches
  <2> QED
    BY <2>1, <2>2
<1>3. Spec => [](Typed /\ Holding /\ InOrder /\ WholeStream)
  BY <1>1, <1>2, InitTyped, TypedInductive, HoldingInductive, InOrderInductive, PTL DEF Spec
<1> QED
  BY <1>3, PTL
=============================================================================
