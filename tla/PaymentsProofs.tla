--------------------------- MODULE PaymentsProofs ---------------------------
(* Theorems about credit requests and their payments, for any users, requests  *)
(* and racing checks.                                                         *)
EXTENDS Payments, TLAPS

(* What a task or a start refers to is there: a payment has its online         *)
(* request, a question its payment, and a payment being started has no row.    *)
Refers(t) == (t.on # Nothing => payment[t.on] # Nothing) /\ (t.heard => t.on # Nothing)
Ordered(r) ==
    /\ payment[r] # Nothing \/ start[r] # Nothing =>
          request[r] # Nothing /\ request[r].method = "online"
    /\ start[r] # Nothing => payment[r] = Nothing
    /\ payment[r] # Nothing \/ start[r] \in ProvStatus => prov[r] # Nothing
References ==
    /\ \A r \in Rid : Ordered(r)
    /\ \A c \in Checker : Refers(check[c])
    /\ Refers(sweep.task)
    /\ \A r \in sweep.todo : payment[r] # Nothing

Wellformed == TypeOK /\ References

-----------------------------------------------------------------------------
(* The transactions. *)

(* Closing requests moves pending ones to `status` and no others. *)
Closes(old, new, status) ==
    /\ old # Nothing /\ new \in Request
    /\ old.status = "pending" /\ new.status = status
    /\ new.user = old.user /\ new.method = old.method

LEMMA ClosedEffect ==
    ASSUME NEW req \in [Rid -> Request \cup {Nothing}], NEW R \in SUBSET Rid,
           \A r \in R : req[r] # Nothing,
           NEW status \in {"declined", "cancelled"}
    PROVE  /\ Closed(req, R, status) \in [Rid -> Request \cup {Nothing}]
           /\ \A q \in Rid : \/ Closed(req, R, status)[q] = req[q]
                             \/ q \in R /\ Closes(req[q], Closed(req, R, status)[q], status)
<1>1. ASSUME NEW q \in Rid, q \in R, req[q].status = "pending"
      PROVE  Closes(req[q], Closed(req, R, status)[q], status)
  <2>1. req[q] \in Request
    BY <1>1
  <2>2. Closed(req, R, status)[q] = [req[q] EXCEPT !.status = status]
    BY <1>1 DEF Closed
  <2> QED
    BY <1>1, <2>1, <2>2 DEF Closes, Request
<1>2. ASSUME NEW q \in Rid, ~(q \in R /\ req[q].status = "pending")
      PROVE  Closed(req, R, status)[q] = req[q]
  BY <1>2 DEF Closed
<1>3. \A q \in Rid : Closed(req, R, status)[q] \in Request \cup {Nothing}
  BY <1>1, <1>2 DEF Closes
<1> QED
  BY <1>1, <1>2, <1>3 DEF Closed

(* _pay_apply touches the rows of one payment; it approves its request exactly *)
(* when it credits, and otherwise can only decline a pending one.              *)
LEMMA ApplyEffect ==
    ASSUME TypeOK, NEW r \in Rid, NEW a \in Answer,
           payment[r] # Nothing, request[r] # Nothing
    PROVE  /\ RequestAfter(r, a) \in [Rid -> Request \cup {Nothing}]
           /\ \A q \in Rid \ {r} : RequestAfter(r, a)[q] = request[q]
           /\ RequestAfter(r, a)[r] \in Request
           /\ RequestAfter(r, a)[r].user = request[r].user
           /\ RequestAfter(r, a)[r].method = request[r].method
           /\ Credits(r, a) => RequestAfter(r, a)[r].status = "approved"
           /\ ~Credits(r, a) => \/ RequestAfter(r, a)[r] = request[r]
                                \/ /\ request[r].status = "pending"
                                   /\ RequestAfter(r, a)[r].status = "declined"
<1>1. request \in [Rid -> Request \cup {Nothing}] /\ request[r] \in Request
  BY DEF TypeOK
<1>2. CASE Credits(r, a)
  <2>1. a.status = "SUCCEEDED"
    BY <1>2 DEF Credits, Stored
  <2>2. RequestAfter(r, a) = [request EXCEPT ![r].status = "approved"]
    BY <1>2, <2>1, SMT DEF RequestAfter
  <2> QED
    BY <1>1, <1>2, <2>2 DEF Request
<1>3. CASE ~Credits(r, a) /\ a.status \in {"FAILED", "EXPIRED"}
  <2>1. RequestAfter(r, a) = Closed(request, {r}, "declined")
    BY <1>3 DEF RequestAfter
  <2>2. /\ Closed(request, {r}, "declined") \in [Rid -> Request \cup {Nothing}]
        /\ \A q \in Rid : \/ Closed(request, {r}, "declined")[q] = request[q]
                          \/ /\ q \in {r}
                             /\ Closes(request[q], Closed(request, {r}, "declined")[q], "declined")
    BY <1>1, ClosedEffect
  <2> QED
    BY <1>1, <1>3, <2>1, <2>2 DEF Closes
<1>4. CASE ~Credits(r, a) /\ a.status \notin {"FAILED", "EXPIRED"}
  <2>1. RequestAfter(r, a) = request
    BY <1>4 DEF RequestAfter
  <2> QED
    BY <1>1, <1>4, <2>1
<1> QED
  BY <1>2, <1>3, <1>4

(* The payment's row takes the answer's status, never loses its credit mark,   *)
(* and the ledger gets its one row with that mark.                             *)
LEMMA ApplyPayment ==
    ASSUME TypeOK, NEW r \in Rid, NEW a \in Answer, payment[r] # Nothing
    PROVE  /\ PaymentAfter(r, a) \in [Rid -> Payment \cup {Nothing}]
           /\ \A q \in Rid \ {r} : PaymentAfter(r, a)[q] = payment[q]
           /\ PaymentAfter(r, a)[r] \in Payment
           /\ PaymentAfter(r, a)[r].credited <=> payment[r].credited \/ Credits(r, a)
           /\ CreditAfter(r, a) \in [Rid -> Seq({"admin", "eco-payments"})]
           /\ \A q \in Rid \ {r} : CreditAfter(r, a)[q] = credit[q]
           /\ Credits(r, a) => CreditAfter(r, a)[r] = Append(credit[r], "eco-payments")
           /\ ~Credits(r, a) => CreditAfter(r, a) = credit
<1>1. payment \in [Rid -> Payment \cup {Nothing}] /\ payment[r] \in Payment
  BY DEF TypeOK
<1>2. credit \in [Rid -> Seq({"admin", "eco-payments"})]
  BY DEF TypeOK
<1>3. CASE a = NoAnswer
  <2>1. ~Credits(r, a)
    BY <1>3 DEF Credits, Stored, NoAnswer
  <2>2. PaymentAfter(r, a) = payment /\ CreditAfter(r, a) = credit
    BY <1>3, <2>1 DEF PaymentAfter, CreditAfter
  <2> QED
    BY <1>1, <1>2, <2>1, <2>2
<1>4. CASE a # NoAnswer
  <2>1. Stored(r, a) \in ProvStatus \cup {"AMOUNT_MISMATCH", "ABANDONED"}
    BY <1>4 DEF Stored, Answer
  <2>2. [status |-> Stored(r, a), credited |-> payment[r].credited \/ Credits(r, a)] \in Payment
    BY <2>1 DEF Payment
  <2>3. PaymentAfter(r, a) =
           [payment EXCEPT ![r] = [status |-> Stored(r, a),
                                   credited |-> payment[r].credited \/ Credits(r, a)]]
    BY <1>4 DEF PaymentAfter
  <2>4. CreditAfter(r, a) = IF Credits(r, a) THEN [credit EXCEPT ![r] = Append(credit[r], "eco-payments")]
                            ELSE credit
    BY DEF CreditAfter
  <2>5. Append(credit[r], "eco-payments") \in Seq({"admin", "eco-payments"})
    BY <1>2
  <2>6. /\ PaymentAfter(r, a) \in [Rid -> Payment \cup {Nothing}]
        /\ \A q \in Rid \ {r} : PaymentAfter(r, a)[q] = payment[q]
        /\ PaymentAfter(r, a)[r] \in Payment
        /\ PaymentAfter(r, a)[r].credited <=> payment[r].credited \/ Credits(r, a)
    <3> DEFINE new == [status |-> Stored(r, a), credited |-> payment[r].credited \/ Credits(r, a)]
    <3>1. new.credited <=> payment[r].credited \/ Credits(r, a)
      BY Zenon
    <3> HIDE DEF new
    <3>2. PaymentAfter(r, a) = [payment EXCEPT ![r] = new] /\ new \in Payment
      BY <2>2, <2>3 DEF new
    <3>3. PaymentAfter(r, a)[r] = new
      BY <1>1, <3>2
    <3>4. /\ PaymentAfter(r, a) \in [Rid -> Payment \cup {Nothing}]
          /\ \A q \in Rid \ {r} : PaymentAfter(r, a)[q] = payment[q]
      BY <1>1, <3>2
    <3> QED
      BY <3>1, <3>2, <3>3, <3>4, Zenon
  <2> QED
    BY <1>2, <2>4, <2>5, <2>6
<1> QED
  BY <1>3, <1>4

-----------------------------------------------------------------------------
(* Well-formed tables and tasks, and what refers to what. *)

LEMMA AnswerType ==
    ASSUME TypeOK, NEW r \in Rid, prov[r] # Nothing, NEW lost \in BOOLEAN, NEW silent \in BOOLEAN
    PROVE  AnswerOf(r, lost, silent) \in Answer
<1>1. prov[r] \in ProvStatus
  BY DEF TypeOK
<1>2. CASE lost
  BY <1>2 DEF AnswerOf, Answer
<1>3. CASE ~lost
  <2>1. (prov[r] = "SUCCEEDED" /\ r \in short /\ ~silent) \in BOOLEAN
    OBVIOUS
  <2> QED
    BY <1>1, <1>3, <2>1 DEF AnswerOf, Answer
<1> QED
  BY <1>2, <1>3

(* What applying an answer about r leaves is well formed.                      *)
LEMMA ApplyOrdered ==
    ASSUME Wellformed, NEW r \in Rid, NEW a \in Answer, payment[r] # Nothing,
           NEW q \in Rid
    PROVE  /\ payment[q] = Nothing <=> PaymentAfter(r, a)[q] = Nothing
           /\ request[q] = Nothing <=> RequestAfter(r, a)[q] = Nothing
           /\ request[q] # Nothing => /\ RequestAfter(r, a)[q] \in Request
                                      /\ RequestAfter(r, a)[q].method = request[q].method
<1>1. request[r] # Nothing /\ TypeOK
  BY DEF Wellformed, References, Ordered
<1>2. Nothing \notin Request /\ Nothing \notin Payment
  BY NothingAssumption
<1>3. CASE q = r
  BY <1>1, <1>2, <1>3, ApplyEffect, ApplyPayment
<1>4. CASE q # r
  <2>1. RequestAfter(r, a)[q] = request[q] /\ PaymentAfter(r, a)[q] = payment[q]
    BY <1>1, <1>4, ApplyEffect, ApplyPayment
  <2> QED
    BY <1>1, <2>1 DEF TypeOK
<1> QED
  BY <1>3, <1>4

(* A turn of the background pass, on the rows `req` and `pay`: it cancels the  *)
(* requests of the rows G it gives up, and leaves every credit mark.           *)
TurnLeaves(G, req, pay) ==
    /\ request' \in [Rid -> Request \cup {Nothing}]
    /\ payment' \in [Rid -> Payment \cup {Nothing}]
    /\ sweep' \in [todo: SUBSET Rid, old: SUBSET Rid, task: Task]
    /\ \A r \in Rid : \/ request'[r] = req[r]
                      \/ r \in G /\ Closes(req[r], request'[r], "cancelled")
    /\ \A r \in Rid : payment'[r] = Nothing <=> pay[r] = Nothing
    /\ \A r \in Rid : pay[r] # Nothing => payment'[r] \in Payment
                                          /\ payment'[r].credited = pay[r].credited
    /\ Refers(sweep.task)'
    /\ \A r \in sweep'.todo : payment'[r] # Nothing

LEMMA TurnWellformed ==
    ASSUME NEW req \in [Rid -> Request \cup {Nothing}], NEW pay \in [Rid -> Payment \cup {Nothing}],
           NEW todo \in SUBSET Rid, NEW old \in SUBSET Rid,
           NEW G \in SUBSET Rid, NEW next \in Rid \cup {Nothing},
           \A r \in todo : pay[r] # Nothing,
           \A r \in Rid : pay[r] # Nothing => req[r] # Nothing,
           Turn(todo, old, G, next, req, pay)
    PROVE  TurnLeaves(G, req, pay)
<1>1. /\ G \subseteq todo \cap old
      /\ \/ next \in todo \ old
         \/ next = Nothing /\ G = todo
      /\ request' = Closed(req, G, "cancelled")
      /\ payment' = [r \in Rid |-> IF r \in G THEN [pay[r] EXCEPT !.status = "ABANDONED"] ELSE pay[r]]
      /\ sweep' = [todo |-> todo \ (G \cup {next}), old |-> old,
                   task |-> IF next = Nothing THEN Idle ELSE Asking(next)]
  BY DEF Turn
<1>2. Nothing \notin Request /\ Nothing \notin Payment
  BY NothingAssumption
<1>3. /\ request' \in [Rid -> Request \cup {Nothing}]
      /\ \A r \in Rid : \/ request'[r] = req[r]
                        \/ r \in G /\ Closes(req[r], request'[r], "cancelled")
  <2>1. \A r \in G : req[r] # Nothing
    BY <1>1
  <2> QED
    BY <1>1, <2>1, ClosedEffect
<1>5. ASSUME NEW r \in Rid, pay[r] # Nothing
      PROVE  payment'[r] \in Payment /\ payment'[r].credited = pay[r].credited
  <2>1. pay[r] \in Payment
    BY <1>5
  <2>2. CASE r \in G
    <3>1. payment'[r] = [pay[r] EXCEPT !.status = "ABANDONED"]
      BY <1>1, <2>2
    <3> QED
      BY <2>1, <3>1 DEF Payment
  <2>3. CASE r \notin G
    BY <1>1, <2>1, <2>3
  <2> QED
    BY <2>2, <2>3
<1>6. ASSUME NEW r \in Rid, pay[r] = Nothing
      PROVE  payment'[r] = Nothing
  BY <1>1, <1>6
<1>7. payment' \in [Rid -> Payment \cup {Nothing}] /\ \A r \in Rid : payment'[r] = Nothing <=> pay[r] = Nothing
  BY <1>1, <1>2, <1>5, <1>6
<1>8. /\ Idle \in Task /\ \A r \in Rid : Asking(r) \in Task
      /\ Idle.on = Nothing /\ ~Idle.heard
      /\ \A r \in Rid : Asking(r).on = r /\ ~Asking(r).heard
  BY DEF Idle, Asking, Task, Answer
<1>9. /\ sweep' \in [todo: SUBSET Rid, old: SUBSET Rid, task: Task]
      /\ sweep'.todo \subseteq todo
      /\ next = Nothing => sweep'.task = Idle
      /\ next # Nothing => sweep'.task = Asking(next) /\ next \in todo
  BY <1>1, <1>8
<1>10. Refers(sweep.task)'
  <2>1. CASE next = Nothing
    BY <1>8, <1>9, <2>1 DEF Refers
  <2>2. CASE next # Nothing
    <3>1. next \in Rid /\ next \in todo /\ payment'[next] # Nothing
      BY <1>7, <1>9, <2>2
    <3>2. sweep'.task.on = next /\ ~sweep'.task.heard
      BY <1>8, <1>9, <2>2
    <3> QED
      BY <3>1, <3>2 DEF Refers
  <2> QED
    BY <2>1, <2>2
<1>11. \A r \in sweep'.todo : payment'[r] # Nothing
  BY <1>7, <1>9
<1> QED
  BY <1>3, <1>5, <1>7, <1>9, <1>10, <1>11 DEF TurnLeaves

LEMMA WellformedInit == Init => Wellformed
<1>1. Init => TypeOK
  BY PaymentsAssumption DEF Init, TypeOK, Idle, Task, Answer
<1>2. Init => References
  BY NothingAssumption DEF Init, References, Ordered, Refers, Idle
<1> QED
  BY <1>1, <1>2 DEF Wellformed

LEMMA WellformedStep == Wellformed /\ [Next]_vars => Wellformed'
<1> SUFFICES ASSUME Wellformed, [Next]_vars
             PROVE  Wellformed'
  OBVIOUS
<1> USE DEF Wellformed
<1>0. /\ Nothing \notin Request /\ Nothing \notin Payment
      /\ Nothing \notin ProvStatus /\ Nothing # "posting"
  BY NothingAssumption
<1>1. ASSUME NEW r \in Rid, NEW u \in User, NEW m \in Method, Ask(r, u, m)
      PROVE  Wellformed'
  <2>1. [user |-> u, method |-> m, status |-> "pending"] \in Request
    BY DEF Request
  <2>2. payment[r] = Nothing /\ start[r] = Nothing
    BY <1>1 DEF Ask, NextRid, References, Ordered
  <2>3. TypeOK'
    BY <1>1, <2>1 DEF Ask, TypeOK, provider
  <2>4. ASSUME NEW q \in Rid
        PROVE  Ordered(q)'
    <3>1. CASE q = r
      BY <1>0, <1>1, <2>1, <2>2, <3>1 DEF Ask, TypeOK, provider, Ordered, ProvStatus
    <3>2. CASE q # r
      BY <1>1, <3>2 DEF Ask, TypeOK, provider, References, Ordered
    <3> QED
      BY <3>1, <3>2
  <2> QED
    BY <1>1, <2>3, <2>4 DEF Ask, provider, References, Refers
<1>2. ASSUME NEW R \in SUBSET Rid, NEW status \in {"declined", "cancelled"},
             \A r \in R : request[r] # Nothing,
             request' = Closed(request, R, status),
             start' \in [Rid -> {Nothing, "posting"} \cup ProvStatus],
             \A r \in Rid : start'[r] \in {start[r], Nothing},
             UNCHANGED <<payment, credit, provider, check, sweep, restarts>>
      PROVE  Wellformed'
  <2>0. request \in [Rid -> Request \cup {Nothing}]
    BY DEF TypeOK
  <2>1. /\ request' \in [Rid -> Request \cup {Nothing}]
        /\ \A q \in Rid : request[q]' = request[q] \/ Closes(request[q], request[q]', status)
    <3>1. /\ Closed(request, R, status) \in [Rid -> Request \cup {Nothing}]
          /\ \A q \in Rid : \/ Closed(request, R, status)[q] = request[q]
                            \/ q \in R /\ Closes(request[q], Closed(request, R, status)[q], status)
      BY <1>2, <2>0, ClosedEffect
    <3> QED
      BY <1>2, <3>1
  <2>2. TypeOK'
    BY <1>2, <2>1 DEF TypeOK, provider
  <2>3. ASSUME NEW q \in Rid
        PROVE  Ordered(q)'
    BY <1>0, <1>2, <2>1 DEF provider, References, Ordered, Closes
  <2> QED
    BY <1>2, <2>2, <2>3 DEF provider, References, Refers
<1>3. ASSUME NEW u \in User, Cancel(u)
      PROVE  Wellformed'
  <2>1. Pending(u) \in SUBSET Rid /\ \A r \in Pending(u) : request[r] # Nothing
    BY DEF Pending
  <2> QED
    BY <1>2, <1>3, <2>1 DEF Cancel, tasks, TypeOK
<1>4. ASSUME NEW r \in Rid, StartFailed(r)
      PROVE  Wellformed'
  <2>1. request[r] # Nothing
    BY <1>4 DEF StartFailed, References, Ordered
  <2>2. {r} \in SUBSET Rid /\ \A q \in {r} : request[q] # Nothing
    BY <2>1
  <2> QED
    BY <1>2, <1>4, <2>2 DEF StartFailed, TypeOK
<1>5. ASSUME NEW r \in Rid, Approve(r) \/ Decline(r)
      PROVE  Wellformed'
  <2>1. request[r] \in Request
    BY <1>5 DEF Approve, Decline, IsPending, TypeOK
  <2>2. PICK status \in {"approved", "declined"} : request' = [request EXCEPT ![r].status = status]
    BY <1>5 DEF Approve, Decline
  <2>3. [request[r] EXCEPT !.status = status] \in Request
    BY <2>1 DEF Request
  <2>4. /\ request' \in [Rid -> Request \cup {Nothing}]
        /\ \A q \in Rid : (request[q] # Nothing => request[q]' # Nothing /\ request[q]'.method = request[q].method)
    BY <1>0, <2>1, <2>2, <2>3 DEF TypeOK, Request
  <2>5. credit' \in [Rid -> Seq({"admin", "eco-payments"})]
    <3>1. credit \in [Rid -> Seq({"admin", "eco-payments"})]
      BY DEF TypeOK
    <3>2. Append(credit[r], "admin") \in Seq({"admin", "eco-payments"})
      BY <3>1
    <3>3. credit' = [credit EXCEPT ![r] = Append(credit[r], "admin")] \/ credit' = credit
      BY <1>5 DEF Approve, Decline
    <3> QED
      BY <3>1, <3>2, <3>3
  <2>6. UNCHANGED <<payment, provider, tasks, restarts>>
    BY <1>5 DEF Approve, Decline
  <2>7. TypeOK'
    BY <2>4, <2>5, <2>6 DEF TypeOK, provider, tasks
  <2>8. ASSUME NEW q \in Rid
        PROVE  Ordered(q)'
    BY <2>4, <2>6 DEF provider, tasks, References, Ordered
  <2> QED
    BY <2>6, <2>7, <2>8 DEF provider, tasks, References, Refers
<1>6. ASSUME NEW r \in Rid, StartRecorded(r)
      PROVE  Wellformed'
  <2>1. [status |-> start[r], credited |-> FALSE] \in Payment
    BY <1>6 DEF StartRecorded, Payment
  <2>2. start[r] # Nothing
    BY <1>0, <1>6 DEF StartRecorded
  <2>3. TypeOK'
    BY <1>6, <2>1 DEF StartRecorded, TypeOK, provider
  <2>4. payment' = [payment EXCEPT ![r] = [status |-> start[r], credited |-> FALSE]]
    BY <1>6 DEF StartRecorded
  <2>5. \A q \in Rid : payment[q] # Nothing => payment[q]' # Nothing
    BY <1>0, <2>1, <2>4 DEF TypeOK
  <2>6. ASSUME NEW q \in Rid
        PROVE  Ordered(q)'
    <3>1. CASE q = r
      <4>1. start[q]' = Nothing /\ request' = request /\ prov' = prov
        BY <1>6, <3>1 DEF StartRecorded, TypeOK, provider
      <4>2. start[r] \in ProvStatus /\ prov[r] # Nothing
        BY <1>6 DEF StartRecorded, References, Ordered
      <4> QED
        BY <1>0, <2>2, <3>1, <4>1, <4>2 DEF References, Ordered
    <3>2. CASE q # r
      BY <1>6, <3>2 DEF StartRecorded, TypeOK, provider, References, Ordered
    <3> QED
      BY <3>1, <3>2
  <2>7. ASSUME NEW t \in Task, Refers(t)
        PROVE  t.on # Nothing => payment[t.on]' # Nothing
    BY <2>5, <2>7 DEF Refers, Task
  <2> QED
    BY <1>6, <2>3, <2>5, <2>6, <2>7 DEF StartRecorded, provider, References, Refers, TypeOK
<1>7. ASSUME NEW c \in Checker, NEW r \in Rid, CheckAsks(c, r)
      PROVE  Wellformed'
  <2>1. Asking(r) \in Task /\ Asking(r).on = r /\ ~Asking(r).heard
    BY DEF Asking, Task, Answer
  <2>2. TypeOK'
    BY <1>7, <2>1 DEF CheckAsks, TypeOK, tables, provider
  <2>3. \A d \in Checker : Refers(check[d])'
    BY <1>7, <2>1 DEF CheckAsks, TypeOK, tables, References, Refers
  <2> QED
    BY <1>7, <2>2, <2>3 DEF CheckAsks, tables, provider, References, Refers, Ordered
<1>8. ASSUME NEW t \in Task, NEW lost \in BOOLEAN, NEW silent \in BOOLEAN, t.on # Nothing, Refers(t)
      PROVE  /\ Heard(t, AnswerOf(t.on, lost, silent)) \in Task
             /\ Heard(t, AnswerOf(t.on, lost, silent)).on = t.on
  <2>1. t.on \in Rid /\ prov[t.on] # Nothing
    BY <1>8 DEF Task, Refers, References, Ordered
  <2>2. AnswerOf(t.on, lost, silent) \in Answer
    BY <2>1, AnswerType
  <2> QED
    BY <2>2 DEF Heard, Task
<1>9. ASSUME NEW c \in Checker, NEW lost \in BOOLEAN, NEW silent \in BOOLEAN,
             CheckHears(c, lost, silent)
      PROVE  Wellformed'
  <2>1. check[c] \in Task /\ Refers(check[c]) /\ check[c].on # Nothing
    BY <1>9 DEF CheckHears, TypeOK, References
  <2>2. check' = [check EXCEPT ![c] = Heard(check[c], AnswerOf(check[c].on, lost, silent))]
    BY <1>9 DEF CheckHears
  <2> DEFINE new == Heard(check[c], AnswerOf(check[c].on, lost, silent))
  <2>3. new \in Task /\ new.on = check[c].on
    BY <1>8, <2>1
  <2> HIDE DEF new
  <2>4. TypeOK'
    BY <1>9, <2>2, <2>3 DEF CheckHears, TypeOK, tables, provider, new
  <2>5. \A d \in Checker : Refers(check[d])'
    <3> TAKE d \in Checker
    <3>1. payment' = payment
      BY <1>9 DEF CheckHears, tables
    <3>2. CASE d = c
      <4>1. check[d]' = new
        BY <2>2, <3>2 DEF new, TypeOK
      <4> QED
        BY <2>1, <2>3, <3>1, <4>1 DEF Refers
    <3>3. CASE d # c
      BY <2>2, <3>1, <3>3 DEF TypeOK, References, Refers
    <3> QED
      BY <3>2, <3>3
  <2> QED
    BY <1>9, <2>4, <2>5 DEF CheckHears, tables, provider, References, Refers, Ordered
<1>10. ASSUME NEW r \in Rid, NEW a \in Answer, payment[r] # Nothing
       PROVE  /\ RequestAfter(r, a) \in [Rid -> Request \cup {Nothing}]
              /\ PaymentAfter(r, a) \in [Rid -> Payment \cup {Nothing}]
              /\ CreditAfter(r, a) \in [Rid -> Seq({"admin", "eco-payments"})]
              /\ \A q \in Rid : /\ payment[q] = Nothing <=> PaymentAfter(r, a)[q] = Nothing
                                /\ PaymentAfter(r, a)[q] # Nothing =>
                                      /\ RequestAfter(r, a)[q] # Nothing
                                      /\ RequestAfter(r, a)[q].method = "online"
                                /\ request[q] # Nothing =>
                                      /\ RequestAfter(r, a)[q] # Nothing
                                      /\ RequestAfter(r, a)[q].method = request[q].method
  <2>1. request[r] # Nothing
    BY <1>10 DEF References, Ordered
  <2> QED
    BY <1>10, <2>1, ApplyEffect, ApplyPayment, ApplyOrdered DEF References, Ordered
<1>11. ASSUME NEW c \in Checker, CheckApplies(c)
       PROVE  Wellformed'
  <2> DEFINE r == check[c].on
             a == check[c].answer
  <2>1. r \in Rid /\ a \in Answer /\ payment[r] # Nothing
    BY <1>11 DEF CheckApplies, TypeOK, Task, References, Refers
  <2> HIDE DEF r, a
  <2>2. /\ request' = RequestAfter(r, a)
        /\ payment' = PaymentAfter(r, a)
        /\ credit' = CreditAfter(r, a)
        /\ check' = [check EXCEPT ![c] = Idle]
        /\ UNCHANGED <<provider, start, sweep, restarts>>
    BY <1>11 DEF CheckApplies, r, a
  <2>3. Idle \in Task /\ Idle.on = Nothing /\ ~Idle.heard
    BY DEF Idle, Task, Answer
  <2>4. TypeOK'
    BY <1>10, <2>1, <2>2, <2>3 DEF TypeOK, provider
  <2>5. ASSUME NEW q \in Rid
        PROVE  Ordered(q)'
    BY <1>10, <2>1, <2>2 DEF provider, References, Ordered
  <2>6. \A q \in Rid : payment[q] # Nothing => payment[q]' # Nothing
    BY <1>10, <2>1, <2>2
  <2>7. ASSUME NEW d \in Checker
        PROVE  Refers(check[d])'
    BY <2>2, <2>3, <2>6 DEF TypeOK, Task, References, Refers
  <2> QED
    BY <2>2, <2>4, <2>5, <2>6, <2>7 DEF TypeOK, Task, References, Refers
<1>12. ASSUME NEW G \in SUBSET Rid, NEW next \in Rid \cup {Nothing}, SweepBegins(G, next)
       PROVE  Wellformed'
  <2>1. Swept \in SUBSET Rid /\ Swept \cap aged \in SUBSET Rid /\ \A r \in Swept : payment[r] # Nothing
    BY DEF Swept
  <2>2. /\ \A r \in Rid : payment[r] # Nothing => request[r] # Nothing /\ request[r].method = "online"
        /\ request \in [Rid -> Request \cup {Nothing}]
        /\ payment \in [Rid -> Payment \cup {Nothing}]
        /\ TypeOK
    BY DEF References, Ordered, TypeOK
  <2>3. Turn(Swept, Swept \cap aged, G, next, request, payment)
    BY <1>12 DEF SweepBegins
  <2>4. TurnLeaves(G, request, payment)
    BY <2>1, <2>2, <2>3, TurnWellformed
  <2>5. UNCHANGED <<credit, provider, start, check, restarts>>
    BY <1>12 DEF SweepBegins
  <2>6. TypeOK'
    BY <2>4, <2>5 DEF TypeOK, TurnLeaves, provider
  <2>7. ASSUME NEW q \in Rid
        PROVE  Ordered(q)'
    BY <1>0, <2>4, <2>5 DEF TurnLeaves, Closes, provider, References, Ordered
  <2>8. ASSUME NEW d \in Checker
        PROVE  Refers(check[d])'
    BY <2>4, <2>5 DEF TurnLeaves, TypeOK, Task, References, Refers
  <2> QED
    BY <2>4, <2>6, <2>7, <2>8 DEF TurnLeaves, References
<1>13. ASSUME NEW lost \in BOOLEAN, NEW silent \in BOOLEAN, SweepHears(lost, silent)
       PROVE  Wellformed'
  <2>1. sweep.task \in Task /\ Refers(sweep.task) /\ sweep.task.on # Nothing
    BY <1>13 DEF SweepHears, TypeOK, References
  <2> DEFINE new == Heard(sweep.task, AnswerOf(sweep.task.on, lost, silent))
  <2>2. new \in Task /\ new.on = sweep.task.on
    BY <1>8, <2>1
  <2>3. sweep' = [sweep EXCEPT !.task = new]
    BY <1>13 DEF SweepHears
  <2> HIDE DEF new
  <2>4. /\ sweep' \in [todo: SUBSET Rid, old: SUBSET Rid, task: Task]
        /\ sweep'.task = new /\ sweep'.todo = sweep.todo
    BY <2>2, <2>3 DEF TypeOK
  <2>5. UNCHANGED <<tables, provider, start, check, restarts>>
    BY <1>13 DEF SweepHears
  <2>6. TypeOK'
    BY <2>4, <2>5 DEF TypeOK, tables, provider
  <2>7. Refers(sweep.task)'
    BY <2>1, <2>2, <2>4, <2>5 DEF Refers, tables
  <2> QED
    BY <2>4, <2>5, <2>6, <2>7 DEF tables, provider, References, Refers, Ordered
<1>14. ASSUME NEW G \in SUBSET Rid, NEW next \in Rid \cup {Nothing}, SweepApplies(G, next)
       PROVE  Wellformed'
  <2> DEFINE r == sweep.task.on
             a == sweep.task.answer
  <2>1. r \in Rid /\ a \in Answer /\ payment[r] # Nothing
    BY <1>14 DEF SweepApplies, TypeOK, Task, References, Refers
  <2>2. /\ Turn(sweep.todo, sweep.old, G, next, RequestAfter(r, a), PaymentAfter(r, a))
        /\ credit' = CreditAfter(r, a)
        /\ UNCHANGED <<provider, start, check, restarts>>
    BY <1>14 DEF SweepApplies
  <2> HIDE DEF r, a
  <2>3. /\ RequestAfter(r, a) \in [Rid -> Request \cup {Nothing}]
        /\ PaymentAfter(r, a) \in [Rid -> Payment \cup {Nothing}]
        /\ CreditAfter(r, a) \in [Rid -> Seq({"admin", "eco-payments"})]
        /\ \A q \in Rid : /\ payment[q] = Nothing <=> PaymentAfter(r, a)[q] = Nothing
                          /\ PaymentAfter(r, a)[q] # Nothing =>
                                /\ RequestAfter(r, a)[q] # Nothing
                                /\ RequestAfter(r, a)[q].method = "online"
                          /\ request[q] # Nothing =>
                                /\ RequestAfter(r, a)[q] # Nothing
                                /\ RequestAfter(r, a)[q].method = request[q].method
    BY <1>10, <2>1
  <2>4. /\ sweep.todo \in SUBSET Rid /\ sweep.old \in SUBSET Rid
        /\ \A q \in sweep.todo : PaymentAfter(r, a)[q] # Nothing
        /\ \A q \in Rid : PaymentAfter(r, a)[q] # Nothing =>
                             RequestAfter(r, a)[q] # Nothing /\ RequestAfter(r, a)[q].method = "online"
        /\ TypeOK
    BY <2>3 DEF TypeOK, References
  <2>5. TurnLeaves(G, RequestAfter(r, a), PaymentAfter(r, a))
    BY <2>2, <2>3, <2>4, TurnWellformed
  <2>6. TypeOK'
    BY <2>2, <2>3, <2>5 DEF TypeOK, TurnLeaves, provider
  <2>7. ASSUME NEW q \in Rid
        PROVE  Ordered(q)'
    <3>1. request[q] # Nothing => request'[q] # Nothing /\ request'[q].method = request[q].method
      <4>1. request[q] # Nothing => RequestAfter(r, a)[q] # Nothing
                                    /\ RequestAfter(r, a)[q].method = request[q].method
        BY <2>3
      <4>2. \/ request'[q] = RequestAfter(r, a)[q]
            \/ request'[q] \in Request /\ request'[q].method = RequestAfter(r, a)[q].method
        BY <2>5 DEF TurnLeaves, Closes
      <4> QED
        BY <1>0, <4>1, <4>2
    <3>2. start' = start /\ prov' = prov
      BY <2>2 DEF provider
    <3>3. payment'[q] = Nothing <=> payment[q] = Nothing
      BY <2>3, <2>5 DEF TurnLeaves
    <3> QED
      BY <3>1, <3>2, <3>3 DEF References, Ordered
  <2>8. ASSUME NEW d \in Checker
        PROVE  Refers(check[d])'
    BY <2>2, <2>3, <2>5 DEF TurnLeaves, TypeOK, Task, References, Refers
  <2> QED
    BY <2>5, <2>6, <2>7, <2>8 DEF TurnLeaves, References
<1>15. ASSUME HubRestart
       PROVE  Wellformed'
  <2>1. Idle \in Task /\ Idle.on = Nothing /\ ~Idle.heard
    BY DEF Idle, Task, Answer
  <2>2. restarts' \in 0..MaxRestarts
    BY <1>15, PaymentsAssumption DEF HubRestart, TypeOK
  <2>3. TypeOK'
    BY <1>15, <2>1, <2>2 DEF HubRestart, TypeOK, tables, provider
  <2> QED
    BY <1>0, <1>15, <2>1, <2>3 DEF HubRestart, tables, provider, References, Refers, Ordered
<1>16. ASSUME NEW r \in Rid,
              \/ ProviderCreates(r, "PENDING") \/ ProviderCreates(r, "FAILED")
              \/ ProviderRefunds(r) \/ WeekPasses(r)
              \/ \E s \in {"SUCCEEDED", "FAILED", "EXPIRED"}, paysShort \in BOOLEAN : ProviderMoves(r, s, paysShort)
       PROVE  Wellformed'
  <2>1. ASSUME NEW s \in {"PENDING", "FAILED"}, ProviderCreates(r, s)
        PROVE  Wellformed'
    <3>1. s \in ProvStatus
      BY DEF ProvStatus
    <3>2. TypeOK'
      BY <2>1, <3>1 DEF ProviderCreates, TypeOK, tables
    <3>3. ASSUME NEW q \in Rid
          PROVE  Ordered(q)'
      BY <1>0, <2>1, <3>1 DEF ProviderCreates, TypeOK, tables, References, Ordered
    <3> QED
      BY <2>1, <3>2, <3>3 DEF ProviderCreates, tables, References, Refers
  <2>2. ASSUME NEW s \in ProvStatus, prov' = [prov EXCEPT ![r] = s], short' \in SUBSET Rid,
               UNCHANGED <<tables, aged, tasks, restarts>>
        PROVE  Wellformed'
    <3>1. TypeOK'
      BY <2>2 DEF TypeOK, tables, tasks
    <3> QED
      BY <1>0, <2>2, <3>1 DEF TypeOK, tables, tasks, References, Refers, Ordered
  <2>3. CASE ProviderRefunds(r)
    BY <2>2, <2>3 DEF ProviderRefunds, ProvStatus, TypeOK
  <2>4. CASE WeekPasses(r)
    BY <2>4 DEF WeekPasses, TypeOK, tables, tasks, References, Refers, Ordered
  <2>5. ASSUME NEW s \in {"SUCCEEDED", "FAILED", "EXPIRED"}, NEW paysShort \in BOOLEAN,
               ProviderMoves(r, s, paysShort)
        PROVE  Wellformed'
    <3>1. s \in ProvStatus /\ short' \in SUBSET Rid
      BY <2>5 DEF ProviderMoves, ProvStatus, TypeOK
    <3> QED
      BY <2>2, <2>5, <3>1 DEF ProviderMoves
  <2> QED
    BY <1>16, <2>1, <2>3, <2>4, <2>5
<1>17. ASSUME UNCHANGED vars
       PROVE  Wellformed'
  BY <1>17 DEF vars, TypeOK, References, Refers, Ordered
<1> QED
  BY <1>1, <1>3, <1>4, <1>5, <1>6, <1>7, <1>9, <1>11, <1>12, <1>13, <1>14, <1>15, <1>16, <1>17 DEF Next

(* Tables and tasks stay well formed, and refer to what is there. *)
THEOREM AlwaysWellformed == Spec => []Wellformed
  BY WellformedInit, WellformedStep, PTL DEF Spec

(* Every reachable state of requests, payments and tasks is well typed. *)
THEOREM PaymentsTyped == Spec => []TypeOK
<1>1. Wellformed => TypeOK
  BY DEF Wellformed
<1> QED
  BY <1>1, AlwaysWellformed, PTL

-----------------------------------------------------------------------------
(* A request brings credit at most once and only for money that came; a user   *)
(* waits for one request at a time; the tables keep the promise of             *)
(* CreditPromise.  All from what a step may do to a request's rows.            *)

(* What a step does to the rows of a request. *)

(* A row left alone, or closed while it waited. *)
Shuts(old, new) ==
    \/ new = old
    \/ /\ old # Nothing /\ new \in Request
       /\ old.status = "pending" /\ new.status \in {"declined", "cancelled"}
       /\ new.user = old.user /\ new.method = old.method

Marked(p) == p # Nothing /\ p.credited

(* Requests are at most closed, from `req`; the credit marks are those of `pay`. *)
Quiet(req, pay) ==
    \A q \in Rid : /\ Shuts(req[q], request'[q])
                   /\ Marked(payment'[q]) <=> Marked(pay[q])

Asks == \E r \in Rid, u \in User, m \in Method : Ask(r, u, m)
Decides == \E r \in Rid : Approve(r) \/ Decline(r)

(* A task applies its answer; the pass may give rows up in the same step. *)
AppliesTo(t) ==
    /\ t \in Task /\ t.heard /\ t.on \in Rid /\ payment[t.on] # Nothing
    /\ credit' = CreditAfter(t.on, t.answer)
    /\ Quiet(RequestAfter(t.on, t.answer), PaymentAfter(t.on, t.answer))
Applies == \/ \E c \in Checker : AppliesTo(check[c])
           \/ AppliesTo(sweep.task)

Rests == Quiet(request, payment) /\ credit' = credit

LEMMA QuietTurn ==
    ASSUME NEW req, NEW pay \in [Rid -> Payment \cup {Nothing}], NEW G \in SUBSET Rid,
           TurnLeaves(G, req, pay), \A r \in G : req[r] # Nothing
    PROVE  Quiet(req, pay)
<1>1. ASSUME NEW q \in Rid
      PROVE  Shuts(req[q], request'[q])
  BY <1>1 DEF TurnLeaves, Closes, Shuts
<1>2. ASSUME NEW q \in Rid
      PROVE  Marked(payment'[q]) <=> Marked(pay[q])
  <2>1. payment'[q] = Nothing <=> pay[q] = Nothing
    BY DEF TurnLeaves
  <2>2. pay[q] # Nothing => payment'[q].credited = pay[q].credited
    BY DEF TurnLeaves
  <2> QED
    BY <2>1, <2>2 DEF Marked
<1> QED
  BY <1>1, <1>2 DEF Quiet

LEMMA QuietClosed ==
    ASSUME TypeOK, NEW R \in SUBSET Rid, NEW status \in {"declined", "cancelled"},
           \A r \in R : request[r] # Nothing,
           request' = Closed(request, R, status), payment' = payment
    PROVE  Quiet(request, payment)
<1>1. request \in [Rid -> Request \cup {Nothing}]
  BY DEF TypeOK
<1>2. \A q \in Rid : \/ Closed(request, R, status)[q] = request[q]
                     \/ q \in R /\ Closes(request[q], Closed(request, R, status)[q], status)
  BY <1>1, ClosedEffect
<1>3. \A q \in Rid : Shuts(request[q], request'[q])
  BY <1>2 DEF Closes, Shuts
<1> QED
  BY <1>3 DEF Quiet

LEMMA QuietUnchanged ==
    ASSUME NEW req, NEW pay, request' = req, payment' = pay
    PROVE  Quiet(req, pay)
  BY DEF Quiet, Shuts

LEMMA StepKinds ==
    ASSUME Wellformed, [Next]_vars
    PROVE  Asks \/ Decides \/ Applies \/ Rests
<1> USE DEF Wellformed
<1>0. /\ Nothing \notin Request /\ Nothing \notin Payment
      /\ Nothing \notin ProvStatus /\ Nothing # "posting"
  BY NothingAssumption
<1>1. ASSUME NEW u \in User, Cancel(u)
      PROVE  Rests
  <2>1. Pending(u) \in SUBSET Rid /\ \A r \in Pending(u) : request[r] # Nothing
    BY DEF Pending
  <2> QED
    BY <1>1, <2>1, QuietClosed DEF Cancel, Rests
<1>2. ASSUME NEW r \in Rid, StartFailed(r)
      PROVE  Rests
  <2>1. {r} \in SUBSET Rid /\ \A q \in {r} : request[q] # Nothing
    BY <1>2 DEF StartFailed, References, Ordered
  <2> QED
    BY <1>2, <2>1, QuietClosed DEF StartFailed, Rests
<1>3. ASSUME NEW r \in Rid, StartRecorded(r)
      PROVE  Rests
  <2>1. payment[r] = Nothing
    BY <1>0, <1>3 DEF StartRecorded, References, Ordered
  <2>2. payment' = [payment EXCEPT ![r] = [status |-> start[r], credited |-> FALSE]]
    BY <1>3 DEF StartRecorded
  <2>3. ASSUME NEW q \in Rid
        PROVE  Marked(payment'[q]) <=> Marked(payment[q])
    BY <2>1, <2>2 DEF Marked, TypeOK
  <2>4. request' = request /\ credit' = credit
    BY <1>3 DEF StartRecorded
  <2> QED
    BY <2>3, <2>4 DEF Rests, Quiet, Shuts
<1>4. ASSUME NEW c \in Checker, CheckApplies(c)
      PROVE  Applies
  <2>1. check[c] \in Task /\ check[c].heard /\ check[c].on \in Rid /\ payment[check[c].on] # Nothing
    BY <1>4 DEF CheckApplies, TypeOK, Task, References, Refers
  <2>2. Quiet(RequestAfter(check[c].on, check[c].answer), PaymentAfter(check[c].on, check[c].answer))
    BY <1>4, QuietUnchanged DEF CheckApplies
  <2>3. credit' = CreditAfter(check[c].on, check[c].answer)
    BY <1>4 DEF CheckApplies
  <2> QED
    BY <2>1, <2>2, <2>3 DEF Applies, AppliesTo
<1>5. ASSUME NEW G \in SUBSET Rid, NEW next \in Rid \cup {Nothing}, SweepBegins(G, next)
      PROVE  Rests
  <2>1. /\ Swept \in SUBSET Rid /\ Swept \cap aged \in SUBSET Rid
        /\ \A r \in Swept : payment[r] # Nothing
        /\ \A r \in Rid : payment[r] # Nothing => request[r] # Nothing
        /\ request \in [Rid -> Request \cup {Nothing}]
        /\ payment \in [Rid -> Payment \cup {Nothing}]
    BY DEF Swept, References, Ordered, TypeOK
  <2>2. Turn(Swept, Swept \cap aged, G, next, request, payment) /\ credit' = credit
    BY <1>5 DEF SweepBegins
  <2>3. TurnLeaves(G, request, payment)
    BY <1>5, <2>1, <2>2, TurnWellformed
  <2>4. \A r \in G : request[r] # Nothing
    BY <2>1, <2>2 DEF Turn
  <2>5. Quiet(request, payment)
    BY <1>5, <2>1, <2>3, <2>4, QuietTurn
  <2> QED
    BY <2>2, <2>5 DEF Rests
<1>6. ASSUME NEW G \in SUBSET Rid, NEW next \in Rid \cup {Nothing}, SweepApplies(G, next)
      PROVE  Applies
  <2>1. /\ sweep.task \in Task /\ sweep.task.heard
        /\ sweep.task.on \in Rid /\ payment[sweep.task.on] # Nothing
    BY <1>6 DEF SweepApplies, TypeOK, Task, References, Refers
  <2> DEFINE r == sweep.task.on
             a == sweep.task.answer
  <2>2. /\ Turn(sweep.todo, sweep.old, G, next, RequestAfter(r, a), PaymentAfter(r, a))
        /\ credit' = CreditAfter(r, a)
    BY <1>6 DEF SweepApplies
  <2>3. r \in Rid /\ a \in Answer /\ payment[r] # Nothing
    BY <2>1 DEF Task
  <2> HIDE DEF r, a
  <2>4. TypeOK /\ request[r] # Nothing
    BY <2>3 DEF References, Ordered
  <2>5. /\ RequestAfter(r, a) \in [Rid -> Request \cup {Nothing}]
        /\ PaymentAfter(r, a) \in [Rid -> Payment \cup {Nothing}]
    BY <2>3, <2>4, ApplyEffect, ApplyPayment
  <2>6. \A q \in Rid : /\ payment[q] = Nothing <=> PaymentAfter(r, a)[q] = Nothing
                       /\ request[q] = Nothing <=> RequestAfter(r, a)[q] = Nothing
    BY <2>3, ApplyOrdered
  <2>7. \A q \in Rid : PaymentAfter(r, a)[q] # Nothing => RequestAfter(r, a)[q] # Nothing
    BY <2>6 DEF References, Ordered
  <2>8. /\ sweep.todo \in SUBSET Rid /\ sweep.old \in SUBSET Rid
        /\ \A q \in sweep.todo : PaymentAfter(r, a)[q] # Nothing
    BY <2>6 DEF TypeOK, References
  <2>9. TurnLeaves(G, RequestAfter(r, a), PaymentAfter(r, a))
    BY <1>6, <2>2, <2>5, <2>7, <2>8, TurnWellformed
  <2>10. \A q \in G : RequestAfter(r, a)[q] # Nothing
    BY <2>2, <2>7, <2>8 DEF Turn
  <2>11. Quiet(RequestAfter(r, a), PaymentAfter(r, a))
    BY <1>6, <2>5, <2>9, <2>10, QuietTurn
  <2> QED
    BY <2>1, <2>2, <2>11 DEF Applies, AppliesTo, r, a
<1>7. ASSUME UNCHANGED tables
      PROVE  Rests
  BY <1>7, QuietUnchanged DEF tables, Rests
<1>8. ASSUME NEW r \in Rid,
             \/ ProviderCreates(r, "PENDING") \/ ProviderCreates(r, "FAILED")
             \/ ProviderRefunds(r) \/ WeekPasses(r)
      PROVE  Rests
  BY <1>7, <1>8 DEF ProviderCreates, ProviderRefunds, WeekPasses
<1>9. ASSUME NEW c \in Checker,
             \/ \E r \in Rid : CheckAsks(c, r)
             \/ \E lost, silent \in BOOLEAN : CheckHears(c, lost, silent)
      PROVE  Rests
  BY <1>7, <1>9 DEF CheckAsks, CheckHears
<1>10. ASSUME \/ \E lost, silent \in BOOLEAN : SweepHears(lost, silent)
              \/ HubRestart
              \/ \E r \in Rid, s \in {"SUCCEEDED", "FAILED", "EXPIRED"}, paysShort \in BOOLEAN :
                    ProviderMoves(r, s, paysShort)
              \/ UNCHANGED vars
       PROVE  Rests
  BY <1>7, <1>10 DEF SweepHears, HubRestart, ProviderMoves, vars, tables
<1> QED
  BY <1>1, <1>2, <1>3, <1>4, <1>5, <1>6, <1>8, <1>9, <1>10 DEF Next, Asks, Decides

-----------------------------------------------------------------------------
(* What applying an answer does to the requests that wait. *)

LEMMA ApplyShuts ==
    ASSUME Wellformed, NEW r \in Rid, NEW a \in Answer, payment[r] # Nothing, NEW q \in Rid
    PROVE  /\ q # r => RequestAfter(r, a)[q] = request[q]
           /\ ~Credits(r, a) => Shuts(request[q], RequestAfter(r, a)[q])
           /\ Credits(r, a) => RequestAfter(r, a)[r].status = "approved"
           /\ RequestAfter(r, a)[r] \in Request
           /\ RequestAfter(r, a)[r].user = request[r].user
           /\ RequestAfter(r, a)[r].method = request[r].method
<1>1. request[r] # Nothing /\ TypeOK
  BY DEF Wellformed, References, Ordered
<1>2. CASE q = r
  BY <1>1, <1>2, ApplyEffect DEF Shuts
<1>3. CASE q # r
  BY <1>1, <1>3, ApplyEffect DEF Shuts
<1> QED
  BY <1>2, <1>3

(* Only Ask makes a request wait, and none changes hands. *)
LEMMA OnlyAskWaits ==
    ASSUME Wellformed, [Next]_vars, ~Asks, NEW q \in Rid, IsPending(q)'
    PROVE  IsPending(q) /\ request'[q].user = request[q].user
<1>1. request'[q] # Nothing /\ request'[q].status = "pending"
  BY DEF IsPending
<1>2. CASE Decides
  <2>1. PICK r \in Rid : Approve(r) \/ Decline(r)
    BY <1>2 DEF Decides
  <2>2. PICK status \in {"approved", "declined"} : request' = [request EXCEPT ![r].status = status]
    BY <2>1 DEF Approve, Decline
  <2>3. request[r] \in Request
    BY <2>1 DEF Approve, Decline, IsPending, Wellformed, TypeOK
  <2>4. q # r
    BY <1>1, <2>2, <2>3 DEF Wellformed, TypeOK, Request
  <2> QED
    BY <1>1, <2>2, <2>4 DEF Wellformed, TypeOK, IsPending
<1>3. CASE Applies
  <2>1. PICK t \in Task : AppliesTo(t)
    BY <1>3 DEF Applies, AppliesTo
  <2>2. /\ t.on \in Rid /\ t.answer \in Answer /\ payment[t.on] # Nothing
        /\ Shuts(RequestAfter(t.on, t.answer)[q], request'[q])
    BY <2>1 DEF AppliesTo, Quiet, Task
  <2>3. request'[q] = RequestAfter(t.on, t.answer)[q]
    BY <1>1, <2>2 DEF Shuts
  <2>4. q = t.on => ~Credits(t.on, t.answer)
    BY <1>1, <2>2, <2>3, ApplyShuts
  <2>5. Shuts(request[q], RequestAfter(t.on, t.answer)[q])
    BY <2>2, <2>4, ApplyShuts DEF Shuts
  <2> QED
    BY <1>1, <2>3, <2>5 DEF Shuts, IsPending
<1>4. CASE Rests
  BY <1>1, <1>4 DEF Rests, Quiet, Shuts, IsPending
<1> QED
  BY <1>2, <1>3, <1>4, StepKinds

LEMMA OnePendingStep == Wellformed /\ OnePendingRequest /\ [Next]_vars => OnePendingRequest'
<1> SUFFICES ASSUME Wellformed, OnePendingRequest, [Next]_vars,
                    NEW q \in Rid, NEW r \in Rid,
                    IsPending(q)', IsPending(r)', request'[q].user = request'[r].user
             PROVE  q = r
  BY DEF OnePendingRequest
<1>1. CASE Asks
  <2>1. PICK new \in Rid, u \in User, m \in Method : Ask(new, u, m)
    BY <1>1 DEF Asks
  <2>2. /\ request'[new].user = u
        /\ \A p \in Rid \ {new} : request'[p] = request[p]
    BY <2>1 DEF Ask, Wellformed, TypeOK
  <2>3. \A p \in Rid \ {new} : IsPending(p)' => IsPending(p) /\ p \notin Pending(u)
    BY <2>1, <2>2 DEF Ask, IsPending
  <2>4. \A p \in Rid \ {new} : IsPending(p)' => request'[p].user # u
    BY <2>2, <2>3 DEF Pending, IsPending
  <2>5. CASE q # new /\ r # new
    BY <2>2, <2>3, <2>5 DEF OnePendingRequest
  <2> QED
    BY <2>2, <2>4, <2>5
<1>2. CASE ~Asks
  <2>1. /\ IsPending(q) /\ request'[q].user = request[q].user
        /\ IsPending(r) /\ request'[r].user = request[r].user
    BY <1>2, OnlyAskWaits
  <2> QED
    BY <2>1 DEF OnePendingRequest
<1> QED
  BY <1>1, <1>2

(* "A user has one waiting request at a time": online requests whose payment   *)
(* is being started, and hub restarts, included; for any number of requests.   *)
THEOREM OneWaitingRequest == Spec => []OnePendingRequest
<1>1. Init => OnePendingRequest
  BY DEF Init, OnePendingRequest, IsPending
<1> QED
  BY <1>1, OnePendingStep, AlwaysWellformed, PTL DEF Spec

-----------------------------------------------------------------------------
(* One credit for one request. *)

(* What the rows of a request, its payment and its top-ups agree on. *)
Agree(q, p, c) ==
    /\ c \in {<<>>, Eco, Hand}
    /\ q # Nothing /\ q.status = "approved" <=> c # <<>>
    /\ c = Eco <=> Marked(p)
    /\ c = Hand => q.method = "manual"

LEMMA AgreeIsCredited ==
    ASSUME NEW r \in Rid
    PROVE  Agree(request[r], payment[r], credit[r]) <=>
              /\ credit[r] \in {<<>>, Eco, Hand}
              /\ Standing(r) = "approved" <=> credit[r] # <<>>
              /\ credit[r] = Eco <=> payment[r] # Nothing /\ payment[r].credited
              /\ credit[r] = Hand => request[r].method = "manual"
  BY DEF Agree, Standing, Marked

LEMMA TopUps == /\ <<>> # Eco /\ <<>> # Hand /\ Eco # Hand
                /\ Append(<<>>, "eco-payments") = Eco /\ Append(<<>>, "admin") = Hand
  BY DEF Eco, Hand

LEMMA ShutAgrees ==
    ASSUME NEW q, NEW new, NEW p, NEW pnew, NEW c,
           Agree(q, p, c), Shuts(q, new), Marked(pnew) <=> Marked(p)
    PROVE  Agree(new, pnew, c)
  BY NothingAssumption DEF Agree, Shuts

LEMMA ApplyAgrees ==
    ASSUME Wellformed, NEW r \in Rid, NEW a \in Answer, payment[r] # Nothing,
           NEW q \in Rid, Agree(request[q], payment[q], credit[q])
    PROVE  Agree(RequestAfter(r, a)[q], PaymentAfter(r, a)[q], CreditAfter(r, a)[q])
<1>1. TypeOK /\ request[r] # Nothing /\ request[r].method = "online"
  BY DEF Wellformed, References, Ordered
<1>2. Nothing \notin Request /\ Nothing \notin Payment
  BY NothingAssumption
<1>3. CASE q # r
  <2>1. /\ RequestAfter(r, a)[q] = request[q] /\ PaymentAfter(r, a)[q] = payment[q]
        /\ CreditAfter(r, a)[q] = credit[q]
    BY <1>1, <1>3, ApplyEffect, ApplyPayment
  <2> QED
    BY <2>1
<1>4. CASE q = r /\ Credits(r, a)
  <2>1. /\ RequestAfter(r, a)[r] \in Request /\ RequestAfter(r, a)[r].status = "approved"
        /\ PaymentAfter(r, a)[r] \in Payment /\ PaymentAfter(r, a)[r].credited
        /\ CreditAfter(r, a)[r] = Append(credit[r], "eco-payments")
    BY <1>1, <1>4, ApplyEffect, ApplyPayment
  <2>2. credit[r] = <<>>
    BY <1>1, <1>4, TopUps DEF Agree, Marked, Credits
  <2> QED
    BY <1>2, <1>4, <2>1, <2>2, TopUps DEF Agree, Marked
<1>5. CASE q = r /\ ~Credits(r, a)
  <2>1. Shuts(request[r], RequestAfter(r, a)[r])
    BY <1>5, ApplyShuts
  <2>2. /\ PaymentAfter(r, a)[r] \in Payment
        /\ PaymentAfter(r, a)[r].credited <=> payment[r].credited
        /\ CreditAfter(r, a)[r] = credit[r]
    BY <1>1, <1>5, ApplyPayment
  <2>3. Marked(PaymentAfter(r, a)[r]) <=> Marked(payment[r])
    BY <1>2, <2>2 DEF Marked
  <2> QED
    BY <1>5, <2>1, <2>2, <2>3, ShutAgrees
<1> QED
  BY <1>3, <1>4, <1>5

AllAgree == \A r \in Rid : Agree(request[r], payment[r], credit[r])

LEMMA AllAgreeStep == Wellformed /\ AllAgree /\ [Next]_vars => AllAgree'
<1> SUFFICES ASSUME Wellformed, AllAgree, [Next]_vars, NEW q \in Rid
             PROVE  Agree(request'[q], payment'[q], credit'[q])
  BY DEF AllAgree, Agree, Marked
<1>0. Nothing \notin Request
  BY NothingAssumption
<1>1. CASE Asks
  <2>1. PICK r \in Rid, u \in User, m \in Method : Ask(r, u, m)
    BY <1>1 DEF Asks
  <2>2. payment' = payment /\ credit' = credit
    BY <2>1 DEF Ask
  <2>3. CASE q = r
    <3>1. credit[q] = <<>>
      BY <2>1, <2>3 DEF AllAgree, Agree, Ask, NextRid
    <3>2. request'[q].status = "pending"
      BY <2>1, <2>3 DEF Ask, Wellformed, TypeOK
    <3> QED
      BY <2>2, <3>1, <3>2, TopUps DEF AllAgree, Agree
  <2>4. CASE q # r
    BY <2>1, <2>2, <2>4 DEF Ask, Wellformed, TypeOK, AllAgree
  <2> QED
    BY <2>3, <2>4
<1>2. CASE Decides
  <2>1. PICK r \in Rid : Approve(r) \/ Decline(r)
    BY <1>2 DEF Decides
  <2>2. payment' = payment
    BY <2>1 DEF Approve, Decline
  <2>3. request[r] \in Request /\ request[r].status = "pending" /\ request[r].method = "manual"
    BY <2>1 DEF Approve, Decline, IsPending, Wellformed, TypeOK
  <2>4. credit[r] = <<>> /\ ~Marked(payment[r])
    BY <2>3, TopUps DEF AllAgree, Agree
  <2>5. /\ request \in [Rid -> Request \cup {Nothing}]
        /\ credit \in [Rid -> Seq({"admin", "eco-payments"})]
    BY DEF Wellformed, TypeOK
  <2>6. CASE q = r /\ Approve(r)
    <3>1. request'[r] = [request[r] EXCEPT !.status = "approved"] /\ credit'[r] = Hand
      BY <2>4, <2>5, <2>6, TopUps DEF Approve
    <3>2. /\ request'[r] \in Request /\ request'[r].status = "approved"
          /\ request'[r].method = "manual"
      BY <2>3, <3>1 DEF Request
    <3> QED
      BY <1>0, <2>2, <2>4, <2>6, <3>1, <3>2, TopUps DEF Agree
  <2>7. CASE q = r /\ Decline(r)
    <3>1. request'[r] = [request[r] EXCEPT !.status = "declined"] /\ credit' = credit
      BY <2>5, <2>7 DEF Decline
    <3>2. Shuts(request[r], request'[r])
      BY <1>0, <2>3, <3>1 DEF Request, Shuts
    <3> QED
      BY <2>2, <2>7, <3>1, <3>2, ShutAgrees DEF AllAgree
  <2>8. CASE q # r
    <3>1. request'[q] = request[q] /\ credit'[q] = credit[q]
      BY <2>1, <2>5, <2>8 DEF Approve, Decline
    <3> QED
      BY <2>2, <3>1 DEF AllAgree
  <2> QED
    BY <2>1, <2>6, <2>7, <2>8
<1>3. CASE Applies
  <2>1. PICK t \in Task : AppliesTo(t)
    BY <1>3 DEF Applies, AppliesTo
  <2>2. /\ t.on \in Rid /\ t.answer \in Answer /\ payment[t.on] # Nothing
        /\ credit' = CreditAfter(t.on, t.answer)
        /\ Shuts(RequestAfter(t.on, t.answer)[q], request'[q])
        /\ Marked(payment'[q]) <=> Marked(PaymentAfter(t.on, t.answer)[q])
    BY <2>1 DEF AppliesTo, Quiet, Task
  <2>3. Agree(RequestAfter(t.on, t.answer)[q], PaymentAfter(t.on, t.answer)[q],
              CreditAfter(t.on, t.answer)[q])
    BY <2>2, ApplyAgrees DEF AllAgree
  <2> QED
    BY <2>2, <2>3, ShutAgrees
<1>4. CASE Rests
  BY <1>4, ShutAgrees DEF Rests, Quiet, AllAgree
<1> QED
  BY <1>1, <1>2, <1>3, <1>4, StepKinds

LEMMA AllAgreeIsCreditedOnce == AllAgree <=> CreditedOnce
  BY AgreeIsCredited DEF AllAgree, CreditedOnce

(* However many checks race, and whatever the user, the administrator and the  *)
(* background pass did meanwhile: one top-up for an approved request, none for *)
(* any other, and the payment's mark tells which.                              *)
THEOREM SingleCredit == Spec => []CreditedOnce
<1>1. Init => AllAgree
  BY TopUps DEF Init, AllAgree, Agree, Marked
<1>2. Spec => []AllAgree
  BY <1>1, AllAgreeStep, AlwaysWellformed, PTL DEF Spec
<1> QED
  BY <1>2, AllAgreeIsCreditedOnce, PTL

-----------------------------------------------------------------------------
(* Only money that came is credited. *)

(* The provider has the money, or has given it back: all of it, unless its     *)
(* answers may leave the amount out.                                           *)
Came(r, p, s) == p[r] \in {"SUCCEEDED", "REFUNDED"} /\ (r \in s => r \in Silent)

(* A task that heard of no other amount heard the truth, however old it is. *)
Truthful(t, p, s) ==
    t.on \in Rid /\ t.heard /\ t.answer.status = "SUCCEEDED" /\ ~t.answer.other => Came(t.on, p, s)
Truths == /\ \A c \in Checker : Truthful(check[c], prov, short)
          /\ Truthful(sweep.task, prov, short)

LEMMA CameStays ==
    ASSUME Wellformed, [Next]_vars, NEW r \in Rid, Came(r, prov, short)
    PROVE  Came(r, prov', short')
<1> USE DEF Came
<1>0. Nothing \notin ProvStatus /\ TypeOK
  BY NothingAssumption DEF Wellformed
<1>1. CASE UNCHANGED <<prov, short>>
  BY <1>1
<1>2. ASSUME NEW q \in Rid, ProviderCreates(q, "PENDING") \/ ProviderCreates(q, "FAILED")
      PROVE  Came(r, prov', short')
  <2>1. q # r
    BY <1>0, <1>2 DEF ProviderCreates, ProvStatus
  <2> QED
    BY <1>0, <1>2, <2>1 DEF ProviderCreates, TypeOK
<1>3. ASSUME NEW q \in Rid, ProviderRefunds(q)
      PROVE  Came(r, prov', short')
  BY <1>0, <1>3 DEF ProviderRefunds, TypeOK
<1>4. ASSUME NEW q \in Rid, NEW s \in {"SUCCEEDED", "FAILED", "EXPIRED"}, NEW paysShort \in BOOLEAN,
             ProviderMoves(q, s, paysShort)
      PROVE  Came(r, prov', short')
  <2>1. q # r
    BY <1>4 DEF ProviderMoves
  <2>2. prov'[r] = prov[r] /\ (r \in short' => r \in short)
    BY <1>0, <1>4, <2>1 DEF ProviderMoves, TypeOK
  <2> QED
    BY <2>2
<1>5. CASE \/ Asks \/ Decides \/ \E u \in User : Cancel(u)
           \/ \E q \in Rid : StartRecorded(q) \/ StartFailed(q) \/ WeekPasses(q)
  BY <1>1, <1>5 DEF Asks, Ask, Decides, Approve, Decline, Cancel, StartRecorded, StartFailed,
                    WeekPasses, provider
<1>6. CASE \E c \in Checker : \/ \E q \in Rid : CheckAsks(c, q)
                             \/ \E lost, silent \in BOOLEAN : CheckHears(c, lost, silent)
                             \/ CheckApplies(c)
  BY <1>1, <1>6 DEF CheckAsks, CheckHears, CheckApplies, provider
<1>7. CASE \/ \E G \in SUBSET Rid, next \in Rid \cup {Nothing} :
                 SweepBegins(G, next) \/ SweepApplies(G, next)
           \/ \E lost, silent \in BOOLEAN : SweepHears(lost, silent)
           \/ HubRestart
           \/ UNCHANGED vars
  BY <1>1, <1>7 DEF SweepBegins, SweepApplies, SweepHears, HubRestart, provider, vars
<1> QED
  BY <1>2, <1>3, <1>4, <1>5, <1>6, <1>7 DEF Next, Asks, Decides

LEMMA HeardTruth ==
    ASSUME NEW t \in Task, t.on \in Rid, NEW lost \in BOOLEAN, NEW silent \in BOOLEAN,
           silent => t.on \in Silent
    PROVE  Truthful(Heard(t, AnswerOf(t.on, lost, silent)), prov, short)
<1>1. PICK a : a = AnswerOf(t.on, lost, silent)
  OBVIOUS
<1>2. PICK new : new = Heard(t, a)
  OBVIOUS
<1>3. new.on = t.on /\ new.answer = a
  BY <1>2 DEF Heard, Task
<1>4. a.status = "SUCCEEDED" /\ ~a.other => Came(t.on, prov, short)
  <2>1. CASE lost
    <3>1. a.status = ""
      BY <1>1, <2>1 DEF AnswerOf, NoAnswer
    <3> QED
      BY <3>1
  <2>2. CASE ~lost
    <3> DEFINE least == prov[t.on] = "SUCCEEDED" /\ t.on \in short /\ ~silent
    <3>1. a = [status |-> prov[t.on], other |-> least]
      BY <1>1, <2>2 DEF AnswerOf
    <3>2. a.status = prov[t.on]
      BY <3>1
    <3>3. least => a.other
      <4>1. [status |-> prov[t.on], other |-> least].other = least
        BY Zenon
      <4> QED
        BY <3>1, <4>1, Zenon
    <3> QED
      BY <3>2, <3>3 DEF Came
  <2> QED
    BY <2>1, <2>2
<1> QED
  BY <1>1, <1>2, <1>3, <1>4 DEF Truthful

LEMMA TruthsStep == Wellformed /\ Truths /\ [Next]_vars => Truths'
<1> SUFFICES ASSUME Wellformed, Truths, [Next]_vars
             PROVE  Truths'
  OBVIOUS
<1>0. TypeOK /\ ~Idle.heard
  BY DEF Wellformed, Idle
<1>1. ASSUME NEW t, Truthful(t, prov, short)
      PROVE  Truthful(t, prov', short')
  BY <1>1, CameStays DEF Truthful
<1>2. ASSUME NEW t, ~t.heard
      PROVE  Truthful(t, prov', short')
  BY <1>2 DEF Truthful
<1>3. CASE check' = check /\ sweep'.task = sweep.task
  BY <1>1, <1>3 DEF Truths, Truthful
<1>4. ASSUME NEW c \in Checker, NEW new, check' = [check EXCEPT ![c] = new], Truthful(new, prov', short'),
             sweep' = sweep
      PROVE  Truths'
  <2>1. \A d \in Checker : Truthful(check'[d], prov', short')
    BY <1>0, <1>1, <1>4 DEF TypeOK, Truths
  <2> QED
    BY <1>1, <1>4, <2>1 DEF Truths, Truthful
<1>5. ASSUME NEW c \in Checker, \E r \in Rid : CheckAsks(c, r)
      PROVE  Truths'
  <2>1. PICK r \in Rid : CheckAsks(c, r)
    BY <1>5
  <2>2. ~Asking(r).heard
    BY DEF Asking
  <2> QED
    BY <1>2, <1>4, <2>1, <2>2 DEF CheckAsks
<1>6. ASSUME NEW c \in Checker, \E lost, silent \in BOOLEAN : CheckHears(c, lost, silent)
      PROVE  Truths'
  <2>1. PICK lost, silent \in BOOLEAN : CheckHears(c, lost, silent)
    BY <1>6
  <2>2. /\ check' = [check EXCEPT ![c] = Heard(check[c], AnswerOf(check[c].on, lost, silent))]
        /\ prov' = prov /\ short' = short /\ sweep' = sweep
        /\ check[c] \in Task /\ check[c].on \in Rid /\ (silent => check[c].on \in Silent)
    BY <1>0, <2>1 DEF CheckHears, provider, TypeOK, Task
  <2> DEFINE new == Heard(check[c], AnswerOf(check[c].on, lost, silent))
  <2>3. Truthful(new, prov, short)
    BY <2>2, HeardTruth
  <2> HIDE DEF new
  <2> QED
    BY <1>4, <2>2, <2>3 DEF new
<1>7. ASSUME NEW c \in Checker, CheckApplies(c)
      PROVE  Truths'
  BY <1>0, <1>2, <1>4, <1>7 DEF CheckApplies
<1>8. ASSUME check' = check, ~sweep'.task.heard
      PROVE  Truths'
  BY <1>1, <1>2, <1>8 DEF Truths, Truthful
<1>9. ASSUME NEW G \in SUBSET Rid, NEW next \in Rid \cup {Nothing},
             SweepBegins(G, next) \/ SweepApplies(G, next)
      PROVE  Truths'
  <2>1. check' = check /\ sweep'.task = IF next = Nothing THEN Idle ELSE Asking(next)
    BY <1>9 DEF SweepBegins, SweepApplies, Turn
  <2>2. ~Idle.heard /\ ~Asking(next).heard
    BY DEF Idle, Asking
  <2> QED
    BY <1>8, <2>1, <2>2
<1>10. ASSUME NEW lost \in BOOLEAN, NEW silent \in BOOLEAN, SweepHears(lost, silent)
       PROVE  Truths'
  <2>1. /\ sweep'.task = Heard(sweep.task, AnswerOf(sweep.task.on, lost, silent))
        /\ check' = check /\ prov' = prov /\ short' = short
        /\ sweep.task \in Task /\ sweep.task.on \in Rid
        /\ silent => sweep.task.on \in Silent
    BY <1>0, <1>10 DEF SweepHears, provider, TypeOK, Task
  <2>2. Truthful(sweep'.task, prov, short)
    BY <2>1, HeardTruth
  <2> QED
    BY <1>1, <2>1, <2>2 DEF Truths, Truthful
<1>11. CASE HubRestart
  BY <1>0, <1>2, <1>11 DEF HubRestart, Truths
<1>12. CASE \/ Asks \/ Decides \/ \E u \in User : Cancel(u)
            \/ \E r \in Rid : \/ StartRecorded(r) \/ StartFailed(r) \/ WeekPasses(r)
                             \/ ProviderCreates(r, "PENDING") \/ ProviderCreates(r, "FAILED")
                             \/ ProviderRefunds(r)
            \/ \E r \in Rid, s \in {"SUCCEEDED", "FAILED", "EXPIRED"}, paysShort \in BOOLEAN :
                  ProviderMoves(r, s, paysShort)
            \/ UNCHANGED vars
  BY <1>3, <1>12 DEF Asks, Ask, Decides, Approve, Decline, Cancel, StartRecorded, StartFailed,
                     WeekPasses, ProviderCreates, ProviderRefunds, ProviderMoves, tasks, vars
<1> QED
  BY <1>5, <1>6, <1>7, <1>9, <1>10, <1>11, <1>12 DEF Next, Asks, Decides

(* A credit that stands was made before, or is made from a truthful answer.    *)
LEMMA OnlyPaidStep ==
    Wellformed /\ AllAgree /\ Truths /\ OnlyPaidIsCredited /\ [Next]_vars => OnlyPaidIsCredited'
<1> SUFFICES ASSUME Wellformed, AllAgree, Truths, OnlyPaidIsCredited, [Next]_vars,
                    NEW r \in Rid, credit'[r] = Eco
             PROVE  Came(r, prov', short')
  BY DEF OnlyPaidIsCredited, Came
<1>1. CASE credit[r] = Eco
  BY <1>1, CameStays DEF OnlyPaidIsCredited, Came
<1>2. CASE credit[r] # Eco
  <2>1. ~Asks /\ ~Rests
    BY <1>2 DEF Asks, Ask, Rests
  <2>2. ~Decides
    <3> SUFFICES ASSUME NEW q \in Rid, Approve(q) \/ Decline(q)
                 PROVE  FALSE
      BY DEF Decides
    <3>1. request[q] \in Request /\ request[q].status = "pending"
      BY DEF Approve, Decline, IsPending, Wellformed, TypeOK
    <3>2. credit[q] = <<>>
      BY <3>1 DEF AllAgree, Agree
    <3>3. credit'[r] = credit[r] \/ credit'[r] = Hand
      BY <3>2, TopUps DEF Approve, Decline, Wellformed, TypeOK
    <3> QED
      BY <1>2, <3>3, TopUps
  <2>3. Applies
    BY <2>1, <2>2, StepKinds
  <2>4. PICK t \in Task : AppliesTo(t) /\ Truthful(t, prov, short)
    BY <2>3 DEF Applies, AppliesTo, Truths
  <2>5. /\ t.on \in Rid /\ t.answer \in Answer /\ payment[t.on] # Nothing /\ t.heard
        /\ credit' = CreditAfter(t.on, t.answer)
    BY <2>4 DEF AppliesTo, Task
  <2>6. r = t.on /\ Credits(t.on, t.answer)
    BY <1>2, <2>5, ApplyPayment DEF Wellformed
  <2>7. t.answer.status = "SUCCEEDED" /\ ~t.answer.other
    BY <2>6 DEF Credits, Stored
  <2> QED
    BY <2>4, <2>5, <2>6, <2>7, CameStays DEF Truthful
<1> QED
  BY <1>1, <1>2

(* No credit by a payment that failed, nor by one that brought another amount  *)
(* and of which every answer reports it, whatever the age of the answer that   *)
(* is applied and whoever else applied one meanwhile.  On an answer without an *)
(* amount the code credits and does not compare.                               *)
THEOREM OnlyPaid == Spec => []OnlyPaidIsCredited
<1>1. Init => AllAgree /\ Truths /\ OnlyPaidIsCredited
  BY TopUps DEF Init, AllAgree, Agree, Marked, Truths, Truthful, Idle, OnlyPaidIsCredited
<1>2. Spec => [](AllAgree /\ Truths /\ OnlyPaidIsCredited)
  BY <1>1, AllAgreeStep, TruthsStep, OnlyPaidStep, AlwaysWellformed, PTL DEF Spec
<1> QED
  BY <1>2, PTL

-----------------------------------------------------------------------------
(* The promise. *)

LEMMA PromiseInit == Init => Promise!Init
  BY DEF Init, Promise!Init, Standing

LEMMA ShutSettles ==
    ASSUME NEW q \in Rid, request[q] \in Request \cup {Nothing}, Shuts(request[q], request'[q])
    PROVE  /\ Standing(q)' = Standing(q) \/ (Standing(q) = "pending" /\ Standing(q)' \in {"declined", "cancelled"})
           /\ (request'[q] # Nothing /\ request'[q].method = "online")
                 <=> (request[q] # Nothing /\ request[q].method = "online")
  BY NothingAssumption DEF Standing, Shuts

LEMMA PromiseStep ==
    Wellformed /\ AllAgree /\ [Next]_vars
        => Promise!Next \/ UNCHANGED <<[r \in Rid |-> Standing(r)],
                                       {r \in Rid : request[r] # Nothing /\ request[r].method = "online"},
                                       {r \in Rid : credit[r] # <<>>}>>
<1> SUFFICES ASSUME Wellformed, AllAgree, [Next]_vars
             PROVE  Promise!Next
  OBVIOUS
<1> DEFINE state == [r \in Rid |-> Standing(r)]
           online == {r \in Rid : request[r] # Nothing /\ request[r].method = "online"}
           received == {r \in Rid : credit[r] # <<>>}
<1>0. /\ Nothing \notin Request
      /\ request \in [Rid -> Request \cup {Nothing}]
      /\ credit \in [Rid -> Seq({"admin", "eco-payments"})]
  BY NothingAssumption DEF Wellformed, TypeOK
<1>1. ASSUME \A q \in Rid : Shuts(request[q], request'[q]), credit' = credit
      PROVE  Promise!Close
  <2>1. \A q \in Rid : \/ Standing(q)' = Standing(q)
                       \/ Standing(q) = "pending" /\ Standing(q)' \in {"declined", "cancelled"}
    BY <1>0, <1>1, ShutSettles
  <2>2. online' = online
    BY <1>0, <1>1, ShutSettles
  <2>3. received' = received
    BY <1>1
  <2> QED
    BY <2>1, <2>2, <2>3 DEF Promise!Close, Promise!Settle, Promise!Stands, Promise!Closes
<1>2. ASSUME NEW r \in Rid, Standing(r) = "pending" \/ (r \in online /\ Standing(r) \in {"declined", "cancelled"}),
             Standing(r)' = "approved",
             \A q \in Rid \ {r} : Shuts(request[q], request'[q]) /\ credit'[q] = credit[q],
             credit'[r] # <<>>, request'[r] # Nothing, request'[r].method = request[r].method
      PROVE  Promise!Grant(r)
  <2>1. \A q \in Rid \ {r} : \/ Standing(q)' = Standing(q)
                             \/ Standing(q) = "pending" /\ Standing(q)' \in {"declined", "cancelled"}
    BY <1>0, <1>2, ShutSettles
  <2>2. request[r] # Nothing
    BY <1>2 DEF Standing
  <2>3. online' = online
    BY <1>0, <1>2, <2>2, ShutSettles
  <2>4. received' = received \cup {r}
    BY <1>2
  <2>5. state'[r] = "approved"
    BY <1>2
  <2> QED
    BY <1>2, <2>1, <2>3, <2>4, <2>5 DEF Promise!Grant, Promise!Settle, Promise!Stands, Promise!Closes
<1>3. CASE Asks
  <2>1. PICK r \in Rid, u \in User, m \in Method : Ask(r, u, m)
    BY <1>3 DEF Asks
  <2>2. /\ request[r] = Nothing /\ credit' = credit
        /\ request' = [request EXCEPT ![r] = [user |-> u, method |-> m, status |-> "pending"]]
    BY <2>1 DEF Ask, NextRid
  <2>3. [user |-> u, method |-> m, status |-> "pending"] # Nothing
    BY <1>0 DEF Request
  <2>4. /\ request'[r] # Nothing /\ request'[r].method = m /\ request'[r].status = "pending"
        /\ \A q \in Rid \ {r} : request'[q] = request[q]
    BY <1>0, <2>2, <2>3
  <2>5. state[r] = "none" /\ state' = [state EXCEPT ![r] = "pending"]
    <3>1. Standing(r) = "none" /\ Standing(r)' = "pending"
      BY <2>2, <2>4 DEF Standing
    <3>2. \A q \in Rid \ {r} : Standing(q)' = Standing(q)
      BY <2>4 DEF Standing
    <3>3. \A q \in Rid : state'[q] = [state EXCEPT ![r] = "pending"][q]
      BY <3>1, <3>2
    <3> QED
      BY <3>1, <3>3
  <2>6. online' \in {online, online \cup {r}}
    <3>1. \A q \in Rid \ {r} : q \in online' <=> q \in online
      BY <2>4
    <3>2. online' = IF m = "online" THEN online \cup {r} ELSE online
      BY <2>2, <2>4, <3>1
    <3> QED
      BY <3>2
  <2>7. received' = received
    BY <2>2
  <2>8. Promise!Ask(r)
    BY <2>5, <2>6, <2>7 DEF Promise!Ask
  <2> QED
    BY <2>8 DEF Promise!Next
<1>4. CASE Decides
  <2>1. PICK r \in Rid : Approve(r) \/ Decline(r)
    BY <1>4 DEF Decides
  <2>2. request[r] \in Request /\ request[r].status = "pending"
    BY <2>1 DEF Approve, Decline, IsPending, Wellformed, TypeOK
  <2>3. CASE Approve(r)
    <3>1. /\ request' = [request EXCEPT ![r].status = "approved"]
          /\ credit' = [credit EXCEPT ![r] = Append(credit[r], "admin")]
      BY <2>3 DEF Approve
    <3>2. /\ request'[r] = [request[r] EXCEPT !.status = "approved"]
          /\ \A q \in Rid \ {r} : request'[q] = request[q] /\ credit'[q] = credit[q]
      BY <1>0, <3>1
    <3>3. request'[r] \in Request /\ request'[r].status = "approved" /\ request'[r].method = request[r].method
      BY <2>2, <3>2 DEF Request
    <3>4. credit'[r] # <<>>
      <4>1. credit[r] = <<>>
        BY <2>2 DEF AllAgree, Agree
      <4> QED
        BY <1>0, <3>1, <4>1, TopUps
    <3>5. Standing(r) = "pending" /\ Standing(r)' = "approved"
      BY <1>0, <2>2, <3>3 DEF Standing
    <3>6. Promise!Grant(r)
      BY <1>0, <1>2, <3>2, <3>3, <3>4, <3>5 DEF Shuts
    <3> QED
      BY <3>6 DEF Promise!Next
  <2>4. CASE Decline(r)
    <3>1. request' = [request EXCEPT ![r].status = "declined"] /\ credit' = credit
      BY <2>4 DEF Decline
    <3>2. Shuts(request[r], request'[r])
      BY <1>0, <2>2, <3>1 DEF Shuts, Request
    <3>3. \A q \in Rid : Shuts(request[q], request'[q])
      BY <1>0, <3>1, <3>2 DEF Shuts
    <3> QED
      BY <1>1, <3>1, <3>3 DEF Promise!Next
  <2> QED
    BY <2>1, <2>3, <2>4
<1>5. CASE Applies
  <2>1. PICK t \in Task : AppliesTo(t)
    BY <1>5 DEF Applies, AppliesTo
  <2>2. PICK r, a : r = t.on /\ a = t.answer
    OBVIOUS
  <2>3. /\ r \in Rid /\ a \in Answer /\ payment[r] # Nothing
        /\ credit' = CreditAfter(r, a)
        /\ \A q \in Rid : Shuts(RequestAfter(r, a)[q], request'[q])
    BY <2>1, <2>2 DEF AppliesTo, Quiet, Task
  <2>4. request[r] \in Request /\ request[r].method = "online" /\ TypeOK
    BY <2>3 DEF Wellformed, References, Ordered, TypeOK
  <2>5. CASE Credits(r, a)
    <3>1. /\ RequestAfter(r, a)[r].status = "approved"
          /\ RequestAfter(r, a)[r] \in Request
          /\ RequestAfter(r, a)[r].method = request[r].method
      BY <2>3, <2>5, ApplyShuts
    <3>2. request'[r] = RequestAfter(r, a)[r]
      BY <2>3, <3>1 DEF Shuts
    <3>3. \A q \in Rid \ {r} : Shuts(request[q], request'[q]) /\ credit'[q] = credit[q]
      BY <2>3, <2>4, ApplyShuts, ApplyPayment
    <3>4. credit[r] = <<>>
      BY <2>3, <2>4, <2>5, TopUps DEF AllAgree, Agree, Marked, Credits
    <3>5. credit'[r] # <<>>
      BY <2>3, <2>4, <2>5, <3>4, ApplyPayment, TopUps
    <3>6. request[r].status # "approved"
      BY <1>0, <2>3, <2>4, <3>4 DEF AllAgree, Agree
    <3>7. Standing(r) \in {"pending", "declined", "cancelled"} /\ Standing(r)' = "approved"
      BY <1>0, <2>4, <3>1, <3>2, <3>6 DEF Standing, Request
    <3>8. r \in online /\ request'[r] # Nothing
      BY <1>0, <2>3, <2>4, <3>1, <3>2
    <3>9. Promise!Grant(r)
      BY <1>2, <2>3, <3>1, <3>2, <3>3, <3>5, <3>7, <3>8
    <3> QED
      BY <2>3, <3>9 DEF Promise!Next
  <2>6. CASE ~Credits(r, a)
    <3>1. credit' = credit
      BY <2>3, <2>4, <2>6, ApplyPayment
    <3>2. ASSUME NEW q \in Rid
          PROVE  Shuts(request[q], request'[q])
      <4>1. Shuts(request[q], RequestAfter(r, a)[q]) /\ Shuts(RequestAfter(r, a)[q], request'[q])
        BY <2>3, <2>6, ApplyShuts
      <4> QED
        BY <4>1 DEF Shuts
    <3> QED
      BY <1>1, <3>1, <3>2 DEF Promise!Next
  <2> QED
    BY <2>5, <2>6
<1>6. CASE Rests
  BY <1>1, <1>6 DEF Rests, Quiet, Promise!Next
<1> QED
  BY <1>3, <1>4, <1>5, <1>6, StepKinds

(* Requests, payments and ledger together do what the credit form promises:    *)
(* every step of theirs is one of CreditPromise, whatever races or restarts.   *)
THEOREM KeepsPromise == Spec => ImplementsPromise
<1>1. Init => AllAgree
  BY TopUps DEF Init, AllAgree, Agree, Marked
<1>2. Spec => [](Wellformed /\ AllAgree)
  BY <1>1, AllAgreeStep, AlwaysWellformed, PTL DEF Spec
<1> QED
  BY <1>2, PromiseInit, PromiseStep, PTL DEF Spec, ImplementsPromise, Promise!Spec
=============================================================================
