------------------------------ MODULE Payments ------------------------------
(***************************************************************************)
(* Credit requests and the online payments behind them                     *)
(* (hub-ext/zai_credit.py, hub-ext/zai_payments.py), over the tables       *)
(* zai_credit_requests, zai_payments and ledger of the hub's database.     *)
(*                                                                         *)
(* Every transaction of the code is synchronous, so it is one step; what   *)
(* can happen in between is between a question to the payment provider and *)
(* what the hub does with its answer.  A step of the background pass runs  *)
(* from one such question to the next.  The provider is external.          *)
(***************************************************************************)
EXTENDS Naturals, Sequences, FiniteSets

CONSTANTS
    User,         \* users who ask for credit
    Rid,          \* ids of requests, 1..n; n bounds the requests of a behaviour
    Checker,      \* tasks running _pay_check: return page, Check payment, webhook
    Silent,       \* requests of whose payments an answer may leave the amount out
    Nothing,      \* no row, no task, no question
    MaxRestarts   \* bound on hub restarts

ASSUME PaymentsAssumption ==
    /\ Rid \subseteq Nat
    /\ Nothing \notin Rid
    /\ MaxRestarts \in Nat

VARIABLES
    request,      \* request[r]: a row of zai_credit_requests
    payment,      \* payment[r]: the row of zai_payments with request_id r
    credit,       \* credit[r]: actors of the ledger top-ups made for r, in order
    aged,         \* payments created more than _PAY_GIVE_UP ago
    start,        \* start[r]: the `POST /payments` of r, and what it answered
    prov,         \* prov[r]: what the provider knows of r's payment
    short,        \* payments that paid another amount than was asked
    check,        \* check[c]: the payment c asks about, and the answer
    sweep,        \* the background pass: rows still to visit, question, answer
    restarts      \* hub restarts so far

vars == <<request, payment, credit, aged, start, prov, short, check, sweep, restarts>>
tables == <<request, payment, credit>>
provider == <<aged, prov, short>>
tasks == <<start, check, sweep>>
-----------------------------------------------------------------------------
Method == {"manual", "online"}
Request == [user: User, method: Method,
            status: {"pending", "approved", "declined", "cancelled"}]
ProvStatus == {"PENDING", "SUCCEEDED", "FAILED", "EXPIRED", "REFUNDED"}
Payment == [status: ProvStatus \cup {"AMOUNT_MISMATCH", "ABANDONED"}, credited: BOOLEAN]

ASSUME NothingAssumption ==
    Nothing \notin Request \cup Payment \cup ProvStatus \cup {"posting"}

(* An answer of GET /payments/{id}: the status, and whether it reports an amount  *)
(* other than the one asked for.  A silent one leaves the amount out, so there is *)
(* nothing to compare.  NoAnswer: an error, a lost or a foreign answer.           *)
NoAnswer == [status |-> "", other |-> FALSE]
Answer == [status: ProvStatus, other: BOOLEAN] \cup {NoAnswer}
AnswerOf(r, lost, silent) ==
    IF lost THEN NoAnswer
    ELSE [status |-> prov[r], other |-> prov[r] = "SUCCEEDED" /\ r \in short /\ ~silent]

Idle == [on |-> Nothing, heard |-> FALSE, answer |-> NoAnswer]
Asking(r) == [on |-> r, heard |-> FALSE, answer |-> NoAnswer]
Heard(t, a) == [t EXCEPT !.heard = TRUE, !.answer = a]

Pending(u) == {r \in Rid : /\ request[r] # Nothing
                           /\ request[r].user = u /\ request[r].status = "pending"}
IsPending(r) == request[r] # Nothing /\ request[r].status = "pending"
NextRid(r) == request[r] = Nothing /\ \A q \in Rid : q < r => request[q] # Nothing

Init ==
    /\ request = [r \in Rid |-> Nothing]
    /\ payment = [r \in Rid |-> Nothing]
    /\ credit = [r \in Rid |-> <<>>]
    /\ aged = {}
    /\ start = [r \in Rid |-> Nothing]
    /\ prov = [r \in Rid |-> Nothing]
    /\ short = {}
    /\ check = [c \in Checker |-> Idle]
    /\ sweep = [todo |-> {}, task |-> Idle, old |-> {}]
    /\ restarts = 0
-----------------------------------------------------------------------------
(* The transactions, as what they leave in request, payment and credit. *)

(* Fault: the request is closed whatever was decided about it before. *)
ClosedAnyway(req, R, status) ==
    [r \in Rid |-> IF r \in R THEN [req[r] EXCEPT !.status = status] ELSE req[r]]
\* _pay_close_request
Closed(req, R, status) ==
    [r \in Rid |-> IF r \in R /\ req[r].status = "pending"
                   THEN [req[r] EXCEPT !.status = status] ELSE req[r]]

(* Fault: the reported amount is not compared. *)
StoredWhatever(r, a) == a.status
\* The status _pay_apply stores for the answer.
Stored(r, a) ==
    IF a.status = "SUCCEEDED" /\ a.other /\ ~payment[r].credited
    THEN "AMOUNT_MISMATCH" ELSE a.status

(* Fault: credited is not looked at. *)
CreditsEvery(r, a) == Stored(r, a) = "SUCCEEDED"
Credits(r, a) == Stored(r, a) = "SUCCEEDED" /\ ~payment[r].credited

(* Fault: only a failed payment closes its request. *)
RequestAfterKeepsExpired(r, a) ==
    CASE Credits(r, a) -> [request EXCEPT ![r].status = "approved"]
      [] a.status = "FAILED" -> Closed(request, {r}, "declined")
      [] OTHER -> request
\* _pay_apply(r, answer): the request, the payment and the ledger afterwards.
RequestAfter(r, a) ==
    CASE Credits(r, a) -> [request EXCEPT ![r].status = "approved"]
      [] a.status \in {"FAILED", "EXPIRED"} -> Closed(request, {r}, "declined")
      [] OTHER -> request
(* Fault: an error is stored like a status. *)
PaymentAfterStoresErrors(r, a) ==
    [payment EXCEPT ![r] = [status |-> Stored(r, a), credited |-> @.credited \/ Credits(r, a)]]
PaymentAfter(r, a) ==
    IF a = NoAnswer THEN payment
    ELSE [payment EXCEPT ![r] = [status |-> Stored(r, a),
                                 credited |-> @.credited \/ Credits(r, a)]]
CreditAfter(r, a) ==
    IF Credits(r, a) THEN [credit EXCEPT ![r] = Append(@, "eco-payments")] ELSE credit
-----------------------------------------------------------------------------
(* zai_credit: asking, withdrawing, deciding. *)

(* Fault: no unique index on a user's pending request. *)
AskAgain(r, u, m) ==
    /\ NextRid(r)
    /\ request' = [request EXCEPT ![r] = [user |-> u, method |-> m, status |-> "pending"]]
    /\ start' = [start EXCEPT ![r] = IF m = "online" THEN "posting" ELSE Nothing]
    /\ UNCHANGED <<payment, credit, provider, check, sweep, restarts>>
(* _cr_create; an online request goes on to `await POST /payments`. *)
Ask(r, u, m) ==
    /\ NextRid(r)
    /\ Pending(u) = {}
    /\ request' = [request EXCEPT ![r] = [user |-> u, method |-> m, status |-> "pending"]]
    /\ start' = [start EXCEPT ![r] = IF m = "online" THEN "posting" ELSE Nothing]
    /\ UNCHANGED <<payment, credit, provider, check, sweep, restarts>>

(* _cr_cancel *)
Cancel(u) ==
    /\ Pending(u) # {}
    /\ request' = Closed(request, Pending(u), "cancelled")
    /\ UNCHANGED <<payment, credit, provider, tasks, restarts>>

(* _cr_decide: never for an online request. *)
Approve(r) ==
    /\ IsPending(r)
    /\ request[r].method = "manual"
    /\ request' = [request EXCEPT ![r].status = "approved"]
    /\ credit' = [credit EXCEPT ![r] = Append(@, "admin")]
    /\ UNCHANGED <<payment, provider, tasks, restarts>>

Decline(r) ==
    /\ IsPending(r)
    /\ request[r].method = "manual"
    /\ request' = [request EXCEPT ![r].status = "declined"]
    /\ UNCHANGED <<payment, credit, provider, tasks, restarts>>
-----------------------------------------------------------------------------
(* _pay_start, once POST /payments answers. *)

StartRecorded(r) ==
    /\ start[r] \in ProvStatus
    /\ payment' = [payment EXCEPT ![r] = [status |-> start[r], credited |-> FALSE]]
    /\ start' = [start EXCEPT ![r] = Nothing]
    /\ UNCHANGED <<request, credit, provider, check, sweep, restarts>>

(* Refused, or the answer was lost: the payment may exist all the same. *)
StartFailed(r) ==
    /\ start[r] # Nothing
    /\ request' = Closed(request, {r}, "cancelled")
    /\ start' = [start EXCEPT ![r] = Nothing]
    /\ UNCHANGED <<payment, credit, provider, check, sweep, restarts>>
-----------------------------------------------------------------------------
(* _pay_check for one payment: the question, the answer, what follows. *)

CheckAsks(c, r) ==
    /\ check[c] = Idle
    /\ payment[r] # Nothing
    /\ check' = [check EXCEPT ![c] = Asking(r)]
    /\ UNCHANGED <<tables, provider, start, sweep, restarts>>

CheckHears(c, lost, silent) ==
    /\ check[c].on # Nothing
    /\ ~check[c].heard
    /\ silent => check[c].on \in Silent
    /\ check' = [check EXCEPT ![c] = Heard(@, AnswerOf(@.on, lost, silent))]
    /\ UNCHANGED <<tables, provider, start, sweep, restarts>>

CheckApplies(c) ==
    LET t == check[c]
    IN /\ t.heard
       /\ request' = RequestAfter(t.on, t.answer)
       /\ payment' = PaymentAfter(t.on, t.answer)
       /\ credit' = CreditAfter(t.on, t.answer)
       /\ check' = [check EXCEPT ![c] = Idle]
       /\ UNCHANGED <<provider, start, sweep, restarts>>
-----------------------------------------------------------------------------
(* _pay_sweep.  Rows older than a week when the pass began are abandoned without *)
(* a question; the others are asked about one at a time, in the table's order.   *)

(* Fault: only payments whose request still waits are asked about. *)
SweptWhileWaiting == {r \in Rid : payment[r] # Nothing /\ ~payment[r].credited /\ IsPending(r)}
Swept == {r \in Rid : /\ payment[r] # Nothing
                      /\ ~payment[r].credited
                      /\ payment[r].status \notin
                            {"FAILED", "EXPIRED", "REFUNDED", "ABANDONED", "AMOUNT_MISMATCH"}}

(* What the loop does up to its next question: the old rows G it meets are given *)
(* up, then `next` is asked about, or the pass ends.                             *)
Turn(todo, old, G, next, req, pay) ==
    /\ G \subseteq todo \cap old
    /\ \/ next \in todo \ old
       \/ next = Nothing /\ G = todo
    /\ request' = Closed(req, G, "cancelled")
    /\ payment' = [r \in Rid |-> IF r \in G THEN [pay[r] EXCEPT !.status = "ABANDONED"] ELSE pay[r]]
    /\ sweep' = [todo |-> todo \ (G \cup {next}), old |-> old,
                 task |-> IF next = Nothing THEN Idle ELSE Asking(next)]

SweepBegins(G, next) ==
    /\ sweep.task = Idle
    /\ Turn(Swept, Swept \cap aged, G, next, request, payment)
    /\ UNCHANGED <<credit, provider, start, check, restarts>>

SweepHears(lost, silent) ==
    /\ sweep.task.on # Nothing
    /\ ~sweep.task.heard
    /\ silent => sweep.task.on \in Silent
    /\ sweep' = [sweep EXCEPT !.task = Heard(@, AnswerOf(@.on, lost, silent))]
    /\ UNCHANGED <<tables, provider, start, check, restarts>>

SweepApplies(G, next) ==
    LET t == sweep.task
    IN /\ t.heard
       /\ Turn(sweep.todo, sweep.old, G, next,
               RequestAfter(t.on, t.answer), PaymentAfter(t.on, t.answer))
       /\ credit' = CreditAfter(t.on, t.answer)
       /\ UNCHANGED <<provider, start, check, restarts>>

(* The hub restarts: requests in flight and tasks are gone, the tables stay. *)
HubRestart ==
    /\ restarts < MaxRestarts
    /\ restarts' = restarts + 1
    /\ start' = [r \in Rid |-> Nothing]
    /\ check' = [c \in Checker |-> Idle]
    /\ sweep' = [todo |-> {}, task |-> Idle, old |-> {}]
    /\ UNCHANGED <<tables, provider>>
-----------------------------------------------------------------------------
(* The provider, and time. *)

ProviderCreates(r, s) ==
    /\ start[r] = "posting"
    /\ prov[r] = Nothing
    /\ prov' = [prov EXCEPT ![r] = s]
    /\ start' = [start EXCEPT ![r] = s]
    /\ UNCHANGED <<tables, aged, short, check, sweep, restarts>>

ProviderMoves(r, s, paysShort) ==
    /\ prov[r] = "PENDING"
    /\ prov' = [prov EXCEPT ![r] = s]
    /\ short' = IF s = "SUCCEEDED" /\ paysShort THEN short \cup {r} ELSE short
    /\ UNCHANGED <<tables, aged, tasks, restarts>>

ProviderRefunds(r) ==
    /\ prov[r] = "SUCCEEDED"
    /\ prov' = [prov EXCEPT ![r] = "REFUNDED"]
    /\ UNCHANGED <<tables, aged, short, tasks, restarts>>

WeekPasses(r) ==
    /\ payment[r] # Nothing
    /\ r \notin aged
    /\ aged' = aged \cup {r}
    /\ UNCHANGED <<tables, prov, short, tasks, restarts>>
-----------------------------------------------------------------------------
Next ==
    \/ \E r \in Rid, u \in User, m \in Method : Ask(r, u, m)
    \/ \E u \in User : Cancel(u)
    \/ \E r \in Rid : \/ Approve(r)
                      \/ Decline(r)
                      \/ StartRecorded(r)
                      \/ StartFailed(r)
                      \/ ProviderCreates(r, "PENDING")
                      \/ ProviderCreates(r, "FAILED")
                      \/ ProviderRefunds(r)
                      \/ WeekPasses(r)
    \/ \E c \in Checker : \/ \E r \in Rid : CheckAsks(c, r)
                          \/ \E lost, silent \in BOOLEAN : CheckHears(c, lost, silent)
                          \/ CheckApplies(c)
    \/ \E G \in SUBSET Rid, next \in Rid \cup {Nothing} :
          \/ SweepBegins(G, next)
          \/ SweepApplies(G, next)
    \/ \E lost, silent \in BOOLEAN : SweepHears(lost, silent)
    \/ HubRestart
    \/ \E r \in Rid, s \in {"SUCCEEDED", "FAILED", "EXPIRED"}, paysShort \in BOOLEAN :
          ProviderMoves(r, s, paysShort)

Spec == Init /\ [][Next]_vars

(* The background pass runs for as long as the hub does: it begins again, a    *)
(* question times out after 20 s, and what is heard is applied.  The provider  *)
(* does not leave one payment's questions unanswered for ever.                 *)
Fairness ==
    /\ WF_vars(\E G \in SUBSET Rid, next \in Rid \cup {Nothing} : SweepBegins(G, next))
    /\ WF_vars(\E G \in SUBSET Rid, next \in Rid \cup {Nothing} : SweepApplies(G, next))
    /\ WF_vars(SweepHears(TRUE, FALSE))
    /\ \A r \in Rid :
          SF_vars(sweep.task.on = r /\ \E silent \in BOOLEAN : SweepHears(FALSE, silent))

FairSpec == Spec /\ Fairness
-----------------------------------------------------------------------------
Task == [on: Rid \cup {Nothing}, heard: BOOLEAN, answer: Answer]

TypeOK ==
    /\ request \in [Rid -> Request \cup {Nothing}]
    /\ payment \in [Rid -> Payment \cup {Nothing}]
    /\ credit \in [Rid -> Seq({"admin", "eco-payments"})]
    /\ aged \subseteq Rid
    /\ start \in [Rid -> {Nothing, "posting"} \cup ProvStatus]
    /\ prov \in [Rid -> ProvStatus \cup {Nothing}]
    /\ short \subseteq Rid
    /\ check \in [Checker -> Task]
    /\ sweep \in [todo: SUBSET Rid, old: SUBSET Rid, task: Task]
    /\ restarts \in 0..MaxRestarts

Standing(r) == IF request[r] = Nothing THEN "none" ELSE request[r].status
Eco == <<"eco-payments">>
Hand == <<"admin">>

(* However many checks race, and whatever was decided meanwhile: a request is  *)
(* approved exactly when one top-up was made for it, an online one exactly     *)
(* when its payment is marked credited, and then by the provider's answer.     *)
CreditedOnce ==
    \A r \in Rid :
        /\ credit[r] \in {<<>>, Eco, Hand}
        /\ Standing(r) = "approved" <=> credit[r] # <<>>
        /\ credit[r] = Eco <=> payment[r] # Nothing /\ payment[r].credited
        /\ credit[r] = Hand => request[r].method = "manual"

(* No credit by an online payment that did not succeed, by no stale answer and *)
(* no late one.  Nor by one that brought another amount, as long as every      *)
(* answer about it reports the amount: _pay_apply compares what is reported,   *)
(* and credits what was asked for when nothing is.                             *)
OnlyPaidIsCredited ==
    \A r \in Rid :
        credit[r] = Eco => /\ prov[r] \in {"SUCCEEDED", "REFUNDED"}
                           /\ r \in short => r \in Silent

(* "A user has one waiting request at a time" (docs/CREDIT-REQUESTS.md), online *)
(* requests whose payment is being started included.                            *)
OnePendingRequest ==
    \A q, r \in Rid : IsPending(q) /\ IsPending(r) /\ request[q].user = request[r].user => q = r

(* The module implements the promise made to users (CreditPromise). *)
Promise == INSTANCE CreditPromise WITH
    state <- [r \in Rid |-> Standing(r)],
    online <- {r \in Rid : request[r] # Nothing /\ request[r].method = "online"},
    received <- {r \in Rid : credit[r] # <<>>}
ImplementsPromise == Promise!Spec

(* A recorded payment that went through for the amount asked is credited by    *)
(* the background pass alone, also when its request was cancelled, unless the  *)
(* provider refunds it first or the hub gave it up after its week.             *)
PaidIsCredited ==
    \A r \in Rid :
        (payment[r] # Nothing /\ prov[r] = "SUCCEEDED" /\ r \notin short)
            ~> \/ payment[r] # Nothing /\ payment[r].credited
               \/ payment[r] # Nothing /\ payment[r].status = "ABANDONED"
               \/ prov[r] = "REFUNDED"

(* A payment the pass still visits and that failed or expired stops blocking   *)
(* its user: the request does not stay pending.                                *)
FailedFreesUser ==
    \A r \in Rid : (r \in Swept /\ prov[r] \in {"FAILED", "EXPIRED"}) ~> ~IsPending(r)
=============================================================================
