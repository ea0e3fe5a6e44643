---------------------------- MODULE CreditPromise ----------------------------
(* What the credit form promises a user: a request waits until it is granted   *)
(* or closed, and brings credit at most once.  A closed request is final,      *)
(* except that money that did arrive still counts: an online request may be    *)
(* granted after it was closed.                                                *)
CONSTANT Rid        \* ids of requests

VARIABLES
    state,          \* state[r]: where request r stands
    online,         \* the requests paid through the provider
    received        \* the requests whose credit is in the ledger

Init ==
    /\ state = [r \in Rid |-> "none"]
    /\ online = {}
    /\ received = {}

Ask(r) ==
    /\ state[r] = "none"
    /\ state' = [state EXCEPT ![r] = "pending"]
    /\ online' \in {online, online \cup {r}}
    /\ UNCHANGED received

Stands(r) == state'[r] = state[r]
Closes(r) == state[r] = "pending" /\ state'[r] \in {"declined", "cancelled"}

(* One pass of the background check may close several requests. *)
Settle(R) == \A r \in R : Stands(r) \/ Closes(r)

Close == Settle(Rid) /\ UNCHANGED <<online, received>>

Grant(r) ==
    /\ \/ state[r] = "pending"
       \/ r \in online /\ state[r] \in {"declined", "cancelled"}
    /\ state'[r] = "approved"
    /\ Settle(Rid \ {r})
    /\ received' = received \cup {r}
    /\ UNCHANGED online

Next ==
    \/ \E r \in Rid : Ask(r)
    \/ Close
    \/ \E r \in Rid : Grant(r)

Spec == Init /\ [][Next]_<<state, online, received>>
=============================================================================
