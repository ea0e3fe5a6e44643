----------------------------- MODULE MCPayments -----------------------------
(* Few users and requests; the requests are numbered as the table numbers them. *)
EXTENDS Payments

CONSTANTS alice

OneRequest == {1}
TwoRequests == 1..2
ThreeRequests == 1..3
=============================================================================
