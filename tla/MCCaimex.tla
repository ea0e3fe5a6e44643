------------------------------ MODULE MCCaimex ------------------------------
(* A user of the hub and a guest who joined the organisation by invitation.    *)
EXTENDS Caimex

CONSTANTS u1, u2
=============================================================================
