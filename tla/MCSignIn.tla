------------------------------ MODULE MCSignIn ------------------------------
(* One user, with two links, two tickets and two requests in flight.          *)
EXTENDS SignIn, FiniteSets, TLC

CONSTANTS alice, p1, p2

Two == 1..2

\* Bound: how many of these rare things meet in one behaviour.
MadeLinks == {l \in Link : link[l] # Nothing}
InFlightNow == IF \E p \in Post : post[p].at # "idle" THEN 1 ELSE 0
FewEvents ==
  moves + faults + Cardinality(MadeLinks) + secret[alice] + (step - 2) + InFlightNow <= 3

Alike == Permutations(Post)
=============================================================================
