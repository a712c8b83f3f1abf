--------------------------- MODULE MCGuardSession ---------------------------
(* A model of GuardSession for TLC: two slots of tickets, interchangeable.  *)
EXTENDS GuardSession, TLC

Symmetry == Permutations(Tickets)
=============================================================================
