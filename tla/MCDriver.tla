------------------------------- MODULE MCDriver -------------------------------
(* Instance of Driver for TLC. *)
EXTENDS Driver

MCTargets == {NoTarget, L2Start + 7}
=============================================================================
