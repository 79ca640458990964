----------------------------- MODULE MCMpcPhase1 -----------------------------
(* Instances of MpcPhase1 for TLC. *)
EXTENDS MpcPhase1
=============================================================================
