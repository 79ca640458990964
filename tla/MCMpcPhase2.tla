----------------------------- MODULE MCMpcPhase2 -----------------------------
(* Instances of MpcPhase2 for TLC. *)
EXTENDS MpcPhase2
=============================================================================
