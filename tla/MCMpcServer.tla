----------------------------- MODULE MCMpcServer -----------------------------
(* Instances of MpcServer for TLC. *)
EXTENDS MpcServer
=============================================================================
