----------------------------- MODULE MCInterval -----------------------------
(* Instances of Interval for TLC. *)
EXTENDS Interval
=============================================================================
