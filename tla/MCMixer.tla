------------------------------- MODULE MCMixer -------------------------------
(* Instances of Mixer for TLC. *)
EXTENDS Mixer
=============================================================================
