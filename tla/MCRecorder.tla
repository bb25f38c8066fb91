------------------------------ MODULE MCRecorder ------------------------------
(* An instance of Recorder for TLC: as many jobs as overfill the channel. *)
EXTENDS Recorder
=============================================================================
