------------------------------ MODULE MCLiveRun -----------------------------
(* An instance of LiveRun for TLC. *)
EXTENDS LiveRun
=============================================================================
