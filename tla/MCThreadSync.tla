----------------------------- MODULE MCThreadSync -----------------------------
(* Model values for the runs of ThreadSync. *)
EXTENDS ThreadSync
=============================================================================
