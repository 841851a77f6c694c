-------------------------- MODULE MCHandleLifecycle --------------------------
(* Small instances of HandleLifecycle for TLC; the kinds of handle and the   *)
(* bounds are in the .cfg files.                                             *)
EXTENDS HandleLifecycle
=============================================================================
