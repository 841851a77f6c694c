------------------------------ MODULE MCSocketIO ------------------------------
(* Model values for the runs of SocketIO. *)
EXTENDS SocketIO, TLC

RequestSymmetry == Permutations(Connects) \cup Permutations(Writes)
=============================================================================
