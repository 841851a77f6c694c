-------------------------------- MODULE MCFsDns --------------------------------
(* Model values for the runs of FsDns. *)
EXTENDS FsDns, TLC

CallSymmetry == Permutations(Calls)
=============================================================================
