------------------------------ MODULE MCLoopRun ------------------------------
(* Model values for the runs of LoopRun. *)
EXTENDS LoopRun, TLC

WatcherSymmetry == Permutations(Idles) \cup Permutations(Prepares) \cup Permutations(Checks)
=============================================================================
