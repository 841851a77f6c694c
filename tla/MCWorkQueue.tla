---------------------------- MODULE MCWorkQueue ----------------------------
(* Small instances of WorkQueue for TLC.                                     *)
EXTENDS WorkQueue, TLC

CONSTANTS r1, r2, w1, w2, loop, nobody

TwoRequests == {r1, r2}
OneRequest == {r1}
TwoWorkers == {w1, w2}
OneWorker == {w1}

\* Requests and workers are interchangeable (safety runs only).
Symmetry == Permutations(Requests) \cup Permutations(Workers)
=============================================================================
