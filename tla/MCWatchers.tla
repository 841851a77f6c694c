------------------------------ MODULE MCWatchers ------------------------------
(* Model values for the runs of Watchers. *)
EXTENDS Watchers, TLC

CONSTANTS h1, h2, h3

Cast(k1, k2, k3) == h1 :> k1 @@ h2 :> k2 @@ h3 :> k3
Alone(k) == Cast(k, "absent", "absent")

\* Each kind by itself, two processes, a signal and a process that share the
\* signal pipe, and a signal that may leave no room in it for one of two children.
AllCasts ==
  {Alone(k) : k \in Kinds} \cup {Cast(k, "process", "absent") : k \in {"process", "signal"}}
    \cup {Cast("signal", "process", "process")}

OnlyChecker == {Alone("checker")}
=============================================================================
