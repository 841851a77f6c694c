------------------------------- MODULE WorkSpec -------------------------------
(***************************************************************************)
(* What Loop.queue_work() and WorkRequest.cancel() promise a program,      *)
(* whatever the thread pool does: a request is executed once by some       *)
(* thread or cancelled before it starts, and then, in the loop, its done   *)
(* callback is called once and told which of the two it was.               *)
(***************************************************************************)
CONSTANT Requests

VARIABLES
  status,  \* where each request is in its life
  told     \* cancel() of it has returned True

vars == <<status, told>>

Statuses == {"free", "queued", "executing", "executed", "cancelled", "reporting", "finished"}

TypeOK == status \in [Requests -> Statuses] /\ told \in [Requests -> BOOLEAN]

Init ==
  /\ status = [r \in Requests |-> "free"]
  /\ told = [r \in Requests |-> FALSE]

Move(r, from, to) == status[r] \in from /\ status' = [status EXCEPT ![r] = to]

Queue(r) == Move(r, {"free"}, "queued") /\ told' = [told EXCEPT ![r] = FALSE]

Start(r) == Move(r, {"queued"}, "executing") /\ UNCHANGED told

Finish(r) == Move(r, {"executing"}, "executed") /\ UNCHANGED told

\* The request will not start, whatever cancel() is yet to do before it returns.
Withdraw(r) == Move(r, {"queued"}, "cancelled") /\ UNCHANGED told

TellCancelled(r) ==
  /\ status[r] = "cancelled"
  /\ told' = [told EXCEPT ![r] = TRUE] /\ UNCHANGED status

\* The done callback is called: it gets UV_ECANCELED if the request was
\* withdrawn, and then the program has been told so.
Report(r) ==
  /\ \/ status[r] = "executed" /\ ~told[r]
     \/ status[r] = "cancelled" /\ told[r]
  /\ \E to \in {"reporting", "finished", "free"} : status' = [status EXCEPT ![r] = to]
  /\ UNCHANGED told

EndReport(r) ==
  /\ \E to \in {"finished", "free"} : Move(r, {"reporting"}, to)
  /\ UNCHANGED told

\* The program drops a request it kept.
Release(r) == Move(r, {"finished"}, "free") /\ UNCHANGED told

Next ==
  \E r \in Requests :
    \/ Queue(r) \/ Start(r) \/ Finish(r) \/ Withdraw(r) \/ TellCancelled(r)
    \/ Report(r) \/ EndReport(r) \/ Release(r)

Spec == Init /\ [][Next]_vars
=============================================================================
