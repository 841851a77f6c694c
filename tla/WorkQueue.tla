------------------------------ MODULE WorkQueue ------------------------------
(***************************************************************************)
(* Loop.queue_work(): the work requests of src/loop.c and src/request.c on *)
(* libuv's thread pool (deps/libuv/src/threadpool.c) and its wake-up of    *)
(* the loop through wq_async (deps/libuv/src/unix/async.c).                *)
(*                                                                         *)
(* Actors: the loop thread, which runs Python code and uv_run(), and the   *)
(* pool's workers.  A section of code under one mutex is one step, but     *)
(* where a thread holds a mutex while it takes another or while it wakes   *)
(* the loop, the steps are apart.  queue_work() and cancel() are called    *)
(* from the loop thread: libuv allows no other.                            *)
(*                                                                         *)
(* An operator named Wrong... is the definition after it with a plausible  *)
(* mistake; no action uses it.  It documents which property notices.       *)
(***************************************************************************)
EXTENDS Naturals, Sequences, FiniteSets, Queues

CONSTANTS
  Requests,      \* WorkRequest objects, each used again once it is freed
  Workers,       \* threads of the pool
  LoopThread,    \* the thread that runs the loop
  Nobody,        \* no thread, no request
  CancelInDone   \* TRUE: a done callback may cancel its own request

ASSUME WorkAssumption ==
  /\ LoopThread \notin Workers /\ Nobody \notin Workers /\ Nobody # LoopThread
  /\ Nobody \notin Requests
  /\ IsFiniteSet(Workers)
  /\ CancelInDone \in BOOLEAN

VARIABLES
  req,      \* the WorkRequest and the uv_work_t in it
  wq,       \* the pool's queue
  loopWq,   \* loop->wq: requests whose done callback is due
  batch,    \* the local queue of uv__work_done()
  worker,   \* each worker: where it is and the request it has
  mutex,    \* holder of the pool's mutex across steps
  wqMutex,  \* holder of loop->wq_mutex across steps
  pending,  \* wq_async.pending
  eventfd,  \* the loop's eventfd is readable
  main,     \* the loop thread: where it is, and its request
  stopFlag  \* loop->stop_flag

vars == <<req, wq, loopWq, batch, worker, mutex, wqMutex, pending, eventfd, main, stopFlag>>

\* work: the function pointer.  node: what the links of the queue node say.
\* ptr: Request.req_ptr is set.  active: in loop->active_reqs.  held: libuv's
\* reference.  ran, done, told: how often the work and the done callback ran
\* and whether cancel() has returned True.
Request ==
  [mem : {"absent", "live", "freed"}, users : 0..1, held : BOOLEAN,
   work : {"queued", "cancelled", "null"}, node : {"self", "linked", "stale"},
   hasDone : BOOLEAN, ptr : BOOLEAN, active : BOOLEAN,
   ran : 0..1, done : 0..1, told : BOOLEAN]

Worker ==
  [at : {"look", "waiting", "took", "running", "ran", "send", "write", "unlock"},
   req : Requests \cup {Nobody}]

\* out: in Python, outside uv_run.  poll, async, move, batch: in uv_run, at the
\* poll, at wq_async, at uv__work_done's start, in its loop.  done: in a done
\* callback.  iterated: at the end of the iteration.
LoopPlaces == {"out", "poll", "async", "move", "batch", "done", "iterated"}

\* calling: inside cancel(), "no" when not.  for: the request of the done
\* callback; of: the request being cancelled.
Main ==
  [at : LoopPlaces, calling : {"no", "locked", "removed"}, of : Requests \cup {Nobody},
   for : Requests \cup {Nobody}, mode : {"default", "once", "nowait"}]

Init ==
  /\ req = [r \in Requests |->
       [mem |-> "absent", users |-> 0, held |-> FALSE, work |-> "null", node |-> "self",
        hasDone |-> FALSE, ptr |-> FALSE, active |-> FALSE, ran |-> 0, done |-> 0, told |-> FALSE]]
  /\ wq = <<>> /\ loopWq = <<>> /\ batch = <<>>
  /\ worker = [w \in Workers |-> [at |-> "look", req |-> Nobody]]
  /\ mutex = Nobody /\ wqMutex = Nobody
  /\ pending = FALSE /\ eventfd = FALSE
  /\ main = [at |-> "out", calling |-> "no", of |-> Nobody, for |-> Nobody, mode |-> "default"]
  /\ stopFlag = FALSE

queues == <<wq, loopWq, batch>>
locks == <<mutex, wqMutex>>
wakeup == <<pending, eventfd>>

-----------------------------------------------------------------------------
(* Python code on the loop thread.                                         *)

\* The loop thread runs Python code and is not inside a call of ours.
InPython == main.at \in {"out", "done"} /\ main.calling = "no"

\* The interpreter lock: cancel() keeps it until it returns.
GilFree == main.calling = "no"

Waiting == {w \in Workers : worker[w].at = "waiting"}

\* Signals only when every worker is idle.
WrongSignal == IF Waiting # Workers THEN UNCHANGED worker
  ELSE \E w \in Waiting : worker' = [worker EXCEPT ![w].at = "look"]

\* uv_cond_signal wakes one of the waiting workers, if there is one.
Signal ==
  IF Waiting = {} THEN UNCHANGED worker
  ELSE \E w \in Waiting : worker' = [worker EXCEPT ![w].at = "look"]

\* Loop_func_queue_work, uv_queue_work and post().
QueueWork(r, hasDone) ==
  /\ InPython /\ req[r].mem # "live" /\ mutex = Nobody
  /\ req' = [req EXCEPT ![r] =
       [mem |-> "live", users |-> 1, held |-> TRUE, work |-> "queued", node |-> "linked",
        hasDone |-> hasDone, ptr |-> TRUE, active |-> TRUE, ran |-> 0, done |-> 0, told |-> FALSE]]
  /\ wq' = Append(wq, r)
  /\ Signal
  /\ UNCHANGED <<loopWq, batch, locks, wakeup, main, stopFlag>>

Unreferenced(q) == [q EXCEPT !.mem = IF q.users = 0 /\ ~q.held THEN "freed" ELSE @]

\* The program forgets the WorkRequest.
DropRequest(r) ==
  /\ InPython /\ req[r].users = 1
  /\ req' = [req EXCEPT ![r] = Unreferenced([@ EXCEPT !.users = 0])]
  /\ UNCHANGED <<queues, worker, locks, wakeup, main, stopFlag>>

\* Request_func_cancel and uv__work_cancel, up to taking the pool's mutex.
Cancel(r) ==
  /\ InPython /\ req[r].users = 1 /\ req[r].ptr
  /\ main.for = r => CancelInDone
  /\ mutex = Nobody
  /\ mutex' = LoopThread
  /\ main' = [main EXCEPT !.calling = "locked", !.of = r]
  /\ UNCHANGED <<req, queues, worker, wqMutex, wakeup, stopFlag>>

\* Without the test of w->work.
WrongCancellable(q) == q.node # "self"

Cancellable(q) == q.node # "self" /\ q.work # "null"

\* With both mutexes: unlink the request from whatever queue it is in, unless
\* it is executing or executed.
DecideCancel ==
  /\ main.calling = "locked" /\ wqMutex = Nobody
  /\ mutex' = Nobody
  /\ LET r == main.of
     IN  \/ /\ Cancellable(req[r])
            /\ req' = [req EXCEPT ![r].work = "cancelled", ![r].node = "stale"]
            /\ wq' = Without(wq, r) /\ loopWq' = Without(loopWq, r) /\ batch' = Without(batch, r)
            /\ main' = [main EXCEPT !.calling = "removed"]
         \/ /\ ~Cancellable(req[r])
            /\ main' = [main EXCEPT !.calling = "no", !.of = Nobody]
            /\ UNCHANGED <<req, queues>>
  /\ UNCHANGED <<worker, wqMutex, wakeup, stopFlag>>

\* uv__work_cancel's second half: the done callback is due; cancel() returns True.
PostCancelled ==
  /\ main.calling = "removed" /\ wqMutex = Nobody
  /\ req' = [req EXCEPT ![main.of].node = "linked", ![main.of].told = TRUE]
  /\ loopWq' = Append(loopWq, main.of)
  /\ pending' = TRUE /\ eventfd' = (eventfd \/ ~pending)
  /\ main' = [main EXCEPT !.calling = "no", !.of = Nobody]
  /\ UNCHANGED <<wq, batch, worker, locks, stopFlag>>

\* Loop_func_stop
Stop ==
  /\ InPython
  /\ stopFlag' = TRUE
  /\ UNCHANGED <<req, queues, worker, locks, wakeup, main>>

-----------------------------------------------------------------------------
(* uv_run on the loop thread.                                              *)

\* uv__loop_alive, in a program whose only activity is work requests.
Alive == \E r \in Requests : req[r].active

\* Loop_func_run
Run(mode) ==
  /\ main.at = "out" /\ InPython
  /\ IF Alive /\ ~stopFlag
     THEN main' = [main EXCEPT !.at = "poll", !.mode = mode] /\ UNCHANGED stopFlag
     ELSE stopFlag' = FALSE /\ UNCHANGED main
  /\ UNCHANGED <<req, queues, worker, locks, wakeup>>

\* uv__io_poll with the timeout of uv_backend_timeout: it waits for the
\* eventfd unless the mode is UV_RUN_NOWAIT; uv__async_io empties it.
Poll ==
  /\ main.at = "poll"
  /\ \/ eventfd /\ main' = [main EXCEPT !.at = "async"]
     \/ ~eventfd /\ main.mode = "nowait" /\ main' = [main EXCEPT !.at = "iterated"]
  /\ eventfd' = FALSE
  /\ UNCHANGED <<req, queues, worker, locks, pending, stopFlag>>

\* Clears pending after uv__work_done, not before.
WrongAsyncIo ==
  /\ main.at = "async"
  /\ main' = [main EXCEPT !.at = IF pending THEN "move" ELSE "iterated"]
  /\ UNCHANGED <<req, queues, worker, locks, pending, eventfd, stopFlag>>

\* uv__async_io, at wq_async.
AsyncIo ==
  /\ main.at = "async"
  /\ pending' = FALSE
  /\ main' = [main EXCEPT !.at = IF pending THEN "move" ELSE "iterated"]
  /\ UNCHANGED <<req, queues, worker, locks, eventfd, stopFlag>>

\* uv__work_done takes the whole of loop->wq.
MoveQueue ==
  /\ main.at = "move" /\ wqMutex = Nobody
  /\ batch' = loopWq /\ loopWq' = <<>>
  /\ main' = [main EXCEPT !.at = "batch"]
  /\ UNCHANGED <<req, wq, worker, locks, wakeup, stopFlag>>

BatchDone ==
  /\ main.at = "batch" /\ batch = <<>>
  /\ main' = [main EXCEPT !.at = "iterated"]
  /\ UNCHANGED <<req, queues, worker, locks, wakeup, stopFlag>>

\* Without UV_REQUEST(work_req) = NULL and without Py_DECREF.
WrongFinished(q) == q

\* pyuv__tp_done_cb after the Python callback.
Finished(q) == Unreferenced([q EXCEPT !.ptr = FALSE, !.held = FALSE])

\* uv__work_done and uv__queue_done on the next request: unlink it, leave
\* active_reqs, call pyuv__tp_done_cb.
TakeDone ==
  /\ main.at = "batch" /\ batch # <<>>
  /\ batch' = Tail(batch)
  /\ LET r == Head(batch)
         q == [req[r] EXCEPT !.node = "stale", !.active = FALSE, !.done = @ + 1]
     IN  IF q.hasDone
         THEN req' = [req EXCEPT ![r] = q] /\ main' = [main EXCEPT !.at = "done", !.for = r]
         ELSE req' = [req EXCEPT ![r] = Finished(q)] /\ UNCHANGED main
  /\ UNCHANGED <<wq, loopWq, worker, locks, wakeup, stopFlag>>

\* The done callback returned or raised.
LeaveDone ==
  /\ main.at = "done" /\ InPython
  /\ req' = [req EXCEPT ![main.for] = Finished(@)]
  /\ main' = [main EXCEPT !.at = "batch", !.for = Nobody]
  /\ UNCHANGED <<queues, worker, locks, wakeup, stopFlag>>

\* The end of an iteration: the next one, or uv_run returns.
Iterated ==
  /\ main.at = "iterated"
  /\ IF main.mode = "default" /\ Alive /\ ~stopFlag
     THEN main' = [main EXCEPT !.at = "poll"] /\ UNCHANGED stopFlag
     ELSE main' = [main EXCEPT !.at = "out"] /\ stopFlag' = FALSE
  /\ UNCHANGED <<req, queues, worker, locks, wakeup>>

-----------------------------------------------------------------------------
(* The workers: worker() in threadpool.c.                                  *)

\* Without QUEUE_INIT(q).
WrongTake(w) ==
  /\ worker[w].at = "look" /\ mutex = Nobody
  /\ IF wq = <<>>
     THEN worker' = [worker EXCEPT ![w].at = "waiting"] /\ UNCHANGED wq
     ELSE /\ worker' = [worker EXCEPT ![w] = [at |-> "took", req |-> Head(wq)]]
          /\ wq' = Tail(wq)
  /\ UNCHANGED <<req, loopWq, batch, locks, wakeup, main, stopFlag>>

\* Takes the mutex: wait for work or take the oldest request.
Look(w) ==
  /\ worker[w].at = "look" /\ mutex = Nobody
  /\ IF wq = <<>>
     THEN worker' = [worker EXCEPT ![w].at = "waiting"] /\ UNCHANGED <<req, wq>>
     ELSE /\ worker' = [worker EXCEPT ![w] = [at |-> "took", req |-> Head(wq)]]
          /\ req' = [req EXCEPT ![Head(wq)].node = "self"]
          /\ wq' = Tail(wq)
  /\ UNCHANGED <<loopWq, batch, locks, wakeup, main, stopFlag>>

\* pthread_cond_wait may return without a signal.
SpuriousWakeup(w) ==
  /\ worker[w].at = "waiting"
  /\ worker' = [worker EXCEPT ![w].at = "look"]
  /\ UNCHANGED <<req, queues, locks, wakeup, main, stopFlag>>

\* pyuv__tp_work_cb gets the interpreter lock and calls the work callback.
StartWork(w) ==
  /\ worker[w].at = "took" /\ GilFree
  /\ worker' = [worker EXCEPT ![w].at = "running"]
  /\ req' = [req EXCEPT ![worker[w].req].ran = @ + 1]
  /\ UNCHANGED <<queues, locks, wakeup, main, stopFlag>>

\* The work callback returned or raised.
EndWork(w) ==
  /\ worker[w].at = "running" /\ GilFree
  /\ worker' = [worker EXCEPT ![w].at = "ran"]
  /\ UNCHANGED <<req, queues, locks, wakeup, main, stopFlag>>

\* Takes the pool's mutex too, under loop->wq_mutex.
WrongPostDone(w) ==
  /\ worker[w].at = "ran"
  /\ \/ wqMutex = Nobody /\ wqMutex' = w /\ UNCHANGED <<req, loopWq, worker>>
     \/ /\ wqMutex = w /\ mutex = Nobody
        /\ req' = [req EXCEPT ![worker[w].req].work = "null", ![worker[w].req].node = "linked"]
        /\ loopWq' = Append(loopWq, worker[w].req)
        /\ worker' = [worker EXCEPT ![w] = [at |-> "send", req |-> Nobody]]
        /\ UNCHANGED wqMutex
  /\ UNCHANGED <<wq, batch, mutex, wakeup, main, stopFlag>>

\* Under loop->wq_mutex, kept until the loop is woken.
PostDone(w) ==
  /\ worker[w].at = "ran" /\ wqMutex = Nobody
  /\ wqMutex' = w
  /\ req' = [req EXCEPT ![worker[w].req].work = "null", ![worker[w].req].node = "linked"]
  /\ loopWq' = Append(loopWq, worker[w].req)
  /\ worker' = [worker EXCEPT ![w] = [at |-> "send", req |-> Nobody]]
  /\ UNCHANGED <<wq, batch, mutex, wakeup, main, stopFlag>>

\* uv_async_send: only the thread that sets pending writes the eventfd.
SendAsync(w) ==
  /\ worker[w].at = "send"
  /\ pending' = TRUE
  /\ worker' = [worker EXCEPT ![w].at = IF pending THEN "unlock" ELSE "write"]
  /\ UNCHANGED <<req, queues, locks, eventfd, main, stopFlag>>

WriteEventfd(w) ==
  /\ worker[w].at = "write"
  /\ eventfd' = TRUE
  /\ worker' = [worker EXCEPT ![w].at = "unlock"]
  /\ UNCHANGED <<req, queues, locks, pending, main, stopFlag>>

Unlock(w) ==
  /\ worker[w].at = "unlock"
  /\ wqMutex' = Nobody
  /\ worker' = [worker EXCEPT ![w].at = "look"]
  /\ UNCHANGED <<req, queues, mutex, wakeup, main, stopFlag>>

-----------------------------------------------------------------------------

PythonStep ==
  \/ \E r \in Requests :
       \/ \E hasDone \in BOOLEAN : QueueWork(r, hasDone)
       \/ DropRequest(r) \/ Cancel(r)
  \/ Stop
  \/ \E mode \in {"default", "once", "nowait"} : Run(mode)

LoopStep ==
  DecideCancel \/ PostCancelled \/ Poll \/ AsyncIo \/ MoveQueue \/ BatchDone \/ TakeDone \/ Iterated

WorkerStep(w) ==
  Look(w) \/ StartWork(w) \/ EndWork(w) \/ PostDone(w) \/ SendAsync(w) \/ WriteEventfd(w) \/ Unlock(w)

Next ==
  PythonStep \/ LoopStep \/ LeaveDone \/ \E w \in Workers : WorkerStep(w) \/ SpuriousWakeup(w)

Spec == Init /\ [][Next]_vars

\* The threads run; callbacks return, however much they call; a mutex or the interpreter lock that is
\* free again and again is got in the end.
Fairness ==
  /\ WF_vars(Poll) /\ WF_vars(AsyncIo) /\ SF_vars(MoveQueue) /\ WF_vars(BatchDone)
  /\ WF_vars(TakeDone) /\ SF_vars(LeaveDone) /\ WF_vars(Iterated)
  /\ SF_vars(DecideCancel) /\ SF_vars(PostCancelled)
  /\ \A w \in Workers : SF_vars(WorkerStep(w))

FairSpec == Spec /\ Fairness
-----------------------------------------------------------------------------
(* Properties.                                                             *)

\* Every variable has its type; above all the work and the done callback of a
\* request run at most once (ran and done are in 0..1), whatever is cancelled.
TypeOK ==
  /\ req \in [Requests -> Request]
  /\ wq \in Seq(Requests) /\ loopWq \in Seq(Requests) /\ batch \in Seq(Requests)
  /\ worker \in [Workers -> Worker]
  /\ mutex \in {LoopThread, Nobody} /\ wqMutex \in Workers \cup {Nobody}
  /\ pending \in BOOLEAN /\ eventfd \in BOOLEAN /\ main \in Main /\ stopFlag \in BOOLEAN

Has(w, r) == worker[w].req = r /\ worker[w].at \in {"took", "running", "ran"}

\* The places where a request can be: a position of a queue, a worker's hands,
\* or uv__work_cancel between its two critical sections.
Places(r) ==
  {<<"wq", i>> : i \in {j \in DOMAIN wq : wq[j] = r}}
    \cup {<<"loop", i>> : i \in {j \in DOMAIN loopWq : loopWq[j] = r}}
    \cup {<<"batch", i>> : i \in {j \in DOMAIN batch : batch[j] = r}}
    \cup {<<"worker", w>> : w \in {x \in Workers : Has(x, r)}}
    \cup IF main.calling = "removed" /\ main.of = r THEN {<<"cancel", 0>>} ELSE {}

\* A request in loop->active_reqs is in exactly one place, any other in none:
\* no order of worker(), uv__work_cancel and uv__work_done loses one (uv_run
\* would never return) or links one twice (its callback would run twice).
OnePlace ==
  \A r \in Requests : Cardinality(Places(r)) = IF req[r].active THEN 1 ELSE 0

\* Once cancel() has returned True the work callback never runs and the done
\* callback gets UV_ECANCELED; one that ran reports success
\* (docs/loop.rst on queue_work, request.c Request_func_cancel).
CancelMeansNeverRun ==
  \A r \in Requests :
    /\ req[r].told => req[r].ran = 0 /\ req[r].work = "cancelled"
    /\ req[r].done = 1 => (req[r].ran = 1) # (req[r].work = "cancelled")

\* A WorkRequest stays allocated while a worker, a queue or its done callback
\* needs it, although the program has dropped it (Py_INCREF in queue_work), and
\* is freed as soon as nobody does (Py_DECREF in pyuv__tp_done_cb).
AllocatedWhileNeeded ==
  \A r \in Requests :
    (req[r].mem = "live") <=> (req[r].users = 1 \/ req[r].active \/ main.for = r)

\* worker(), uv__work_cancel and uv__work_done pass a request on without losing,
\* doubling or freeing it while one of them has it.
PassedOnSafely == OnePlace /\ AllocatedWhileNeeded

\* A request whose done callback is due is never left behind in loop->wq with
\* nothing to wake the loop: pending and the eventfd, set and reset in either
\* order by uv_async_send and uv__async_io, never miss one.
NoLostWakeup ==
  loopWq # <<>> =>
    \/ \E w \in Workers : worker[w].at \in {"send", "write"}
    \/ pending /\ (eventfd \/ main.at = "async")
    \/ main.at = "move"

\* No worker sleeps while there is a request no woken worker will take:
\* post() signals once for each request, unless no thread is idle.
NoIdleWhileWork ==
  Waiting # {} => Len(wq) <= Cardinality({w \in Workers : worker[w].at = "look"})

\* Nobody sleeps over work: neither the loop (uv_async_send) nor a worker (post).
NobodySleepsOverWork == NoLostWakeup /\ NoIdleWhileWork

Running == main.at # "out" /\ main.mode = "default"

\* A request queued while run() runs leaves active_reqs, or run() is stopped;
\* unless the program cancels it for ever: each cancel() puts it back at the
\* end of loop->wq, even of one already cancelled.
RequestsComplete ==
  \A r \in Requests :
    (<>[](main.of # r)) => ((Running /\ req[r].active) ~> (~req[r].active \/ main.at = "out"))

\* cancel() returns: uv__work_cancel takes both mutexes with the interpreter
\* lock held, and no worker keeps one while it waits for another of the three.
CancelReturns == main.calling # "no" ~> main.calling = "no"

\* Neither queue_work() nor cancel() waits for ever for the pool.
CallsComplete == RequestsComplete /\ CancelReturns

\* What CancelInDone adds: a request whose done callback is called is in
\* active_reqs, as uv__req_unregister (uv-common.h) asserts of the list.
UnregistersActive ==
  [][TakeDone => Alive]_vars

Executing(r) == \E w \in Workers : Has(w, r) /\ worker[w].at = "running"

\* What the requests promise, without the threads: WorkSpec.
Status(r) ==
  IF req[r].mem # "live" THEN "free"
  ELSE CASE req[r].done = 1 -> IF main.for = r THEN "reporting" ELSE "finished"
         [] req[r].done = 0 /\ req[r].work = "cancelled" -> "cancelled"
         [] req[r].done = 0 /\ req[r].work = "null" -> "executed"
         [] req[r].done = 0 /\ req[r].work = "queued" ->
              IF req[r].ran = 0 THEN "queued"
              ELSE IF Executing(r) THEN "executing" ELSE "executed"

Promise == INSTANCE WorkSpec WITH status <- [r \in Requests |-> Status(r)],
                                  told <- [r \in Requests |-> req[r].told]

\* The thread pool implements WorkSpec.
ImplementsWorkSpec == Promise!Spec
=============================================================================
