--------------------------- MODULE WorkQueueProofs ---------------------------
(***************************************************************************)
(* A work request is passed on safely between the program, the workers of  *)
(* the pool and the loop, for any number of requests and workers: proofs   *)
(* of the invariants of WorkQueue and of its refinement of WorkSpec.       *)
(***************************************************************************)
EXTENDS WorkQueue, QueueLemmas, FiniteSetTheorems, TLAPS

-----------------------------------------------------------------------------
(* The inductive invariant: where a request is decides what its fields say. *)

Removed(r) == main.calling = "removed" /\ main.of = r

Somewhere(r) ==
  In(wq, r) \/ In(loopWq, r) \/ In(batch, r) \/ Removed(r) \/ \E w \in Workers : Has(w, r)

Queued(q) == q.active /\ q.node = "linked" /\ q.work = "queued" /\ q.ran = 0 /\ q.done = 0 /\ ~q.told

InHand(q) == q.active /\ q.node = "self" /\ q.work = "queued" /\ q.done = 0 /\ ~q.told

Due(q) ==
  /\ q.active /\ q.node = "linked" /\ q.done = 0
  /\ \/ q.work = "null" /\ q.ran = 1 /\ ~q.told
     \/ q.work = "cancelled" /\ q.ran = 0 /\ q.told

Withdrawn(q) == q.active /\ q.node = "stale" /\ q.work = "cancelled" /\ q.ran = 0 /\ q.done = 0

\* What holds of a request wherever it is; reported: its done callback is running.
Sound(q, reported) ==
  /\ (q.held <=> q.active \/ reported) /\ (q.ptr <=> q.active \/ reported)
  /\ q.mem = "live" <=> (q.users = 1 \/ q.active \/ reported)
  /\ q.mem = "live" => q.done = IF q.active THEN 0 ELSE 1
  /\ q.done = 1 => (q.ran = 1) # (q.work = "cancelled")
  /\ q.told => q.ran = 0 /\ q.work = "cancelled"
  /\ reported => ~q.active
  /\ q.work = "cancelled" /\ q.done = 1 => q.told

QueueInv == Once(wq) /\ \A r \in Requests : In(wq, r) => Queued(req[r])

HandInv ==
  /\ \A w \in Workers, r \in Requests :
       Has(w, r) => InHand(req[r]) /\ req[r].ran = IF worker[w].at = "took" THEN 0 ELSE 1
  /\ \A w \in Workers : worker[w].at \in {"took", "running", "ran"} => worker[w].req \in Requests
  /\ \A v, w \in Workers, r \in Requests : Has(v, r) /\ Has(w, r) => v = w

DueInv ==
  /\ Once(loopWq) /\ Once(batch)
  /\ \A r \in Requests : In(loopWq, r) \/ In(batch, r) => Due(req[r])
  /\ \A r \in Requests : ~(In(loopWq, r) /\ In(batch, r))

CancelInv ==
  /\ main.calling # "no" => main.at \in {"out", "done"} /\ main.of \in Requests /\ req[main.of].active
  /\ main.calling = "removed" => Withdrawn(req[main.of])

LoopInv ==
  /\ batch # <<>> => main.at \in {"batch", "done"}
  /\ (main.at = "done") = (main.for \in Requests)

RequestInv ==
  \A r \in Requests : Sound(req[r], main.for = r) /\ (req[r].active => Somewhere(r))

Inv == TypeOK /\ QueueInv /\ HandInv /\ DueInv /\ CancelInv /\ LoopInv /\ RequestInv

-----------------------------------------------------------------------------
(* One lemma per action: it keeps the invariant.                           *)

\* What the place of a request excludes.
LEMMA Apart ==
  ASSUME Inv, NEW r \in Requests
  PROVE  /\ ~req[r].active => ~Somewhere(r)
         /\ In(wq, r) => ~In(loopWq, r) /\ ~In(batch, r) /\ ~Removed(r) /\ \A w \in Workers : ~Has(w, r)
         /\ In(loopWq, r) \/ In(batch, r) => ~Removed(r) /\ \A w \in Workers : ~Has(w, r)
         /\ Removed(r) => \A w \in Workers : ~Has(w, r)
BY DEF Inv, QueueInv, HandInv, DueInv, CancelInv, Somewhere, Removed, Queued, InHand, Due, Withdrawn

\* Waking a worker moves no request.
LEMMA SignalKeeps ==
  ASSUME TypeOK, Signal
  PROVE  /\ worker' \in [Workers -> Worker]
         /\ \A w \in Workers : /\ worker'[w].req = worker[w].req
                               /\ worker'[w].at # worker[w].at => worker[w].at = "waiting" /\ worker'[w].at = "look"
<1>1. worker \in [Workers -> Worker]
  BY DEF TypeOK
<1>2. CASE UNCHANGED worker
  BY <1>1, <1>2
<1>3. ASSUME NEW v \in Workers, worker[v].at = "waiting", worker' = [worker EXCEPT ![v].at = "look"]
      PROVE  /\ worker'[v] = [at |-> "look", req |-> worker[v].req]
             /\ \A w \in Workers \ {v} : worker'[w] = worker[w]
             /\ worker' \in [Workers -> Worker]
  BY <1>1, <1>3 DEF Worker
<1>4. CASE \E v \in Workers : worker[v].at = "waiting" /\ worker' = [worker EXCEPT ![v].at = "look"]
  <2>1. PICK v \in Workers : worker[v].at = "waiting" /\ worker' = [worker EXCEPT ![v].at = "look"]
    BY <1>4
  <2>2. /\ worker' \in [Workers -> Worker] /\ worker'[v] = [at |-> "look", req |-> worker[v].req]
        /\ \A w \in Workers \ {v} : worker'[w] = worker[w]
    BY <1>3, <2>1
  <2>3. worker'[v].req = worker[v].req /\ worker'[v].at = "look"
    BY <2>2
  <2> QED BY <2>1, <2>2, <2>3
<1> QED BY <1>2, <1>4 DEF Signal, Waiting

\* queue_work() puts a request that is nowhere at the end of the pool's queue.
LEMMA QueueWorkKeeps ==
  ASSUME Inv, NEW r \in Requests, NEW hasDone \in BOOLEAN, QueueWork(r, hasDone)
  PROVE  Inv'
<1>1. ~req[r].active /\ ~Somewhere(r) /\ main.for # r
  BY Apart DEF QueueWork, Inv, RequestInv, Sound, TypeOK, Request
<1>2. /\ wq' \in Seq(Requests) /\ Once(wq')
      /\ \A x \in Requests : In(wq', x) <=> In(wq, x) \/ x = r
  BY <1>1, AppendOnce DEF QueueWork, Inv, QueueInv, TypeOK, Somewhere
<1>3. /\ req' \in [Requests -> Request]
      /\ \A x \in Requests \ {r} : req'[x] = req[x]
      /\ Queued(req'[r]) /\ req'[r].held /\ req'[r].ptr /\ req'[r].mem = "live" /\ req'[r].users = 1
  BY DEF QueueWork, Inv, TypeOK, Request, Queued
<1>4. UNCHANGED <<loopWq, batch, main, stopFlag, mutex, wqMutex, pending, eventfd>> /\ Signal
  BY DEF QueueWork, locks, wakeup
<1>5. \A w \in Workers, x \in Requests : Has(w, x)' <=> Has(w, x)
  BY <1>4, SignalKeeps DEF Inv, Has
<1>6. TypeOK'
  BY <1>2, <1>3, <1>4, SignalKeeps DEF Inv, TypeOK
<1>7. QueueInv'
  BY <1>2, <1>3 DEF Inv, QueueInv
<1>8. HandInv'
  BY <1>1, <1>3, <1>4, <1>5, SignalKeeps DEF Inv, HandInv, Somewhere, Has
<1>9. DueInv'
  BY <1>1, <1>3, <1>4 DEF Inv, DueInv, Somewhere
<1>10. CancelInv'
  BY <1>1, <1>3, <1>4 DEF Inv, CancelInv
<1>11. LoopInv'
  BY <1>4 DEF Inv, LoopInv
<1>12. RequestInv'
  <2>1. Sound(req'[r], FALSE) /\ Somewhere(r)' /\ main'.for # r
    BY <1>1, <1>2, <1>3, <1>4 DEF Sound, Queued, Somewhere
  <2>2. ASSUME NEW x \in Requests \ {r}
        PROVE  Sound(req'[x], main'.for = x) /\ (req'[x].active => Somewhere(x)')
    BY <1>2, <1>3, <1>4, <1>5 DEF Inv, RequestInv, Somewhere, Removed
  <2> QED BY <2>1, <2>2 DEF RequestInv
<1> QED BY <1>6, <1>7, <1>8, <1>9, <1>10, <1>11, <1>12 DEF Inv

\* A step that moves no request: of the threads, only where they are changes.
LEMMA QuietKeeps ==
  ASSUME Inv, TypeOK', UNCHANGED <<req, queues>>,
         \A w \in Workers, r \in Requests : Has(w, r)' <=> Has(w, r),
         \A w \in Workers : worker[w].at \in {"took", "running", "ran"} => worker'[w].req = worker[w].req,
         \A w \in Workers : worker'[w].at \in {"took", "running", "ran"} =>
           worker[w].at \in {"took", "running", "ran"} /\ (worker'[w].at = "took" <=> worker[w].at = "took"),
         \/ main' = main
         \/ /\ main.calling = "no" /\ main'.calling = "no" /\ main'.for = main.for
            /\ main.at # "done" /\ main'.at # "done" /\ batch = <<>>
  PROVE  Inv'
<1> USE DEF Inv, queues
<1>1. QueueInv'
  BY DEF QueueInv
<1>2. HandInv'
  BY DEF HandInv, Has
<1>3. DueInv'
  BY DEF DueInv
<1>4. CancelInv' /\ LoopInv'
  BY DEF CancelInv, LoopInv
<1>5. ASSUME NEW r \in Requests
      PROVE  /\ main'.for = r <=> main.for = r
             /\ Somewhere(r) => Somewhere(r)'
  BY DEF Somewhere, Removed
<1>6. RequestInv'
  BY <1>5, Zenon DEF RequestInv, Sound
<1> QED BY <1>1, <1>2, <1>3, <1>4, <1>6

\* Steps of the loop thread that touch no request.
LEMMA QuietLoopKeeps ==
  ASSUME Inv, Stop \/ (\E mode \in {"default", "once", "nowait"} : Run(mode)) \/ Poll \/ AsyncIo \/ BatchDone \/ Iterated
  PROVE  Inv'
<1>1. UNCHANGED <<req, queues, worker>> /\ UNCHANGED locks
  BY DEF Stop, Run, Poll, AsyncIo, BatchDone, Iterated
<1>2. \/ main' = main
      \/ /\ main.calling = "no" /\ main'.calling = "no" /\ main'.for = main.for /\ main' \in Main
         /\ main.at # "done" /\ main'.at # "done" /\ batch = <<>>
  <2>1. main \in Main /\ (main.calling # "no" => main.at \in {"out", "done"})
        /\ (batch # <<>> => main.at \in {"batch", "done"})
    BY DEF Inv, TypeOK, CancelInv, LoopInv
  <2>2. ASSUME NEW mode \in {"default", "once", "nowait"}, Run(mode) PROVE <1>2!1 \/ <1>2!2
    BY <2>1, <2>2 DEF Run, InPython, Main, LoopPlaces
  <2>3. CASE Poll
    BY <2>1, <2>3 DEF Poll, Main, LoopPlaces
  <2>4. CASE AsyncIo
    BY <2>1, <2>4 DEF AsyncIo, Main, LoopPlaces
  <2>5. CASE BatchDone \/ Iterated
    BY <2>1, <2>5 DEF BatchDone, Iterated, Main, LoopPlaces
  <2> QED BY <2>2, <2>3, <2>4, <2>5 DEF Stop
<1>3. stopFlag' \in BOOLEAN /\ pending' \in BOOLEAN /\ eventfd' \in BOOLEAN
  BY DEF Inv, TypeOK, Stop, Run, Poll, AsyncIo, BatchDone, Iterated, wakeup
<1>4. TypeOK'
  BY <1>1, <1>2, <1>3 DEF Inv, TypeOK, queues, locks
<1> QED BY <1>1, <1>2, <1>4, QuietKeeps DEF Has

\* Steps of a worker that touch no request.
LEMMA QuietWorkerKeeps ==
  ASSUME Inv, NEW w \in Workers, SpuriousWakeup(w) \/ EndWork(w) \/ SendAsync(w) \/ WriteEventfd(w) \/ Unlock(w)
  PROVE  Inv'
<1>1. UNCHANGED <<req, queues, mutex, main, stopFlag>>
  BY DEF SpuriousWakeup, EndWork, SendAsync, WriteEventfd, Unlock, queues, locks
<1>2. worker \in [Workers -> Worker]
  BY DEF Inv, TypeOK
<1>3. /\ worker' \in [Workers -> Worker] /\ worker'[w].req = worker[w].req
      /\ \A v \in Workers \ {w} : worker'[v] = worker[v]
      /\ \/ worker[w].at = "running" /\ worker'[w].at = "ran"
         \/ worker[w].at \notin {"took", "running", "ran"} /\ worker'[w].at \notin {"took", "running", "ran"}
  BY <1>2 DEF Worker, SpuriousWakeup, EndWork, SendAsync, WriteEventfd, Unlock
<1>4. pending' \in BOOLEAN /\ eventfd' \in BOOLEAN /\ wqMutex' \in Workers \cup {Nobody}
  BY DEF Inv, TypeOK, SpuriousWakeup, EndWork, SendAsync, WriteEventfd, Unlock, wakeup, locks
<1>5. TypeOK'
  BY <1>1, <1>3, <1>4 DEF Inv, TypeOK, queues
<1>6. \A v \in Workers, r \in Requests : Has(v, r)' <=> Has(v, r)
  BY <1>3 DEF Has
<1> QED BY <1>1, <1>3, <1>5, <1>6, QuietKeeps

\* Py_DECREF frees a request that neither the program nor libuv holds.
LEMMA UnreferencedFields ==
  ASSUME NEW p \in Request
  PROVE  LET q == Unreferenced(p)
         IN  /\ q \in Request /\ q.mem = IF p.users = 0 /\ ~p.held THEN "freed" ELSE p.mem
             /\ q.users = p.users /\ q.held = p.held /\ q.work = p.work /\ q.node = p.node
             /\ q.hasDone = p.hasDone /\ q.ptr = p.ptr /\ q.active = p.active
             /\ q.ran = p.ran /\ q.done = p.done /\ q.told = p.told
<1> DEFINE m == IF p.users = 0 /\ ~p.held THEN "freed" ELSE p.mem
<1>1. Unreferenced(p) = [p EXCEPT !.mem = m] /\ m \in {"absent", "live", "freed"}
  BY DEF Unreferenced, Request
<1> HIDE DEF m
<1> QED BY <1>1 DEF Request, m

\* pyuv__tp_done_cb gives up libuv's reference.
LEMMA FinishedFields ==
  ASSUME NEW p \in Request
  PROVE  LET q == Finished(p)
         IN  /\ q \in Request /\ q.mem = IF p.users = 0 THEN "freed" ELSE p.mem
             /\ ~q.held /\ ~q.ptr
             /\ q.users = p.users /\ q.work = p.work /\ q.node = p.node
             /\ q.hasDone = p.hasDone /\ q.active = p.active
             /\ q.ran = p.ran /\ q.done = p.done /\ q.told = p.told
<1> DEFINE m == [p EXCEPT !.ptr = FALSE, !.held = FALSE]
<1>1. /\ m \in Request /\ ~m.held /\ ~m.ptr /\ m.users = p.users /\ m.work = p.work /\ m.node = p.node
      /\ m.hasDone = p.hasDone /\ m.active = p.active
      /\ m.ran = p.ran /\ m.done = p.done /\ m.told = p.told /\ m.mem = p.mem
  BY DEF Request
<1> HIDE DEF m
<1>2. Finished(p) = Unreferenced(m)
  BY DEF Finished, m
<1> QED BY <1>1, <1>2, UnreferencedFields

\* Forgetting a WorkRequest frees it only if libuv is through with it.
LEMMA DropRequestKeeps ==
  ASSUME Inv, NEW r \in Requests, DropRequest(r)
  PROVE  Inv'
<1>1. UNCHANGED <<wq, loopWq, batch, worker, main, stopFlag, mutex, wqMutex, pending, eventfd>>
  BY DEF DropRequest, queues, locks, wakeup
<1>2. req \in [Requests -> Request] /\ Sound(req[r], main.for = r)
  BY DEF Inv, TypeOK, RequestInv
<1>3. /\ req' = [req EXCEPT ![r] = Unreferenced([req[r] EXCEPT !.users = 0])] /\ req[r].users = 1
      /\ req[r] \in Request
  BY <1>2 DEF DropRequest
<1> DEFINE q == req'[r]
<1>4. /\ q \in Request /\ q.users = 0 /\ q.held = req[r].held /\ q.work = req[r].work /\ q.node = req[r].node
      /\ q.hasDone = req[r].hasDone /\ q.ptr = req[r].ptr /\ q.active = req[r].active
      /\ q.ran = req[r].ran /\ q.done = req[r].done /\ q.told = req[r].told
      /\ q.mem = IF req[r].held THEN req[r].mem ELSE "freed"
  <2> DEFINE p == [req[r] EXCEPT !.users = 0]
  <2>1. q = Unreferenced(p)
    BY <1>2, <1>3
  <2>2. /\ p \in Request /\ p.users = 0 /\ p.held = req[r].held /\ p.work = req[r].work /\ p.node = req[r].node
        /\ p.hasDone = req[r].hasDone /\ p.ptr = req[r].ptr /\ p.active = req[r].active
        /\ p.ran = req[r].ran /\ p.done = req[r].done /\ p.told = req[r].told /\ p.mem = req[r].mem
    BY <1>3 DEF Request
  <2> HIDE DEF p, q
  <2> QED BY <2>1, <2>2, UnreferencedFields
<1>5. req' \in [Requests -> Request] /\ \A x \in Requests \ {r} : req'[x] = req[x]
  BY <1>2, <1>3, <1>4
<1> HIDE DEF q
<1>6. Sound(q, main.for = r)
  BY <1>2, <1>3, <1>4 DEF Sound
<1>7. TypeOK'
  BY <1>1, <1>5 DEF Inv, TypeOK
<1>8. QueueInv'
  BY <1>1, <1>4, <1>5 DEF Inv, QueueInv, Queued, q
<1>9. HandInv'
  BY <1>1, <1>4, <1>5 DEF Inv, HandInv, InHand, Has, q
<1>10. DueInv'
  BY <1>1, <1>4, <1>5 DEF Inv, DueInv, Due, q
<1>11. CancelInv' /\ LoopInv'
  BY <1>1, <1>4, <1>5 DEF Inv, CancelInv, LoopInv, Withdrawn, q
<1>12. RequestInv'
  BY <1>1, <1>4, <1>5, <1>6 DEF Inv, RequestInv, Somewhere, Removed, Has, q
<1> QED BY <1>7, <1>8, <1>9, <1>10, <1>11, <1>12 DEF Inv

\* cancel() begins.  In the done callback of r itself r is no longer active.
LEMMA CancelKeeps ==
  ASSUME Inv, ~CancelInDone, NEW r \in Requests, Cancel(r)
  PROVE  Inv'
<1>1. UNCHANGED <<req, queues, worker, wqMutex, pending, eventfd, stopFlag>> /\ mutex' = LoopThread
  BY DEF Cancel, wakeup
<1>2. /\ main' \in Main /\ main'.calling = "locked" /\ main'.of = r /\ main.at \in {"out", "done"}
      /\ main'.at = main.at /\ main'.for = main.for /\ main.calling = "no"
  BY DEF Inv, TypeOK, Main, Cancel, InPython
<1>3. req[r].active
  BY DEF Inv, RequestInv, Sound, Cancel
<1>4. TypeOK'
  BY <1>1, <1>2 DEF Inv, TypeOK, queues
<1>5. QueueInv' /\ DueInv'
  BY <1>1 DEF Inv, QueueInv, DueInv, queues
<1>6. HandInv'
  BY <1>1 DEF Inv, HandInv, Has
<1>7. CancelInv' /\ LoopInv'
  BY <1>1, <1>2, <1>3 DEF Inv, CancelInv, LoopInv, queues
<1>8. RequestInv'
  BY <1>1, <1>2 DEF Inv, RequestInv, Somewhere, Removed, Has, queues
<1> QED BY <1>4, <1>5, <1>6, <1>7, <1>8 DEF Inv

\* uv__work_cancel with both mutexes.
LEMMA DecideCancelKeeps ==
  ASSUME Inv, DecideCancel
  PROVE  Inv'
<1>0. PICK r \in Requests : r = main.of
  BY DEF DecideCancel, Inv, CancelInv
<1>1. /\ UNCHANGED <<worker, wqMutex, pending, eventfd, stopFlag>> /\ mutex' = Nobody
      /\ main.calling = "locked" /\ r = main.of /\ main \in Main /\ main.at \in {"out", "done"}
      /\ req[r].active
  BY <1>0 DEF DecideCancel, wakeup, Inv, CancelInv, TypeOK
<1>2. CASE ~Cancellable(req[r])
  <2>1. UNCHANGED <<req, queues>> /\ main' = [main EXCEPT !.calling = "no", !.of = Nobody]
    BY <1>1, <1>2 DEF DecideCancel
  <2>2. main' \in Main /\ main'.calling = "no" /\ main'.at = main.at /\ main'.for = main.for
    BY <1>1, <2>1 DEF Main
  <2>3. TypeOK'
    BY <1>1, <2>1, <2>2 DEF Inv, TypeOK, queues
  <2>4. QueueInv' /\ DueInv'
    BY <2>1 DEF Inv, QueueInv, DueInv, queues
  <2>5. HandInv'
    BY <1>1, <2>1 DEF Inv, HandInv, Has
  <2>6. CancelInv' /\ LoopInv'
    BY <2>1, <2>2 DEF Inv, CancelInv, LoopInv, queues
  <2>7. RequestInv'
    BY <1>1, <2>1, <2>2 DEF Inv, RequestInv, Somewhere, Removed, Has, queues
  <2> QED BY <2>3, <2>4, <2>5, <2>6, <2>7 DEF Inv
<1>3. CASE Cancellable(req[r])
  <2>1. /\ req' = [req EXCEPT ![r].work = "cancelled", ![r].node = "stale"]
        /\ wq' = Without(wq, r) /\ loopWq' = Without(loopWq, r) /\ batch' = Without(batch, r)
        /\ main' = [main EXCEPT !.calling = "removed"]
    BY <1>1, <1>3 DEF DecideCancel
  <2>2. main' \in Main /\ main'.calling = "removed" /\ main'.at = main.at /\ main'.for = main.for /\ main'.of = r
    BY <1>1, <2>1 DEF Main
  <2>3. /\ wq' \in Seq(Requests) /\ Once(wq') /\ loopWq' \in Seq(Requests) /\ Once(loopWq')
        /\ batch' \in Seq(Requests) /\ Once(batch')
        /\ \A x : In(wq', x) <=> In(wq, x) /\ x # r
        /\ \A x : In(loopWq', x) <=> In(loopWq, x) /\ x # r
        /\ \A x : In(batch', x) <=> In(batch, x) /\ x # r
        /\ batch' # <<>> => batch # <<>>
    <3>1. Once(wq) /\ Once(loopWq) /\ Once(batch)
          /\ wq \in Seq(Requests) /\ loopWq \in Seq(Requests) /\ batch \in Seq(Requests)
      BY DEF Inv, TypeOK, QueueInv, DueInv
    <3>2. batch = <<>> => batch' = <<>>
      BY <2>1 DEF Without
    <3> QED BY <2>1, <3>1, <3>2, WithoutOnce
  <2>4. \A w \in Workers : ~Has(w, r)
    BY <1>1, <1>3 DEF Inv, HandInv, InHand, Cancellable
  <2>5. (In(wq, r) \/ In(loopWq, r) \/ In(batch, r)) /\ ~Removed(r)
    BY <1>1, <2>4 DEF Inv, RequestInv, Somewhere, Removed
  <2>6. req \in [Requests -> Request] /\ req[r] \in Request
    BY <1>1 DEF Inv, TypeOK
  <2> DEFINE q == req'[r]
  <2>7. /\ q \in Request /\ q.work = "cancelled" /\ q.node = "stale" /\ q.mem = req[r].mem
        /\ q.users = req[r].users /\ q.held = req[r].held /\ q.ptr = req[r].ptr /\ q.active = req[r].active
        /\ q.ran = req[r].ran /\ q.done = req[r].done /\ q.told = req[r].told
    <3>1. q = [req[r] EXCEPT !.work = "cancelled", !.node = "stale"]
      BY <2>1, <2>6
    <3> HIDE DEF q
    <3> QED BY <2>6, <3>1 DEF Request
  <2>8. req' \in [Requests -> Request] /\ \A x \in Requests \ {r} : req'[x] = req[x]
    BY <2>1, <2>6, <2>7
  <2> HIDE DEF q
  <2>9. q.active /\ q.ran = 0 /\ q.done = 0
    BY <1>1, <1>3, <2>5, <2>7 DEF Inv, QueueInv, DueInv, Queued, Due, Cancellable
  <2>10. Sound(q, main'.for = r)
    BY <1>1, <2>2, <2>7, <2>9 DEF Inv, RequestInv, Sound
  <2>11. TypeOK'
    BY <1>1, <2>2, <2>3, <2>8 DEF Inv, TypeOK
  <2>12. QueueInv'
    BY <2>3, <2>8 DEF Inv, QueueInv
  <2>13. HandInv'
    BY <1>1, <2>4, <2>8 DEF Inv, HandInv, Has
  <2>14. DueInv'
    BY <2>3, <2>8 DEF Inv, DueInv
  <2>15. CancelInv' /\ LoopInv'
    BY <1>1, <2>2, <2>3, <2>7, <2>9 DEF Inv, CancelInv, LoopInv, Withdrawn, q
  <2>16. RequestInv'
    <3>1. Removed(r)'
      BY <2>2 DEF Removed
    <3>2. ASSUME NEW x \in Requests \ {r} PROVE Sound(req'[x], main'.for = x) /\ (req'[x].active => Somewhere(x)')
      <4>1. Sound(req'[x], main'.for = x)
        BY <2>2, <2>8 DEF Inv, RequestInv, Sound
      <4>2. req[x].active => Somewhere(x) /\ ~Removed(x)
        BY <1>1 DEF Inv, RequestInv, Removed
      <4>3. Somewhere(x) /\ ~Removed(x) => Somewhere(x)'
        BY <1>1, <2>3 DEF Somewhere, Has
      <4> QED BY <2>8, <4>1, <4>2, <4>3
    <3> QED BY <2>10, <3>1, <3>2 DEF RequestInv, Somewhere, q
  <2> QED BY <2>11, <2>12, <2>13, <2>14, <2>15, <2>16 DEF Inv
<1> QED BY <1>2, <1>3

\* The request goes back to the end of loop->wq; cancel() returns.
LEMMA PostCancelledKeeps ==
  ASSUME Inv, PostCancelled
  PROVE  Inv'
<1>0. PICK r \in Requests : r = main.of
  BY DEF PostCancelled, Inv, CancelInv
<1>1. /\ UNCHANGED <<wq, batch, worker, mutex, wqMutex, stopFlag>>
      /\ main.calling = "removed" /\ r = main.of /\ main \in Main /\ main.at \in {"out", "done"}
      /\ main' = [main EXCEPT !.calling = "no", !.of = Nobody]
      /\ loopWq' = Append(loopWq, r)
      /\ req' = [req EXCEPT ![r].node = "linked", ![r].told = TRUE]
      /\ pending' \in BOOLEAN /\ eventfd' \in BOOLEAN
  BY <1>0 DEF PostCancelled, locks, Inv, CancelInv, TypeOK
<1>2. main' \in Main /\ main'.calling = "no" /\ main'.at = main.at /\ main'.for = main.for
  BY <1>1 DEF Main
<1>3. Withdrawn(req[r]) /\ Removed(r)
  BY <1>1 DEF Inv, CancelInv, Removed
<1>4. ~In(wq, r) /\ ~In(loopWq, r) /\ ~In(batch, r) /\ \A w \in Workers : ~Has(w, r)
  BY <1>1, <1>3, Apart
<1>5. /\ loopWq' \in Seq(Requests) /\ Once(loopWq')
      /\ \A x \in Requests : In(loopWq', x) <=> In(loopWq, x) \/ x = r
  BY <1>1, <1>4, AppendOnce DEF Inv, TypeOK, DueInv
<1>6. req \in [Requests -> Request] /\ req[r] \in Request
  BY <1>1 DEF Inv, TypeOK
<1> DEFINE q == req'[r]
<1>7. /\ q \in Request /\ q.work = req[r].work /\ q.node = "linked" /\ q.told /\ q.mem = req[r].mem
      /\ q.users = req[r].users /\ q.held = req[r].held /\ q.ptr = req[r].ptr /\ q.active = req[r].active
      /\ q.ran = req[r].ran /\ q.done = req[r].done
  BY <1>1, <1>6 DEF Request
<1>8. req' \in [Requests -> Request] /\ \A x \in Requests \ {r} : req'[x] = req[x]
  BY <1>1, <1>6, <1>7
<1> HIDE DEF q
<1>9. Due(q) /\ Sound(q, main'.for = r)
  BY <1>1, <1>2, <1>3, <1>7 DEF Inv, RequestInv, Sound, Withdrawn, Due
<1>10. TypeOK'
  BY <1>1, <1>2, <1>5, <1>8 DEF Inv, TypeOK
<1>11. QueueInv'
  BY <1>1, <1>4, <1>8 DEF Inv, QueueInv
<1>12. HandInv'
  BY <1>1, <1>4, <1>8 DEF Inv, HandInv, Has
<1>13. DueInv'
  BY <1>1, <1>4, <1>5, <1>8, <1>9 DEF Inv, DueInv, q
<1>14. CancelInv' /\ LoopInv'
  BY <1>1, <1>2 DEF Inv, CancelInv, LoopInv
<1>15. RequestInv'
  <2>1. Sound(req'[r], main'.for = r) /\ Somewhere(r)'
    BY <1>1, <1>5, <1>9 DEF Somewhere, q
  <2>2. ASSUME NEW x \in Requests \ {r} PROVE Sound(req'[x], main'.for = x) /\ (req'[x].active => Somewhere(x)')
    <3>1. Sound(req'[x], main'.for = x)
      BY <1>2, <1>8 DEF Inv, RequestInv, Sound
    <3>2. req[x].active => Somewhere(x) /\ ~Removed(x)
      BY <1>3 DEF Inv, RequestInv, Removed
    <3>3. Somewhere(x) /\ ~Removed(x) => Somewhere(x)'
      BY <1>1, <1>5 DEF Somewhere, Has
    <3> QED BY <1>8, <3>1, <3>2, <3>3
  <2> QED BY <2>1, <2>2 DEF RequestInv
<1> QED BY <1>10, <1>11, <1>12, <1>13, <1>14, <1>15 DEF Inv

\* uv__work_done takes loop->wq.
LEMMA MoveQueueKeeps ==
  ASSUME Inv, MoveQueue
  PROVE  Inv'
<1>1. /\ UNCHANGED <<req, wq, worker, mutex, wqMutex, pending, eventfd, stopFlag>>
      /\ batch' = loopWq /\ loopWq' = <<>> /\ main.at = "move" /\ main \in Main
      /\ main' = [main EXCEPT !.at = "batch"]
  BY DEF MoveQueue, Inv, TypeOK, locks, wakeup
<1>2. main' \in Main /\ main'.at = "batch" /\ main'.calling = main.calling /\ main'.of = main.of /\ main'.for = main.for
  BY <1>1 DEF Main, LoopPlaces
<1>3. batch = <<>> /\ main.calling = "no" /\ main.for \notin Requests
  BY <1>1 DEF Inv, LoopInv, CancelInv
<1>4. loopWq' \in Seq(Requests) /\ Once(loopWq') /\ \A x : ~In(loopWq', x) /\ ~In(batch, x)
  BY <1>1, <1>3, EmptyOnce
<1>5. TypeOK'
  BY <1>1, <1>2, <1>4 DEF Inv, TypeOK
<1>6. QueueInv'
  BY <1>1 DEF Inv, QueueInv
<1>7. HandInv'
  BY <1>1 DEF Inv, HandInv, Has
<1>8. DueInv'
  BY <1>1, <1>4 DEF Inv, DueInv
<1>9. CancelInv' /\ LoopInv'
  BY <1>1, <1>2, <1>3 DEF Inv, CancelInv, LoopInv
<1>10. RequestInv'
  BY <1>1, <1>2, <1>4 DEF Inv, RequestInv, Somewhere, Removed, Has
<1> QED BY <1>5, <1>6, <1>7, <1>8, <1>9, <1>10 DEF Inv

\* uv__work_done hands one request to its done callback, or finishes it.
LEMMA TakeDoneKeeps ==
  ASSUME Inv, TakeDone
  PROVE  Inv'
<1>1. PICK r \in Requests : r = Head(batch) /\ In(batch, r)
  BY TailOnce DEF Inv, TypeOK, DueInv, TakeDone
<1>2. /\ batch' = Tail(batch) /\ main.at = "batch" /\ batch # <<>>
      /\ UNCHANGED <<wq, loopWq, worker, mutex, wqMutex, pending, eventfd, stopFlag>>
  BY DEF TakeDone, locks, wakeup
<1>3. /\ batch' \in Seq(Requests) /\ Once(batch')
      /\ \A x : In(batch', x) <=> In(batch, x) /\ x # r
  BY <1>1, <1>2, TailOnce DEF Inv, TypeOK, DueInv
<1>4. main.calling = "no" /\ main.for \notin Requests /\ main \in Main
  BY <1>2 DEF Inv, CancelInv, LoopInv, TypeOK
<1>5. Due(req[r]) /\ Sound(req[r], FALSE) /\ req[r] \in Request /\ req \in [Requests -> Request]
  BY <1>1, <1>4 DEF Inv, DueInv, RequestInv, TypeOK, Sound
<1> DEFINE p == [req[r] EXCEPT !.node = "stale", !.active = FALSE, !.done = @ + 1]
<1>6. /\ p \in Request /\ ~p.active /\ p.done = 1 /\ p.node = "stale" /\ p.mem = req[r].mem
      /\ p.users = req[r].users /\ p.held = req[r].held /\ p.ptr = req[r].ptr /\ p.work = req[r].work
      /\ p.ran = req[r].ran /\ p.told = req[r].told
  <2> DEFINE one == req[r].done + 1
  <2>1. one = 1 /\ one \in 0 .. 1
    BY <1>5 DEF Due
  <2>2. p = [req[r] EXCEPT !.node = "stale", !.active = FALSE, !.done = one]
    BY <1>5
  <2> HIDE DEF p, one
  <2> QED BY <1>5, <2>1, <2>2 DEF Request
<1>7. \/ req' = [req EXCEPT ![r] = p] /\ main' = [main EXCEPT !.at = "done", !.for = r]
      \/ req' = [req EXCEPT ![r] = Finished(p)] /\ UNCHANGED main
  BY <1>1 DEF TakeDone
<1> HIDE DEF p
<1>8. /\ req' \in [Requests -> Request] /\ \A x \in Requests \ {r} : req'[x] = req[x]
      /\ Sound(req'[r], main'.for = r) /\ ~req'[r].active /\ main' \in Main
      /\ main'.calling = "no" /\ main'.at \in {"batch", "done"}
      /\ (main'.at = "done") = (main'.for \in Requests)
      /\ \A x \in Requests \ {r} : main'.for # x
  <2>1. CASE req' = [req EXCEPT ![r] = p] /\ main' = [main EXCEPT !.at = "done", !.for = r]
    <3>1. main' \in Main /\ main'.calling = "no" /\ main'.at = "done" /\ main'.for = r
      BY <1>4, <2>1 DEF Main, LoopPlaces
    <3>2. req' \in [Requests -> Request] /\ req'[r] = p /\ \A x \in Requests \ {r} : req'[x] = req[x]
      BY <1>5, <1>6, <2>1
    <3>3. Sound(p, TRUE)
      BY <1>5, <1>6 DEF Sound, Due
    <3> QED BY <1>6, <3>1, <3>2, <3>3 DEF Sound
  <2>2. CASE req' = [req EXCEPT ![r] = Finished(p)] /\ UNCHANGED main
    <3> DEFINE f == Finished(p)
    <3>1. /\ f \in Request /\ f.mem = IF p.users = 0 THEN "freed" ELSE p.mem
          /\ ~f.held /\ ~f.ptr /\ f.users = p.users /\ f.work = p.work /\ f.active = p.active
          /\ f.ran = p.ran /\ f.done = p.done /\ f.told = p.told
      BY <1>6, FinishedFields
    <3> HIDE DEF f
    <3>2. req' \in [Requests -> Request] /\ req'[r] = f /\ \A x \in Requests \ {r} : req'[x] = req[x]
      BY <1>5, <3>1, <2>2 DEF f
    <3>3. p.users \in 0 .. 1 /\ p.mem = "live"
      BY <1>5, <1>6 DEF Request, Sound, Due
    <3>4. Sound(f, FALSE)
      BY <1>5, <1>6, <3>1, <3>3 DEF Sound, Due
    <3> QED BY <1>2, <1>4, <1>6, <2>2, <3>1, <3>2, <3>4 DEF Sound
  <2> QED BY <1>7, <2>1, <2>2
<1>9. ~In(wq, r) /\ ~In(loopWq, r) /\ \A w \in Workers : ~Has(w, r)
  BY <1>1, Apart DEF Inv, DueInv
<1>10. TypeOK'
  BY <1>2, <1>3, <1>8 DEF Inv, TypeOK
<1>11. QueueInv'
  BY <1>2, <1>8, <1>9 DEF Inv, QueueInv
<1>12. HandInv'
  BY <1>2, <1>8, <1>9 DEF Inv, HandInv, Has
<1>13. DueInv'
  BY <1>2, <1>3, <1>8, <1>9 DEF Inv, DueInv
<1>14. CancelInv' /\ LoopInv'
  BY <1>8 DEF CancelInv, LoopInv
<1>15. ASSUME NEW x \in Requests \ {r} PROVE Sound(req'[x], main'.for = x) /\ (req'[x].active => Somewhere(x)')
  <2>1. Sound(req'[x], main'.for = x)
    BY <1>4, <1>8 DEF Inv, RequestInv, Sound
  <2>2. Somewhere(x) => Somewhere(x)'
    BY <1>2, <1>3, <1>4 DEF Somewhere, Removed, Has
  <2> QED BY <1>8, <2>1, <2>2 DEF Inv, RequestInv
<1>16. RequestInv'
  BY <1>8, <1>15 DEF RequestInv
<1> QED BY <1>10, <1>11, <1>12, <1>13, <1>14, <1>16 DEF Inv

\* The done callback has returned.
LEMMA LeaveDoneKeeps ==
  ASSUME Inv, LeaveDone
  PROVE  Inv'
<1>1. PICK r \in Requests : r = main.for
  BY DEF Inv, LoopInv, LeaveDone
<1>2. /\ main.at = "done" /\ main.calling = "no" /\ main \in Main
      /\ UNCHANGED <<wq, loopWq, batch, worker, mutex, wqMutex, pending, eventfd, stopFlag>>
      /\ req' = [req EXCEPT ![r] = Finished(req[r])]
      /\ main' = [main EXCEPT !.at = "batch", !.for = Nobody]
  BY <1>1 DEF LeaveDone, InPython, queues, locks, wakeup, Inv, TypeOK
<1>3. main' \in Main /\ main'.at = "batch" /\ main'.calling = "no" /\ main'.for \notin Requests
  BY <1>2, WorkAssumption DEF Main, LoopPlaces
<1>4. Sound(req[r], TRUE) /\ req[r] \in Request /\ req \in [Requests -> Request]
  BY <1>1 DEF Inv, RequestInv, TypeOK, Sound
<1> DEFINE f == req'[r]
<1>5. /\ f \in Request /\ f.mem = (IF req[r].users = 0 THEN "freed" ELSE req[r].mem)
      /\ ~f.held /\ ~f.ptr /\ f.users = req[r].users /\ f.work = req[r].work /\ f.active = req[r].active
      /\ f.ran = req[r].ran /\ f.done = req[r].done /\ f.told = req[r].told
  <2>1. f = Finished(req[r])
    BY <1>2, <1>4
  <2> HIDE DEF f
  <2> QED BY <1>4, <2>1, FinishedFields
<1>6. req' \in [Requests -> Request] /\ \A x \in Requests \ {r} : req'[x] = req[x]
  BY <1>2, <1>4, <1>5
<1> HIDE DEF f
<1>7. Sound(f, FALSE) /\ ~f.active
  <2>1. req[r].users \in 0 .. 1 /\ req[r].mem = "live"
    BY <1>4 DEF Request, Sound
  <2> QED BY <1>4, <1>5, <2>1 DEF Sound
<1>8. ~In(wq, r) /\ ~In(loopWq, r) /\ ~In(batch, r) /\ \A w \in Workers : ~Has(w, r)
  BY <1>4, Apart DEF Sound, Somewhere
<1>9. TypeOK'
  BY <1>2, <1>3, <1>6 DEF Inv, TypeOK
<1>10. QueueInv'
  BY <1>2, <1>6, <1>8 DEF Inv, QueueInv
<1>11. HandInv'
  BY <1>2, <1>6, <1>8 DEF Inv, HandInv, Has
<1>12. DueInv'
  BY <1>2, <1>6, <1>8 DEF Inv, DueInv
<1>13. CancelInv' /\ LoopInv'
  BY <1>3 DEF CancelInv, LoopInv
<1>14. ASSUME NEW x \in Requests \ {r} PROVE Sound(req'[x], main'.for = x) /\ (req'[x].active => Somewhere(x)')
  <2>1. Sound(req'[x], main'.for = x)
    BY <1>1, <1>3, <1>6 DEF Inv, RequestInv, Sound
  <2>2. Somewhere(x) => Somewhere(x)'
    BY <1>2 DEF Somewhere, Removed, Has
  <2> QED BY <1>6, <2>1, <2>2 DEF Inv, RequestInv
<1>15. RequestInv'
  BY <1>3, <1>7, <1>14 DEF RequestInv, Sound, f
<1> QED BY <1>9, <1>10, <1>11, <1>12, <1>13, <1>15 DEF Inv

\* worker() looks at the queue.
LEMMA LookKeeps ==
  ASSUME Inv, NEW w \in Workers, Look(w)
  PROVE  Inv'
<1>1. UNCHANGED <<loopWq, batch, main, mutex, wqMutex, pending, eventfd, stopFlag>> /\ worker[w].at = "look"
  BY DEF Look, locks, wakeup
<1>2. worker \in [Workers -> Worker] /\ req \in [Requests -> Request]
  BY DEF Inv, TypeOK
<1>3. CASE wq = <<>>
  <2>1. UNCHANGED <<req, wq>> /\ worker' = [worker EXCEPT ![w].at = "waiting"]
    BY <1>3 DEF Look
  <2>2. /\ worker' \in [Workers -> Worker] /\ worker'[w].at = "waiting"
        /\ \A v \in Workers \ {w} : worker'[v] = worker[v]
    BY <1>2, <2>1 DEF Worker
  <2>3. TypeOK'
    BY <1>1, <2>1, <2>2 DEF Inv, TypeOK
  <2>4. \A v \in Workers, r \in Requests : Has(v, r)' <=> Has(v, r)
    BY <1>1, <2>2 DEF Has
  <2> QED BY <1>1, <2>1, <2>2, <2>3, <2>4, QuietKeeps DEF queues
<1>4. CASE wq # <<>>
  <2>1. PICK r \in Requests : r = Head(wq) /\ In(wq, r)
    BY <1>4, TailOnce DEF Inv, TypeOK, QueueInv
  <2>2. /\ wq' = Tail(wq) /\ req' = [req EXCEPT ![r].node = "self"]
        /\ worker' = [worker EXCEPT ![w] = [at |-> "took", req |-> r]]
    BY <1>4, <2>1 DEF Look
  <2>3. /\ wq' \in Seq(Requests) /\ Once(wq')
        /\ \A x : In(wq', x) <=> In(wq, x) /\ x # r
    BY <1>4, <2>1, <2>2, TailOnce DEF Inv, TypeOK, QueueInv
  <2>4. /\ worker' \in [Workers -> Worker] /\ worker'[w] = [at |-> "took", req |-> r]
        /\ \A v \in Workers \ {w} : worker'[v] = worker[v]
    BY <1>2, <2>2 DEF Worker
  <2>5. \A x \in Requests : Has(w, x)' <=> x = r
    BY <2>4 DEF Has
  <2>6. \A v \in Workers \ {w}, x \in Requests : (Has(v, x)' <=> Has(v, x)) /\ ~Has(w, x)
    BY <1>1, <2>4 DEF Has
  <2>7. ~In(loopWq, r) /\ ~In(batch, r) /\ ~Removed(r) /\ \A v \in Workers : ~Has(v, r)
    BY <2>1, Apart
  <2> DEFINE q == req'[r]
  <2>8. /\ q \in Request /\ q.work = req[r].work /\ q.node = "self" /\ q.mem = req[r].mem
        /\ q.users = req[r].users /\ q.held = req[r].held /\ q.ptr = req[r].ptr /\ q.active = req[r].active
        /\ q.ran = req[r].ran /\ q.done = req[r].done /\ q.told = req[r].told
    BY <1>2, <2>2 DEF Request
  <2>9. req' \in [Requests -> Request] /\ \A x \in Requests \ {r} : req'[x] = req[x]
    BY <1>2, <2>2, <2>8
  <2> HIDE DEF q
  <2>10. InHand(q) /\ q.ran = 0 /\ Sound(q, main'.for = r)
    BY <1>1, <2>1, <2>8 DEF Inv, QueueInv, RequestInv, Queued, InHand, Sound
  <2>11. TypeOK'
    BY <1>1, <2>3, <2>4, <2>9 DEF Inv, TypeOK
  <2>12. QueueInv'
    BY <2>3, <2>9 DEF Inv, QueueInv
  <2>13. HandInv'
    <3>1. ASSUME NEW v \in Workers, NEW x \in Requests, Has(v, x)'
          PROVE  InHand(req'[x]) /\ req'[x].ran = IF worker'[v].at = "took" THEN 0 ELSE 1
      <4>1. CASE v = w
        BY <2>4, <2>5, <2>10, <3>1, <4>1 DEF q
      <4>2. CASE v # w
        BY <2>4, <2>6, <2>7, <2>9, <3>1, <4>2 DEF Inv, HandInv
      <4> QED BY <4>1, <4>2
    <3>2. \A v \in Workers : worker'[v].at \in {"took", "running", "ran"} => worker'[v].req \in Requests
      BY <2>4 DEF Inv, HandInv
    <3>3. ASSUME NEW u \in Workers, NEW v \in Workers, NEW x \in Requests, Has(u, x)', Has(v, x)' PROVE u = v
      BY <2>5, <2>6, <2>7, <3>3 DEF Inv, HandInv
    <3> QED BY <3>1, <3>2, <3>3 DEF HandInv
  <2>14. DueInv'
    BY <1>1, <2>7, <2>9 DEF Inv, DueInv
  <2>15. CancelInv' /\ LoopInv'
    BY <1>1, <2>7, <2>8, <2>9 DEF Inv, CancelInv, LoopInv, Removed, q
  <2>16. ASSUME NEW x \in Requests \ {r} PROVE Sound(req'[x], main'.for = x) /\ (req'[x].active => Somewhere(x)')
    <3>1. Sound(req'[x], main'.for = x)
      BY <1>1, <2>9 DEF Inv, RequestInv
    <3>2. /\ In(wq, x) => In(wq', x)
          /\ \A v \in Workers : Has(v, x) => Has(v, x)'
      <4>1. ASSUME NEW v \in Workers, Has(v, x) PROVE Has(v, x)'
        <5>1. ~Has(w, x)
          BY <1>1 DEF Has
        <5>2. v \in Workers \ {w}
          BY <4>1, <5>1
        <5> QED BY <2>6, <4>1, <5>2
      <4>2. In(wq, x) => In(wq', x)
        BY <2>3
      <4> QED BY <4>1, <4>2
    <3>3. Somewhere(x) => Somewhere(x)'
      BY <1>1, <3>2 DEF Somewhere, Removed
    <3> QED BY <2>9, <3>1, <3>3 DEF Inv, RequestInv
  <2>17. Somewhere(r)'
    BY <2>5 DEF Somewhere
  <2>18. RequestInv'
    BY <2>10, <2>16, <2>17 DEF RequestInv, q
  <2> QED BY <2>11, <2>12, <2>13, <2>14, <2>15, <2>18 DEF Inv
<1> QED BY <1>3, <1>4

\* pyuv__tp_work_cb calls the work callback.
LEMMA StartWorkKeeps ==
  ASSUME Inv, NEW w \in Workers, StartWork(w)
  PROVE  Inv'
<1>1. PICK r \in Requests : r = worker[w].req
  BY DEF Inv, HandInv, StartWork
<1>2. /\ UNCHANGED <<wq, loopWq, batch, main, mutex, wqMutex, pending, eventfd, stopFlag>>
      /\ worker[w].at = "took" /\ Has(w, r)
      /\ worker' = [worker EXCEPT ![w].at = "running"]
      /\ req' = [req EXCEPT ![r].ran = @ + 1]
  BY <1>1 DEF StartWork, queues, locks, wakeup, Has
<1>3. worker \in [Workers -> Worker] /\ req \in [Requests -> Request] /\ InHand(req[r]) /\ req[r].ran = 0
  BY <1>2 DEF Inv, TypeOK, HandInv
<1>4. /\ worker' \in [Workers -> Worker] /\ worker'[w].at = "running" /\ worker'[w].req = r
      /\ \A v \in Workers \ {w} : worker'[v] = worker[v]
  BY <1>1, <1>2, <1>3 DEF Worker
<1>5. \A v \in Workers, x \in Requests : Has(v, x)' <=> Has(v, x)
  BY <1>1, <1>2, <1>4 DEF Has
<1> DEFINE q == req'[r]
<1>6. /\ q \in Request /\ q.work = req[r].work /\ q.node = req[r].node /\ q.mem = req[r].mem
      /\ q.users = req[r].users /\ q.held = req[r].held /\ q.ptr = req[r].ptr /\ q.active = req[r].active
      /\ q.ran = 1 /\ q.done = req[r].done /\ q.told = req[r].told
  <2> DEFINE one == req[r].ran + 1
  <2>1. one = 1 /\ one \in 0 .. 1
    BY <1>3
  <2>2. q = [req[r] EXCEPT !.ran = one]
    BY <1>2, <1>3
  <2> HIDE DEF q, one
  <2> QED BY <1>3, <2>1, <2>2 DEF Request
<1>7. req' \in [Requests -> Request] /\ \A x \in Requests \ {r} : req'[x] = req[x]
  BY <1>2, <1>3, <1>6
<1> HIDE DEF q
<1>8. InHand(q) /\ Sound(q, main'.for = r)
  BY <1>2, <1>3, <1>6 DEF Inv, RequestInv, InHand, Sound
<1>9. ~In(wq, r) /\ ~In(loopWq, r) /\ ~In(batch, r) /\ ~Removed(r) /\ \A v \in Workers \ {w} : ~Has(v, r)
  BY <1>2, Apart DEF Inv, HandInv
<1>10. TypeOK'
  BY <1>2, <1>4, <1>7 DEF Inv, TypeOK
<1>11. QueueInv'
  BY <1>2, <1>7, <1>9 DEF Inv, QueueInv
<1>12. HandInv'
  <2>1. ASSUME NEW v \in Workers, NEW x \in Requests, Has(v, x)'
        PROVE  InHand(req'[x]) /\ req'[x].ran = IF worker'[v].at = "took" THEN 0 ELSE 1
    <3>1. CASE v = w
      BY <1>1, <1>4, <1>6, <1>8, <2>1, <3>1 DEF q, Has
    <3>2. CASE v # w
      BY <1>4, <1>5, <1>7, <1>9, <2>1, <3>2 DEF Inv, HandInv
    <3> QED BY <3>1, <3>2
  <2>2. \A v \in Workers : worker'[v].at \in {"took", "running", "ran"} => worker'[v].req \in Requests
    BY <1>4 DEF Inv, HandInv
  <2> QED BY <1>5, <2>1, <2>2 DEF Inv, HandInv
<1>13. DueInv'
  BY <1>2, <1>7, <1>9 DEF Inv, DueInv
<1>14. CancelInv' /\ LoopInv'
  BY <1>2, <1>6, <1>7, <1>9 DEF Inv, CancelInv, LoopInv, Removed, q
<1>15. ASSUME NEW x \in Requests \ {r} PROVE Sound(req'[x], main'.for = x) /\ (req'[x].active => Somewhere(x)')
  BY <1>2, <1>5, <1>7 DEF Inv, RequestInv, Somewhere, Removed
<1>16. Somewhere(r)'
  BY <1>2, <1>5 DEF Somewhere
<1>17. RequestInv'
  BY <1>8, <1>15, <1>16 DEF RequestInv, q
<1> QED BY <1>10, <1>11, <1>12, <1>13, <1>14, <1>17 DEF Inv

\* The worker puts the request at the end of loop->wq.
LEMMA PostDoneKeeps ==
  ASSUME Inv, NEW w \in Workers, PostDone(w)
  PROVE  Inv'
<1>1. PICK r \in Requests : r = worker[w].req
  BY DEF Inv, HandInv, PostDone
<1>2. /\ UNCHANGED <<wq, batch, main, mutex, pending, eventfd, stopFlag>>
      /\ worker[w].at = "ran" /\ Has(w, r) /\ wqMutex' = w
      /\ worker' = [worker EXCEPT ![w] = [at |-> "send", req |-> Nobody]]
      /\ loopWq' = Append(loopWq, r)
      /\ req' = [req EXCEPT ![r].work = "null", ![r].node = "linked"]
  BY <1>1 DEF PostDone, wakeup, Has
<1>3. worker \in [Workers -> Worker] /\ req \in [Requests -> Request] /\ InHand(req[r]) /\ req[r].ran = 1
  BY <1>2 DEF Inv, TypeOK, HandInv
<1>4. ~In(wq, r) /\ ~In(loopWq, r) /\ ~In(batch, r) /\ ~Removed(r) /\ \A v \in Workers \ {w} : ~Has(v, r)
  BY <1>2, Apart DEF Inv, HandInv
<1>5. /\ loopWq' \in Seq(Requests) /\ Once(loopWq')
      /\ \A x \in Requests : In(loopWq', x) <=> In(loopWq, x) \/ x = r
  BY <1>2, <1>4, AppendOnce DEF Inv, TypeOK, DueInv
<1>6. /\ worker' \in [Workers -> Worker] /\ worker'[w].at = "send"
      /\ \A v \in Workers \ {w} : worker'[v] = worker[v]
  BY <1>2, <1>3 DEF Worker
<1>7. \A v \in Workers, x \in Requests : Has(v, x)' <=> Has(v, x) /\ v # w
  BY <1>6 DEF Has
<1> DEFINE q == req'[r]
<1>8. /\ q \in Request /\ q.work = "null" /\ q.node = "linked" /\ q.mem = req[r].mem
      /\ q.users = req[r].users /\ q.held = req[r].held /\ q.ptr = req[r].ptr /\ q.active = req[r].active
      /\ q.ran = req[r].ran /\ q.done = req[r].done /\ q.told = req[r].told
  <2>1. q = [req[r] EXCEPT !.work = "null", !.node = "linked"]
    BY <1>2, <1>3
  <2> HIDE DEF q
  <2> QED BY <1>3, <2>1 DEF Request
<1>9. req' \in [Requests -> Request] /\ \A x \in Requests \ {r} : req'[x] = req[x]
  BY <1>2, <1>3, <1>8
<1> HIDE DEF q
<1>10. Due(q) /\ Sound(q, main'.for = r)
  BY <1>2, <1>3, <1>8 DEF Inv, RequestInv, InHand, Sound, Due
<1>11. TypeOK'
  BY <1>2, <1>5, <1>6, <1>9 DEF Inv, TypeOK
<1>12. QueueInv'
  BY <1>2, <1>4, <1>9 DEF Inv, QueueInv
<1>13. HandInv'
  <2>1. ASSUME NEW v \in Workers, NEW x \in Requests, Has(v, x)'
        PROVE  InHand(req'[x]) /\ req'[x].ran = IF worker'[v].at = "took" THEN 0 ELSE 1
    BY <1>4, <1>6, <1>7, <1>9, <2>1 DEF Inv, HandInv
  <2>2. \A v \in Workers : worker'[v].at \in {"took", "running", "ran"} => worker'[v].req \in Requests
    BY <1>6 DEF Inv, HandInv
  <2> QED BY <1>7, <2>1, <2>2 DEF Inv, HandInv
<1>14. DueInv'
  BY <1>2, <1>4, <1>5, <1>9, <1>10 DEF Inv, DueInv, q
<1>15. CancelInv' /\ LoopInv'
  BY <1>2, <1>4, <1>8, <1>9 DEF Inv, CancelInv, LoopInv, Removed, q
<1>16. ASSUME NEW x \in Requests \ {r} PROVE Sound(req'[x], main'.for = x) /\ (req'[x].active => Somewhere(x)')
  <2>1. ~Has(w, x)
    BY <1>1 DEF Has
  <2> QED BY <1>2, <1>5, <1>7, <1>9, <2>1 DEF Inv, RequestInv, Somewhere, Removed
<1>17. Somewhere(r)'
  BY <1>5 DEF Somewhere
<1>18. RequestInv'
  BY <1>10, <1>16, <1>17 DEF RequestInv, q
<1> QED BY <1>11, <1>12, <1>13, <1>14, <1>15, <1>18 DEF Inv

-----------------------------------------------------------------------------
(* The theorems.                                                           *)

\* The invariant holds at the start.
LEMMA InitInv == Init => Inv
<1> SUFFICES ASSUME Init PROVE Inv
  OBVIOUS
<1>1. TypeOK
  <2>1. req \in [Requests -> Request]
    BY DEF Init, Request
  <2>2. worker \in [Workers -> Worker]
    BY DEF Init, Worker
  <2>3. main \in Main
    BY DEF Init, Main, LoopPlaces
  <2> QED BY <2>1, <2>2, <2>3, EmptySeq DEF Init, TypeOK
<1>2. ASSUME NEW r \in Requests
      PROVE  req[r] = [mem |-> "absent", users |-> 0, held |-> FALSE, work |-> "null", node |-> "self",
                       hasDone |-> FALSE, ptr |-> FALSE, active |-> FALSE, ran |-> 0, done |-> 0, told |-> FALSE]
  BY DEF Init
<1>3. ASSUME NEW r \in Requests PROVE Sound(req[r], FALSE) /\ ~req[r].active
  BY <1>2 DEF Sound
<1>4. Once(wq) /\ Once(loopWq) /\ Once(batch) /\ \A r : ~In(wq, r) /\ ~In(loopWq, r) /\ ~In(batch, r)
  BY EmptyOnce DEF Init
<1>5. QueueInv /\ DueInv
  BY <1>4 DEF QueueInv, DueInv
<1>6. HandInv
  BY DEF Init, HandInv, Has
<1>7. CancelInv /\ LoopInv
  BY WorkAssumption DEF Init, CancelInv, LoopInv
<1>8. RequestInv
  BY <1>3, WorkAssumption DEF Init, RequestInv, Sound
<1> QED BY <1>1, <1>5, <1>6, <1>7, <1>8 DEF Inv

\* Every step of the program, the loop and the workers keeps the invariant,
\* as long as no done callback cancels its own request.
LEMMA StepKeeps == ASSUME Inv, ~CancelInDone, [Next]_vars PROVE Inv'
<1>1. CASE UNCHANGED vars
  <2>1. UNCHANGED <<req, queues, worker, mutex, wqMutex, pending, eventfd, main, stopFlag>>
    BY <1>1 DEF vars, queues
  <2>2. TypeOK'
    BY <2>1 DEF Inv, TypeOK, queues
  <2> QED BY <2>1, <2>2, QuietKeeps DEF Has
<1>2. CASE PythonStep
  BY <1>2, QueueWorkKeeps, DropRequestKeeps, CancelKeeps, QuietLoopKeeps DEF PythonStep
<1>3. CASE LoopStep \/ LeaveDone
  BY <1>3, DecideCancelKeeps, PostCancelledKeeps, MoveQueueKeeps, TakeDoneKeeps, LeaveDoneKeeps, QuietLoopKeeps
     DEF LoopStep
<1>4. ASSUME NEW w \in Workers, WorkerStep(w) \/ SpuriousWakeup(w) PROVE Inv'
  BY <1>4, LookKeeps, StartWorkKeeps, PostDoneKeeps, QuietWorkerKeeps DEF WorkerStep
<1> QED BY <1>1, <1>2, <1>3, <1>4 DEF Next

\* The invariant, of every execution.
THEOREM Invariance == ASSUME ~CancelInDone PROVE Spec => []Inv
<1>1. Inv /\ [Next]_vars => Inv'
  BY StepKeeps
<1> QED BY <1>1, InitInv, PTL DEF Spec

\* No request is executed, or its done callback called, a second time.
THEOREM WorkTypes == ASSUME ~CancelInDone PROVE Spec => []TypeOK
<1>1. Inv => TypeOK
  BY DEF Inv
<1> QED BY <1>1, Invariance, PTL

\* After cancel() returned True the work callback does not run, and the done
\* callback is told which of the two happened.
THEOREM CancelKeepsItsWord == ASSUME ~CancelInDone PROVE Spec => []CancelMeansNeverRun
<1>1. Inv => CancelMeansNeverRun
  BY DEF Inv, RequestInv, Sound, CancelMeansNeverRun
<1> QED BY <1>1, Invariance, PTL

\* A request is in one place exactly while it is active.
LEMMA OneOfFive == Inv => OnePlace
<1> SUFFICES ASSUME Inv, NEW r \in Requests
             PROVE  Cardinality(Places(r)) = IF req[r].active THEN 1 ELSE 0
  BY DEF OnePlace
<1> DEFINE At(name, s) == {<<name, i>> : i \in {j \in DOMAIN s : s[j] = r}}
           Hands == {<<"worker", w>> : w \in {x \in Workers : Has(x, r)}}
           Cancelling == IF Removed(r) THEN {<<"cancel", 0>>} ELSE {}
<1>1. Places(r) = At("wq", wq) \cup At("loop", loopWq) \cup At("batch", batch) \cup Hands \cup Cancelling
  BY DEF Places, Removed
<1>2. ASSUME NEW name, NEW s, ~In(s, r) PROVE At(name, s) = {}
  BY <1>2 DEF In
<1>3. ASSUME NEW name, NEW s, In(s, r), Once(s) PROVE \E p : At(name, s) = {p}
  <2>1. PICK i \in DOMAIN s : s[i] = r
    BY <1>3 DEF In
  <2>2. At(name, s) = {<<name, i>>}
    BY <1>3, <2>1 DEF Once
  <2> QED BY <2>2
<1>4. (\A w \in Workers : ~Has(w, r)) => Hands = {}
  OBVIOUS
<1>5. ASSUME NEW w \in Workers, Has(w, r) PROVE Hands = {<<"worker", w>>}
  BY <1>5 DEF Inv, HandInv
<1>6. Once(wq) /\ Once(loopWq) /\ Once(batch) /\ ~(In(loopWq, r) /\ In(batch, r))
  BY DEF Inv, QueueInv, DueInv
<1> HIDE DEF At, Hands
<1>7. CASE ~req[r].active
  <2>1. Places(r) = {}
    BY <1>1, <1>2, <1>4, <1>7, Apart DEF Somewhere
  <2> QED BY <1>7, <2>1, FS_EmptySet
<1>8. CASE req[r].active
  <2>1. Somewhere(r)
    BY <1>8 DEF Inv, RequestInv
  <2>2. \E p : Places(r) = {p}
    <3>1. CASE In(wq, r)
      <4>1. At("loop", loopWq) = {} /\ At("batch", batch) = {} /\ Hands = {} /\ Cancelling = {}
        BY <1>2, <1>4, <3>1, Apart
      <4>2. \E p : At("wq", wq) = {p}
        BY <1>3, <1>6, <3>1
      <4> QED BY <1>1, <4>1, <4>2
    <3>2. CASE In(loopWq, r)
      <4>1. At("wq", wq) = {} /\ At("batch", batch) = {} /\ Hands = {} /\ Cancelling = {}
        BY <1>2, <1>4, <1>6, <3>2, Apart
      <4>2. \E p : At("loop", loopWq) = {p}
        BY <1>3, <1>6, <3>2
      <4> QED BY <1>1, <4>1, <4>2
    <3>3. CASE In(batch, r)
      <4>1. At("wq", wq) = {} /\ At("loop", loopWq) = {} /\ Hands = {} /\ Cancelling = {}
        BY <1>2, <1>4, <1>6, <3>3, Apart
      <4>2. \E p : At("batch", batch) = {p}
        BY <1>3, <1>6, <3>3
      <4> QED BY <1>1, <4>1, <4>2
    <3>4. CASE Removed(r)
      BY <1>1, <1>2, <1>4, <3>4, Apart
    <3>5. CASE \E w \in Workers : Has(w, r)
      BY <1>1, <1>2, <1>5, <3>5, Apart
    <3> QED BY <2>1, <3>1, <3>2, <3>3, <3>4, <3>5 DEF Somewhere
  <2> QED BY <1>8, <2>2, FS_Singleton
<1> QED BY <1>7, <1>8

\* The pool and the loop neither lose, double nor free a request one of them has.
THEOREM NeverLost == ASSUME ~CancelInDone PROVE Spec => []PassedOnSafely
<1>1. Inv => AllocatedWhileNeeded
  BY DEF Inv, RequestInv, Sound, AllocatedWhileNeeded
<1> QED BY <1>1, OneOfFive, Invariance, PTL DEF PassedOnSafely

-----------------------------------------------------------------------------
(* WorkQueue implements WorkSpec: every step of a thread is one step of a  *)
(* request's life, or none.                                                *)

\* One request moves, the others stay.
LEMMA OneMoves ==
  ASSUME NEW r \in Requests, NEW from, NEW to, Status(r) \in from, Status(r)' = to,
         \A x \in Requests \ {r} : Status(x)' = Status(x)
  PROVE  Promise!Move(r, from, to)
<1> DEFINE old == [x \in Requests |-> Status(x)]
           new == [x \in Requests |-> Status(x)']
<1>1. old[r] \in from /\ new = [old EXCEPT ![r] = to]
  <2>1. \A x \in Requests : new[x] = [old EXCEPT ![r] = to][x]
    OBVIOUS
  <2> QED BY <2>1
<1> QED BY <1>1 DEF Promise!Move

\* No answer of cancel() changes.
LEMMA NothingTold ==
  ASSUME \A x \in Requests : req'[x].told = req[x].told
  PROVE  UNCHANGED [x \in Requests |-> req[x].told]
OBVIOUS

\* Nothing a program could notice.
LEMMA NothingMoves ==
  ASSUME \A x \in Requests : Status(x)' = Status(x) /\ req'[x].told = req[x].told
  PROVE  UNCHANGED Promise!vars
<1>1. UNCHANGED [x \in Requests |-> Status(x)]
  OBVIOUS
<1> QED BY <1>1, NothingTold DEF Promise!vars

\* What the status of a request depends on.
LEMMA StatusKept ==
  ASSUME Inv, NEW x \in Requests, req'[x].mem = req[x].mem, req'[x].done = req[x].done, req'[x].work = req[x].work,
         req'[x].ran = req[x].ran, main'.for = x <=> main.for = x, Executing(x)' <=> Executing(x)
  PROVE  Status(x)' = Status(x)
<1>1. req[x].done \in {0, 1} /\ req[x].work \in {"queued", "cancelled", "null"}
  BY DEF Inv, TypeOK, Request
<1> QED BY <1>1 DEF Status

\* The status that the place of a request gives it.
PlaceStatus(r) ==
  /\ req[r].mem # "live" => Status(r) = "free"
  /\ req[r].active => req[r].mem = "live" /\ main.for # r
  /\ In(wq, r) => Status(r) = "queued"
  /\ \A w \in Workers : Has(w, r) =>
       Status(r) = CASE worker[w].at = "took" -> "queued"
                     [] worker[w].at = "running" -> "executing"
                     [] OTHER -> "executed"
  /\ In(loopWq, r) \/ In(batch, r) =>
       Status(r) = IF req[r].work = "null" THEN "executed" ELSE "cancelled"
  /\ Removed(r) => Status(r) = "cancelled"
  /\ main.for = r => Status(r) = "reporting"
  /\ req[r].mem = "live" /\ ~req[r].active /\ main.for # r => Status(r) = "finished"

\* The place of a request before and after a step tells its status there.
LEMMA StatusByPlace == Inv => \A r \in Requests : PlaceStatus(r)
<1> SUFFICES ASSUME Inv, NEW r \in Requests PROVE PlaceStatus(r)
  OBVIOUS
<1>1. req[r].mem # "live" => Status(r) = "free"
  BY DEF Status
<1>2. Sound(req[r], main.for = r)
  BY DEF Inv, RequestInv
<1>3. req[r].active => req[r].mem = "live" /\ main.for # r
  BY <1>2 DEF Sound
<1>4. In(wq, r) => Status(r) = "queued"
  BY <1>3 DEF Inv, QueueInv, Queued, Status
<1>5. ASSUME NEW w \in Workers, Has(w, r)
      PROVE  Status(r) = CASE worker[w].at = "took" -> "queued"
                            [] worker[w].at = "running" -> "executing"
                            [] OTHER -> "executed"
  <2>1. InHand(req[r]) /\ req[r].ran = (IF worker[w].at = "took" THEN 0 ELSE 1) /\ req[r].mem = "live"
        /\ (\A v \in Workers : Has(v, r) => v = w)
    BY <1>3, <1>5 DEF Inv, HandInv, InHand
  <2>2. worker[w].at \in {"took", "running", "ran"}
    BY <1>5 DEF Has
  <2>3. Status(r) = IF req[r].ran = 1 THEN IF Executing(r) THEN "executing" ELSE "executed" ELSE "queued"
    BY <2>1 DEF InHand, Status
  <2>4. Executing(r) <=> worker[w].at = "running"
    BY <1>5, <2>1 DEF Executing
  <2> QED BY <2>1, <2>2, <2>3, <2>4
<1>6. In(loopWq, r) \/ In(batch, r) => Status(r) = IF req[r].work = "null" THEN "executed" ELSE "cancelled"
  BY <1>3 DEF Inv, DueInv, Due, Status
<1>7. Removed(r) => Status(r) = "cancelled"
  BY <1>3 DEF Inv, CancelInv, Removed, Withdrawn, Status
<1>8. ~req[r].active /\ req[r].mem = "live" => Status(r) = IF main.for = r THEN "reporting" ELSE "finished"
  BY <1>2 DEF Sound, Status
<1>9. main.for = r => ~req[r].active /\ req[r].mem = "live"
  BY <1>2 DEF Sound
<1> QED BY <1>1, <1>3, <1>4, <1>5, <1>6, <1>7, <1>8, <1>9 DEF PlaceStatus

\* The same after a step.
LEMMA StatusByPlaceNext == Inv' => \A r \in Requests : PlaceStatus(r)'
<1>1. (Inv => \A r \in Requests : PlaceStatus(r))'
  BY StatusByPlace, PTL
<1> QED BY <1>1

\* A step that changes neither a request's life nor who runs a work callback.
LEMMA LivesUnchanged ==
  ASSUME Inv,
         \A x \in Requests : /\ req'[x].mem = req[x].mem /\ req'[x].done = req[x].done
                             /\ req'[x].work = req[x].work /\ req'[x].ran = req[x].ran
                             /\ req'[x].told = req[x].told,
         \A x \in Requests : main'.for = x <=> main.for = x,
         \A x \in Requests : Executing(x)' <=> Executing(x)
  PROVE  UNCHANGED Promise!vars
BY StatusKept, NothingMoves

\* Steps of the loop thread a program of WorkSpec does not see.
LEMMA LoopThreadStutters ==
  ASSUME Inv, \/ Stop \/ (\E mode \in {"default", "once", "nowait"} : Run(mode)) \/ Poll \/ AsyncIo \/ BatchDone
              \/ Iterated \/ MoveQueue \/ (\E r \in Requests : Cancel(r)) \/ UNCHANGED vars
  PROVE  UNCHANGED Promise!vars
<1>1. UNCHANGED <<req, worker>>
  BY DEF Stop, Run, Poll, AsyncIo, BatchDone, Iterated, MoveQueue, Cancel, vars
<1>2. main'.for = main.for
  <2>1. main \in Main
    BY DEF Inv, TypeOK
  <2> QED BY <2>1 DEF Main, Stop, Run, Poll, AsyncIo, BatchDone, Iterated, MoveQueue, Cancel, vars
<1> QED BY <1>1, <1>2, LivesUnchanged DEF Executing, Has

\* Steps of a worker a program of WorkSpec does not see.
LEMMA WorkerStutters ==
  ASSUME Inv, NEW w \in Workers, Look(w) \/ SpuriousWakeup(w) \/ SendAsync(w) \/ WriteEventfd(w) \/ Unlock(w)
  PROVE  UNCHANGED Promise!vars
<1>1. worker \in [Workers -> Worker] /\ req \in [Requests -> Request]
  BY DEF Inv, TypeOK
<1>2. /\ UNCHANGED main /\ worker[w].at # "running" /\ worker'[w].at # "running"
      /\ \A v \in Workers \ {w} : worker'[v] = worker[v]
  BY <1>1 DEF Worker, Look, SpuriousWakeup, SendAsync, WriteEventfd, Unlock
<1>3. \A x \in Requests : Executing(x)' <=> Executing(x)
  BY <1>2 DEF Executing, Has
<1>4. UNCHANGED req \/ \E r \in Requests : req' = [req EXCEPT ![r].node = "self"]
  BY TailOnce DEF Inv, TypeOK, QueueInv, Look, SpuriousWakeup, SendAsync, WriteEventfd, Unlock
<1>5. ASSUME NEW x \in Requests
      PROVE  /\ req'[x].mem = req[x].mem /\ req'[x].done = req[x].done
             /\ req'[x].work = req[x].work /\ req'[x].ran = req[x].ran /\ req'[x].told = req[x].told
  BY <1>1, <1>4 DEF Request
<1> QED BY <1>2, <1>3, <1>5, LivesUnchanged

\* queue_work() is Queue.
LEMMA QueueWorkQueues ==
  ASSUME Inv, Inv', NEW r \in Requests, NEW hasDone \in BOOLEAN, QueueWork(r, hasDone)
  PROVE  Promise!Queue(r)
<1>1. /\ UNCHANGED main /\ Signal /\ wq' = Append(wq, r) /\ req[r].mem # "live"
      /\ req \in [Requests -> Request] /\ wq \in Seq(Requests) /\ Once(wq)
  BY DEF QueueWork, Inv, TypeOK, QueueInv
<1>2. \A x \in Requests \ {r} : req'[x] = req[x]
  BY <1>1 DEF QueueWork
<1>3. req'[r].told = FALSE
  BY <1>1 DEF QueueWork
<1>4. \A x \in Requests : Executing(x)' <=> Executing(x)
  BY <1>1, SignalKeeps DEF Inv, Executing, Has
<1>5. Status(r) = "free" /\ ~req[r].active
  BY <1>1, StatusByPlace DEF PlaceStatus
<1>6. In(wq', r)
  BY <1>1, <1>5, AppendOnce, Apart DEF Somewhere
<1>7. Status(r)' = "queued"
  BY <1>6, StatusByPlaceNext DEF PlaceStatus
<1>8. Promise!Move(r, {"free"}, "queued")
  BY <1>1, <1>2, <1>4, <1>5, <1>7, StatusKept, OneMoves
<1>9. [x \in Requests |-> req'[x].told] = [[x \in Requests |-> req[x].told] EXCEPT ![r] = FALSE]
  BY <1>2, <1>3
<1> QED BY <1>8, <1>9 DEF Promise!Queue

\* Dropping the last name of a finished request is Release.
LEMMA DropRequestReleases ==
  ASSUME Inv, Inv', NEW r \in Requests, DropRequest(r)
  PROVE  Promise!Release(r) \/ UNCHANGED Promise!vars
<1>1. /\ UNCHANGED <<main, worker>> /\ req \in [Requests -> Request] /\ req[r].users = 1
      /\ req' = [req EXCEPT ![r] = Unreferenced([req[r] EXCEPT !.users = 0])]
  BY DEF DropRequest, Inv, TypeOK
<1>2. \A x \in Requests : Executing(x)' <=> Executing(x)
  BY <1>1 DEF Executing, Has
<1>3. \A x \in Requests \ {r} : req'[x] = req[x]
  BY <1>1
<1> DEFINE p == [req[r] EXCEPT !.users = 0]
<1>4. /\ p \in Request /\ p.users = 0 /\ p.held = req[r].held /\ p.work = req[r].work /\ p.active = req[r].active
      /\ p.ran = req[r].ran /\ p.done = req[r].done /\ p.told = req[r].told /\ p.mem = req[r].mem
  BY <1>1 DEF Request
<1>5. req'[r] = Unreferenced(p)
  BY <1>1
<1> HIDE DEF p
<1>6. /\ req'[r].mem = (IF req[r].held THEN req[r].mem ELSE "freed") /\ req'[r].work = req[r].work
      /\ req'[r].active = req[r].active
      /\ req'[r].ran = req[r].ran /\ req'[r].done = req[r].done /\ req'[r].told = req[r].told
  BY <1>4, <1>5, UnreferencedFields
<1>7. \A x \in Requests : req'[x].told = req[x].told
  BY <1>3, <1>6
<1>8. CASE req[r].held
  BY <1>1, <1>2, <1>3, <1>6, <1>7, <1>8, LivesUnchanged
<1>9. CASE ~req[r].held
  <2>1. ~req[r].active /\ main.for # r /\ req[r].mem = "live"
    BY <1>1, <1>9 DEF Inv, RequestInv, Sound
  <2>2. Status(r) = "finished" /\ Status(r)' = "free"
    BY <1>6, <1>9, <2>1, StatusByPlace, StatusByPlaceNext DEF PlaceStatus
  <2>3. Promise!Move(r, {"finished"}, "free")
    BY <1>1, <1>2, <1>3, <2>2, StatusKept, OneMoves
  <2> QED BY <1>7, <2>3, NothingTold DEF Promise!Release
<1> QED BY <1>8, <1>9

\* uv__work_cancel that unlinks a queued request is Withdraw.
LEMMA DecideCancelWithdraws ==
  ASSUME Inv, Inv', DecideCancel
  PROVE  (\E r \in Requests : Promise!Withdraw(r)) \/ UNCHANGED Promise!vars
<1>1. /\ UNCHANGED worker /\ main'.for = main.for /\ req \in [Requests -> Request]
      /\ main.calling = "locked" /\ main.at \in {"out", "done"}
  BY DEF DecideCancel, Inv, TypeOK, CancelInv, Main
<1>2. \A x \in Requests : Executing(x)' <=> Executing(x)
  BY <1>1 DEF Executing, Has
<1>3. PICK r \in Requests : r = main.of /\ req[r].active
  BY <1>1 DEF Inv, CancelInv
<1>4. CASE ~Cancellable(req[r])
  <2>1. UNCHANGED req
    BY <1>3, <1>4 DEF DecideCancel
  <2> QED BY <1>1, <1>2, <2>1, LivesUnchanged
<1>5. CASE Cancellable(req[r])
  <2>1. /\ req' = [req EXCEPT ![r].work = "cancelled", ![r].node = "stale"]
        /\ main' = [main EXCEPT !.calling = "removed"]
    BY <1>3, <1>5 DEF DecideCancel
  <2>2. /\ \A x \in Requests \ {r} : req'[x] = req[x]
        /\ req'[r] = [req[r] EXCEPT !.work = "cancelled", !.node = "stale"]
    BY <1>1, <2>1
  <2>3. /\ req'[r].mem = req[r].mem /\ req'[r].work = "cancelled" /\ req'[r].ran = req[r].ran
        /\ req'[r].done = req[r].done /\ req'[r].told = req[r].told
    BY <2>2
  <2>4. \A x \in Requests : req'[x].told = req[x].told
    BY <2>2, <2>3
  <2>5. CASE req[r].work = "cancelled"
    BY <1>1, <1>2, <2>2, <2>3, <2>5, LivesUnchanged
  <2>6. CASE req[r].work # "cancelled"
    <3>1. ~Removed(r) /\ \A w \in Workers : ~Has(w, r)
      BY <1>1, <1>5 DEF Inv, HandInv, InHand, Cancellable, Removed
    <3>2. In(wq, r)
      BY <1>3, <1>5, <2>6, <3>1 DEF Inv, RequestInv, Somewhere, DueInv, Due, Cancellable
    <3>3. Removed(r)'
      BY <1>3, <2>1 DEF Removed, Inv, TypeOK, Main
    <3>4. Status(r) = "queued" /\ Status(r)' = "cancelled"
      BY <3>2, <3>3, StatusByPlace, StatusByPlaceNext DEF PlaceStatus
    <3>5. Promise!Move(r, {"queued"}, "cancelled")
      BY <1>1, <1>2, <2>2, <3>4, StatusKept, OneMoves
    <3> QED BY <2>4, <3>5, NothingTold DEF Promise!Withdraw
  <2> QED BY <2>5, <2>6
<1> QED BY <1>4, <1>5

\* cancel() returning True is TellCancelled.
LEMMA PostCancelledTells ==
  ASSUME Inv, Inv', PostCancelled
  PROVE  \E r \in Requests : Promise!TellCancelled(r)
<1>1. PICK r \in Requests : r = main.of /\ Removed(r)
  BY DEF PostCancelled, Inv, CancelInv, Removed
<1>2. /\ UNCHANGED worker /\ main'.for = main.for /\ req \in [Requests -> Request]
      /\ req' = [req EXCEPT ![r].node = "linked", ![r].told = TRUE]
  BY <1>1 DEF PostCancelled, Inv, TypeOK, Main
<1>3. \A x \in Requests : Executing(x)' <=> Executing(x)
  BY <1>2 DEF Executing, Has
<1>4. /\ \A x \in Requests \ {r} : req'[x] = req[x]
      /\ req'[r] = [req[r] EXCEPT !.node = "linked", !.told = TRUE]
  BY <1>2
<1>5. /\ req'[r].mem = req[r].mem /\ req'[r].work = req[r].work /\ req'[r].ran = req[r].ran
      /\ req'[r].done = req[r].done /\ req'[r].told = TRUE
  BY <1>2, <1>4 DEF Request
<1>6. \A x \in Requests : Status(x)' = Status(x)
  BY <1>2, <1>3, <1>4, <1>5, StatusKept
<1>7. UNCHANGED [x \in Requests |-> Status(x)]
  BY <1>6
<1>8. [x \in Requests |-> req'[x].told] = [[x \in Requests |-> req[x].told] EXCEPT ![r] = TRUE]
  BY <1>4, <1>5
<1>9. Status(r) = "cancelled"
  BY <1>1, StatusByPlace DEF PlaceStatus
<1> QED BY <1>7, <1>8, <1>9 DEF Promise!TellCancelled

\* pyuv__tp_work_cb calling the work callback is Start.
LEMMA StartWorkStarts ==
  ASSUME Inv, Inv', NEW w \in Workers, StartWork(w)
  PROVE  \E r \in Requests : Promise!Start(r)
<1>1. PICK r \in Requests : r = worker[w].req /\ Has(w, r) /\ worker[w].at = "took"
  BY DEF Inv, HandInv, StartWork, Has
<1>2. /\ UNCHANGED main /\ req \in [Requests -> Request] /\ worker \in [Workers -> Worker]
      /\ req' = [req EXCEPT ![r].ran = @ + 1]
      /\ worker' = [worker EXCEPT ![w].at = "running"]
  BY <1>1 DEF StartWork, Inv, TypeOK
<1>3. /\ worker'[w].at = "running" /\ worker'[w].req = r
      /\ \A v \in Workers \ {w} : worker'[v] = worker[v]
  BY <1>1, <1>2 DEF Worker
<1>4. \A x \in Requests \ {r} : Executing(x)' <=> Executing(x)
  BY <1>1, <1>3 DEF Executing, Has
<1>5. /\ \A x \in Requests \ {r} : req'[x] = req[x]
      /\ req'[r].told = req[r].told
  BY <1>2 DEF Request
<1>6. Status(r) = "queued"
  BY <1>1, StatusByPlace DEF PlaceStatus
<1>7. Has(w, r)'
  BY <1>3 DEF Has
<1>8. Status(r)' = "executing"
  BY <1>3, <1>7, StatusByPlaceNext DEF PlaceStatus
<1>9. Promise!Move(r, {"queued"}, "executing")
  BY <1>2, <1>4, <1>5, <1>6, <1>8, StatusKept, OneMoves
<1> QED BY <1>5, <1>9, NothingTold DEF Promise!Start

\* The work callback's return is Finish.
LEMMA EndWorkFinishes ==
  ASSUME Inv, Inv', NEW w \in Workers, EndWork(w)
  PROVE  \E r \in Requests : Promise!Finish(r)
<1>1. PICK r \in Requests : r = worker[w].req /\ Has(w, r) /\ worker[w].at = "running"
  BY DEF Inv, HandInv, EndWork, Has
<1>2. /\ UNCHANGED <<main, req>> /\ worker \in [Workers -> Worker]
      /\ worker' = [worker EXCEPT ![w].at = "ran"]
  BY <1>1 DEF EndWork, Inv, TypeOK
<1>3. /\ worker'[w].at = "ran" /\ worker'[w].req = r
      /\ \A v \in Workers \ {w} : worker'[v] = worker[v]
  BY <1>1, <1>2 DEF Worker
<1>4. \A x \in Requests \ {r} : Executing(x)' <=> Executing(x)
  BY <1>1, <1>3 DEF Executing, Has
<1>5. Status(r) = "executing"
  BY <1>1, StatusByPlace DEF PlaceStatus
<1>6. Has(w, r)'
  BY <1>3 DEF Has
<1>7. Status(r)' = "executed"
  BY <1>3, <1>6, StatusByPlaceNext DEF PlaceStatus
<1>8. Promise!Move(r, {"executing"}, "executed")
  BY <1>2, <1>4, <1>5, <1>7, StatusKept, OneMoves
<1> QED BY <1>2, <1>8, NothingTold DEF Promise!Finish

\* w->work = NULL is not seen: the request was executed before.
LEMMA PostDoneStutters ==
  ASSUME Inv, Inv', NEW w \in Workers, PostDone(w)
  PROVE  UNCHANGED Promise!vars
<1>1. PICK r \in Requests : r = worker[w].req /\ Has(w, r) /\ worker[w].at = "ran"
  BY DEF Inv, HandInv, PostDone, Has
<1>2. /\ UNCHANGED main /\ req \in [Requests -> Request] /\ worker \in [Workers -> Worker]
      /\ req' = [req EXCEPT ![r].work = "null", ![r].node = "linked"]
      /\ worker' = [worker EXCEPT ![w] = [at |-> "send", req |-> Nobody]]
      /\ loopWq' = Append(loopWq, r)
  BY <1>1 DEF PostDone, Inv, TypeOK
<1>3. /\ worker'[w].at = "send"
      /\ \A v \in Workers \ {w} : worker'[v] = worker[v]
  BY <1>2
<1>4. \A x \in Requests : Executing(x)' <=> Executing(x)
  <2>1. \A x \in Requests : Executing(x)' => Executing(x)
    BY <1>3 DEF Executing, Has
  <2>2. ASSUME NEW x \in Requests, NEW v \in Workers, Has(v, x), worker[v].at = "running"
        PROVE  Has(v, x)' /\ worker'[v].at = "running"
    BY <1>1, <1>3, <2>2 DEF Has
  <2> QED BY <2>1, <2>2 DEF Executing
<1>5. /\ \A x \in Requests \ {r} : req'[x] = req[x]
      /\ req'[r] = [req[r] EXCEPT !.work = "null", !.node = "linked"]
  BY <1>2
<1>6. req'[r].told = req[r].told /\ req'[r].work = "null"
  BY <1>2, <1>5 DEF Request
<1>7. Status(r) = "executed"
  BY <1>1, StatusByPlace DEF PlaceStatus
<1>8. In(loopWq', r)
  <2>1. /\ Append(loopWq, r) \in Seq(Requests) /\ Once(Append(loopWq, r))
        /\ \A x : In(Append(loopWq, r), x) <=> In(loopWq, x) \/ x = r
    BY <1>1, AppendOnce, Apart DEF Inv, DueInv, TypeOK
  <2> QED BY <1>2, <2>1
<1>9. Status(r)' = "executed"
  BY <1>6, <1>8, StatusByPlaceNext DEF PlaceStatus
<1> QED BY <1>2, <1>4, <1>5, <1>6, <1>7, <1>9, StatusKept, NothingMoves

\* uv__work_done calling the done callback is Report.
LEMMA TakeDoneReports ==
  ASSUME Inv, Inv', TakeDone
  PROVE  \E r \in Requests : Promise!Report(r)
<1>1. PICK r \in Requests : r = Head(batch) /\ In(batch, r)
  BY TailOnce DEF Inv, TypeOK, DueInv, TakeDone
<1>2. /\ UNCHANGED worker /\ main.at = "batch" /\ main \in Main
      /\ req \in [Requests -> Request] /\ req[r] \in Request
  BY DEF TakeDone, Inv, TypeOK
<1> DEFINE p == [req[r] EXCEPT !.node = "stale", !.active = FALSE, !.done = @ + 1]
<1>3. \/ req' = [req EXCEPT ![r] = p] /\ main' = [main EXCEPT !.at = "done", !.for = r]
      \/ req' = [req EXCEPT ![r] = Finished(p)] /\ UNCHANGED main
  BY <1>1 DEF TakeDone
<1>4. Due(req[r]) /\ main.for \notin Requests
  BY <1>1, <1>2 DEF Inv, DueInv, LoopInv
<1>5. p \in Request /\ ~p.active /\ p.told = req[r].told
  <2> DEFINE one == req[r].done + 1
  <2>1. one = 1 /\ one \in 0 .. 1
    BY <1>4 DEF Due
  <2>2. p = [req[r] EXCEPT !.node = "stale", !.active = FALSE, !.done = one]
    BY <1>2
  <2> HIDE DEF p, one
  <2> QED BY <1>2, <2>1, <2>2 DEF Request
<1> HIDE DEF p
<1>6. /\ \A x \in Requests \ {r} : req'[x] = req[x]
      /\ ~req'[r].active /\ req'[r].told = req[r].told
  BY <1>2, <1>3, <1>5, FinishedFields
<1>7. \A x \in Requests \ {r} : main'.for = x <=> main.for = x
  BY <1>2, <1>3, <1>4 DEF Main
<1>8. \A x \in Requests : Executing(x)' <=> Executing(x)
  BY <1>2 DEF Executing, Has
<1>9. \/ Status(r) = "executed" /\ ~req[r].told
      \/ Status(r) = "cancelled" /\ req[r].told
  BY <1>1, <1>4, StatusByPlace DEF PlaceStatus, Due
<1>10. Status(r)' \in {"reporting", "finished", "free"}
  BY <1>6, StatusByPlaceNext DEF PlaceStatus
<1>11. PICK to \in {"reporting", "finished", "free"} : Status(r)' = to
  BY <1>10
<1>12. Promise!Move(r, {Status(r)}, to)
  BY <1>6, <1>7, <1>8, <1>11, StatusKept, OneMoves
<1>13. UNCHANGED [x \in Requests |-> req[x].told]
  BY <1>6, NothingTold
<1> QED BY <1>9, <1>12, <1>13 DEF Promise!Report, Promise!Move

\* The done callback's return is EndReport.
LEMMA LeaveDoneEnds ==
  ASSUME Inv, Inv', LeaveDone
  PROVE  \E r \in Requests : Promise!EndReport(r)
<1>1. PICK r \in Requests : r = main.for
  BY DEF Inv, LoopInv, LeaveDone
<1>2. /\ UNCHANGED worker /\ req \in [Requests -> Request] /\ req[r] \in Request /\ main \in Main
      /\ req' = [req EXCEPT ![r] = Finished(req[r])]
      /\ main' = [main EXCEPT !.at = "batch", !.for = Nobody]
  BY <1>1 DEF LeaveDone, Inv, TypeOK
<1>3. main'.for = Nobody
  BY <1>2 DEF Main
<1>4. \A x \in Requests \ {r} : main'.for = x <=> main.for = x
  BY <1>1, <1>3, WorkAssumption
<1>5. ~req[r].active
  BY <1>1 DEF Inv, RequestInv, Sound
<1>6. /\ \A x \in Requests \ {r} : req'[x] = req[x]
      /\ ~req'[r].active /\ req'[r].told = req[r].told
  BY <1>2, <1>5, FinishedFields
<1>7. \A x \in Requests : Executing(x)' <=> Executing(x)
  BY <1>2 DEF Executing, Has
<1>8. Status(r) = "reporting"
  BY <1>1, StatusByPlace DEF PlaceStatus
<1>9. Status(r)' \in {"finished", "free"}
  BY <1>3, <1>6, WorkAssumption, StatusByPlaceNext DEF PlaceStatus
<1>10. PICK to \in {"finished", "free"} : Status(r)' = to
  BY <1>9
<1>11. Promise!Move(r, {"reporting"}, to)
  BY <1>4, <1>6, <1>7, <1>8, <1>10, StatusKept, OneMoves
<1> QED BY <1>6, <1>11, NothingTold DEF Promise!EndReport

\* Every step of a thread is a step of WorkSpec, or changes nothing in it.
LEMMA StepSimulates == ASSUME Inv, Inv', [Next]_vars PROVE [Promise!Next]_(Promise!vars)
<1>1. ASSUME NEW r \in Requests,
             \/ Promise!Queue(r) \/ Promise!Start(r) \/ Promise!Finish(r) \/ Promise!Withdraw(r)
             \/ Promise!TellCancelled(r) \/ Promise!Report(r) \/ Promise!EndReport(r) \/ Promise!Release(r)
      PROVE  Promise!Next
  BY <1>1 DEF Promise!Next
<1>2. CASE UNCHANGED vars
  BY <1>2, LoopThreadStutters
<1>3. CASE PythonStep
  BY <1>1, <1>3, QueueWorkQueues, DropRequestReleases, LoopThreadStutters DEF PythonStep
<1>4. CASE LoopStep \/ LeaveDone
  BY <1>1, <1>4, DecideCancelWithdraws, PostCancelledTells, TakeDoneReports, LeaveDoneEnds, LoopThreadStutters
     DEF LoopStep
<1>5. ASSUME NEW w \in Workers, WorkerStep(w) \/ SpuriousWakeup(w) PROVE [Promise!Next]_(Promise!vars)
  BY <1>1, <1>5, StartWorkStarts, EndWorkFinishes, PostDoneStutters, WorkerStutters DEF WorkerStep
<1> QED BY <1>2, <1>3, <1>4, <1>5 DEF Next

\* The thread pool implements WorkSpec.
THEOREM PoolKeepsPromise == ASSUME ~CancelInDone PROVE Spec => ImplementsWorkSpec
<1>1. Init => Promise!Init
  <2> SUFFICES ASSUME Init PROVE Promise!Init
    OBVIOUS
  <2>1. \A r \in Requests : Status(r) = "free" /\ req[r].told = FALSE
    BY DEF Init, Status
  <2> QED BY <2>1 DEF Promise!Init
<1>2. Inv /\ Inv' /\ [Next]_vars => [Promise!Next]_(Promise!vars)
  BY StepSimulates
<1> QED BY <1>1, <1>2, Invariance, PTL DEF Spec, ImplementsWorkSpec, Promise!Spec

-----------------------------------------------------------------------------
(* Nobody sleeps over work.                                                *)

Sending(w) == worker[w].at \in {"send", "write", "unlock"}

WakeInv ==
  /\ \A w \in Workers : Sending(w) <=> wqMutex = w
  /\ pending => eventfd \/ main.at = "async" \/ \E w \in Workers : worker[w].at = "write"
  /\ \A w \in Workers : worker[w].at = "write" => pending \/ main.at = "move"
  /\ NoLostWakeup

\* A step of the loop thread outside uv__async_io and uv__work_done.
LEMMA WakeFrame ==
  ASSUME WakeInv, UNCHANGED <<pending, eventfd, wqMutex>>,
         \A w \in Workers : worker'[w].at = worker[w].at \/ (~Sending(w) /\ ~Sending(w)'),
         loopWq' # <<>> => loopWq # <<>>,
         main'.at = main.at \/ main.at \notin {"async", "move"}
  PROVE  WakeInv'
BY DEF WakeInv, NoLostWakeup, Sending

\* The loop thread leaves no request of loop->wq unannounced.
LEMMA LoopWakes ==
  ASSUME Inv, WakeInv, PythonStep \/ LoopStep \/ LeaveDone
  PROVE  WakeInv'
<1>1. main \in Main /\ wqMutex \in Workers \cup {Nobody} /\ loopWq \in Seq(Requests)
  BY DEF Inv, TypeOK
<1>2. ASSUME NEW r \in Requests, NEW hasDone \in BOOLEAN, QueueWork(r, hasDone) PROVE WakeInv'
  <2>1. UNCHANGED <<pending, eventfd, wqMutex, loopWq, main>> /\ Signal
    BY <1>2 DEF QueueWork, locks, wakeup
  <2>2. \A w \in Workers : worker'[w].at = worker[w].at \/ (~Sending(w) /\ ~Sending(w)')
    BY <2>1, SignalKeeps DEF Inv, Sending
  <2> QED BY <2>1, <2>2, WakeFrame
<1>3. CASE \/ Stop \/ (\E r \in Requests : DropRequest(r) \/ Cancel(r)) \/ BatchDone \/ TakeDone \/ LeaveDone
           \/ Iterated \/ (\E mode \in {"default", "once", "nowait"} : Run(mode))
  <2>1. UNCHANGED <<pending, eventfd, wqMutex, loopWq, worker>>
    BY <1>3 DEF Stop, DropRequest, Cancel, BatchDone, TakeDone, LeaveDone, Iterated, Run, queues, locks, wakeup
  <2>2. main'.at = main.at \/ main.at \notin {"async", "move"}
    BY <1>1, <1>3 DEF Main, Stop, DropRequest, Cancel, BatchDone, TakeDone, LeaveDone, Iterated, Run, InPython
  <2> QED BY <2>1, <2>2, WakeFrame
<1>4. CASE DecideCancel
  <2>1. UNCHANGED <<pending, eventfd, wqMutex, worker>> /\ main'.at = main.at
    BY <1>1, <1>4 DEF DecideCancel, wakeup, Main
  <2>2. loopWq' # <<>> => loopWq # <<>>
    BY <1>4 DEF DecideCancel, Without, queues
  <2> QED BY <2>1, <2>2, WakeFrame
<1>5. CASE PostCancelled
  <2>1. main.at \in {"out", "done"} /\ main'.at = main.at
    BY <1>1, <1>5 DEF PostCancelled, Inv, CancelInv, Main
  <2>2. \A w \in Workers : ~Sending(w) /\ wqMutex # w
    BY <1>5, WorkAssumption DEF PostCancelled, WakeInv
  <2>3. UNCHANGED <<worker, wqMutex>> /\ pending' /\ eventfd'
    BY <1>5, <2>1, <2>2 DEF PostCancelled, locks, WakeInv, Sending
  <2> QED BY <2>1, <2>2, <2>3 DEF WakeInv, NoLostWakeup, Sending
<1>6. CASE Poll
  <2>1. UNCHANGED <<worker, wqMutex, pending, loopWq>> /\ eventfd' = FALSE /\ main.at = "poll"
    BY <1>6 DEF Poll, queues, locks
  <2>2. main'.at = IF eventfd THEN "async" ELSE "iterated"
    BY <1>1, <1>6 DEF Poll, Main
  <2> QED BY <2>1, <2>2 DEF WakeInv, NoLostWakeup, Sending
<1>7. CASE AsyncIo
  <2>1. UNCHANGED <<worker, wqMutex, eventfd, loopWq>> /\ pending' = FALSE /\ main.at = "async"
        /\ main'.at = IF pending THEN "move" ELSE "iterated"
    BY <1>1, <1>7 DEF AsyncIo, queues, locks, Main
  <2> QED BY <2>1 DEF WakeInv, NoLostWakeup, Sending
<1>8. CASE MoveQueue
  <2>1. UNCHANGED <<worker, wqMutex, eventfd, pending>> /\ loopWq' = <<>> /\ main.at = "move" /\ main'.at = "batch"
    BY <1>1, <1>8 DEF MoveQueue, locks, wakeup, Main
  <2>2. \A w \in Workers : ~Sending(w)
    BY <1>8, WorkAssumption DEF MoveQueue, WakeInv
  <2> QED BY <2>1, <2>2 DEF WakeInv, NoLostWakeup, Sending
<1> QED BY <1>2, <1>3, <1>4, <1>5, <1>6, <1>7, <1>8 DEF PythonStep, LoopStep

\* uv_async_send in its steps, under loop->wq_mutex.
LEMMA WorkerWakes ==
  ASSUME Inv, WakeInv, NEW w \in Workers, WorkerStep(w) \/ SpuriousWakeup(w)
  PROVE  WakeInv'
<1>1. worker \in [Workers -> Worker] /\ w # Nobody /\ UNCHANGED main
  BY WorkAssumption DEF Inv, TypeOK, WorkerStep, Look, StartWork, EndWork, PostDone, SendAsync, WriteEventfd,
     Unlock, SpuriousWakeup
<1>2. CASE Look(w) \/ StartWork(w) \/ EndWork(w) \/ SpuriousWakeup(w)
  <2>1. UNCHANGED <<pending, eventfd, wqMutex, loopWq>>
    BY <1>2 DEF Look, StartWork, EndWork, SpuriousWakeup, queues, locks, wakeup
  <2>2. \A v \in Workers : worker'[v].at = worker[v].at \/ (~Sending(v) /\ ~Sending(v)')
    BY <1>1, <1>2 DEF Look, StartWork, EndWork, SpuriousWakeup, Sending, Worker
  <2> QED BY <1>1, <2>1, <2>2, WakeFrame
<1>3. ASSUME NEW place, worker'[w].at = place, \A v \in Workers \ {w} : worker'[v] = worker[v]
      PROVE  \A v \in Workers : worker'[v].at = IF v = w THEN place ELSE worker[v].at
  BY <1>3
<1>4. CASE PostDone(w)
  <2>1. UNCHANGED <<pending, eventfd>> /\ wqMutex = Nobody /\ wqMutex' = w /\ worker[w].at = "ran"
        /\ worker' = [worker EXCEPT ![w] = [at |-> "send", req |-> Nobody]]
    BY <1>4 DEF PostDone, wakeup
  <2>2. \A v \in Workers : worker'[v].at = IF v = w THEN "send" ELSE worker[v].at
    BY <1>1, <1>3, <2>1
  <2> QED BY <1>1, <2>1, <2>2, WorkAssumption DEF WakeInv, NoLostWakeup, Sending
<1>5. CASE SendAsync(w)
  <2>1. UNCHANGED <<eventfd, wqMutex, loopWq>> /\ pending' = TRUE /\ worker[w].at = "send"
        /\ worker' = [worker EXCEPT ![w].at = IF pending THEN "unlock" ELSE "write"]
    BY <1>5 DEF SendAsync, locks, queues
  <2>2. \A v \in Workers : worker'[v].at = IF v = w THEN IF pending THEN "unlock" ELSE "write" ELSE worker[v].at
    BY <1>1, <1>3, <2>1 DEF Worker
  <2>3. \A v \in Workers \ {w} : ~Sending(v) /\ wqMutex = w
    BY <2>1 DEF WakeInv, Sending
  <2> QED BY <1>1, <2>1, <2>2, <2>3 DEF WakeInv, NoLostWakeup, Sending
<1>6. CASE WriteEventfd(w)
  <2>1. UNCHANGED <<pending, wqMutex, loopWq>> /\ eventfd' = TRUE /\ worker[w].at = "write"
        /\ worker' = [worker EXCEPT ![w].at = "unlock"]
    BY <1>6 DEF WriteEventfd, locks, queues
  <2>2. \A v \in Workers : worker'[v].at = IF v = w THEN "unlock" ELSE worker[v].at
    BY <1>1, <1>3, <2>1 DEF Worker
  <2> QED BY <1>1, <2>1, <2>2 DEF WakeInv, NoLostWakeup, Sending
<1>7. CASE Unlock(w)
  <2>1. UNCHANGED <<pending, eventfd, loopWq>> /\ wqMutex' = Nobody /\ worker[w].at = "unlock"
        /\ worker' = [worker EXCEPT ![w].at = "look"]
    BY <1>7 DEF Unlock, wakeup, queues
  <2>2. \A v \in Workers : worker'[v].at = IF v = w THEN "look" ELSE worker[v].at
    BY <1>1, <1>3, <2>1 DEF Worker
  <2>3. \A v \in Workers \ {w} : ~Sending(v) /\ v # Nobody
    BY <2>1, WorkAssumption DEF WakeInv, Sending
  <2> QED BY <1>1, <2>1, <2>2, <2>3 DEF WakeInv, NoLostWakeup, Sending
<1> QED BY <1>2, <1>4, <1>5, <1>6, <1>7 DEF WorkerStep

Looking == {w \in Workers : worker[w].at = "look"}

\* No request is added, no worker goes to sleep.
LEMMA IdleFrame ==
  ASSUME NoIdleWhileWork, Len(wq) \in Nat, Len(wq') \in Nat, Len(wq') <= Len(wq),
         \A w \in Workers : /\ worker'[w].at = "waiting" => worker[w].at = "waiting"
                            /\ worker[w].at = "look" => worker'[w].at = "look"
  PROVE  NoIdleWhileWork'
<1>1. Looking \in SUBSET Looking' /\ Looking' \in SUBSET Workers
  BY DEF Looking
<1>2. Cardinality(Looking) <= Cardinality(Looking') /\ Cardinality(Looking) \in Nat /\ Cardinality(Looking') \in Nat
  <2>1. IsFiniteSet(Looking')
    BY <1>1, WorkAssumption, FS_Subset
  <2> QED BY <1>1, <2>1, FS_Subset, FS_CardinalityType
<1>3. Waiting' # {} => Waiting # {}
  BY DEF Waiting
<1>4. Waiting # {} => Len(wq) <= Cardinality(Looking)
  BY DEF NoIdleWhileWork, Looking
<1>5. Waiting' # {} => Len(wq') <= Cardinality(Looking')
  BY <1>2, <1>3, <1>4
<1> QED BY <1>5 DEF NoIdleWhileWork, Looking

\* post() wakes a worker for every request it adds.
LEMMA IdleStep ==
  ASSUME Inv, NoIdleWhileWork, [Next]_vars
  PROVE  NoIdleWhileWork'
<1>1. wq \in Seq(Requests) /\ Once(wq) /\ Len(wq) \in Nat /\ worker \in [Workers -> Worker]
  BY LenProperties DEF Inv, TypeOK, QueueInv
<1>2. Looking \in SUBSET Workers /\ IsFiniteSet(Looking) /\ Cardinality(Looking) \in Nat
  <2>1. Looking \in SUBSET Workers
    BY DEF Looking
  <2> QED BY <2>1, WorkAssumption, FS_Subset, FS_CardinalityType
<1>3. Waiting # {} => Len(wq) <= Cardinality(Looking)
  BY DEF NoIdleWhileWork, Looking
<1>4. ASSUME NEW r \in Requests, NEW hasDone \in BOOLEAN, QueueWork(r, hasDone) PROVE NoIdleWhileWork'
  <2>1. wq' = Append(wq, r) /\ Signal
    BY <1>4 DEF QueueWork
  <2>2. Len(wq') = Len(wq) + 1
    BY <1>1, <2>1, AppendProperties
  <2>3. CASE Waiting = {}
    <3>1. UNCHANGED worker
      BY <2>1, <2>3 DEF Signal
    <3> QED BY <2>3, <3>1 DEF NoIdleWhileWork, Waiting
  <2>4. CASE Waiting # {}
    <3>1. PICK v \in Waiting : worker' = [worker EXCEPT ![v].at = "look"]
      BY <2>1, <2>4 DEF Signal
    <3>2. v \in Workers /\ worker[v].at = "waiting"
      BY <3>1 DEF Waiting
    <3>3. worker'[v].at = "look" /\ \A w \in Workers \ {v} : worker'[w] = worker[w]
      BY <1>1, <3>1, <3>2 DEF Worker
    <3>4. Looking' = Looking \cup {v} /\ v \notin Looking
      BY <3>2, <3>3 DEF Looking
    <3>5. Cardinality(Looking') = Cardinality(Looking) + 1
      BY <1>2, <3>4, FS_AddElement
    <3>6. Len(wq') <= Cardinality(Looking')
      BY <1>1, <1>2, <1>3, <2>2, <2>4, <3>5
    <3> QED BY <3>6 DEF NoIdleWhileWork, Looking
  <2> QED BY <2>3, <2>4
<1>5. ASSUME NEW w \in Workers, Look(w) PROVE NoIdleWhileWork'
  <2>1. CASE wq = <<>>
    <3>1. wq' = <<>>
      BY <1>5, <2>1 DEF Look
    <3>2. Looking' \in SUBSET Workers
      BY DEF Looking
    <3>3. Cardinality(Looking') \in Nat
      BY <3>2, WorkAssumption, FS_Subset, FS_CardinalityType
    <3>4. Len(wq') <= Cardinality(Looking')
      BY <3>1, <3>3, EmptySeq
    <3> QED BY <3>4 DEF NoIdleWhileWork, Looking
  <2>2. CASE wq # <<>>
    <3>1. /\ wq' = Tail(wq) /\ worker' = [worker EXCEPT ![w] = [at |-> "took", req |-> Head(wq)]]
          /\ worker[w].at = "look"
      BY <1>5, <2>2 DEF Look
    <3>2. Len(wq') = Len(wq) - 1
      BY <1>1, <2>2, <3>1, TailOnce
    <3>3. worker'[w].at = "took" /\ \A v \in Workers \ {w} : worker'[v] = worker[v]
      BY <1>1, <3>1
    <3>4. Looking' = Looking \ {w} /\ w \in Looking /\ (Waiting' # {} => Waiting # {})
      BY <3>1, <3>3 DEF Looking, Waiting
    <3>5. Cardinality(Looking') = Cardinality(Looking) - 1
      BY <1>2, <3>4, FS_RemoveElement
    <3>6. Waiting' # {} => Len(wq') <= Cardinality(Looking')
      BY <1>1, <1>2, <1>3, <3>2, <3>4, <3>5
    <3> QED BY <3>6 DEF NoIdleWhileWork, Looking
  <2> QED BY <2>1, <2>2
<1>6. CASE DecideCancel
  <2>1. UNCHANGED worker /\ (UNCHANGED wq \/ \E r \in Requests : wq' = Without(wq, r))
    BY <1>6 DEF DecideCancel, Inv, CancelInv, queues
  <2>2. Len(wq') \in Nat /\ Len(wq') <= Len(wq)
    BY <1>1, <2>1, WithoutOnce
  <2> QED BY <1>1, <2>1, <2>2, IdleFrame
<1>7. CASE \/ Stop \/ (\E r \in Requests : DropRequest(r) \/ Cancel(r)) \/ BatchDone \/ TakeDone \/ LeaveDone
           \/ Iterated \/ (\E mode \in {"default", "once", "nowait"} : Run(mode)) \/ PostCancelled \/ Poll
           \/ AsyncIo \/ MoveQueue \/ UNCHANGED vars
  <2>1. UNCHANGED <<wq, worker>>
    BY <1>7 DEF Stop, DropRequest, Cancel, BatchDone, TakeDone, LeaveDone, Iterated, Run, PostCancelled, Poll,
       AsyncIo, MoveQueue, queues, vars
  <2> QED BY <2>1 DEF NoIdleWhileWork, Waiting
<1>8. ASSUME NEW w \in Workers, WorkerStep(w) \/ SpuriousWakeup(w), ~Look(w) PROVE NoIdleWhileWork'
  <2>1. UNCHANGED wq
    BY <1>8 DEF WorkerStep, StartWork, EndWork, PostDone, SendAsync, WriteEventfd, Unlock, SpuriousWakeup, queues
  <2>2. /\ worker[w].at # "look" /\ worker'[w].at # "waiting"
        /\ \A v \in Workers \ {w} : worker'[v] = worker[v]
    BY <1>1, <1>8 DEF WorkerStep, StartWork, EndWork, PostDone, SendAsync, WriteEventfd, Unlock, SpuriousWakeup,
       Worker
  <2>3. \A v \in Workers : /\ worker'[v].at = "waiting" => worker[v].at = "waiting"
                           /\ worker[v].at = "look" => worker'[v].at = "look"
    BY <2>2
  <2> QED BY <1>1, <2>1, <2>3, IdleFrame
<1> QED BY <1>4, <1>5, <1>6, <1>7, <1>8 DEF Next, PythonStep, LoopStep, WorkerStep

\* Neither the loop nor a worker sleeps over a request that is due to it.
THEOREM WokenForWork == ASSUME ~CancelInDone PROVE Spec => []NobodySleepsOverWork
<1>1. Init => WakeInv /\ NoIdleWhileWork
  BY WorkAssumption DEF Init, WakeInv, Sending, NoLostWakeup, NoIdleWhileWork, Waiting
<1>2. Inv /\ WakeInv /\ NoIdleWhileWork /\ [Next]_vars => WakeInv' /\ NoIdleWhileWork'
  <2> SUFFICES ASSUME Inv, WakeInv, NoIdleWhileWork, [Next]_vars PROVE WakeInv'
    BY IdleStep
  <2>1. CASE UNCHANGED vars
    BY <2>1 DEF vars, WakeInv, NoLostWakeup, Sending
  <2> QED BY <2>1, LoopWakes, WorkerWakes DEF Next
<1>3. WakeInv /\ NoIdleWhileWork => NobodySleepsOverWork
  BY DEF WakeInv, NobodySleepsOverWork
<1> QED BY <1>1, <1>2, <1>3, Invariance, PTL DEF Spec

=============================================================================
