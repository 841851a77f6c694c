# A verification project for pyuv

pyuv is a C extension that puts Python objects around libuv. Most of what can go
wrong in it is not in any one function but in the order of many: a handle's
memory belongs to CPython's reference counts while its place in the loop's lists
belongs to libuv; requests travel between the loop thread and a pool of worker
threads; and `uv_run` calls back into code that changes the very lists it walks.
This directory models the extension and the parts of libuv it rests on in TLA+,
checks the models with TLC and proves with TLAPS, for every value of the constants,
each safety property the passing runs check: every invariant, the action
properties and the refinement. Liveness stays with TLC.

Paths below are those of the repository: `src/handle.c` is pyuv's own code,
`deps/libuv/src/unix/core.c` the bundled libuv.

## 1. Inventory

| Component | Code | State | Operations | Correct when |
|---|---|---|---|---|
| Handle base class | `src/handle.c`, macros of `src/pyuv.h` | refcount, `initialized`, `PYUV__PYREF`, `loop`, `on_close_cb` | new, init, close, dealloc (with resurrection), GC clear, ref | every Py_INCREF is paired; libuv never holds a pointer to freed memory; the close callback comes once |
| Timer, Idle, Prepare, Check | `src/timer.c`, `idle.c`, `prepare.c`, `check.c`; libuv `timer.c`, `loop-watcher.c` | active, callback, repeat | start, stop, again, repeat | callbacks only while active; a started handle keeps itself alive |
| Async | `src/async.c`; libuv `unix/async.c` | `pending`, eventfd | send (any thread), callback | no send is lost; coalesced sends give at least one callback |
| Loop object | `src/loop.c` | refcount, `default_loop` static, slab buffer | run, stop, handles, queue_work, default_loop, dealloc | outlives the handles on it; `excepthook` found for every callback |
| Event loop | libuv `unix/core.c`, `uv-common.h` | active count, closing list, stop flag, phase | uv_run and its phases, uv_close | the active count is exact; every closing handle is finished once |
| Requests and pool | `src/request.c`, `loop.c` queue_work; libuv `threadpool.c` | queues, two mutexes, `w->work`, queue links | queue_work, cancel, worker, done callback | a request runs once or is cancelled, its callback comes once and says which |
| Streams, TCP, Pipe, TTY, UDP | `src/stream.c`, `tcp.c`, `pipe.c`, `tty.c`, `udp.c` | write queue, read callback, shared slab | write, shutdown, read, listen, accept, connect, send | each request answered once, also at close; the slab is given back |
| Abstract pipe connect | `src/abstract.c` | a hidden timer | connect | the pipe's memory is kept until the hidden timer's callback has run, and what the callback raises reaches `excepthook` |
| Process, SignalChecker, Signal, Poll | `src/process.c`, `util.c`, `signal.c`, `poll.c` | extra references | spawn, exit, check signals | references paired |
| File system and DNS requests | `src/fs.c`, `src/dns.c` | buffers, callback | async and sync calls | buffers released whatever the outcome |
| Thread primitives | `src/thread.c` | native locks | lock, wait, barrier | never block with the interpreter lock held |
| Common, errors, module setup | `src/common.c`, `errno.c`, `error.c`, `pyuv.c` | none | parsing, conversions, excepthook | - |

Interaction: Python code runs on the loop thread, outside `uv_run` or in a
callback `uv_run` made. Every callback takes a reference to its handle, calls
Python and drops it. Callbacks call back into handles, so every list libuv walks
can change under it. Workers touch only requests, `loop->wq` and `wq_async`.
What is hard is therefore: reentrancy (callbacks that stop, close or drop
handles), destruction (by name, by cycle, by the loop), and the threads of the
pool. `PROJECT.json` lists each hazard at its line.

## 2. Modules

| Module | Subject | Runs |
|---|---|---|
| `HandleLifecycle`, `HandleLifecycleProofs` | memory and references of handles, the loop object, the closing pass | `handles`, `handles_gc`, `handles_gc_loop`; proved |
| `WorkQueue` over `WorkSpec`, `WorkQueueProofs` | requests, the thread pool, waking the loop | `work`, `work_live`; proved |
| `LoopRun`, `LoopRunProofs` | run modes, timer heap, poll timeout, watchers, stop flag, Async.send() from threads | `loop_timing`, `loop_watchers`; proved |
| `SocketIO`, `SocketIOProofs` | one TCP, Pipe, TTY, UDP or listening handle: connect, write, shutdown, read, accept, close | `sockets`; proved |
| `Watchers`, `WatchersProofs` | Poll, Signal, FSEvent, FSPoll, SignalChecker, Process, connection to an abstract socket | `watchers`, `watchers_checker`; proved |
| `FsDns` over `WorkSpec`, `FsDnsProofs` | the functions of `fs.c` and `dns.c`, in place or in the pool | `requests`; proved |
| `ThreadSync`, `ThreadSyncProofs` | Barrier, Mutex, RWLock, Condition, Semaphore and the interpreter lock | `threads`; proved |
| `Queues`, `QueueLemmas` | libuv's queues as sequences that hold nothing twice, and what their operations do | used by the others |

How they fit together. `WorkSpec` is the contract between the pool and its
users: `WorkQueue` is shown to implement it, and `FsDns` is built on an instance
of it, so what `FsDns` says of an FS or DNS request rests on the pool as coded.
`HandleLifecycle` shows that a handle's memory is there while it is used; that is
why `LoopRun` and `SocketIO` need no reference counts of the handle itself.
`Watchers` has the counts again, because each of its handles takes references
`HandleLifecycle` knows nothing of. Each module has an `MC` module for its
instances.

Still worth doing: an abstract specification of a handle, implemented by
`HandleLifecycle`; handles dropped or closed in threads other than the loop's (no
module has two threads that each own a loop).

## 3. `HandleLifecycle`

State. `obj[h]` is the Python object: memory, reference count, `users` (names
Python variables hold), `cycle` (its dict refers back to it), `initialized`,
`pyref` (the flag of PYUV_HANDLE_INCREF), `loop` (a Loop, None or NULL) and
`onClose`. `uv[h]` is the `uv_handle_t` in it. `loop` is the Loop object and its
`uv_loop_t`, `active` being `active_handles`, `closing` the list
`closing_handles` and `todo` the handles the running phase has still to visit.
`batch` is the local list of `uv__run_closing_handles`. `phase` and `cb` say
where `uv_run` is and which Python callback it is in.

What a function does to one handle is written as a function on *views*
(object, uv handle, loop): `UvClose`, `Decref`, `HandleDecref`, `EndClose` and so
on compose as the C calls do, so that a `Py_DECREF` which frees the object, and
thereby closes the handle or frees the loop, happens inside the action that
makes it.

Actions. Python code: `New`, `InitHandle`, `StartTimer`, `StartWatcher`, `Stop`,
`Again`, `SetRepeat`, `SetRef`, `Send`, `Close`, `UpdateTime`
(Loop.update_time()), names taken and dropped, cycles made, broken and collected. They are enabled outside `uv_run` and inside any
callback, of any handle. The loop: `Run`, one action per phase change, one per
callback entry, `LeaveCallback`, and `FinishClose`, which is one iteration of
the closing pass up to the Python callback.

Abstractions. Time is not counted: when a timers pass begins, any set of active
timers may be due. With `DueInPass` more become due while the pass goes on: a
timer given timeout 0, and, when a callback calls Loop.update_time(), any active
timer, a repeating one that has just been restarted included.
Idle, prepare and check handles are one kind, in one phase, as the three files
are the same but for names. Any dict that leads back to the handle is one
boolean, `cycle`; `Collect` is the collector clearing the handle first,
`BreakCycle` another member of the cycle first.

Runs (all with `CHECK_DEADLOCK FALSE`: a program that has dropped everything has
ended).

- `handles`: one timer, one watcher, a loop that dies with its last reference,
  under `FairSpec`. A timer and a watcher are the least with two handles in
  different phases, so that a callback of one acts on the other, and two handles
  can be in the closing lists at once. `LoopKnowsHandles` joins what relates the
  handles to the loop: the active count, the closing list, the loop's references
  and the loop the excepthook is looked up in. `CloseCompletes` says that a
  program that keeps running the loop sees each close complete. Fairness is weak
  for the steps of `uv_run` and for the return of callbacks: `uv_run` is one
  thread's straight code. `DueInPass` is FALSE here: a timer callback that
  restarts its timer with timeout 0, or a repeating timer whose callback takes as
  long as its repeat and calls Loop.update_time(), keeps `uv__run_timers` going
  for ever, and the property is false of the code.
- `handles_gc`: a timer, with `DueInPass`, and an async (which is active from
  birth and never has a self-reference) in cycles, on the default loop.
- `handles_gc_loop`: finding. A handle in a garbage cycle whose `self->loop` is
  the last reference to a non-default loop: `Handle_tp_clear` drops it,
  `Loop_tp_dealloc` frees the loop (ignoring UV_EBUSY), then
  `Handle_tp_dealloc` closes the handle on the freed loop and resurrects the
  object "until the close callback is called", which nothing can call.

Bounds: `MaxUserRefs = 1` name per handle in the runs. More names only delay the
drop that matters: every action tests `users > 0` or a count of zero. The proofs
have no bound.

## 4. What is proved about it

`HandleLifecycleProofs`, for any finite set of handles of each kind, any bound on
names, with or without cycles, timers due in the pass and default loop (the assumption is
`ConstantsAssumption` only):

- `TypeCorrect`, `RefcountsCorrect`, `MemorySafe`, `ClosedReclaimed`,
  `StartedKept`, `CloseCallbacksCorrect`: invariants of `Spec`;
- `CloseFinal`, `FiresCorrectly`, `ResurrectedOutOfScope` (`ClosedOnlyOutOfScope`):
  action properties of `Spec`;
- `LoopRefcountsCorrect` (`LoopRefsExact`) and `LoopOutlives` (`LoopKnowsHandles`,
  and with it that a handle in libuv's closing list has its loop), about the Loop
  object and its counters.

`LoopOutlives` alone has a hypothesis, `DefaultLoop \/ ~Cycles`. The code needs it:
`Handle_tp_clear` drops `self->loop` before the handle is closed, and run
`handles_gc_loop` shows the Loop freed under a closing handle without it.

Those about handles follow from `Invariance == Spec => []IInv`. The properties are not inductive:
`RefcountExact` alone does not exclude a freed handle with an owner, and
`NoUseAfterFree` needs the counts. `IInv` is the type invariant with

- `Good(h, obj[h], uv[h], KindOf(h))`: consistency of one handle. `Sound` ties
  flags to states (a freed object has no owner and is not listed, an active
  handle is open, a closed one has no self-reference outside its close callback,
  an active watcher has one); `Counts` is the reference count against `Owed`, the
  number of its owners; `HasLoop` says who may still need `self->loop`;
- every handle on the list being visited is active;
- `ClosingListed`, `Control` (phase against callback) and `CloseCallbackOnce`.

The argument has two layers. Lemmas on views say what each C function does to
one handle (`StopView`, `CloseView`, `DropLoopView`, `DecrefView`: dropping the
reference that a consistent handle owes leaves it consistent, whether the object
is kept, resurrected or freed). Lemmas on steps (`PlainStep`, `QuietStep`,
`LoopStepKeeps`, `ClosedStep`) lift that to the whole state, and there is one
lemma per action. `Inductive` puts them together.

The Loop's counters are sums over the handles, which `IInv` says nothing of.
`LoopKnown` adds them: `LoopCounts` (the active count, the Loop's references, and
that `uv_loop_t` is freed exactly with the last reference) and `LoopKept` (without
cycles a handle in libuv's queue keeps `self->loop`). It was checked with TLC on
the three instances first. Its proof runs beside the one above, on the same view
functions, and relates two views instead of describing one: `Balanced` says that
the loop's counters change by exactly what the handle counts for before and after,
`Points` that the handle keeps its loop or dies. Both compose (`KeptTwice`), so each
C function needs one lemma, also between two calls where the reference count is not
yet what the invariant asks for. `CountDiffers` and `CountsStep` turn a change of
one handle into a change of the cardinalities, and there is again one lemma per
action (`...Known`).

Only model-checked here: `CloseCompletes`.

## 5. `WorkQueue` and `WorkSpec`

`WorkSpec` is what a program is promised: a request is executed once or withdrawn
before it starts, then reported once, and the report says UV_ECANCELED exactly
if it was withdrawn, which the program has been told. It has no threads.

`WorkQueue` is the code: the pool's queue `wq` and mutex, `loop->wq` with its
mutex, the local queue of `uv__work_done` (`batch`), `wq_async` (`pending` and
the eventfd), the workers, and the loop thread, which runs Python code or is
somewhere in `uv_run` (`main.at`) or inside `cancel()` (`main.calling`). A
request records what the code looks at: `w->work`, what its queue links say
(`self` after QUEUE_INIT, `linked`, `stale` after QUEUE_REMOVE), `req_ptr`,
membership of `active_reqs`, references. `ran`, `done` and `told` are history.

A section under one mutex is one step. Steps are apart where a thread keeps a
mutex while taking another (`Cancel`, `DecideCancel`) or while it wakes the loop
(`PostDone`, `SendAsync`, `WriteEventfd`, `Unlock`). `uv_async_send` is test and
set, then write, so the loop's read and reset may come between. The interpreter
lock is modelled where it matters: `cancel()` keeps it while it blocks, and a
work callback needs it. Condition variables may wake spuriously.

- `work`: two requests, two workers, deadlock checked. The type invariant (no
  callback twice); `PassedOnSafely`, each request in exactly one place and its
  memory kept exactly while needed; cancelled means never run;
  `NobodySleepsOverWork`, no lost wake-up of the loop and no idle worker beside
  work; and the refinement `ImplementsWorkSpec`. Two workers are needed for a
  signal to go astray, two requests for a batch to change while it is worked off;
  finished requests are used again, so the behaviours do not end. Requests and
  workers are interchangeable, hence the symmetry.
- `work_live`: `FairSpec`, two requests and one worker. `CallsComplete`: a request
  leaves `active_reqs` unless `run()` is stopped, or the program cancels it for
  ever (each `cancel()` of an already cancelled request moves it to the end of
  `loop->wq` again); and `cancel()`, which keeps the interpreter lock while it
  waits for mutexes, returns. Fairness is weak for the loop's steps that wait for
  nothing and strong for those that take a mutex, for the workers, and for the
  return of a done callback: mutexes and the interpreter lock are handed on in the
  end, and callbacks return. Here `CHECK_DEADLOCK FALSE` lets a deadlock show as a
  violation of `CallsComplete`; `work` checks the same system for deadlock.

`CancelInDone = FALSE` in both: the program does not call `cancel()` in the done
callback of the request. The code fails if it does. `UnregistersActive` states
what `uv-common.h` asserts, that a request leaves `active_reqs` only while it is
in it; with `CancelInDone = TRUE` TLC finds `cancel()` from the done callback of a
cancelled request succeeding again, and the callback coming twice. No run lists
it, since everything else in the module fails with it too.

`WorkQueueProofs` proves, for any set of requests, any finite pool and
`CancelInDone = FALSE`, all that `work` checks: `WorkTypes` (`TypeOK`),
`CancelKeepsItsWord` (`CancelMeansNeverRun`), `NeverLost` (`PassedOnSafely`),
`WokenForWork` (`NobodySleepsOverWork`) and the refinement, `PoolKeepsPromise`
(`ImplementsWorkSpec`), so that what `FsDns` takes from `WorkSpec` holds of the
pool as coded for every number of threads. The assumption on the constants is
`WorkAssumption`. None of the properties is inductive. `Inv` says what the fields
of a request are at each place it can be (`Queued`, `InHand`, `Due`, `Withdrawn`):
the place then follows from the fields, so that two places exclude each other
(`Apart`) and `uv__work_cancel`, which looks only at `work` and the links, unlinks
it from the queue it is in. `batch` is empty unless its loop runs, or
`uv__work_done` would overwrite requests. `WakeInv` adds for the wake-up that the
worker which set `pending` and has not yet written the eventfd keeps
`loop->wq_mutex`, so the loop waits for it at `move` if it has reset `pending`
in between. The queues are handled through the lemmas of `QueueLemmas` about
sequences that hold nothing twice, which the proofs of `LoopRun`, `SocketIO` and
`Watchers` share: one each for QUEUE_INSERT_TAIL, for taking the head and for
QUEUE_REMOVE. The refinement goes by places again: `StatusByPlace` reads the
abstract status off the place before and after a step.

Not in the model: `queue_work` from other threads (libuv allows none), fork and
the pool's destruction at exit, exceptions in callbacks (they are printed and go
on as a return).

## 6. `LoopRun`

`uv_run` itself, without the handles' memory: `HandleLifecycle` says that a
handle's memory is there as long as it is used, so here a handle is only "none",
"open" or "closing", active or not, referenced or not. Where `HandleLifecycle`
abstracts time and merges the watchers' phases, this module has both.

State. `heap` is the timer heap as the sequence `timer_less_than` sorts it into;
`queue` the four lists idle, prepare, check and async; `visiting` the local list
of the phase being run (QUEUE_MOVE); `closing` and `batch` the closing list and
the one being worked off; `pending`, `eventfd` and `sender` the state of
Async.send(); `poll` the variables of `uv__io_poll`; `at`, `mode`, `stopFlag` and
`cb` say where `uv_run` is. `served`, `fresh` and `ran` are history.

Time. `left[t]` is the date of a timer less `loop->time`, `lag` how far
`loop->time` is behind the clock. `Tick` passes a millisecond at any moment, also
in callbacks and before the poll; `UpdateTime` takes the lag off all timers.
Nothing looks at dates that are past except their order, which the heap keeps,
so both are bounded by the longest timeout `MaxTimeout`, and TLC sees all of
time.

Actions. Python code (top level, or any callback) opens, closes, starts, stops
and references handles, changes `repeat`, calls again(), stop() and
update_time(). `Run(m)` enters `uv_run`; then one action per timer fired, watcher
called, async visited, handle finished, and one per change of phase. `Send` is
uv_async_send's test and set of `pending` and `WriteEventfd` its write; other
threads send whenever they can get the interpreter lock, while the loop polls
or between any two steps. They do nothing else with handles: libuv allows no more.

- `loop_timing`: programs with two timers, with a timer and an async, or with two
  asyncs, and a sending thread (the interpreter lock makes several send one after
  the other, so one is enough); signals; modes default and once. `TimersExact`:
  the heap is exactly the active timers, in order, through every mix of start,
  again, stop, close and firing, and the loop never sleeps past a timer, also when
  the poll is interrupted. Two timers are the least that have an order; timeouts
  and repeats of 0 and 2 ms give a timer that is due at once, one that is not, and
  a poll with time left after an EINTR. `NoLostSend`,
  and `LoopProgress` under `FairSpec`: the loop's thread is scheduled (weak
  fairness of its steps, which nothing disables but their own progress), a
  callback returns (strong fairness, since other threads may hold the interpreter
  lock now and then), the clock goes on, and the write inside send() ends. The
  liveness has premises. A timer callback that starts a timer with timeout 0, or
  that of a repeating timer which calls update_time(), keeps `uv__run_timers` from
  ending, so that stop() ends run() is claimed for
  behaviours that leave the timers again and again; and a program that never calls
  run() serves nothing, so the rest is for loops that go on polling.
- `loop_watchers`: programs with two idles and a prepare, two idles and a check that
  may be unreferenced, or a prepare and a check; all modes. `ListsExact`: no
  watcher is in two lists or in none, the closing lists lose nothing.
  `CalledOncePerIteration` and `IterationExact`: none is called twice in an
  iteration or skipped; the loop does not wait with an idle, a stop or a close
  due. Two idles are needed for a callback to act on a handle still to be visited
  in its phase, another watcher for one that acts across phases.

`Casts` names the sets of handles a program of a run makes: the runs explore these
programs side by side, where all their handles at once would only multiply states.

`LoopRunProofs` proves, for any sets of timers, watchers, asyncs and sending
threads, any timeouts and any programs (`LoopRunAssumption` only), all the
invariants of both runs and the action property: `TypeCorrect`, `SendsKept`
(`NoLostSend`), `TimersInTime` (`TimersExact`), `ListsWalked` (`ListsExact`),
`IterationsComplete` (`IterationExact`) and `CalledOnce`
(`CalledOncePerIteration`). `Inv` states the lists without sequences' indices: the
heap holds the active timers, each once and sorted (`HeapInv`); an active watcher is
in its queue or in the one being visited, and what is being visited is of the
phase's kind (`QueueInv`); the poll is never longer than what is left to a timer,
also after an EINTR (`PollInv`). `IterationExact` needs history: `ServedInv` says
that a watcher which was not called yet, and not started in this iteration, has its
phase still before it (`Before`) or is in the list being visited, so that leaving a
phase with an empty list skips nobody. The order of the heap is kept because every
step subtracts the same lag from all dates (`UpdateTimeIs`) and insertion goes
behind equal dates (`InsertedSorted`). The frame lemmas (`HeapFrame`, `QueueFrame`,
`CloseFrame`, `SendFrame`, `ServedFrame`) let each action's lemma speak only of what
it disturbs. The proof needs timers, asyncs and the three kinds
of watchers to be disjoint; `LoopRunAssumption` says so.

Two statements of the module hold of no run, because the code fails them.
`RunOnceProgress`: `uv__io_poll` takes the time before an earlier EINTR off its
timeout twice, so with two signals UV_RUN_ONCE may return before its timer is due
and without the callback its comment guarantees. `RefdKeepsAlive`:
docs/refcount.rst:22 says a referenced handle keeps the loop alive even if not
active; `uv__loop_alive` wants both.

Not in the model: the other I/O watchers and `pending_queue` (`SocketIO` has what
they do to one handle), `wq_async` (in `WorkQueue`), the cap on the poll timeout for 32-bit
kernels, and uint64 overflow of a timer's date.

## 7. `SocketIO`

One handle, of a kind chosen at the start, with the requests on it and the loop's
read buffer. Everything happens on the loop's thread; `main.at` is the place in
the handle's code where `uv_run` is, `main.call` whose Python callback runs.
Python may call any method while `uv_run` is elsewhere and in each callback,
which is where the code is hard: `uv__read`, `uv__write` and
`uv__write_callbacks` go on after a callback that closed the handle, stopped
reading or wrote again.

State. `s` holds the fields of `uv_stream_t` and of the wrapper, `queue` and
`completed` libuv's two write queues, `reqs` each request's state, its views and
the handle it sends; `held`, `exported`, `sent` count the references taken for
callbacks. `order` is history. The kernel is every outcome it may have: data, a
full read, EAGAIN, end of stream, error; a write done, partly done or failed.

Run `sockets`: two connects, two writes of up to two views and a shutdown, all
five kinds. Two writes are the least that can overtake each other; two views the
least where a call can fail between them; one handle, since streams share only
the buffer, which `RequestsKept` shows is free whenever another could read.
Deadlock is not checked: a closed handle has ended. `NothingForgotten` stands for
liveness: whenever the loop waits, the handle is watched for what is outstanding
on it; that the kernel then reports an event is nobody's promise. A listening
handle is watched exactly while no connection waits for accept(), which may come in
the callback, later or never, with listen() and close() in between.

`Corners` are uses the run leaves out (`{}`), because libuv fails there:
- `reconnect`: Pipe.connect() while connecting overwrites `connect_req`; the first
  request is never answered (`RequestsKept` fails);
- `early shutdown`, `late connect`: shutdown() while connecting, or a connect() of
  a handle that already wrote or shut down, leaves a request nobody is watching
  for (`NothingForgotten` fails);
- `close in recv`: close() in a UDP receive callback in an event that also flushes
  the send queue works on the closed handle (`AnsweredBeforeClosed` fails);
- `late accept`: accept() outside the callback that fails leaves the listening
  handle unwatched (`NothingForgotten` fails);
- `listen again`: listen() outside the callback while a connection waits to be
  accepted has the handle watched again (`NothingForgotten` fails), and the next
  event fails libuv's assertion that none waits.

Whether a handle reads is libuv's own flag: a start_read() in the callback for the
end of the stream, which `uv__stream_eof` undoes when the callback has returned,
leaves nothing outstanding. start_read() of a handle without a descriptor, which the code
only asserts it is not, is no step of the model.

`SocketIOProofs` proves all that `sockets` checks, for any number of requests and
views (`SocketAssumption`), and for every choice of `Corners`: where a property
needs a corner excluded the theorem says which, and no theorem excludes one it does
not need. `TypeCorrect`, `CallbackSet` (`CallbackIsSet`) and `InOrder`
(`AnsweredInOrder`) need none; `RequestsHold` (`RequestsKept`) excludes `reconnect`;
`ClosedAtRest` (`AnsweredBeforeClosed`) also `close in recv`; `Watched`
(`NothingForgotten`) `early shutdown`, `late connect`, `late accept` and
`listen again`. So the list above is complete: the corners are all the ways in which the code can break these
properties in the model.

`Inv` has a conjunct for each thing to be known of the handle. `ListInv`: the writes
in the order of the calls are `completed` followed by `queue`, from which the order
of answers follows. `RequestInv` and `CountInv`: the request whose callback runs,
and `held`, `exported` and `sent` as cardinalities of what is outstanding.
`PlaceInv`, `CloseInv` and `ClosedInv`: what each place in libuv's code knows, which
is what makes it safe to go on there after a callback that closed the handle.
`ReadInv` and `WatchInv`: what is outstanding is watched for, or a place of the
code that is still to be reached will look at it. `Inv` was checked with TLC with no
corner and with all of them. The lemmas go in layers: `KeepCounts` and
`ReleaseCounts` for the counts when a call or a callback changes one request;
`MadeKeeps`, `AnswerKeeps`, `MovedKeeps` and `QuietKeeps` for a request made,
answered, moved and left alone; and one for each action.

## 8. `Watchers`

Handles that take references of their own for something outside the loop. Counts
are explicit: `refs` is the Python count, `owns` the reasons C code took one,
`names` the variables. `pipe` is the loop's signal pipe, `watcher` the SIGCHLD
watcher, `pending` the local list of `uv__chld`, `loop` whether `self->loop` is
still the Loop. The pipe has room for `MaxPipe` signals; one more is lost, and a
child whose SIGCHLD was lost is "missed" until another child's makes `uv__chld`
wait for all of them.

Run `watchers`: each of the seven kinds by itself, two processes, a signal beside
a process, which share the pipe, and a signal beside two processes, where signals
fill the pipe, one child's SIGCHLD is lost and the other's makes up for it. Two
children are the least for `uv__chld`'s list to change while it is called back. `MaxNames` 2 (a variable
and one a callback keeps), `MaxPipe` 2 (a second signal caught before the first
is dispatched), `MaxChecked` 2 (enough to take away both references a started
checker has).

`RefsExact` and `NoDangling` make an exception for a SignalChecker that was told
of a signal, because `pyuv__check_signals` drops a reference it never took. The
run `watchers_checker` is that finding: create, start, a signal, and in its
callback stop(), close() and the name dropped; the object is freed while it is in
the closing list. (Without stop() it takes a second signal.)

`NoDangling` also says that a callback that raises finds the Loop of its handle;
that of an abstract connection is excepted, because the code fails it: connect,
close(), and the close callback runs before the hidden timer's, which then looks
`excepthook` up on None. docs/loop.rst:76 promises a call of `loop.excepthook`; the
exception is printed instead. `ExcepthookFound` states it without the exception; no
run lists it, and TLC refutes it in seven states of a single Pipe.

What `ExitsReported` lets a closed handle keep is what the code leaks: a process closed
before its child's exit, whose callback then never comes, keeps the reference of
spawn().

`WatchersProofs` proves the four invariants, `TypeCorrect`, `CountsExact`
(`RefsExact`), `NothingDangles` (`NoDangling`) and `NoExitMissed` (`ExitsReported`),
for any finite set of handles of any kinds and any bounds (`WatchersAssumption`).
`Inv` is an account: `Counted` says the count of an object is the variables naming
it and the references taken for it less those `pyuv__check_signals` dropped, and
`Held` which reasons a handle of each kind has while it is open, closing and closed;
`CallInv` gives the running callback the reference it will give back, and nobody
else one; `PipeInv`, `PendingInv` and `ChildInv` follow signals and children from
the pipe through `uv__chld`'s list to the callback. `DecrefKeeps`, `GiveBackKeeps`
and `TakeKeeps` say what a Py_DECREF, PYUV_HANDLE_DECREF and Py_INCREF do to one
account, whether the object lives on, is closed and resurrected, or freed;
`PythonKeeps`, `EnterKeeps` and `LeaveKeeps` lift that to a call, the beginning and
the end of a callback. `LoopInCallbacks` proves
`ExcepthookFound` where no handle is a SignalChecker or a Pipe. `ClosedBeforeFreed` proves of all programs without a
SignalChecker the statement that run `watchers_checker` refutes, the comment of
`Handle_tp_dealloc`: that kind is its only exception.

## 9. `FsDns`

Each function is an action that makes a request object and runs it in place or
queues it in `Pool`, an instance of `WorkSpec`. A request is its Python count,
`req_ptr`, the memory it holds (buffer, view, addresses) and the Loop reference
it owns. Functions with the same shape of result are one action, mapped to the
functions it stands for.

Run `requests`: two calls of any two functions, with cancel(), names and the Loop
dropped at any moment; two are needed for the Loop to be kept by one while the
other ends, otherwise calls do not meet. `KeptWhileUsed`: what libuv or the system
call still uses exists. `OnlyTheseLeak` says exactly what stays behind: an
asynchronous read or write that fails or is cancelled keeps its buffer or view; a
getaddrinfo() in place its addresses, one whose service is not ASCII the encoded
host; a getnameinfo() in place the request and with it the Loop. The module also
states `CleanedUp`, after the comment in `fs.c`, which the first of these breaks;
no run lists it.

`FsDnsProofs` proves both, `RequestsKeptWhileUsed` and `NothingElseLeaks`, for any
finite set of calls. Neither is inductive: `FInv` adds what a request holds at each
place of its life in the pool (`Consistent`), so that its end is known to release
it, and that the Loop's count is the number of living requests and the variable
that names it (`LoopInv`), which is why a request that lives has its Loop. A step
changes one request: `PutCounts` follows the Loop's count through it, `Changed`
lifts it to the whole state, and each function and callback has a lemma.

## 10. `ThreadSync`

A method is three steps: entered with the interpreter lock, in libuv without it,
back and waiting for it. `knows[t]` is what the Python code of a thread holds by
what it was told, `owner`, `readers`, `waiting` and `count` what is so. A thread
asleep in a condition may wake for a signal, a timeout or no reason, and competes
for the mutex.

The program is one POSIX gives a meaning: no lock is taken again by its holder or
released by another thread, a semaphore is posted by who took a permit, and
somebody is left to wake those that wait. Without that the primitives themselves
block for ever and no property of the wrapper is at stake. The Mutex a Condition
is given is an initialized one: `wait()` and `timedwait()` do not check it. Run `threads`: three
threads, a semaphore of one permit, a barrier for two: a party completes and a
third thread is left over, a reader, a writer and one who tries meet. Deadlock is
off since the threads end.

`ToldTruth` and `NobodyForgotten` are about results that were fetched without the
interpreter lock. `InterpreterFree` is the hazard of `thread.c`: a blocking call
that keeps the interpreter lock stops every thread, the one that would release it
first. Its fairness is the weakest there is, `WF_vars(Next)`: the machine does not
stop while some thread can go on.

`ThreadSyncProofs` proves `ThreadTypes` and `LocksExclude` (`ToldTruth`) for any
number of threads, any semaphore and party. `Exclusion` is not inductive: between
libuv's answer and the moment Python learns of it a thread holds what it does not
know yet, so `LockInv` says for every thread, by the place in its call, what it
holds: a thread that is back with a lock owns it, one that is to unlock owns it
still, one asleep in wait() does not. The lemmas go by primitive.

`NobodyLeft` proves `NobodyForgotten`, again for any threads, of which there may be
infinitely many. A permit has a holder from libuv's answer on, before Python is told
(`Holders`); `Moves` is all a step of any method does to them, one permit to or from
one thread, so their number and `count` add up to what there was. Sleepers come one
at a time, and in a Barrier only while the party is not complete.

## 11. What is proved and what is not

Proved for all values of the constants: every safety property a passing run
checks, invariants, action properties and the refinement of `WorkSpec`, in sections
4 to 10. The assumptions are the named ones of the modules, which TLC evaluates in
the runs, and the hypotheses sections 4, 5, 7 and 8 give with their reasons.

Model-checked only:

- liveness, which with ENABLED is out of the prover's reach: `CloseCompletes`,
  `CallsComplete`, `LoopProgress` and `InterpreterFree`;
- the absence of deadlock in `WorkQueue`;
- the statements the two violation runs refute.

## 12. Reading the modules

Operators named `Wrong...` are the definition that follows them with a plausible
mistake; no specification uses them. `PROJECT.json` says which property notices
which mistake, and maps every other definition to its lines.

## 13. Not modelled

- Single system calls that change no state of the wrapper: socket options and
  names, terminal modes, UDP.try_send, Process.kill, set_blocking.
- Data: address parsing, building of results, the options and StdIO of spawn(),
  error tables, module and type registration (`common.c` in part, `errno.c`,
  `error.c`, `pyuv.c`, most of `util.c`).
- A handle dropped by a thread that is not its loop's: `Handle_tp_dealloc` then
  calls uv_close there, which libuv does not support; the outcome is undefined.
- An optional argument read uninitialized (`process.c:225`, spawn() without an exit
  callback): undefined at the first step, with no protocol to check.
- tp_dealloc of a thread primitive in use, undefined in POSIX.
- The Windows half of libuv, the macOS select thread, and the kernel: what they do
  is nondeterminism in the models.
