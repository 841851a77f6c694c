------------------------------- MODULE LoopRun -------------------------------
(***************************************************************************)
(* Loop.run(): uv_run() of deps/libuv/src/unix/core.c with its timers,     *)
(* idle, prepare, poll, check and closing phases in the three run modes,   *)
(* the callbacks of timer.c, idle.c, prepare.c, check.c and async.c, and   *)
(* Async.send() from any thread.  What a handle's memory does is in        *)
(* HandleLifecycle; here handles are only opened, started and closed.      *)
(*                                                                         *)
(* Time has no origin: a timer knows how far off it is, measured from the  *)
(* loop's own clock, and the loop how far its clock lags behind the real   *)
(* one.  A lag of MaxTimeout makes every timer due, so it need not grow    *)
(* beyond; a due timer keeps its place in the heap and needs no date.      *)
(*                                                                         *)
(* An operator named Wrong... is the definition after it with a plausible  *)
(* mistake; no action uses it.  It documents which property notices.       *)
(***************************************************************************)
EXTENDS Integers, Sequences, FiniteSets, Queues

CONSTANTS
  Timers, Idles, Prepares, Checks, Asyncs,  \* handles
  NoHandle,   \* no handle
  Senders,    \* threads that call Async.send()
  Timeouts,   \* the timeouts and repeats timers are started with, in ms
  MaxTimeout, \* the longest of them
  Modes,      \* the modes run() is called with
  Casts,      \* sets of handles: a program makes handles of one of them
  Reffed,     \* the handles whose ref the program sets
  Signals     \* TRUE: signals interrupt the poll

Watchers == Idles \cup Prepares \cup Checks
Handles == Timers \cup Watchers \cup Asyncs

ASSUME LoopRunAssumption ==
  /\ Timers \cap (Watchers \cup Asyncs) = {} /\ Asyncs \cap Watchers = {}
  /\ Idles \cap (Prepares \cup Checks) = {} /\ Prepares \cap Checks = {}
  /\ NoHandle \notin Handles
  /\ MaxTimeout \in Nat /\ Timeouts \subseteq 0..MaxTimeout
  /\ Modes \subseteq {"default", "once", "nowait"}
  /\ Reffed \subseteq Handles /\ Casts \subseteq SUBSET Handles
  /\ Signals \in BOOLEAN

VARIABLES
  handle,    \* uv_handle_t of each handle
  left,      \* timers: time left until due; 0 when due, or not active
  repeat,    \* timers: the repeat value
  heap,      \* loop->timer_heap, in the order timer_less_than gives
  queue,     \* loop->idle_handles, prepare_handles, check_handles, async_handles
  visiting,  \* the local queue of uv__run_idle, ..., uv__async_io
  closing,   \* loop->closing_handles
  batch,     \* the list uv__run_closing_handles works through
  pending,   \* asyncs: handle->pending
  eventfd,   \* the eventfd is readable
  sender,    \* threads: "write" between setting pending and writing the eventfd
  lag,       \* how far loop->time is behind the clock
  poll,      \* the variables of uv__io_poll
  at, mode,  \* where uv_run is and how it was called
  stopFlag,  \* loop->stop_flag
  cb,        \* the handle whose callback runs
  served,    \* history: watchers called in this iteration
  fresh,     \* history: watchers started in this iteration
  ran        \* history: uv_run has made a callback

timerVars == <<left, repeat, heap>>
listVars == <<queue, visiting, closing, batch>>
asyncVars == <<pending, eventfd, sender>>
runVars == <<at, mode, stopFlag, cb, ran>>
vars == <<handle, timerVars, listVars, asyncVars, lag, poll, runVars, served, fresh>>

Kinds == {"idle", "prepare", "check", "async"}

KindOf(h) ==
  CASE h \in Idles -> "idle" [] h \in Prepares -> "prepare"
    [] h \in Checks -> "check" [] h \in Asyncs -> "async"

Places ==
  {"out", "timers", "idle", "prepare", "poll", "blocked", "async", "check", "closing", "lastTimers"}

\* A handle "none" has no uv_handle_t: not initialized yet, or closed; one that is
\* "absent" is never made.  hasCb is a timer's timer_cb; the others get their
\* callback when they become active.
NoUv == [state |-> "none", active |-> FALSE, ref |-> FALSE, hasCb |-> FALSE]
NoPoll == [timeout |-> 0, wait |-> 0, real |-> 0, since |-> 0]

Init ==
  /\ \E cast \in Casts :
       handle = [h \in Handles |-> IF h \in cast THEN NoUv ELSE [NoUv EXCEPT !.state = "absent"]]
  /\ left = [t \in Timers |-> 0] /\ repeat = [t \in Timers |-> 0] /\ heap = <<>>
  /\ queue = [k \in Kinds |-> <<>>] /\ visiting = <<>> /\ closing = <<>> /\ batch = <<>>
  /\ pending = [a \in Asyncs |-> FALSE] /\ eventfd = FALSE
  /\ sender = [s \in Senders |-> "idle"]
  /\ lag = 0 /\ poll = NoPoll
  /\ at = "out" /\ mode = "default" /\ stopFlag = FALSE /\ cb = NoHandle
  /\ served = {} /\ fresh = {} /\ ran = FALSE

Capped(n) == IF n > MaxTimeout THEN MaxTimeout ELSE n

-----------------------------------------------------------------------------
(* Time.                                                                   *)

\* The clock goes on, also while uv__io_poll waits.
Tick ==
  /\ lag' = Capped(lag + 1)
  /\ poll' = [poll EXCEPT !.wait = IF @ > 0 THEN @ - 1 ELSE 0]
  /\ UNCHANGED <<handle, timerVars, listVars, asyncVars, runVars, served, fresh>>

\* Forgets that a timer may be overdue.
WrongUpdatedLeft == [t \in Timers |-> left[t] - lag]

\* uv__update_time
UpdatedLeft == [t \in Timers |-> IF left[t] > lag THEN left[t] - lag ELSE 0]
UpdateTime == left' = UpdatedLeft /\ lag' = 0 /\ UNCHANGED <<repeat, heap>>

-----------------------------------------------------------------------------
(* What Python code does, at top level or inside a callback.               *)

\* A thread inside Async.send() has the interpreter lock.
GilFree == \A s \in Senders : sender[s] = "idle"

InPython == (at = "out" \/ cb # NoHandle) /\ GilFree

Open(h) == handle[h].state = "open"

\* Timer_tp_init, Idle_tp_init, ...: uv__handle_init.
InitHandle(h) ==
  /\ InPython /\ h \notin Asyncs /\ handle[h].state = "none"
  /\ handle' = [handle EXCEPT ![h] = [state |-> "open", active |-> FALSE, ref |-> TRUE, hasCb |-> FALSE]]
  /\ repeat' = [t \in Timers |-> IF t = h THEN 0 ELSE repeat[t]]
  /\ UNCHANGED <<left, heap, listVars, asyncVars, lag, poll, runVars, served, fresh>>

\* Async_tp_init: an Async is active from the start.
InitAsync(a) ==
  /\ InPython /\ handle[a].state = "none"
  /\ handle' = [handle EXCEPT ![a] = [state |-> "open", active |-> TRUE, ref |-> TRUE, hasCb |-> FALSE]]
  /\ queue' = [queue EXCEPT !["async"] = Append(@, a)]
  /\ pending' = [pending EXCEPT ![a] = FALSE]
  /\ UNCHANGED <<timerVars, visiting, closing, batch, eventfd, sender, lag, poll, runVars,
                 served, fresh>>

\* Puts the timer at the end, whatever its date.
WrongInserted(s, t, dates) == Append(s, t)

\* heap_insert: in the order of the dates, and of the starts when they are equal.
Inserted(s, t, dates) ==
  Spliced(s, Cardinality({i \in DOMAIN s : dates[s[i]] <= dates[t]}), t)

\* uv_timer_start on a stopped timer, after heap h.
Restarted(h, t, timeout) ==
  /\ left' = [left EXCEPT ![t] = timeout]
  /\ heap' = Inserted(h, t, [left EXCEPT ![t] = timeout])

\* Timer_func_start
StartTimer(t, timeout, rep) ==
  /\ InPython /\ Open(t)
  /\ Restarted(Without(heap, t), t, timeout)
  /\ repeat' = [repeat EXCEPT ![t] = rep]
  /\ handle' = [handle EXCEPT ![t].active = TRUE, ![t].hasCb = TRUE]
  /\ UNCHANGED <<listVars, asyncVars, lag, poll, runVars, served, fresh>>

\* Timer_func_stop
StopTimer(t) ==
  /\ InPython /\ Open(t)
  /\ heap' = Without(heap, t) /\ left' = [left EXCEPT ![t] = 0]
  /\ handle' = [handle EXCEPT ![t].active = FALSE]
  /\ UNCHANGED <<repeat, listVars, asyncVars, lag, poll, runVars, served, fresh>>

\* Timer_repeat_set
SetRepeat(t, rep) ==
  /\ InPython /\ handle[t].state \in {"open", "closing"}
  /\ repeat' = [repeat EXCEPT ![t] = rep]
  /\ UNCHANGED <<handle, left, heap, listVars, asyncVars, lag, poll, runVars, served, fresh>>

\* Timer_func_again: a timer with a repeat value is restarted, any other is left
\* alone; one that was never started has no callback, which is an error.
Again(t) ==
  /\ InPython /\ Open(t) /\ handle[t].hasCb /\ repeat[t] > 0
  /\ Restarted(Without(heap, t), t, repeat[t])
  /\ handle' = [handle EXCEPT ![t].active = TRUE]
  /\ UNCHANGED <<repeat, listVars, asyncVars, lag, poll, runVars, served, fresh>>

\* History: the watchers started since the iteration began.
StartedMeanwhile(h) == IF at = "out" THEN fresh ELSE fresh \cup {h}

\* Starts a watcher in the list being visited, if its phase is running.
WrongStartWatcher(h) ==
  /\ InPython /\ Open(h)
  /\ handle' = [handle EXCEPT ![h].active = TRUE]
  /\ IF handle[h].active THEN UNCHANGED <<queue, visiting, fresh>>
     ELSE /\ IF at = KindOf(h) THEN visiting' = <<h>> \o visiting /\ UNCHANGED queue
             ELSE queue' = [queue EXCEPT ![KindOf(h)] = <<h>> \o @] /\ UNCHANGED visiting
          /\ fresh' = StartedMeanwhile(h)
  /\ UNCHANGED <<timerVars, closing, batch, asyncVars, lag, poll, runVars, served>>

\* Starts an active watcher once more.
WrongRestartWatcher(h) ==
  /\ InPython /\ Open(h)
  /\ handle' = [handle EXCEPT ![h].active = TRUE]
  /\ visiting' = Without(visiting, h)
  /\ queue' = [queue EXCEPT ![KindOf(h)] = <<h>> \o Without(@, h)]
  /\ fresh' = IF handle[h].active THEN fresh ELSE StartedMeanwhile(h)
  /\ UNCHANGED <<timerVars, closing, batch, asyncVars, lag, poll, runVars, served>>

\* uv_idle_start and its twins: at the head of the loop's queue, unless active.
StartWatcher(h) ==
  /\ InPython /\ Open(h)
  /\ handle' = [handle EXCEPT ![h].active = TRUE]
  /\ IF handle[h].active THEN UNCHANGED <<queue, fresh>>
     ELSE queue' = [queue EXCEPT ![KindOf(h)] = <<h>> \o @] /\ fresh' = StartedMeanwhile(h)
  /\ UNCHANGED <<timerVars, visiting, closing, batch, asyncVars, lag, poll, runVars, served>>

\* Idle_func_start, Prepare_func_start, Check_func_start
StartIdle(h) == h \in Idles /\ StartWatcher(h)
StartPrepare(h) == h \in Prepares /\ StartWatcher(h)
StartCheck(h) == h \in Checks /\ StartWatcher(h)

\* Looks only in the loop's queue.
WrongUnlink(h) ==
  /\ queue' = [queue EXCEPT ![KindOf(h)] = Without(@, h)]
  /\ UNCHANGED visiting

\* QUEUE_REMOVE of the handle, from the loop's queue or the one being visited.
Unlink(h) ==
  /\ queue' = [queue EXCEPT ![KindOf(h)] = Without(@, h)]
  /\ visiting' = Without(visiting, h)

\* uv_idle_stop and its twins
StopWatcher(h) ==
  /\ InPython /\ Open(h)
  /\ handle' = [handle EXCEPT ![h].active = FALSE]
  /\ Unlink(h)
  /\ UNCHANGED <<timerVars, closing, batch, asyncVars, lag, poll, runVars, served, fresh>>

\* Idle_func_stop, Prepare_func_stop, Check_func_stop
StopIdle(h) == h \in Idles /\ StopWatcher(h)
StopPrepare(h) == h \in Prepares /\ StopWatcher(h)
StopCheck(h) == h \in Checks /\ StopWatcher(h)

\* Handle_func_close and uv_close: uv__timer_close, uv__idle_close, uv__async_close, ...
Close(h) ==
  /\ InPython /\ Open(h)
  /\ handle' = [handle EXCEPT ![h].active = FALSE, ![h].state = "closing"]
  /\ closing' = <<h>> \o closing
  /\ IF h \in Timers
     THEN heap' = Without(heap, h) /\ left' = [left EXCEPT ![h] = 0] /\ UNCHANGED <<queue, visiting>>
     ELSE Unlink(h) /\ UNCHANGED <<heap, left>>
  /\ UNCHANGED <<repeat, batch, asyncVars, lag, poll, runVars, served, fresh>>

\* Handle_ref_set
SetRef(h, ref) ==
  /\ InPython /\ handle[h].state \in {"open", "closing"}
  /\ handle' = [handle EXCEPT ![h].ref = ref]
  /\ UNCHANGED <<timerVars, listVars, asyncVars, lag, poll, runVars, served, fresh>>

\* Loop_func_stop
Stop ==
  /\ InPython /\ stopFlag' = TRUE
  /\ UNCHANGED <<handle, timerVars, listVars, asyncVars, lag, poll, at, mode, cb, ran, served, fresh>>

\* Loop_func_update_time
UpdateLoopTime ==
  /\ InPython /\ UpdateTime
  /\ UNCHANGED <<handle, listVars, asyncVars, poll, runVars, served, fresh>>

-----------------------------------------------------------------------------
(* Async.send(): only the thread that sets pending writes the eventfd.     *)

\* Async_func_send and uv_async_send
Send(s, a) ==
  /\ GilFree /\ Open(a) /\ ~pending[a]
  /\ pending' = [pending EXCEPT ![a] = TRUE]
  /\ sender' = [sender EXCEPT ![s] = "write"]
  /\ UNCHANGED <<handle, timerVars, listVars, eventfd, lag, poll, runVars, served, fresh>>

\* uv__async_send
WriteEventfd(s) ==
  /\ sender[s] = "write"
  /\ eventfd' = TRUE /\ sender' = [sender EXCEPT ![s] = "idle"]
  /\ UNCHANGED <<handle, timerVars, listVars, pending, lag, poll, runVars, served, fresh>>

-----------------------------------------------------------------------------
(* uv_run.                                                                 *)

HasActive == \E h \in Handles : handle[h].active /\ handle[h].ref

\* uv__loop_alive
Alive == HasActive \/ closing # <<>>

\* Takes the whole queue of the phase: what is started meanwhile has to wait.
Begin(phase) ==
  /\ at' = phase
  /\ visiting' = queue[phase] /\ queue' = [queue EXCEPT ![phase] = <<>>]

BeginIteration ==
  /\ UpdateTime /\ at' = "timers" /\ served' = {} /\ fresh' = {}
  /\ UNCHANGED stopFlag

\* uv_run returns; what belongs to the run is forgotten.
Leave ==
  /\ at' = "out" /\ stopFlag' = FALSE /\ mode' = "default"
  /\ served' = {} /\ fresh' = {} /\ ran' = FALSE

\* Loop_func_run, to the first iteration or the end of uv_run.
Run(m) ==
  /\ at = "out" /\ GilFree
  /\ \/ Alive /\ ~stopFlag /\ BeginIteration /\ mode' = m /\ ran' = FALSE
     \/ ~Alive /\ UpdateTime /\ Leave
     \/ Alive /\ stopFlag /\ Leave /\ UNCHANGED <<timerVars, lag>>
  /\ UNCHANGED <<handle, listVars, asyncVars, poll, cb>>

Between(phase) == at = phase /\ cb = NoHandle

\* uv__run_timers: the first timer, if due, is stopped, restarted if it repeats, and called.
FireTimer(t) ==
  /\ (Between("timers") \/ Between("lastTimers"))
  /\ heap # <<>> /\ t = Head(heap) /\ left[t] = 0
  /\ IF repeat[t] > 0
     THEN Restarted(Tail(heap), t, repeat[t]) /\ UNCHANGED handle
     ELSE /\ heap' = Tail(heap) /\ UNCHANGED left
          /\ handle' = [handle EXCEPT ![t].active = FALSE]
  /\ cb' = t /\ ran' = TRUE
  /\ UNCHANGED <<repeat, listVars, asyncVars, lag, poll, at, mode, stopFlag, served, fresh>>

NoneDue == heap # <<>> => left[Head(heap)] > 0

\* Leaves timers that are due to a later iteration.
WrongTimersDone ==
  /\ Between("timers") /\ Begin("idle")
  /\ UNCHANGED <<handle, timerVars, closing, batch, asyncVars, lag, poll, mode, stopFlag, cb, ran,
                 served, fresh>>

TimersDone ==
  /\ Between("timers") /\ NoneDue /\ Begin("idle")
  /\ UNCHANGED <<handle, timerVars, closing, batch, asyncVars, lag, poll, mode, stopFlag, cb, ran,
                 served, fresh>>

\* uv__run_idle and its twins: the next watcher goes back to the queue and is called.
FireWatcher(h) ==
  /\ visiting # <<>> /\ h = Head(visiting)
  /\ Between(KindOf(h))
  /\ visiting' = Tail(visiting)
  /\ queue' = [queue EXCEPT ![KindOf(h)] = Append(@, h)]
  /\ served' = served \cup {h} /\ cb' = h /\ ran' = TRUE
  /\ UNCHANGED <<handle, timerVars, closing, batch, asyncVars, lag, poll, at, mode, stopFlag, fresh>>

\* pyuv__idle_cb, pyuv__prepare_cb, pyuv__check_cb
IdleCb(h) == h \in Idles /\ FireWatcher(h)
PrepareCb(h) == h \in Prepares /\ FireWatcher(h)
CheckCb(h) == h \in Checks /\ FireWatcher(h)

IdleDone ==
  /\ Between("idle") /\ visiting = <<>> /\ Begin("prepare")
  /\ UNCHANGED <<handle, timerVars, closing, batch, asyncVars, lag, poll, mode, stopFlag, cb, ran,
                 served, fresh>>

PrepareDone ==
  /\ Between("prepare") /\ visiting = <<>> /\ at' = "poll"
  /\ UNCHANGED <<handle, timerVars, listVars, asyncVars, lag, poll, mode, stopFlag, cb, ran,
                 served, fresh>>

\* uv__next_timeout
NextTimeout == IF heap = <<>> THEN -1 ELSE left[Head(heap)]

\* Knows of timers only.
WrongBackendTimeout == IF stopFlag \/ ~HasActive THEN 0 ELSE NextTimeout

\* uv_backend_timeout, which is also Loop_func_get_timeout; -1 is no timeout.
BackendTimeout ==
  IF stopFlag \/ ~HasActive \/ queue["idle"] # <<>> \/ closing # <<>> THEN 0 ELSE NextTimeout

-----------------------------------------------------------------------------
(* uv__io_poll: the only descriptor it watches here is the eventfd.        *)

EnterPoll ==
  /\ at = "poll" /\ at' = "blocked"
  /\ LET timeout == IF mode = "nowait" THEN 0 ELSE BackendTimeout
     IN  poll' = [timeout |-> timeout, wait |-> IF timeout > 0 THEN timeout ELSE 0,
                  real |-> timeout, since |-> 0]
  /\ UNCHANGED <<handle, timerVars, listVars, asyncVars, lag, mode, stopFlag, cb, ran, served, fresh>>

ReturnFromPoll(phase) == Begin(phase) /\ poll' = NoPoll

\* Waits for the whole timeout again.
WrongPollAgain ==
  IF poll.real <= lag THEN ReturnFromPoll("check")
  ELSE poll' = [poll EXCEPT !.wait = poll.timeout] /\ UNCHANGED <<at, queue, visiting>>

\* The label update_timeout: waits for what is left.  base is never moved, so the
\* time before an earlier interrupt is taken off once more.
PollAgain ==
  LET elapsed == Capped(poll.since + lag)
      real == poll.real - elapsed
  IN  IF real <= 0 THEN ReturnFromPoll("check")
      ELSE /\ poll' = [timeout |-> real, wait |-> real, real |-> real, since |-> elapsed]
           /\ UNCHANGED <<at, queue, visiting>>

PollTimeout ==
  /\ at = "blocked" /\ ~eventfd /\ poll.timeout # -1 /\ poll.wait = 0
  /\ UpdateTime
  /\ IF poll.timeout = 0 THEN ReturnFromPoll("check") ELSE PollAgain
  /\ UNCHANGED <<handle, closing, batch, asyncVars, mode, stopFlag, cb, ran, served, fresh>>

\* EINTR
Interrupt ==
  /\ Signals /\ at = "blocked" /\ ~eventfd /\ poll.timeout # 0
  /\ UpdateTime
  /\ IF poll.timeout = -1 THEN UNCHANGED <<poll, at, queue, visiting>> ELSE PollAgain
  /\ UNCHANGED <<handle, closing, batch, asyncVars, mode, stopFlag, cb, ran, served, fresh>>

\* uv__async_io reads the eventfd before it looks at any async.
PollEvents ==
  /\ at = "blocked" /\ eventfd
  /\ eventfd' = FALSE
  /\ UpdateTime /\ ReturnFromPoll("async")
  /\ UNCHANGED <<handle, closing, batch, pending, sender, mode, stopFlag, cb, ran, served, fresh>>

\* Reads the eventfd for every async.
WrongFireAsync(a) ==
  /\ Between("async") /\ visiting # <<>> /\ a = Head(visiting)
  /\ visiting' = Tail(visiting)
  /\ queue' = [queue EXCEPT !["async"] = Append(@, a)]
  /\ IF pending[a] THEN pending' = [pending EXCEPT ![a] = FALSE] /\ cb' = a /\ ran' = TRUE
     ELSE UNCHANGED <<pending, cb, ran>>
  /\ eventfd' = FALSE
  /\ UNCHANGED <<handle, timerVars, closing, batch, sender, lag, poll, at, mode,
                 stopFlag, served, fresh>>

\* uv__async_io for the next async, and pyuv__async_cb if it is pending.
FireAsync(a) ==
  /\ Between("async") /\ visiting # <<>> /\ a = Head(visiting)
  /\ visiting' = Tail(visiting)
  /\ queue' = [queue EXCEPT !["async"] = Append(@, a)]
  /\ IF pending[a] THEN pending' = [pending EXCEPT ![a] = FALSE] /\ cb' = a /\ ran' = TRUE
     ELSE UNCHANGED <<pending, cb, ran>>
  /\ UNCHANGED <<handle, timerVars, closing, batch, eventfd, sender, lag, poll, at, mode,
                 stopFlag, served, fresh>>

\* Reads the eventfd after it has looked at the asyncs.
WrongAsyncDone ==
  /\ Between("async") /\ visiting = <<>> /\ Begin("check") /\ eventfd' = FALSE
  /\ UNCHANGED <<handle, timerVars, closing, batch, pending, sender, lag, poll, mode, stopFlag, cb, ran,
                 served, fresh>>

AsyncDone ==
  /\ Between("async") /\ visiting = <<>> /\ Begin("check")
  /\ UNCHANGED <<handle, timerVars, closing, batch, asyncVars, lag, poll, mode, stopFlag, cb, ran,
                 served, fresh>>

-----------------------------------------------------------------------------
(* After the poll.                                                         *)

CheckDone ==
  /\ Between("check") /\ visiting = <<>> /\ at' = "closing"
  /\ batch' = closing /\ closing' = <<>>
  /\ UNCHANGED <<handle, timerVars, queue, visiting, asyncVars, lag, poll, mode, stopFlag, cb, ran,
                 served, fresh>>

\* Empties the list after the callbacks instead of before them.
WrongFinishClose(h) ==
  /\ Between("closing") /\ batch # <<>> /\ h = Head(batch)
  /\ batch' = Tail(batch) /\ handle' = [handle EXCEPT ![h] = NoUv]
  /\ cb' \in {h, NoHandle} /\ ran' = TRUE /\ closing' = <<>>
  /\ UNCHANGED <<timerVars, queue, visiting, asyncVars, lag, poll, at, mode, stopFlag, served, fresh>>

\* uv__finish_close, and the close callback if close() was given one.
FinishClose(h) ==
  /\ Between("closing") /\ batch # <<>> /\ h = Head(batch)
  /\ batch' = Tail(batch) /\ handle' = [handle EXCEPT ![h] = NoUv]
  /\ cb' \in {h, NoHandle} /\ ran' = TRUE
  /\ UNCHANGED <<timerVars, queue, visiting, closing, asyncVars, lag, poll, at, mode, stopFlag,
                 served, fresh>>

\* In the default mode, looks at the stop flag only if nothing is alive.
WrongIterationDone ==
  /\ Between("closing") /\ batch = <<>>
  /\ \/ /\ mode = "once" /\ UpdateTime /\ at' = "lastTimers"
        /\ UNCHANGED <<mode, stopFlag, ran, served, fresh>>
     \/ mode = "default" /\ Alive /\ BeginIteration /\ UNCHANGED <<mode, ran>>
     \/ /\ mode = "nowait" \/ (mode = "default" /\ ~Alive)
        /\ Leave /\ UNCHANGED <<timerVars, lag>>
  /\ UNCHANGED <<handle, listVars, asyncVars, poll, cb>>

\* The end of an iteration.
IterationDone ==
  /\ Between("closing") /\ batch = <<>>
  /\ \/ /\ mode = "once" /\ UpdateTime /\ at' = "lastTimers"
        /\ UNCHANGED <<mode, stopFlag, ran, served, fresh>>
     \/ mode = "default" /\ Alive /\ ~stopFlag /\ BeginIteration /\ UNCHANGED <<mode, ran>>
     \/ /\ mode = "nowait" \/ (mode = "default" /\ (~Alive \/ stopFlag))
        /\ Leave /\ UNCHANGED <<timerVars, lag>>
  /\ UNCHANGED <<handle, listVars, asyncVars, poll, cb>>

LastTimersDone ==
  /\ Between("lastTimers") /\ NoneDue /\ Leave
  /\ UNCHANGED <<handle, timerVars, listVars, asyncVars, lag, poll, cb>>

\* A callback returns to uv_run.
LeaveCallback ==
  /\ cb # NoHandle /\ GilFree /\ cb' = NoHandle
  /\ UNCHANGED <<handle, timerVars, listVars, asyncVars, lag, poll, at, mode, stopFlag, ran,
                 served, fresh>>

-----------------------------------------------------------------------------

CallHandle ==
  \/ \E h \in Handles : InitHandle(h) \/ Close(h)
  \/ \E h \in Reffed, ref \in BOOLEAN : SetRef(h, ref)
  \/ \E a \in Asyncs : InitAsync(a)

CallTimer ==
  \E t \in Timers :
    \/ \E timeout, rep \in Timeouts : StartTimer(t, timeout, rep)
    \/ \E rep \in Timeouts : SetRepeat(t, rep)
    \/ StopTimer(t) \/ Again(t)

CallWatcher ==
  \/ \E h \in Idles : StartIdle(h) \/ StopIdle(h)
  \/ \E h \in Prepares : StartPrepare(h) \/ StopPrepare(h)
  \/ \E h \in Checks : StartCheck(h) \/ StopCheck(h)

CallLoop == Stop \/ UpdateLoopTime \/ \E m \in Modes : Run(m)

LoopStep ==
  \/ \E t \in Timers : FireTimer(t)
  \/ \E h \in Watchers : IdleCb(h) \/ PrepareCb(h) \/ CheckCb(h)
  \/ \E a \in Asyncs : FireAsync(a)
  \/ \E h \in Handles : FinishClose(h)
  \/ TimersDone \/ IdleDone \/ PrepareDone \/ EnterPoll \/ PollTimeout \/ PollEvents
  \/ AsyncDone \/ CheckDone \/ IterationDone \/ LastTimersDone

Next ==
  \/ CallHandle \/ CallTimer \/ CallWatcher \/ CallLoop
  \/ \E s \in Senders, a \in Asyncs : Send(s, a)
  \/ \E s \in Senders : WriteEventfd(s)
  \/ LoopStep \/ Interrupt \/ LeaveCallback \/ Tick

Spec == Init /\ [][Next]_vars

\* The loop thread is scheduled, callbacks return and get the interpreter lock
\* back now and then, the clock goes on, and the write of send() ends.
FairSpec ==
  /\ Spec
  /\ WF_vars(LoopStep) /\ SF_vars(LeaveCallback) /\ WF_vars(Tick)
  /\ \A s \in Senders : WF_vars(WriteEventfd(s))

-----------------------------------------------------------------------------
(* Properties.                                                             *)

HandleType ==
  [state : {"absent", "none", "open", "closing"}, active : BOOLEAN, ref : BOOLEAN, hasCb : BOOLEAN]

\* Every variable keeps its type.
TypeOK ==
  /\ handle \in [Handles -> HandleType]
  /\ left \in [Timers -> 0..MaxTimeout] /\ repeat \in [Timers -> 0..MaxTimeout]
  /\ heap \in Seq(Timers) /\ queue \in [Kinds -> Seq(Handles)]
  /\ visiting \in Seq(Handles) /\ closing \in Seq(Handles) /\ batch \in Seq(Handles)
  /\ pending \in [Asyncs -> BOOLEAN] /\ eventfd \in BOOLEAN
  /\ sender \in [Senders -> {"idle", "write"}]
  /\ lag \in 0..MaxTimeout
  /\ poll \in [timeout : -1..MaxTimeout, wait : 0..MaxTimeout, real : -1..MaxTimeout,
               since : 0..MaxTimeout]
  /\ at \in Places /\ mode \in {"default"} \cup Modes /\ stopFlag \in BOOLEAN
  /\ cb \in Handles \cup {NoHandle}
  /\ served \subseteq Watchers /\ fresh \subseteq Watchers /\ ran \in BOOLEAN

Elements(s) == {s[i] : i \in DOMAIN s}

\* The heap holds the active timers, each once, the next due first, whatever
\* start(), again(), stop(), close() and uv__run_timers did to it and to each other.
HeapExact ==
  /\ Elements(heap) = {t \in Timers : handle[t].active} /\ Once(heap)
  /\ \A i \in 1..Len(heap) - 1 : left[heap[i]] <= left[heap[i + 1]]

\* An active watcher or async is linked in one queue, its loop queue or the one
\* being visited, and once; one that is stopped or closed is in none, also when a
\* callback of the same phase stops or closes it.
QueuesExact ==
  LET linked == queue["idle"] \o queue["prepare"] \o queue["check"] \o queue["async"] \o visiting
  IN  /\ Elements(linked) = {h \in Watchers \cup Asyncs : handle[h].active} /\ Once(linked)
      /\ \A k \in Kinds : \A h \in Elements(queue[k]) : KindOf(h) = k
      /\ \A h \in Elements(visiting) : at = KindOf(h)

\* Idle, Prepare and Check handles are called once per iteration (docs/idle.rst:17,
\* prepare.rst:19, check.rst:19), even one that stops and starts itself.
CalledOncePerIteration == [][cb' # cb /\ cb' \in Watchers /\ at # "closing" => cb' \notin served]_vars

\* An iteration reaches the poll only after the call of every idle and prepare
\* handle active since it began, and the closing callbacks only after the
\* checks'; stopping or starting some does not make it skip others.
CalledEveryIteration ==
  /\ at \in {"poll", "blocked"} =>
       \A h \in Idles \cup Prepares : handle[h].active /\ h \notin fresh => h \in served
  /\ at = "closing" => \A h \in Checks : handle[h].active /\ h \notin fresh => h \in served

\* The loop waits in the poll only when nothing else is to be done: not after
\* stop() (docs/loop.rst:39), with an active idle (docs/idle.rst:22) or with a
\* handle to close, and only for ever when no timer is to be called.
WaitsOnlyWhenIdle ==
  at = "blocked" /\ poll.timeout # 0 =>
    /\ ~stopFlag /\ mode # "nowait" /\ closing = <<>>
    /\ \A h \in Idles : ~handle[h].active
    /\ poll.timeout = -1 => \A t \in Timers : ~handle[t].active

\* The loop does not sleep through a timer: what it still waits and what it has
\* slept by its own clock is never more than the time to any timer.
SleepsNoLongerThanTimers ==
  at = "blocked" => \A t \in Timers : handle[t].active => poll.wait <= left[t]

\* A send is never forgotten: while the async is pending the loop will be woken, or
\* is on its way to it, though the sends between the write and the read of the
\* eventfd are merged.
NoLostSend ==
  \A a \in Asyncs :
    pending[a] /\ Open(a) =>
      \/ eventfd \/ \E s \in Senders : sender[s] = "write"
      \/ at = "async" /\ In(visiting, a)

\* A handle is on the way to its close callback once, and no closing handle is left behind.
ClosesExact ==
  LET list == closing \o batch
  IN  Elements(list) = {h \in Handles : handle[h].state = "closing"} /\ Once(list)

\* The heap never misleads uv_run about time: it is exact, and so is the sleep.
TimersExact == HeapExact /\ SleepsNoLongerThanTimers

\* Every list uv_run walks while callbacks change it holds what it should, once.
ListsExact == QueuesExact /\ ClosesExact

\* An iteration does its work, all the idle, prepare and check callbacks, and
\* waits only when there is none left.
IterationExact == CalledEveryIteration /\ WaitsOnlyWhenIdle

InTimers == at \in {"timers", "lastTimers"}

\* stop() makes run() return, unless the timers due never come to an end (a
\* timer that starts itself with no timeout is due again at once).
StopReturns == []<>~InTimers => (stopFlag /\ at # "out" ~> at = "out")

\* Async.send() from any thread leads to the callback, or the async is closed,
\* as long as the loop goes on polling.
SendServed ==
  []<>(at = "blocked") => \A a \in Asyncs : pending[a] /\ Open(a) ~> cb = a \/ ~Open(a)

\* A timer that is due is called, stopped or started again, as long as the loop
\* goes on polling.
DueTimerCalled ==
  []<>(at = "blocked") =>
    \A t \in Timers : handle[t].active /\ left[t] = 0 ~> cb = t \/ ~handle[t].active \/ left[t] > 0

\* What the program waits for comes: run() returns after stop(), sends and due
\* timers lead to callbacks.
LoopProgress == StopReturns /\ SendServed /\ DueTimerCalled

\* "at least one callback must have been invoked when it returns" (the comment in
\* uv_run, deps/libuv/src/unix/core.c:367, on UV_RUN_ONCE).
RunOnceProgress == [][at = "lastTimers" /\ at' = "out" => ran]_vars

\* "if a handle is ref'd it will maintain the loop alive even if not active"
\* (docs/refcount.rst:22).
RefdKeepsAlive ==
  [][at # "out" /\ at' = "out" /\ mode = "default" /\ ~stopFlag
       => \A h \in Handles : ~(Open(h) /\ handle[h].ref)]_vars
=============================================================================
