--------------------------- MODULE HandleLifecycle ---------------------------
(***************************************************************************)
(* The life of pyuv handles: the Python object (src/handle.c and the      *)
(* start/stop/callback functions of timer.c, idle.c, prepare.c, check.c    *)
(* and async.c) around the libuv handle embedded in it (deps/libuv), and   *)
(* the Loop object they hang on.                                           *)
(*                                                                         *)
(* A handle's memory belongs to CPython's reference counts, its place in   *)
(* the loop's lists belongs to libuv; close(), garbage collection and the  *)
(* loop's closing pass move it between the two.  The module keeps the      *)
(* reference count of every object explicitly, so that an unpaired         *)
(* Py_INCREF or Py_DECREF shows.                                           *)
(*                                                                         *)
(* An operator named Wrong... is the definition after it with a plausible  *)
(* mistake; no action uses it.  It documents which property notices.       *)
(***************************************************************************)
EXTENDS Integers, FiniteSets, Sequences

CONSTANTS
  Timers,       \* Timer handles
  Watchers,     \* Idle, Prepare and Check handles
  Asyncs,       \* Async handles
  NoHandle,     \* stands for the absence of a handle
  MaxUserRefs,  \* bound: references Python variables hold on one handle
  DefaultLoop,  \* TRUE: the loop is Loop.default_loop(), kept by a static
  Cycles,       \* TRUE: handles may be put into reference cycles
  DueInPass     \* TRUE: a timer may become due during the pass over the timers,
                \* by a timeout of 0 or by Loop.update_time()

Handles == Timers \cup Watchers \cup Asyncs

ASSUME ConstantsAssumption ==
  /\ Timers \cap Watchers = {} /\ Timers \cap Asyncs = {}
  /\ Watchers \cap Asyncs = {}
  /\ IsFiniteSet(Handles)
  /\ NoHandle \notin Handles
  /\ MaxUserRefs \in Nat \ {0}
  /\ DefaultLoop \in BOOLEAN /\ Cycles \in BOOLEAN /\ DueInPass \in BOOLEAN

VARIABLES
  obj,       \* the Python object of each handle
  uv,        \* the uv_handle_t inside it
  loop,      \* the Loop object and the uv_loop_t inside it
  batch,     \* the list uv__run_closing_handles() is working through
  phase,     \* where uv_run() is, "out" when it is not running
  cb,        \* the Python callback being executed
  closeRuns  \* how often pyuv__handle_close_cb ran for each handle

vars == <<obj, uv, loop, batch, phase, cb, closeRuns>>

NoCall == [kind |-> "none", handle |-> NoHandle]

Object ==
  [mem : {"absent", "live", "freed"}, refcnt : Nat, users : 0..MaxUserRefs,
   cycle : BOOLEAN, initialized : BOOLEAN, pyref : BOOLEAN,
   loop : {"null", "loop", "None"}, onClose : {"null", "None", "callable"}]

UvHandle ==
  [state : {"zeroed", "open", "closing", "closed"}, active : BOOLEAN,
   ref : BOOLEAN, closeCb : {"none", "user", "dealloc"}, hasCb : BOOLEAN,
   repeat : BOOLEAN, pending : BOOLEAN]

\* active: loop->active_handles.  closing: loop->closing_handles, newest
\* first.  todo: the handles the current phase has still to visit.
LoopObject ==
  [mem : {"live", "freed"}, refcnt : Int, users : 0..1, active : Int,
   closing : Seq(Handles), todo : SUBSET Handles]

Phases == {"out", "timers", "watchers", "poll", "closing", "lastTimers"}

Init ==
  /\ obj = [h \in Handles |->
       [mem |-> "absent", refcnt |-> 0, users |-> 0, cycle |-> FALSE,
        initialized |-> FALSE, pyref |-> FALSE, loop |-> "null", onClose |-> "null"]]
  /\ uv = [h \in Handles |->
       [state |-> "zeroed", active |-> FALSE, ref |-> FALSE, closeCb |-> "none",
        hasCb |-> FALSE, repeat |-> FALSE, pending |-> FALSE]]
  /\ loop = [mem |-> "live", refcnt |-> IF DefaultLoop THEN 2 ELSE 1, users |-> 1,
             active |-> 0, closing |-> <<>>, todo |-> {}]
  /\ batch = <<>>
  /\ phase = "out"
  /\ cb = NoCall
  /\ closeRuns = [h \in Handles |-> 0]

-----------------------------------------------------------------------------
(* What a step does to one handle is written as a function on views: the   *)
(* handle's object (o), its uv_handle_t (u) and the loop (l).              *)

View(h) == [o |-> obj[h], u |-> uv[h], l |-> loop]

Commit(h, v) ==
  /\ obj' = [obj EXCEPT ![h] = v.o]
  /\ uv' = [uv EXCEPT ![h] = v.u]
  /\ loop' = v.l

Counted(u) == u.active /\ u.ref

\* Counts without looking at what the flags were.
WrongSetFlags(v, u) ==
  [v EXCEPT !.u = u, !.l.active = IF Counted(u) THEN @ + 1 ELSE @ - 1]

\* uv__handle_start, uv__handle_stop, uv__handle_ref and uv__handle_unref:
\* the flags change and the loop counts the handles that are active and ref'd.
SetFlags(v, u) ==
  [v EXCEPT !.u = u,
            !.l.active = IF Counted(v.u) = Counted(u) THEN @
                         ELSE IF Counted(u) THEN @ + 1 ELSE @ - 1]

UvStart(v) == SetFlags(v, [v.u EXCEPT !.active = TRUE])

\* Leaves the handle in the list being visited.
WrongUvStop(h, v) == SetFlags(v, [v.u EXCEPT !.active = FALSE])

\* uv_timer_stop, uv_idle_stop, ...: also leaves the list being visited.
UvStop(h, v) ==
  [SetFlags(v, [v.u EXCEPT !.active = FALSE]) EXCEPT !.l.todo = @ \ {h}]

\* uv_close: stop the handle and put it at the head of closing_handles.
UvClose(h, v, closeCb) ==
  [UvStop(h, v) EXCEPT !.u.state = "closing", !.u.closeCb = closeCb,
                       !.l.closing = <<h>> \o @]

\* Py_DECREF(loop): Loop_tp_dealloc frees the memory whatever
\* uv_loop_close() answers.
LoopDecref(l) ==
  [l EXCEPT !.refcnt = @ - 1, !.mem = IF l.refcnt = 1 THEN "freed" ELSE @]

\* Forgets the Py_DECREF(self->loop).
WrongDropLoop(v, pointer) == [v EXCEPT !.o.loop = pointer]

\* Dropping self->loop: Py_CLEAR in Handle_tp_clear, Py_DECREF in the close callback.
DropLoop(v, pointer) ==
  [v EXCEPT !.o.loop = pointer,
            !.l = IF v.o.loop = "loop" THEN LoopDecref(v.l) ELSE v.l]

Closing(u) == u.state \in {"closing", "closed"}

\* Closes the handle only if it is active.
WrongDealloc(h, v) ==
  IF v.o.initialized /\ v.u.active
  THEN [UvClose(h, v, "dealloc") EXCEPT !.o.refcnt = 1]
  ELSE [DropLoop(v, "null") EXCEPT !.o.refcnt = 0, !.o.mem = "freed", !.o.onClose = "null"]

\* Handle_tp_dealloc: an initialized handle that is not closing is closed and
\* resurrected with the one reference its close callback will drop; any other
\* is cleared and its memory freed.
Dealloc(h, v) ==
  IF v.o.initialized /\ ~Closing(v.u)
  THEN [UvClose(h, v, "dealloc") EXCEPT !.o.refcnt = 1]
  ELSE [DropLoop(v, "null") EXCEPT !.o.refcnt = 0, !.o.mem = "freed", !.o.onClose = "null"]

\* Py_DECREF(self)
Decref(h, v) ==
  IF v.o.refcnt = 1 THEN Dealloc(h, v) ELSE [v EXCEPT !.o.refcnt = @ - 1]

Incref(v) == [v EXCEPT !.o.refcnt = @ + 1]

\* Without looking at the flag.
WrongHandleIncref(v) == Incref([v EXCEPT !.o.pyref = TRUE])

\* PYUV_HANDLE_INCREF and PYUV_HANDLE_DECREF: at most one self-reference,
\* remembered in self->flags.
HandleIncref(v) == IF v.o.pyref THEN v ELSE Incref([v EXCEPT !.o.pyref = TRUE])

WrongHandleDecref(h, v) == Decref(h, [v EXCEPT !.o.pyref = FALSE])

HandleDecref(h, v) ==
  IF v.o.pyref THEN Decref(h, [v EXCEPT !.o.pyref = FALSE]) ELSE v

-----------------------------------------------------------------------------
(* What Python code does, at top level or inside a callback.               *)

PythonRuns == phase = "out" \/ cb.kind # "none"

\* Python code can name h: a variable holds it, or it is the argument of the
\* running callback.
Reachable(h) == obj[h].users > 0 \/ cb.handle = h

\* Without RAISE_IF_HANDLE_CLOSED.
WrongUsable(h) == PythonRuns /\ Reachable(h) /\ obj[h].initialized /\ uv[h].state # "closed"

\* RAISE_IF_HANDLE_NOT_INITIALIZED and RAISE_IF_HANDLE_CLOSED let the call through.
Usable(h) == PythonRuns /\ Reachable(h) /\ obj[h].initialized /\ ~Closing(uv[h])

control == <<batch, phase, cb, closeRuns>>

\* Handle_tp_new: the object exists, __init__ has not run.
New(h) ==
  /\ PythonRuns
  /\ obj[h].mem = "absent"
  /\ obj' = [obj EXCEPT ![h].mem = "live", ![h].refcnt = 1, ![h].users = 1]
  /\ UNCHANGED <<uv, loop, control>>

\* initialize_handle without Py_INCREF(loop).
WrongInitHandle(h, callback) ==
  /\ PythonRuns /\ Reachable(h) /\ loop.users > 0
  /\ ~obj[h].initialized
  /\ callback => h \in Asyncs
  /\ Commit(h, [o |-> [obj[h] EXCEPT !.initialized = TRUE, !.loop = "loop"],
                u |-> [uv[h] EXCEPT !.state = "open", !.ref = TRUE, !.hasCb = callback],
                l |-> loop])
  /\ UNCHANGED control

\* Timer_tp_init, Idle_tp_init, ..., Async_tp_init: uv__handle_init, then
\* initialize_handle.  An Async is active from the start and may have no callback.
InitHandle(h, callback) ==
  /\ PythonRuns /\ Reachable(h) /\ loop.users > 0
  /\ ~obj[h].initialized
  /\ callback => h \in Asyncs
  /\ LET ready ==
           [o |-> [obj[h] EXCEPT !.initialized = TRUE, !.pyref = FALSE, !.loop = "loop"],
            u |-> [uv[h] EXCEPT !.state = "open", !.ref = TRUE, !.hasCb = callback],
            l |-> [loop EXCEPT !.refcnt = @ + 1]]
     IN  Commit(h, IF h \in Asyncs THEN UvStart(ready) ELSE ready)
  /\ UNCHANGED control

InTimersPass == phase \in {"timers", "lastTimers"}

\* Timer_func_start: a running timer is restarted; one that is due at once
\* joins the timers pass that is running.
StartTimer(t, repeat, zero) ==
  /\ Usable(t)
  /\ zero => DueInPass
  /\ LET started == [UvStart(UvStop(t, View(t))) EXCEPT
                        !.u = [@ EXCEPT !.hasCb = TRUE, !.repeat = repeat]]
         due == IF zero /\ InTimersPass THEN {t} ELSE {}
     IN  Commit(t, HandleIncref([started EXCEPT !.l.todo = @ \cup due]))
  /\ UNCHANGED control

\* Without PYUV_HANDLE_INCREF.
WrongStartWatcher(w) ==
  /\ Usable(w)
  /\ Commit(w, UvStart(View(w)))
  /\ UNCHANGED control

\* Idle_func_start and its twins in prepare.c and check.c: a watcher started
\* during its phase joins the loop's queue, not the one being visited.
StartWatcher(w) ==
  /\ Usable(w)
  /\ Commit(w, HandleIncref(UvStart(View(w))))
  /\ UNCHANGED control

\* Timer_func_stop, Idle_func_stop, ...
Stop(h) ==
  /\ Usable(h) /\ h \notin Asyncs
  /\ Commit(h, HandleDecref(h, UvStop(h, View(h))))
  /\ UNCHANGED control

\* Without RAISE_IF_HANDLE_CLOSED.
WrongAgain(t) ==
  /\ PythonRuns /\ Reachable(t)
  /\ uv[t].hasCb /\ uv[t].repeat
  /\ Commit(t, UvStart(UvStop(t, View(t))))
  /\ UNCHANGED control

\* Timer_func_again: restarts a repeating timer, without a self-reference.
Again(t) ==
  /\ Usable(t)
  /\ uv[t].hasCb /\ uv[t].repeat
  /\ Commit(t, UvStart(UvStop(t, View(t))))
  /\ UNCHANGED control

\* Timer_repeat_set
SetRepeat(t, repeat) ==
  /\ PythonRuns /\ Reachable(t) /\ obj[t].initialized
  /\ uv' = [uv EXCEPT ![t].repeat = repeat]
  /\ UNCHANGED <<obj, loop, control>>

\* Handle_ref_set makes no check at all: the handle may be closed or raw.
SetRef(h, ref) ==
  /\ PythonRuns /\ Reachable(h)
  /\ Commit(h, SetFlags(View(h), [uv[h] EXCEPT !.ref = ref]))
  /\ UNCHANGED control

\* Loop_func_update_time: a callback that took long finds timers due that were
\* not when the pass began, its own among them if it repeats.
UpdateTime ==
  /\ DueInPass /\ InTimersPass /\ cb.kind # "none" /\ loop.users > 0
  /\ \E due \in SUBSET {t \in Timers : uv[t].active} :
       loop' = [loop EXCEPT !.todo = @ \cup due]
  /\ UNCHANGED <<obj, uv, control>>

\* Async_func_send, from any thread that holds the interpreter lock.
Send(a) ==
  /\ Reachable(a) /\ obj[a].initialized /\ ~Closing(uv[a])
  /\ uv' = [uv EXCEPT ![a].pending = TRUE]
  /\ UNCHANGED <<obj, loop, control>>

\* Drops the loop at once, not after the close callback.
WrongClose(h, callback) ==
  /\ Usable(h)
  /\ Commit(h, DropLoop(UvClose(h, Incref([View(h) EXCEPT !.o.onClose = callback]), "user"), "None"))
  /\ UNCHANGED control

\* Without Py_INCREF(self).
WrongCloseRef(h, callback) ==
  /\ Usable(h)
  /\ Commit(h, UvClose(h, [View(h) EXCEPT !.o.onClose = callback], "user"))
  /\ UNCHANGED control

\* Handle_func_close
Close(h, callback) ==
  /\ Usable(h)
  /\ Commit(h, UvClose(h, Incref([View(h) EXCEPT !.o.onClose = callback]), "user"))
  /\ UNCHANGED control

-----------------------------------------------------------------------------
(* References that Python code takes and drops, and garbage collection.    *)

\* The handles loop.handles returns (uv_walk over handle_queue).
Registered(h) == uv[h].state \in {"open", "closing"}

TakeRef(h) ==
  /\ PythonRuns
  /\ Reachable(h) \/ (loop.users > 0 /\ Registered(h))
  /\ obj[h].users < MaxUserRefs
  /\ obj' = [obj EXCEPT ![h].users = @ + 1, ![h].refcnt = @ + 1]
  /\ UNCHANGED <<uv, loop, control>>

DropRef(h) ==
  /\ PythonRuns /\ obj[h].users > 0
  /\ Commit(h, Decref(h, [View(h) EXCEPT !.o.users = @ - 1]))
  /\ UNCHANGED control

\* The handle's own dict comes to refer back to the handle.
MakeCycle(h) ==
  /\ Cycles /\ PythonRuns /\ Reachable(h) /\ ~obj[h].cycle
  /\ obj' = [obj EXCEPT ![h].cycle = TRUE, ![h].refcnt = @ + 1]
  /\ UNCHANGED <<uv, loop, control>>

\* Another member of the cycle is cleared first, or Python code breaks it.
BreakCycle(h) ==
  /\ PythonRuns /\ obj[h].cycle
  /\ Reachable(h) \/ obj[h].refcnt = 1
  /\ Commit(h, Decref(h, [View(h) EXCEPT !.o.cycle = FALSE]))
  /\ UNCHANGED control

\* The collector clears the handle first: Handle_tp_clear drops on_close_cb,
\* self->loop and the dict, and the dict held the last reference.
Collect(h) ==
  /\ PythonRuns /\ obj[h].cycle /\ obj[h].refcnt = 1
  /\ Commit(h, Decref(h, [DropLoop(View(h), "null") EXCEPT
                             !.o = [@ EXCEPT !.onClose = "null", !.cycle = FALSE]]))
  /\ UNCHANGED control

\* handle.loop, or Loop.default_loop().
TakeLoop ==
  /\ PythonRuns /\ loop.users = 0
  /\ DefaultLoop \/ \E h \in Handles : Reachable(h) /\ obj[h].loop = "loop"
  /\ loop' = [loop EXCEPT !.users = 1, !.refcnt = @ + 1]
  /\ UNCHANGED <<obj, uv, control>>

DropLoopRef ==
  /\ PythonRuns /\ loop.users = 1
  /\ loop' = LoopDecref([loop EXCEPT !.users = 0])
  /\ UNCHANGED <<obj, uv, control>>

-----------------------------------------------------------------------------
(* uv_run, the loop thread.                                                *)

LoopAlive == loop.active > 0 \/ loop.closing # <<>>

BeginTimers(l) ==
  \E due \in SUBSET {t \in Timers : uv[t].active} : loop' = [l EXCEPT !.todo = due]

\* Loop_func_run: the call holds a reference to the loop while it runs.
Run ==
  /\ phase = "out" /\ loop.users > 0 /\ LoopAlive
  /\ BeginTimers([loop EXCEPT !.refcnt = @ + 1])
  /\ phase' = "timers"
  /\ UNCHANGED <<obj, uv, batch, cb, closeRuns>>

\* The phase has visited every handle on its list.
PhaseDone(p) == phase = p /\ cb.kind = "none" /\ loop.todo = {}

RunWatchers ==
  /\ PhaseDone("timers")
  /\ loop' = [loop EXCEPT !.todo = {w \in Watchers : uv[w].active}]
  /\ phase' = "watchers"
  /\ UNCHANGED <<obj, uv, batch, cb, closeRuns>>

Poll ==
  /\ PhaseDone("watchers")
  /\ loop' = [loop EXCEPT !.todo = {a \in Asyncs : uv[a].state = "open"}]
  /\ phase' = "poll"
  /\ UNCHANGED <<obj, uv, batch, cb, closeRuns>>

\* Does not empty closing_handles.
WrongRunClosing ==
  /\ PhaseDone("poll")
  /\ batch' = loop.closing
  /\ phase' = "closing"
  /\ UNCHANGED <<obj, uv, loop, cb, closeRuns>>

\* Loses the handle closed last.
WrongRunClosingLast ==
  /\ PhaseDone("poll")
  /\ batch' = IF loop.closing = <<>> THEN <<>> ELSE Tail(loop.closing)
  /\ loop' = [loop EXCEPT !.closing = <<>>]
  /\ phase' = "closing"
  /\ UNCHANGED <<obj, uv, cb, closeRuns>>

\* uv__run_closing_handles: handles closed from now on wait for the next pass.
RunClosing ==
  /\ PhaseDone("poll")
  /\ batch' = loop.closing
  /\ loop' = [loop EXCEPT !.closing = <<>>]
  /\ phase' = "closing"
  /\ UNCHANGED <<obj, uv, cb, closeRuns>>

\* The closing pass is over: the next iteration, or the extra timers pass of
\* UV_RUN_ONCE.
NextIteration ==
  /\ PhaseDone("closing") /\ batch = <<>>
  /\ \/ LoopAlive /\ phase' = "timers"
     \/ phase' = "lastTimers"
  /\ BeginTimers(loop)
  /\ UNCHANGED <<obj, uv, batch, cb, closeRuns>>

\* uv_run returns: the loop is not alive, or it was stopped, or the mode was
\* UV_RUN_ONCE or UV_RUN_NOWAIT.
Return ==
  /\ PhaseDone("lastTimers") \/ (PhaseDone("closing") /\ batch = <<>>)
  /\ phase' = "out"
  /\ loop' = LoopDecref(loop)
  /\ UNCHANGED <<obj, uv, batch, cb, closeRuns>>

Serve(h, v) == [v EXCEPT !.l.todo = @ \ {h}]

\* Without Py_INCREF(self).
WrongEnterCallback(h, v) ==
  /\ Commit(h, v)
  /\ cb' = [kind |-> "fire", handle |-> h]
  /\ UNCHANGED <<batch, phase, closeRuns>>

\* pyuv__timer_cb, pyuv__idle_cb, pyuv__async_cb, ...: Py_INCREF(self) and
\* call the Python callback.
EnterCallback(h, v) ==
  /\ Commit(h, Incref(v))
  /\ cb' = [kind |-> "fire", handle |-> h]
  /\ UNCHANGED <<batch, phase, closeRuns>>

\* uv__run_timers: stop the timer, start it again if it repeats, call it.
FireTimer(t) ==
  /\ InTimersPass /\ cb.kind = "none" /\ t \in loop.todo
  /\ LET stopped == UvStop(t, View(t))
     IN  EnterCallback(t, IF uv[t].repeat THEN UvStart(stopped) ELSE stopped)

\* uv__run_idle, uv__run_prepare, uv__run_check
FireWatcher(w) ==
  /\ phase = "watchers" /\ cb.kind = "none" /\ w \in loop.todo
  /\ EnterCallback(w, Serve(w, View(w)))

\* uv__async_io: only a pending Async with a callback enters Python.
FireAsync(a) ==
  /\ phase = "poll" /\ cb.kind = "none" /\ a \in loop.todo
  /\ LET seen == [Serve(a, View(a)) EXCEPT !.u.pending = FALSE]
     IN  \/ uv[a].pending /\ uv[a].hasCb /\ EnterCallback(a, seen)
         \/ ~(uv[a].pending /\ uv[a].hasCb) /\ Commit(a, seen) /\ UNCHANGED control

\* The callback returned or raised; then Py_DECREF(self).
LeaveCallback ==
  /\ cb.kind = "fire"
  /\ Commit(cb.handle, Decref(cb.handle, View(cb.handle)))
  /\ cb' = NoCall
  /\ UNCHANGED <<batch, phase, closeRuns>>

\* Without PYUV_HANDLE_DECREF.
WrongEndClose(h, v) ==
  Commit(h, Decref(h, [DropLoop(v, "None") EXCEPT !.o.onClose = "null"]))

\* pyuv__handle_close_cb after the Python callback: forget it and the loop,
\* drop the self-reference of start() and the reference of close().
EndClose(h, v) ==
  LET forgotten == [DropLoop(v, "None") EXCEPT !.o.onClose = "null"]
  IN  Commit(h, Decref(h, HandleDecref(h, forgotten)))

\* uv__finish_close of the next handle, and its close callback up to the call
\* of the Python callback, if there is one.
FinishClose ==
  /\ phase = "closing" /\ cb.kind = "none" /\ batch # <<>>
  /\ batch' = Tail(batch)
  /\ LET h == Head(batch)
         v == SetFlags(View(h), [uv[h] EXCEPT !.state = "closed", !.ref = FALSE])
     IN  \/ /\ uv[h].closeCb = "dealloc"
            /\ Commit(h, Decref(h, v))
            /\ UNCHANGED <<cb, closeRuns>>
         \/ /\ uv[h].closeCb = "user"
            /\ closeRuns' = [closeRuns EXCEPT ![h] = @ + 1]
            /\ IF obj[h].onClose = "callable"
               THEN Commit(h, v) /\ cb' = [kind |-> "close", handle |-> h]
               ELSE EndClose(h, v) /\ UNCHANGED cb
  /\ UNCHANGED phase

LeaveCloseCallback ==
  /\ cb.kind = "close"
  /\ EndClose(cb.handle, View(cb.handle))
  /\ cb' = NoCall
  /\ UNCHANGED <<batch, phase, closeRuns>>

-----------------------------------------------------------------------------

PythonStep ==
  \/ \E h \in Handles :
       \/ New(h) \/ Stop(h) \/ TakeRef(h) \/ DropRef(h)
       \/ MakeCycle(h) \/ BreakCycle(h) \/ Collect(h)
       \/ \E b \in BOOLEAN : InitHandle(h, b) \/ SetRef(h, b)
       \/ \E c \in {"None", "callable"} : Close(h, c)
  \/ \E t \in Timers :
       \/ \E repeat, zero \in BOOLEAN : StartTimer(t, repeat, zero)
       \/ Again(t)
       \/ \E repeat \in BOOLEAN : SetRepeat(t, repeat)
  \/ \E w \in Watchers : StartWatcher(w)
  \/ \E a \in Asyncs : Send(a)
  \/ UpdateTime \/ TakeLoop \/ DropLoopRef

LoopStep ==
  \/ \E t \in Timers : FireTimer(t)
  \/ \E w \in Watchers : FireWatcher(w)
  \/ \E a \in Asyncs : FireAsync(a)
  \/ RunWatchers \/ Poll \/ RunClosing \/ NextIteration \/ Return
  \/ FinishClose

CallbackReturns == LeaveCallback \/ LeaveCloseCallback

Next == PythonStep \/ Run \/ LoopStep \/ CallbackReturns

Spec == Init /\ [][Next]_vars

\* uv_run does not stop by itself in the middle of an iteration, and Python
\* callbacks return.
Fairness == WF_vars(LoopStep) /\ WF_vars(CallbackReturns)

FairSpec == Spec /\ Fairness

-----------------------------------------------------------------------------
(* Properties.                                                             *)

\* Every variable keeps its type; no handle count goes below zero.
TypeOK ==
  /\ obj \in [Handles -> Object]
  /\ uv \in [Handles -> UvHandle]
  /\ loop \in LoopObject
  /\ batch \in Seq(Handles)
  /\ phase \in Phases
  /\ cb \in [kind : {"none", "fire", "close"}, handle : Handles \cup {NoHandle}]
  /\ closeRuns \in [Handles -> Nat]

One(condition) == IF condition THEN 1 ELSE 0

\* The owners of a reference to h: Python variables, the self-reference of
\* start(), a reference cycle, libuv from uv_close to the end of the close
\* callback, and the running callback.
References(h) ==
  obj[h].users + One(obj[h].pyref) + One(obj[h].cycle)
    + One(uv[h].state = "closing" \/ cb = [kind |-> "close", handle |-> h])
    + One(cb = [kind |-> "fire", handle |-> h])

\* Every Py_INCREF of a handle is paired with one Py_DECREF: its reference
\* count is the number of its owners, in every state of the program.
RefcountExact ==
  \A h \in Handles : obj[h].refcnt = IF obj[h].mem = "live" THEN References(h) ELSE 0

InList(h, s) == \E i \in 1..Len(s) : s[i] = h

\* What libuv, a running callback or a Python variable can still follow a
\* pointer to has not been freed by Handle_tp_dealloc.
NoUseAfterFree ==
  \A h \in Handles :
    \/ Registered(h) \/ uv[h].active \/ h \in loop.todo
    \/ InList(h, loop.closing) \/ InList(h, batch)
    \/ cb.handle = h \/ obj[h].users > 0
    => obj[h].mem = "live"

\* uv_loop_t lives in the Loop object: it is not freed while uv_run is in it,
\* a handle is registered with it or Python code holds it, although
\* Loop_tp_dealloc ignores the UV_EBUSY of uv_loop_close.
LoopOutlivesHandles ==
  loop.mem = "freed" =>
    phase = "out" /\ loop.users = 0 /\ \A h \in Handles : ~Registered(h)

\* The references to the Loop object are exactly self->loop of the handles,
\* Python's, the one of the running uv_run and the static default_loop.
LoopRefsExact ==
  loop.refcnt = loop.users + One(phase # "out") + One(DefaultLoop)
                  + Cardinality({h \in Handles : obj[h].loop = "loop"})

\* loop->active_handles, which alone decides whether uv_run goes on, counts
\* the handles that are active and ref'd, through every order of start, stop,
\* ref, unref, again, close and the finish of a close.
ActiveCountExact ==
  loop.active = Cardinality({h \in Handles : Counted(uv[h])})

\* handle_uncaught_exception(self->loop) finds a Loop whenever a callback may
\* raise: self->loop is still set in timer, watcher, async and close callbacks.
ExcepthookFindsLoop ==
  cb.kind # "none" => obj[cb.handle].loop = "loop" /\ loop.mem = "live"

\* The close callback of a handle runs exactly once, and only for handles the
\* program closed itself.
CloseCallbackOnce ==
  \A h \in Handles :
    closeRuns[h] = One(uv[h].state = "closed" /\ uv[h].closeCb = "user")

\* A closed handle that Python code no longer names is freed: neither the
\* reference of start() nor the one of close() outlives the close callback.
ClosedIsReclaimed ==
  \A h \in Handles :
    uv[h].state = "closed" /\ cb.handle # h /\ obj[h].users = 0 /\ ~obj[h].cycle
      => obj[h].mem = "freed"

\* A started watcher is kept alive by its self-reference until stop or close.
StartedIsKept ==
  \A w \in Watchers : uv[w].active => obj[w].pyref /\ obj[w].mem = "live"

Distinct(s) == \A i, j \in 1..Len(s) : s[i] = s[j] => i = j

\* Each handle being closed waits in exactly one place of one of the two
\* closing lists, so that its close callback comes once and does come.
ClosingListed ==
  /\ Distinct(loop.closing) /\ Distinct(batch)
  /\ \A h \in Handles :
       /\ ~(InList(h, loop.closing) /\ InList(h, batch))
       /\ uv[h].state = "closing" <=> InList(h, loop.closing) \/ InList(h, batch)

\* The loop and its handles agree about each other, through any order of start,
\* stop, ref, unref, close and drop: the Loop is not freed under a handle
\* (Loop_tp_dealloc), the count uv_run goes by is exact, a callback that raises
\* finds its Loop (handle_uncaught_exception), no closing handle is lost.
LoopKnowsHandles ==
  LoopOutlivesHandles /\ ActiveCountExact /\ ExcepthookFindsLoop /\ ClosingListed

\* Callbacks enter Python only for a handle that is open and active at that
\* moment: never after stop() or close(), even one called from a callback of
\* the same phase.
FiresOnlyActive ==
  [][cb.kind = "none" /\ cb'.kind = "fire"
       => uv[cb'.handle].active /\ uv[cb'.handle].state = "open"]_vars

\* close() is final: no call makes a closing handle active or open again.
CloseIsFinal ==
  [][\A h \in Handles : Closing(uv[h]) => Closing(uv'[h]) /\ ~uv'[h].active]_vars

\* Handle_tp_dealloc closes a handle only when nothing refers to it: no
\* variable, no running callback, no self-reference of a started handle.
ClosedOnlyOutOfScope ==
  [][\A h \in Handles :
       uv[h].closeCb # "dealloc" /\ uv'[h].closeCb = "dealloc"
         => obj'[h].users = 0 /\ cb'.handle # h /\ ~obj'[h].pyref]_vars

\* The Python object is resurrected "until the close callback is called"
\* (handle.c:236): the loop that has to call it is still there.
ResurrectedUntilClosed ==
  \A h \in Handles : uv[h].state = "closing" => loop.mem = "live"

\* A program that keeps running its loop sees every close complete.  It is stated
\* for ~DueInPass: timers due again and again can keep uv__run_timers from ending.
CloseCompletes ==
  ([]<>(phase # "out")) =>
     \A h \in Handles : uv[h].state = "closing" ~> uv[h].state = "closed"
=============================================================================
