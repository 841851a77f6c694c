------------------------------- MODULE Watchers -------------------------------
(***************************************************************************)
(* The handles that tell of something outside the loop: Poll, Signal,      *)
(* FSEvent, FSPoll, SignalChecker and Process (src/poll.c, signal.c, fs.c, *)
(* util.c, process.c), and the hidden timer of a connection to an abstract *)
(* socket (src/abstract.c).  Each keeps its own account of references;     *)
(* here the counts are explicit, as in HandleLifecycle, and the loop does  *)
(* what deps/libuv/src/unix/signal.c and process.c make of signals and     *)
(* children.                                                               *)
(*                                                                         *)
(* An operator named Wrong... is the definition after it with a plausible  *)
(* mistake; no action uses it.                                             *)
(***************************************************************************)
EXTENDS Integers, Sequences, FiniteSets, Queues

CONSTANTS
  Handles,     \* the handles
  Casts,       \* the functions from Handles to kinds to start from
  None,        \* no handle
  Child,       \* the message of SIGCHLD in the loop's signal pipe
  MaxNames,    \* bound on the Python variables that name one handle
  MaxPipe,     \* the signals caught and not dispatched that the loop's signal pipe has room for
  MaxChecked   \* bound on the signals one SignalChecker is told of

Started == {"poll", "signal", "fsevent", "fspoll", "checker"}
Kinds == Started \cup {"process", "pipe"}

ASSUME WatchersAssumption ==
  /\ IsFiniteSet(Handles) /\ None \notin Handles /\ Child \notin Handles
  /\ Casts \subseteq [Handles -> Kinds \cup {"absent"}]
  /\ MaxNames \in Nat \ {0} /\ MaxPipe \in Nat /\ MaxChecked \in Nat

VARIABLES
  kind,     \* what each handle is
  h,        \* the handles: the Python object and the libuv handle in it
  pipe,     \* loop->signal_pipefd: the signals caught and not dispatched
  watcher,  \* loop->child_watcher is started
  pending,  \* the children uv__chld has waited for, their callbacks to come
  main      \* the callback that runs

vars == <<kind, h, pipe, watcher, pending, main>>

\* owns: the references the C code took for itself and has not given back.
\* pyref: PYUV__PYREF.  spawned: for the exit callback.  timer: for the hidden
\* timer.  closing: for the close callback.  called: for the running callback.
\* loop: self->loop is the Loop.  missed: the child exited and its SIGCHLD is lost.
Owners == {"pyref", "spawned", "timer", "closing", "called"}

Handle == [mem : {"none", "live", "freed"}, refs : 0 .. MaxNames + Cardinality(Owners), names : 0 .. MaxNames, owns : SUBSET Owners,
           state : {"open", "closing", "closed"}, loop : BOOLEAN, user : BOOLEAN, told : BOOLEAN, active : BOOLEAN,
           callback : BOOLEAN, child : {"none", "running", "exited", "missed", "reaped"}, checked : 0 .. MaxChecked]

Calls == {"none", "event", "signal", "reap", "exit", "connected", "close"}

Init ==
  /\ kind \in Casts
  /\ h = [x \in Handles |-> [mem |-> "none", refs |-> 0, names |-> 0, owns |-> {}, state |-> "open",
            loop |-> FALSE, user |-> FALSE, told |-> FALSE, active |-> FALSE, callback |-> FALSE, child |-> "none", checked |-> 0]]
  /\ pipe = <<>> /\ watcher = FALSE /\ pending = <<>>
  /\ main = [call |-> "none", handle |-> None]

-----------------------------------------------------------------------------
(* One handle's record under the macros and functions of src/handle.c.     *)

Take(o, owner) == [o EXCEPT !.refs = @ + 1, !.owns = @ \cup {owner}]

UvClosed(o) == [o EXCEPT !.state = "closing", !.active = FALSE]

\* Py_DECREF and Handle_tp_dealloc: a handle that is not closing is closed and
\* resurrected, any other is freed.  Nothing more happens to freed memory here.
Decref(o) ==
  IF o.mem = "freed" THEN o
  ELSE IF o.refs > 1 THEN [o EXCEPT !.refs = @ - 1]
  ELSE IF o.state = "open" THEN [UvClosed(o) EXCEPT !.refs = 1, !.owns = @ \cup {"closing"}]
  ELSE [o EXCEPT !.refs = 0, !.mem = "freed"]

GiveBack(o, owner) == IF owner \in o.owns THEN Decref([o EXCEPT !.owns = @ \ {owner}]) ELSE o

\* PYUV_HANDLE_INCREF.
HandleIncref(o) == IF "pyref" \in o.owns THEN o ELSE Take(o, "pyref")

-----------------------------------------------------------------------------
(* libuv's children and signals.                                           *)

\* loop->process_handles
Children(hn) == {x \in Handles : hn[x].child \in {"running", "exited", "missed"} /\ hn[x].state = "open"}

\* What a callback or a call of Python leaves of one handle, o, tells libuv
\* that the handle is closed.
Closes(x, o) == o.state # h[x].state

\* The watcher is stopped with any process, not with the last.
WrongWatched(x, o) == watcher /\ ~(Closes(x, o) /\ kind[x] = "process")

\* uv__process_close: without children the watcher for SIGCHLD is stopped.
Watched(x, o) ==
  watcher /\ (Closes(x, o) /\ kind[x] = "process" => Children([h EXCEPT ![x] = o]) # {})

\* A handle that is closed leaves the pending list; not the first of it, which
\* uv__chld has in hand already, nor one whose predecessor has left it so.
Unlinked(x, o) ==
  Closes(x, o) /\ \E i \in 2 .. Len(pending) : pending[i] = x /\ h[pending[i - 1]].state = "open"

Update(x, o) ==
  /\ h' = [h EXCEPT ![x] = o]
  /\ watcher' = Watched(x, o)
  /\ pending' = IF Unlinked(x, o) THEN Without(pending, x) ELSE pending

-----------------------------------------------------------------------------
(* Calls of Python code.                                                   *)

Python == main.call \in {"none", "event", "signal", "exit", "connected", "close"}

\* A variable names the handle, or it is the argument of the callback.
Named(x) == h[x].mem = "live" /\ (h[x].names > 0 \/ (main.handle = x /\ kind[x] # "checker"))

\* RAISE_IF_HANDLE_CLOSED
Usable(x) == Python /\ Named(x) /\ h[x].state = "open"

\* X_tp_new, X_tp_init and initialize_handle.
Create(x) ==
  /\ Python /\ kind[x] \in Started \cup {"pipe"} /\ h[x].mem = "none"
  /\ Update(x, [h[x] EXCEPT !.mem = "live", !.refs = 1, !.names = 1, !.loop = TRUE])
  /\ UNCHANGED <<kind, pipe, main>>

\* start(): libuv starts the handle and the callback is kept; the libuv call
\* fails for an FSEvent that is started, and starts no Poll that is to wait for
\* no event.
Start(x) ==
  /\ Usable(x) /\ kind[x] \in Started
  /\ kind[x] = "fsevent" => ~h[x].active
  /\ \E active \in IF kind[x] = "poll" THEN BOOLEAN ELSE {TRUE} :
       Update(x, HandleIncref([h[x] EXCEPT !.active = active, !.callback = TRUE]))
  /\ UNCHANGED <<kind, pipe, main>>

PollStart(x) == kind[x] = "poll" /\ Start(x)
SignalStart(x) == kind[x] = "signal" /\ Start(x)
FSEventStart(x) == kind[x] = "fsevent" /\ Start(x)
FSPollStart(x) == kind[x] = "fspoll" /\ Start(x)
CheckerStart(x) == kind[x] = "checker" /\ Start(x)

\* stop(): all but a Signal forget the callback.
Stop(x) ==
  /\ Usable(x) /\ kind[x] \in Started
  /\ Update(x, GiveBack([h[x] EXCEPT !.active = FALSE, !.callback = @ /\ kind[x] = "signal"], "pyref"))
  /\ UNCHANGED <<kind, pipe, main>>

PollStop(x) == kind[x] = "poll" /\ Stop(x)
SignalStop(x) == kind[x] = "signal" /\ Stop(x)
FSEventStop(x) == kind[x] = "fsevent" /\ Stop(x)
FSPollStop(x) == kind[x] = "fspoll" /\ Stop(x)
CheckerStop(x) == kind[x] = "checker" /\ Stop(x)

\* No reference is taken for the exit callback.
WrongSpawned(o) == [o EXCEPT !.refs = 1, !.owns = {"spawned"}]

Spawned(o) == Take([o EXCEPT !.refs = 1], "spawned")

\* Process.spawn(): uv_spawn starts the watcher and then the child.
Spawn(x) ==
  /\ Python /\ kind[x] = "process" /\ h[x].mem = "none"
  /\ h' = [h EXCEPT ![x] = Spawned([@ EXCEPT !.mem = "live", !.names = 1, !.loop = TRUE, !.active = TRUE, !.child = "running"])]
  /\ watcher' = TRUE
  /\ UNCHANGED <<kind, pipe, pending, main>>

\* uv_spawn fails, before or after it started the watcher: the new object is
\* dropped, so it is closed.  (Refused arguments leave nothing: libuv does not
\* know the object yet.)
SpawnFails(x) ==
  /\ Python /\ kind[x] = "process" /\ h[x].mem = "none"
  /\ Update(x, Decref([h[x] EXCEPT !.mem = "live", !.refs = 1, !.loop = TRUE]))
  /\ UNCHANGED <<kind, pipe, main>>

\* Pipe_func_connect_abstract: the pipe and the callback wait for a timer.
ConnectAbstract(x) ==
  /\ Usable(x) /\ kind[x] = "pipe" /\ ~h[x].active
  /\ Update(x, Take([h[x] EXCEPT !.active = TRUE], "timer"))
  /\ UNCHANGED <<kind, pipe, main>>

\* Handle_func_close, Process_func_close.
Close(x) ==
  /\ Usable(x)
  /\ Update(x, Take([UvClosed(h[x]) EXCEPT !.user = TRUE], "closing"))
  /\ UNCHANGED <<kind, pipe, main>>

KeepName(x) ==
  /\ Python /\ Named(x) /\ h[x].names < MaxNames
  /\ Update(x, [h[x] EXCEPT !.names = @ + 1, !.refs = @ + 1])
  /\ UNCHANGED <<kind, pipe, main>>

DropName(x) ==
  /\ Python /\ h[x].mem = "live" /\ h[x].names > 0
  /\ Update(x, Decref([h[x] EXCEPT !.names = @ - 1]))
  /\ UNCHANGED <<kind, pipe, main>>

-----------------------------------------------------------------------------
(* The world outside.                                                      *)

Room == Len(pipe) < MaxPipe

\* A signal of an active Signal handle is caught: uv__signal_handler.  One that
\* finds the pipe full is lost, and changes nothing.
Catch(x) ==
  /\ kind[x] = "signal" /\ h[x].active /\ Room
  /\ pipe' = Append(pipe, x)
  /\ UNCHANGED <<kind, h, watcher, pending, main>>

\* SIGCHLD goes the same way, while the loop watches for it.
ChildExits(x) ==
  /\ h[x].child = "running"
  /\ h' = [h EXCEPT ![x].child = IF watcher /\ ~Room THEN "missed" ELSE "exited"]
  /\ pipe' = IF watcher /\ Room THEN Append(pipe, Child) ELSE pipe
  /\ UNCHANGED <<kind, watcher, pending, main>>

-----------------------------------------------------------------------------
(* The loop's thread.                                                      *)

Idle == main.call = "none"
Run(call, x) == main' = [call |-> call, handle |-> x]
Called(o, call) == IF call \in {"event", "signal"} THEN Take(o, "called") ELSE o

\* pyuv__poll_cb, pyuv__fsevent_cb, pyuv__fspoll_cb; libuv stops a Poll handle
\* whose descriptor is in error first.  The stat of an FSPoll that was stopped
\* since is not reported.
Event(x) ==
  /\ Idle /\ kind[x] \in {"poll", "fsevent", "fspoll"} /\ h[x].active
  /\ \E active \in IF kind[x] = "poll" THEN BOOLEAN ELSE {TRUE} :
       h' = [h EXCEPT ![x] = Take([@ EXCEPT !.active = active], "called")]
  /\ Run("event", x)
  /\ UNCHANGED <<kind, pipe, watcher, pending>>

\* The handle is not given back when the callback has returned.
WrongLeaveEvent ==
  /\ main.call = "event" /\ kind[main.handle] # "checker"
  /\ Run("none", None)
  /\ UNCHANGED <<kind, h, pipe, watcher, pending>>

LeaveEvent ==
  /\ main.call = "event" /\ kind[main.handle] # "checker"
  /\ Update(main.handle, GiveBack(h[main.handle], "called"))
  /\ Run("none", None)
  /\ UNCHANGED <<kind, pipe>>

\* pyuv__check_signals: the handlers of Python's signal module run, then a
\* reference is dropped that nobody took.
CheckSignals(x) ==
  /\ Idle /\ kind[x] = "checker" /\ h[x].active /\ h[x].checked < MaxChecked
  /\ \E active \in BOOLEAN : h' = [h EXCEPT ![x].active = active]
  /\ Run("event", x)
  /\ UNCHANGED <<kind, pipe, watcher, pending>>

LeaveCheckSignals ==
  /\ main.call = "event" /\ kind[main.handle] = "checker"
  /\ Update(main.handle, Decref([h[main.handle] EXCEPT !.checked = @ + 1]))
  /\ Run("none", None)
  /\ UNCHANGED <<kind, pipe>>

\* uv__signal_event: the next message.
Dispatch ==
  /\ Idle /\ pipe # <<>> /\ Head(pipe) # Child
  /\ LET x == Head(pipe)
     IN IF h[x].active
        THEN h' = [h EXCEPT ![x] = Take(@, "called")] /\ Run("signal", x) /\ UNCHANGED pipe
        ELSE pipe' = Tail(pipe) /\ UNCHANGED <<h, main>>
  /\ UNCHANGED <<kind, watcher, pending>>

\* pyuv__signal_cb returns, then the message counts as dispatched.
LeaveSignal ==
  /\ main.call = "signal"
  /\ Update(main.handle, GiveBack(h[main.handle], "called"))
  /\ pipe' = Tail(pipe)
  /\ Run("none", None)
  /\ UNCHANGED kind

\* The lists of the members of S, each once.
Orders(S) == {s \in [1 .. Cardinality(S) -> S] : \A x \in S : In(s, x)}

\* uv__chld waits for every child that has exited, though its own SIGCHLD is
\* lost, then calls back.
Reap ==
  /\ Idle /\ pipe # <<>> /\ Head(pipe) = Child
  /\ IF watcher
     THEN LET exited == {x \in Children(h) : h[x].child \in {"exited", "missed"}}
          IN /\ pending' \in Orders(exited)
             /\ h' = [x \in Handles |-> IF x \in exited THEN [h[x] EXCEPT !.child = "reaped"] ELSE h[x]]
             /\ Run("reap", None) /\ UNCHANGED pipe
     ELSE pipe' = Tail(pipe) /\ UNCHANGED <<pending, h, main>>
  /\ UNCHANGED <<kind, watcher>>

\* The next child's handle is stopped and its callback runs, closed or not.
Exit ==
  /\ main.call = "reap" /\ pending # <<>>
  /\ h' = [h EXCEPT ![Head(pending)].active = FALSE]
  /\ pending' = Tail(pending)
  /\ Run("exit", Head(pending))
  /\ UNCHANGED <<kind, pipe, watcher>>

\* pyuv__process_exit_cb
LeaveExit ==
  /\ main.call = "exit"
  /\ Update(main.handle, GiveBack(h[main.handle], "spawned"))
  /\ Run("reap", None)
  /\ UNCHANGED <<kind, pipe>>

ReapDone ==
  /\ main.call = "reap" /\ pending = <<>>
  /\ pipe' = Tail(pipe)
  /\ Run("none", None)
  /\ UNCHANGED <<kind, h, watcher, pending>>

\* pyuv__pipe_connect_abstract_cb: the timer does not know what became of the pipe.
Connected(x) ==
  /\ Idle /\ "timer" \in h[x].owns
  /\ Run("connected", x)
  /\ UNCHANGED <<kind, h, pipe, watcher, pending>>

LeaveConnected ==
  /\ main.call = "connected"
  /\ Update(main.handle, GiveBack(h[main.handle], "timer"))
  /\ Run("none", None)
  /\ UNCHANGED <<kind, pipe>>

\* Does not wait for the signals in the pipe.
WrongMayFinish(x) == Idle /\ h[x].state = "closing"

\* uv__signal_close: a handle with a caught signal is closed when the signal
\* has been dispatched.
MayFinish(x) == Idle /\ h[x].state = "closing" /\ ~In(pipe, x)

\* pyuv__handle_close_cb: the callback, then self->loop becomes None and the
\* references go.
FinishClose(x) ==
  /\ MayFinish(x) /\ h[x].user
  /\ h' = [h EXCEPT ![x].state = "closed", ![x].told = TRUE]
  /\ Run("close", x)
  /\ UNCHANGED <<kind, pipe, watcher, pending>>

LeaveClose ==
  /\ main.call = "close"
  /\ Update(main.handle, GiveBack(GiveBack([h[main.handle] EXCEPT !.loop = FALSE], "pyref"), "closing"))
  /\ Run("none", None)
  /\ UNCHANGED <<kind, pipe>>

\* pyuv__handle_dealloc_close_cb
FinishDealloc(x) ==
  /\ MayFinish(x) /\ ~h[x].user
  /\ h' = [h EXCEPT ![x] = GiveBack([@ EXCEPT !.state = "closed"], "closing")]
  /\ UNCHANGED <<kind, pipe, watcher, pending, main>>

-----------------------------------------------------------------------------
Next ==
  \/ \E x \in Handles :
       \/ Create(x) \/ Spawn(x) \/ SpawnFails(x) \/ ConnectAbstract(x)
       \/ PollStart(x) \/ SignalStart(x) \/ FSEventStart(x) \/ FSPollStart(x) \/ CheckerStart(x)
       \/ PollStop(x) \/ SignalStop(x) \/ FSEventStop(x) \/ FSPollStop(x) \/ CheckerStop(x)
       \/ Close(x) \/ KeepName(x) \/ DropName(x)
       \/ Catch(x) \/ ChildExits(x)
       \/ Event(x) \/ CheckSignals(x) \/ Connected(x) \/ FinishClose(x) \/ FinishDealloc(x)
  \/ LeaveEvent \/ LeaveCheckSignals \/ Dispatch \/ LeaveSignal
  \/ Reap \/ Exit \/ LeaveExit \/ ReapDone \/ LeaveConnected \/ LeaveClose

Spec == Init /\ [][Next]_vars

-----------------------------------------------------------------------------
(* Properties.                                                             *)

\* Types of the variables of src/poll.c, signal.c, fs.c, util.c, process.c.
TypeOK ==
  /\ kind \in Casts /\ h \in [Handles -> Handle]
  /\ pipe \in Seq(Handles \cup {Child}) /\ pending \in Seq(Handles) /\ watcher \in BOOLEAN
  /\ main \in [call : Calls, handle : Handles \cup {None}]

\* Py_INCREF and Py_DECREF: an object's count is the variables that name it and
\* the references the C code of its start, spawn, connect, close and callback
\* has taken and not given back; less one for every signal a SignalChecker was
\* told of, which pyuv__check_signals gives back without having taken it.
RefsExact ==
  \A x \in Handles : h[x].mem = "live" =>
    h[x].refs = h[x].names + Cardinality(h[x].owns) - h[x].checked

\* Whatever libuv may still call or look at is alive: an active handle holds a
\* reference to itself and the callback it is to call, and a handle whose
\* memory is gone is named by no variable, signal, list of children or running
\* callback (a SignalChecker that was told of a signal excepted).  A callback
\* that raises finds self->loop, whose excepthook is to be called; not that of an
\* abstract connection.
NoDangling ==
  \A x \in Handles : h[x].checked = 0 =>
    /\ h[x].active /\ kind[x] # "pipe" => h[x].owns \cap {"pyref", "spawned"} # {}
    /\ h[x].active /\ kind[x] \in Started \ {"checker"} => h[x].callback
    /\ h[x].mem = "freed" =>
         /\ h[x].names = 0 /\ h[x].owns = {} /\ h[x].state = "closed" /\ ~h[x].active
         /\ ~In(pipe, x) /\ ~In(pending, x) /\ main.handle # x
    /\ main.handle = x /\ main.call # "connected" => h[x].loop

\* uv__chld: a child of an open handle is watched, its exit is on its way to
\* exit_callback unless the SIGCHLD was lost, and the reference spawn() took is
\* given back with it.  What a closed handle still holds is the reference for an
\* exit that will not be reported, which the code leaks, or for an abstract
\* connection that is not reported yet.
ExitsReported ==
  \A x \in Handles :
    /\ x \in Children(h) => watcher /\ (h[x].child = "exited" => In(pipe, Child))
    /\ "spawned" \in h[x].owns /\ h[x].child = "reaped" /\ h[x].state = "open" =>
         In(pending, x) \/ (main.call = "exit" /\ main.handle = x)
    /\ h[x].state = "closed" /\ main.handle # x /\ h[x].checked = 0 =>
         /\ h[x].owns \subseteq {"spawned", "timer"}
         /\ "spawned" \in h[x].owns => h[x].user

\* "Refcount is increased in close(), so it's guaranteed that if we arrived here
\* and the user had called close(), the callback was already executed"
\* (Handle_tp_dealloc).
FreedAfterCallback == \A x \in Handles : h[x].mem = "freed" /\ h[x].user => h[x].told

\* "When an exception is raised and uncaught, the interpreter calls
\* loop.excepthook" (docs/loop.rst): handle_uncaught_exception is given the Loop
\* of the handle whose callback raised.
ExcepthookFound == main.handle # None => h[main.handle].loop
=============================================================================
