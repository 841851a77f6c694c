------------------------------- MODULE SocketIO -------------------------------
(***************************************************************************)
(* One Stream or UDP handle of src/stream.c, tcp.c, pipe.c, tty.c, udp.c   *)
(* on libuv's deps/libuv/src/unix/stream.c and udp.c: connect, write,      *)
(* shutdown, send, read, receive, listen, accept and close, from the call  *)
(* to the callback, and the loop's read buffer (src/common.c).             *)
(*                                                                         *)
(* Everything happens on the loop's thread.  main.at is where uv_run is    *)
(* when it is in the handle's code; at "idle" it is elsewhere and other    *)
(* Python code may use the handle, as it may inside each callback.         *)
(*                                                                         *)
(* An operator named Wrong... is the definition after it with a plausible  *)
(* mistake; no action uses it.                                             *)
(***************************************************************************)
EXTENDS Integers, Sequences, FiniteSets, Queues

CONSTANTS
  Kinds,     \* what the handle may be, out of "tcp", "pipe", "tty", "udp", "server"
  Connects,  \* connect requests
  Writes,    \* write and send requests
  Shutdown,  \* the shutdown request
  None,      \* no request
  MaxViews,  \* bound on the items of a sequence that is written
  Corners    \* uses of the handle to include, of AllCorners

Requests == Connects \cup Writes \cup {Shutdown}

\* reconnect: Pipe.connect() while connecting.  early shutdown: shutdown()
\* while connecting.  late connect: connect() of a handle that was opened and
\* written to, or shut down, before that is answered.  close in recv: close()
\* of a UDP handle in the callback of a receive, when the same event is about
\* to send what is queued.  late accept: an accept() outside the callback may
\* fail.  listen again: listen() outside the callback while a connection waits
\* for accept().
AllCorners == {"reconnect", "early shutdown", "late connect", "close in recv", "late accept", "listen again"}

ASSUME SocketAssumption ==
  /\ Kinds \subseteq {"tcp", "pipe", "tty", "udp", "server"} /\ Corners \subseteq AllCorners
  /\ Shutdown \notin Connects \cup Writes /\ Connects \cap Writes = {}
  /\ {"read", "close", None} \cap Requests = {} /\ IsFiniteSet(Requests)
  /\ None \notin {"read", "close"} /\ MaxViews \in Nat

VARIABLES
  kind,       \* what the handle is
  s,          \* the handle: libuv's fields and the wrapper's
  connectReq, \* stream->connect_req
  queue,      \* write_queue
  completed,  \* write_completed_queue
  reqs,       \* the requests and their contexts
  held,       \* references to self that calls took for their callbacks
  exported,   \* buffers exported by Py_buffer views
  sent,       \* references to handles that are being sent over a pipe
  inUse,      \* loop->buffer.in_use
  order,      \* writes not answered yet, in the order of the calls
  main        \* where the loop is in the handle's code, and whom it calls

vars == <<kind, s, connectReq, queue, completed, reqs, held, exported, sent, inUse, order, main>>
refs == <<held, exported, sent>>
writing == <<queue, completed, reqs, refs, order>>

\* readcb: libuv's read_cb or recv_cb is set.  onread: the Python callback for
\* reads or connections is.  pyref: PYUV__PYREF.  accepted: accepted_fd # -1.
Handle == [phase : {"open", "closing", "closed"}, fd : BOOLEAN, flag : BOOLEAN, readcb : BOOLEAN,
           onread : BOOLEAN, pyref : BOOLEAN, pollin : BOOLEAN, pollout : BOOLEAN, fed : BOOLEAN,
           shut : {"no", "shutting", "shut"}, delayed : BOOLEAN, accepted : BOOLEAN]

Places == {"idle", "connected", "flush", "read", "write", "callbacks", "destroy", "cancel", "ended"}
Results == {"data", "partial", "again", "eof", "error", "none"}

\* out: POLLOUT is among the events being served.  failed: the connect failed.
\* result: of the read whose callback runs.
Main == [at : Places, out : BOOLEAN, failed : BOOLEAN, result : Results,
         call : Requests \cup {"read", "close", None}]

Init ==
  /\ kind \in Kinds
  /\ s = [phase |-> "open", fd |-> kind = "tty", flag |-> FALSE, readcb |-> FALSE, onread |-> FALSE,
          pyref |-> FALSE, pollin |-> FALSE, pollout |-> FALSE, fed |-> FALSE, shut |-> "no",
          delayed |-> FALSE, accepted |-> FALSE]
  /\ connectReq = None /\ queue = <<>> /\ completed = <<>> /\ order = <<>>
  /\ reqs = [r \in Requests |-> [st |-> "idle", views |-> 0, handle |-> FALSE, err |-> "none"]]
  /\ held = 0 /\ exported = 0 /\ sent = 0 /\ inUse = FALSE
  /\ main = [at |-> "idle", out |-> FALSE, failed |-> FALSE, result |-> "none", call |-> None]

Stream == kind \in {"tcp", "pipe", "tty"}

\* Python code may use the handle: RAISE_IF_HANDLE_CLOSED.
Api == s.phase = "open" /\ (main.at = "idle" \/ main.call # None)

-----------------------------------------------------------------------------
(* Calls that make a request: the context and the callback are kept, and a *)
(* reference to self is taken once libuv has accepted the request.         *)

Kept(r, n, h, e) == [reqs EXCEPT ![r] = [st |-> "pending", views |-> n, handle |-> h, err |-> e]]

\* n views and, when h, a handle to send.
Keep(r, n, h, e) ==
  /\ reqs' = Kept(r, n, h, e)
  /\ exported' = exported + n
  /\ sent' = IF h THEN sent + 1 ELSE sent
  /\ held' = held + 1

\* The handle was opened and used before it is connected.
ConnectIsLate == s.shut = "shutting" \/ order # <<>> \/ main.at \in {"read", "write", "callbacks"}

\* TCP_func_connect: a refused connection is reported by the callback.
ConnectTcp(c) ==
  /\ Api /\ kind = "tcp" /\ connectReq = None /\ reqs[c].st = "idle"
  /\ ConnectIsLate => "late connect" \in Corners
  /\ connectReq' = c
  /\ \E refused \in BOOLEAN :
       s' = [s EXCEPT !.fd = TRUE, !.delayed = refused, !.pollout = TRUE, !.fed = @ \/ refused]
  /\ Keep(c, 0, FALSE, "none")
  /\ UNCHANGED <<kind, queue, completed, order, inUse, main>>

\* The system call fails at once; the socket has been made.
ConnectTcpRaises ==
  /\ Api /\ kind = "tcp" /\ connectReq = None
  /\ s' = [s EXCEPT !.fd = TRUE, !.delayed = FALSE]
  /\ UNCHANGED <<kind, connectReq, writing, inUse, main>>

\* Pipe_func_connect: every error is reported by the callback.
ConnectPipe(c) ==
  /\ Api /\ kind = "pipe" /\ reqs[c].st = "idle"
  /\ connectReq # None => "reconnect" \in Corners
  /\ ConnectIsLate => "late connect" \in Corners
  /\ connectReq' = c
  /\ \/ s' = [s EXCEPT !.fd = TRUE, !.delayed = FALSE, !.pollin = TRUE, !.pollout = TRUE]
     \/ \E made \in BOOLEAN : s' = [s EXCEPT !.fd = @ \/ made, !.delayed = TRUE, !.fed = TRUE]
  /\ Keep(c, 0, FALSE, "none")
  /\ UNCHANGED <<kind, queue, completed, order, inUse, main>>

\* TCP_func_open, Pipe_func_open.
Open ==
  /\ Api /\ kind \in {"tcp", "pipe"} /\ ~s.fd
  /\ s' = [s EXCEPT !.fd = TRUE]
  /\ UNCHANGED <<kind, connectReq, writing, inUse, main>>

\* write_queue_size = 0: requests that failed count until they are answered.
NothingQueued == queue = <<>> /\ \A i \in DOMAIN completed : reqs[completed[i]].err # "failed"

\* uv__write of one request: it is written whole ("ok"), it fails, or not all
\* of it fits ("none").  A request that is finished feeds the watcher.
AfterWrite(e) ==
  [s EXCEPT !.fed = @ \/ e # "none", !.pollout = (@ /\ e # "failed") \/ e = "none"]

WriteResults == {"ok", "failed", "none"}

\* Tries to write at once although earlier requests wait.
WrongWrite(w, n, h) ==
  /\ Api /\ Stream /\ s.fd /\ reqs[w].st = "idle"
  /\ order' = Append(order, w)
  /\ \E e \in WriteResults :
       /\ Keep(w, n, h, e)
       /\ s' = AfterWrite(e)
       /\ IF e = "none" THEN queue' = Append(queue, w) /\ UNCHANGED completed
          ELSE completed' = Append(completed, w) /\ UNCHANGED queue
  /\ UNCHANGED <<kind, connectReq, inUse, main>>

\* Stream_func_write, pyuv__stream_write_bytes, pyuv__stream_write_sequence and
\* uv_write2: n buffers, written at once unless something is in the way.
Write(w, n, h) ==
  /\ Api /\ Stream /\ s.fd /\ reqs[w].st = "idle"
  /\ order' = Append(order, w)
  /\ \/ /\ connectReq # None \/ ~NothingQueued
        /\ Keep(w, n, h, "none")
        /\ queue' = Append(queue, w)
        /\ s' = [s EXCEPT !.pollout = @ \/ connectReq = None]
        /\ UNCHANGED completed
     \/ /\ connectReq = None /\ NothingQueued
        /\ \E e \in WriteResults :
             /\ Keep(w, n, h, e)
             /\ s' = AfterWrite(e)
             /\ IF e = "none" THEN queue' = <<w>> /\ UNCHANGED completed
                ELSE completed' = Append(completed, w) /\ UNCHANGED queue
  /\ UNCHANGED <<kind, connectReq, inUse, main>>

\* Pipe_func_write: the handle is kept until the write is answered.
WritePipe(w, n) == kind = "pipe" /\ Write(w, n, TRUE)

\* Releases the views before the one that failed, but not the first.
WrongUnview(i) == IF i > 1 THEN i - 1 ELSE i

\* The views an error path releases, of the i that were taken.
Unview(i) == i

\* The error paths of write() and send(): an item is not a buffer, or libuv
\* refuses the request.
WriteRaises(i) ==
  /\ Api /\ kind # "server"
  /\ exported' = exported + i - Unview(i)
  /\ UNCHANGED <<kind, s, connectReq, queue, completed, reqs, held, sent, order, inUse, main>>

\* Stream_func_try_write: uv_write, then the request is taken back.
TryWrite ==
  /\ Api /\ Stream /\ s.fd /\ connectReq = None /\ NothingQueued
  /\ \E e \in WriteResults :
       s' = [AfterWrite(e) EXCEPT !.pollout = @ /\ s.pollout]
  /\ UNCHANGED <<kind, connectReq, writing, inUse, main>>

\* Stream_func_shutdown.
ShutDown ==
  /\ Api /\ kind \in {"tcp", "pipe"} /\ s.fd /\ s.shut = "no" /\ reqs[Shutdown].st = "idle"
  /\ connectReq # None => "early shutdown" \in Corners
  /\ s' = [s EXCEPT !.shut = "shutting", !.pollout = TRUE]
  /\ Keep(Shutdown, 0, FALSE, "none")
  /\ UNCHANGED <<kind, connectReq, queue, completed, order, inUse, main>>

\* UDP_func_send and uv__udp_send, which makes the socket when there is none.
Send(w, n) ==
  /\ Api /\ kind = "udp" /\ reqs[w].st = "idle"
  /\ order' = Append(order, w)
  /\ \/ /\ order # <<>> \/ main.at = "callbacks"
        /\ Keep(w, n, FALSE, "none")
        /\ queue' = Append(queue, w)
        /\ s' = [s EXCEPT !.fd = TRUE, !.pollout = TRUE]
        /\ UNCHANGED completed
     \/ /\ order = <<>> /\ main.at # "callbacks"
        /\ \E e \in WriteResults :
             /\ Keep(w, n, FALSE, e)
             /\ s' = [s EXCEPT !.fd = TRUE, !.fed = @ \/ e # "none", !.pollout = @ \/ e = "none"]
             /\ IF e = "none" THEN queue' = <<w>> /\ UNCHANGED completed
                ELSE completed' = Append(completed, w) /\ UNCHANGED queue
  /\ UNCHANGED <<kind, connectReq, inUse, main>>

-----------------------------------------------------------------------------
(* Calls that only change the handle.                                      *)

ReadStarted == [s EXCEPT !.fd = TRUE, !.flag = TRUE, !.readcb = TRUE, !.pollin = TRUE, !.onread = TRUE, !.pyref = TRUE]

\* Stream_func_start_read; uv_read_start asserts that the stream is open.
StartRead ==
  /\ Api /\ Stream /\ s.fd
  /\ s' = ReadStarted
  /\ UNCHANGED <<kind, connectReq, writing, inUse, main>>

\* A UDP handle that receives already raises.
StartRecv ==
  /\ Api /\ kind = "udp" /\ ~s.pollin
  /\ s' = ReadStarted
  /\ UNCHANGED <<kind, connectReq, writing, inUse, main>>

\* uv_read_stop, which does nothing when the flag is not set.
ReadStopped(h) == IF h.flag THEN [h EXCEPT !.flag = FALSE, !.readcb = FALSE, !.pollin = FALSE] ELSE h

\* uv_read_stop only when the stream is not being served.
WrongStopRead ==
  /\ Api /\ Stream
  /\ s' = [(IF main.call = "read" THEN s ELSE ReadStopped(s)) EXCEPT !.onread = FALSE, !.pyref = FALSE]
  /\ UNCHANGED <<kind, connectReq, writing, inUse, main>>

StopRead ==
  /\ Api /\ Stream
  /\ s' = [ReadStopped(s) EXCEPT !.onread = FALSE, !.pyref = FALSE]
  /\ UNCHANGED <<kind, connectReq, writing, inUse, main>>

StopRecv ==
  /\ Api /\ kind = "udp"
  /\ s' = [s EXCEPT !.flag = FALSE, !.readcb = FALSE, !.pollin = FALSE, !.onread = FALSE, !.pyref = FALSE]
  /\ UNCHANGED <<kind, connectReq, writing, inUse, main>>

\* TCP_func_bind, UDP_func_bind: an address in use is told by listen() only.
Bind ==
  /\ Api /\ kind \in {"tcp", "udp", "server"} /\ ~s.fd
  /\ \E inuse \in BOOLEAN : s' = [s EXCEPT !.fd = TRUE, !.delayed = inuse /\ kind # "udp"]
  /\ UNCHANGED <<kind, connectReq, writing, inUse, main>>

\* TCP_func_listen, Pipe_func_listen; also of a handle that listens.
Listen ==
  /\ Api /\ kind = "server" /\ ~s.delayed
  /\ s.accepted /\ main.at = "idle" => "listen again" \in Corners
  /\ s' = [s EXCEPT !.fd = TRUE, !.pollin = TRUE, !.onread = TRUE]
  /\ UNCHANGED <<kind, connectReq, writing, inUse, main>>

\* TCP_func_accept, Pipe_func_accept and uv_accept: the client takes the
\* connection, or it cannot and the connection is closed.
Accept ==
  /\ Api /\ kind = "server" /\ s.accepted
  /\ \/ s' = [s EXCEPT !.accepted = FALSE, !.pollin = TRUE]
     \/ /\ main.at # "idle" \/ "late accept" \in Corners
        /\ s' = [s EXCEPT !.accepted = FALSE]
  /\ UNCHANGED <<kind, connectReq, writing, inUse, main>>

\* Handle_func_close, uv__stream_close, uv__udp_close.
Close ==
  /\ Api
  /\ kind = "udp" /\ main.call = "read" /\ main.out /\ queue # <<>> => "close in recv" \in Corners
  /\ s' = [s EXCEPT !.phase = "closing", !.fd = FALSE, !.flag = FALSE, !.pollin = FALSE, !.pollout = FALSE,
                    !.fed = FALSE, !.accepted = FALSE, !.readcb = @ /\ ~s.flag]
  /\ UNCHANGED <<kind, connectReq, writing, inUse, main>>

-----------------------------------------------------------------------------
(* The callbacks of requests.                                              *)

InIdle == main.at = "idle" /\ main.call = None

Calls(r) == [main EXCEPT !.call = r]

\* A request is answered: its callback runs while the context still lives.
Answer(r) == reqs' = [reqs EXCEPT ![r].st = "calling"]

\* Keeps the views of a request that failed.
WrongRelease(r) ==
  /\ exported' = exported - (IF reqs[r].err = "failed" THEN 0 ELSE reqs[r].views)
  /\ sent' = IF reqs[r].handle THEN sent - 1 ELSE sent
  /\ held' = held - 1
  /\ reqs' = [reqs EXCEPT ![r] = [st |-> "idle", views |-> 0, handle |-> FALSE, err |-> "none"]]

\* pyuv__stream_write_cb and the other callbacks, after Python: the views and
\* the context are freed, the reference to self is given back.
Release(r) ==
  /\ exported' = exported - reqs[r].views
  /\ sent' = IF reqs[r].handle THEN sent - 1 ELSE sent
  /\ held' = held - 1
  /\ reqs' = [reqs EXCEPT ![r] = [st |-> "idle", views |-> 0, handle |-> FALSE, err |-> "none"]]

LeaveCallback ==
  /\ Release(main.call)
  /\ main' = Calls(None)
  /\ UNCHANGED <<kind, s, connectReq, queue, completed, inUse, order>>

\* pyuv__stream_write_cb, pyuv__udp_send_cb, pyuv__stream_shutdown_cb,
\* pyuv__tcp_connect_cb and pyuv__pipe_connect_cb.
LeaveWrite == main.call \in Writes /\ Stream /\ LeaveCallback
LeaveSend == main.call \in Writes /\ kind = "udp" /\ LeaveCallback
LeaveShutdown == main.call = Shutdown /\ LeaveCallback
LeaveConnectTcp == main.call \in Connects /\ kind = "tcp" /\ LeaveCallback
LeaveConnectPipe == main.call \in Connects /\ kind = "pipe" /\ LeaveCallback

\* uv__stream_connect: the socket's error is known, or the connection is
\* still in progress and nothing happens.
Connected ==
  /\ InIdle /\ s.phase = "open" /\ connectReq # None
  /\ \E failed \in IF s.delayed THEN {TRUE} ELSE BOOLEAN, fed \in {FALSE, s.fed} :
       /\ s.fed \/ (s.fd /\ (s.pollin \/ s.pollout))
       /\ s' = [s EXCEPT !.delayed = FALSE, !.fed = fed, !.pollout = @ /\ ~failed /\ queue # <<>>]
       /\ main' = [main EXCEPT !.at = "connected", !.failed = failed, !.call = connectReq]
  /\ connectReq' = None
  /\ Answer(connectReq)
  /\ UNCHANGED <<kind, queue, completed, refs, order, inUse>>

StillConnecting ==
  /\ InIdle /\ s.phase = "open" /\ connectReq # None /\ ~s.delayed /\ s.fed
  /\ s' = [s EXCEPT !.fed = FALSE]
  /\ UNCHANGED <<kind, connectReq, writing, inUse, main>>

\* uv__stream_flush_write_queue.
Flushed ==
  /\ completed' = completed \o queue /\ queue' = <<>>
  /\ reqs' = [r \in Requests |-> IF In(queue, r) THEN [reqs[r] EXCEPT !.err = "failed"] ELSE reqs[r]]

\* After the connect callback: a failed connection cancels what was written.
AfterConnected ==
  /\ main.at = "connected" /\ main.call = None
  /\ \/ /\ main.failed /\ s.fd
        /\ Flushed
        /\ main' = [main EXCEPT !.at = "flush"]
     \/ /\ ~(main.failed /\ s.fd)
        /\ main' = [main EXCEPT !.at = "idle", !.failed = FALSE]
        /\ UNCHANGED <<queue, completed, reqs>>
  /\ UNCHANGED <<kind, s, connectReq, refs, order, inUse>>

\* uv__write_callbacks, uv__udp_run_completed: the next callback.
CallWritten ==
  /\ main.at \in {"flush", "callbacks", "cancel"} /\ main.call = None /\ completed # <<>>
  /\ LET w == Head(completed)
     IN Answer(w) /\ main' = Calls(w) /\ order' = Without(order, w)
  /\ completed' = Tail(completed)
  /\ UNCHANGED <<kind, s, connectReq, queue, refs, inUse>>

Rest == [at |-> "idle", out |-> FALSE, failed |-> FALSE, result |-> "none", call |-> None]

FlushDone ==
  /\ main.at = "flush" /\ main.call = None /\ completed = <<>>
  /\ main' = Rest
  /\ UNCHANGED <<kind, s, connectReq, writing, inUse>>

-----------------------------------------------------------------------------
(* I/O events.                                                             *)

\* uv__stream_io, uv__udp_io and uv__server_io: from the pending queue, which
\* stands for POLLOUT, or from the poll; an error or a hang-up is both events.
Event ==
  /\ InIdle /\ s.phase = "open" /\ connectReq = None
  /\ \/ s.fed /\ s' = [s EXCEPT !.fed = FALSE] /\ main' = [main EXCEPT !.at = "write", !.out = TRUE]
     \/ /\ s.fd /\ (s.pollin \/ s.pollout) /\ UNCHANGED s
        /\ \/ s.pollin /\ main' = [main EXCEPT !.at = "read"]
           \/ s.pollout /\ main' = [main EXCEPT !.at = "write", !.out = TRUE]
           \/ s.pollin /\ kind # "server" /\ (s.pollout \/ Stream) /\ main' = [main EXCEPT !.at = "read", !.out = TRUE]
  /\ UNCHANGED <<kind, connectReq, writing, inUse>>

\* A receive that found nothing returns without unlocking the buffer.
WrongUnlocked(result) == result = "again"

\* pyuv__stream_read_cb and pyuv__udp_recv_cd, at their end: is the buffer
\* still locked?
Unlocked(result) == FALSE

\* pyuv__alloc_cb and one read: the callback runs.  A buffer in use is ENOBUFS.
\* An error or the end of a stream stops the reading before Python is called.
ReadOnce ==
  /\ main.at = "read" /\ main.call = None /\ kind # "server" /\ main.result \in {"none", "data"}
  /\ s.readcb /\ s.fd /\ (Stream => s.flag)
  /\ \E result \in IF inUse THEN {"error"} ELSE {"data", "partial", "again", "error"} \cup (IF Stream THEN {"eof"} ELSE {}) :
       /\ kind = "udp" => result # "partial"
       /\ s' = IF Stream /\ result \in {"eof", "error"} THEN ReadStopped(s) ELSE s
       /\ main' = [main EXCEPT !.result = result, !.call = IF kind = "udp" /\ result = "again" THEN None ELSE "read"]
       /\ inUse' = (main'.call = "read" \/ Unlocked(result))
  /\ UNCHANGED <<kind, connectReq, writing>>

\* After the callback: uv__stream_eof clears the flag again, an error stops a
\* reading that the callback has started.
LeaveRead ==
  /\ main.call = "read" /\ kind # "server"
  /\ inUse' = Unlocked(main.result)
  /\ s' = IF main.result = "eof" THEN [s EXCEPT !.flag = FALSE]
          ELSE IF Stream /\ main.result = "error" /\ s.flag THEN [s EXCEPT !.flag = FALSE, !.pollin = FALSE]
          ELSE s
  /\ main' = Calls(None)
  /\ UNCHANGED <<kind, connectReq, writing>>

\* No more to read, or enough for now; a hang-up after a partial read is told
\* as the end, with no buffer.
ReadDone ==
  /\ main.at = "read" /\ main.call = None /\ kind # "server"
  /\ \/ /\ Stream /\ main.out /\ s.fd /\ s.flag /\ main.result = "partial"
        /\ s' = ReadStopped(s)
        /\ main' = [main EXCEPT !.result = "eof", !.call = "read"]
     \/ /\ main' = IF (s.fd \/ kind = "udp") /\ main.out THEN [main EXCEPT !.at = "write", !.result = "none"] ELSE Rest
        /\ UNCHANGED s
  /\ UNCHANGED <<kind, connectReq, writing, inUse>>

\* uv__write: one request of a stream.
WriteQueued ==
  /\ main.at = "write" /\ Stream
  /\ \/ queue = <<>> /\ UNCHANGED <<s, queue, completed, reqs>>
     \/ /\ queue # <<>>
        /\ \E e \in WriteResults :
             /\ s' = AfterWrite(e)
             /\ reqs' = [reqs EXCEPT ![Head(queue)].err = e]
             /\ IF e = "none" THEN UNCHANGED <<queue, completed>>
                ELSE queue' = Tail(queue) /\ completed' = Append(completed, Head(queue))
  /\ main' = [main EXCEPT !.at = "callbacks"]
  /\ UNCHANGED <<kind, connectReq, refs, order, inUse>>

\* uv__udp_sendmsg: as many as the socket takes, in order; with the socket
\* closed each of them fails.
SendQueued ==
  /\ main.at = "write" /\ kind = "udp"
  /\ \E n \in (IF s.fd THEN 0 ELSE Len(queue)) .. Len(queue) :
       /\ completed' = completed \o SubSeq(queue, 1, n)
       /\ queue' = SubSeq(queue, n + 1, Len(queue))
       /\ s' = [s EXCEPT !.fed = @ \/ n > 0]
       /\ reqs' = [r \in Requests |-> IF In(SubSeq(queue, 1, n), r)
                     THEN [reqs[r] EXCEPT !.err = IF s.fd THEN "ok" ELSE "failed"] ELSE reqs[r]]
  /\ main' = [main EXCEPT !.at = "callbacks"]
  /\ UNCHANGED <<kind, connectReq, refs, order, inUse>>

\* Stops the watcher although a shutdown was asked for.
WrongDrained ==
  /\ main.at = "callbacks" /\ main.call = None /\ completed = <<>>
  /\ s' = [s EXCEPT !.pollout = @ /\ queue # <<>>]
  /\ main' = Rest
  /\ UNCHANGED <<kind, connectReq, writing, inUse>>

\* uv__drain and the end of uv__udp_run_completed: with nothing to write the
\* watcher is stopped and a pending shutdown is carried out.
Drained ==
  /\ main.at = "callbacks" /\ main.call = None /\ completed = <<>>
  /\ LET shutsDown == queue = <<>> /\ s.shut = "shutting" /\ s.phase = "open"
     IN /\ \E shut \in IF shutsDown THEN {"shut", "no"} ELSE {s.shut} :
             s' = [s EXCEPT !.pollout = @ /\ queue # <<>>, !.shut = shut]
        /\ main' = [Rest EXCEPT !.call = IF shutsDown THEN Shutdown ELSE None]
        /\ IF shutsDown THEN Answer(Shutdown) ELSE UNCHANGED reqs
  /\ UNCHANGED <<kind, connectReq, queue, completed, refs, order, inUse>>

\* uv__server_io: it asserts that no connection waits; a connection or an error, told by pyuv__tcp_listen_cb or
\* pyuv__pipe_listen_cb, or there are no more.
ServerAccepts ==
  /\ main.at = "read" /\ kind = "server" /\ main.call = None /\ ~s.accepted /\ s.fd
  /\ \/ \E connection \in BOOLEAN : s' = [s EXCEPT !.accepted = connection] /\ main' = Calls("read")
     \/ main' = Rest /\ UNCHANGED s
  /\ UNCHANGED <<kind, connectReq, writing, inUse>>

\* A connection that was not taken stops the watching until accept().
LeaveConnection ==
  /\ main.call = "read" /\ kind = "server"
  /\ main' = IF s.accepted \/ ~s.fd THEN Rest ELSE Calls(None)
  /\ s' = [s EXCEPT !.pollin = @ /\ ~s.accepted]
  /\ UNCHANGED <<kind, connectReq, writing, inUse>>

-----------------------------------------------------------------------------
(* uv__finish_close.                                                       *)

\* uv__stream_destroy: the connect request is cancelled first.
Destroy ==
  /\ InIdle /\ s.phase = "closing"
  /\ connectReq' = None
  /\ IF connectReq = None THEN main' = [main EXCEPT !.at = "destroy"] /\ UNCHANGED reqs
     ELSE main' = [main EXCEPT !.at = "destroy", !.call = connectReq] /\ Answer(connectReq)
  /\ UNCHANGED <<kind, s, queue, completed, refs, order, inUse>>

\* Only what was tried already is answered.
WrongCancelWrites ==
  /\ main.at = "destroy" /\ main.call = None
  /\ main' = [main EXCEPT !.at = "cancel"]
  /\ UNCHANGED <<kind, s, connectReq, writing, inUse>>

\* Then the writes and sends, uv__udp_finish_close for a UDP handle.
CancelWrites ==
  /\ main.at = "destroy" /\ main.call = None
  /\ Flushed
  /\ main' = [main EXCEPT !.at = "cancel"]
  /\ UNCHANGED <<kind, s, connectReq, refs, order, inUse>>

\* Then the shutdown, and the close callback.
CancelShutdown ==
  /\ main.at = "cancel" /\ main.call = None /\ completed = <<>>
  /\ \/ /\ reqs[Shutdown].st = "pending" /\ Answer(Shutdown) /\ main' = Calls(Shutdown) /\ UNCHANGED s
     \/ /\ reqs[Shutdown].st = "idle" /\ UNCHANGED reqs
        /\ s' = [s EXCEPT !.phase = "closed", !.pyref = FALSE, !.readcb = FALSE]
        /\ main' = [main EXCEPT !.at = "ended", !.call = "close"]
  /\ UNCHANGED <<kind, connectReq, queue, completed, refs, order, inUse>>

\* on_handle_dealloc may release the memory once the close callback is back.
LeaveClose ==
  /\ main.call = "close"
  /\ main' = Calls(None)
  /\ UNCHANGED <<kind, s, connectReq, writing, inUse>>

-----------------------------------------------------------------------------
CallsOfPython ==
  \/ \E c \in Connects : ConnectTcp(c) \/ ConnectPipe(c)
  \/ \E w \in Writes, n \in 1 .. MaxViews : Write(w, n, FALSE) \/ WritePipe(w, n) \/ Send(w, n)
  \/ \E i \in 0 .. MaxViews : WriteRaises(i)
  \/ ConnectTcpRaises \/ Open \/ TryWrite \/ ShutDown
  \/ StartRead \/ StopRead \/ StartRecv \/ StopRecv \/ Bind \/ Listen \/ Accept \/ Close

Loop ==
  \/ LeaveWrite \/ LeaveSend \/ LeaveShutdown \/ LeaveConnectTcp \/ LeaveConnectPipe
  \/ Connected \/ StillConnecting \/ AfterConnected \/ CallWritten \/ FlushDone
  \/ Event \/ ReadOnce \/ LeaveRead \/ ReadDone \/ WriteQueued \/ SendQueued \/ Drained
  \/ ServerAccepts \/ LeaveConnection
  \/ Destroy \/ CancelWrites \/ CancelShutdown \/ LeaveClose

Next == CallsOfPython \/ Loop

Spec == Init /\ [][Next]_vars

-----------------------------------------------------------------------------
(* Properties.                                                             *)

\* Types and bounds of the variables of src/stream.c and src/udp.c.
TypeOK ==
  /\ kind \in Kinds /\ s \in Handle /\ main \in Main
  /\ connectReq \in Connects \cup {None}
  /\ reqs \in [Requests -> [st : {"idle", "pending", "calling"}, views : 0 .. MaxViews, handle : BOOLEAN, err : WriteResults]]
  /\ held \in 0 .. Cardinality(Requests) /\ exported \in 0 .. MaxViews * Cardinality(Writes) /\ sent \in 0 .. Cardinality(Writes)
  /\ inUse \in BOOLEAN
  /\ \A q \in {queue, completed, order} : q \in Seq(Writes) /\ Len(q) <= Cardinality(Writes)

Outstanding == {r \in Requests : reqs[r].st # "idle"}
Unanswered(r) == reqs[r].st = "pending"

\* The Py_buffer views of the outstanding requests.
Views == {v \in Outstanding \X (1 .. MaxViews) : v[2] <= reqs[v[1]].views}

\* Every request that a call of stream.c, tcp.c, pipe.c or udp.c handed to
\* libuv is where exactly one callback will find it, once, and as long as it is
\* outstanding, and no longer, it holds one reference to the handle, the
\* exported buffers of its data and the handle it sends.  The loop's only buffer
\* is locked exactly from pyuv__alloc_cb to the end of the read callback, so no
\* read finds it in use.
RequestsKept ==
  /\ held = Cardinality(Outstanding)
  /\ sent = Cardinality({r \in Outstanding : reqs[r].handle})
  /\ exported = Cardinality(Views)
  /\ Once(queue \o completed) /\ \A w \in Writes : Unanswered(w) <=> In(queue \o completed, w)
  /\ \A c \in Connects : Unanswered(c) <=> connectReq = c
  /\ s.phase = "open" => (Unanswered(Shutdown) <=> s.shut = "shutting")
  /\ inUse => main.call = "read"

\* When the close callback runs every request has been answered, all their
\* references and buffers are given back, and the watcher, whose memory may go
\* now, is in none of the loop's queues.
AnsweredBeforeClosed ==
  main.call = "close" \/ s.phase = "closed" =>
    /\ Outstanding = {} /\ held = 0 /\ exported = 0 /\ sent = 0 /\ ~inUse
    /\ ~s.pollin /\ ~s.pollout /\ ~s.fed

\* pyuv__stream_read_cb and pyuv__tcp_listen_cb call whatever is stored in the
\* handle: they run only while a Python callback is stored.  (A callback may
\* clear it; then the place in the loop has to notice.)
CallbackIsSet == [][main'.call = "read" /\ main.call # "read" => s.onread]_vars

\* Writes and sends are answered in the order of the calls, whatever fails and
\* whenever the handle is closed.
AnsweredInOrder == [][order' # order /\ Len(order') < Len(order) => order' = Tail(order)]_vars

\* While the loop waits, the handle is watched for whatever is outstanding on
\* it: writes, answers that are due, a connection, a shutdown that was asked
\* for, reading, and the connections of a listening handle.  But not while one
\* waits for accept(): uv__server_io asserts that none does when the next event
\* comes, and its descriptor would be lost.
NothingForgotten ==
  InIdle /\ s.phase = "open" =>
    /\ queue # <<>> \/ connectReq # None => s.pollout \/ s.fed
    /\ completed # <<>> /\ connectReq = None => s.fed
    /\ s.shut = "shutting" => s.pollout \/ s.fed
    /\ kind = "server" /\ s.onread => (s.pollin <=> ~s.accepted)
    /\ s.flag => s.pollin
=============================================================================
