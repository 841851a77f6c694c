--------------------------------- MODULE FsDns ---------------------------------
(***************************************************************************)
(* The functions of src/fs.c and src/dns.c: each makes a request           *)
(* (src/request.c) and either runs it in place or, with a callback, leaves *)
(* it to libuv's thread pool.  Who owns the request object, the buffer or  *)
(* view of its data, the addresses found and the Loop it belongs to.       *)
(*                                                                         *)
(* The pool is WorkSpec, which WorkQueue implements.  Every call of these  *)
(* functions is one of Calls: the object it makes is never used again.     *)
(*                                                                         *)
(* An operator named Wrong... is the definition after it with a plausible  *)
(* mistake; no action uses it.                                             *)
(***************************************************************************)
EXTENDS Naturals, FiniteSets

CONSTANT Calls   \* the calls, each with its request

ASSUME CallsAssumption == IsFiniteSet(Calls)

VARIABLES
  req,     \* the requests
  loop,    \* the Loop: references, whether a variable names it, memory
  status,  \* where each request is in the pool
  told     \* cancel() of it has returned True

vars == <<req, loop, status, told>>

Pool == INSTANCE WorkSpec WITH Requests <- Calls

\* What the functions return, by the shape of the result.
FsResults == {"stat", "nothing", "path", "number", "bytes", "written", "entries"}
Results == FsResults \cup {"addresses", "names"}

\* what: the result it is for.  refs: its Python count.  named: a variable names
\* it.  ptr: Request.req_ptr is set.  holds: memory allocated for it and not
\* released.  ok: the system call succeeded.  answer: what its caller was told.
Request ==
  [mem : {"absent", "live", "freed"}, what : Results, async : BOOLEAN, refs : 0 .. 2, named : BOOLEAN,
   ptr : BOOLEAN, holds : {"nothing", "buffer", "view", "addresses", "name"}, ok : BOOLEAN,
   answer : {"none", "result", "error", "cancelled", "raised"}]

Init ==
  /\ req = [c \in Calls |-> [mem |-> "absent", what |-> "nothing", async |-> FALSE, refs |-> 0, named |-> FALSE,
                             ptr |-> FALSE, holds |-> "nothing", ok |-> FALSE, answer |-> "none"]]
  /\ loop = [refs |-> 1, named |-> TRUE, freed |-> FALSE]
  /\ Pool!Init

-----------------------------------------------------------------------------
(* Request objects.                                                        *)

\* Request_tp_init and the tp_new and tp_init of the four kinds: a request is
\* made for a call; libuv's request is part of it.
New(what) ==
  [mem |-> "live", what |-> what, async |-> FALSE, refs |-> 1, named |-> FALSE, ptr |-> TRUE,
   holds |-> "nothing", ok |-> FALSE, answer |-> "none"]

\* Py_DECREF, Request_tp_dealloc.
Drop(o) == IF o.refs > 1 THEN [o EXCEPT !.refs = @ - 1] ELSE [o EXCEPT !.refs = 0, !.mem = "freed"]

\* The reference to the Loop is given back but was not taken.
WrongPut(c, o) ==
  /\ req' = [req EXCEPT ![c] = o]
  /\ LET refs == loop.refs - Cardinality({p \in {o} : p.mem = "freed" /\ req[c].mem # "freed"})
     IN loop' = [loop EXCEPT !.refs = refs, !.freed = refs = 0]

\* A request that lives owns a reference to the Loop: Request_tp_init and
\* Request_tp_clear.
Put(c, o) ==
  /\ req' = [req EXCEPT ![c] = o]
  /\ LET refs == loop.refs + Cardinality({p \in {o} : p.mem = "live"}) - Cardinality({p \in {req[c]} : p.mem = "live"})
     IN loop' = [loop EXCEPT !.refs = refs, !.freed = refs = 0]

\* The loop thread runs Python, in a callback or not, and can name the Loop.
Python == ~loop.freed /\ (loop.named \/ \E c \in Calls : req[c].named \/ status[c] = "reporting")

-----------------------------------------------------------------------------
(* The functions.                                                          *)

\* PyMem_Malloc of fs.read(), the view of fs.write().
Allocated(o) ==
  [o EXCEPT !.holds = IF o.what = "bytes" THEN "buffer" ELSE IF o.what = "written" THEN "view" ELSE "nothing"]

\* The request is returned to Python, and that reference is the only one.
WrongQueued(o) == [o EXCEPT !.async = TRUE, !.named = TRUE]

\* One reference for the callback and one for the value that is returned.
Queued(o) == [o EXCEPT !.async = TRUE, !.named = TRUE, !.refs = @ + 1]

\* pyuv__process_fs_req: only a success releases the data.
Processed(o, answer) ==
  [o EXCEPT !.answer = answer, !.holds = IF answer = "result" THEN "nothing" ELSE @]

\* The error path forgets the data.
WrongRaised(o) == Drop([o EXCEPT !.answer = "raised"])

\* libuv refuses the request or, in place, the system call fails.
Raised(o) == Drop([o EXCEPT !.answer = "raised", !.holds = "nothing"])

\* In place: pyuv__process_fs_req drops one of the two references, then the result is returned.
Returned(o) == Drop(Drop([Processed(o, "result") EXCEPT !.refs = @ + 1]))

\* Any of the functions of fs.c.
FsCall(c, what) ==
  /\ Python /\ req[c].mem = "absent"
  /\ LET o == Allocated(New(what))
     IN \/ Put(c, Queued(o)) /\ Pool!Queue(c)
        \/ Put(c, Raised(o)) /\ UNCHANGED <<status, told>>
        \/ Put(c, Returned(o)) /\ UNCHANGED <<status, told>>

StatCalls(c) == FsCall(c, "stat")
UnlinkMkdirRmdir(c) == FsCall(c, "nothing")
RenameChmod(c) == FsCall(c, "nothing")
FchmodLink(c) == FsCall(c, "nothing")
SymlinkReadlink(c) == \E what \in {"nothing", "path"} : FsCall(c, what)
ChownFchown(c) == FsCall(c, "nothing")
OpenClose(c) == \E what \in {"number", "nothing"} : FsCall(c, what)
Read(c) == FsCall(c, "bytes")
WriteFile(c) == FsCall(c, "written")
SyncTruncate(c) == FsCall(c, "nothing")
ScandirSendfile(c) == \E what \in {"entries", "number"} : FsCall(c, what)
UtimeFutime(c) == FsCall(c, "nothing")
AccessRealpath(c) == \E what \in {"nothing", "path"} : FsCall(c, what)

\* Util_func_getaddrinfo: in place the addresses are copied and never freed; a
\* service that is not ASCII leaves the encoded host behind.
GetAddrInfo(c) ==
  /\ Python /\ req[c].mem = "absent"
  /\ LET o == New("addresses")
     IN \/ Put(c, Queued(o)) /\ Pool!Queue(c)
        \/ Put(c, Raised(o)) /\ UNCHANGED <<status, told>>
        \/ Put(c, [Raised(o) EXCEPT !.holds = "name"]) /\ UNCHANGED <<status, told>>
        \/ Put(c, Drop([o EXCEPT !.answer = "result", !.holds = "addresses"])) /\ UNCHANGED <<status, told>>

\* Util_func_getnameinfo: in place the request is not dropped.
GetNameInfo(c) ==
  /\ Python /\ req[c].mem = "absent"
  /\ LET o == New("names")
     IN \/ Put(c, Queued(o)) /\ Pool!Queue(c)
        \/ Put(c, Raised(o)) /\ UNCHANGED <<status, told>>
        \/ Put(c, [o EXCEPT !.answer = "result"]) /\ UNCHANGED <<status, told>>

-----------------------------------------------------------------------------
(* The pool and the callbacks.                                             *)

Begin(c) == Pool!Start(c) /\ UNCHANGED <<req, loop>>

\* uv__fs_work, uv__getaddrinfo_work, uv__getnameinfo_work.
Execute(c) ==
  /\ Pool!Finish(c)
  /\ \E ok \in BOOLEAN :
       req' = [req EXCEPT ![c].ok = ok,
                          ![c].holds = IF ok /\ req[c].what = "addresses" THEN "addresses" ELSE @]
  /\ UNCHANGED loop

Outcome(c) ==
  IF status[c] = "cancelled" THEN "cancelled" ELSE IF req[c].ok THEN "result" ELSE "error"

\* The callback begins: the result is made and Python is called.
Report(c, o) ==
  /\ \A d \in Calls : status[d] # "reporting"
  /\ Pool!Report(c) /\ status'[c] = "reporting"
  /\ req' = [req EXCEPT ![c] = o]
  /\ UNCHANGED loop

ProcessFs(c) == req[c].what \in FsResults /\ Report(c, Processed(req[c], Outcome(c)))
GetAddrInfoCallback(c) == req[c].what = "addresses" /\ Report(c, [req[c] EXCEPT !.answer = Outcome(c)])
GetNameInfoCallback(c) == req[c].what = "names" /\ Report(c, [req[c] EXCEPT !.answer = Outcome(c)])

\* uv_fs_req_cleanup or uv_freeaddrinfo, req_ptr = NULL, Py_DECREF.
Ended(o) == Drop([o EXCEPT !.ptr = FALSE, !.holds = IF o.what = "addresses" THEN "nothing" ELSE @])

EndCallback(c) ==
  /\ Pool!EndReport(c) /\ status'[c] = "finished"
  /\ Put(c, Ended(req[c]))

-----------------------------------------------------------------------------
(* What Python does with a request.                                        *)

\* Request_func_cancel returns True.
Cancel(c) ==
  /\ req[c].named /\ req[c].ptr /\ status[c] = "queued"
  /\ status' = [status EXCEPT ![c] = "cancelled"] /\ told' = [told EXCEPT ![c] = TRUE]
  /\ UNCHANGED <<req, loop>>

\* The callback of an fs function gets the request and may keep it.
KeepName(c) ==
  /\ status[c] = "reporting" /\ req[c].what \in FsResults /\ ~req[c].named
  /\ Put(c, [req[c] EXCEPT !.named = TRUE, !.refs = @ + 1])
  /\ UNCHANGED <<status, told>>

DropName(c) ==
  /\ req[c].named
  /\ Put(c, Drop([req[c] EXCEPT !.named = FALSE]))
  /\ UNCHANGED <<status, told>>

DropLoop ==
  /\ loop.named
  /\ loop' = [refs |-> loop.refs - 1, named |-> FALSE, freed |-> loop.refs = 1]
  /\ UNCHANGED <<req, status, told>>

Next ==
  \/ \E c \in Calls :
       \/ StatCalls(c) \/ UnlinkMkdirRmdir(c) \/ RenameChmod(c) \/ FchmodLink(c) \/ SymlinkReadlink(c)
       \/ ChownFchown(c) \/ OpenClose(c) \/ Read(c) \/ WriteFile(c) \/ SyncTruncate(c) \/ ScandirSendfile(c)
       \/ UtimeFutime(c) \/ AccessRealpath(c) \/ GetAddrInfo(c) \/ GetNameInfo(c)
       \/ Begin(c) \/ Execute(c) \/ ProcessFs(c) \/ GetAddrInfoCallback(c) \/ GetNameInfoCallback(c) \/ EndCallback(c)
       \/ Cancel(c) \/ KeepName(c) \/ DropName(c)
  \/ DropLoop

Spec == Init /\ [][Next]_vars

-----------------------------------------------------------------------------
(* Properties.                                                             *)

\* Types of the requests of src/request.c and of the pool.
TypeOK ==
  /\ req \in [Calls -> Request] /\ Pool!TypeOK
  /\ loop \in [refs : 0 .. Cardinality(Calls) + 1, named : BOOLEAN, freed : BOOLEAN]

Outstanding == {"queued", "executing", "executed", "cancelled", "reporting"}

\* As long as libuv has a request, and until its callback is back, the object
\* and the memory the system call works on exist, and so does the Loop, whatever
\* Python drops; and cancel() hands libuv only requests that libuv has.
KeptWhileUsed ==
  TypeOK /\ \A c \in Calls :
    /\ status[c] \in Outstanding =>
         /\ req[c].mem = "live" /\ ~loop.freed
         /\ req[c].refs = 1 + Cardinality({x \in {c} : req[x].named})
         /\ status[c] \in {"queued", "executing", "cancelled"} => req[c].holds = Allocated(req[c]).holds
    /\ req[c].named => req[c].mem = "live"
    /\ req[c].mem = "live" => ~loop.freed
    /\ req[c].named /\ req[c].ptr => status[c] \in Outstanding

\* The caller knows the outcome and no callback of this call is running.
Over(c) == req[c].answer # "none" /\ status[c] # "reporting"

\* "No need to cleanup, it will be done in the callback" (every function of
\* src/fs.c): when the callback has been called the data is released.
CleanedUp ==
  \A c \in Calls : Over(c) /\ req[c].async /\ req[c].what \in FsResults => req[c].holds = "nothing"

\* Nothing outlives a call but: the buffer of a read, the view of a write that
\* failed or was cancelled in the pool; the addresses of a getaddrinfo() in
\* place, and the host of one whose service is not ASCII; the request of a
\* getnameinfo() in place, which keeps the Loop for good.
OnlyTheseLeak ==
  \A c \in Calls : Over(c) =>
    LET o == req[c]
    IN /\ o.holds \in {"buffer", "view"} <=>
            o.async /\ o.what \in {"bytes", "written"} /\ o.answer \in {"error", "cancelled"}
       /\ o.holds = "addresses" <=> ~o.async /\ o.what = "addresses" /\ o.answer = "result"
       /\ o.holds = "name" => ~o.async /\ o.what = "addresses" /\ o.answer = "raised"
       /\ o.mem = "live" /\ ~o.named <=> ~o.async /\ o.what = "names" /\ o.answer = "result"
=============================================================================
