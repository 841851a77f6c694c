--------------------------- MODULE SocketIOProofs ---------------------------
(***************************************************************************)
(* A Stream or UDP handle keeps what its requests hold until they are      *)
(* answered, answers all of them before it is closed, and is watched for   *)
(* what is outstanding, for any number of requests: proofs of the          *)
(* properties of SocketIO.                                                 *)
(***************************************************************************)
EXTENDS SocketIO, QueueLemmas, FiniteSetTheorems, SequenceTheorems, TLAPS

Corner(c) == c \in Corners

-----------------------------------------------------------------------------
(* The inductive invariant.                                                *)

\* The types, but for the counts and the lengths of TypeOK.
TypeInv ==
  /\ kind \in Kinds /\ s \in Handle /\ main \in Main
  /\ connectReq \in Connects \cup {None}
  /\ reqs \in [Requests -> [st : {"idle", "pending", "calling"}, views : 0 .. MaxViews, handle : BOOLEAN, err : WriteResults]]
  /\ queue \in Seq(Writes) /\ completed \in Seq(Writes) /\ order \in Seq(Writes)

\* The writes that wait for an answer: in the order of the calls.
ListInv ==
  /\ order = completed \o queue /\ Once(order)
  /\ \A w \in Writes : Unanswered(w) <=> In(order, w)

\* The other requests, and the one whose callback runs.
RequestInv ==
  /\ \A r \in Requests : reqs[r].st = "calling" <=> main.call = r
  /\ \A r \in Requests \ Writes : reqs[r].views = 0 /\ ~reqs[r].handle
  /\ connectReq # None => Unanswered(connectReq)
  /\ ~Corner("reconnect") => \A c \in Connects : Unanswered(c) => connectReq = c
  /\ s.phase = "open" => (Unanswered(Shutdown) <=> s.shut = "shutting")

\* What the outstanding requests hold.
CountInv ==
  /\ held = Cardinality(Outstanding)
  /\ sent = Cardinality({r \in Outstanding : reqs[r].handle})
  /\ exported = Cardinality(Views)

\* The loop's buffer is locked only around a read callback.
BufferInv == inUse \in BOOLEAN /\ (inUse => main.call = "read" /\ kind # "server")

\* Which callbacks run where.
PlaceInv ==
  /\ main.at = "idle" => main.call \in {Shutdown, None}
  /\ main.at \in {"connected", "destroy"} => main.call \in Connects \cup {None}
  /\ main.at \in {"flush", "callbacks"} => main.call \in Writes \cup {None}
  /\ main.at = "read" => main.call \in {"read", None}
  /\ main.at = "write" => main.call = None /\ main.out /\ (kind = "udp" \/ s.phase = "open")
  /\ main.at = "cancel" => main.call \in Writes \cup {Shutdown, None}
  /\ main.at = "ended" => main.call \in {"close", None}
  /\ kind = "server" => connectReq = None /\ main.at \notin {"connected", "flush", "callbacks"}

\* The way to the close callback.
CloseInv ==
  /\ main.at = "ended" <=> s.phase = "closed"
  /\ main.at \in {"destroy", "cancel"} => s.phase = "closing"
  /\ main.at \in {"destroy", "cancel", "ended"} => connectReq = None
  /\ main.at \in {"cancel", "ended"} => queue = <<>>
  /\ main.at = "ended" => completed = <<>> /\ ~Unanswered(Shutdown)

\* A handle that was closed is watched for nothing, and feeds itself no event.
ClosedInv ==
  s.phase # "open" =>
    /\ ~s.fd /\ ~s.flag /\ ~s.pollin /\ ~s.pollout
    /\ ~Corner("close in recv") =>
         ~s.fed /\ (kind = "udp" /\ main.out /\ main.at \in {"read", "write"} => queue = <<>>)

\* Reading and listening come with a callback, and with POLLIN, which is not
\* watched for while a connection waits.
ReadInv ==
  /\ s.flag => s.pollin /\ s.onread /\ kind # "server"
  /\ kind = "udp" /\ s.readcb => s.onread
  /\ kind = "server" /\ (s.pollin \/ s.accepted \/ main.at = "read") => s.onread
  /\ kind = "server" /\ s.onread /\ s.phase = "open" /\ (~s.accepted \/ main.at = "read")
       => s.pollin \/ Corner("late accept")
  /\ kind = "server" /\ s.accepted /\ ~Corner("listen again") => IF main.at = "read" THEN main.call = "read" ELSE ~s.pollin

\* What is outstanding is watched for, or the handle's code is about to see it.
WatchInv ==
  s.phase = "open" /\ ~Corner("early shutdown") /\ ~Corner("late connect") =>
    /\ ~s.fd => order = <<>>
    /\ connectReq # None =>
         /\ kind \in {"tcp", "pipe"} /\ (kind = "tcp" => s.fd) /\ main.at \notin {"read", "write", "callbacks"}
         /\ s.shut # "shutting" /\ (s.pollout \/ (s.delayed /\ s.fed))
         /\ main.at \in {"idle", "connected"} => completed = <<>>
    /\ kind = "udp" /\ queue # <<>> => s.pollout
    /\ queue # <<>> => s.pollout \/ s.fed \/ main.at = "write" \/ (main.at = "connected" /\ main.failed /\ s.fd)
    /\ completed # <<>> /\ main.at \in {"idle", "connected", "read"} => s.fed
    /\ s.shut = "shutting" =>
         kind \in {"tcp", "pipe"} /\ (s.pollout \/ s.fed \/ main.at \in {"write", "callbacks"})

Inv ==
  /\ TypeInv /\ ListInv /\ RequestInv /\ CountInv /\ BufferInv /\ PlaceInv /\ CloseInv /\ ClosedInv
  /\ ReadInv /\ WatchInv
-----------------------------------------------------------------------------
(* Lemmas about the requests.                                              *)

\* Requests, places and callbacks are told apart.
LEMMA Names ==
  /\ "read" \notin Requests /\ "close" \notin Requests /\ None \notin Requests
  /\ None # "read" /\ None # "close"
  /\ Shutdown \in Requests /\ Shutdown \notin Writes /\ Shutdown \notin Connects
  /\ \A w \in Writes : w \in Requests /\ w \notin Connects
  /\ \A c \in Connects : c \in Requests /\ c \notin Writes
  /\ \A r \in Requests : r \in Writes \/ r \in Connects \/ r = Shutdown
  /\ MaxViews \in Nat /\ IsFiniteSet(Requests) /\ IsFiniteSet(Writes)
<1>1. Writes \in SUBSET Requests
  BY DEF Requests
<1>2. IsFiniteSet(Writes)
  BY <1>1, SocketAssumption, FS_Subset
<1> QED BY <1>2, SocketAssumption DEF Requests

\* The sets that are counted are finite.
LEMMA CountedFinite ==
  ASSUME TypeInv
  PROVE  /\ IsFiniteSet(Outstanding) /\ IsFiniteSet({r \in Outstanding : reqs[r].handle}) /\ IsFiniteSet(Views)
         /\ Outstanding \in SUBSET Requests
<1>1. Outstanding \in SUBSET Requests
  BY DEF Outstanding
<1>2. IsFiniteSet(Outstanding)
  BY <1>1, Names, FS_Subset
<1>3. IsFiniteSet({r \in Outstanding : reqs[r].handle})
  <2>1. {r \in Outstanding : reqs[r].handle} \in SUBSET Outstanding
    OBVIOUS
  <2> QED BY <1>2, <2>1, FS_Subset
<1>4. IsFiniteSet(Views)
  <2>1. IsFiniteSet(1 .. MaxViews)
    BY Names, FS_Interval
  <2>2. IsFiniteSet(Outstanding \X (1 .. MaxViews))
    BY <1>2, <2>1, FS_Product
  <2>3. Views \in SUBSET (Outstanding \X (1 .. MaxViews))
    BY DEF Views
  <2> QED BY <2>2, <2>3, FS_Subset
<1> QED BY <1>1, <1>2, <1>3, <1>4

\* The views of one request.
LEMMA ViewsOfOne ==
  ASSUME NEW r, NEW n \in Nat
  PROVE  IsFiniteSet({r} \X (1 .. n)) /\ Cardinality({r} \X (1 .. n)) = n
<1>1. IsFiniteSet({r}) /\ Cardinality({r}) = 1
  BY FS_Singleton
<1>2. IsFiniteSet(1 .. n) /\ Cardinality(1 .. n) = n
  <2>1. IsFiniteSet(1 .. n) /\ Cardinality(1 .. n) = IF 1 > n THEN 0 ELSE n - 1 + 1
    BY FS_Interval
  <2> QED BY <2>1
<1>3. IsFiniteSet({r} \X (1 .. n)) /\ Cardinality({r} \X (1 .. n)) = Cardinality({r}) * Cardinality(1 .. n)
  BY <1>1, <1>2, FS_Product
<1> QED BY <1>1, <1>2, <1>3

\* No request begins or ends.
LEMMA SameCounts ==
  ASSUME CountInv, UNCHANGED refs,
         \A r \in Requests : (reqs'[r].st = "idle" <=> reqs[r].st = "idle")
                             /\ reqs'[r].views = reqs[r].views /\ reqs'[r].handle = reqs[r].handle
  PROVE  CountInv'
<1>1. Outstanding' = Outstanding /\ Outstanding \subseteq Requests
  BY DEF Outstanding
<1>2. {r \in Outstanding : reqs[r].handle}' = {r \in Outstanding : reqs[r].handle}
  BY <1>1
<1>3. Views' = Views
  BY <1>1 DEF Views
<1> QED BY <1>1, <1>2, <1>3 DEF CountInv, refs

\* A call keeps the handle, the views and the handle to send.
LEMMA KeepCounts ==
  ASSUME TypeInv, CountInv, NEW r \in Requests, reqs[r].st = "idle",
         NEW n \in 0 .. MaxViews, NEW h \in BOOLEAN, NEW e \in WriteResults, Keep(r, n, h, e)
  PROVE  CountInv'
<1>1. /\ reqs'[r].st = "pending" /\ reqs'[r].views = n /\ reqs'[r].handle = h
      /\ \A x \in Requests \ {r} : reqs'[x] = reqs[x]
  BY DEF Keep, Kept, TypeInv
<1>2. exported' = exported + n /\ sent' = (IF h THEN sent + 1 ELSE sent) /\ held' = held + 1
  BY DEF Keep
<1>3. Outstanding' = Outstanding \cup {r} /\ r \notin Outstanding
  BY <1>1 DEF Outstanding
<1>4. held' = Cardinality(Outstanding')
  BY <1>2, <1>3, CountedFinite, FS_AddElement DEF CountInv
<1>5. sent' = Cardinality({x \in Outstanding : reqs[x].handle}')
  <2> DEFINE H == {x \in Outstanding : reqs[x].handle}
  <2>1. r \notin H /\ IsFiniteSet(H) /\ sent = Cardinality(H)
    BY <1>3, CountedFinite DEF CountInv
  <2>2. H' = IF h THEN H \cup {r} ELSE H
    BY <1>1, <1>3 DEF Outstanding
  <2> HIDE DEF H
  <2>3. sent' = Cardinality(H')
    BY <1>2, <2>1, <2>2, FS_AddElement
  <2> QED BY <2>3 DEF H
<1>6. exported' = Cardinality(Views')
  <2> DEFINE new == {r} \X (1 .. n)
  <2>1. Views' = Views \cup new /\ Views \cap new = {}
    <3>1. Views \cap new = {}
      BY <1>3 DEF Views
    <3>2. Views = {v \in Outstanding' \X (1 .. MaxViews) : v[1] # r /\ v[2] <= reqs'[v[1]].views}
      BY <1>1, <1>3 DEF Views, Outstanding
    <3>3. Views' = {v \in Outstanding' \X (1 .. MaxViews) : v[1] # r /\ v[2] <= reqs'[v[1]].views} \cup new
      BY <1>1, <1>3, Names DEF Views
    <3> QED BY <3>1, <3>2, <3>3
  <2>2. IsFiniteSet(Views) /\ IsFiniteSet(new) /\ Cardinality(new) = n /\ Cardinality(Views) \in Nat
    <3>1. n \in Nat
      BY Names
    <3> QED BY <3>1, CountedFinite, ViewsOfOne, FS_CardinalityType
  <2>3. Cardinality(Views \cup new) = Cardinality(Views) + Cardinality(new) - Cardinality(Views \cap new)
    BY <2>2, FS_Union
  <2>4. Cardinality(Views \cap new) = 0
    BY <2>1, FS_EmptySet
  <2> QED BY <1>2, <2>1, <2>2, <2>3, <2>4 DEF CountInv
<1> QED BY <1>4, <1>5, <1>6 DEF CountInv

\* A callback gives them back.
LEMMA ReleaseCounts ==
  ASSUME TypeInv, CountInv, NEW r \in Requests, reqs[r].st # "idle", Release(r)
  PROVE  CountInv'
<1>1. /\ reqs'[r].st = "idle" /\ \A x \in Requests \ {r} : reqs'[x] = reqs[x]
      /\ reqs[r].views \in 0 .. MaxViews
  BY DEF Release, TypeInv
<1>2. exported' = exported - reqs[r].views /\ sent' = (IF reqs[r].handle THEN sent - 1 ELSE sent) /\ held' = held - 1
  BY DEF Release
<1>3. Outstanding' = Outstanding \ {r} /\ r \in Outstanding
  BY <1>1 DEF Outstanding
<1>4. held' = Cardinality(Outstanding')
  BY <1>2, <1>3, CountedFinite, FS_RemoveElement DEF CountInv
<1>5. sent' = Cardinality({x \in Outstanding : reqs[x].handle}')
  <2> DEFINE H == {x \in Outstanding : reqs[x].handle}
  <2>1. IsFiniteSet(H) /\ sent = Cardinality(H) /\ (r \in H <=> reqs[r].handle)
    BY <1>3, CountedFinite DEF CountInv
  <2>2. H' = H \ {r}
    BY <1>1, <1>3 DEF Outstanding
  <2> HIDE DEF H
  <2>3. Cardinality(H \ {r}) = IF r \in H THEN Cardinality(H) - 1 ELSE Cardinality(H)
    BY <2>1, FS_RemoveElement
  <2>4. sent' = Cardinality(H')
    BY <1>2, <2>1, <2>2, <2>3
  <2> QED BY <2>4 DEF H
<1>6. exported' = Cardinality(Views')
  <2> DEFINE old == {r} \X (1 .. reqs[r].views)
  <2>1. Views = Views' \cup old /\ Views' \cap old = {}
    <3>1. \A v \in Views' : v[1] # r
      BY <1>3 DEF Views
    <3>2. Views = {v \in Outstanding \X (1 .. MaxViews) : v[1] # r /\ v[2] <= reqs[v[1]].views} \cup old
      BY <1>1, <1>3, Names DEF Views
    <3>3. Views' = {v \in Outstanding \X (1 .. MaxViews) : v[1] # r /\ v[2] <= reqs[v[1]].views}
      BY <1>1, <1>3 DEF Views, Outstanding
    <3> QED BY <3>1, <3>2, <3>3
  <2>2. IsFiniteSet(Views) /\ IsFiniteSet(old) /\ Cardinality(old) = reqs[r].views
    <3>1. reqs[r].views \in Nat
      BY <1>1, Names
    <3> QED BY <3>1, CountedFinite, ViewsOfOne
  <2>3. IsFiniteSet(Views') /\ Cardinality(Views') \in Nat
    <3>1. Views' \in SUBSET Views
      BY <2>1
    <3> QED BY <2>2, <3>1, FS_Subset, FS_CardinalityType
  <2>4. Cardinality(Views' \cup old) = Cardinality(Views') + Cardinality(old) - Cardinality(Views' \cap old)
    BY <2>2, <2>3, FS_Union
  <2>5. Cardinality(Views' \cap old) = 0
    BY <2>1, FS_EmptySet
  <2>6. Cardinality(Views) = Cardinality(Views') + reqs[r].views
    BY <1>1, <2>1, <2>2, <2>3, <2>4, <2>5
  <2> QED BY <1>1, <1>2, <2>3, <2>6 DEF CountInv
<1> QED BY <1>4, <1>5, <1>6 DEF CountInv

-----------------------------------------------------------------------------
(* The calls and steps that make and answer no request.                    *)

\* What is left to show of a step that leaves the requests alone.
LEMMA QuietKeeps ==
  ASSUME Inv, UNCHANGED <<kind, connectReq, writing>>, s' \in Handle, main' \in Main,
         \A r \in Requests : main'.call = r <=> main.call = r,
         s'.phase = "open" => s.phase = "open" /\ s'.shut = s.shut,
         BufferInv', PlaceInv', CloseInv', ClosedInv', ReadInv', WatchInv'
  PROVE  Inv'
<1>1. UNCHANGED <<kind, connectReq, queue, completed, reqs, held, exported, sent, order>>
  BY DEF writing, refs
<1>2. TypeInv'
  BY <1>1 DEF Inv, TypeInv
<1>3. ListInv'
  BY <1>1 DEF Inv, ListInv, Unanswered
<1>4. RequestInv'
  BY <1>1 DEF Inv, RequestInv, Unanswered
<1>5. CountInv'
  BY <1>1, SameCounts DEF Inv, refs
<1> QED BY <1>2, <1>3, <1>4, <1>5 DEF Inv

\* Of one that only changes the handle.
LEMMA HandleCallKeeps ==
  ASSUME Inv, Api, UNCHANGED <<kind, connectReq, writing, inUse, main>>, s' \in Handle,
         (s'.phase = "open" /\ s'.shut = s.shut) \/ s'.phase = "closing",
         ClosedInv', ReadInv', WatchInv'
  PROVE  Inv'
<1>1. s.phase = "open" /\ (main.at = "idle" \/ main.call # None) /\ main' \in Main
  BY DEF Api, Inv, TypeInv
<1>2. BufferInv'
  BY DEF Inv, BufferInv
<1>3. PlaceInv'
  BY <1>1 DEF Inv, PlaceInv
<1>4. CloseInv'
  BY <1>1 DEF Inv, CloseInv, Unanswered, writing
<1> QED BY <1>1, <1>2, <1>3, <1>4, QuietKeeps

\* The handle is watched for as much as before.
LEMMA WatchFrame ==
  ASSUME Inv, UNCHANGED <<kind, connectReq, queue, completed, order>>, s.phase = "open",
         main'.at = main.at, main'.failed = main.failed,
         s'.shut = s.shut, s'.delayed = s.delayed \/ connectReq = None, s.fd => s'.fd, s.pollout => s'.pollout, s.fed => s'.fed
  PROVE  WatchInv'
BY DEF Inv, WatchInv

\* Reading and receiving start.
LEMMA StartReadKeeps ==
  ASSUME Inv, StartRead \/ StartRecv
  PROVE  Inv'
<1>1. /\ Api /\ UNCHANGED <<kind, connectReq, writing, inUse, main>> /\ kind # "server"
      /\ s' = ReadStarted
  BY DEF StartRead, StartRecv, Stream
<1>2. s' \in Handle
  BY <1>1 DEF ReadStarted, Inv, TypeInv, Handle
<1>3. /\ s'.phase = "open" /\ s'.shut = s.shut /\ s.phase = "open" /\ s'.fd /\ s'.pollout = s.pollout
      /\ s'.fed = s.fed /\ s'.delayed = s.delayed
  BY <1>1 DEF ReadStarted, Inv, TypeInv, Handle, Api
<1>4. ClosedInv'
  BY <1>3 DEF ClosedInv
<1>5. ReadInv'
  BY <1>1 DEF Inv, ReadInv, ReadStarted, TypeInv, Handle
<1>6. WatchInv'
  BY <1>1, <1>3, WatchFrame DEF writing
<1> QED BY <1>1, <1>2, <1>3, <1>4, <1>5, <1>6, HandleCallKeeps

\* They stop.
LEMMA StopReadKeeps ==
  ASSUME Inv, StopRead \/ StopRecv
  PROVE  Inv'
<1>1. /\ Api /\ UNCHANGED <<kind, connectReq, writing, inUse, main>> /\ kind # "server"
      /\ \/ s' = [ReadStopped(s) EXCEPT !.onread = FALSE, !.pyref = FALSE] /\ kind # "udp"
         \/ s' = [s EXCEPT !.flag = FALSE, !.readcb = FALSE, !.pollin = FALSE, !.onread = FALSE, !.pyref = FALSE]
  BY DEF StopRead, StopRecv, Stream
<1>2. s' \in Handle
  BY <1>1 DEF ReadStopped, Inv, TypeInv, Handle
<1>3. /\ s'.phase = "open" /\ s'.shut = s.shut /\ s.phase = "open" /\ s'.fd = s.fd /\ s'.pollout = s.pollout
      /\ s'.fed = s.fed /\ s'.delayed = s.delayed /\ ~s'.flag /\ ~s'.onread /\ (kind = "udp" => ~s'.readcb)
  BY <1>1 DEF ReadStopped, Inv, TypeInv, Handle, Api
<1>4. ClosedInv'
  BY <1>3 DEF ClosedInv
<1>5. ReadInv'
  BY <1>1, <1>3 DEF ReadInv
<1>6. WatchInv'
  BY <1>1, <1>3, WatchFrame DEF writing
<1> QED BY <1>1, <1>2, <1>3, <1>4, <1>5, <1>6, HandleCallKeeps

\* The handle gets a socket.
LEMMA OpenKeeps ==
  ASSUME Inv, ConnectTcpRaises \/ Open \/ Bind
  PROVE  Inv'
<1>1. /\ Api /\ UNCHANGED <<kind, connectReq, writing, inUse, main>>
      /\ \/ connectReq = None /\ s' = [s EXCEPT !.fd = TRUE, !.delayed = FALSE]
         \/ s' = [s EXCEPT !.fd = TRUE]
         \/ /\ kind \in {"tcp", "udp", "server"} /\ ~s.fd
            /\ \E inuse \in BOOLEAN : s' = [s EXCEPT !.fd = TRUE, !.delayed = inuse /\ kind # "udp"]
  BY DEF ConnectTcpRaises, Open, Bind
<1>2. s' \in Handle
  BY <1>1 DEF Inv, TypeInv, Handle
<1>3. /\ s'.phase = "open" /\ s'.shut = s.shut /\ s.phase = "open" /\ s'.fd /\ s'.pollout = s.pollout
      /\ s'.fed = s.fed /\ s'.flag = s.flag /\ s'.onread = s.onread /\ s'.readcb = s.readcb /\ s'.pollin = s.pollin
      /\ s'.accepted = s.accepted /\ s'.delayed \in BOOLEAN
      /\ \/ s'.delayed = s.delayed \/ connectReq = None
         \/ kind \in {"tcp", "udp", "server"} /\ ~s.fd
  BY <1>1 DEF Inv, TypeInv, Handle, Api
<1>4. ClosedInv'
  BY <1>3 DEF ClosedInv
<1>5. ReadInv'
  BY <1>1, <1>3 DEF Inv, ReadInv
<1>6. WatchInv'
  <2>1. CASE s'.delayed = s.delayed \/ connectReq = None
    BY <1>1, <1>3, <2>1, WatchFrame DEF writing
  <2>2. CASE kind \in {"tcp", "udp", "server"} /\ ~s.fd
    <3>1. WatchInv => connectReq = None \/ Corner("early shutdown") \/ Corner("late connect")
      BY <1>3, <2>2 DEF WatchInv
    <3> QED BY <1>1, <1>3, <3>1, WatchFrame DEF writing, Inv, WatchInv
  <2> QED BY <1>3, <2>1, <2>2
<1> QED BY <1>1, <1>2, <1>3, <1>4, <1>5, <1>6, HandleCallKeeps

\* listen() and accept().
LEMMA ListenKeeps ==
  ASSUME Inv, Listen \/ Accept
  PROVE  Inv'
<1>1. /\ Api /\ UNCHANGED <<kind, connectReq, writing, inUse, main>> /\ kind = "server"
      /\ \/ /\ s' = [s EXCEPT !.fd = TRUE, !.pollin = TRUE, !.onread = TRUE]
            /\ s.accepted /\ main.at = "idle" => Corner("listen again")
         \/ s' = [s EXCEPT !.accepted = FALSE, !.pollin = TRUE] /\ s.accepted
         \/ /\ s' = [s EXCEPT !.accepted = FALSE] /\ s.accepted
            /\ main.at # "idle" \/ Corner("late accept")
  BY DEF Listen, Accept, Corner
<1>2. s' \in Handle
  BY <1>1 DEF Inv, TypeInv, Handle
<1>3. /\ s'.phase = "open" /\ s'.shut = s.shut /\ s.phase = "open" /\ (s.fd => s'.fd) /\ s'.pollout = s.pollout
      /\ s'.fed = s.fed /\ s'.delayed = s.delayed /\ s'.flag = s.flag
      /\ s'.accepted => s.accepted /\ (main.at = "idle" => Corner("listen again"))
      /\ \/ s'.pollin /\ s'.onread
         \/ s'.pollin /\ s'.onread = s.onread /\ s.accepted
         \/ /\ s'.pollin = s.pollin /\ s'.onread = s.onread /\ s.accepted
            /\ main.at # "idle" \/ Corner("late accept")
  BY <1>1 DEF Inv, TypeInv, Handle, Api
<1>4. ClosedInv'
  BY <1>3 DEF ClosedInv
<1>5. main.at \in {"idle", "read"} /\ ~s.flag
  BY <1>1, <1>3 DEF Inv, TypeInv, Main, Places, PlaceInv, CloseInv, ReadInv, Api
<1>6. ReadInv'
  BY <1>1, <1>3, <1>5 DEF Inv, ReadInv
<1>7. WatchInv'
  BY <1>1, <1>3, WatchFrame DEF writing
<1> QED BY <1>1, <1>2, <1>3, <1>4, <1>6, <1>7, HandleCallKeeps

\* uv__write changes two fields.
LEMMA AfterWriteIs ==
  ASSUME s \in Handle, NEW e \in WriteResults
  PROVE  LET t == AfterWrite(e) IN
         /\ t \in Handle
         /\ (s.fed => t.fed) /\ (e # "none" => t.fed) /\ (e = "none" => t.pollout)
         /\ (s.pollout => t.pollout \/ t.fed)
         /\ t.phase = s.phase /\ t.fd = s.fd /\ t.flag = s.flag /\ t.readcb = s.readcb /\ t.onread = s.onread
         /\ t.pyref = s.pyref /\ t.pollin = s.pollin /\ t.shut = s.shut /\ t.delayed = s.delayed /\ t.accepted = s.accepted
<1> DEFINE f == s.fed \/ e # "none"
           p == (s.pollout /\ e # "failed") \/ e = "none"
<1>1. f \in BOOLEAN /\ p \in BOOLEAN
  OBVIOUS
<1>2. AfterWrite(e) = [s EXCEPT !.fed = f, !.pollout = p]
  BY DEF AfterWrite
<1>3. (s.fed => f) /\ (e # "none" => f) /\ (e = "none" => p) /\ (s.pollout => p \/ f)
  OBVIOUS
<1> HIDE DEF f, p
<1>4. AfterWrite(e) \in Handle
  BY <1>1, <1>2 DEF Handle
<1>5. AfterWrite(e).fed = f /\ AfterWrite(e).pollout = p
  BY <1>2 DEF Handle
<1> QED BY <1>2, <1>3, <1>4, <1>5 DEF Handle

\* try_write() leaves no request behind.
LEMMA TryWriteKeeps ==
  ASSUME Inv, TryWrite
  PROVE  Inv'
<1>1. /\ Api /\ UNCHANGED <<kind, connectReq, writing, inUse, main>> /\ Stream
      /\ connectReq = None /\ queue = <<>> /\ s.fd
  BY DEF TryWrite, NothingQueued
<1>2. PICK e \in WriteResults : s' = [AfterWrite(e) EXCEPT !.pollout = @ /\ s.pollout]
  BY DEF TryWrite
<1>3. s' \in Handle
  <2> DEFINE p == AfterWrite(e).pollout /\ s.pollout
  <2>1. AfterWrite(e) \in Handle /\ p \in BOOLEAN
    BY AfterWriteIs DEF Inv, TypeInv
  <2>2. s' = [AfterWrite(e) EXCEPT !.pollout = p]
    BY <1>2
  <2> HIDE DEF p
  <2> QED BY <2>1, <2>2 DEF Handle
<1>4. /\ s'.phase = "open" /\ s'.shut = s.shut /\ s.phase = "open" /\ s'.fd = s.fd /\ (s.fed => s'.fed)
      /\ s.pollout => s'.pollout \/ s'.fed
      /\ s'.flag = s.flag /\ s'.onread = s.onread /\ s'.readcb = s.readcb /\ s'.pollin = s.pollin
      /\ s'.accepted = s.accepted
  BY <1>1, <1>2 DEF AfterWrite, Inv, TypeInv, Handle, Api, WriteResults
<1>5. ClosedInv'
  BY <1>4 DEF ClosedInv
<1>6. ReadInv'
  BY <1>1, <1>4 DEF Inv, ReadInv
<1>7. WatchInv'
  BY <1>1, <1>4 DEF Inv, WatchInv, writing, Stream
<1> QED BY <1>1, <1>3, <1>4, <1>5, <1>6, <1>7, HandleCallKeeps

\* close()
LEMMA CloseKeeps ==
  ASSUME Inv, Close
  PROVE  Inv'
<1>1. /\ Api /\ UNCHANGED <<kind, connectReq, writing, inUse, main>>
      /\ kind = "udp" /\ main.call = "read" /\ main.out /\ queue # <<>> => Corner("close in recv")
      /\ s' = [s EXCEPT !.phase = "closing", !.fd = FALSE, !.flag = FALSE, !.pollin = FALSE, !.pollout = FALSE,
                        !.fed = FALSE, !.accepted = FALSE, !.readcb = @ /\ ~s.flag]
  BY DEF Close, Corner
<1>2. s' \in Handle
  <2> DEFINE b == s.readcb /\ ~s.flag
  <2>1. b \in BOOLEAN
    OBVIOUS
  <2>2. s' = [s EXCEPT !.phase = "closing", !.fd = FALSE, !.flag = FALSE, !.pollin = FALSE, !.pollout = FALSE,
                       !.fed = FALSE, !.accepted = FALSE, !.readcb = b]
    BY <1>1
  <2> HIDE DEF b
  <2> QED BY <2>1, <2>2 DEF Inv, TypeInv, Handle
<1>3. /\ s'.phase = "closing" /\ ~s'.fd /\ ~s'.flag /\ ~s'.pollin /\ ~s'.pollout /\ ~s'.fed /\ (s'.readcb => s.readcb)
      /\ s'.onread = s.onread /\ ~s'.accepted
  BY <1>1 DEF Inv, TypeInv, Handle
<1>4. main.at = "read" => main.call = "read"
  BY <1>1 DEF Inv, PlaceInv, Api
<1>5. main.at # "write"
  BY <1>1 DEF Inv, PlaceInv, Api
<1>6. ClosedInv'
  BY <1>1, <1>3, <1>4, <1>5 DEF ClosedInv, writing
<1>7. ReadInv'
  BY <1>1, <1>3 DEF Inv, ReadInv
<1>8. WatchInv'
  BY <1>3 DEF WatchInv
<1> QED BY <1>1, <1>2, <1>3, <1>6, <1>7, <1>8, HandleCallKeeps

\* The loop is out of the handle's code.
LEMMA RestIs ==
  Rest \in Main /\ Rest.at = "idle" /\ Rest.out = FALSE /\ Rest.failed = FALSE /\ Rest.result = "none" /\ Rest.call = None
BY DEF Rest, Main, Places, Results

\* uv_read_stop
LEMMA ReadStoppedIs ==
  ASSUME s \in Handle
  PROVE  LET t == ReadStopped(s) IN
         /\ t \in Handle /\ (t.readcb => s.readcb) /\ ~t.flag /\ (s.flag \/ t = s)
         /\ t.phase = s.phase /\ t.fd = s.fd /\ t.onread = s.onread /\ t.pyref = s.pyref /\ t.pollout = s.pollout
         /\ t.fed = s.fed /\ t.shut = s.shut /\ t.delayed = s.delayed /\ t.accepted = s.accepted
<1>1. CASE s.flag
  BY <1>1 DEF ReadStopped, Handle
<1>2. CASE ~s.flag
  BY <1>2 DEF ReadStopped, Handle
<1> QED BY <1>1, <1>2

\* A call that raises gives back the views it took.
LEMMA StutterKeeps ==
  ASSUME Inv, UNCHANGED vars \/ \E i \in 0 .. MaxViews : WriteRaises(i)
  PROVE  Inv'
<1>1. UNCHANGED <<kind, s, connectReq, queue, completed, reqs, held, sent, order, inUse, main>>
  BY DEF WriteRaises, vars
<1>2. exported' = exported
  <2>1. exported \in Nat
    BY CountedFinite, FS_CardinalityType DEF Inv, CountInv
  <2>2. CASE UNCHANGED vars
    BY <2>2 DEF vars
  <2>3. CASE \E i \in 0 .. MaxViews : WriteRaises(i)
    <3>1. PICK i \in 0 .. MaxViews : exported' = exported + i - i
      BY <2>3 DEF WriteRaises, Unview
    <3> QED BY <2>1, <3>1
  <2> QED BY <2>2, <2>3
<1>3. BufferInv' /\ PlaceInv' /\ CloseInv' /\ ClosedInv'
  BY <1>1 DEF Inv, BufferInv, PlaceInv, CloseInv, ClosedInv, Unanswered
<1>4. ReadInv' /\ WatchInv'
  BY <1>1 DEF Inv, ReadInv, WatchInv
<1> QED BY <1>1, <1>2, <1>3, <1>4, QuietKeeps DEF writing, refs, Inv, TypeInv

\* The connection is still in progress, or the canceled writes are answered.
LEMMA BackToIdleKeeps ==
  ASSUME Inv, StillConnecting \/ FlushDone
  PROVE  Inv'
<1>1. /\ UNCHANGED <<kind, connectReq, writing, inUse>> /\ main.call = None
      /\ \/ /\ UNCHANGED main /\ main.at = "idle" /\ s.phase = "open" /\ connectReq # None /\ ~s.delayed
            /\ s' = [s EXCEPT !.fed = FALSE]
         \/ UNCHANGED s /\ main' = Rest /\ main.at = "flush" /\ completed = <<>>
  BY DEF StillConnecting, FlushDone, InIdle
<1>2. /\ s' \in Handle /\ main' \in Main /\ main'.at = "idle" /\ main'.call = None /\ s'.phase = s.phase /\ s'.fd = s.fd
      /\ s'.shut = s.shut /\ s'.delayed = s.delayed /\ s'.pollout = s.pollout
      /\ s'.flag = s.flag /\ s'.onread = s.onread /\ s'.readcb = s.readcb /\ s'.pollin = s.pollin
      /\ s'.accepted = s.accepted /\ (s'.fed => s.fed)
      /\ main.at \in {"idle", "flush"}
  <2>1. CASE UNCHANGED main
    BY <1>1, <2>1, RestIs DEF Inv, TypeInv, Handle
  <2>2. CASE UNCHANGED s /\ main' = Rest
    BY <1>1, <2>2, RestIs DEF Inv, TypeInv
  <2> QED BY <1>1, <2>1, <2>2
<1>3. BufferInv' /\ PlaceInv'
  BY <1>1, <1>2, Names DEF Inv, BufferInv, PlaceInv
<1>4. CloseInv' /\ ClosedInv'
  BY <1>1, <1>2 DEF Inv, CloseInv, ClosedInv, writing
<1>5. ReadInv'
  BY <1>1, <1>2 DEF Inv, ReadInv
<1>6. WatchInv'
  <2>1. s'.fed = s.fed \/ (connectReq # None /\ ~s.delayed)
    BY <1>1
  <2> QED BY <1>1, <1>2, <2>1 DEF Inv, WatchInv, writing
<1> QED BY <1>1, <1>2, <1>3, <1>4, <1>5, <1>6, QuietKeeps

\* uv__stream_io, uv__udp_io or uv__server_io is called.
LEMMA EventKeeps ==
  ASSUME Inv, Event
  PROVE  Inv'
<1>1. /\ UNCHANGED <<kind, connectReq, writing, inUse>> /\ main.call = None /\ main.at = "idle"
      /\ s.phase = "open" /\ connectReq = None
      /\ \/ s' = [s EXCEPT !.fed = FALSE] /\ main' = [main EXCEPT !.at = "write", !.out = TRUE]
         \/ UNCHANGED s /\ s.pollin /\ main' = [main EXCEPT !.at = "read"]
         \/ UNCHANGED s /\ main' = [main EXCEPT !.at = "write", !.out = TRUE]
         \/ UNCHANGED s /\ s.pollin /\ kind # "server" /\ main' = [main EXCEPT !.at = "read", !.out = TRUE]
  BY DEF Event, InIdle
<1>2. /\ s' \in Handle /\ main' \in Main /\ main'.at \in {"read", "write"} /\ main'.call = None
      /\ main'.at = "write" => main'.out
      /\ s'.phase = "open" /\ s'.fd = s.fd
      /\ s'.shut = s.shut /\ s'.delayed = s.delayed /\ s'.pollout = s.pollout
      /\ s'.flag = s.flag /\ s'.onread = s.onread /\ s'.readcb = s.readcb /\ s'.pollin = s.pollin
      /\ s'.accepted = s.accepted
      /\ main'.at = "read" => s.pollin /\ s'.fed = s.fed
  BY <1>1 DEF Inv, TypeInv, Handle, Main, Places
<1>3. BufferInv' /\ PlaceInv'
  BY <1>1, <1>2, Names DEF Inv, BufferInv, PlaceInv
<1>4. CloseInv' /\ ClosedInv'
  BY <1>1, <1>2 DEF Inv, CloseInv, ClosedInv
<1>5. ReadInv'
  BY <1>1, <1>2 DEF Inv, ReadInv
<1>6. WatchInv'
  BY <1>1, <1>2 DEF Inv, WatchInv, writing
<1> QED BY <1>1, <1>2, <1>3, <1>4, <1>5, <1>6, QuietKeeps

\* One read, up to the callback, or the end of a stream after a partial read.
LEMMA ReadOnceKeeps ==
  ASSUME Inv, ReadOnce \/ (ReadDone /\ main'.call = "read")
  PROVE  Inv'
<1>1. /\ UNCHANGED <<kind, connectReq, writing>> /\ main.call = None /\ main.at = "read" /\ kind # "server" /\ s.fd
      /\ s' = s \/ s' = ReadStopped(s)
      /\ inUse' \in BOOLEAN /\ (inUse' => main'.call = "read")
      /\ \E result \in Results, call \in {None, "read"} : main' = [main EXCEPT !.result = result, !.call = call]
  <2>1. CASE ReadOnce
    <3>1. PICK result \in Results :
            /\ s' = IF Stream /\ result \in {"eof", "error"} THEN ReadStopped(s) ELSE s
            /\ main' = [main EXCEPT !.result = result, !.call = IF kind = "udp" /\ result = "again" THEN None ELSE "read"]
            /\ inUse' = (main'.call = "read" \/ Unlocked(result))
      BY <2>1 DEF ReadOnce, Results
    <3>2. \E call \in {None, "read"} : main' = [main EXCEPT !.result = result, !.call = call]
      BY <3>1
    <3> QED BY <2>1, <3>1, <3>2 DEF ReadOnce, Unlocked
  <2>2. CASE ReadDone /\ main'.call = "read"
    <3>1. main'.call # None /\ main' # Rest
      BY <2>2, RestIs, Names
    <3>2. main' # [main EXCEPT !.at = "write", !.result = "none"]
      BY <2>2, Names DEF ReadDone, Inv, TypeInv, Main
    <3>3. main.call = None /\ main.at = "read" /\ kind # "server" /\ UNCHANGED <<kind, connectReq, writing, inUse>>
      BY <2>2 DEF ReadDone
    <3>4. s' = ReadStopped(s) /\ s.fd /\ main' = [main EXCEPT !.result = "eof", !.call = "read"]
      BY <2>2, <3>1, <3>2 DEF ReadDone
    <3>5. inUse = FALSE
      BY <3>3, Names DEF Inv, BufferInv
    <3> QED BY <3>3, <3>4, <3>5 DEF Results
  <2> QED BY <2>1, <2>2
<1>2. /\ main' \in Main /\ main'.at = "read" /\ main'.call \in {None, "read"}
      /\ main'.failed = main.failed /\ main'.out = main.out
  BY <1>1 DEF Inv, TypeInv, Main
<1>3. /\ s' \in Handle /\ s'.phase = s.phase
       /\ s'.fd = s.fd /\ s'.shut = s.shut /\ s'.delayed = s.delayed /\ s'.pollout = s.pollout /\ s'.fed = s.fed
       /\ s'.onread = s.onread /\ s'.accepted = s.accepted /\ (s'.readcb => s.readcb)
       /\ (s'.flag => s.flag /\ s'.pollin = s.pollin)
  BY <1>1, ReadStoppedIs DEF Inv, TypeInv
<1>4. s.phase = "open"
  BY <1>1 DEF Inv, ClosedInv
<1>5. BufferInv' /\ PlaceInv'
  BY <1>1, <1>2, <1>3 DEF Inv, BufferInv, PlaceInv
<1>6. CloseInv' /\ ClosedInv'
  BY <1>1, <1>2, <1>3, <1>4 DEF Inv, CloseInv, ClosedInv
<1>7. ReadInv'
  BY <1>1, <1>2, <1>3 DEF Inv, ReadInv
<1>8. WatchInv'
  BY <1>1, <1>2, <1>3, <1>4, WatchFrame DEF writing
<1> QED BY <1>1, <1>2, <1>3, <1>5, <1>6, <1>7, <1>8, QuietKeeps, Names

\* The read callback returns.
LEMMA LeaveReadKeeps ==
  ASSUME Inv, LeaveRead
  PROVE  Inv'
<1>1. /\ UNCHANGED <<kind, connectReq, writing>> /\ main.call = "read" /\ kind # "server"
      /\ main' = [main EXCEPT !.call = None] /\ inUse' = FALSE
      /\ s' = s \/ s' = [s EXCEPT !.flag = FALSE] \/ s' = [s EXCEPT !.flag = FALSE, !.pollin = FALSE]
  BY DEF LeaveRead, Calls, Unlocked
<1>2. /\ s' \in Handle /\ main' \in Main /\ main'.at = main.at /\ main'.call = None /\ s'.phase = s.phase
      /\ main'.failed = main.failed /\ main'.out = main.out
      /\ s'.fd = s.fd /\ s'.shut = s.shut /\ s'.delayed = s.delayed /\ s'.pollout = s.pollout /\ s'.fed = s.fed
      /\ s'.onread = s.onread /\ s'.accepted = s.accepted /\ s'.readcb = s.readcb
      /\ s'.flag => s.flag /\ s'.pollin = s.pollin
      /\ s'.pollin => s.pollin
  BY <1>1 DEF Inv, TypeInv, Handle, Main
<1>3. BufferInv' /\ PlaceInv'
  BY <1>1, <1>2 DEF Inv, BufferInv, PlaceInv
<1>4. CloseInv' /\ ClosedInv'
  BY <1>1, <1>2 DEF Inv, CloseInv, ClosedInv, Unanswered, writing
<1>5. ReadInv'
  BY <1>1, <1>2 DEF Inv, ReadInv
<1>6. WatchInv'
  <2>1. CASE s.phase = "open"
    BY <1>1, <1>2, <2>1, WatchFrame DEF writing
  <2>2. CASE s.phase # "open"
    BY <1>2, <2>2 DEF WatchInv
  <2> QED BY <2>1, <2>2
<1> QED BY <1>1, <1>2, <1>3, <1>4, <1>5, <1>6, QuietKeeps, Names

\* There is no more to read: the same event may go on with what is to be written.
LEMMA ReadDoneKeeps ==
  ASSUME Inv, ReadDone, main'.call # "read"
  PROVE  Inv'
<1>1. /\ UNCHANGED <<kind, s, connectReq, writing, inUse>> /\ main.call = None /\ main.at = "read" /\ kind # "server"
      /\ \/ (s.fd \/ kind = "udp") /\ main.out /\ main' = [main EXCEPT !.at = "write", !.result = "none"]
         \/ main' = Rest
  <2>1. main' # [main EXCEPT !.result = "eof", !.call = "read"]
    BY DEF Inv, TypeInv, Main
  <2> QED BY <2>1 DEF ReadDone
<1>2. /\ main' \in Main /\ main'.at \in {"write", "idle"} /\ main'.call = None
      /\ main'.at = "write" => main'.out /\ main.out /\ (s.fd \/ kind = "udp")
  <2>1. CASE main' = Rest
    BY <2>1, RestIs
  <2>2. CASE (s.fd \/ kind = "udp") /\ main.out /\ main' = [main EXCEPT !.at = "write", !.result = "none"]
    BY <1>1, <2>2 DEF Inv, TypeInv, Main, Places, Results
  <2> QED BY <1>1, <2>1, <2>2
<1>3. BufferInv' /\ PlaceInv'
  BY <1>1, <1>2, Names DEF Inv, BufferInv, PlaceInv, ClosedInv
<1>4. CloseInv' /\ ClosedInv'
  BY <1>1, <1>2 DEF Inv, CloseInv, ClosedInv, writing
<1>5. ReadInv'
  BY <1>1, <1>2 DEF Inv, ReadInv
<1>6. WatchInv'
  BY <1>1, <1>2 DEF Inv, WatchInv, writing
<1> QED BY <1>1, <1>2, <1>3, <1>4, <1>5, <1>6, QuietKeeps DEF Inv, TypeInv

\* uv__server_io calls pyuv__tcp_listen_cb and goes on behind it.
LEMMA ServerKeeps ==
  ASSUME Inv, ServerAccepts \/ LeaveConnection
  PROVE  Inv'
<1>1. /\ UNCHANGED <<kind, connectReq, writing, inUse>> /\ kind = "server" /\ main.call \notin Requests
      /\ main.call \in {None, "read"}
  BY Names DEF ServerAccepts, LeaveConnection
<1>2. main.at = "read"
  BY Names DEF Inv, TypeInv, Main, Places, PlaceInv, LeaveConnection, ServerAccepts
<1>3. /\ main' = Rest \/ main' = [main EXCEPT !.call = "read"] \/ main' = [main EXCEPT !.call = None]
      /\ \/ s.fd /\ main' = [main EXCEPT !.call = "read"] /\ \E connection \in BOOLEAN : s' = [s EXCEPT !.accepted = connection]
         \/ s' = s /\ ~s.accepted
         \/ s' = [s EXCEPT !.pollin = @ /\ ~s.accepted] /\ (s.accepted => main' = Rest)
  BY DEF ServerAccepts, LeaveConnection, Calls
<1>4. main' \in Main /\ main'.at \in {"idle", "read"} /\ main'.call \in {"read", None} /\ (main'.at = "idle" => main'.call = None)
  BY <1>2, <1>3, RestIs DEF Inv, TypeInv, Main
<1>5. /\ s' \in Handle /\ s'.phase = s.phase
      /\ s'.fd = s.fd /\ s'.shut = s.shut /\ s'.delayed = s.delayed /\ s'.pollout = s.pollout /\ s'.fed = s.fed
      /\ s'.onread = s.onread /\ s'.readcb = s.readcb /\ s'.flag = s.flag
      /\ s'.pollin => s.pollin
      /\ s'.pollin = s.pollin \/ (s'.accepted /\ main'.at = "idle")
      /\ s'.accepted => IF main'.at = "read" THEN main'.call = "read" ELSE ~s'.pollin
  <2> DEFINE b == s.pollin /\ ~s.accepted
  <2>1. b \in BOOLEAN /\ (b => s.pollin) /\ (s.accepted => ~b) /\ (b = s.pollin \/ s.accepted)
    BY DEF Inv, TypeInv, Handle
  <2>2. CASE s' = [s EXCEPT !.pollin = b] /\ (s.accepted => main' = Rest)
    <3> HIDE DEF b
    <3> QED BY <2>1, <2>2, RestIs DEF Inv, TypeInv, Handle
  <2>3. CASE s' = s /\ ~s.accepted
    BY <2>3 DEF Inv, TypeInv, Handle
  <2>4. CASE main' = [main EXCEPT !.call = "read"] /\ \E connection \in BOOLEAN : s' = [s EXCEPT !.accepted = connection]
    <3>1. PICK connection \in BOOLEAN : s' = [s EXCEPT !.accepted = connection]
      BY <2>4
    <3>2. main'.call = "read" /\ main'.at = "read"
      BY <1>2, <2>4 DEF Inv, TypeInv, Main
    <3> QED BY <3>1, <3>2 DEF Inv, TypeInv, Handle
  <2> QED BY <1>3, <2>2, <2>3, <2>4
<1>6. inUse = FALSE
  BY <1>1 DEF Inv, BufferInv
<1>7. BufferInv' /\ PlaceInv'
  BY <1>1, <1>4, <1>5, <1>6 DEF Inv, BufferInv, PlaceInv
<1>8. CloseInv' /\ ClosedInv'
  BY <1>1, <1>2, <1>4, <1>5 DEF Inv, CloseInv, ClosedInv, Unanswered, writing
<1>9. ReadInv'
  <2>1. s.flag = FALSE /\ s.onread
    BY <1>1, <1>2 DEF Inv, ReadInv, TypeInv, Handle
  <2> QED BY <1>1, <1>2, <1>4, <1>5, <2>1 DEF Inv, ReadInv
<1>10. WatchInv'
  BY <1>1, <1>2, <1>4, <1>5 DEF Inv, WatchInv, writing
<1> QED BY <1>1, <1>4, <1>5, <1>7, <1>8, <1>9, <1>10, QuietKeeps, Names

\* The close callback returns.
LEMMA LeaveCloseKeeps ==
  ASSUME Inv, LeaveClose
  PROVE  Inv'
<1>1. /\ UNCHANGED <<kind, s, connectReq, writing, inUse>> /\ main.call = "close" /\ main' = [main EXCEPT !.call = None]
  BY DEF LeaveClose, Calls
<1>2. main' \in Main /\ main'.at = main.at /\ main'.call = None /\ main'.failed = main.failed /\ main'.out = main.out
  BY <1>1 DEF Inv, TypeInv, Main
<1>3. BufferInv' /\ PlaceInv'
  BY <1>1, <1>2 DEF Inv, BufferInv, PlaceInv
<1>4. CloseInv' /\ ClosedInv'
  BY <1>1, <1>2 DEF Inv, CloseInv, ClosedInv, Unanswered, writing
<1>5. ReadInv' /\ WatchInv'
  BY <1>1, <1>2 DEF Inv, ReadInv, WatchInv, writing
<1> QED BY <1>1, <1>2, <1>3, <1>4, <1>5, QuietKeeps, Names DEF Inv, TypeInv

-----------------------------------------------------------------------------
(* The calls that make a request.                                          *)

\* The two lists are empty when nothing waits, and then only.
LEMMA NothingWaits ==
  ASSUME TypeInv, ListInv
  PROVE  order = <<>> <=> queue = <<>> /\ completed = <<>>
BY ConcatEqualIffEmpty DEF TypeInv, ListInv

\* The new request waits for its answer.
LEMMA MadeRequests ==
  ASSUME TypeInv, RequestInv, UNCHANGED main, s.phase = "open",
         NEW r \in Requests, reqs[r].st = "idle", NEW n \in 0 .. MaxViews, NEW h \in BOOLEAN, NEW e \in WriteResults,
         Keep(r, n, h, e), r \in Writes \/ (n = 0 /\ h = FALSE),
         r \in Connects => connectReq' = r /\ (connectReq = None \/ Corner("reconnect")),
         r \notin Connects => connectReq' = connectReq,
         IF r = Shutdown THEN s'.shut = "shutting" ELSE s'.shut = s.shut
  PROVE  /\ RequestInv'
         /\ reqs'[r].st = "pending" /\ \A x \in Requests \ {r} : reqs'[x] = reqs[x]
         /\ reqs' \in [Requests -> [st : {"idle", "pending", "calling"}, views : 0 .. MaxViews, handle : BOOLEAN, err : WriteResults]]
<1>1. /\ reqs'[r].st = "pending" /\ reqs'[r].views = n /\ (reqs'[r].handle <=> h)
      /\ \A x \in Requests \ {r} : reqs'[x] = reqs[x]
      /\ reqs' \in [Requests -> [st : {"idle", "pending", "calling"}, views : 0 .. MaxViews, handle : BOOLEAN, err : WriteResults]]
  BY DEF Keep, Kept, TypeInv
<1>2. \A x \in Requests : reqs'[x].st = "calling" <=> main'.call = x
  <2>1. main.call # r
    BY DEF RequestInv
  <2> QED BY <1>1, <2>1 DEF RequestInv
<1>3. \A x \in Requests \ Writes : reqs'[x].views = 0 /\ ~reqs'[x].handle
  BY <1>1 DEF RequestInv
<1>4. connectReq' # None => Unanswered(connectReq)'
  BY <1>1, Names DEF RequestInv, Unanswered, TypeInv
<1>5. ~Corner("reconnect") => \A c \in Connects : Unanswered(c)' => connectReq' = c
  BY <1>1, Names DEF RequestInv, Unanswered, Corner
<1>6. Unanswered(Shutdown)' <=> s'.shut = "shutting"
  BY <1>1, Names DEF RequestInv, Unanswered
<1>7. RequestInv'
  BY <1>2, <1>3, <1>4, <1>5, <1>6 DEF RequestInv, Corner
<1> QED BY <1>1, <1>7

\* What such a call leaves to show.
LEMMA MadeKeeps ==
  ASSUME Inv, Api, UNCHANGED <<kind, inUse, main>>, kind # "server", s' \in Handle, s'.phase = "open",
         NEW r \in Requests, reqs[r].st = "idle", NEW n \in 0 .. MaxViews, NEW h \in BOOLEAN, NEW e \in WriteResults,
         Keep(r, n, h, e), r \in Writes \/ (n = 0 /\ h = FALSE),
         r \in Connects => connectReq' = r /\ (connectReq = None \/ Corner("reconnect")),
         r \notin Connects => connectReq' = connectReq,
         IF r = Shutdown THEN s'.shut = "shutting" ELSE s'.shut = s.shut,
         queue' \in Seq(Writes), completed' \in Seq(Writes), order' \in Seq(Writes), order' = completed' \o queue', Once(order'),
         \A w \in Writes : In(order', w) <=> In(order, w) \/ w = r,
         ReadInv', WatchInv'
  PROVE  Inv'
<1>1. s.phase = "open" /\ (main.at = "idle" \/ main.call # None)
  BY DEF Api
<1>2. /\ RequestInv'
      /\ reqs'[r].st = "pending" /\ \A x \in Requests \ {r} : reqs'[x] = reqs[x]
      /\ reqs' \in [Requests -> [st : {"idle", "pending", "calling"}, views : 0 .. MaxViews, handle : BOOLEAN, err : WriteResults]]
  <2>1. UNCHANGED main
    OBVIOUS
  <2> QED BY <1>1, <2>1, MadeRequests DEF Inv
<1>3. connectReq' \in Connects \cup {None}
  BY DEF Inv, TypeInv
<1>4. TypeInv'
  BY <1>2, <1>3 DEF Inv, TypeInv
<1>5. ListInv'
  <2>1. \A w \in Writes : Unanswered(w) <=> In(order, w)
    BY DEF Inv, ListInv
  <2>2. \A w \in Writes : Unanswered(w)' <=> In(order', w)
    BY <1>2, <2>1, Names DEF Unanswered
  <2> QED BY <2>2 DEF ListInv
<1>6. CountInv'
  BY KeepCounts DEF Inv
<1>7. BufferInv' /\ PlaceInv'
  BY <1>1 DEF Inv, BufferInv, PlaceInv
<1>8. CloseInv' /\ ClosedInv'
  BY <1>1 DEF Inv, CloseInv, ClosedInv
<1> QED BY <1>2, <1>4, <1>5, <1>6, <1>7, <1>8 DEF Inv

\* connect()
LEMMA ConnectKeeps ==
  ASSUME Inv, NEW c \in Connects, ConnectTcp(c) \/ ConnectPipe(c)
  PROVE  Inv'
<1>1. /\ Api /\ UNCHANGED <<kind, queue, completed, order, inUse, main>> /\ kind \in {"tcp", "pipe"}
      /\ reqs[c].st = "idle" /\ Keep(c, 0, FALSE, "none") /\ connectReq' = c
      /\ connectReq = None \/ Corner("reconnect")
      /\ ConnectIsLate => Corner("late connect")
      /\ \/ \E refused \in BOOLEAN :
              s' = [s EXCEPT !.fd = TRUE, !.delayed = refused, !.pollout = TRUE, !.fed = @ \/ refused]
         \/ kind = "pipe" /\ s' = [s EXCEPT !.fd = TRUE, !.delayed = FALSE, !.pollin = TRUE, !.pollout = TRUE]
         \/ kind = "pipe" /\ \E made \in BOOLEAN : s' = [s EXCEPT !.fd = @ \/ made, !.delayed = TRUE, !.fed = TRUE]
  BY DEF ConnectTcp, ConnectPipe, Corner
<1>2. /\ s' \in Handle /\ s'.phase = s.phase /\ s'.shut = s.shut /\ (s.pollin => s'.pollin) /\ s'.flag = s.flag
      /\ s'.onread = s.onread /\ s'.readcb = s.readcb /\ s'.accepted = s.accepted
      /\ s'.pollout \/ (s'.delayed /\ s'.fed)
      /\ (kind = "tcp" => s'.fd)
  <2>1. CASE \E refused \in BOOLEAN :
               s' = [s EXCEPT !.fd = TRUE, !.delayed = refused, !.pollout = TRUE, !.fed = @ \/ refused]
    <3>1. PICK refused \in BOOLEAN, f \in BOOLEAN :
                 s' = [s EXCEPT !.fd = TRUE, !.delayed = refused, !.pollout = TRUE, !.fed = f]
      BY <2>1
    <3> QED BY <3>1 DEF Inv, TypeInv, Handle
  <2>2. CASE kind = "pipe" /\ s' = [s EXCEPT !.fd = TRUE, !.delayed = FALSE, !.pollin = TRUE, !.pollout = TRUE]
    BY <2>2 DEF Inv, TypeInv, Handle
  <2>3. CASE kind = "pipe" /\ \E made \in BOOLEAN : s' = [s EXCEPT !.fd = @ \/ made, !.delayed = TRUE, !.fed = TRUE]
    <3>1. PICK f \in BOOLEAN : s' = [s EXCEPT !.fd = f, !.delayed = TRUE, !.fed = TRUE]
      BY <2>3
    <3> QED BY <2>3, <3>1 DEF Inv, TypeInv, Handle
  <2> QED BY <1>1, <2>1, <2>2, <2>3
<1>3. s.phase = "open"
  BY <1>1 DEF Api
<1>4. ReadInv'
  BY <1>1, <1>2 DEF Inv, ReadInv
<1>5. WatchInv'
  <2>1. CASE Corner("late connect")
    BY <2>1 DEF WatchInv, Corner
  <2>2. CASE ~Corner("late connect")
    <3>1. s.shut # "shutting" /\ order = <<>> /\ main.at \notin {"read", "write", "callbacks"}
      BY <1>1, <2>2 DEF ConnectIsLate
    <3>2. queue = <<>> /\ completed = <<>>
      BY <3>1, NothingWaits DEF Inv
    <3> QED BY <1>1, <1>2, <3>1, <3>2 DEF WatchInv
  <2> QED BY <2>1, <2>2
<1>6. order \in Seq(Writes) /\ order = completed \o queue /\ Once(order) /\ queue \in Seq(Writes) /\ completed \in Seq(Writes)
  BY DEF Inv, TypeInv, ListInv
<1>7. c \in Requests /\ c \notin Writes /\ c # Shutdown /\ 0 \in 0 .. MaxViews /\ "none" \in WriteResults
  BY Names DEF WriteResults
<1> QED BY <1>1, <1>2, <1>3, <1>4, <1>5, <1>6, <1>7, MadeKeeps

\* shutdown()
LEMMA ShutDownKeeps ==
  ASSUME Inv, ShutDown
  PROVE  Inv'
<1>1. /\ Api /\ UNCHANGED <<kind, connectReq, queue, completed, order, inUse, main>> /\ kind \in {"tcp", "pipe"}
      /\ reqs[Shutdown].st = "idle" /\ Keep(Shutdown, 0, FALSE, "none") /\ s.fd
      /\ connectReq = None \/ Corner("early shutdown")
      /\ s' = [s EXCEPT !.shut = "shutting", !.pollout = TRUE]
  BY DEF ShutDown, Corner
<1>2. /\ s' \in Handle /\ s'.phase = s.phase /\ s'.shut = "shutting" /\ s'.pollin = s.pollin /\ s'.flag = s.flag
      /\ s'.onread = s.onread /\ s'.readcb = s.readcb /\ s'.accepted = s.accepted /\ s'.pollout /\ s'.fd /\ s'.fed = s.fed
  BY <1>1 DEF Inv, TypeInv, Handle
<1>3. s.phase = "open"
  BY <1>1 DEF Api
<1>4. ReadInv'
  BY <1>1, <1>2 DEF Inv, ReadInv
<1>5. WatchInv'
  BY <1>1, <1>2, <1>3 DEF Inv, WatchInv, Corner
<1>6. order \in Seq(Writes) /\ order = completed \o queue /\ Once(order) /\ queue \in Seq(Writes) /\ completed \in Seq(Writes)
  BY DEF Inv, TypeInv, ListInv
<1>7. Shutdown \in Requests /\ Shutdown \notin Writes /\ Shutdown \notin Connects /\ 0 \in 0 .. MaxViews /\ "none" \in WriteResults
      /\ connectReq \in Connects \cup {None}
  BY Names DEF WriteResults, Inv, TypeInv
<1> QED BY <1>1, <1>2, <1>3, <1>4, <1>5, <1>6, <1>7, MadeKeeps

\* A new write comes behind all that wait.
LEMMA WriteListed ==
  ASSUME TypeInv, ListInv, NEW w \in Writes, reqs[w].st = "idle", order' = Append(order, w),
         \/ queue' = Append(queue, w) /\ UNCHANGED completed
         \/ queue = <<>> /\ completed' = Append(completed, w) /\ UNCHANGED queue
  PROVE  /\ queue' \in Seq(Writes) /\ completed' \in Seq(Writes) /\ order' \in Seq(Writes)
         /\ order' = completed' \o queue' /\ Once(order') /\ order' # <<>>
         /\ \A x \in Writes : In(order', x) <=> In(order, x) \/ x = w
<1>1. queue \in Seq(Writes) /\ completed \in Seq(Writes) /\ order \in Seq(Writes)
  BY DEF TypeInv
<1>2. Once(order) /\ ~In(order, w)
  BY DEF ListInv, Unanswered
<1>3. Append(order, w) # <<>>
  BY <1>1, AppendProperties
<1>4. /\ Append(order, w) \in Seq(Writes) /\ Once(Append(order, w))
      /\ \A x : In(Append(order, w), x) <=> In(order, x) \/ x = w
  BY <1>1, <1>2, AppendOnce
<1>5. Append(queue, w) \in Seq(Writes) /\ Append(completed, w) \in Seq(Writes)
  BY <1>1, AppendProperties
<1>6. order = completed \o queue
  BY DEF ListInv
<1>7. CASE queue' = Append(queue, w) /\ UNCHANGED completed
  <2>1. completed \o Append(queue, w) = Append(completed \o queue, w)
    BY <1>1, AppendBehind
  <2> QED BY <1>1, <1>3, <1>4, <1>5, <1>6, <1>7, <2>1
<1>8. CASE queue = <<>> /\ completed' = Append(completed, w) /\ UNCHANGED queue
  <2>1. completed \o <<>> = completed /\ Append(completed, w) \o <<>> = Append(completed, w)
    BY <1>1, <1>5, ConcatEmptySeq
  <2> QED BY <1>1, <1>3, <1>4, <1>5, <1>6, <1>8, <2>1
<1> QED BY <1>7, <1>8

\* write(), on a stream or over a pipe
LEMMA WriteKeeps ==
  ASSUME Inv, NEW w \in Writes, NEW n \in 0 .. MaxViews, NEW h \in BOOLEAN, Write(w, n, h)
  PROVE  Inv'
<1>1. /\ Api /\ UNCHANGED <<kind, connectReq, inUse, main>> /\ Stream /\ s.fd /\ reqs[w].st = "idle" /\ order' = Append(order, w)
      /\ queue \in Seq(Writes) /\ completed \in Seq(Writes)
  BY DEF Write, Inv, TypeInv
<1>2. PICK e \in WriteResults :
        /\ Keep(w, n, h, e)
        /\ \/ queue' = Append(queue, w) /\ UNCHANGED completed /\ s' = [s EXCEPT !.pollout = @ \/ connectReq = None]
           \/ /\ connectReq = None /\ queue = <<>> /\ s' = AfterWrite(e)
              /\ IF e = "none" THEN queue' = Append(queue, w) /\ UNCHANGED completed
                 ELSE completed' = Append(completed, w) /\ UNCHANGED queue
  <2>1. "none" \in WriteResults /\ Append(<<>>, w) = <<w>>
    BY DEF WriteResults
  <2> QED BY <2>1 DEF Write, NothingQueued
<1>3. \/ queue' = Append(queue, w) /\ UNCHANGED completed
      \/ queue = <<>> /\ completed' = Append(completed, w) /\ UNCHANGED queue
  BY <1>2
<1>4. /\ s' \in Handle /\ s'.phase = s.phase /\ s'.shut = s.shut /\ s'.pollin = s.pollin /\ s'.flag = s.flag
      /\ s'.onread = s.onread /\ s'.readcb = s.readcb /\ s'.accepted = s.accepted /\ s'.fd = s.fd /\ s'.delayed = s.delayed
      /\ (s.fed => s'.fed) /\ (s.pollout => s'.pollout \/ s'.fed) /\ (connectReq # None /\ s.pollout => s'.pollout)
      /\ \/ queue' = Append(queue, w) /\ UNCHANGED completed /\ (connectReq = None => s'.pollout)
         \/ queue' = <<>> /\ s'.fed /\ connectReq = None
  <2>1. CASE queue' = Append(queue, w) /\ UNCHANGED completed /\ s' = [s EXCEPT !.pollout = @ \/ connectReq = None]
    <3> DEFINE p == s.pollout \/ connectReq = None
    <3>1. p \in BOOLEAN /\ (s.pollout => p) /\ (connectReq = None => p) /\ s' = [s EXCEPT !.pollout = p]
      BY <2>1
    <3> HIDE DEF p
    <3> QED BY <2>1, <3>1 DEF Inv, TypeInv, Handle
  <2>2. CASE /\ connectReq = None /\ queue = <<>> /\ s' = AfterWrite(e)
             /\ IF e = "none" THEN queue' = Append(queue, w) /\ UNCHANGED completed
                ELSE completed' = Append(completed, w) /\ UNCHANGED queue
    <3>1. s \in Handle
      BY DEF Inv, TypeInv
    <3> QED BY <2>2, <3>1, AfterWriteIs
  <2> QED BY <1>2, <2>1, <2>2
<1>5. s.phase = "open" /\ Append(queue, w) # <<>>
  BY <1>1, AppendProperties DEF Api
<1>6. ReadInv'
  BY <1>1, <1>4 DEF Inv, ReadInv
<1>7. WatchInv'
  BY <1>1, <1>4, <1>5 DEF Inv, WatchInv
<1>8. /\ queue' \in Seq(Writes) /\ completed' \in Seq(Writes) /\ order' \in Seq(Writes)
      /\ order' = completed' \o queue' /\ Once(order')
      /\ \A x \in Writes : In(order', x) <=> In(order, x) \/ x = w
  BY <1>1, <1>3, WriteListed DEF Inv
<1>9. w \in Requests /\ w \notin Connects /\ w # Shutdown /\ kind # "server" /\ connectReq \in Connects \cup {None}
  BY <1>1, Names DEF Stream, Inv, TypeInv
<1> QED BY <1>1, <1>2, <1>4, <1>5, <1>6, <1>7, <1>8, <1>9, MadeKeeps

\* send()
LEMMA SendKeeps ==
  ASSUME Inv, NEW w \in Writes, NEW n \in 0 .. MaxViews, Send(w, n)
  PROVE  Inv'
<1>1. /\ Api /\ UNCHANGED <<kind, connectReq, inUse, main>> /\ kind = "udp" /\ reqs[w].st = "idle" /\ order' = Append(order, w)
      /\ queue \in Seq(Writes) /\ completed \in Seq(Writes)
  BY DEF Send, Inv, TypeInv
<1>2. PICK e \in WriteResults :
        /\ Keep(w, n, FALSE, e)
        /\ \/ queue' = Append(queue, w) /\ UNCHANGED completed /\ s' = [s EXCEPT !.fd = TRUE, !.pollout = TRUE]
           \/ /\ queue = <<>> /\ s' = [s EXCEPT !.fd = TRUE, !.fed = @ \/ e # "none", !.pollout = @ \/ e = "none"]
              /\ IF e = "none" THEN queue' = Append(queue, w) /\ UNCHANGED completed
                 ELSE completed' = Append(completed, w) /\ UNCHANGED queue
  <2>1. "none" \in WriteResults /\ Append(<<>>, w) = <<w>>
    BY DEF WriteResults
  <2>2. order = <<>> => queue = <<>>
    BY NothingWaits DEF Inv
  <2> QED BY <2>1, <2>2 DEF Send
<1>3. \/ queue' = Append(queue, w) /\ UNCHANGED completed
      \/ queue = <<>> /\ completed' = Append(completed, w) /\ UNCHANGED queue
  BY <1>2
<1>4. /\ s' \in Handle /\ s'.phase = s.phase /\ s'.shut = s.shut /\ s'.pollin = s.pollin /\ s'.flag = s.flag
      /\ s'.onread = s.onread /\ s'.readcb = s.readcb /\ s'.accepted = s.accepted /\ s'.fd /\ s'.delayed = s.delayed
      /\ (s.fed => s'.fed) /\ (s.pollout => s'.pollout)
      /\ \/ queue' = Append(queue, w) /\ UNCHANGED completed /\ s'.pollout
         \/ queue' = <<>> /\ s'.fed
  <2>1. CASE queue' = Append(queue, w) /\ UNCHANGED completed /\ s' = [s EXCEPT !.fd = TRUE, !.pollout = TRUE]
    BY <2>1 DEF Inv, TypeInv, Handle
  <2>2. CASE /\ queue = <<>> /\ s' = [s EXCEPT !.fd = TRUE, !.fed = @ \/ e # "none", !.pollout = @ \/ e = "none"]
             /\ IF e = "none" THEN queue' = Append(queue, w) /\ UNCHANGED completed
                ELSE completed' = Append(completed, w) /\ UNCHANGED queue
    <3> DEFINE f == s.fed \/ e # "none"
               p == s.pollout \/ e = "none"
    <3>1. /\ f \in BOOLEAN /\ p \in BOOLEAN /\ (s.fed => f) /\ (s.pollout => p) /\ (e # "none" => f) /\ (e = "none" => p)
          /\ s' = [s EXCEPT !.fd = TRUE, !.fed = f, !.pollout = p]
      BY <2>2
    <3> HIDE DEF f, p
    <3> QED BY <2>2, <3>1 DEF Inv, TypeInv, Handle
  <2> QED BY <1>2, <2>1, <2>2
<1>5. s.phase = "open" /\ Append(queue, w) # <<>>
  BY <1>1, AppendProperties DEF Api
<1>6. ReadInv'
  BY <1>1, <1>4 DEF Inv, ReadInv
<1>7. WatchInv'
  BY <1>1, <1>4, <1>5 DEF Inv, WatchInv
<1>8. /\ queue' \in Seq(Writes) /\ completed' \in Seq(Writes) /\ order' \in Seq(Writes)
      /\ order' = completed' \o queue' /\ Once(order')
      /\ \A x \in Writes : In(order', x) <=> In(order, x) \/ x = w
  BY <1>1, <1>3, WriteListed DEF Inv
<1>9. w \in Requests /\ w \notin Connects /\ w # Shutdown /\ kind # "server" /\ connectReq \in Connects \cup {None}
  BY <1>1, Names DEF Inv, TypeInv
<1> QED BY <1>1, <1>2, <1>4, <1>5, <1>6, <1>7, <1>8, <1>9, MadeKeeps

-----------------------------------------------------------------------------
(* The callbacks of the requests.                                          *)

\* The request whose callback runs waits no more.
LEMMA AnsweredRequests ==
  ASSUME TypeInv, RequestInv, main.call = None, NEW r \in Requests, Unanswered(r), Answer(r), main'.call = r,
         r \in Connects => connectReq = r /\ connectReq' = None,
         r \notin Connects => connectReq' = connectReq,
         s'.phase = "open" => s.phase = "open" /\ (IF r = Shutdown THEN s'.shut # "shutting" ELSE s'.shut = s.shut)
  PROVE  /\ RequestInv'
         /\ reqs'[r].st = "calling" /\ \A x \in Requests \ {r} : reqs'[x] = reqs[x]
         /\ reqs'[r].views = reqs[r].views /\ reqs'[r].handle = reqs[r].handle
         /\ reqs' \in [Requests -> [st : {"idle", "pending", "calling"}, views : 0 .. MaxViews, handle : BOOLEAN, err : WriteResults]]
<1>1. /\ reqs'[r].st = "calling" /\ \A x \in Requests \ {r} : reqs'[x] = reqs[x]
      /\ reqs'[r].views = reqs[r].views /\ reqs'[r].handle = reqs[r].handle
      /\ reqs' \in [Requests -> [st : {"idle", "pending", "calling"}, views : 0 .. MaxViews, handle : BOOLEAN, err : WriteResults]]
  BY DEF Answer, TypeInv
<1>2. \A x \in Requests : reqs'[x].st = "calling" <=> main'.call = x
  BY <1>1, Names DEF RequestInv
<1>3. \A x \in Requests \ Writes : reqs'[x].views = 0 /\ ~reqs'[x].handle
  BY <1>1 DEF RequestInv
<1>4. connectReq' # None => Unanswered(connectReq)'
  <2>1. CASE r \in Connects
    BY <2>1
  <2>2. CASE r \notin Connects /\ connectReq # None
    <3>1. connectReq \in Requests \ {r} /\ Unanswered(connectReq) /\ connectReq' = connectReq
      BY <2>2, Names DEF RequestInv, TypeInv
    <3> QED BY <1>1, <3>1 DEF Unanswered
  <2> QED BY <2>1, <2>2
<1>5. ~Corner("reconnect") => \A c \in Connects : Unanswered(c)' => connectReq' = c
  BY <1>1, Names DEF RequestInv, Unanswered
<1>6. s'.phase = "open" => (Unanswered(Shutdown)' <=> s'.shut = "shutting")
  BY <1>1, Names DEF RequestInv, Unanswered
<1>7. RequestInv'
  BY <1>2, <1>3, <1>4, <1>5, <1>6 DEF RequestInv, Corner
<1> QED BY <1>1, <1>7

\* What a callback's beginning leaves to show.
LEMMA AnswerKeeps ==
  ASSUME Inv, main.call = None, UNCHANGED <<kind, refs, inUse>>, s' \in Handle, main' \in Main,
         NEW r \in Requests, Unanswered(r), Answer(r), main'.call = r,
         r \in Connects => connectReq = r /\ connectReq' = None,
         r \notin Connects => connectReq' = connectReq,
         s'.phase = "open" => s.phase = "open" /\ (IF r = Shutdown THEN s'.shut # "shutting" ELSE s'.shut = s.shut),
         queue' \in Seq(Writes), completed' \in Seq(Writes), order' \in Seq(Writes), order' = completed' \o queue', Once(order'),
         \A w \in Writes : In(order', w) <=> In(order, w) /\ w # r,
         PlaceInv', CloseInv', ClosedInv', ReadInv', WatchInv'
  PROVE  Inv'
<1>1. /\ RequestInv'
      /\ reqs'[r].st = "calling" /\ \A x \in Requests \ {r} : reqs'[x] = reqs[x]
      /\ reqs'[r].views = reqs[r].views /\ reqs'[r].handle = reqs[r].handle
      /\ reqs' \in [Requests -> [st : {"idle", "pending", "calling"}, views : 0 .. MaxViews, handle : BOOLEAN, err : WriteResults]]
  BY AnsweredRequests DEF Inv
<1>2. connectReq' \in Connects \cup {None}
  BY DEF Inv, TypeInv
<1>3. TypeInv'
  BY <1>1, <1>2 DEF Inv, TypeInv
<1>4. ListInv'
  <2>1. \A w \in Writes : Unanswered(w) <=> In(order, w)
    BY DEF Inv, ListInv
  <2>2. \A w \in Writes : Unanswered(w)' <=> In(order', w)
    BY <1>1, <2>1, Names DEF Unanswered
  <2> QED BY <2>2 DEF ListInv
<1>5. CountInv'
  <2>1. \A x \in Requests : (reqs'[x].st = "idle" <=> reqs[x].st = "idle")
                            /\ reqs'[x].views = reqs[x].views /\ reqs'[x].handle = reqs[x].handle
    BY <1>1 DEF Unanswered
  <2> QED BY <2>1, SameCounts DEF Inv
<1>6. BufferInv'
  BY Names DEF Inv, BufferInv
<1> QED BY <1>1, <1>3, <1>4, <1>5, <1>6 DEF Inv

\* The callback of a request returns.
LEMMA LeaveCallbackKeeps ==
  ASSUME Inv, LeaveCallback, main.call \in Requests
  PROVE  Inv'
<1> DEFINE r == main.call
<1>1. /\ UNCHANGED <<kind, s, connectReq, queue, completed, inUse, order>>
      /\ main' = [main EXCEPT !.call = None] /\ Release(r) /\ r \in Requests
  BY DEF LeaveCallback, Calls
<1>2. main' \in Main /\ main'.at = main.at /\ main'.call = None /\ main'.failed = main.failed /\ main'.out = main.out
  BY <1>1 DEF Inv, TypeInv, Main
<1>3. reqs[r].st = "calling"
  BY <1>1 DEF Inv, RequestInv
<1>4. /\ reqs'[r].st = "idle" /\ reqs'[r].views = 0 /\ ~reqs'[r].handle
      /\ \A x \in Requests \ {r} : reqs'[x] = reqs[x]
      /\ reqs' \in [Requests -> [st : {"idle", "pending", "calling"}, views : 0 .. MaxViews, handle : BOOLEAN, err : WriteResults]]
  BY <1>1, Names DEF Release, Inv, TypeInv, WriteResults
<1>5. \A x \in Requests : Unanswered(x)' <=> Unanswered(x)
  BY <1>3, <1>4 DEF Unanswered
<1>6. TypeInv'
  BY <1>1, <1>2, <1>4 DEF Inv, TypeInv
<1>7. ListInv'
  BY <1>1, <1>5, Names DEF Inv, ListInv
<1>8. RequestInv'
  <2>1. \A x \in Requests : reqs'[x].st = "calling" <=> main'.call = x
    BY <1>1, <1>2, <1>4, Names DEF Inv, RequestInv
  <2>2. \A x \in Requests \ Writes : reqs'[x].views = 0 /\ ~reqs'[x].handle
    BY <1>4 DEF Inv, RequestInv
  <2> QED BY <1>1, <1>5, <2>1, <2>2, Names DEF Inv, RequestInv, TypeInv
<1>9. CountInv'
  BY <1>1, <1>3, ReleaseCounts DEF Inv
<1>10. BufferInv' /\ PlaceInv'
  BY <1>1, <1>2, Names DEF Inv, BufferInv, PlaceInv
<1>11. CloseInv' /\ ClosedInv'
  BY <1>1, <1>2, <1>5, Names DEF Inv, CloseInv, ClosedInv
<1>12. ReadInv' /\ WatchInv'
  BY <1>1, <1>2, Names DEF Inv, ReadInv, WatchInv
<1> QED BY <1>6, <1>7, <1>8, <1>9, <1>10, <1>11, <1>12 DEF Inv

\* The connection is made, or not.
LEMMA ConnectedKeeps ==
  ASSUME Inv, Connected
  PROVE  Inv'
<1>1. /\ main.at = "idle" /\ main.call = None /\ s.phase = "open" /\ connectReq # None
      /\ connectReq' = None /\ Answer(connectReq) /\ UNCHANGED <<kind, queue, completed, refs, order, inUse>>
  BY DEF Connected, InIdle
<1>2. PICK failed \in BOOLEAN, fed \in {FALSE, s.fed} :
        /\ s.delayed => failed
        /\ s' = [s EXCEPT !.delayed = FALSE, !.fed = fed, !.pollout = @ /\ ~failed /\ queue # <<>>]
        /\ main' = [main EXCEPT !.at = "connected", !.failed = failed, !.call = connectReq]
  BY DEF Connected
<1>3. connectReq \in Connects /\ connectReq \in Requests /\ Unanswered(connectReq)
  BY <1>1, Names DEF Inv, TypeInv, RequestInv
<1>4. main' \in Main /\ main'.at = "connected" /\ main'.call = connectReq /\ main'.failed = failed /\ main'.out = main.out
  BY <1>2, <1>3 DEF Inv, TypeInv, Main, Places
<1>5. /\ s' \in Handle /\ s'.phase = s.phase /\ s'.fd = s.fd /\ s'.shut = s.shut /\ s'.flag = s.flag /\ s'.readcb = s.readcb
      /\ s'.onread = s.onread /\ s'.pollin = s.pollin /\ s'.accepted = s.accepted /\ (s'.fed => s.fed)
      /\ ~failed /\ queue # <<>> /\ s.pollout => s'.pollout
      /\ s'.pollout => s.pollout
  <2> DEFINE p == s.pollout /\ ~failed /\ queue # <<>>
  <2>1. /\ p \in BOOLEAN /\ (~failed /\ queue # <<>> /\ s.pollout => p) /\ (p => s.pollout)
        /\ s' = [s EXCEPT !.delayed = FALSE, !.fed = fed, !.pollout = p]
    BY <1>2
  <2>2. s \in Handle /\ fed \in BOOLEAN
    BY DEF Inv, TypeInv, Handle
  <2> HIDE DEF p
  <2> QED BY <2>1, <2>2 DEF Handle
<1>6. kind # "server"
  BY <1>1 DEF Inv, PlaceInv
<1>7. PlaceInv' /\ CloseInv'
  BY <1>1, <1>3, <1>4, <1>5, <1>6, Names DEF PlaceInv, CloseInv
<1>8. ClosedInv' /\ ReadInv'
  BY <1>1, <1>4, <1>5, <1>6 DEF Inv, ClosedInv, ReadInv
<1>9. WatchInv'
  <2>1. CASE Corner("early shutdown") \/ Corner("late connect")
    BY <2>1 DEF WatchInv, Corner
  <2>2. CASE ~Corner("early shutdown") /\ ~Corner("late connect")
    <3>1. /\ ~s.fd => order = <<>>
          /\ kind \in {"tcp", "pipe"} /\ s.shut # "shutting" /\ completed = <<>> /\ (s.pollout \/ s.delayed)
      BY <1>1, <2>2 DEF Inv, WatchInv
    <3>2. queue # <<>> => s.fd
      BY <3>1, NothingWaits DEF Inv
    <3> QED BY <1>1, <1>2, <1>4, <1>5, <3>1, <3>2 DEF WatchInv
  <2> QED BY <2>1, <2>2
<1>10. /\ order \in Seq(Writes) /\ order = completed \o queue /\ Once(order) /\ queue \in Seq(Writes) /\ completed \in Seq(Writes)
       /\ connectReq # Shutdown /\ connectReq \notin Writes
  BY <1>3, Names DEF Inv, TypeInv, ListInv
<1> QED BY <1>1, <1>3, <1>4, <1>5, <1>7, <1>8, <1>9, <1>10, AnswerKeeps

\* The next write or send is answered.
LEMMA CallWrittenKeeps ==
  ASSUME Inv, CallWritten
  PROVE  Inv'
<1> DEFINE w == Head(completed)
<1>1. /\ main.at \in {"flush", "callbacks", "cancel"} /\ main.call = None /\ completed # <<>>
      /\ Answer(w) /\ main' = [main EXCEPT !.call = w] /\ order' = Without(order, w) /\ completed' = Tail(completed)
      /\ UNCHANGED <<kind, s, connectReq, queue, refs, inUse>>
  BY DEF CallWritten, Calls
<1>2. /\ queue \in Seq(Writes) /\ completed \in Seq(Writes) /\ order = completed \o queue /\ Once(completed \o queue)
  BY DEF Inv, TypeInv, ListInv
<1>3. /\ w \in Writes /\ Tail(completed) \in Seq(Writes) /\ In(order, w)
      /\ order' = Tail(completed) \o queue /\ Once(order')
      /\ \A x : In(order', x) <=> In(order, x) /\ x # w
  <2>1. /\ w \in Writes /\ Tail(completed) \in Seq(Writes) /\ In(completed \o queue, w)
        /\ Without(completed \o queue, w) = Tail(completed) \o queue
        /\ Once(Tail(completed) \o queue)
        /\ \A x : In(Tail(completed) \o queue, x) <=> In(completed \o queue, x) /\ x # w
    BY <1>1, <1>2, HeadTaken
  <2>2. order' = Tail(completed) \o queue
    BY <1>1, <1>2, <2>1
  <2> HIDE DEF w
  <2> QED BY <1>2, <2>1, <2>2
<1>4. order' \in Seq(Writes) /\ order' = completed' \o queue'
  BY <1>1, <1>2, <1>3, ConcatProperties
<1>5. w \in Requests /\ w \notin Connects /\ w # Shutdown /\ Unanswered(w)
  BY <1>3, Names DEF Inv, ListInv
<1> HIDE DEF w
<1>6. main' \in Main /\ main'.at = main.at /\ main'.call = w /\ main'.failed = main.failed /\ main'.out = main.out
  BY <1>1, <1>5 DEF Inv, TypeInv, Main
<1>7. PlaceInv'
  BY <1>1, <1>3, <1>6 DEF Inv, PlaceInv
<1>8. CloseInv' /\ ClosedInv'
  BY <1>1, <1>6 DEF Inv, CloseInv, ClosedInv
<1>9. ReadInv'
  BY <1>1, <1>6 DEF Inv, ReadInv
<1>10. WatchInv'
  <2>1. order # <<>>
    BY <1>1, NothingWaits DEF Inv
  <2> QED BY <1>1, <1>6, <2>1 DEF Inv, WatchInv
<1>11. s \in Handle
  BY DEF Inv, TypeInv
<1> QED BY <1>1, <1>2, <1>3, <1>4, <1>5, <1>6, <1>7, <1>8, <1>9, <1>10, <1>11, AnswerKeeps

\* What a step leaves to show that writes, or fails to write, what waits.
LEMMA MovedKeeps ==
  ASSUME Inv, UNCHANGED <<kind, connectReq, refs, order, inUse>>, main.call = None, main'.call = None,
         s' \in Handle, main' \in Main, s'.phase = s.phase, s'.shut = s.shut,
         reqs' \in [Requests -> [st : {"idle", "pending", "calling"}, views : 0 .. MaxViews, handle : BOOLEAN, err : WriteResults]],
         \A r \in Requests : reqs'[r].st = reqs[r].st /\ reqs'[r].views = reqs[r].views /\ reqs'[r].handle = reqs[r].handle,
         queue' \in Seq(Writes), completed' \in Seq(Writes), completed' \o queue' = completed \o queue,
         PlaceInv', CloseInv', ClosedInv', ReadInv', WatchInv'
  PROVE  Inv'
<1>1. TypeInv'
  BY DEF Inv, TypeInv
<1>2. ListInv'
  <2>1. \A w \in Writes : Unanswered(w)' <=> Unanswered(w)
    BY Names DEF Unanswered
  <2> QED BY <2>1 DEF Inv, ListInv
<1>3. RequestInv'
  <2>1. \A r \in Requests : Unanswered(r)' <=> Unanswered(r)
    BY DEF Unanswered
  <2>2. connectReq # None => connectReq \in Requests
    BY Names DEF Inv, TypeInv
  <2>3. \A r \in Requests : reqs'[r].st = "calling" <=> main'.call = r
    <3>1. \A r \in Requests : reqs[r].st = "calling" <=> main.call = r
      BY DEF Inv, RequestInv
    <3>2. main'.call = main.call
      OBVIOUS
    <3>3. \A r \in Requests : reqs'[r].st = reqs[r].st
      OBVIOUS
    <3> QED BY <3>1, <3>2, <3>3
  <2>4. \A r \in Requests \ Writes : reqs'[r].views = 0 /\ ~reqs'[r].handle
    BY DEF Inv, RequestInv
  <2>5. connectReq' # None => Unanswered(connectReq)'
    <3>1. CASE connectReq # None
      <4>1. Unanswered(connectReq) /\ connectReq \in Requests
        BY <2>2, <3>1 DEF Inv, RequestInv
      <4> QED BY <4>1 DEF Unanswered
    <3> QED BY <3>1
  <2>6. ~Corner("reconnect") => \A c \in Connects : Unanswered(c)' => connectReq' = c
    BY <2>1, Names DEF Inv, RequestInv
  <2>7. s'.phase = "open" => (Unanswered(Shutdown)' <=> s'.shut = "shutting")
    BY <2>1, Names DEF Inv, RequestInv
  <2> QED BY <2>3, <2>4, <2>5, <2>6, <2>7 DEF RequestInv, Corner
<1>4. CountInv'
  BY SameCounts DEF Inv
<1>5. BufferInv'
  BY Names DEF Inv, BufferInv
<1> QED BY <1>1, <1>2, <1>3, <1>4, <1>5 DEF Inv

\* uv__stream_flush_write_queue moves all that waits to the list of what is done.
LEMMA FlushedIs ==
  ASSUME TypeInv, Flushed
  PROVE  /\ reqs' \in [Requests -> [st : {"idle", "pending", "calling"}, views : 0 .. MaxViews, handle : BOOLEAN, err : WriteResults]]
         /\ \A r \in Requests : reqs'[r].st = reqs[r].st /\ reqs'[r].views = reqs[r].views /\ reqs'[r].handle = reqs[r].handle
         /\ queue' = <<>> /\ queue' \in Seq(Writes) /\ completed' \in Seq(Writes) /\ completed' \o queue' = completed \o queue
<1>1. reqs' = [r \in Requests |-> IF In(queue, r) THEN [reqs[r] EXCEPT !.err = "failed"] ELSE reqs[r]]
  BY DEF Flushed
<1>2. /\ reqs' \in [Requests -> [st : {"idle", "pending", "calling"}, views : 0 .. MaxViews, handle : BOOLEAN, err : WriteResults]]
      /\ \A r \in Requests : reqs'[r].st = reqs[r].st /\ reqs'[r].views = reqs[r].views /\ reqs'[r].handle = reqs[r].handle
  BY <1>1 DEF TypeInv, WriteResults
<1>3. completed \o queue \in Seq(Writes)
  BY ConcatProperties DEF TypeInv
<1>4. (completed \o queue) \o <<>> = completed \o queue
  BY <1>3, ConcatEmptySeq
<1>5. queue' = <<>> /\ completed' = completed \o queue
  BY DEF Flushed
<1> QED BY <1>2, <1>3, <1>4, <1>5, EmptySeq

\* Behind the connect callback.
LEMMA AfterConnectedKeeps ==
  ASSUME Inv, AfterConnected
  PROVE  Inv'
<1>1. main.at = "connected" /\ main.call = None /\ UNCHANGED <<kind, s, connectReq, refs, order, inUse>> /\ s \in Handle
  BY DEF AfterConnected, Inv, TypeInv
<1>2. \/ s.fd /\ Flushed /\ main' = [main EXCEPT !.at = "flush"]
      \/ ~(main.failed /\ s.fd) /\ main' = [main EXCEPT !.at = "idle", !.failed = FALSE] /\ UNCHANGED <<queue, completed, reqs>>
  BY DEF AfterConnected
<1>3. /\ reqs' \in [Requests -> [st : {"idle", "pending", "calling"}, views : 0 .. MaxViews, handle : BOOLEAN, err : WriteResults]]
      /\ \A r \in Requests : reqs'[r].st = reqs[r].st /\ reqs'[r].views = reqs[r].views /\ reqs'[r].handle = reqs[r].handle
      /\ queue' \in Seq(Writes) /\ completed' \in Seq(Writes) /\ completed' \o queue' = completed \o queue
  <2>1. CASE Flushed
    BY <2>1, FlushedIs DEF Inv
  <2>2. CASE UNCHANGED <<queue, completed, reqs>>
    BY <2>2 DEF Inv, TypeInv
  <2> QED BY <1>2, <2>1, <2>2
<1>4. /\ main' \in Main /\ main'.call = None
      /\ \/ main'.at = "flush" /\ queue' = <<>>
         \/ main'.at = "idle" /\ UNCHANGED <<queue, completed>> /\ ~(main.failed /\ s.fd)
  <2>1. Flushed => queue' = <<>>
    BY FlushedIs DEF Inv
  <2> QED BY <1>1, <1>2, <2>1 DEF Inv, TypeInv, Main, Places
<1>5. PlaceInv' /\ CloseInv'
  BY <1>1, <1>4 DEF Inv, PlaceInv, CloseInv
<1>6. ClosedInv' /\ ReadInv'
  BY <1>1, <1>4 DEF Inv, PlaceInv, ClosedInv, ReadInv
<1>7. WatchInv'
  BY <1>1, <1>4 DEF Inv, WatchInv
<1> QED BY <1>1, <1>3, <1>4, <1>5, <1>6, <1>7, MovedKeeps

\* One request of a stream is written, or fails, or is not finished.
LEMMA WriteQueuedKeeps ==
  ASSUME Inv, WriteQueued
  PROVE  Inv'
<1>1. /\ main.at = "write" /\ Stream /\ main' = [main EXCEPT !.at = "callbacks"]
      /\ UNCHANGED <<kind, connectReq, refs, order, inUse>>
      /\ queue \in Seq(Writes) /\ completed \in Seq(Writes) /\ s \in Handle
  BY DEF WriteQueued, Inv, TypeInv
<1>2. main' \in Main /\ main'.at = "callbacks" /\ main'.call = main.call /\ main.call = None /\ kind # "server" /\ kind # "udp"
      /\ s.phase = "open"
  BY <1>1 DEF Inv, TypeInv, Main, Places, PlaceInv, Stream
<1>3. /\ reqs' \in [Requests -> [st : {"idle", "pending", "calling"}, views : 0 .. MaxViews, handle : BOOLEAN, err : WriteResults]]
      /\ \A r \in Requests : reqs'[r].st = reqs[r].st /\ reqs'[r].views = reqs[r].views /\ reqs'[r].handle = reqs[r].handle
      /\ queue' \in Seq(Writes) /\ completed' \in Seq(Writes) /\ completed' \o queue' = completed \o queue
  <2>1. CASE UNCHANGED <<queue, completed, reqs>>
    BY <1>1, <2>1 DEF Inv, TypeInv
  <2>2. CASE /\ queue # <<>>
             /\ \E e \in WriteResults :
                  /\ reqs' = [reqs EXCEPT ![Head(queue)].err = e]
                  /\ IF e = "none" THEN UNCHANGED <<queue, completed>>
                     ELSE queue' = Tail(queue) /\ completed' = Append(completed, Head(queue))
    <3>1. /\ Append(completed, Head(queue)) \in Seq(Writes) /\ Tail(queue) \in Seq(Writes)
          /\ Append(completed, Head(queue)) \o Tail(queue) = completed \o queue
      BY <1>1, <2>2, HeadMoved
    <3>2. /\ queue' \in Seq(Writes) /\ completed' \in Seq(Writes) /\ completed' \o queue' = completed \o queue
      BY <1>1, <2>2, <3>1
    <3>3. PICK e \in WriteResults : reqs' = [reqs EXCEPT ![Head(queue)].err = e]
      BY <2>2
    <3>4. reqs \in [Requests -> [st : {"idle", "pending", "calling"}, views : 0 .. MaxViews, handle : BOOLEAN, err : WriteResults]]
      BY DEF Inv, TypeInv
    <3>5. /\ reqs' \in [Requests -> [st : {"idle", "pending", "calling"}, views : 0 .. MaxViews, handle : BOOLEAN, err : WriteResults]]
          /\ \A r \in Requests : reqs'[r].st = reqs[r].st /\ reqs'[r].views = reqs[r].views /\ reqs'[r].handle = reqs[r].handle
      BY <3>3, <3>4
    <3> QED BY <3>2, <3>5
  <2> QED BY <2>1, <2>2 DEF WriteQueued
<1>4. /\ s' \in Handle /\ s'.phase = s.phase /\ s'.shut = s.shut /\ s'.pollin = s.pollin /\ s'.flag = s.flag /\ s'.fd = s.fd
      /\ s'.onread = s.onread /\ s'.readcb = s.readcb /\ s'.accepted = s.accepted
      /\ queue' # <<>> => s'.pollout \/ s'.fed
  <2>1. CASE queue = <<>> /\ UNCHANGED <<s, queue>>
    BY <1>1, <2>1
  <2>2. CASE \E e \in WriteResults : s' = AfterWrite(e)
    <3>1. PICK e \in WriteResults : s' = AfterWrite(e)
      BY <2>2
    <3>2. e = "none" => s'.pollout
      BY <1>1, <3>1, AfterWriteIs
    <3>3. e # "none" => s'.fed
      BY <1>1, <3>1, AfterWriteIs
    <3> QED BY <1>1, <3>1, <3>2, <3>3, AfterWriteIs
  <2> QED BY <2>1, <2>2 DEF WriteQueued
<1>5. PlaceInv' /\ CloseInv'
  BY <1>1, <1>2, <1>4 DEF Inv, PlaceInv, CloseInv
<1>6. ClosedInv' /\ ReadInv'
  BY <1>1, <1>2, <1>4 DEF Inv, ClosedInv, ReadInv
<1>7. WatchInv'
  BY <1>1, <1>2, <1>4 DEF Inv, WatchInv
<1> QED BY <1>1, <1>2, <1>3, <1>4, <1>5, <1>6, <1>7, MovedKeeps

\* As many datagrams are sent as the socket takes.
LEMMA SendQueuedKeeps ==
  ASSUME Inv, SendQueued
  PROVE  Inv'
<1>1. /\ main.at = "write" /\ kind = "udp" /\ main' = [main EXCEPT !.at = "callbacks"]
      /\ UNCHANGED <<kind, connectReq, refs, order, inUse>>
      /\ queue \in Seq(Writes) /\ completed \in Seq(Writes) /\ s \in Handle
  BY DEF SendQueued, Inv, TypeInv
<1>2. main' \in Main /\ main'.at = "callbacks" /\ main'.call = main.call /\ main.call = None /\ s.phase # "closed"
  BY <1>1 DEF Inv, TypeInv, Main, Places, PlaceInv, CloseInv
<1>3. PICK n \in 0 .. Len(queue) :
        /\ ~s.fd => n = Len(queue)
        /\ completed' = completed \o SubSeq(queue, 1, n)
        /\ queue' = SubSeq(queue, n + 1, Len(queue))
        /\ s' = [s EXCEPT !.fed = @ \/ n > 0]
        /\ reqs' = [r \in Requests |-> IF In(SubSeq(queue, 1, n), r)
                     THEN [reqs[r] EXCEPT !.err = IF s.fd THEN "ok" ELSE "failed"] ELSE reqs[r]]
  <2>1. Len(queue) \in Nat
    BY <1>1, LenProperties
  <2>2. PICK n \in (IF s.fd THEN 0 ELSE Len(queue)) .. Len(queue) :
          /\ completed' = completed \o SubSeq(queue, 1, n)
          /\ queue' = SubSeq(queue, n + 1, Len(queue))
          /\ s' = [s EXCEPT !.fed = @ \/ n > 0]
          /\ reqs' = [r \in Requests |-> IF In(SubSeq(queue, 1, n), r)
                       THEN [reqs[r] EXCEPT !.err = IF s.fd THEN "ok" ELSE "failed"] ELSE reqs[r]]
    BY DEF SendQueued
  <2>3. n \in 0 .. Len(queue) /\ (~s.fd => n = Len(queue))
    BY <2>1
  <2> QED BY <2>2, <2>3
<1>4. /\ queue' \in Seq(Writes) /\ completed' \in Seq(Writes) /\ completed' \o queue' = completed \o queue
      /\ queue' # <<>> => queue # <<>>
  <2>1. /\ queue' \in Seq(Writes) /\ completed' \in Seq(Writes) /\ completed' \o queue' = completed \o queue
        /\ n = Len(queue) => queue' = <<>>
    <3>1. n \in Nat /\ n <= Len(queue) /\ queue \in Seq(Writes) /\ completed \in Seq(Writes)
      BY <1>1, LenProperties
    <3>2. /\ completed \o SubSeq(queue, 1, n) \in Seq(Writes) /\ SubSeq(queue, n + 1, Len(queue)) \in Seq(Writes)
          /\ (completed \o SubSeq(queue, 1, n)) \o SubSeq(queue, n + 1, Len(queue)) = completed \o queue
          /\ n = Len(queue) => SubSeq(queue, n + 1, Len(queue)) = <<>>
      BY <3>1, PrefixMoved
    <3>3. completed' = completed \o SubSeq(queue, 1, n) /\ queue' = SubSeq(queue, n + 1, Len(queue))
      BY <1>3, Zenon
    <3> QED BY <3>2, <3>3, Zenon
  <2>2. queue = <<>> => n = Len(queue)
    BY <1>3
  <2> QED BY <1>3, <2>1, <2>2
<1>5. /\ reqs' \in [Requests -> [st : {"idle", "pending", "calling"}, views : 0 .. MaxViews, handle : BOOLEAN, err : WriteResults]]
      /\ \A r \in Requests : reqs'[r].st = reqs[r].st /\ reqs'[r].views = reqs[r].views /\ reqs'[r].handle = reqs[r].handle
  <2> DEFINE e == IF s.fd THEN "ok" ELSE "failed"
             some == SubSeq(queue, 1, n)
  <2>1. reqs' = [r \in Requests |-> IF In(some, r) THEN [reqs[r] EXCEPT !.err = e] ELSE reqs[r]]
    BY <1>3
  <2>2. e \in WriteResults
    BY DEF WriteResults
  <2>3. reqs \in [Requests -> [st : {"idle", "pending", "calling"}, views : 0 .. MaxViews, handle : BOOLEAN, err : WriteResults]]
    BY DEF Inv, TypeInv
  <2> HIDE DEF e, some
  <2> QED BY <2>1, <2>2, <2>3
<1>6. /\ s' \in Handle /\ s'.phase = s.phase /\ s'.shut = s.shut /\ s'.pollin = s.pollin /\ s'.flag = s.flag /\ s'.fd = s.fd
      /\ s'.onread = s.onread /\ s'.readcb = s.readcb /\ s'.accepted = s.accepted /\ s'.pollout = s.pollout
      /\ s.fed => s'.fed
      /\ queue = <<>> => s'.fed = s.fed
  <2> DEFINE f == s.fed \/ n > 0
  <2>1. f \in BOOLEAN /\ s' = [s EXCEPT !.fed = f] /\ (s.fed => f)
    BY <1>3
  <2>2. queue = <<>> => (f <=> s.fed)
    BY <1>3
  <2> HIDE DEF f
  <2> QED BY <1>1, <2>1, <2>2 DEF Handle
<1>7. PlaceInv'
  BY <1>1, <1>2, <1>6 DEF Inv, PlaceInv
<1>8. CloseInv'
  BY <1>1, <1>2, <1>6 DEF Inv, CloseInv
<1>9. ClosedInv'
  BY <1>1, <1>2, <1>6 DEF Inv, ClosedInv, PlaceInv
<1>10. ReadInv'
  BY <1>1, <1>2, <1>6 DEF Inv, ReadInv
<1>11. WatchInv'
  BY <1>1, <1>2, <1>4, <1>6 DEF Inv, WatchInv
<1> QED BY <1>1, <1>2, <1>4, <1>5, <1>6, <1>7, <1>8, <1>9, <1>10, <1>11, MovedKeeps

\* Nothing is left to call back: the watcher rests, or the socket is shut down.
LEMMA DrainedKeeps ==
  ASSUME Inv, Drained
  PROVE  Inv'
<1> DEFINE shutsDown == queue = <<>> /\ s.shut = "shutting" /\ s.phase = "open"
<1>1. /\ main.at = "callbacks" /\ main.call = None /\ completed = <<>>
      /\ UNCHANGED <<kind, connectReq, queue, completed, refs, order, inUse>>
      /\ main' = [Rest EXCEPT !.call = IF shutsDown THEN Shutdown ELSE None]
      /\ IF shutsDown THEN Answer(Shutdown) ELSE UNCHANGED reqs
  BY DEF Drained
<1>2. PICK shut \in IF shutsDown THEN {"shut", "no"} ELSE {s.shut} :
        s' = [s EXCEPT !.pollout = @ /\ queue # <<>>, !.shut = shut]
  BY DEF Drained
<1>3. /\ main' \in Main /\ main'.at = "idle" /\ main'.out = FALSE /\ main'.failed = FALSE
      /\ main'.call = IF shutsDown THEN Shutdown ELSE None
  BY <1>1, RestIs, Names DEF Main
<1>4. /\ s' \in Handle /\ s'.phase = s.phase /\ s'.fd = s.fd /\ s'.flag = s.flag /\ s'.readcb = s.readcb
      /\ s'.onread = s.onread /\ s'.pollin = s.pollin /\ s'.accepted = s.accepted /\ s'.fed = s.fed /\ s'.delayed = s.delayed
      /\ (s'.pollout => s.pollout) /\ (queue # <<>> => s'.pollout = s.pollout)
      /\ IF shutsDown THEN s'.shut # "shutting" ELSE s'.shut = s.shut
  <2> DEFINE p == s.pollout /\ queue # <<>>
  <2>1. s \in Handle
    BY DEF Inv, TypeInv
  <2>2. /\ p \in BOOLEAN /\ (p => s.pollout) /\ s' = [s EXCEPT !.pollout = p, !.shut = shut]
        /\ queue # <<>> => p = s.pollout
    BY <1>2, <2>1 DEF Handle
  <2>3. shut \in {"no", "shutting", "shut"} /\ (IF shutsDown THEN shut # "shutting" ELSE shut = s.shut)
    BY <1>2, <2>1 DEF Handle
  <2> HIDE DEF p, shutsDown
  <2> QED BY <2>1, <2>2, <2>3 DEF Handle
<1>5. PlaceInv'
  BY <1>1, <1>3 DEF Inv, PlaceInv
<1>6. CloseInv'
  BY <1>1, <1>3, <1>4 DEF Inv, CloseInv
<1>7. ClosedInv'
  BY <1>1, <1>3, <1>4 DEF Inv, ClosedInv
<1>8. ReadInv'
  BY <1>1, <1>3, <1>4 DEF Inv, ReadInv
<1>9. WatchInv'
  BY <1>1, <1>3, <1>4 DEF Inv, WatchInv
<1>10. CASE shutsDown
  <2>1. Shutdown \in Requests /\ Shutdown \notin Connects /\ Shutdown \notin Writes /\ Unanswered(Shutdown) /\ Answer(Shutdown)
    BY <1>1, <1>10, Names DEF Inv, RequestInv
  <2>2. /\ order \in Seq(Writes) /\ order = completed \o queue /\ Once(order) /\ queue \in Seq(Writes) /\ completed \in Seq(Writes)
    BY DEF Inv, TypeInv, ListInv
  <2> QED BY <1>1, <1>3, <1>4, <1>5, <1>6, <1>7, <1>8, <1>9, <1>10, <2>1, <2>2, AnswerKeeps
<1>11. CASE ~shutsDown
  <2>1. UNCHANGED reqs /\ main'.call = main.call /\ s'.shut = s.shut
    BY <1>1, <1>3, <1>4, <1>11
  <2>2. BufferInv'
    BY <1>1, <2>1 DEF Inv, BufferInv
  <2> QED BY <1>1, <1>3, <1>4, <1>5, <1>6, <1>7, <1>8, <1>9, <2>1, <2>2, QuietKeeps DEF writing
<1> QED BY <1>10, <1>11

\* uv__stream_destroy begins with the connect request.
LEMMA DestroyKeeps ==
  ASSUME Inv, Destroy
  PROVE  Inv'
<1>1. /\ main.at = "idle" /\ main.call = None /\ s.phase = "closing" /\ connectReq' = None
      /\ UNCHANGED <<kind, s, queue, completed, refs, order, inUse>>
      /\ IF connectReq = None THEN main' = [main EXCEPT !.at = "destroy"] /\ UNCHANGED reqs
         ELSE main' = [main EXCEPT !.at = "destroy", !.call = connectReq] /\ Answer(connectReq)
  BY DEF Destroy, InIdle
<1>2. main' \in Main /\ main'.at = "destroy" /\ main'.call = connectReq
  <2>1. main \in Main /\ connectReq \in Requests \cup {None}
    BY Names DEF Inv, TypeInv
  <2>2. CASE connectReq = None
    BY <1>1, <2>1, <2>2 DEF Main, Places
  <2>3. CASE connectReq # None
    BY <1>1, <2>1, <2>3 DEF Main, Places
  <2> QED BY <2>2, <2>3
<1>3. s \in Handle /\ connectReq \in Connects \cup {None}
  BY DEF Inv, TypeInv
<1>4. PlaceInv' /\ CloseInv' /\ ClosedInv'
  BY <1>1, <1>2, <1>3 DEF Inv, PlaceInv, CloseInv, ClosedInv
<1>5. ReadInv' /\ WatchInv'
  BY <1>1, <1>2 DEF Inv, ReadInv, WatchInv
<1>6. CASE connectReq = None
  <2>1. BufferInv'
    BY <1>1, <1>2, <1>6 DEF Inv, BufferInv
  <2> QED BY <1>1, <1>2, <1>3, <1>4, <1>5, <1>6, <2>1, QuietKeeps DEF writing
<1>7. CASE connectReq # None
  <2>1. connectReq \in Requests /\ connectReq \notin Writes /\ connectReq # Shutdown /\ Unanswered(connectReq) /\ Answer(connectReq)
    BY <1>1, <1>3, <1>7, Names DEF Inv, RequestInv
  <2>2. /\ order \in Seq(Writes) /\ order = completed \o queue /\ Once(order) /\ queue \in Seq(Writes) /\ completed \in Seq(Writes)
    BY DEF Inv, TypeInv, ListInv
  <2>3. s'.phase # "open"
    BY <1>1
  <2> QED BY <1>1, <1>2, <1>3, <1>4, <1>5, <1>7, <2>1, <2>2, <2>3, AnswerKeeps
<1> QED BY <1>6, <1>7

\* Then everything that waits has failed.
LEMMA CancelWritesKeeps ==
  ASSUME Inv, CancelWrites
  PROVE  Inv'
<1>1. /\ main.at = "destroy" /\ main.call = None /\ main' = [main EXCEPT !.at = "cancel"] /\ Flushed
      /\ UNCHANGED <<kind, s, connectReq, refs, order, inUse>>
  BY DEF CancelWrites
<1>2. main' \in Main /\ main'.at = "cancel" /\ main'.call = None
  BY <1>1 DEF Inv, TypeInv, Main, Places
<1>3. /\ reqs' \in [Requests -> [st : {"idle", "pending", "calling"}, views : 0 .. MaxViews, handle : BOOLEAN, err : WriteResults]]
      /\ \A r \in Requests : reqs'[r].st = reqs[r].st /\ reqs'[r].views = reqs[r].views /\ reqs'[r].handle = reqs[r].handle
      /\ queue' = <<>> /\ queue' \in Seq(Writes) /\ completed' \in Seq(Writes) /\ completed' \o queue' = completed \o queue
  BY <1>1, FlushedIs DEF Inv
<1>4. s.phase = "closing" /\ connectReq = None /\ s \in Handle
  BY <1>1 DEF Inv, CloseInv, TypeInv
<1>5. PlaceInv' /\ CloseInv' /\ ClosedInv'
  BY <1>1, <1>2, <1>3, <1>4 DEF Inv, PlaceInv, CloseInv, ClosedInv
<1>6. ReadInv' /\ WatchInv'
  BY <1>1, <1>2, <1>4 DEF Inv, ReadInv, WatchInv
<1> QED BY <1>1, <1>2, <1>3, <1>4, <1>5, <1>6, MovedKeeps

\* The shutdown is cancelled, or the close callback runs.
LEMMA CancelShutdownKeeps ==
  ASSUME Inv, CancelShutdown
  PROVE  Inv'
<1>1. /\ main.at = "cancel" /\ main.call = None /\ completed = <<>>
      /\ UNCHANGED <<kind, connectReq, queue, completed, refs, order, inUse>>
      /\ \/ Unanswered(Shutdown) /\ Answer(Shutdown) /\ main' = [main EXCEPT !.call = Shutdown] /\ UNCHANGED s
         \/ /\ reqs[Shutdown].st = "idle" /\ UNCHANGED reqs
            /\ s' = [s EXCEPT !.phase = "closed", !.pyref = FALSE, !.readcb = FALSE]
            /\ main' = [main EXCEPT !.at = "ended", !.call = "close"]
  BY DEF CancelShutdown, Calls, Unanswered
<1>2. s.phase = "closing" /\ connectReq = None /\ queue = <<>> /\ s \in Handle
  BY <1>1 DEF Inv, CloseInv, TypeInv
<1>3. CASE Unanswered(Shutdown) /\ Answer(Shutdown) /\ main' = [main EXCEPT !.call = Shutdown] /\ UNCHANGED s
  <2>1. main' \in Main /\ main'.at = "cancel" /\ main'.call = Shutdown
    BY <1>1, <1>3, Names DEF Inv, TypeInv, Main
  <2>2. PlaceInv' /\ CloseInv' /\ ClosedInv'
    BY <1>1, <1>2, <1>3, <2>1 DEF Inv, PlaceInv, CloseInv, ClosedInv
  <2>3. ReadInv' /\ WatchInv'
    BY <1>1, <1>2, <1>3, <2>1 DEF Inv, ReadInv, WatchInv
  <2>4. /\ order \in Seq(Writes) /\ order = completed \o queue /\ Once(order) /\ queue \in Seq(Writes) /\ completed \in Seq(Writes)
    BY DEF Inv, TypeInv, ListInv
  <2> QED BY <1>1, <1>2, <1>3, <2>1, <2>2, <2>3, <2>4, Names, AnswerKeeps
<1>4. CASE /\ reqs[Shutdown].st = "idle" /\ UNCHANGED reqs
           /\ s' = [s EXCEPT !.phase = "closed", !.pyref = FALSE, !.readcb = FALSE]
           /\ main' = [main EXCEPT !.at = "ended", !.call = "close"]
  <2>1. main' \in Main /\ main'.at = "ended" /\ main'.call = "close"
    BY <1>1, <1>4 DEF Inv, TypeInv, Main, Places
  <2>2. /\ s' \in Handle /\ s'.phase = "closed" /\ s'.fd = s.fd /\ s'.flag = s.flag /\ ~s'.readcb
        /\ s'.onread = s.onread /\ s'.pollin = s.pollin /\ s'.accepted = s.accepted /\ s'.fed = s.fed /\ s'.pollout = s.pollout
    BY <1>2, <1>4 DEF Handle
  <2>3. BufferInv'
    BY <1>1, Names DEF Inv, BufferInv
  <2>4. PlaceInv' /\ CloseInv' /\ ClosedInv'
    BY <1>1, <1>2, <1>4, <2>1, <2>2 DEF Inv, PlaceInv, CloseInv, ClosedInv, Unanswered
  <2>5. ReadInv' /\ WatchInv'
    BY <1>1, <1>2, <1>4, <2>1, <2>2 DEF Inv, ReadInv, WatchInv
  <2> QED BY <1>1, <1>2, <1>4, <2>1, <2>2, <2>3, <2>4, <2>5, Names, QuietKeeps DEF writing
<1> QED BY <1>1, <1>3, <1>4

-----------------------------------------------------------------------------
(* The invariant.                                                          *)

\* Nothing is outstanding when the handle is made.
LEMMA InitEstablishes ==
  ASSUME Init
  PROVE  Inv
<1>1. /\ s \in Handle /\ s.phase = "open" /\ s.shut = "no" /\ ~s.flag /\ ~s.readcb /\ ~s.onread /\ ~s.pollin /\ ~s.accepted
      /\ main \in Main /\ main.at = "idle" /\ main.call = None
  BY DEF Init, Handle, Main, Places, Results
<1>2. \A r \in Requests : reqs[r].st = "idle" /\ reqs[r].views = 0 /\ ~reqs[r].handle
  BY DEF Init
<1>3. TypeInv
  BY <1>1, Names, EmptySeq DEF Init, TypeInv, WriteResults
<1>4. ListInv
  <2>1. <<>> \o <<>> = <<>>
    BY EmptySeq, ConcatEmptySeq
  <2> QED BY <1>2, <2>1, EmptyOnce, Names DEF Init, ListInv, Unanswered
<1>5. RequestInv
  BY <1>1, <1>2, Names DEF Init, RequestInv, Unanswered
<1>6. CountInv
  <2>1. Outstanding = {} /\ {r \in Outstanding : reqs[r].handle} = {}
    BY <1>2 DEF Outstanding
  <2>2. Views = {}
    BY <2>1 DEF Views
  <2> QED BY <2>1, <2>2, FS_EmptySet DEF Init, CountInv
<1>7. BufferInv /\ PlaceInv
  BY <1>1, Names DEF Init, BufferInv, PlaceInv
<1>8. CloseInv /\ ClosedInv /\ ReadInv /\ WatchInv
  BY <1>1, Names DEF Init, CloseInv, ClosedInv, ReadInv, WatchInv
<1> QED BY <1>3, <1>4, <1>5, <1>6, <1>7, <1>8 DEF Inv

\* No call and no step of the loop breaks the invariant.
LEMMA StepKeeps ==
  ASSUME Inv, [Next]_vars
  PROVE  Inv'
<1>1. CASE UNCHANGED vars
  BY <1>1, StutterKeeps
<1>2. CASE CallsOfPython
  <2>1. CASE \E c \in Connects : ConnectTcp(c) \/ ConnectPipe(c)
    BY <2>1, ConnectKeeps
  <2>2. CASE \E w \in Writes, n \in 1 .. MaxViews : Write(w, n, FALSE) \/ WritePipe(w, n) \/ Send(w, n)
    <3>1. PICK w \in Writes, n \in 1 .. MaxViews : Write(w, n, FALSE) \/ WritePipe(w, n) \/ Send(w, n)
      BY <2>2
    <3>2. n \in 0 .. MaxViews
      BY Names
    <3> QED BY <3>1, <3>2, WriteKeeps, SendKeeps DEF WritePipe
  <2>3. CASE \E i \in 0 .. MaxViews : WriteRaises(i)
    BY <2>3, StutterKeeps
  <2>4. CASE ConnectTcpRaises \/ Open \/ Bind
    BY <2>4, OpenKeeps
  <2>5. CASE TryWrite \/ ShutDown \/ Close
    BY <2>5, TryWriteKeeps, ShutDownKeeps, CloseKeeps
  <2>6. CASE StartRead \/ StartRecv \/ StopRead \/ StopRecv
    BY <2>6, StartReadKeeps, StopReadKeeps
  <2>7. CASE Listen \/ Accept
    BY <2>7, ListenKeeps
  <2> QED BY <1>2, <2>1, <2>2, <2>3, <2>4, <2>5, <2>6, <2>7 DEF CallsOfPython
<1>3. CASE Loop
  <2>1. CASE LeaveWrite \/ LeaveSend \/ LeaveShutdown \/ LeaveConnectTcp \/ LeaveConnectPipe
    <3>1. LeaveCallback /\ main.call \in Requests
      BY <2>1, Names DEF LeaveWrite, LeaveSend, LeaveShutdown, LeaveConnectTcp, LeaveConnectPipe
    <3> QED BY <3>1, LeaveCallbackKeeps
  <2>2. CASE Connected \/ AfterConnected \/ CallWritten
    BY <2>2, ConnectedKeeps, AfterConnectedKeeps, CallWrittenKeeps
  <2>3. CASE StillConnecting \/ FlushDone
    BY <2>3, BackToIdleKeeps
  <2>4. CASE Event \/ ReadOnce \/ LeaveRead
    BY <2>4, EventKeeps, ReadOnceKeeps, LeaveReadKeeps
  <2>5. CASE ReadDone
    BY <2>5, ReadOnceKeeps, ReadDoneKeeps
  <2>6. CASE WriteQueued \/ SendQueued \/ Drained
    BY <2>6, WriteQueuedKeeps, SendQueuedKeeps, DrainedKeeps
  <2>7. CASE ServerAccepts \/ LeaveConnection
    BY <2>7, ServerKeeps
  <2>8. CASE Destroy \/ CancelWrites \/ CancelShutdown \/ LeaveClose
    BY <2>8, DestroyKeeps, CancelWritesKeeps, CancelShutdownKeeps, LeaveCloseKeeps
  <2> QED BY <1>3, <2>1, <2>2, <2>3, <2>4, <2>5, <2>6, <2>7, <2>8 DEF Loop
<1> QED BY <1>1, <1>2, <1>3 DEF Next

\* The invariant holds in every state a program reaches.
LEMMA Invariance == Spec => []Inv
<1>1. Init => Inv
  BY InitEstablishes
<1>2. Inv /\ [Next]_vars => Inv'
  BY StepKeeps
<1> QED BY <1>1, <1>2, PTL DEF Spec

-----------------------------------------------------------------------------
(* The theorems.                                                           *)

\* The counts and the lists stay within the number of requests.
LEMMA WithinBounds ==
  ASSUME Inv
  PROVE  TypeOK
<1>1. held \in 0 .. Cardinality(Requests)
  BY CountedFinite, Names, FS_Subset, FS_CardinalityType DEF Inv, CountInv
<1> DEFINE H == {r \in Outstanding : reqs[r].handle}
<1>2. H \in SUBSET Writes
  BY DEF Inv, RequestInv, Outstanding
<1>3. sent \in 0 .. Cardinality(Writes)
  <2>1. sent = Cardinality(H)
    BY DEF Inv, CountInv
  <2> HIDE DEF H
  <2> QED BY <1>2, <2>1, Names, FS_Subset, FS_CardinalityType
<1>4. exported \in 0 .. MaxViews * Cardinality(Writes)
  <2> DEFINE all == Writes \X (1 .. MaxViews)
  <2>1. Views \in SUBSET all
    <3>1. \A v \in Outstanding \X (1 .. MaxViews) : v[2] <= reqs[v[1]].views => v[1] \in Writes
      BY Names DEF Inv, RequestInv, Outstanding
    <3> QED BY <3>1 DEF Views
  <2>2. IsFiniteSet(1 .. MaxViews) /\ Cardinality(1 .. MaxViews) = MaxViews
    <3>1. IsFiniteSet(1 .. MaxViews) /\ Cardinality(1 .. MaxViews) = IF 1 > MaxViews THEN 0 ELSE MaxViews - 1 + 1
      BY Names, FS_Interval
    <3> QED BY <3>1, Names
  <2>3. IsFiniteSet(all) /\ Cardinality(all) = Cardinality(Writes) * MaxViews
    <3>1. IsFiniteSet(all) /\ Cardinality(all) = Cardinality(Writes) * Cardinality(1 .. MaxViews)
      BY <2>2, Names, FS_Product
    <3> QED BY <2>2, <3>1
  <2> HIDE DEF all
  <2>4. Cardinality(Views) <= Cardinality(all)
    BY <2>1, <2>3, FS_Subset
  <2>5. Cardinality(Views) \in Nat
    BY CountedFinite, FS_CardinalityType DEF Inv
  <2>6. Cardinality(Writes) \in Nat /\ MaxViews \in Nat
    BY Names, FS_CardinalityType
  <2>7. Cardinality(Writes) * MaxViews = MaxViews * Cardinality(Writes) /\ Cardinality(Writes) * MaxViews \in Nat
    BY <2>6
  <2> QED BY <2>3, <2>4, <2>5, <2>7 DEF Inv, CountInv
<1>5. \A q \in {queue, completed, order} : q \in Seq(Writes) /\ Len(q) <= Cardinality(Writes)
  <2>1. queue \in Seq(Writes) /\ completed \in Seq(Writes) /\ order \in Seq(Writes) /\ order = completed \o queue /\ Once(order)
    BY DEF Inv, TypeInv, ListInv
  <2>2. Once(completed \o queue)
    BY <2>1
  <2>3. Once(queue) /\ Once(completed)
    <3>1. queue \in Seq(Writes) /\ completed \in Seq(Writes)
      BY <2>1
    <3> QED BY <2>2, <3>1, SplitOnce
  <2>4. Len(queue) <= Cardinality(Writes)
    BY <2>1, <2>3, Names, OnceLength
  <2>5. Len(completed) <= Cardinality(Writes)
    BY <2>1, <2>3, Names, OnceLength
  <2>6. Len(order) <= Cardinality(Writes)
    BY <2>1, Names, OnceLength
  <2> QED BY <2>1, <2>4, <2>5, <2>6
<1> QED BY <1>1, <1>3, <1>4, <1>5 DEF TypeOK, Inv, TypeInv, BufferInv

\* The variables of src/stream.c and src/udp.c have their types, and no more is
\* held, exported, sent or listed than there are requests.
THEOREM TypeCorrect == Spec => []TypeOK
<1>1. Inv => TypeOK
  BY WithinBounds
<1> QED BY <1>1, Invariance, PTL

\* Unless Pipe.connect() is called while connecting, which forgets the first
\* connect request, every request that stream.c, tcp.c, pipe.c or udp.c handed
\* to libuv is in one place and holds its references and buffers as long as it
\* is outstanding, and no longer.
THEOREM RequestsHold ==
  ASSUME "reconnect" \notin Corners
  PROVE  Spec => []RequestsKept
<1>1. Inv => RequestsKept
  <2> SUFFICES ASSUME Inv PROVE RequestsKept
    OBVIOUS
  <2>1. /\ held = Cardinality(Outstanding)
        /\ sent = Cardinality({r \in Outstanding : reqs[r].handle})
        /\ exported = Cardinality(Views)
    BY DEF Inv, CountInv
  <2>2. queue \in Seq(Writes) /\ completed \in Seq(Writes) /\ order = completed \o queue /\ Once(order)
    BY DEF Inv, TypeInv, ListInv
  <2>3. Once(completed \o queue)
    BY <2>2
  <2>4. /\ Once(completed) /\ Once(queue) /\ \A r : ~(In(completed, r) /\ In(queue, r))
        /\ \A r : In(completed \o queue, r) <=> In(completed, r) \/ In(queue, r)
    <3>1. queue \in Seq(Writes) /\ completed \in Seq(Writes)
      BY <2>2
    <3> QED BY <2>3, <3>1, SplitOnce
  <2>5. /\ Once(queue \o completed)
        /\ \A r : In(queue \o completed, r) <=> In(queue, r) \/ In(completed, r)
    <3>1. queue \in Seq(Writes) /\ completed \in Seq(Writes)
      BY <2>2
    <3> QED BY <2>4, <3>1, SplitOnce
  <2>6. \A w \in Writes : Unanswered(w) <=> In(queue \o completed, w)
    <3>1. \A w \in Writes : Unanswered(w) <=> In(completed \o queue, w)
      BY <2>2 DEF Inv, ListInv
    <3> QED BY <2>4, <2>5, <3>1
  <2>7. \A c \in Connects : Unanswered(c) <=> connectReq = c
    BY Names DEF Inv, RequestInv, Corner
  <2>8. s.phase = "open" => (Unanswered(Shutdown) <=> s.shut = "shutting")
    BY DEF Inv, RequestInv
  <2>9. inUse => main.call = "read"
    BY DEF Inv, BufferInv
  <2> QED BY <2>1, <2>5, <2>6, <2>7, <2>8, <2>9 DEF RequestsKept
<1> QED BY <1>1, Invariance, PTL

\* Apart from that, and from a datagram handle that is closed by the callback of
\* a receive whose event goes on to send, everything is answered and given back
\* when the close callback runs, and the loop looks at the handle no more.
THEOREM ClosedAtRest ==
  ASSUME "reconnect" \notin Corners, "close in recv" \notin Corners
  PROVE  Spec => []AnsweredBeforeClosed
<1>1. Inv => AnsweredBeforeClosed
  <2> SUFFICES ASSUME Inv, main.call = "close" \/ s.phase = "closed"
               PROVE  /\ Outstanding = {} /\ held = 0 /\ exported = 0 /\ sent = 0 /\ ~inUse
                      /\ ~s.pollin /\ ~s.pollout /\ ~s.fed
    BY DEF AnsweredBeforeClosed
  <2>1. main.at = "ended" /\ s.phase = "closed" /\ main.call \in {"close", None}
    BY Names DEF Inv, TypeInv, Main, Places, PlaceInv, CloseInv
  <2>2. queue = <<>> /\ completed = <<>> /\ connectReq = None /\ ~Unanswered(Shutdown)
    BY <2>1 DEF Inv, CloseInv
  <2>3. order = <<>>
    BY <2>2, NothingWaits DEF Inv
  <2>4. \A r \in Requests : ~Unanswered(r)
    <3>1. \A w \in Writes : ~Unanswered(w)
      BY <2>3, EmptyOnce DEF Inv, ListInv
    <3>2. \A c \in Connects : ~Unanswered(c)
      BY <2>2, Names DEF Inv, RequestInv, Corner
    <3> QED BY <2>2, <3>1, <3>2, Names
  <2>5. \A r \in Requests : reqs[r].st # "calling"
    BY <2>1, Names DEF Inv, RequestInv
  <2>6. Outstanding = {}
    BY <2>4, <2>5 DEF Outstanding, Unanswered, Inv, TypeInv
  <2>7. {r \in Outstanding : reqs[r].handle} = {} /\ Views = {}
    BY <2>6 DEF Views
  <2>8. held = 0 /\ sent = 0 /\ exported = 0
    BY <2>6, <2>7, FS_EmptySet DEF Inv, CountInv
  <2>9. ~inUse
    BY <2>1, Names DEF Inv, BufferInv
  <2>10. ~s.pollin /\ ~s.pollout /\ ~s.fed
    BY <2>1 DEF Inv, ClosedInv, Corner
  <2> QED BY <2>6, <2>8, <2>9, <2>10
<1> QED BY <1>1, Invariance, PTL

\* While the loop waits, it waits for what is outstanding on the handle, and for
\* no connection while one waits for accept(), unless the handle is shut down or
\* connected late, accepts late or listens again.
THEOREM Watched ==
  ASSUME "early shutdown" \notin Corners, "late connect" \notin Corners, "late accept" \notin Corners,
         "listen again" \notin Corners
  PROVE  Spec => []NothingForgotten
<1>1. Inv => NothingForgotten
  <2> SUFFICES ASSUME Inv, main.at = "idle", main.call = None, s.phase = "open"
               PROVE  NothingForgotten
    BY DEF NothingForgotten, InIdle
  <2>1. queue # <<>> \/ connectReq # None => s.pollout \/ s.fed
    BY DEF Inv, WatchInv, Corner
  <2>2. completed # <<>> /\ connectReq = None => s.fed
    BY DEF Inv, WatchInv, Corner
  <2>3. s.shut = "shutting" => s.pollout \/ s.fed
    BY DEF Inv, WatchInv, Corner
  <2>4. kind = "server" /\ s.onread => (s.pollin <=> ~s.accepted)
    BY Names DEF Inv, TypeInv, ReadInv, Corner
  <2>5. s.flag => s.pollin
    BY DEF Inv, ReadInv
  <2> QED BY <2>1, <2>2, <2>3, <2>4, <2>5 DEF NothingForgotten
<1> QED BY <1>1, Invariance, PTL

\* pyuv__stream_read_cb, pyuv__udp_recv_cd and pyuv__tcp_listen_cb call a Python
\* callback that is stored.
THEOREM CallbackSet == Spec => CallbackIsSet
<1>1. ASSUME Inv, Next, main'.call = "read", main.call # "read"
      PROVE  s.onread
  <2>1. main' # main /\ main' # Rest /\ main' # Calls(None)
    BY <1>1, RestIs, Names DEF Calls, Inv, TypeInv, Main
  <2>2. ~CallsOfPython
    BY <2>1 DEF CallsOfPython, ConnectTcp, ConnectPipe, Write, WritePipe, Send, WriteRaises, ConnectTcpRaises, Open,
                TryWrite, ShutDown, StartRead, StopRead, StartRecv, StopRecv, Bind, Listen, Accept, Close
  <2>3. main \in Main
    BY <1>1 DEF Inv, TypeInv
  <2>4. /\ ~LeaveWrite /\ ~LeaveSend /\ ~LeaveShutdown /\ ~LeaveConnectTcp /\ ~LeaveConnectPipe /\ ~LeaveRead /\ ~LeaveClose
        /\ ~StillConnecting /\ ~FlushDone
    BY <2>1 DEF LeaveWrite, LeaveSend, LeaveShutdown, LeaveConnectTcp, LeaveConnectPipe, LeaveCallback, LeaveRead, LeaveClose,
                StillConnecting, FlushDone
  <2>5. ~Connected /\ ~Destroy /\ ~CallWritten
    <3>1. connectReq # "read"
      BY <1>1, Names DEF Inv, TypeInv
    <3>2. ASSUME Connected PROVE FALSE
      <4>1. PICK failed : main' = [main EXCEPT !.at = "connected", !.failed = failed, !.call = connectReq]
        BY <3>2 DEF Connected
      <4> QED BY <1>1, <2>3, <3>1, <4>1 DEF Main
    <3>3. ASSUME Destroy PROVE FALSE
      <4>1. main' = [main EXCEPT !.at = "destroy"] \/ main' = [main EXCEPT !.at = "destroy", !.call = connectReq]
        BY <3>3 DEF Destroy
      <4> QED BY <1>1, <2>3, <3>1, <4>1 DEF Main
    <3>4. ASSUME CallWritten PROVE FALSE
      <4>1. completed # <<>> /\ completed \in Seq(Writes) /\ main' = Calls(Head(completed))
        BY <1>1, <3>4 DEF CallWritten, Inv, TypeInv
      <4>2. Head(completed) # "read"
        BY <4>1, HeadTailProperties, Names
      <4> QED BY <1>1, <2>3, <4>1, <4>2 DEF Main, Calls
    <3> QED BY <3>2, <3>3, <3>4
  <2>6. ~AfterConnected /\ ~WriteQueued /\ ~SendQueued /\ ~CancelWrites
    <3>1. \A p : main' # [main EXCEPT !.at = p] /\ main' # [main EXCEPT !.at = p, !.failed = FALSE]
      BY <1>1, <2>3 DEF Main
    <3> QED BY <3>1 DEF AfterConnected, WriteQueued, SendQueued, CancelWrites
  <2>7. ~Event
    BY <1>1, <2>3 DEF Event, Main
  <2>8. ~Drained /\ ~CancelShutdown
    BY <1>1, <2>3, RestIs, Names DEF Drained, CancelShutdown, Calls, Main
  <2>9. ~LeaveConnection
    BY <1>1 DEF LeaveConnection
  <2>10. ReadOnce \/ ReadDone \/ ServerAccepts
    BY <1>1, <2>2, <2>4, <2>5, <2>6, <2>7, <2>8, <2>9 DEF Next, Loop
  <2>11. CASE ServerAccepts
    BY <1>1, <2>11 DEF ServerAccepts, Inv, ReadInv
  <2>12. CASE ReadOnce
    <3>1. s.readcb /\ kind # "server" /\ (kind \in {"tcp", "pipe", "tty"} => s.flag)
      BY <2>12 DEF ReadOnce, Stream
    <3>2. kind \in {"tcp", "pipe", "tty", "udp", "server"}
      BY <1>1, SocketAssumption DEF Inv, TypeInv
    <3> QED BY <1>1, <3>1, <3>2 DEF Inv, ReadInv
  <2>13. CASE ReadDone
    BY <1>1, <2>1, <2>3, <2>13 DEF ReadDone, Main, Inv, ReadInv
  <2> QED BY <2>10, <2>11, <2>12, <2>13
<1>2. Inv /\ [Next]_vars => [main'.call = "read" /\ main.call # "read" => s.onread]_vars
  BY <1>1
<1> QED BY <1>2, Invariance, PTL DEF Spec, CallbackIsSet

\* Writes and sends are answered in the order of the calls: what is answered is
\* the first of those that wait.
THEOREM InOrder == Spec => AnsweredInOrder
<1>1. ASSUME Inv, Next, order' # order, Len(order') < Len(order)
      PROVE  order' = Tail(order)
  <2>1. \/ \E w \in Writes, n \in 1 .. MaxViews : Write(w, n, FALSE) \/ WritePipe(w, n) \/ Send(w, n)
        \/ CallWritten
    <3>1. \A c \in Connects : ~ConnectTcp(c) /\ ~ConnectPipe(c)
      BY <1>1 DEF ConnectTcp, ConnectPipe
    <3>2. /\ \A i \in 0 .. MaxViews : ~WriteRaises(i)
          /\ ~ConnectTcpRaises /\ ~Open /\ ~TryWrite /\ ~ShutDown /\ ~StartRead /\ ~StopRead /\ ~StartRecv /\ ~StopRecv
          /\ ~Bind /\ ~Listen /\ ~Accept /\ ~Close
      BY <1>1 DEF WriteRaises, ConnectTcpRaises, Open, TryWrite, ShutDown, StartRead, StopRead, StartRecv, StopRecv,
                  Bind, Listen, Accept, Close, writing
    <3>3. /\ ~LeaveWrite /\ ~LeaveSend /\ ~LeaveShutdown /\ ~LeaveConnectTcp /\ ~LeaveConnectPipe
          /\ ~Connected /\ ~StillConnecting /\ ~AfterConnected /\ ~FlushDone
      BY <1>1 DEF LeaveWrite, LeaveSend, LeaveShutdown, LeaveConnectTcp, LeaveConnectPipe, LeaveCallback,
                  Connected, StillConnecting, AfterConnected, FlushDone, writing
    <3>4. /\ ~Event /\ ~ReadOnce /\ ~LeaveRead /\ ~ReadDone /\ ~WriteQueued /\ ~SendQueued /\ ~Drained
          /\ ~ServerAccepts /\ ~LeaveConnection /\ ~Destroy /\ ~CancelWrites /\ ~CancelShutdown /\ ~LeaveClose
      BY <1>1 DEF Event, ReadOnce, LeaveRead, ReadDone, WriteQueued, SendQueued, Drained, ServerAccepts, LeaveConnection,
                  Destroy, CancelWrites, CancelShutdown, LeaveClose, writing
    <3> QED BY <1>1, <3>1, <3>2, <3>3, <3>4 DEF Next, CallsOfPython, Loop
  <2>2. ~\E w \in Writes : order' = Append(order, w)
    <3>1. order \in Seq(Writes)
      BY <1>1 DEF Inv, TypeInv
    <3>2. \A w \in Writes : Len(Append(order, w)) = Len(order) + 1 /\ Len(order) \in Nat
      BY <3>1, AppendProperties, LenProperties
    <3> QED BY <1>1, <3>2
  <2>3. CallWritten
    BY <2>1, <2>2 DEF Write, WritePipe, Send
  <2>4. completed # <<>> /\ order' = Without(order, Head(completed))
    BY <2>3 DEF CallWritten
  <2>5. queue \in Seq(Writes) /\ completed \in Seq(Writes) /\ order = completed \o queue /\ Once(completed \o queue)
    BY <1>1 DEF Inv, TypeInv, ListInv
  <2>6. Without(completed \o queue, Head(completed)) = Tail(completed \o queue)
    BY <2>4, <2>5, HeadTaken
  <2> QED BY <2>4, <2>5, <2>6
<1>2. Inv /\ [Next]_vars => [order' # order /\ Len(order') < Len(order) => order' = Tail(order)]_vars
  BY <1>1
<1> QED BY <1>2, Invariance, PTL DEF Spec, AnsweredInOrder
=============================================================================
