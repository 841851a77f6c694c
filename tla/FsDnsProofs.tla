----------------------------- MODULE FsDnsProofs -----------------------------
(***************************************************************************)
(* For any number of calls of the functions of src/fs.c and src/dns.c:     *)
(* what libuv uses exists (KeptWhileUsed), and nothing is left behind but  *)
(* what OnlyTheseLeak names.                                               *)
(*                                                                         *)
(* FInv says of each call what its request holds where it is in its life   *)
(* (Consistent), and that the Loop's count is the requests that live and   *)
(* the variable that names it.  A step changes one request: Changed lifts  *)
(* what it does to that request to the whole state.                        *)
(***************************************************************************)
EXTENDS FsDns, FiniteSetTheorems, TLAPS

B(condition) == IF condition THEN 1 ELSE 0

\* What the memory of a request is when its call is over.
Leaks(o) ==
  /\ o.holds \in {"buffer", "view"} <=>
       o.async /\ o.what \in {"bytes", "written"} /\ o.answer \in {"error", "cancelled"}
  /\ o.holds = "addresses" <=> ~o.async /\ o.what = "addresses" /\ o.answer = "result"
  /\ o.holds = "name" => ~o.async /\ o.what = "addresses" /\ o.answer = "raised"
  /\ o.mem = "live" /\ ~o.named <=> ~o.async /\ o.what = "names" /\ o.answer = "result"

\* The memory that fs.read() and fs.write() allocate.
Data(what) == IF what = "bytes" THEN "buffer" ELSE IF what = "written" THEN "view" ELSE "nothing"

\* What a request holds while the pool has it.
Holding(o, st) ==
  /\ st \in {"queued", "executing", "cancelled"} => o.holds = Data(o.what)
  /\ st \in {"executed", "reporting"} /\ o.what = "addresses" => o.holds \in {"nothing", "addresses"}
  /\ st \in {"executed", "reporting"} /\ o.what = "names" => o.holds = "nothing"
  /\ st = "executed" /\ o.what \in FsResults => o.holds = Data(o.what)
  /\ st = "reporting" /\ o.what \in FsResults =>
       o.holds = IF o.answer = "result" THEN "nothing" ELSE Data(o.what)

\* A request against the place of its call in the pool.
Consistent(o, st) ==
  /\ o.mem = "absent" => st = "free" /\ o.answer = "none"
  /\ o.mem # "live" => ~o.named /\ st \in {"free", "finished"}
  /\ st \in Outstanding => o.async /\ o.refs = 1 + B(o.named)
  /\ st = "finished" => o.refs = B(o.named) /\ ~o.ptr /\ (o.mem = "live" => o.named) /\ o.answer # "none"
  /\ st = "free" => ~o.named
  /\ Holding(o, st)
  /\ st = "reporting" => o.answer \in {"result", "error", "cancelled"}
  /\ st \in Outstanding \ {"reporting"} <=> o.mem = "live" /\ o.answer = "none"
  /\ o.answer # "none" /\ st # "reporting" => Leaks(o)

Live == {c \in Calls : req[c].mem = "live"}

LoopInv ==
  /\ loop \in [refs : Nat, named : BOOLEAN, freed : BOOLEAN]
  /\ loop.refs = Cardinality(Live) + B(loop.named)
  /\ loop.freed <=> loop.refs = 0

FInv ==
  /\ req \in [Calls -> Request] /\ Pool!TypeOK
  /\ LoopInv
  /\ \A c \in Calls : Consistent(req[c], status[c])

-----------------------------------------------------------------------------
(* Counting.                                                               *)

\* The count Put takes of one request.
LEMMA CountLive ==
  ASSUME NEW o
  PROVE  Cardinality({p \in {o} : p.mem = "live"}) = B(o.mem = "live")
<1>1. CASE o.mem = "live"
  <2>1. {p \in {o} : p.mem = "live"} = {o}
    BY <1>1
  <2> QED BY <1>1, <2>1, FS_Singleton DEF B
<1>2. CASE o.mem # "live"
  <2>1. {p \in {o} : p.mem = "live"} = {}
    BY <1>2
  <2> QED BY <1>2, <2>1, FS_EmptySet DEF B
<1> QED BY <1>1, <1>2

\* The count KeptWhileUsed takes of the names of one request.
LEMMA CountNamed ==
  ASSUME NEW c
  PROVE  Cardinality({x \in {c} : req[x].named}) = B(req[c].named)
<1>1. CASE req[c].named
  <2>1. {x \in {c} : req[x].named} = {c}
    BY <1>1
  <2> QED BY <1>1, <2>1, FS_Singleton DEF B
<1>2. CASE ~req[c].named
  <2>1. {x \in {c} : req[x].named} = {}
    BY <1>2
  <2> QED BY <1>2, <2>1, FS_EmptySet DEF B
<1> QED BY <1>1, <1>2

\* Live requests are finitely many, and no more than there are calls.
LEMMA Finite ==
  ASSUME NEW S \in SUBSET Calls
  PROVE  IsFiniteSet(S) /\ Cardinality(S) \in 0 .. Cardinality(Calls)
<1>1. Cardinality(S) \in Nat /\ Cardinality(Calls) \in Nat /\ Cardinality(S) <= Cardinality(Calls) /\ IsFiniteSet(S)
  BY CallsAssumption, FS_Subset, FS_CardinalityType
<1> QED BY <1>1

\* Request_tp_init and Request_tp_clear: the requests that live after one changed.
LEMMA LiveChanges ==
  ASSUME NEW c \in Calls, NEW o, req \in [Calls -> Request], req' = [req EXCEPT ![c] = o]
  PROVE  /\ Cardinality(Live) \in Nat /\ Cardinality(Live') \in Nat
         /\ Cardinality(Live') = Cardinality(Live) + B(o.mem = "live") - B(req[c].mem = "live")
<1>1. IsFiniteSet(Live) /\ Cardinality(Live) \in Nat
  BY Finite DEF Live
<1>2. Live \ {c} \in SUBSET Live /\ IsFiniteSet(Live \ {c}) /\ Cardinality(Live \ {c}) \in Nat
  BY <1>1, FS_Subset, FS_CardinalityType
<1>3. Cardinality(Live) = Cardinality(Live \ {c}) + B(req[c].mem = "live")
  <2>1. CASE req[c].mem = "live"
    <3>1. c \in Live
      BY <2>1 DEF Live
    <3> QED BY <2>1, <3>1, <1>1, <1>2, FS_RemoveElement DEF B
  <2>2. CASE req[c].mem # "live"
    <3>1. Live \ {c} = Live
      BY <2>2 DEF Live
    <3> QED BY <2>2, <3>1, <1>1 DEF B
  <2> QED BY <2>1, <2>2
<1>4. Cardinality(Live') = Cardinality(Live \ {c}) + B(o.mem = "live")
  <2>1. CASE o.mem = "live"
    <3>1. Live' = (Live \ {c}) \cup {c}
      BY <2>1 DEF Live
    <3> QED BY <2>1, <3>1, <1>2, FS_AddElement DEF B
  <2>2. CASE o.mem # "live"
    <3>1. Live' = Live \ {c}
      BY <2>2 DEF Live
    <3> QED BY <2>2, <3>1, <1>2 DEF B
  <2> QED BY <2>1, <2>2
<1> QED BY <1>2, <1>3, <1>4 DEF B

-----------------------------------------------------------------------------
(* The operators on one request.                                           *)

\* libuv has it, and Python.
LEMMA QueuedType ==
  ASSUME NEW o \in Request, o.refs = 1
  PROVE  Queued(o) \in Request
<1> DEFINE i == o.refs + 1
<1>1. i \in 0 .. 2
  OBVIOUS
<1>2. Queued(o) = [o EXCEPT !.async = TRUE, !.named = TRUE, !.refs = i]
  BY DEF Queued
<1> HIDE DEF i
<1> QED BY <1>1, <1>2 DEF Request

\* Py_DECREF
LEMMA DropType ==
  ASSUME NEW o \in Request, o.refs \in {1, 2}
  PROVE  Drop(o) \in Request
<1> DEFINE i == o.refs - 1
           zero == 0
<1>1. i \in 0 .. 2 /\ zero \in 0 .. 2
  OBVIOUS
<1>2. Drop(o) = [o EXCEPT !.refs = i] \/ Drop(o) = [o EXCEPT !.refs = zero, !.mem = "freed"]
  BY DEF Drop
<1> HIDE DEF i, zero
<1> QED BY <1>1, <1>2 DEF Request

\* A request that was just made.
LEMMA NewType ==
  ASSUME NEW what \in Results
  PROVE  New(what) \in Request
BY DEF New, Request

\* ... and has its buffer or view.
LEMMA AllocatedType ==
  ASSUME NEW o \in Request
  PROVE  Allocated(o) \in Request
<1> DEFINE data == Data(o.what)
<1>1. data \in {"nothing", "buffer", "view"}
  BY DEF Data
<1>2. Allocated(o) = [o EXCEPT !.holds = data]
  BY DEF Allocated, Data
<1> HIDE DEF data
<1> QED BY <1>1, <1>2 DEF Request

\* The request an fs function starts from.
LEMMA AllocatedFields ==
  ASSUME NEW what \in Results
  PROVE  LET o == Allocated(New(what))
         IN  o.mem = "live" /\ o.what = what /\ ~o.async /\ o.refs = 1 /\ ~o.named /\ o.ptr /\ o.answer = "none"
             /\ o.holds = Data(what)
BY DEF New, Allocated, Data
\* The error path: one reference, dropped.
LEMMA RaisedFields ==
  ASSUME NEW o \in Request, o.refs = 1
  PROVE  LET r == Raised(o)
         IN  /\ r \in Request /\ r.mem = "freed" /\ r.what = o.what /\ r.async = o.async /\ r.named = o.named
             /\ r.ptr = o.ptr /\ r.holds = "nothing" /\ r.answer = "raised"
<1> DEFINE p == [o EXCEPT !.answer = "raised", !.holds = "nothing"]
<1>1. p \in Request /\ p.refs = 1
  BY DEF Request
<1>2. Raised(o) = Drop(p)
  BY DEF Raised
<1>3. Drop(p) \in Request
  BY <1>1, DropType
<1>4. Raised(o) = [p EXCEPT !.refs = 0, !.mem = "freed"]
  BY <1>1, <1>2 DEF Drop
<1>5. /\ Raised(o).mem = "freed" /\ Raised(o).what = p.what /\ Raised(o).async = p.async /\ Raised(o).named = p.named
      /\ Raised(o).ptr = p.ptr /\ Raised(o).holds = p.holds /\ Raised(o).answer = p.answer
  <2> HIDE DEF p
  <2> QED BY <1>1, <1>4 DEF Request
<1>6. /\ p.what = o.what /\ p.async = o.async /\ p.named = o.named
      /\ p.ptr = o.ptr /\ p.holds = "nothing" /\ p.answer = "raised"
  BY DEF Request
<1> QED BY <1>2, <1>3, <1>5, <1>6

\* A call in place that succeeds: two references, both dropped.
LEMMA ReturnedFields ==
  ASSUME NEW o \in Request, o.refs = 1
  PROVE  LET r == Returned(o)
         IN  /\ r \in Request /\ r.mem = "freed" /\ r.what = o.what /\ r.async = o.async /\ r.named = o.named
             /\ r.ptr = o.ptr /\ r.holds = "nothing" /\ r.answer = "result"
<1> DEFINE i == 2
           m == Processed(o, "result")
           p == [m EXCEPT !.refs = @ + 1]
           q == Drop(p)
<1>1. m = [o EXCEPT !.answer = "result", !.holds = "nothing"]
  BY DEF Processed
<1>2. /\ m \in Request /\ m.refs = 1 /\ m.mem = o.mem /\ m.what = o.what /\ m.async = o.async /\ m.named = o.named
      /\ m.ptr = o.ptr /\ m.holds = "nothing" /\ m.answer = "result"
  <2> HIDE DEF m
  <2> QED BY <1>1 DEF Request
<1>3. /\ p \in Request /\ p.refs = 2 /\ p.mem = m.mem /\ p.what = m.what /\ p.async = m.async /\ p.named = m.named
      /\ p.ptr = m.ptr /\ p.holds = m.holds /\ p.answer = m.answer
  <2> HIDE DEF m
  <2>1. i \in 0 .. 2 /\ m.refs + 1 = i /\ i = 2
    BY <1>2
  <2>2. p = [m EXCEPT !.refs = i]
    BY <2>1
  <2> HIDE DEF i, p
  <2> QED BY <1>2, <2>1, <2>2 DEF Request
<1>4. Returned(o) = Drop(q)
  BY DEF Returned
<1> HIDE DEF m, p
<1>5. q \in Request
  BY <1>3, DropType
<1>6. q = [p EXCEPT !.refs = 1]
  BY <1>3 DEF Drop
<1>7. /\ q.refs = 1 /\ q.what = p.what /\ q.async = p.async /\ q.named = p.named
      /\ q.ptr = p.ptr /\ q.holds = p.holds /\ q.answer = p.answer
  <2> HIDE DEF q
  <2> QED BY <1>3, <1>6 DEF Request
<1> HIDE DEF q
<1>8. Drop(q) \in Request
  BY <1>5, <1>7, DropType
<1>9. Drop(q) = [q EXCEPT !.refs = 0, !.mem = "freed"]
  BY <1>7 DEF Drop
<1>10. /\ Drop(q).mem = "freed" /\ Drop(q).what = q.what /\ Drop(q).async = q.async /\ Drop(q).named = q.named
       /\ Drop(q).ptr = q.ptr /\ Drop(q).holds = q.holds /\ Drop(q).answer = q.answer
  BY <1>5, <1>9 DEF Request
<1> QED BY <1>2, <1>3, <1>4, <1>7, <1>8, <1>10

\* libuv has it, and Python.
LEMMA QueuedFields ==
  ASSUME NEW o \in Request, o.refs = 1
  PROVE  LET r == Queued(o)
         IN  /\ r \in Request /\ r.mem = o.mem /\ r.what = o.what /\ r.async /\ r.named /\ r.refs = 2
             /\ r.ptr = o.ptr /\ r.holds = o.holds /\ r.answer = o.answer
<1>1. Queued(o) \in Request
  BY QueuedType
<1> QED BY <1>1 DEF Queued, Request

-----------------------------------------------------------------------------
(* One request changes.                                                    *)

\* Put counts the request.
LEMMA PutCounts ==
  ASSUME FInv, NEW c \in Calls, NEW o \in Request, Put(c, o)
  PROVE  LoopInv'
<1>1. /\ Cardinality(Live) \in Nat /\ Cardinality(Live') \in Nat
      /\ Cardinality(Live') = Cardinality(Live) + B(o.mem = "live") - B(req[c].mem = "live")
  BY LiveChanges DEF FInv, Put
<1>2. /\ Cardinality({p \in {o} : p.mem = "live"}) = B(o.mem = "live")
      /\ Cardinality({p \in {req[c]} : p.mem = "live"}) = B(req[c].mem = "live")
  BY CountLive
<1>3. loop.refs = Cardinality(Live) + B(loop.named) /\ loop \in [refs : Nat, named : BOOLEAN, freed : BOOLEAN]
  BY DEF FInv, LoopInv
<1>4. B(loop.named) \in {0, 1} /\ B(o.mem = "live") \in {0, 1} /\ B(req[c].mem = "live") \in {0, 1}
  BY DEF B
<1>5. loop' = [loop EXCEPT !.refs = loop.refs + B(o.mem = "live") - B(req[c].mem = "live"),
                          !.freed = loop.refs + B(o.mem = "live") - B(req[c].mem = "live") = 0]
  BY <1>2 DEF Put
<1>6. loop'.named = loop.named /\ loop'.refs = Cardinality(Live') + B(loop.named) /\ (loop'.freed <=> loop'.refs = 0)
  <2>1. loop'.named = loop.named /\ loop'.refs = loop.refs + B(o.mem = "live") - B(req[c].mem = "live")
    BY <1>3, <1>5
  <2>2. loop'.refs = Cardinality(Live') + B(loop.named)
    BY <1>1, <1>3, <1>4, <2>1
  <2>3. loop'.freed <=> loop'.refs = 0
    BY <1>3, <1>5
  <2> QED BY <2>1, <2>2, <2>3
<1>7. Cardinality(Live') + B(loop.named) \in Nat
  BY <1>1, <1>3, <1>4
<1>8. loop' \in [refs : Nat, named : BOOLEAN, freed : BOOLEAN]
  BY <1>3, <1>5, <1>6, <1>7
<1> QED BY <1>6, <1>8 DEF LoopInv

\* Nothing is made or freed.
LEMMA SameCounts ==
  ASSUME FInv, NEW c \in Calls, NEW o \in Request, o.mem = req[c].mem,
         req' = [req EXCEPT ![c] = o], UNCHANGED loop
  PROVE  LoopInv'
<1>1. Live' = Live
  BY DEF Live, FInv
<1> QED BY <1>1 DEF FInv, LoopInv

\* One call goes on and the others stay as they are.
LEMMA Changed ==
  ASSUME FInv, NEW c \in Calls, NEW o \in Request,
         req' = [req EXCEPT ![c] = o], LoopInv', Pool!TypeOK',
         \A d \in Calls \ {c} : status'[d] = status[d],
         Consistent(o, status'[c])
  PROVE  FInv'
BY DEF FInv

-----------------------------------------------------------------------------
(* The functions.                                                          *)

\* A request is made and left to the pool.
LEMMA QueueKeeps ==
  ASSUME FInv, NEW c \in Calls, NEW o \in Request, req[c].mem = "absent",
         o.mem = "live" /\ o.refs = 1 /\ o.holds = Data(o.what) /\ o.answer = "none",
         Put(c, Queued(o)), Pool!Queue(c)
  PROVE  FInv'
<1> DEFINE r == Queued(o)
<1>1. /\ r \in Request /\ r.mem = "live" /\ r.what = o.what /\ r.async /\ r.named /\ r.refs = 2
      /\ r.holds = Data(r.what) /\ r.answer = "none"
  BY QueuedFields
<1> HIDE DEF r
<1>2. Consistent(r, "queued")
  BY <1>1 DEF Consistent, Holding, Outstanding, B
<1>3. status'[c] = "queued" /\ (\A d \in Calls \ {c} : status'[d] = status[d]) /\ Pool!TypeOK'
  BY DEF FInv, Pool!Queue, Pool!Move, Pool!TypeOK, Pool!Statuses
<1>4. Put(c, r)
  BY DEF r
<1>5. LoopInv'
  BY <1>1, <1>4, PutCounts
<1>6. req' = [req EXCEPT ![c] = r]
  BY <1>4 DEF Put
<1> QED BY <1>1, <1>2, <1>3, <1>5, <1>6, Changed

\* A request is made and its call is over.
LEMMA InPlaceKeeps ==
  ASSUME FInv, NEW c \in Calls, NEW o \in Request, req[c].mem = "absent", Consistent(o, "free"),
         Put(c, o), UNCHANGED <<status, told>>
  PROVE  FInv'
<1>1. status[c] = "free"
  BY DEF FInv, Consistent
<1>2. status'[c] = "free" /\ (\A d \in Calls \ {c} : status'[d] = status[d]) /\ Pool!TypeOK'
  BY <1>1 DEF FInv, Pool!TypeOK
<1>3. req' = [req EXCEPT ![c] = o] /\ LoopInv'
  BY PutCounts DEF Put
<1> QED BY <1>2, <1>3, Changed

\* The functions of src/fs.c.
LEMMA FsCallKeeps ==
  ASSUME FInv, NEW c \in Calls, NEW what \in FsResults, FsCall(c, what)
  PROVE  FInv'
<1> DEFINE o == Allocated(New(what))
<1>1. what \in Results /\ what \notin {"addresses", "names"}
  BY DEF Results, FsResults
<1>2. /\ o \in Request /\ o.mem = "live" /\ o.what = what /\ ~o.async /\ o.refs = 1 /\ ~o.named
      /\ o.answer = "none" /\ o.holds = Data(o.what)
  BY <1>1, NewType, AllocatedType, AllocatedFields
<1>3. req[c].mem = "absent"
  BY DEF FsCall
<1>4. \/ Put(c, Queued(o)) /\ Pool!Queue(c)
      \/ Put(c, Raised(o)) /\ UNCHANGED <<status, told>>
      \/ Put(c, Returned(o)) /\ UNCHANGED <<status, told>>
  BY DEF FsCall
<1> HIDE DEF o
<1>5. Raised(o) \in Request /\ Consistent(Raised(o), "free")
  BY <1>1, <1>2, RaisedFields DEF Consistent, Holding, Leaks, Outstanding, B
<1>6. Returned(o) \in Request /\ Consistent(Returned(o), "free")
  BY <1>1, <1>2, ReturnedFields DEF Consistent, Holding, Leaks, Outstanding, B
<1> QED BY <1>2, <1>3, <1>4, <1>5, <1>6, QueueKeeps, InPlaceKeeps

\* Util_func_getaddrinfo
LEMMA GetAddrInfoKeeps ==
  ASSUME FInv, NEW c \in Calls, GetAddrInfo(c)
  PROVE  FInv'
<1> DEFINE o == New("addresses")
           named == [Raised(o) EXCEPT !.holds = "name"]
           answered == [o EXCEPT !.answer = "result", !.holds = "addresses"]
<1>1. /\ o \in Request /\ o.mem = "live" /\ o.what = "addresses" /\ ~o.async /\ o.refs = 1 /\ ~o.named
      /\ o.answer = "none" /\ o.holds = Data(o.what)
  BY NewType DEF New, Data, Results
<1>2. req[c].mem = "absent"
  BY DEF GetAddrInfo
<1>3. \/ Put(c, Queued(o)) /\ Pool!Queue(c)
      \/ Put(c, Raised(o)) /\ UNCHANGED <<status, told>>
      \/ Put(c, named) /\ UNCHANGED <<status, told>>
      \/ Put(c, Drop(answered)) /\ UNCHANGED <<status, told>>
  BY DEF GetAddrInfo
<1> HIDE DEF o
<1>4. Raised(o) \in Request /\ Consistent(Raised(o), "free")
  BY <1>1, RaisedFields DEF Consistent, Holding, Leaks, Outstanding, B
<1>5. named \in Request /\ Consistent(named, "free")
  <2> DEFINE r == Raised(o)
  <2>1. r \in Request /\ r.mem = "freed" /\ r.what = "addresses" /\ ~r.async /\ ~r.named /\ r.answer = "raised"
    BY <1>1, RaisedFields
  <2> HIDE DEF r
  <2>2. LET n == [r EXCEPT !.holds = "name"]
        IN  /\ n \in Request /\ n.mem = "freed" /\ n.what = "addresses" /\ ~n.async /\ ~n.named /\ n.answer = "raised"
            /\ n.holds = "name"
    BY <2>1 DEF Request
  <2> HIDE DEF named
  <2>3. /\ named \in Request /\ named.mem = "freed" /\ named.what = "addresses" /\ ~named.async /\ ~named.named
        /\ named.answer = "raised" /\ named.holds = "name"
    BY <2>2 DEF named, r
  <2> QED BY <2>3 DEF Consistent, Holding, Leaks, Outstanding, B
<1>6. Drop(answered) \in Request /\ Consistent(Drop(answered), "free")
  <2>1. /\ answered \in Request /\ answered.refs = 1 /\ answered.what = "addresses" /\ ~answered.async
        /\ ~answered.named /\ answered.answer = "result" /\ answered.holds = "addresses"
    BY <1>1 DEF Request
  <2> HIDE DEF answered
  <2> DEFINE d == Drop(answered)
  <2>2. d \in Request
    BY <2>1, DropType
  <2>3. d = [answered EXCEPT !.refs = 0, !.mem = "freed"]
    BY <2>1 DEF Drop
  <2>4. /\ d.mem = "freed" /\ d.what = "addresses" /\ ~d.async /\ ~d.named /\ d.answer = "result"
        /\ d.holds = "addresses"
    BY <2>1, <2>3 DEF Request
  <2> HIDE DEF d
  <2>5. Consistent(d, "free")
    BY <2>4 DEF Consistent, Holding, Leaks, Outstanding, B
  <2> QED BY <2>2, <2>5 DEF d
<1> HIDE DEF named, answered
<1> QED BY <1>1, <1>2, <1>3, <1>4, <1>5, <1>6, QueueKeeps, InPlaceKeeps

\* Util_func_getnameinfo
LEMMA GetNameInfoKeeps ==
  ASSUME FInv, NEW c \in Calls, GetNameInfo(c)
  PROVE  FInv'
<1> DEFINE o == New("names")
           answered == [o EXCEPT !.answer = "result"]
<1>1. /\ o \in Request /\ o.mem = "live" /\ o.what = "names" /\ ~o.async /\ o.refs = 1 /\ ~o.named
      /\ o.answer = "none" /\ o.holds = "nothing" /\ o.holds = Data(o.what)
  BY NewType DEF New, Data, Results
<1>2. req[c].mem = "absent"
  BY DEF GetNameInfo
<1>3. \/ Put(c, Queued(o)) /\ Pool!Queue(c)
      \/ Put(c, Raised(o)) /\ UNCHANGED <<status, told>>
      \/ Put(c, answered) /\ UNCHANGED <<status, told>>
  BY DEF GetNameInfo
<1> HIDE DEF o
<1>4. Raised(o) \in Request /\ Consistent(Raised(o), "free")
  BY <1>1, RaisedFields DEF Consistent, Holding, Leaks, Outstanding, B
<1>5. answered \in Request /\ Consistent(answered, "free")
  <2>1. /\ answered \in Request /\ answered.mem = "live" /\ answered.what = "names" /\ ~answered.async
        /\ ~answered.named /\ answered.answer = "result" /\ answered.holds = "nothing"
    BY <1>1 DEF Request
  <2> HIDE DEF answered
  <2> QED BY <2>1 DEF Consistent, Holding, Leaks, Outstanding, B
<1> HIDE DEF answered
<1> QED BY <1>1, <1>2, <1>3, <1>4, <1>5, QueueKeeps, InPlaceKeeps

-----------------------------------------------------------------------------
(* The pool and the callbacks.                                             *)

\* A step of the pool that moves one request and leaves the Loop alone.
LEMMA MoveKeeps ==
  ASSUME FInv, NEW c \in Calls, NEW o \in Request, NEW to \in Pool!Statuses,
         o.mem = req[c].mem, req' = [req EXCEPT ![c] = o], UNCHANGED loop,
         status' = [status EXCEPT ![c] = to], told' \in [Calls -> BOOLEAN],
         Consistent(o, to)
  PROVE  FInv'
<1>1. status'[c] = to /\ (\A d \in Calls \ {c} : status'[d] = status[d]) /\ Pool!TypeOK'
  BY DEF FInv, Pool!TypeOK
<1> QED BY <1>1, SameCounts, Changed

\* A worker takes the request.
LEMMA BeginKeeps ==
  ASSUME FInv, NEW c \in Calls, Begin(c)
  PROVE  FInv'
<1> DEFINE o == req[c]
<1>1. o \in Request /\ req' = [req EXCEPT ![c] = o] /\ Consistent(o, status[c])
  BY DEF FInv, Begin
<1>2. status[c] = "queued" /\ status' = [status EXCEPT ![c] = "executing"] /\ told' \in [Calls -> BOOLEAN] /\ UNCHANGED loop
  BY DEF FInv, Begin, Pool!Start, Pool!Move, Pool!TypeOK
<1> HIDE DEF o
<1>3. Consistent(o, "executing")
  BY <1>1, <1>2 DEF Consistent, Holding, Outstanding
<1> QED BY <1>1, <1>2, <1>3, MoveKeeps DEF Pool!Statuses, o

\* The system call is done.
LEMMA ExecuteKeeps ==
  ASSUME FInv, NEW c \in Calls, Execute(c)
  PROVE  FInv'
<1> DEFINE p == req[c]
<1>1. p \in Request /\ Consistent(p, status[c])
  BY DEF FInv
<1>2. PICK ok \in BOOLEAN :
        req' = [req EXCEPT ![c].ok = ok,
                           ![c].holds = IF ok /\ req[c].what = "addresses" THEN "addresses" ELSE @]
  BY DEF Execute
<1> DEFINE holds == IF ok /\ p.what = "addresses" THEN "addresses" ELSE p.holds
           o == [p EXCEPT !.ok = ok, !.holds = holds]
<1>3. req' = [req EXCEPT ![c] = o]
  BY <1>2 DEF FInv, Request
<1>4. /\ status[c] = "executing" /\ status' = [status EXCEPT ![c] = "executed"]
      /\ told' \in [Calls -> BOOLEAN] /\ UNCHANGED loop
  BY DEF FInv, Execute, Pool!Finish, Pool!Move, Pool!TypeOK
<1>5. holds \in {"nothing", "buffer", "view", "addresses", "name"}
  BY <1>1 DEF Request
<1>6. /\ o \in Request /\ o.mem = p.mem /\ o.what = p.what /\ o.async = p.async /\ o.refs = p.refs /\ o.named = p.named
      /\ o.ptr = p.ptr /\ o.holds = holds /\ o.answer = p.answer
  <2> HIDE DEF p, holds
  <2> QED BY <1>1, <1>5 DEF Request
<1>7. /\ p.what = "addresses" => holds \in {"nothing", "addresses"}
      /\ p.what = "names" => holds = "nothing"
      /\ p.what \in FsResults => holds = Data(p.what)
  BY <1>1, <1>4 DEF Consistent, Holding, Data, FsResults
<1> HIDE DEF p, o, holds
<1>8. Consistent(o, "executed")
  BY <1>1, <1>4, <1>6, <1>7 DEF Consistent, Holding, Outstanding
<1> QED BY <1>3, <1>4, <1>6, <1>8, MoveKeeps DEF Pool!Statuses, p

\* The result is made and the callback begins: what of the request changes is its
\* answer and its data.
LEMMA ReportKeeps ==
  ASSUME FInv, NEW c \in Calls, NEW o \in Request, Report(c, o),
         \/ req[c].what \in FsResults /\ o = Processed(req[c], Outcome(c))
         \/ req[c].what \in {"addresses", "names"} /\ o = [req[c] EXCEPT !.answer = Outcome(c)]
  PROVE  FInv'
<1> DEFINE p == req[c]
           answer == Outcome(c)
<1>1. p \in Request /\ Consistent(p, status[c]) /\ status[c] \in {"executed", "cancelled"}
  BY DEF FInv, Report, Pool!Report
<1>2. answer \in {"result", "error", "cancelled"} /\ (status[c] = "cancelled" => answer = "cancelled")
  BY <1>1 DEF Outcome
<1>3. /\ req' = [req EXCEPT ![c] = o] /\ status' = [status EXCEPT ![c] = "reporting"]
      /\ told' \in [Calls -> BOOLEAN] /\ UNCHANGED loop
  BY DEF FInv, Report, Pool!Report, Pool!TypeOK
<1> HIDE DEF p, answer
<1>4. /\ o.mem = p.mem /\ o.what = p.what /\ o.async = p.async /\ o.refs = p.refs /\ o.named = p.named
      /\ o.ptr = p.ptr /\ o.answer = answer
      /\ o.holds = IF p.what \in FsResults /\ answer = "result" THEN "nothing" ELSE p.holds
  <2>1. CASE p.what \in FsResults /\ o = Processed(p, answer)
    BY <1>1, <2>1 DEF Processed, Request
  <2>2. CASE p.what \in {"addresses", "names"} /\ o = [p EXCEPT !.answer = answer]
    BY <1>1, <2>2 DEF FsResults, Request
  <2> QED BY <2>1, <2>2 DEF p, answer
<1>5. Consistent(o, "reporting")
  <2>1. p.holds = Data(p.what) \/ (p.what = "addresses" /\ p.holds = "addresses")
    BY <1>1 DEF Consistent, Holding, Request, Results, Data
  <2>2. Holding(o, "reporting")
    BY <1>4, <2>1 DEF Holding, Data, FsResults
  <2>3. p.mem = "live" /\ p.async /\ p.refs = 1 + B(p.named)
    BY <1>1 DEF Consistent, Outstanding
  <2> QED BY <1>2, <1>4, <2>2, <2>3 DEF Consistent, Outstanding
<1> QED BY <1>3, <1>4, <1>5, MoveKeeps DEF Pool!Statuses, p

\* What Report stores is a request.
LEMMA ReportedType ==
  ASSUME FInv, NEW c \in Calls
  PROVE  Processed(req[c], Outcome(c)) \in Request /\ [req[c] EXCEPT !.answer = Outcome(c)] \in Request
<1> DEFINE p == req[c]
           answer == Outcome(c)
           holds == IF answer = "result" THEN "nothing" ELSE p.holds
<1>1. p \in Request /\ answer \in {"result", "error", "cancelled"}
  BY DEF FInv, Outcome
<1>2. holds \in {"nothing", "buffer", "view", "addresses", "name"}
  BY <1>1 DEF Request
<1>3. Processed(p, answer) = [p EXCEPT !.answer = answer, !.holds = holds]
  BY DEF Processed
<1> HIDE DEF p, answer, holds
<1>4. Processed(p, answer) \in Request /\ [p EXCEPT !.answer = answer] \in Request
  BY <1>1, <1>2, <1>3 DEF Request
<1> QED BY <1>4 DEF p, answer

\* The callback of the pool is back: its reference goes.
LEMMA EndCallbackKeeps ==
  ASSUME FInv, NEW c \in Calls, EndCallback(c)
  PROVE  FInv'
<1> DEFINE p == req[c]
           holds == IF p.what = "addresses" THEN "nothing" ELSE p.holds
           e == [p EXCEPT !.ptr = FALSE, !.holds = holds]
           o == Drop(e)
<1>1. p \in Request /\ Consistent(p, "reporting") /\ p.mem = "live"
  BY DEF FInv, EndCallback, Pool!EndReport, Pool!Move, Consistent
<1>2. /\ status' = [status EXCEPT ![c] = "finished"] /\ status'[c] = "finished"
      /\ (\A d \in Calls \ {c} : status'[d] = status[d]) /\ Pool!TypeOK'
  BY DEF FInv, EndCallback, Pool!EndReport, Pool!Move, Pool!TypeOK, Pool!Statuses
<1>3. Put(c, o)
  BY DEF EndCallback, Ended
<1>4. holds \in {"nothing", "buffer", "view", "addresses", "name"}
  BY <1>1 DEF Request
<1>5. /\ e \in Request /\ e.mem = p.mem /\ e.what = p.what /\ e.async = p.async /\ e.refs = p.refs /\ e.named = p.named
      /\ ~e.ptr /\ e.holds = holds /\ e.answer = p.answer
  <2> HIDE DEF p, holds
  <2> QED BY <1>1, <1>4 DEF Request
<1>6. p.refs = 1 + B(p.named) /\ p.named \in BOOLEAN /\ p.async /\ p.answer \in {"result", "error", "cancelled"}
  BY <1>1 DEF Consistent, Outstanding, Request
<1>7. e.refs \in {1, 2} /\ (e.refs = 2 <=> p.named)
  BY <1>5, <1>6 DEF B
<1> HIDE DEF e
<1>8. o \in Request
  BY <1>5, <1>7, DropType
<1>9. /\ o.what = e.what /\ o.async = e.async /\ o.named = e.named /\ o.ptr = e.ptr /\ o.holds = e.holds /\ o.answer = e.answer
      /\ o.refs = e.refs - 1 /\ (o.mem = "live" <=> p.named) /\ o.mem \in {"live", "freed"}
  <2>1. CASE e.refs = 2
    <3>1. o = [e EXCEPT !.refs = 1]
      BY <2>1 DEF Drop
    <3> HIDE DEF o
    <3> QED BY <1>1, <1>5, <1>7, <2>1, <3>1 DEF Request
  <2>2. CASE e.refs = 1
    <3>1. o = [e EXCEPT !.refs = 0, !.mem = "freed"]
      BY <2>2 DEF Drop
    <3> HIDE DEF o
    <3> QED BY <1>1, <1>5, <1>7, <2>2, <3>1 DEF Request
  <2> QED BY <1>7, <2>1, <2>2
<1>10. Leaks(o)
  <2>1. holds = IF p.what \in {"bytes", "written"} /\ p.answer # "result" THEN Data(p.what) ELSE "nothing"
    BY <1>1, <1>6 DEF Consistent, Holding, Data, FsResults, Results, Request
  <2>2. o.holds = holds /\ o.what = p.what /\ o.answer = p.answer /\ o.async /\ (o.mem = "live" <=> o.named)
    BY <1>5, <1>6, <1>9
  <2> HIDE DEF holds, o
  <2> QED BY <1>6, <2>1, <2>2 DEF Leaks, Data
<1>11. Consistent(o, "finished")
  <2>1. o.refs = B(o.named) /\ ~o.ptr /\ o.answer # "none" /\ o.mem # "absent" /\ (o.mem = "live" <=> o.named)
    BY <1>5, <1>6, <1>7, <1>9 DEF B
  <2> HIDE DEF o
  <2> QED BY <1>10, <2>1 DEF Consistent, Holding, Outstanding
<1> HIDE DEF o
<1>12. LoopInv' /\ req' = [req EXCEPT ![c] = o]
  BY <1>3, <1>8, PutCounts DEF Put
<1> QED BY <1>2, <1>8, <1>11, <1>12, Changed

-----------------------------------------------------------------------------
(* What Python does with a request.                                        *)

\* Request_func_cancel
LEMMA CancelKeeps ==
  ASSUME FInv, NEW c \in Calls, Cancel(c)
  PROVE  FInv'
<1> DEFINE o == req[c]
<1>1. o \in Request /\ req' = [req EXCEPT ![c] = o] /\ Consistent(o, "queued") /\ UNCHANGED loop
  BY DEF FInv, Cancel
<1>2. status' = [status EXCEPT ![c] = "cancelled"] /\ told' \in [Calls -> BOOLEAN]
  BY DEF FInv, Cancel, Pool!TypeOK
<1> HIDE DEF o
<1>3. Consistent(o, "cancelled")
  BY <1>1 DEF Consistent, Holding, Outstanding
<1> QED BY <1>1, <1>2, <1>3, MoveKeeps DEF Pool!Statuses, o

\* A variable names the request.
LEMMA KeepNameKeeps ==
  ASSUME FInv, NEW c \in Calls, KeepName(c)
  PROVE  FInv'
<1> DEFINE p == req[c]
           i == p.refs + 1
           o == [p EXCEPT !.named = TRUE, !.refs = i]
<1>1. p \in Request /\ Consistent(p, "reporting") /\ ~p.named
  BY DEF FInv, KeepName
<1>2. p.refs = 1 /\ p.mem = "live"
  BY <1>1 DEF Consistent, Outstanding, B
<1>3. Put(c, o)
  BY DEF KeepName
<1>4. status'[c] = "reporting" /\ (\A d \in Calls \ {c} : status'[d] = status[d]) /\ Pool!TypeOK'
  BY DEF FInv, KeepName, Pool!TypeOK
<1>5. i \in 0 .. 2 /\ i = 2
  BY <1>2
<1>6. /\ o \in Request /\ o.mem = p.mem /\ o.what = p.what /\ o.async = p.async /\ o.refs = i /\ o.named
      /\ o.ptr = p.ptr /\ o.holds = p.holds /\ o.answer = p.answer
  <2> HIDE DEF p, i
  <2> QED BY <1>1, <1>5 DEF Request
<1> HIDE DEF p, i, o
<1>7. Consistent(o, "reporting")
  BY <1>1, <1>2, <1>5, <1>6 DEF Consistent, Holding, Outstanding, B
<1>8. LoopInv' /\ req' = [req EXCEPT ![c] = o]
  BY <1>3, <1>6, PutCounts DEF Put
<1> QED BY <1>4, <1>6, <1>7, <1>8, Changed

\* A variable that named the request is gone; the request may be freed.
LEMMA DropNameKeeps ==
  ASSUME FInv, NEW c \in Calls, DropName(c)
  PROVE  FInv'
<1> DEFINE p == req[c]
           st == status[c]
           e == [p EXCEPT !.named = FALSE]
           o == Drop(e)
<1>1. p \in Request /\ Consistent(p, st) /\ p.named /\ st \in Pool!Statuses
  BY DEF FInv, DropName, Pool!TypeOK
<1>2. st \in Outstanding \cup {"finished"} /\ p.mem = "live"
  BY <1>1 DEF Consistent, Outstanding, Pool!Statuses
<1>3. (st \in Outstanding => p.refs = 2) /\ (st = "finished" => p.refs = 1)
  BY <1>1 DEF Consistent, B, Outstanding
<1>4. Put(c, o)
  BY DEF DropName
<1>5. status'[c] = st /\ (\A d \in Calls \ {c} : status'[d] = status[d]) /\ Pool!TypeOK'
  BY DEF FInv, DropName, Pool!TypeOK
<1> HIDE DEF p, st
<1>6. /\ e \in Request /\ e.mem = p.mem /\ e.what = p.what /\ e.async = p.async /\ e.refs = p.refs /\ ~e.named
      /\ e.ptr = p.ptr /\ e.holds = p.holds /\ e.answer = p.answer
  BY <1>1 DEF Request
<1> HIDE DEF e
<1>7. o \in Request
  BY <1>2, <1>3, <1>6, DropType
<1>8. ASSUME st \in Outstanding PROVE Consistent(o, st)
  <2>1. o = [e EXCEPT !.refs = 1]
    BY <1>3, <1>6, <1>8 DEF Drop
  <2>2. /\ o.mem = p.mem /\ o.what = p.what /\ o.async = p.async /\ o.refs = 1 /\ ~o.named
        /\ o.ptr = p.ptr /\ o.holds = p.holds /\ o.answer = p.answer
    <3> HIDE DEF o
    <3> QED BY <1>6, <2>1 DEF Request
  <2> HIDE DEF o
  <2> QED BY <1>1, <1>2, <1>8, <2>2 DEF Consistent, Holding, Outstanding, B
<1>9. ASSUME st = "finished" PROVE Consistent(o, st)
  <2>1. o = [e EXCEPT !.refs = 0, !.mem = "freed"]
    BY <1>3, <1>6, <1>9 DEF Drop
  <2>2. /\ o.mem = "freed" /\ o.what = p.what /\ o.async = p.async /\ o.refs = 0 /\ ~o.named
        /\ o.ptr = p.ptr /\ o.holds = p.holds /\ o.answer = p.answer
    <3> HIDE DEF o
    <3> QED BY <1>6, <2>1 DEF Request
  <2>3. Leaks(p) /\ p.answer # "none" /\ ~p.ptr
    BY <1>1, <1>9 DEF Consistent
  <2> HIDE DEF o
  <2>4. Leaks(o)
    BY <1>1, <1>2, <2>2, <2>3 DEF Leaks
  <2> QED BY <1>9, <2>2, <2>3, <2>4 DEF Consistent, Holding, Outstanding, B
<1> HIDE DEF o
<1>10. Consistent(o, st)
  BY <1>2, <1>8, <1>9
<1>11. LoopInv' /\ req' = [req EXCEPT ![c] = o]
  BY <1>4, <1>7, PutCounts DEF Put
<1> QED BY <1>5, <1>7, <1>10, <1>11, Changed

\* The variable that named the Loop is gone.
LEMMA DropLoopKeeps ==
  ASSUME FInv, DropLoop
  PROVE  FInv'
<1>1. loop.named /\ loop' = [refs |-> loop.refs - 1, named |-> FALSE, freed |-> loop.refs = 1]
  BY DEF DropLoop
<1>2. UNCHANGED <<req, status, told>>
  BY DEF DropLoop
<1>3. Cardinality(Live) \in Nat
  BY Finite DEF Live
<1>4. loop.refs = Cardinality(Live) + 1
  BY <1>1 DEF FInv, LoopInv, B
<1> DEFINE n == loop.refs - 1
<1>5. n = Cardinality(Live) /\ n \in Nat /\ (loop.refs = 1 <=> n = 0)
  BY <1>3, <1>4
<1>6. loop' = [refs |-> n, named |-> FALSE, freed |-> n = 0]
  BY <1>1, <1>5
<1> HIDE DEF n
<1>7. loop'.refs = n /\ ~loop'.named /\ (loop'.freed <=> n = 0) /\ loop' \in [refs : Nat, named : BOOLEAN, freed : BOOLEAN]
  BY <1>5, <1>6
<1>8. Live' = Live
  BY <1>2 DEF Live
<1>9. LoopInv'
  BY <1>3, <1>5, <1>7, <1>8 DEF LoopInv, B
<1> QED BY <1>2, <1>9 DEF FInv, Pool!TypeOK

-----------------------------------------------------------------------------
(* The theorems.                                                           *)

\* Before the first call.
LEMMA InitHolds == Init => FInv
<1> SUFFICES ASSUME Init PROVE FInv
  OBVIOUS
<1> DEFINE o == [mem |-> "absent", what |-> "nothing", async |-> FALSE, refs |-> 0, named |-> FALSE,
                 ptr |-> FALSE, holds |-> "nothing", ok |-> FALSE, answer |-> "none"]
<1>1. o \in Request /\ Consistent(o, "free")
  BY DEF Request, Results, FsResults, Consistent, Holding, Outstanding, B
<1>2. req = [c \in Calls |-> o] /\ status = [c \in Calls |-> "free"] /\ Pool!TypeOK
  BY DEF Init, Pool!Init, Pool!TypeOK, Pool!Statuses
<1>3. Live = {}
  BY <1>2 DEF Live
<1>4. LoopInv
  BY <1>3, FS_EmptySet DEF Init, LoopInv, B
<1> HIDE DEF o
<1> QED BY <1>1, <1>2, <1>4 DEF FInv

\* Every step of the functions, the pool and the program keeps the invariant.
LEMMA StepHolds == FInv /\ [Next]_vars => FInv'
<1> SUFFICES ASSUME FInv, [Next]_vars PROVE FInv'
  OBVIOUS
<1>1. CASE UNCHANGED vars
  BY <1>1 DEF vars, FInv, LoopInv, Live, Pool!TypeOK
<1>2. CASE DropLoop
  BY <1>2, DropLoopKeeps
<1>3. ASSUME NEW c \in Calls, NEW what \in FsResults, FsCall(c, what) PROVE FInv'
  BY <1>3, FsCallKeeps
<1>4. ASSUME NEW c \in Calls,
             \/ StatCalls(c) \/ UnlinkMkdirRmdir(c) \/ RenameChmod(c) \/ FchmodLink(c) \/ SymlinkReadlink(c)
             \/ ChownFchown(c) \/ OpenClose(c) \/ Read(c) \/ WriteFile(c) \/ SyncTruncate(c) \/ ScandirSendfile(c)
             \/ UtimeFutime(c) \/ AccessRealpath(c)
      PROVE  FInv'
  <2>1. \E what \in FsResults : FsCall(c, what)
    BY <1>4 DEF FsResults, StatCalls, UnlinkMkdirRmdir, RenameChmod, FchmodLink, SymlinkReadlink, ChownFchown, OpenClose,
       Read, WriteFile, SyncTruncate, ScandirSendfile, UtimeFutime, AccessRealpath
  <2> QED BY <2>1, <1>3
<1>5. ASSUME NEW c \in Calls, GetAddrInfo(c) \/ GetNameInfo(c) PROVE FInv'
  BY <1>5, GetAddrInfoKeeps, GetNameInfoKeeps
<1>6. ASSUME NEW c \in Calls, Begin(c) \/ Execute(c) \/ EndCallback(c) PROVE FInv'
  BY <1>6, BeginKeeps, ExecuteKeeps, EndCallbackKeeps
<1>7. ASSUME NEW c \in Calls, ProcessFs(c) \/ GetAddrInfoCallback(c) \/ GetNameInfoCallback(c) PROVE FInv'
  <2>1. CASE ProcessFs(c)
    BY <2>1, ReportedType, ReportKeeps DEF ProcessFs
  <2>2. CASE GetAddrInfoCallback(c) \/ GetNameInfoCallback(c)
    BY <2>2, ReportedType, ReportKeeps DEF GetAddrInfoCallback, GetNameInfoCallback
  <2> QED BY <1>7, <2>1, <2>2
<1>8. ASSUME NEW c \in Calls, Cancel(c) \/ KeepName(c) \/ DropName(c) PROVE FInv'
  BY <1>8, CancelKeeps, KeepNameKeeps, DropNameKeeps
<1> QED BY <1>1, <1>2, <1>4, <1>5, <1>6, <1>7, <1>8 DEF Next

\* The inductive invariant holds throughout.
LEMMA Invariance == Spec => []FInv
BY InitHolds, StepHolds, PTL DEF Spec

\* What libuv or a system call still uses of the requests of fs.c and dns.c exists,
\* and so does their Loop, however many calls overlap.
THEOREM RequestsKeptWhileUsed == Spec => []KeptWhileUsed
<1>1. FInv => KeptWhileUsed
  <2> SUFFICES ASSUME FInv PROVE KeptWhileUsed
    OBVIOUS
  <2>1. TypeOK
    <3>1. Cardinality(Live) \in 0 .. Cardinality(Calls) /\ Cardinality(Calls) \in Nat
      BY Finite, CallsAssumption, FS_CardinalityType DEF Live
    <3>2. B(loop.named) \in {0, 1}
      BY DEF B
    <3>3. loop.refs \in 0 .. Cardinality(Calls) + 1
      BY <3>1, <3>2 DEF FInv, LoopInv
    <3>4. loop \in [refs : 0 .. Cardinality(Calls) + 1, named : BOOLEAN, freed : BOOLEAN]
      BY <3>3 DEF FInv, LoopInv
    <3> QED BY <3>4 DEF FInv, TypeOK
  <2>2. ASSUME NEW c \in Calls, req[c].mem = "live" PROVE ~loop.freed
    <3>1. c \in Live /\ IsFiniteSet(Live) /\ Cardinality(Live) \in Nat
      BY <2>2, Finite DEF Live
    <3>2. Cardinality(Live) # 0
      BY <3>1, FS_EmptySet
    <3>3. B(loop.named) \in {0, 1}
      BY DEF B
    <3> QED BY <3>1, <3>2, <3>3 DEF FInv, LoopInv
  <2>3. ASSUME NEW c \in Calls, NEW p, p = req[c], NEW st, st = status[c]
        PROVE  /\ st \in Outstanding =>
                    /\ p.mem = "live" /\ p.refs = 1 + B(p.named)
                    /\ st \in {"queued", "executing", "cancelled"} => p.holds = Data(p.what)
               /\ p.named => p.mem = "live"
               /\ p.named /\ p.ptr => st \in Outstanding
    <3>1. p \in Request /\ Consistent(p, st) /\ st \in Pool!Statuses
      BY <2>3 DEF FInv, Pool!TypeOK
    <3> QED BY <3>1 DEF Consistent, Holding, Outstanding, Pool!Statuses
  <2>4. ASSUME NEW c \in Calls PROVE Allocated(req[c]).holds = Data(req[c].what)
    BY DEF FInv, Allocated, Data, Request
  <2> QED BY <2>1, <2>2, <2>3, <2>4, CountNamed DEF KeptWhileUsed
<1> QED BY <1>1, Invariance, PTL

\* A call of fs.c or dns.c leaves behind what OnlyTheseLeak names and no more.
THEOREM NothingElseLeaks == Spec => []OnlyTheseLeak
<1>1. FInv => OnlyTheseLeak
  BY DEF FInv, OnlyTheseLeak, Over, Consistent, Leaks
<1> QED BY <1>1, Invariance, PTL

=============================================================================
