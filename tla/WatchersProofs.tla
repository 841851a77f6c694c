--------------------------- MODULE WatchersProofs ---------------------------
(***************************************************************************)
(* Proofs about the handles that tell of something outside the loop, for   *)
(* any finite set of handles of any kinds and any bounds.  The invariant   *)
(* is an account of every reference: what each stands for, until when it   *)
(* is held, and which callback holds it.                                   *)
(***************************************************************************)
EXTENDS Watchers, QueueLemmas

USE WatchersAssumption

-----------------------------------------------------------------------------
(* The invariant.                                                          *)

Account(o) == o.names + Cardinality(o.owns) - o.checked

\* The count of an object is its account.
Counted(o) ==
  IF o.mem = "live" THEN o.refs > 0 /\ o.refs = Account(o) ELSE o.refs = 0

Fresh(o) ==
  /\ o.names = 0 /\ o.owns = {} /\ o.state = "open" /\ o.checked = 0
  /\ ~o.active /\ o.child = "none"

\* What a handle of kind k holds while it is open, closing and closed.
Held(o, k) ==
  /\ o.mem = "none" => Fresh(o)
  /\ k = "absent" => o.mem = "none"
  /\ o.mem # "none" /\ o.state # "closed" => o.loop
  /\ o.mem = "freed" => o.state # "open"
  /\ o.mem = "freed" /\ o.checked = 0 => o.names = 0 /\ o.owns = {} /\ o.state = "closed"
  /\ o.checked > 0 => k = "checker"
  /\ o.active => o.state = "open" /\ o.mem = "live"
  /\ o.active /\ k \in Started => "pyref" \in o.owns
  /\ o.active /\ k \in Started \ {"checker"} => o.callback
  /\ o.active /\ k = "process" => "spawned" \in o.owns
  /\ o.state = "closing" => "closing" \in o.owns
  /\ o.state = "open" => "closing" \notin o.owns
  /\ "timer" \in o.owns => k = "pipe" /\ (o.state = "open" => o.active)
  /\ o.state # "open" /\ ~o.user /\ o.checked = 0 => o.names = 0 /\ o.owns \subseteq {"closing"}
  /\ o.state = "closed" /\ o.user => o.told
  /\ o.child \in {"running", "exited", "missed"} => "spawned" \in o.owns
  /\ o.child # "none" => k = "process"
  /\ "called" \in o.owns => k \in Started \ {"checker"}

HandleInv == \A x \in Handles : Counted(h[x]) /\ Held(h[x], kind[x])

Calling(call, x) == main.call = call /\ main.handle = x

\* What a running callback holds of its handle.
CallHolds(x) ==
  /\ Calling("event", x) =>
       /\ h[x].mem # "none" /\ h[x].state # "closed" /\ kind[x] \in {"poll", "fsevent", "fspoll", "checker"}
       /\ IF kind[x] = "checker" THEN h[x].checked < MaxChecked ELSE "called" \in h[x].owns
  /\ Calling("signal", x) => "called" \in h[x].owns /\ pipe # <<>> /\ Head(pipe) = x
  /\ Calling("exit", x) => "spawned" \in h[x].owns /\ h[x].child = "reaped" /\ ~h[x].active /\ ~In(pending, x)
       /\ h[x].state # "closed"
  /\ Calling("connected", x) => "timer" \in h[x].owns
  /\ Calling("close", x) => h[x].state = "closed" /\ "closing" \in h[x].owns /\ h[x].user /\ h[x].loop

\* What no callback holds is not held for a callback.
HeldForCall(x) ==
  /\ "called" \in h[x].owns => Calling("event", x) \/ Calling("signal", x)
  /\ h[x].state = "closed" /\ "closing" \in h[x].owns => Calling("close", x)
  /\ h[x].state = "closed" /\ "pyref" \in h[x].owns /\ h[x].checked = 0 => Calling("close", x)

Reaping == main.call \in {"reap", "exit"}

CallInv ==
  /\ main.handle = None <=> main.call \in {"none", "reap"}
  /\ Reaping => pipe # <<>> /\ Head(pipe) = Child
  /\ \A x \in Handles : CallHolds(x) /\ HeldForCall(x)

\* A signal waits for a handle that is not closed.
PipeInv == \A x \in Handles : In(pipe, x) => kind[x] = "signal" /\ h[x].state # "closed"

\* The children uv__chld has waited for and not called back for.
PendingInv ==
  /\ Once(pending) /\ (pending # <<>> => Reaping)
  /\ \A x \in Handles : In(pending, x) => h[x].child = "reaped" /\ "spawned" \in h[x].owns /\ h[x].state # "closed"
  /\ \A x \in Handles :
       h[x].child = "reaped" /\ h[x].state = "open" /\ "spawned" \in h[x].owns =>
         In(pending, x) \/ Calling("exit", x)

\* The messages not yet read.
Unread == IF Reaping THEN Tail(pipe) ELSE pipe

\* A child that uv__chld is to wait for: SIGCHLD is watched and, for one that has
\* exited, on its way.
ChildInv ==
  \A x \in Children(h) : watcher /\ (h[x].child = "exited" => In(Unread, Child))

Inv == TypeOK /\ HandleInv /\ CallInv /\ PipeInv /\ PendingInv /\ ChildInv
-----------------------------------------------------------------------------
(* The account of one handle.                                              *)

\* The references taken count one each (owns of a handle).
LEMMA OwnsCount ==
  /\ Cardinality(Owners) \in Nat
  /\ \A S \in SUBSET Owners :
       /\ Cardinality(S) \in 0 .. Cardinality(Owners) /\ (Cardinality(S) = 0 => S = {})
       /\ \A e \in Owners : /\ e \notin S => Cardinality(S \cup {e}) = Cardinality(S) + 1
                            /\ e \in S => Cardinality(S \ {e}) = Cardinality(S) - 1 /\ Cardinality(S) > 0
  /\ Cardinality({}) = 0
<1>1. /\ IsFiniteSet(Owners)
      /\ Cardinality(Owners) \in Nat
  <2>1. IsFiniteSet({}) /\ \A S, e : IsFiniteSet(S) => IsFiniteSet(S \cup {e})
    BY FS_EmptySet, FS_AddElement
  <2>2. Owners = ((((({} \cup {"pyref"}) \cup {"spawned"}) \cup {"timer"}) \cup {"closing"}) \cup {"called"})
    BY DEF Owners
  <2> QED  BY <2>1, <2>2, FS_CardinalityType
<1>2. ASSUME NEW S \in SUBSET Owners
      PROVE  /\ IsFiniteSet(S) /\ Cardinality(S) \in 0 .. Cardinality(Owners) /\ (Cardinality(S) = 0 => S = {})
  <2>1. IsFiniteSet(S) /\ Cardinality(S) <= Cardinality(Owners)
    BY <1>1, FS_Subset
  <2> QED  BY <1>1, <2>1, FS_CardinalityType, FS_EmptySet
<1>3. ASSUME NEW S \in SUBSET Owners, NEW e \in Owners
      PROVE  /\ e \notin S => Cardinality(S \cup {e}) = Cardinality(S) + 1
             /\ e \in S => Cardinality(S \ {e}) = Cardinality(S) - 1 /\ Cardinality(S) > 0
  <2>1. IsFiniteSet(S) /\ Cardinality(S) \in Nat
    BY <1>1, <1>2
  <2>2. e \notin S => Cardinality(S \cup {e}) = Cardinality(S) + 1
    BY <2>1, FS_AddElement
  <2>3. e \in S => Cardinality(S \ {e}) = Cardinality(S) - 1
    BY <2>1, FS_RemoveElement
  <2>4. e \in S => Cardinality(S) # 0
    BY <1>2
  <2> QED  BY <2>1, <2>2, <2>3, <2>4
<1>4. Cardinality({}) = 0
  BY FS_EmptySet
<1> QED  BY <1>1, <1>2, <1>3, <1>4

\* A handle one of whose references is no more, to be dropped.
Owed(o) ==
  IF o.mem = "live" THEN o.refs > 0 /\ o.refs = Account(o) + 1 ELSE o.mem = "freed" /\ o.refs = 0

\* What Py_DECREF leaves as it was, or closes.
Later(o, r) ==
  /\ r.names = o.names /\ r.checked = o.checked /\ r.user = o.user /\ r.told = o.told /\ r.loop = o.loop
  /\ r.child = o.child /\ r.callback = o.callback /\ r.mem # "none" /\ (r.active => o.active)
  /\ \/ r.state = o.state /\ r.owns = o.owns
     \/ o.state = "open" /\ r.state = "closing" /\ r.owns = o.owns \cup {"closing"}

\* Py_DECREF and Handle_tp_dealloc keep the account, whether the handle lives
\* on, is closed and resurrected, or is freed.
LEMMA DecrefKeeps ==
  ASSUME NEW o \in Handle, NEW k, Held(o, k), Owed(o)
  PROVE  Decref(o) \in Handle /\ Counted(Decref(o)) /\ Held(Decref(o), k) /\ Later(o, Decref(o))
<1> DEFINE n == Cardinality(o.owns)
<1>1. /\ o.refs \in Nat /\ o.names \in 0 .. MaxNames /\ o.checked \in Nat /\ o.owns \in SUBSET Owners
      /\ n \in Nat /\ (n = 0 => o.owns = {}) /\ Cardinality(Owners) \in Nat /\ MaxNames \in Nat \ {0}
      /\ "closing" \in Owners /\ 0 \in 0 .. MaxNames + Cardinality(Owners) /\ 1 \in 0 .. MaxNames + Cardinality(Owners)
      /\ ("closing" \notin o.owns => Cardinality(o.owns \cup {"closing"}) = n + 1)
  <2>1. "closing" \in Owners
    BY DEF Owners
  <2>2. /\ o.refs \in Nat /\ o.names \in 0 .. MaxNames /\ o.checked \in Nat /\ o.owns \in SUBSET Owners
        /\ MaxNames \in Nat \ {0} /\ Cardinality(Owners) \in Nat
    BY OwnsCount DEF Handle
  <2>3. 0 \in 0 .. MaxNames + Cardinality(Owners) /\ 1 \in 0 .. MaxNames + Cardinality(Owners)
    BY <2>2
  <2>4. n \in Nat /\ (n = 0 => o.owns = {}) /\ ("closing" \notin o.owns => Cardinality(o.owns \cup {"closing"}) = n + 1)
    BY <2>1, <2>2, OwnsCount
  <2> QED  BY <2>1, <2>2, <2>3, <2>4
<1> HIDE DEF n
<1>2. CASE o.mem = "freed"
  BY <1>2 DEF Decref, Owed, Counted, Later
<1>3. CASE o.mem = "live" /\ o.refs > 1
  <2> DEFINE r == [o EXCEPT !.refs = @ - 1]
  <2>1. Decref(o) = r
    BY <1>3, <1>1 DEF Decref
  <2>2. /\ r.mem = o.mem /\ r.refs = o.refs - 1 /\ r.names = o.names /\ r.owns = o.owns /\ r.state = o.state
        /\ r.user = o.user /\ r.told = o.told /\ r.loop = o.loop /\ r.active = o.active /\ r.callback = o.callback
        /\ r.child = o.child /\ r.checked = o.checked /\ r \in Handle
    BY <1>1, <1>3 DEF Handle
  <2> HIDE DEF r
  <2>3. Counted(r)
    BY <2>2, <1>1, <1>3 DEF Counted, Account, Owed, n
  <2>4. Held(r, k)
    BY <2>2 DEF Held, Fresh
  <2> QED  BY <1>3, <2>1, <2>2, <2>3, <2>4 DEF Later
<1>4. CASE o.mem = "live" /\ o.refs = 1
  <2>1. o.names + n = o.checked
    BY <1>1, <1>4 DEF Owed, Account, n
  <2>2. o.checked = 0 => o.names = 0 /\ o.owns = {}
    BY <2>1, <1>1
  <2>3. CASE o.state = "open"
    <3> DEFINE r == [UvClosed(o) EXCEPT !.refs = 1, !.owns = @ \cup {"closing"}]
    <3>1. Decref(o) = r
      BY <2>3, <1>4 DEF Decref
    <3>2. /\ r.mem = o.mem /\ r.refs = 1 /\ r.names = o.names /\ r.owns = o.owns \cup {"closing"} /\ r.state = "closing"
          /\ r.user = o.user /\ r.told = o.told /\ r.loop = o.loop /\ r.active = FALSE /\ r.callback = o.callback
          /\ r.child = o.child /\ r.checked = o.checked
      BY DEF Handle, UvClosed
    <3>5. r \in Handle
      BY <1>1 DEF Handle, UvClosed
    <3> HIDE DEF r
    <3>3. Counted(r)
      BY <3>2, <1>1, <1>4, <2>1, <2>3 DEF Counted, Account, Held, n
    <3>4. Held(r, k)
      BY <3>2, <2>2, <2>3, <1>4 DEF Held, Fresh
    <3> QED  BY <1>4, <3>1, <3>2, <3>3, <3>4, <3>5, <2>3 DEF Later
  <2>4. CASE o.state # "open"
    <3> DEFINE r == [o EXCEPT !.refs = 0, !.mem = "freed"]
    <3>1. Decref(o) = r
      BY <2>4, <1>4 DEF Decref
    <3>2. /\ r.mem = "freed" /\ r.refs = 0 /\ r.names = o.names /\ r.owns = o.owns /\ r.state = o.state
          /\ r.user = o.user /\ r.told = o.told /\ r.loop = o.loop /\ r.active = o.active /\ r.callback = o.callback
          /\ r.child = o.child /\ r.checked = o.checked
      BY DEF Handle
    <3>6. r \in Handle
      BY <1>1 DEF Handle
    <3> HIDE DEF r
    <3>3. Counted(r)
      BY <3>2 DEF Counted
    <3>4. o.checked = 0 => o.state = "closed"
      BY <2>2, <2>4 DEF Held, Handle
    <3>5. Held(r, k)
      BY <3>2, <3>4, <2>2, <2>4, <1>4 DEF Held, Fresh
    <3> QED  BY <3>1, <3>2, <3>3, <3>5, <3>6 DEF Later
  <2> QED  BY <2>3, <2>4
<1> QED  BY <1>1, <1>2, <1>3, <1>4 DEF Owed

\* PYUV_HANDLE_DECREF: the reference leaves the account, then the object.
LEMMA GiveBackKeeps ==
  ASSUME NEW o \in Handle, NEW k, NEW owner \in o.owns, Counted(o), o.mem # "none",
         Held([o EXCEPT !.owns = @ \ {owner}], k)
  PROVE  LET r == GiveBack(o, owner) IN
         r \in Handle /\ Counted(r) /\ Held(r, k) /\ Later([o EXCEPT !.owns = @ \ {owner}], r)
<1> DEFINE d == [o EXCEPT !.owns = @ \ {owner}]
<1>1. GiveBack(o, owner) = Decref(d)
  BY DEF GiveBack
<1>2. /\ d \in Handle /\ d.owns = o.owns \ {owner} /\ d.mem = o.mem /\ d.refs = o.refs
      /\ d.names = o.names /\ d.checked = o.checked
  BY DEF Handle
<1>3. /\ owner \in Owners /\ o.owns \in SUBSET Owners /\ o.names \in Nat /\ o.checked \in Nat /\ o.refs \in Nat
      /\ o.mem \in {"live", "freed"}
  BY DEF Handle
<1>4. Cardinality(d.owns) = Cardinality(o.owns) - 1 /\ Cardinality(o.owns) \in Nat
  BY <1>2, <1>3, OwnsCount
<1>5. Owed(d)
  BY <1>2, <1>3, <1>4 DEF Owed, Counted, Account
<1>6. Held(d, k)
  OBVIOUS
<1> HIDE DEF d
<1>7. Decref(d) \in Handle /\ Counted(Decref(d)) /\ Held(Decref(d), k) /\ Later(d, Decref(d))
  BY <1>2, <1>5, <1>6, DecrefKeeps
<1> QED  BY <1>1, <1>7 DEF d

\* Py_INCREF: the reference enters the account and the object.
LEMMA TakeKeeps ==
  ASSUME NEW o \in Handle, NEW owner \in Owners, owner \notin o.owns, o.mem = "live", Counted(o)
  PROVE  Take(o, owner) \in Handle /\ Counted(Take(o, owner))
<1> DEFINE r == Take(o, owner)
<1>1. /\ o.owns \in SUBSET Owners /\ o.names \in 0 .. MaxNames /\ o.checked \in Nat /\ o.refs \in Nat
      /\ MaxNames \in Nat /\ o.owns \cup {owner} \in SUBSET Owners
  BY DEF Handle
<1>2. /\ Cardinality(o.owns \cup {owner}) = Cardinality(o.owns) + 1 /\ Cardinality(o.owns) \in Nat
      /\ Cardinality(Owners) \in Nat /\ Cardinality(o.owns \cup {owner}) <= Cardinality(Owners)
  BY <1>1, OwnsCount
<1>3. /\ r.owns = o.owns \cup {owner} /\ r.refs = o.refs + 1 /\ r.names = o.names /\ r.checked = o.checked
      /\ r.mem = o.mem
  BY DEF Take, Handle
<1>4. Counted(r)
  BY <1>1, <1>2, <1>3 DEF Counted, Account
<1>5. o.refs + 1 \in 0 .. MaxNames + Cardinality(Owners)
  BY <1>1, <1>2 DEF Counted, Account
<1>6. r \in Handle
  BY <1>1, <1>5 DEF Take, Handle
<1> QED  BY <1>4, <1>6
-----------------------------------------------------------------------------
(* The lists of the loop.                                                  *)

\* uv__process_close: what Update makes of the list of children to call back
\* for and of the watcher, when the handle is closed or not.
LEMMA UpdateLists ==
  ASSUME TypeOK, Once(pending), NEW x \in Handles, NEW r \in Handle, Update(x, r)
  PROVE  /\ h' \in [Handles -> Handle] /\ h'[x] = r /\ \A y \in Handles : y # x => h'[y] = h[y]
         /\ pending' \in Seq(Handles) /\ Once(pending')
         /\ \A y : In(pending', y) => In(pending, y)
         /\ \A y : In(pending, y) /\ (y # x \/ r.state = h[x].state) => In(pending', y)
         /\ pending' # <<>> => pending # <<>>
         /\ watcher' \in BOOLEAN /\ (watcher /\ Children(h') # {} => watcher')
<1>1. /\ h' \in [Handles -> Handle] /\ h'[x] = r /\ \A y \in Handles : y # x => h'[y] = h[y]
  BY DEF Update, TypeOK
<1>2. watcher' \in BOOLEAN /\ (watcher /\ Children(h') # {} => watcher')
  BY DEF Update, Watched, TypeOK
<1>3. CASE ~Unlinked(x, r)
  BY <1>1, <1>2, <1>3 DEF Update, TypeOK
<1>4. CASE Unlinked(x, r)
  <2>1. pending' = Without(pending, x) /\ pending \in Seq(Handles) /\ r.state # h[x].state
    BY <1>4 DEF Update, TypeOK, Unlinked, Closes
  <2>2. /\ Without(pending, x) \in Seq(Handles) /\ Once(Without(pending, x))
        /\ \A y : In(Without(pending, x), y) <=> In(pending, y) /\ y # x
    BY <2>1, WithoutOnce
  <2>3. pending = <<>> => pending' = <<>>
    BY <2>1 DEF Without
  <2> QED  BY <1>1, <1>2, <2>1, <2>2, <2>3
<1> QED  BY <1>3, <1>4

\* What libuv and the running callback know of a handle does not change: a call
\* of Python may only close it, and take or give the references of its names, its
\* start and its connection.
Unmoved(o, r) ==
  /\ r.mem # "none" /\ r.child = o.child /\ r.checked = o.checked /\ (o.user => r.user) /\ (o.loop => r.loop)
  /\ o.child # "none" /\ r.active => o.active
  /\ r.state = o.state \/ (o.state = "open" /\ r.state = "closing")
  /\ \A e \in {"called", "spawned"} : e \in r.owns <=> e \in o.owns
  /\ \A e \in {"timer", "closing"} : e \in o.owns => e \in r.owns
  /\ o.state = "closed" => r.owns \subseteq o.owns

\* A call of Python that keeps the handle's account keeps the invariant,
\* whichever callback it is made from.
LEMMA PythonKeeps ==
  ASSUME Inv, NEW x \in Handles, NEW r \in Handle, Update(x, r), UNCHANGED <<kind, pipe, main>>,
         Counted(r), Held(r, kind[x]), Unmoved(h[x], r)
  PROVE  Inv'
<1>1. TypeOK /\ Once(pending)
  BY DEF Inv, PendingInv
<1>2. /\ h' \in [Handles -> Handle] /\ h'[x] = r /\ \A y \in Handles : y # x => h'[y] = h[y]
      /\ pending' \in Seq(Handles) /\ Once(pending')
      /\ \A y : In(pending', y) => In(pending, y)
      /\ \A y : In(pending, y) /\ (y # x \/ r.state = h[x].state) => In(pending', y)
      /\ pending' # <<>> => pending # <<>>
      /\ watcher' \in BOOLEAN /\ (watcher /\ Children(h') # {} => watcher')
  BY <1>1, UpdateLists
<1>3. TypeOK'
  BY <1>1, <1>2 DEF TypeOK
<1>4. HandleInv'
  BY <1>2 DEF Inv, HandleInv
<1>5. CallInv'
  <2>1. /\ main'.handle = None <=> main'.call \in {"none", "reap"}
        /\ Reaping' => pipe' # <<>> /\ Head(pipe') = Child
    BY DEF Inv, CallInv, Reaping
  <2>2. ASSUME NEW y \in Handles PROVE CallHolds(y)' /\ HeldForCall(y)'
    <3>1. CallHolds(y) /\ HeldForCall(y)
      BY DEF Inv, CallInv
    <3>2. h[x] \in Handle /\ h'[y] \in Handle
      BY <1>1, <1>2 DEF TypeOK
    <3>3. Unmoved(h[y], h'[y]) \/ h'[y] = h[y]
      BY <1>2
    <3>4. CallHolds(y)'
      BY <1>2, <3>1, <3>3 DEF CallHolds, Calling, Unmoved
    <3>5. HeldForCall(y)'
      BY <3>1, <3>3 DEF HeldForCall, Calling, Unmoved
    <3> QED  BY <3>4, <3>5
  <2> QED  BY <2>1, <2>2 DEF CallInv
<1>6. PipeInv'
  BY <1>2 DEF Inv, PipeInv, Unmoved
<1>7. PendingInv'
  <2>1. pending' # <<>> => Reaping'
    BY <1>2 DEF Inv, PendingInv, Reaping
  <2>2. \A y \in Handles : In(pending', y) => h'[y].child = "reaped" /\ "spawned" \in h'[y].owns /\ h'[y].state # "closed"
    BY <1>2 DEF Inv, PendingInv, Unmoved
  <2>3. \A y \in Handles :
          h'[y].child = "reaped" /\ h'[y].state = "open" /\ "spawned" \in h'[y].owns =>
            In(pending', y) \/ Calling("exit", y)'
    BY <1>2 DEF Inv, PendingInv, Unmoved, Calling
  <2> QED  BY <1>2, <2>1, <2>2, <2>3 DEF PendingInv
<1>8. ChildInv'
  BY <1>2 DEF Inv, ChildInv, Children, Unmoved, Unread, Reaping
<1> QED  BY <1>3, <1>4, <1>5, <1>6, <1>7, <1>8 DEF Inv
-----------------------------------------------------------------------------
(* The calls of Python keep the invariant.                                 *)

\* A handle Python can reach is alive, and was not closed by its deallocation:
\* the variable or the running callback that reaches it is on the account.
LEMMA NamedHolds ==
  ASSUME Inv, NEW x \in Handles, Python, Named(x)
  PROVE  /\ h[x] \in Handle /\ Counted(h[x]) /\ Held(h[x], kind[x]) /\ h[x].mem = "live"
         /\ h[x].state # "open" /\ h[x].checked = 0 => h[x].user
<1>1. h[x] \in Handle /\ Counted(h[x]) /\ Held(h[x], kind[x]) /\ h[x].mem = "live"
  BY DEF Inv, TypeOK, HandleInv, Named
<1>2. ASSUME h[x].state # "open", h[x].checked = 0, ~h[x].user PROVE FALSE
  <2>1. h[x].names = 0 /\ h[x].owns \subseteq {"closing"}
    BY <1>1, <1>2 DEF Held
  <2>2. main.handle = x /\ kind[x] # "checker"
    BY <2>1, <1>1 DEF Named, Handle
  <2>3. main.call \in {"event", "signal", "exit", "connected", "close"}
    BY <2>2 DEF Python, Inv, CallInv
  <2>4. CallHolds(x)
    BY DEF Inv, CallInv
  <2> QED  BY <1>2, <2>1, <2>2, <2>3, <2>4 DEF CallHolds, Calling
<1> QED  BY <1>1, <1>2 DEF Handle

\* X_tp_new and initialize_handle.
LEMMA CreateKeeps ==
  ASSUME Inv, NEW x \in Handles, Create(x)
  PROVE  Inv'
<1> DEFINE o == h[x]
           r == [o EXCEPT !.mem = "live", !.refs = 1, !.names = 1, !.loop = TRUE]
<1>1. o \in Handle /\ Counted(o) /\ Held(o, kind[x]) /\ o.mem = "none" /\ Fresh(o)
  BY DEF Inv, TypeOK, HandleInv, Create, Held
<1>2. Update(x, r) /\ UNCHANGED <<kind, pipe, main>> /\ kind[x] # "absent"
  BY DEF Create, Started
<1>3. 1 \in 0 .. MaxNames /\ 1 \in 0 .. MaxNames + Cardinality(Owners)
  <2>1. Cardinality(Owners) \in Nat /\ MaxNames \in Nat \ {0}
    BY OwnsCount
  <2> QED  BY <2>1
<1> HIDE DEF o
<1>4. /\ r.mem = "live" /\ r.refs = 1 /\ r.names = 1 /\ r.owns = o.owns /\ r.state = o.state
      /\ r.user = o.user /\ r.told = o.told /\ r.loop /\ r.active = o.active /\ r.callback = o.callback
      /\ r.child = o.child /\ r.checked = o.checked
  BY <1>1 DEF Handle
<1>5. r \in Handle
  BY <1>1, <1>3 DEF Handle
<1> HIDE DEF r
<1>6. Counted(r)
  BY <1>1, <1>4, OwnsCount DEF Counted, Account, Fresh
<1>7. Held(r, kind[x])
  BY <1>1, <1>2, <1>4 DEF Held, Fresh
<1>8. Unmoved(o, r)
  BY <1>4 DEF Unmoved
<1> QED  BY <1>2, <1>5, <1>6, <1>7, <1>8, PythonKeeps DEF o

\* start() takes PYREF with the libuv handle.
LEMMA StartKeeps ==
  ASSUME Inv, NEW x \in Handles, Start(x)
  PROVE  Inv'
<1> DEFINE o == h[x]
<1>1. /\ o \in Handle /\ Counted(o) /\ Held(o, kind[x]) /\ o.mem = "live" /\ o.state = "open"
      /\ kind[x] \in Started
  BY NamedHolds DEF Start, Usable
<1>2. PICK active \in BOOLEAN :
        /\ Update(x, HandleIncref([o EXCEPT !.active = active, !.callback = TRUE]))
        /\ UNCHANGED <<kind, pipe, main>>
  BY DEF Start
<1> HIDE DEF o
<1> DEFINE d == [o EXCEPT !.active = active, !.callback = TRUE]
           r == HandleIncref(d)
<1>3. /\ d.mem = o.mem /\ d.refs = o.refs /\ d.names = o.names /\ d.owns = o.owns /\ d.state = o.state
      /\ d.user = o.user /\ d.told = o.told /\ d.loop = o.loop /\ d.active = active /\ d.callback = TRUE
      /\ d.child = o.child /\ d.checked = o.checked /\ d \in Handle /\ Counted(d)
  BY <1>1 DEF Handle, Counted, Account
<1> HIDE DEF d
<1>4. r \in Handle /\ Counted(r)
  <2>1. CASE "pyref" \in d.owns
    BY <1>3, <2>1 DEF HandleIncref
  <2>2. CASE "pyref" \notin d.owns
    BY <1>1, <1>3, <2>2, TakeKeeps DEF HandleIncref, Owners
  <2> QED  BY <2>1, <2>2
<1>5. /\ r.mem = o.mem /\ r.names = o.names /\ r.owns = o.owns \cup {"pyref"} /\ r.state = o.state
      /\ r.user = o.user /\ r.told = o.told /\ r.loop = o.loop /\ r.active = active /\ r.callback = TRUE
      /\ r.child = o.child /\ r.checked = o.checked
  BY <1>3 DEF HandleIncref, Take, Handle
<1> HIDE DEF r
<1>6. Held(r, kind[x])
  BY <1>1, <1>5 DEF Held, Fresh, Started
<1>7. Unmoved(o, r)
  <2>1. o.child = "none"
    BY <1>1 DEF Held, Started
  <2> QED  BY <1>1, <1>5, <2>1 DEF Unmoved
<1>8. Update(x, r)
  BY <1>2 DEF r, d
<1> QED  BY <1>2, <1>4, <1>6, <1>7, <1>8, PythonKeeps DEF o

\* stop() gives PYREF back: the handle may be closed by it.
LEMMA StopKeeps ==
  ASSUME Inv, NEW x \in Handles, Stop(x)
  PROVE  Inv'
<1> DEFINE o == h[x]
           c == o.callback /\ kind[x] = "signal"
<1>1. /\ o \in Handle /\ Counted(o) /\ Held(o, kind[x]) /\ o.mem = "live" /\ o.state = "open"
      /\ kind[x] \in Started
  BY NamedHolds DEF Stop, Usable
<1>2. c \in BOOLEAN
  OBVIOUS
<1>3. Update(x, GiveBack([o EXCEPT !.active = FALSE, !.callback = c], "pyref")) /\ UNCHANGED <<kind, pipe, main>>
  BY DEF Stop
<1> HIDE DEF o, c
<1> DEFINE d == [o EXCEPT !.active = FALSE, !.callback = c]
           g == [d EXCEPT !.owns = @ \ {"pyref"}]
           r == GiveBack(d, "pyref")
<1>4. /\ d.mem = o.mem /\ d.refs = o.refs /\ d.names = o.names /\ d.owns = o.owns /\ d.state = o.state
      /\ d.user = o.user /\ d.told = o.told /\ d.loop = o.loop /\ d.active = FALSE /\ d.callback = c
      /\ d.child = o.child /\ d.checked = o.checked /\ d \in Handle /\ Counted(d)
  BY <1>1, <1>2 DEF Handle, Counted, Account
<1> HIDE DEF d
<1>5. /\ g.mem = o.mem /\ g.names = o.names /\ g.owns = o.owns \ {"pyref"} /\ g.state = o.state
      /\ g.user = o.user /\ g.told = o.told /\ g.loop = o.loop /\ g.active = FALSE
      /\ g.child = o.child /\ g.checked = o.checked /\ g \in Handle
  BY <1>4 DEF Handle
<1> HIDE DEF g
<1>6. Held(g, kind[x]) /\ Held(d, kind[x])
  <2>1. ~("timer" \in o.owns)
    BY <1>1 DEF Held, Started
  <2> QED  BY <1>1, <1>4, <1>5, <2>1 DEF Held, Fresh, Started
<1>7. r \in Handle /\ Counted(r) /\ Held(r, kind[x]) /\ Unmoved(o, r)
  <2>1. CASE "pyref" \in d.owns
    <3>1. r \in Handle /\ Counted(r) /\ Held(r, kind[x]) /\ Later(g, r)
      BY <1>1, <1>4, <1>6, <2>1, GiveBackKeeps DEF g
    <3>2. Unmoved(o, r)
      BY <1>1, <1>5, <3>1 DEF Unmoved, Later
    <3> QED  BY <3>1, <3>2
  <2>2. CASE "pyref" \notin d.owns
    <3>1. r = d
      BY <2>2 DEF GiveBack
    <3> QED  BY <1>1, <1>4, <1>6, <3>1 DEF Unmoved
  <2> QED  BY <2>1, <2>2
<1>8. Update(x, r)
  BY <1>3 DEF r, d
<1> QED  BY <1>3, <1>7, <1>8, PythonKeeps DEF o

\* close() takes the reference for its callback.
LEMMA CloseKeeps ==
  ASSUME Inv, NEW x \in Handles, Close(x)
  PROVE  Inv'
<1> DEFINE o == h[x]
           d == [UvClosed(o) EXCEPT !.user = TRUE]
           r == Take(d, "closing")
<1>1. /\ o \in Handle /\ Counted(o) /\ Held(o, kind[x]) /\ o.mem = "live" /\ o.state = "open"
  BY NamedHolds DEF Close, Usable
<1>2. Update(x, r) /\ UNCHANGED <<kind, pipe, main>>
  BY DEF Close
<1> HIDE DEF o
<1>3. /\ d.mem = o.mem /\ d.refs = o.refs /\ d.names = o.names /\ d.owns = o.owns /\ d.state = "closing"
      /\ d.user = TRUE /\ d.told = o.told /\ d.loop = o.loop /\ d.active = FALSE /\ d.callback = o.callback
      /\ d.child = o.child /\ d.checked = o.checked /\ d \in Handle /\ Counted(d)
  BY <1>1 DEF Handle, Counted, Account, UvClosed
<1> HIDE DEF d
<1>4. "closing" \notin d.owns /\ "closing" \in Owners
  BY <1>1, <1>3 DEF Held, Owners
<1>5. r \in Handle /\ Counted(r)
  BY <1>1, <1>3, <1>4, TakeKeeps
<1>6. /\ r.mem = o.mem /\ r.names = o.names /\ r.owns = o.owns \cup {"closing"} /\ r.state = "closing"
      /\ r.user = TRUE /\ r.told = o.told /\ r.loop = o.loop /\ r.active = FALSE
      /\ r.child = o.child /\ r.checked = o.checked
  BY <1>3 DEF Take, Handle
<1> HIDE DEF r
<1>7. Held(r, kind[x])
  BY <1>1, <1>6 DEF Held, Fresh
<1>8. Unmoved(o, r)
  BY <1>1, <1>6 DEF Unmoved
<1> QED  BY <1>2, <1>5, <1>7, <1>8, PythonKeeps DEF o

\* A variable more.
LEMMA KeepNameKeeps ==
  ASSUME Inv, NEW x \in Handles, KeepName(x)
  PROVE  Inv'
<1> DEFINE o == h[x]
           r == [o EXCEPT !.names = @ + 1, !.refs = @ + 1]
<1>1. /\ o \in Handle /\ Counted(o) /\ Held(o, kind[x]) /\ o.mem = "live"
      /\ (o.state # "open" /\ o.checked = 0 => o.user)
  BY NamedHolds DEF KeepName
<1>2. Update(x, r) /\ UNCHANGED <<kind, pipe, main>> /\ o.names < MaxNames
  BY DEF KeepName
<1> HIDE DEF o
<1>3. /\ o.names \in 0 .. MaxNames /\ o.refs \in Nat /\ o.checked \in Nat /\ MaxNames \in Nat
      /\ Cardinality(o.owns) \in 0 .. Cardinality(Owners) /\ Cardinality(Owners) \in Nat
  BY <1>1, OwnsCount DEF Handle
<1>4. o.names + 1 \in 0 .. MaxNames
  BY <1>2, <1>3
<1>5. o.refs + 1 \in 0 .. MaxNames + Cardinality(Owners)
  BY <1>1, <1>2, <1>3 DEF Counted, Account
<1>6. /\ r.mem = o.mem /\ r.refs = o.refs + 1 /\ r.names = o.names + 1 /\ r.owns = o.owns /\ r.state = o.state
      /\ r.user = o.user /\ r.told = o.told /\ r.loop = o.loop /\ r.active = o.active /\ r.callback = o.callback
      /\ r.child = o.child /\ r.checked = o.checked
  BY <1>1 DEF Handle
<1>7. r \in Handle
  BY <1>1, <1>4, <1>5 DEF Handle
<1> HIDE DEF r
<1>8. Counted(r)
  BY <1>1, <1>3, <1>6 DEF Counted, Account
<1>9. Held(r, kind[x])
  BY <1>1, <1>6 DEF Held, Fresh
<1>10. Unmoved(o, r)
  BY <1>1, <1>6 DEF Unmoved
<1> QED  BY <1>2, <1>7, <1>8, <1>9, <1>10, PythonKeeps DEF o

\* A variable less: the handle may be closed by it, or freed.
LEMMA DropNameKeeps ==
  ASSUME Inv, NEW x \in Handles, DropName(x)
  PROVE  Inv'
<1> DEFINE o == h[x]
           d == [o EXCEPT !.names = @ - 1]
           r == Decref(d)
<1>1. o \in Handle /\ Counted(o) /\ Held(o, kind[x]) /\ o.mem = "live" /\ o.names > 0
  BY DEF DropName, Inv, TypeOK, HandleInv
<1>2. Update(x, r) /\ UNCHANGED <<kind, pipe, main>>
  BY DEF DropName
<1> HIDE DEF o
<1>3. /\ o.names \in 0 .. MaxNames /\ o.refs \in Nat /\ o.checked \in Nat /\ MaxNames \in Nat
      /\ Cardinality(o.owns) \in Nat
  BY <1>1, OwnsCount DEF Handle
<1>4. o.names - 1 \in 0 .. MaxNames
  BY <1>1, <1>3
<1>5. /\ d.mem = o.mem /\ d.refs = o.refs /\ d.names = o.names - 1 /\ d.owns = o.owns /\ d.state = o.state
      /\ d.user = o.user /\ d.told = o.told /\ d.loop = o.loop /\ d.active = o.active /\ d.callback = o.callback
      /\ d.child = o.child /\ d.checked = o.checked /\ d \in Handle
  BY <1>1, <1>4 DEF Handle
<1> HIDE DEF d
<1>6. Owed(d)
  BY <1>1, <1>3, <1>5 DEF Counted, Account, Owed
<1>7. Held(d, kind[x])
  BY <1>1, <1>3, <1>5 DEF Held, Fresh
<1>8. r \in Handle /\ Counted(r) /\ Held(r, kind[x]) /\ Later(d, r)
  BY <1>5, <1>6, <1>7, DecrefKeeps
<1> HIDE DEF r
<1>9. Unmoved(o, r)
  BY <1>5, <1>8 DEF Unmoved, Later
<1> QED  BY <1>2, <1>8, <1>9, PythonKeeps DEF o

\* connect() of a pipe to an abstract name takes the reference for its timer.
LEMMA ConnectAbstractKeeps ==
  ASSUME Inv, NEW x \in Handles, ConnectAbstract(x)
  PROVE  Inv'
<1> DEFINE o == h[x]
           d == [o EXCEPT !.active = TRUE]
           r == Take(d, "timer")
<1>1. /\ o \in Handle /\ Counted(o) /\ Held(o, kind[x]) /\ o.mem = "live" /\ o.state = "open"
      /\ kind[x] = "pipe" /\ ~o.active
  BY NamedHolds DEF ConnectAbstract, Usable
<1>2. Update(x, r) /\ UNCHANGED <<kind, pipe, main>>
  BY DEF ConnectAbstract
<1> HIDE DEF o
<1>3. /\ d.mem = o.mem /\ d.refs = o.refs /\ d.names = o.names /\ d.owns = o.owns /\ d.state = o.state
      /\ d.user = o.user /\ d.told = o.told /\ d.loop = o.loop /\ d.active = TRUE /\ d.callback = o.callback
      /\ d.child = o.child /\ d.checked = o.checked /\ d \in Handle /\ Counted(d)
  BY <1>1 DEF Handle, Counted, Account
<1> HIDE DEF d
<1>4. "timer" \notin d.owns /\ "timer" \in Owners
  BY <1>1, <1>3 DEF Held, Owners
<1>5. r \in Handle /\ Counted(r)
  BY <1>1, <1>3, <1>4, TakeKeeps
<1>6. /\ r.mem = o.mem /\ r.names = o.names /\ r.owns = o.owns \cup {"timer"} /\ r.state = o.state
      /\ r.user = o.user /\ r.told = o.told /\ r.loop = o.loop /\ r.active = TRUE
      /\ r.child = o.child /\ r.checked = o.checked
  BY <1>3 DEF Take, Handle
<1> HIDE DEF r
<1>7. Held(r, kind[x])
  BY <1>1, <1>6 DEF Held, Fresh, Started
<1>8. Unmoved(o, r)
  <2>1. o.child = "none"
    BY <1>1 DEF Held
  <2> QED  BY <1>1, <1>6, <2>1 DEF Unmoved
<1> QED  BY <1>2, <1>5, <1>7, <1>8, PythonKeeps DEF o

\* A Process whose spawn() fails is closed by its deallocation.
LEMMA SpawnFailsKeeps ==
  ASSUME Inv, NEW x \in Handles, SpawnFails(x)
  PROVE  Inv'
<1> DEFINE o == h[x]
           d == [o EXCEPT !.mem = "live", !.refs = 1, !.loop = TRUE]
           r == Decref(d)
<1>1. o \in Handle /\ Counted(o) /\ Held(o, kind[x]) /\ o.mem = "none" /\ Fresh(o) /\ kind[x] = "process"
  BY DEF Inv, TypeOK, HandleInv, SpawnFails, Held
<1>2. Update(x, r) /\ UNCHANGED <<kind, pipe, main>>
  BY DEF SpawnFails
<1> HIDE DEF o
<1>3. Cardinality({}) = 0 /\ 1 \in 0 .. MaxNames + Cardinality(Owners)
  <2>1. Cardinality(Owners) \in Nat /\ MaxNames \in Nat \ {0}
    BY OwnsCount
  <2> QED  BY <2>1, OwnsCount
<1>4. /\ d.mem = "live" /\ d.refs = 1 /\ d.names = 0 /\ d.owns = {} /\ d.state = "open"
      /\ d.user = o.user /\ d.told = o.told /\ d.loop /\ d.active = FALSE /\ d.child = "none" /\ d.checked = 0
  BY <1>1 DEF Handle, Fresh
<1>5. d \in Handle
  BY <1>1, <1>3 DEF Handle
<1> HIDE DEF d
<1>6. Owed(d)
  BY <1>3, <1>4 DEF Owed, Account
<1>7. Held(d, kind[x])
  BY <1>1, <1>4 DEF Held
<1>8. r \in Handle /\ Counted(r) /\ Held(r, kind[x]) /\ Later(d, r)
  BY <1>5, <1>6, <1>7, DecrefKeeps
<1> HIDE DEF r
<1>9. Unmoved(o, r)
  BY <1>1, <1>4, <1>8 DEF Unmoved, Later, Fresh
<1> QED  BY <1>2, <1>8, <1>9, PythonKeeps DEF o

\* Process.spawn() takes the reference for the exit callback and watches SIGCHLD.
LEMMA SpawnKeeps ==
  ASSUME Inv, NEW x \in Handles, Spawn(x)
  PROVE  Inv'
<1> DEFINE o == h[x]
           d == [o EXCEPT !.mem = "live", !.names = 1, !.loop = TRUE, !.active = TRUE, !.child = "running"]
           r == Spawned(d)
<1>1. o \in Handle /\ Counted(o) /\ Held(o, kind[x]) /\ o.mem = "none" /\ Fresh(o) /\ kind[x] = "process"
  BY DEF Inv, TypeOK, HandleInv, Spawn, Held
<1>2. h' = [h EXCEPT ![x] = r] /\ watcher' = TRUE /\ UNCHANGED <<kind, pipe, pending, main>>
  BY DEF Spawn
<1>3. Python /\ TypeOK /\ CallHolds(x) /\ CallInv
  BY DEF Spawn, Inv, CallInv
<1>4. main.handle # x
  BY <1>1, <1>3 DEF CallHolds, Calling, Python, CallInv, Fresh
<1> HIDE DEF o
<1>5. 1 \in 0 .. MaxNames /\ 1 \in 0 .. MaxNames + Cardinality(Owners) /\ Cardinality({}) = 0
  <2>1. Cardinality(Owners) \in Nat /\ MaxNames \in Nat \ {0}
    BY OwnsCount
  <2> QED  BY <2>1, OwnsCount
<1>6. /\ r.mem = "live" /\ r.refs = 2 /\ r.names = 1 /\ r.owns = {"spawned"} /\ r.state = "open"
      /\ r.loop /\ r.active = TRUE /\ r.child = "running" /\ r.checked = 0
  BY <1>1 DEF Spawned, Take, Handle, Fresh
<1>7. r \in Handle /\ Counted(r)
  <2> DEFINE e == [d EXCEPT !.refs = 1]
  <2>1. d \in Handle /\ d.owns = {} /\ d.mem = "live" /\ d.names = 1 /\ d.checked = 0
    BY <1>1, <1>5 DEF Handle, Fresh
  <2> HIDE DEF d
  <2>2. e \in Handle /\ e.owns = {} /\ e.mem = "live" /\ e.names = 1 /\ e.checked = 0 /\ e.refs = 1
    BY <1>5, <2>1 DEF Handle
  <2> HIDE DEF e
  <2>3. Counted(e) /\ "spawned" \in Owners
    BY <1>5, <2>2 DEF Counted, Account, Owners
  <2>4. r = Take(e, "spawned")
    BY DEF Spawned, e
  <2> QED  BY <2>2, <2>3, <2>4, TakeKeeps
<1> HIDE DEF r
<1>9. Held(r, kind[x])
  BY <1>1, <1>6 DEF Held, Started
<1>10. h' \in [Handles -> Handle] /\ h'[x] = r /\ \A y \in Handles : y # x => h'[y] = h[y]
  BY <1>2, <1>3, <1>7 DEF TypeOK
<1>11. TypeOK' /\ HandleInv'
  BY <1>2, <1>3, <1>7, <1>9, <1>10 DEF TypeOK, HandleInv, Inv
<1>12. CallInv'
  <2> SUFFICES ASSUME NEW y \in Handles PROVE CallHolds(y)' /\ HeldForCall(y)'
    BY <1>2, <1>3 DEF CallInv, Reaping
  <2>1. CASE y = x
    BY <2>1, <1>2, <1>4, <1>6, <1>10 DEF CallHolds, HeldForCall, Calling
  <2>2. CASE y # x
    BY <2>2, <1>2, <1>3, <1>10 DEF CallInv, CallHolds, HeldForCall, Calling
  <2> QED  BY <2>1, <2>2
<1>13. PipeInv' /\ PendingInv' /\ ChildInv'
  <2>1. PipeInv'
    BY <1>2, <1>6, <1>10 DEF Inv, PipeInv
  <2>2. ~In(pending, x)
    BY <1>1 DEF Inv, PendingInv, Fresh, o
  <2>3. PendingInv'
    BY <1>2, <1>6, <1>10, <2>2 DEF Inv, PendingInv, Reaping, Calling
  <2>4. ChildInv'
    BY <1>2, <1>6, <1>10 DEF Inv, ChildInv, Children, Unread, Reaping
  <2> QED  BY <2>1, <2>3, <2>4
<1> QED  BY <1>11, <1>12, <1>13 DEF Inv

-----------------------------------------------------------------------------
(* The world outside and the callbacks keep the invariant.                 *)

\* uv__signal_handler: the signal of an active handle goes behind the others.
LEMMA CatchKeeps ==
  ASSUME Inv, NEW x \in Handles, Catch(x)
  PROVE  Inv'
<1>1. /\ pipe' = Append(pipe, x) /\ pipe \in Seq(Handles \cup {Child}) /\ x # Child
      /\ UNCHANGED <<kind, h, watcher, pending, main>>
      /\ kind[x] = "signal" /\ h[x].active /\ Held(h[x], kind[x])
  BY DEF Catch, Inv, TypeOK, HandleInv
<1>2. h[x].state # "closed"
  BY <1>1 DEF Held
<1>3. /\ pipe' \in Seq(Handles \cup {Child}) /\ pipe' # <<>>
      /\ \A r : In(pipe', r) <=> In(pipe, r) \/ r = x
      /\ pipe # <<>> => Head(pipe') = Head(pipe) /\ \A r : In(Tail(pipe), r) => In(Tail(pipe'), r)
  BY <1>1, AppendIn
<1>4. TypeOK' /\ HandleInv' /\ PendingInv'
  BY <1>1, <1>3 DEF Inv, TypeOK, HandleInv, PendingInv, Reaping, Calling
<1>5. CallInv'
  BY <1>1, <1>3 DEF Inv, CallInv, CallHolds, HeldForCall, Calling, Reaping
<1>6. PipeInv'
  BY <1>1, <1>2, <1>3 DEF Inv, PipeInv
<1>7. ChildInv'
  <2>1. In(Unread, Child) => In(Unread', Child)
    BY <1>1, <1>3 DEF Unread, Reaping, Inv, CallInv
  <2> QED  BY <1>1, <2>1 DEF Inv, ChildInv, Children
<1> QED  BY <1>4, <1>5, <1>6, <1>7 DEF Inv

\* SIGCHLD goes behind the signals caught before, uv__chld's own included.
LEMMA ChildExitsKeeps ==
  ASSUME Inv, NEW x \in Handles, ChildExits(x)
  PROVE  Inv'
<1> DEFINE o == h[x]
           lost == watcher /\ ~Room
           r == [o EXCEPT !.child = IF lost THEN "missed" ELSE "exited"]
<1>1. /\ o \in Handle /\ Counted(o) /\ Held(o, kind[x]) /\ o.child = "running" /\ TypeOK
      /\ h' = [h EXCEPT ![x] = r] /\ pipe' = IF watcher /\ Room THEN Append(pipe, Child) ELSE pipe
      /\ UNCHANGED <<kind, watcher, pending, main>> /\ pipe \in Seq(Handles \cup {Child})
  BY DEF ChildExits, Inv, TypeOK, HandleInv
<1>2. /\ pipe' \in Seq(Handles \cup {Child}) /\ (pipe # <<>> => pipe' # <<>>)
      /\ \A y \in Handles : In(pipe', y) => In(pipe, y)
      /\ watcher /\ Room => In(pipe', Child)
      /\ \A y : In(pipe, y) => In(pipe', y)
      /\ pipe # <<>> =>
           /\ Head(pipe') = Head(pipe) /\ (watcher /\ Room => In(Tail(pipe'), Child))
           /\ \A y : In(Tail(pipe), y) => In(Tail(pipe'), y)
  <2>1. CASE watcher /\ Room
    <3>1. pipe' = Append(pipe, Child) /\ \A y \in Handles : y # Child
      BY <1>1, <2>1
    <3> QED  BY <1>1, <2>1, <3>1, AppendIn
  <2>2. CASE ~(watcher /\ Room)
    BY <1>1, <2>2
  <2> QED  BY <2>1, <2>2
<1>3. h[x] = o
  OBVIOUS
<1> HIDE DEF o
<1>4. /\ r.mem = o.mem /\ r.refs = o.refs /\ r.names = o.names /\ r.owns = o.owns /\ r.state = o.state
      /\ r.user = o.user /\ r.told = o.told /\ r.loop = o.loop /\ r.active = o.active /\ r.callback = o.callback
      /\ r.child = (IF lost THEN "missed" ELSE "exited") /\ r.checked = o.checked /\ r \in Handle
  BY <1>1 DEF Handle
<1> HIDE DEF r
<1>5. Counted(r) /\ Held(r, kind[x])
  BY <1>1, <1>4 DEF Counted, Account, Held, Fresh
<1>6. h' \in [Handles -> Handle] /\ h'[x] = r /\ \A y \in Handles : y # x => h'[y] = h[y]
  BY <1>1, <1>4 DEF TypeOK
<1>7. TypeOK' /\ HandleInv'
  BY <1>1, <1>2, <1>5, <1>6 DEF Inv, TypeOK, HandleInv
<1>8. CallInv'
  <2>1. /\ main'.handle = None <=> main'.call \in {"none", "reap"}
        /\ Reaping' => pipe' # <<>> /\ Head(pipe') = Child
    BY <1>1, <1>2 DEF Inv, CallInv, Reaping
  <2>2. ASSUME NEW y \in Handles PROVE CallHolds(y)' /\ HeldForCall(y)'
    <3>1. CallHolds(y) /\ HeldForCall(y)
      BY DEF Inv, CallInv
    <3>2. CASE y # x
      BY <1>1, <1>2, <1>6, <3>1, <3>2 DEF CallHolds, HeldForCall, Calling
    <3>3. CASE y = x
      BY <1>1, <1>2, <1>3, <1>4, <1>6, <3>1, <3>3 DEF CallHolds, HeldForCall, Calling
    <3> QED  BY <3>2, <3>3
  <2> QED  BY <2>1, <2>2 DEF CallInv
<1>9. PipeInv'
  BY <1>1, <1>2, <1>3, <1>4, <1>6 DEF Inv, PipeInv
<1>10. PendingInv'
  BY <1>1, <1>3, <1>4, <1>6 DEF Inv, PendingInv, Reaping, Calling
<1>11. ChildInv'
  <2>1. Reaping => pipe # <<>>
    BY DEF Inv, CallInv
  <2>2. /\ watcher /\ Room => In(Unread', Child)
        /\ In(Unread, Child) => In(Unread', Child)
    BY <1>1, <1>2, <2>1 DEF Unread, Reaping
  <2>3. Children(h') \subseteq Children(h) /\ \A y \in Handles : y # x => h'[y].child = h[y].child
    BY <1>1, <1>3, <1>4, <1>6 DEF Children
  <2>4. h'[x].child = "exited" /\ watcher => Room
    BY <1>4, <1>6
  <2> QED  BY <1>1, <2>2, <2>3, <2>4 DEF Inv, ChildInv, Children
<1> QED  BY <1>7, <1>8, <1>9, <1>10, <1>11 DEF Inv

\* What a callback that begins at x finds of it: the children and the signals are
\* as they were, and x is not closed while a signal waits for it.
Entered(x, r) ==
  /\ h' = [h EXCEPT ![x] = r] /\ r.child = h[x].child /\ ("spawned" \in r.owns <=> "spawned" \in h[x].owns)
  /\ r.state = h[x].state \/ (h[x].state = "closing" /\ r.state = "closed" /\ ~In(pipe, x))
  /\ UNCHANGED <<kind, pipe, watcher, pending>>

\* A callback the loop calls for a handle keeps the invariant when it is right
\* for that handle.
LEMMA EnterKeeps ==
  ASSUME Inv, Idle, NEW x \in Handles, NEW r \in Handle, Counted(r), Held(r, kind[x]), Entered(x, r),
         NEW call \in {"none", "event", "signal", "connected", "close"},
         main' = [call |-> call, handle |-> IF call = "none" THEN None ELSE x],
         CallHolds(x)', HeldForCall(x)'
  PROVE  Inv'
<1>1. /\ TypeOK /\ h' = [h EXCEPT ![x] = r] /\ r.child = h[x].child
      /\ ("spawned" \in r.owns <=> "spawned" \in h[x].owns)
      /\ UNCHANGED <<kind, pipe, watcher, pending>> /\ main.call = "none" /\ main.handle = None
      /\ main'.call = call /\ main'.handle = (IF call = "none" THEN None ELSE x) /\ x # None
  BY DEF Entered, Idle, Inv, CallInv
<1>2. h' \in [Handles -> Handle] /\ h'[x] = r /\ \A y \in Handles : y # x => h'[y] = h[y]
  BY <1>1 DEF TypeOK
<1>3. TypeOK' /\ HandleInv'
  BY <1>1, <1>2 DEF TypeOK, HandleInv, Inv, Calls
<1>4. CallInv'
  <2> SUFFICES ASSUME NEW y \in Handles, y # x PROVE CallHolds(y)' /\ HeldForCall(y)'
    BY <1>1 DEF CallInv, Reaping
  <2>1. HeldForCall(y)
    BY DEF Inv, CallInv
  <2> QED  BY <1>1, <1>2, <2>1 DEF CallHolds, HeldForCall, Calling
<1>5. pending = <<>> /\ \A y \in Handles : ~In(pending, y)
  BY <1>1, EmptyOnce DEF Inv, PendingInv, Reaping
<1>6. PipeInv'
  BY <1>1, <1>2 DEF Inv, PipeInv, Entered
<1>7. PendingInv'
  BY <1>1, <1>2, <1>5 DEF Inv, PendingInv, Entered, Calling
<1>8. ChildInv'
  BY <1>1, <1>2 DEF Inv, ChildInv, Children, Entered, Unread, Reaping
<1> QED  BY <1>3, <1>4, <1>6, <1>7, <1>8 DEF Inv

\* The references the running callback holds are on its handle's account.
LEMMA CalledHeld ==
  ASSUME NEW o \in Handle, NEW k, NEW b \in BOOLEAN, Counted(o), Held(o, k), o.active, "called" \notin o.owns,
         k \in {"poll", "fsevent", "fspoll", "signal"}
  PROVE  LET r == Take([o EXCEPT !.active = b], "called") IN
         /\ r \in Handle /\ Counted(r) /\ Held(r, k) /\ r.child = o.child /\ r.state = o.state
         /\ r.owns = o.owns \cup {"called"} /\ r.checked = o.checked /\ r.mem = "live"
<1> DEFINE d == [o EXCEPT !.active = b]
           r == Take(d, "called")
<1>1. /\ d.mem = o.mem /\ d.refs = o.refs /\ d.names = o.names /\ d.owns = o.owns /\ d.state = o.state
      /\ d.user = o.user /\ d.told = o.told /\ d.loop = o.loop /\ d.active = b /\ d.callback = o.callback
      /\ d.child = o.child /\ d.checked = o.checked /\ d \in Handle /\ Counted(d)
  BY DEF Handle, Counted, Account
<1> HIDE DEF d
<1>2. "called" \notin d.owns /\ "called" \in Owners /\ d.mem = "live"
  BY <1>1 DEF Held, Owners
<1>3. r \in Handle /\ Counted(r)
  BY <1>1, <1>2, TakeKeeps
<1>4. /\ r.mem = o.mem /\ r.names = o.names /\ r.owns = o.owns \cup {"called"} /\ r.state = o.state
      /\ r.user = o.user /\ r.told = o.told /\ r.loop = o.loop /\ r.active = b /\ r.callback = o.callback
      /\ r.child = o.child /\ r.checked = o.checked
  BY <1>1 DEF Take, Handle
<1> HIDE DEF r
<1>5. Held(r, k) /\ o.mem = "live"
  BY <1>4 DEF Held, Fresh, Started
<1> QED  BY <1>3, <1>4, <1>5 DEF r, d

\* pyuv__poll_cb, pyuv__fsevent_cb and pyuv__fspoll_cb begin.
LEMMA EventKeeps ==
  ASSUME Inv, NEW x \in Handles, Event(x)
  PROVE  Inv'
<1> DEFINE o == h[x]
<1>1. /\ Idle /\ kind[x] \in {"poll", "fsevent", "fspoll"} /\ o.active /\ TypeOK
      /\ o \in Handle /\ Counted(o) /\ Held(o, kind[x]) /\ HeldForCall(x)
      /\ UNCHANGED <<kind, pipe, watcher, pending>> /\ main' = [call |-> "event", handle |-> x]
  BY DEF Event, Run, Inv, TypeOK, HandleInv, CallInv
<1>2. "called" \notin o.owns
  BY <1>1 DEF HeldForCall, Calling, Idle
<1>3. PICK b \in BOOLEAN : h' = [h EXCEPT ![x] = Take([o EXCEPT !.active = b], "called")]
  BY DEF Event
<1> DEFINE r == Take([o EXCEPT !.active = b], "called")
<1>4. /\ r \in Handle /\ Counted(r) /\ Held(r, kind[x]) /\ r.child = o.child /\ r.state = o.state
      /\ r.owns = o.owns \cup {"called"} /\ r.checked = o.checked /\ r.mem = "live"
  BY <1>1, <1>2, CalledHeld
<1>5. h' = [h EXCEPT ![x] = r]
  BY <1>3
<1> HIDE DEF r
<1>6. h'[x] = r
  BY <1>1, <1>5 DEF TypeOK
<1>7. Entered(x, r)
  BY <1>1, <1>4, <1>5 DEF Entered
<1>8. o.state = "open"
  BY <1>1 DEF Held
<1>9. CallHolds(x)' /\ HeldForCall(x)'
  BY <1>1, <1>4, <1>6, <1>8 DEF CallHolds, HeldForCall, Calling
<1> QED  BY <1>1, <1>4, <1>7, <1>9, EnterKeeps

\* pyuv__check_signals begins.
LEMMA CheckSignalsKeeps ==
  ASSUME Inv, NEW x \in Handles, CheckSignals(x)
  PROVE  Inv'
<1> DEFINE o == h[x]
<1>1. /\ Idle /\ kind[x] = "checker" /\ o.active /\ TypeOK /\ o.checked < MaxChecked
      /\ o \in Handle /\ Counted(o) /\ Held(o, kind[x]) /\ HeldForCall(x)
      /\ UNCHANGED <<kind, pipe, watcher, pending>> /\ main' = [call |-> "event", handle |-> x]
  BY DEF CheckSignals, Run, Inv, TypeOK, HandleInv, CallInv
<1>2. PICK b \in BOOLEAN : h' = [h EXCEPT ![x].active = b]
  BY DEF CheckSignals
<1> DEFINE r == [o EXCEPT !.active = b]
<1>3. h' = [h EXCEPT ![x] = r]
  BY <1>2
<1>4. /\ r.mem = o.mem /\ r.refs = o.refs /\ r.names = o.names /\ r.owns = o.owns /\ r.state = o.state
      /\ r.user = o.user /\ r.told = o.told /\ r.loop = o.loop /\ r.active = b /\ r.callback = o.callback
      /\ r.child = o.child /\ r.checked = o.checked /\ r \in Handle
  BY <1>1 DEF Handle
<1>5. h'[x] = r
  BY <1>1, <1>3 DEF TypeOK
<1> HIDE DEF r
<1>6. Counted(r) /\ Held(r, kind[x])
  BY <1>1, <1>4 DEF Counted, Account, Held, Fresh
<1>7. Entered(x, r)
  BY <1>1, <1>3, <1>4 DEF Entered
<1>8. o.state = "open" /\ o.mem = "live"
  BY <1>1 DEF Held
<1>9. CallHolds(x)' /\ HeldForCall(x)'
  BY <1>1, <1>4, <1>5, <1>8 DEF CallHolds, HeldForCall, Calling, Idle
<1> QED  BY <1>1, <1>4, <1>6, <1>7, <1>9, EnterKeeps

\* uv__signal_event: pyuv__signal_cb begins, or nobody is told.
LEMMA DispatchKeeps ==
  ASSUME Inv, Dispatch
  PROVE  Inv'
<1>1. /\ Idle /\ pipe # <<>> /\ Head(pipe) # Child /\ TypeOK /\ pipe \in Seq(Handles \cup {Child})
      /\ UNCHANGED <<kind, watcher, pending>>
  BY DEF Dispatch, Inv, TypeOK
<1>2. /\ Tail(pipe) \in Seq(Handles \cup {Child}) /\ Head(pipe) \in Handles /\ In(pipe, Head(pipe))
      /\ \A r : In(pipe, r) <=> r = Head(pipe) \/ In(Tail(pipe), r)
  BY <1>1, TailIn
<1> PICK x \in Handles : x = Head(pipe)
  BY <1>2
<1> DEFINE o == h[x]
<1>3. o \in Handle /\ Counted(o) /\ Held(o, kind[x]) /\ HeldForCall(x) /\ kind[x] = "signal"
  BY <1>1, <1>2 DEF Inv, TypeOK, HandleInv, CallInv, PipeInv
<1>4. CASE o.active
  <2>1. h' = [h EXCEPT ![x] = Take(o, "called")] /\ main' = [call |-> "signal", handle |-> x] /\ pipe' = pipe
    BY <1>4 DEF Dispatch, Run
  <2>2. "called" \notin o.owns
    BY <1>1, <1>3 DEF HeldForCall, Calling, Idle
  <2>3. [o EXCEPT !.active = TRUE] = o
    BY <1>3, <1>4 DEF Handle
  <2> DEFINE r == Take(o, "called")
  <2>4. /\ r \in Handle /\ Counted(r) /\ Held(r, kind[x]) /\ r.child = o.child /\ r.state = o.state
        /\ r.owns = o.owns \cup {"called"} /\ r.checked = o.checked
    <3> DEFINE w == Take([o EXCEPT !.active = TRUE], "called")
    <3> HIDE DEF o
    <3>1. /\ w \in Handle /\ Counted(w) /\ Held(w, kind[x]) /\ w.child = o.child /\ w.state = o.state
          /\ w.owns = o.owns \cup {"called"} /\ w.checked = o.checked
      BY <1>3, <1>4, <2>2, CalledHeld
    <3>2. r = w
      BY <2>3
    <3> QED  BY <3>1, <3>2
  <2>5. h' = [h EXCEPT ![x] = r]
    BY <2>1
  <2> HIDE DEF r
  <2>6. h'[x] = r
    BY <1>1, <1>2, <2>5 DEF TypeOK
  <2>7. Entered(x, r)
    BY <1>1, <2>1, <2>4, <2>5 DEF Entered
  <2>8. o.state = "open"
    BY <1>3, <1>4 DEF Held
  <2>9. CallHolds(x)' /\ HeldForCall(x)'
    BY <1>1, <2>1, <2>4, <2>6, <2>8 DEF CallHolds, HeldForCall, Calling
  <2> QED  BY <1>1, <2>1, <2>4, <2>7, <2>9, EnterKeeps
<1>5. CASE ~o.active
  <2>1. pipe' = Tail(pipe) /\ UNCHANGED <<kind, h, watcher, pending, main>> /\ main.call = "none"
    BY <1>1, <1>5 DEF Dispatch, Idle
  <2>2. TypeOK' /\ HandleInv' /\ PendingInv' /\ CallInv'
    BY <1>2, <2>1 DEF Inv, TypeOK, HandleInv, PendingInv, Reaping, Calling, CallInv, CallHolds, HeldForCall
  <2>3. PipeInv'
    BY <1>2, <2>1 DEF Inv, PipeInv
  <2>4. In(Unread, Child) => In(Unread', Child)
    BY <1>1, <1>2, <2>1 DEF Unread, Reaping
  <2>5. ChildInv'
    BY <2>1, <2>4 DEF Inv, ChildInv, Children
  <2> QED  BY <2>2, <2>3, <2>5 DEF Inv
<1> QED  BY <1>4, <1>5

\* pyuv__pipe_connect_abstract_cb begins.
LEMMA ConnectedKeeps ==
  ASSUME Inv, NEW x \in Handles, Connected(x)
  PROVE  Inv'
<1>1. /\ Idle /\ "timer" \in h[x].owns /\ TypeOK /\ h[x] \in Handle
      /\ Counted(h[x]) /\ Held(h[x], kind[x]) /\ HeldForCall(x)
      /\ UNCHANGED <<kind, h, pipe, watcher, pending>> /\ main' = [call |-> "connected", handle |-> x]
  BY DEF Connected, Run, Inv, TypeOK, HandleInv, CallInv
<1>2. Entered(x, h[x])
  BY <1>1 DEF Entered, TypeOK
<1>3. CallHolds(x)' /\ HeldForCall(x)'
  BY <1>1 DEF CallHolds, HeldForCall, Calling, Idle
<1> QED  BY <1>1, <1>2, <1>3, EnterKeeps

\* pyuv__handle_close_cb begins.
LEMMA FinishCloseKeeps ==
  ASSUME Inv, NEW x \in Handles, FinishClose(x)
  PROVE  Inv'
<1> DEFINE o == h[x]
           r == [o EXCEPT !.state = "closed", !.told = TRUE]
<1>1. /\ Idle /\ o.state = "closing" /\ ~In(pipe, x) /\ o.user /\ TypeOK
      /\ o \in Handle /\ Counted(o) /\ Held(o, kind[x]) /\ HeldForCall(x)
      /\ UNCHANGED <<kind, pipe, watcher, pending>> /\ main' = [call |-> "close", handle |-> x]
      /\ h' = [h EXCEPT ![x] = r]
  BY DEF FinishClose, MayFinish, Run, Inv, TypeOK, HandleInv, CallInv
<1>2. /\ r.mem = o.mem /\ r.refs = o.refs /\ r.names = o.names /\ r.owns = o.owns /\ r.state = "closed"
      /\ r.user = o.user /\ r.told = TRUE /\ r.loop = o.loop /\ r.active = o.active /\ r.callback = o.callback
      /\ r.child = o.child /\ r.checked = o.checked /\ r \in Handle
  BY <1>1 DEF Handle
<1>3. h'[x] = r
  BY <1>1 DEF TypeOK
<1> HIDE DEF r
<1>4. Counted(r) /\ Held(r, kind[x])
  BY <1>1, <1>2 DEF Counted, Account, Held, Fresh
<1>5. Entered(x, r)
  BY <1>1, <1>2 DEF Entered
<1>6. CallHolds(x)' /\ HeldForCall(x)'
  <2>1. o.loop /\ "closing" \in o.owns
    BY <1>1 DEF Held, Fresh
  <2> QED  BY <1>1, <1>2, <1>3, <2>1 DEF CallHolds, HeldForCall, Calling, Idle
<1> QED  BY <1>1, <1>2, <1>4, <1>5, <1>6, EnterKeeps

\* pyuv__handle_dealloc_close_cb gives back what the deallocation kept.
LEMMA FinishDeallocKeeps ==
  ASSUME Inv, NEW x \in Handles, FinishDealloc(x)
  PROVE  Inv'
<1> DEFINE o == h[x]
           d == [o EXCEPT !.state = "closed"]
           g == [d EXCEPT !.owns = @ \ {"closing"}]
           r == GiveBack(d, "closing")
<1>1. /\ Idle /\ o.state = "closing" /\ ~In(pipe, x) /\ ~o.user /\ TypeOK
      /\ o \in Handle /\ Counted(o) /\ Held(o, kind[x]) /\ HeldForCall(x)
      /\ UNCHANGED <<kind, pipe, watcher, pending>> /\ main' = main
      /\ h' = [h EXCEPT ![x] = r]
  BY DEF FinishDealloc, MayFinish, Inv, TypeOK, HandleInv, CallInv
<1>2. main = [call |-> "none", handle |-> None]
  BY <1>1 DEF Idle, TypeOK, Inv, CallInv
<1>3. "closing" \in o.owns /\ o.mem # "none"
  BY <1>1 DEF Held, Fresh
<1> HIDE DEF o
<1>4. /\ d.mem = o.mem /\ d.refs = o.refs /\ d.names = o.names /\ d.owns = o.owns /\ d.state = "closed"
      /\ d.user = o.user /\ d.told = o.told /\ d.loop = o.loop /\ d.active = o.active
      /\ d.child = o.child /\ d.checked = o.checked /\ d \in Handle /\ Counted(d)
  BY <1>1 DEF Handle, Counted, Account
<1> HIDE DEF d
<1>5. /\ g.mem = o.mem /\ g.names = o.names /\ g.owns = o.owns \ {"closing"} /\ g.state = "closed"
      /\ g.user = o.user /\ g.told = o.told /\ g.loop = o.loop /\ g.active = o.active
      /\ g.child = o.child /\ g.checked = o.checked
  BY <1>4 DEF Handle
<1> HIDE DEF g
<1>6. Held(g, kind[x])
  BY <1>1, <1>5 DEF Held, Fresh
<1>7. r \in Handle /\ Counted(r) /\ Held(r, kind[x]) /\ Later(g, r)
  BY <1>3, <1>4, <1>6, GiveBackKeeps DEF g
<1> HIDE DEF r
<1>8. h'[x] = r /\ r.state = "closed" /\ r.owns = o.owns \ {"closing"} /\ r.checked = o.checked /\ r.child = o.child
  BY <1>1, <1>5, <1>7 DEF TypeOK, Later
<1>9. Entered(x, r)
  BY <1>1, <1>8 DEF Entered, o
<1>10. CallHolds(x)' /\ HeldForCall(x)'
  <2>1. "called" \notin o.owns
    BY <1>1, <1>2 DEF HeldForCall, Calling, o
  <2>2. o.checked = 0 => "pyref" \notin o.owns
    BY <1>1 DEF Held
  <2>3. "called" \notin r.owns /\ "closing" \notin r.owns /\ (r.checked = 0 => "pyref" \notin r.owns)
    BY <1>8, <2>1, <2>2
  <2>4. main'.call = "none"
    BY <1>1, <1>2
  <2> QED  BY <1>8, <2>3, <2>4 DEF CallHolds, HeldForCall, Calling
<1> QED  BY <1>1, <1>2, <1>7, <1>9, <1>10, EnterKeeps

\* A callback that has returned keeps the invariant when it leaves its handle's
\* account right and nothing on it for a callback.
LEMMA LeaveKeeps ==
  ASSUME Inv, NEW x \in Handles, main.handle = x, main.call \in {"event", "signal", "connected", "close"},
         NEW r \in Handle, Update(x, r), Counted(r), Held(r, kind[x]), Run("none", None), UNCHANGED kind,
         r.child = h[x].child, "spawned" \in r.owns <=> "spawned" \in h[x].owns,
         r.state = h[x].state \/ (h[x].state = "open" /\ r.state = "closing"),
         "called" \notin r.owns,
         r.state = "closed" => "closing" \notin r.owns /\ (r.checked = 0 => "pyref" \notin r.owns),
         pipe' = IF main.call = "signal" THEN Tail(pipe) ELSE pipe
  PROVE  Inv'
<1>1. /\ TypeOK /\ Once(pending) /\ ~Reaping /\ main.call \in {"event", "signal", "connected", "close"}
      /\ main'.call = "none" /\ main'.handle = None /\ main' \in [call : Calls, handle : Handles \cup {None}]
      /\ CallHolds(x)
  BY DEF Inv, PendingInv, Reaping, Run, Calls, CallInv
<1>2. /\ h' \in [Handles -> Handle] /\ h'[x] = r /\ \A y \in Handles : y # x => h'[y] = h[y]
      /\ pending' \in Seq(Handles) /\ Once(pending')
      /\ \A y : In(pending', y) => In(pending, y)
      /\ \A y : In(pending, y) /\ (y # x \/ r.state = h[x].state) => In(pending', y)
      /\ pending' # <<>> => pending # <<>>
      /\ watcher' \in BOOLEAN /\ (watcher /\ Children(h') # {} => watcher')
  BY <1>1, UpdateLists
<1>3. pending = <<>> /\ pending' = <<>> /\ \A y : ~In(pending, y)
  BY <1>1, <1>2, EmptyOnce DEF Inv, PendingInv
<1>4. /\ pipe' \in Seq(Handles \cup {Child}) /\ (In(pipe, Child) => In(pipe', Child))
      /\ \A y : In(pipe', y) => In(pipe, y)
  <2>1. pipe \in Seq(Handles \cup {Child}) /\ x # Child
    BY <1>1 DEF TypeOK
  <2>2. CASE main.call = "signal"
    <3>1. pipe # <<>> /\ Head(pipe) = x /\ pipe' = Tail(pipe)
      BY <1>1, <2>2 DEF CallHolds, Calling
    <3> QED  BY <2>1, <3>1, TailIn
  <2>3. CASE main.call # "signal"
    BY <2>1, <2>3
  <2> QED  BY <2>2, <2>3
<1>5. TypeOK' /\ HandleInv'
  BY <1>1, <1>2, <1>4 DEF Inv, TypeOK, HandleInv
<1>6. CallInv'
  <2> SUFFICES ASSUME NEW y \in Handles PROVE CallHolds(y)' /\ HeldForCall(y)'
    BY <1>1 DEF CallInv, Reaping
  <2>1. CASE y = x
    BY <1>1, <1>2, <2>1 DEF CallHolds, HeldForCall, Calling
  <2>2. CASE y # x
    <3>1. HeldForCall(y)
      BY DEF Inv, CallInv
    <3> QED  BY <1>1, <1>2, <2>2, <3>1 DEF CallHolds, HeldForCall, Calling
  <2> QED  BY <2>1, <2>2
<1>7. PipeInv'
  BY <1>2, <1>4 DEF Inv, PipeInv
<1>8. PendingInv'
  <2>1. \A y \in Handles : ~Calling("exit", y)
    BY <1>1 DEF Reaping, Calling
  <2>2. \A y \in Handles : ~(h[y].child = "reaped" /\ h[y].state = "open" /\ "spawned" \in h[y].owns)
    BY <1>3, <2>1 DEF Inv, PendingInv
  <2>3. \A y \in Handles : ~(h'[y].child = "reaped" /\ h'[y].state = "open" /\ "spawned" \in h'[y].owns)
    BY <1>2, <2>2
  <2> QED  BY <1>2, <1>3, <2>3 DEF PendingInv
<1>9. ChildInv'
  <2>1. In(Unread, Child) => In(Unread', Child)
    BY <1>1, <1>4 DEF Unread, Reaping
  <2>2. \A y \in Children(h') : y \in Children(h) /\ h'[y].child = h[y].child
    BY <1>2 DEF Children
  <2> QED  BY <1>2, <2>1, <2>2 DEF Inv, ChildInv
<1> QED  BY <1>5, <1>6, <1>7, <1>8, <1>9 DEF Inv

\* PYUV_HANDLE_DECREF of what is held for a callback.
LEMMA GivenBack ==
  ASSUME NEW o \in Handle, NEW k, NEW owner \in o.owns, owner \in {"called", "timer"},
         Counted(o), Held(o, k)
  PROVE  LET r == GiveBack(o, owner) IN
         /\ r \in Handle /\ Counted(r) /\ Held(r, k) /\ r.child = o.child /\ r.checked = o.checked
         /\ \/ r.state = o.state /\ r.owns = o.owns \ {owner}
            \/ o.state = "open" /\ r.state = "closing" /\ r.owns = (o.owns \ {owner}) \cup {"closing"}
<1> DEFINE g == [o EXCEPT !.owns = @ \ {owner}]
           r == GiveBack(o, owner)
<1>1. /\ g.mem = o.mem /\ g.names = o.names /\ g.owns = o.owns \ {owner} /\ g.state = o.state
      /\ g.user = o.user /\ g.told = o.told /\ g.loop = o.loop /\ g.active = o.active /\ g.callback = o.callback
      /\ g.child = o.child /\ g.checked = o.checked
  BY DEF Handle
<1> HIDE DEF g
<1>2. o.mem # "none"
  BY DEF Held, Fresh
<1>3. Held(g, k)
  BY <1>1, <1>2 DEF Held, Fresh
<1>4. r \in Handle /\ Counted(r) /\ Held(r, k) /\ Later(g, r)
  BY <1>2, <1>3, GiveBackKeeps DEF g
<1> HIDE DEF r
<1>5. /\ r.child = o.child /\ r.checked = o.checked
      /\ \/ r.state = o.state /\ r.owns = o.owns \ {owner}
         \/ o.state = "open" /\ r.state = "closing" /\ r.owns = (o.owns \ {owner}) \cup {"closing"}
  BY <1>1, <1>4 DEF Later
<1> QED  BY <1>4, <1>5 DEF r

\* pyuv__poll_cb, pyuv__fsevent_cb, pyuv__fspoll_cb and pyuv__signal_cb return.
LEMMA LeaveCalledKeeps ==
  ASSUME Inv, LeaveEvent \/ LeaveSignal
  PROVE  Inv'
<1>1. /\ main.call \in {"event", "signal"} /\ main.handle # None /\ TypeOK /\ CallInv
      /\ (main.call = "event" => kind[main.handle] # "checker")
  BY DEF LeaveEvent, LeaveSignal, Inv, CallInv
<1> PICK x \in Handles : x = main.handle
  BY <1>1 DEF TypeOK
<1> DEFINE o == h[x]
           r == GiveBack(o, "called")
<1>2. /\ Update(x, r) /\ Run("none", None) /\ UNCHANGED kind
      /\ pipe' = IF main.call = "signal" THEN Tail(pipe) ELSE pipe
  BY DEF LeaveEvent, LeaveSignal
<1>3. o \in Handle /\ Counted(o) /\ Held(o, kind[x]) /\ "called" \in o.owns /\ HeldForCall(x)
  BY <1>1 DEF Inv, TypeOK, HandleInv, CallInv, CallHolds, Calling
<1>4. /\ r \in Handle /\ Counted(r) /\ Held(r, kind[x]) /\ r.child = o.child /\ r.checked = o.checked
      /\ \/ r.state = o.state /\ r.owns = o.owns \ {"called"}
         \/ o.state = "open" /\ r.state = "closing" /\ r.owns = (o.owns \ {"called"}) \cup {"closing"}
  BY <1>3, GivenBack
<1> HIDE DEF r
<1>5. r.state = "closed" => "closing" \notin r.owns /\ (r.checked = 0 => "pyref" \notin r.owns)
  BY <1>1, <1>3, <1>4 DEF HeldForCall, Calling
<1> QED  BY <1>1, <1>2, <1>4, <1>5, LeaveKeeps

\* pyuv__pipe_connect_abstract_cb returns.
LEMMA LeaveConnectedKeeps ==
  ASSUME Inv, LeaveConnected
  PROVE  Inv'
<1>1. main.call = "connected" /\ main.handle # None /\ TypeOK /\ CallInv
  BY DEF LeaveConnected, Inv, CallInv
<1> PICK x \in Handles : x = main.handle
  BY <1>1 DEF TypeOK
<1> DEFINE o == h[x]
           r == GiveBack(o, "timer")
<1>2. Update(x, r) /\ Run("none", None) /\ UNCHANGED <<kind, pipe>>
  BY DEF LeaveConnected
<1>3. o \in Handle /\ Counted(o) /\ Held(o, kind[x]) /\ "timer" \in o.owns /\ HeldForCall(x)
  BY <1>1 DEF Inv, TypeOK, HandleInv, CallInv, CallHolds, Calling
<1> HIDE DEF o
<1>4. /\ r \in Handle /\ Counted(r) /\ Held(r, kind[x]) /\ r.child = o.child /\ r.checked = o.checked
      /\ \/ r.state = o.state /\ r.owns = o.owns \ {"timer"}
         \/ o.state = "open" /\ r.state = "closing" /\ r.owns = (o.owns \ {"timer"}) \cup {"closing"}
  BY <1>3, GivenBack
<1> HIDE DEF r
<1>5. /\ "called" \notin r.owns
      /\ r.state = "closed" => "closing" \notin r.owns /\ (r.checked = 0 => "pyref" \notin r.owns)
  BY <1>1, <1>3, <1>4 DEF HeldForCall, Calling, o
<1> QED  BY <1>1, <1>2, <1>4, <1>5, LeaveKeeps DEF o

\* pyuv__check_signals returns: a reference is dropped that was not on the account.
LEMMA LeaveCheckSignalsKeeps ==
  ASSUME Inv, LeaveCheckSignals
  PROVE  Inv'
<1>1. main.call = "event" /\ main.handle # None /\ kind[main.handle] = "checker" /\ TypeOK /\ CallInv
  BY DEF LeaveCheckSignals, Inv, CallInv
<1> PICK x \in Handles : x = main.handle
  BY <1>1 DEF TypeOK
<1> DEFINE o == h[x]
           d == [o EXCEPT !.checked = @ + 1]
           r == Decref(d)
<1>2. Update(x, r) /\ Run("none", None) /\ UNCHANGED <<kind, pipe>>
  BY DEF LeaveCheckSignals
<1>3. /\ o \in Handle /\ Counted(o) /\ Held(o, kind[x]) /\ HeldForCall(x)
      /\ o.checked < MaxChecked /\ o.state # "closed"
  BY <1>1 DEF Inv, TypeOK, HandleInv, CallInv, CallHolds, Calling
<1>4. /\ o.checked \in 0 .. MaxChecked /\ o.names \in Nat /\ o.refs \in Nat /\ MaxChecked \in Nat
      /\ Cardinality(o.owns) \in Nat
  BY <1>3, OwnsCount DEF Handle
<1>5. o.checked + 1 \in 0 .. MaxChecked
  BY <1>3, <1>4
<1> HIDE DEF o
<1>6. /\ d.mem = o.mem /\ d.refs = o.refs /\ d.names = o.names /\ d.owns = o.owns /\ d.state = o.state
      /\ d.user = o.user /\ d.told = o.told /\ d.loop = o.loop /\ d.active = o.active /\ d.callback = o.callback
      /\ d.child = o.child /\ d.checked = o.checked + 1 /\ d \in Handle
  BY <1>3, <1>5 DEF Handle
<1> HIDE DEF d
<1>7. Owed(d)
  <2>1. o.mem # "none"
    BY <1>1 DEF CallInv, CallHolds, Calling, o
  <2> QED  BY <1>3, <1>4, <1>6, <2>1 DEF Owed, Counted, Account, Handle
<1>8. Held(d, kind[x])
  <2>1. o.mem # "none" /\ kind[x] = "checker"
    BY <1>1 DEF CallInv, CallHolds, Calling, o
  <2>2. d.checked # 0 /\ d.checked > 0
    BY <1>4, <1>6
  <2> QED  BY <1>3, <1>6, <2>1, <2>2 DEF Held
<1>9. r \in Handle /\ Counted(r) /\ Held(r, kind[x]) /\ Later(d, r)
  BY <1>6, <1>7, <1>8, DecrefKeeps
<1> HIDE DEF r
<1>10. /\ "called" \notin r.owns /\ r.state # "closed" /\ r.child = o.child
       /\ ("spawned" \in r.owns <=> "spawned" \in o.owns)
       /\ r.state = o.state \/ (o.state = "open" /\ r.state = "closing")
  <2>1. "called" \notin o.owns
    BY <1>1, <1>3 DEF Held
  <2> QED  BY <1>3, <1>6, <1>9, <2>1 DEF Later
<1> QED  BY <1>1, <1>2, <1>9, <1>10, LeaveKeeps DEF o

\* pyuv__handle_close_cb returns: PYREF and the reference of close() go.
LEMMA LeaveCloseKeeps ==
  ASSUME Inv, LeaveClose
  PROVE  Inv'
<1>1. main.call = "close" /\ main.handle # None /\ TypeOK /\ CallInv
  BY DEF LeaveClose, Inv, CallInv
<1> PICK x \in Handles : x = main.handle
  BY <1>1 DEF TypeOK
<1> DEFINE o == [h[x] EXCEPT !.loop = FALSE]
           d == [o EXCEPT !.owns = @ \ {"pyref"}]
           p == GiveBack(o, "pyref")
           g == [p EXCEPT !.owns = @ \ {"closing"}]
           r == GiveBack(p, "closing")
<1>2. Update(x, r) /\ Run("none", None) /\ UNCHANGED <<kind, pipe>>
  BY DEF LeaveClose
<1>3. /\ o \in Handle /\ Counted(o) /\ Held(o, kind[x]) /\ o.child = h[x].child /\ o.owns = h[x].owns
      /\ o.state = "closed" /\ h[x].state = "closed" /\ "closing" \in o.owns /\ o.user
  <2>1. h[x] \in Handle /\ Counted(h[x]) /\ Held(h[x], kind[x]) /\ CallHolds(x)
    BY DEF Inv, TypeOK, HandleInv, CallInv
  <2>2. h[x].state = "closed" /\ "closing" \in h[x].owns /\ h[x].user
    BY <1>1, <2>1 DEF CallHolds, Calling
  <2>3. /\ o.mem = h[x].mem /\ o.refs = h[x].refs /\ o.names = h[x].names /\ o.owns = h[x].owns /\ o.state = h[x].state
        /\ o.user = h[x].user /\ o.told = h[x].told /\ o.active = h[x].active /\ o.callback = h[x].callback
        /\ o.child = h[x].child /\ o.checked = h[x].checked /\ o \in Handle
    BY <2>1 DEF Handle
  <2> HIDE DEF o
  <2>4. Counted(o) /\ Held(o, kind[x])
    BY <2>1, <2>2, <2>3 DEF Counted, Account, Held, Fresh
  <2> QED  BY <2>2, <2>3, <2>4
<1>4. "called" \notin o.owns
  <2>1. HeldForCall(x)
    BY DEF Inv, CallInv
  <2> QED  BY <1>1, <1>3, <2>1 DEF HeldForCall, Calling
<1> HIDE DEF o
<1>5. o.mem # "none"
  BY <1>3 DEF Held, Fresh
<1>6. /\ d.mem = o.mem /\ d.names = o.names /\ d.owns = o.owns \ {"pyref"} /\ d.state = "closed"
      /\ d.user = o.user /\ d.told = o.told /\ d.loop = o.loop /\ d.active = o.active /\ d.callback = o.callback
      /\ d.child = o.child /\ d.checked = o.checked
  BY <1>3 DEF Handle
<1> HIDE DEF d
<1>7. Held(d, kind[x])
  BY <1>3, <1>5, <1>6 DEF Held, Fresh
<1>8. /\ p \in Handle /\ Counted(p) /\ Held(p, kind[x]) /\ p.mem # "none" /\ p.owns = o.owns \ {"pyref"}
      /\ p.state = "closed" /\ p.child = o.child /\ p.checked = o.checked /\ p.user = o.user /\ p.told = o.told
  <2>1. CASE "pyref" \in o.owns
    <3>1. p \in Handle /\ Counted(p) /\ Held(p, kind[x]) /\ Later(d, p)
      BY <1>3, <1>5, <1>7, <2>1, GiveBackKeeps DEF d
    <3> QED  BY <1>6, <3>1 DEF Later
  <2>2. CASE "pyref" \notin o.owns
    <3>1. p = o
      BY <2>2 DEF GiveBack
    <3>2. o.owns = o.owns \ {"pyref"}
      BY <2>2
    <3> HIDE DEF p
    <3> QED  BY <1>3, <1>5, <3>1, <3>2
  <2> QED  BY <2>1, <2>2
<1> HIDE DEF p
<1>9. /\ g.mem = p.mem /\ g.names = p.names /\ g.owns = p.owns \ {"closing"} /\ g.state = "closed"
      /\ g.user = p.user /\ g.told = p.told /\ g.active = p.active /\ g.callback = p.callback
      /\ g.child = p.child /\ g.checked = p.checked
  BY <1>8 DEF Handle
<1> HIDE DEF g
<1>10. Held(g, kind[x])
  BY <1>8, <1>9 DEF Held, Fresh
<1>11. r \in Handle /\ Counted(r) /\ Held(r, kind[x]) /\ Later(g, r)
  <2>1. "closing" \in p.owns
    BY <1>3, <1>8
  <2> QED  BY <1>8, <1>10, <2>1, GiveBackKeeps DEF g
<1> HIDE DEF r
<1>12. /\ r.state = "closed" /\ r.owns = (o.owns \ {"pyref"}) \ {"closing"} /\ r.child = o.child
  BY <1>8, <1>9, <1>11 DEF Later
<1>13. /\ "called" \notin r.owns /\ "closing" \notin r.owns /\ "pyref" \notin r.owns
       /\ ("spawned" \in r.owns <=> "spawned" \in o.owns)
  BY <1>4, <1>12
<1> QED  BY <1>1, <1>2, <1>3, <1>11, <1>12, <1>13, LeaveKeeps

\* uv__chld waits for the children that have exited: they are the pending list.
LEMMA ReapKeeps ==
  ASSUME Inv, Reap
  PROVE  Inv'
<1>1. /\ Idle /\ main.call = "none" /\ main.handle = None /\ pipe # <<>> /\ Head(pipe) = Child /\ TypeOK
      /\ pipe \in Seq(Handles \cup {Child}) /\ UNCHANGED <<kind, watcher>>
  BY DEF Reap, Idle, Inv, TypeOK, CallInv
<1>2. /\ Tail(pipe) \in Seq(Handles \cup {Child})
      /\ \A r : In(pipe, r) <=> r = Child \/ In(Tail(pipe), r)
  BY <1>1, TailIn
<1>3. CASE ~watcher
  <2>1. pipe' = Tail(pipe) /\ UNCHANGED <<kind, h, watcher, pending, main>>
    BY <1>1, <1>3 DEF Reap
  <2>2. TypeOK' /\ HandleInv' /\ PendingInv' /\ CallInv'
    BY <1>1, <1>2, <2>1 DEF Inv, TypeOK, HandleInv, PendingInv, Reaping, Calling, CallInv, CallHolds, HeldForCall
  <2>3. PipeInv' /\ ChildInv'
    BY <1>2, <1>3, <2>1 DEF Inv, PipeInv, ChildInv, Children
  <2> QED  BY <2>2, <2>3 DEF Inv
<1>4. CASE watcher
  <2> DEFINE exited == {x \in Children(h) : h[x].child \in {"exited", "missed"}}
  <2>1. /\ pending' \in Orders(exited) /\ pipe' = pipe /\ main' = [call |-> "reap", handle |-> None]
        /\ h' = [x \in Handles |-> IF x \in exited THEN [h[x] EXCEPT !.child = "reaped"] ELSE h[x]]
    BY <1>1, <1>4 DEF Reap, Run
  <2>2. \A x \in exited : x \in Handles /\ h[x].child \in {"exited", "missed"} /\ h[x].state = "open"
    BY DEF Children
  <2>3. \A x \in Handles : h[x].child = "exited" /\ h[x].state = "open" => x \in exited
    BY DEF Children
  <2>4. pending' \in Seq(Handles) /\ Once(pending') /\ \A x : In(pending', x) <=> x \in exited
    <3>1. exited \subseteq Handles
      BY <2>2
    <3> DEFINE n == Cardinality(exited)
    <3>2. IsFiniteSet(exited) /\ n \in Nat
      BY <3>1, FS_Subset, FS_CardinalityType
    <3>3. pending' \in [1 .. n -> exited] /\ \A x \in exited : In(pending', x)
      BY <2>1 DEF Orders
    <3> HIDE DEF exited
    <3>4. DOMAIN pending' = 1 .. n /\ \A i \in 1 .. n : pending'[i] \in exited
      BY <3>3
    <3>5. \A x : In(pending', x) <=> x \in exited
      BY <3>3, <3>4 DEF In
    <3>6. IsFiniteSet(1 .. n) /\ Cardinality(1 .. n) = n
      BY <3>2, FS_Interval
    <3>7. pending' \in Surjection(1 .. n, exited)
      BY <3>3, <3>4 DEF Surjection, In
    <3>8. Once(pending')
      BY <3>2, <3>4, <3>6, <3>7, FS_SurjSameCardinalityImpliesInj DEF Injection, IsInjective, Once
    <3>9. pending' \in Seq(Handles)
      BY <3>1, <3>2, <3>3
    <3> QED  BY <3>5, <3>8, <3>9
  <2> HIDE DEF exited
  <2>5. \A x \in Handles : h[x] \in Handle
    BY <1>1 DEF TypeOK
  <2>6. ASSUME NEW x \in Handles
        PROVE  /\ h'[x] \in Handle /\ h'[x].mem = h[x].mem /\ h'[x].refs = h[x].refs /\ h'[x].names = h[x].names
               /\ h'[x].owns = h[x].owns /\ h'[x].state = h[x].state /\ h'[x].user = h[x].user
               /\ h'[x].told = h[x].told /\ h'[x].loop = h[x].loop /\ h'[x].active = h[x].active /\ h'[x].callback = h[x].callback
               /\ h'[x].checked = h[x].checked
               /\ h'[x].child = IF x \in exited THEN "reaped" ELSE h[x].child
    <3>1. h'[x] = IF x \in exited THEN [h[x] EXCEPT !.child = "reaped"] ELSE h[x]
      BY <2>1
    <3> QED  BY <2>5, <3>1 DEF Handle
  <2>7. TypeOK'
    <3>1. h' \in [Handles -> Handle]
      BY <2>1, <2>6
    <3> QED  BY <1>1, <2>1, <2>4, <3>1 DEF TypeOK, Calls
  <2>8. HandleInv'
    <3> SUFFICES ASSUME NEW x \in Handles PROVE Counted(h'[x]) /\ Held(h'[x], kind[x])
      BY <1>1 DEF HandleInv
    <3>1. Counted(h[x]) /\ Held(h[x], kind[x])
      BY DEF Inv, HandleInv
    <3>2. Counted(h'[x])
      BY <2>6, <3>1 DEF Counted, Account
    <3>3. Held(h'[x], kind[x])
      BY <2>2, <2>6, <3>1 DEF Held, Fresh
    <3> QED  BY <3>2, <3>3
  <2>9. CallInv'
    <3> SUFFICES ASSUME NEW x \in Handles PROVE CallHolds(x)' /\ HeldForCall(x)'
      BY <1>1, <2>1 DEF CallInv, Reaping
    <3>1. HeldForCall(x)
      BY DEF Inv, CallInv
    <3> QED  BY <1>1, <2>1, <2>6, <3>1 DEF CallHolds, HeldForCall, Calling
  <2>10. PipeInv'
    BY <1>1, <2>1, <2>6 DEF Inv, PipeInv
  <2>11. PendingInv'
    <3>1. Reaping'
      BY <2>1 DEF Reaping
    <3>2. \A x \in Handles : In(pending', x) => h'[x].child = "reaped" /\ "spawned" \in h'[x].owns /\ h'[x].state # "closed"
      BY <2>2, <2>4, <2>6 DEF Inv, HandleInv, Held
    <3>3. \A x \in Handles : ~(h[x].child = "reaped" /\ h[x].state = "open" /\ "spawned" \in h[x].owns)
      BY <1>1, EmptyOnce DEF Inv, PendingInv, Reaping, Calling
    <3>4. \A x \in Handles :
            h'[x].child = "reaped" /\ h'[x].state = "open" /\ "spawned" \in h'[x].owns => In(pending', x)
      BY <2>4, <2>6, <3>3
    <3> QED  BY <2>4, <3>1, <3>2, <3>4 DEF PendingInv
  <2>12. ChildInv'
    <3>1. \A x \in Children(h') : x \in Children(h) /\ h'[x].child # "exited"
      BY <2>3, <2>6 DEF Children
    <3> QED  BY <1>1, <3>1 DEF Inv, ChildInv
  <2> QED  BY <2>7, <2>8, <2>9, <2>10, <2>11, <2>12 DEF Inv
<1> QED  BY <1>3, <1>4

\* The handle of the first child of the list is stopped, closed or not, and
\* pyuv__process_exit_cb begins.
LEMMA ExitKeeps ==
  ASSUME Inv, Exit
  PROVE  Inv'
<1>1. /\ main.call = "reap" /\ main.handle = None /\ pending # <<>> /\ TypeOK /\ Once(pending)
      /\ pending \in Seq(Handles) /\ pending' = Tail(pending) /\ UNCHANGED <<kind, pipe, watcher>>
      /\ pipe # <<>> /\ Head(pipe) = Child
  BY DEF Exit, Inv, TypeOK, PendingInv, CallInv, Reaping
<1>2. /\ Head(pending) \in Handles /\ In(pending, Head(pending))
      /\ Tail(pending) \in Seq(Handles) /\ Once(Tail(pending))
      /\ \A r : In(Tail(pending), r) <=> In(pending, r) /\ r # Head(pending)
  BY <1>1, TailOnce
<1> PICK x \in Handles : x = Head(pending)
  BY <1>2
<1> DEFINE o == h[x]
           r == [o EXCEPT !.active = FALSE]
<1>3. /\ h' = [h EXCEPT ![x] = r] /\ main' = [call |-> "exit", handle |-> x]
  BY DEF Exit, Run
<1>4. /\ o \in Handle /\ Counted(o) /\ Held(o, kind[x]) /\ o.child = "reaped" /\ "spawned" \in o.owns /\ o.state # "closed"
  BY <1>1, <1>2 DEF Inv, TypeOK, HandleInv, PendingInv
<1>5. kind[x] = "process"
  BY <1>4 DEF Held
<1>6. "timer" \notin o.owns \/ o.state # "open"
  BY <1>4, <1>5 DEF Held
<1> HIDE DEF o
<1>7. /\ r.mem = o.mem /\ r.refs = o.refs /\ r.names = o.names /\ r.owns = o.owns /\ r.state = o.state
      /\ r.user = o.user /\ r.told = o.told /\ r.loop = o.loop /\ r.active = FALSE /\ r.callback = o.callback
      /\ r.child = o.child /\ r.checked = o.checked /\ r \in Handle
  BY <1>4 DEF Handle
<1> HIDE DEF r
<1>8. Counted(r) /\ Held(r, kind[x])
  BY <1>4, <1>6, <1>7 DEF Counted, Account, Held, Fresh
<1>9. h' \in [Handles -> Handle] /\ h'[x] = r /\ \A y \in Handles : y # x => h'[y] = h[y]
  BY <1>1, <1>3, <1>7 DEF TypeOK
<1>10. TypeOK' /\ HandleInv'
  BY <1>1, <1>2, <1>3, <1>8, <1>9 DEF Inv, TypeOK, HandleInv, Calls
<1>11. CallInv'
  <2> SUFFICES ASSUME NEW y \in Handles PROVE CallHolds(y)' /\ HeldForCall(y)'
    BY <1>1, <1>3 DEF CallInv, Reaping
  <2>1. HeldForCall(y)
    BY DEF Inv, CallInv
  <2>2. CASE y = x
    BY <1>1, <1>2, <1>3, <1>4, <1>7, <1>9, <2>1, <2>2 DEF CallHolds, HeldForCall, Calling, o
  <2>3. CASE y # x
    BY <1>1, <1>3, <1>9, <2>1, <2>3 DEF CallHolds, HeldForCall, Calling
  <2> QED  BY <2>2, <2>3
<1>12. PipeInv'
  BY <1>1, <1>7, <1>9 DEF Inv, PipeInv, o
<1>13. PendingInv'
  <2>1. Reaping' /\ Calling("exit", x)'
    BY <1>3 DEF Reaping, Calling
  <2>2. \A y \in Handles : In(pending', y) => y # x /\ In(pending, y)
    BY <1>1, <1>2
  <2>3. \A y \in Handles : y # x /\ In(pending, y) => In(pending', y)
    BY <1>1, <1>2
  <2>4. \A y \in Handles : ~Calling("exit", y)
    BY <1>1 DEF Calling
  <2>5. \A y \in Handles : In(pending', y) => h'[y].child = "reaped" /\ "spawned" \in h'[y].owns /\ h'[y].state # "closed"
    BY <1>9, <2>2 DEF Inv, PendingInv
  <2>6. \A y \in Handles :
          h'[y].child = "reaped" /\ h'[y].state = "open" /\ "spawned" \in h'[y].owns =>
            In(pending', y) \/ Calling("exit", y)'
    BY <1>9, <2>1, <2>3, <2>4 DEF Inv, PendingInv
  <2> QED  BY <1>1, <1>2, <2>1, <2>5, <2>6 DEF PendingInv
<1>14. ChildInv'
  <2>1. Unread' = Unread
    BY <1>1, <1>3 DEF Unread, Reaping
  <2>2. \A y \in Children(h') : y \in Children(h) /\ h'[y].child = h[y].child
    BY <1>4, <1>7, <1>9 DEF Children, o
  <2> QED  BY <1>1, <2>1, <2>2 DEF Inv, ChildInv
<1> QED  BY <1>10, <1>11, <1>12, <1>13, <1>14 DEF Inv

\* pyuv__process_exit_cb gives back what spawn() took.
LEMMA LeaveExitKeeps ==
  ASSUME Inv, LeaveExit
  PROVE  Inv'
<1>1. /\ main.call = "exit" /\ main.handle # None /\ TypeOK /\ Once(pending) /\ CallInv
      /\ UNCHANGED <<kind, pipe>> /\ main' = [call |-> "reap", handle |-> None]
  BY DEF LeaveExit, Run, Inv, PendingInv, CallInv
<1> PICK x \in Handles : x = main.handle
  BY <1>1 DEF TypeOK
<1> DEFINE o == h[x]
           d == [o EXCEPT !.owns = @ \ {"spawned"}]
           r == GiveBack(o, "spawned")
<1>2. Update(x, r)
  BY DEF LeaveExit
<1>3. /\ o \in Handle /\ Counted(o) /\ Held(o, kind[x]) /\ HeldForCall(x)
      /\ o.child = "reaped" /\ "spawned" \in o.owns /\ ~In(pending, x)
  BY <1>1 DEF Inv, TypeOK, HandleInv, CallInv, CallHolds, Calling
<1>4. ~o.active /\ kind[x] = "process"
  BY <1>1, <1>3 DEF CallInv, CallHolds, Calling, Held
<1> HIDE DEF o
<1>5. /\ d.mem = o.mem /\ d.names = o.names /\ d.owns = o.owns \ {"spawned"} /\ d.state = o.state
      /\ d.user = o.user /\ d.told = o.told /\ d.loop = o.loop /\ d.active = FALSE /\ d.callback = o.callback
      /\ d.child = o.child /\ d.checked = o.checked
  BY <1>3, <1>4 DEF Handle
<1> HIDE DEF d
<1>6. o.mem # "none" /\ ("timer" \in o.owns => o.state # "open")
  BY <1>3, <1>4 DEF Held, Fresh
<1>7. Held(d, kind[x])
  BY <1>3, <1>5, <1>6 DEF Held, Fresh
<1>8. r \in Handle /\ Counted(r) /\ Held(r, kind[x]) /\ Later(d, r)
  BY <1>3, <1>6, <1>7, GiveBackKeeps DEF d
<1> HIDE DEF r
<1>9. /\ r.child = o.child /\ r.checked = o.checked
      /\ \/ r.state = o.state /\ r.owns = o.owns \ {"spawned"}
         \/ o.state = "open" /\ r.state = "closing" /\ r.owns = (o.owns \ {"spawned"}) \cup {"closing"}
  BY <1>5, <1>8 DEF Later
<1>10. /\ h' \in [Handles -> Handle] /\ h'[x] = r /\ \A y \in Handles : y # x => h'[y] = h[y]
       /\ pending' \in Seq(Handles) /\ Once(pending')
       /\ \A y : In(pending', y) => In(pending, y)
       /\ \A y : In(pending, y) /\ (y # x \/ r.state = h[x].state) => In(pending', y)
       /\ watcher' \in BOOLEAN /\ (watcher /\ Children(h') # {} => watcher')
  BY <1>1, <1>2, <1>8, UpdateLists
<1>11. TypeOK' /\ HandleInv'
  BY <1>1, <1>8, <1>10 DEF Inv, TypeOK, HandleInv, Calls
<1>12. CallInv'
  <2> SUFFICES ASSUME NEW y \in Handles PROVE CallHolds(y)' /\ HeldForCall(y)'
    BY <1>1 DEF CallInv, Reaping
  <2>1. HeldForCall(y)
    BY <1>1 DEF CallInv
  <2>2. CASE y = x
    BY <1>1, <1>3, <1>9, <1>10, <2>2 DEF CallHolds, HeldForCall, Calling, o
  <2>3. CASE y # x
    BY <1>1, <1>10, <2>1, <2>3 DEF CallHolds, HeldForCall, Calling
  <2> QED  BY <2>2, <2>3
<1>13. PipeInv'
  BY <1>1, <1>9, <1>10 DEF Inv, PipeInv, o
<1>14. PendingInv'
  <2>1. Reaping'
    BY <1>1 DEF Reaping
  <2>2. \A y \in Handles : In(pending', y) => y # x /\ In(pending, y)
    BY <1>3, <1>10
  <2>3. \A y \in Handles : y # x /\ In(pending, y) => In(pending', y)
    BY <1>10
  <2>4. "spawned" \notin h'[x].owns /\ \A y \in Handles : y # x => ~Calling("exit", y)
    BY <1>1, <1>9, <1>10 DEF Calling
  <2>5. \A y \in Handles : In(pending', y) => h'[y].child = "reaped" /\ "spawned" \in h'[y].owns /\ h'[y].state # "closed"
    BY <1>10, <2>2 DEF Inv, PendingInv
  <2>6. \A y \in Handles :
          h'[y].child = "reaped" /\ h'[y].state = "open" /\ "spawned" \in h'[y].owns => In(pending', y)
    BY <1>10, <2>3, <2>4 DEF Inv, PendingInv
  <2> QED  BY <1>10, <2>1, <2>5, <2>6 DEF PendingInv
<1>15. ChildInv'
  <2>1. Unread' = Unread
    BY <1>1 DEF Unread, Reaping
  <2>2. \A y \in Children(h') : y \in Children(h) /\ h'[y].child = h[y].child
    BY <1>3, <1>9, <1>10 DEF Children, o
  <2> QED  BY <1>10, <2>1, <2>2 DEF Inv, ChildInv
<1> QED  BY <1>11, <1>12, <1>13, <1>14, <1>15 DEF Inv

\* uv__chld returns and its message counts as dispatched.
LEMMA ReapDoneKeeps ==
  ASSUME Inv, ReapDone
  PROVE  Inv'
<1>1. /\ main.call = "reap" /\ main.handle = None /\ pending = <<>> /\ TypeOK /\ CallInv
      /\ pipe # <<>> /\ Head(pipe) = Child /\ pipe \in Seq(Handles \cup {Child}) /\ pipe' = Tail(pipe)
      /\ UNCHANGED <<kind, h, watcher, pending>> /\ main' = [call |-> "none", handle |-> None]
  BY DEF ReapDone, Run, Inv, TypeOK, CallInv, Reaping
<1>2. /\ Tail(pipe) \in Seq(Handles \cup {Child})
      /\ \A r : In(pipe, r) <=> r = Child \/ In(Tail(pipe), r)
  BY <1>1, TailIn
<1>3. TypeOK' /\ HandleInv'
  BY <1>1, <1>2 DEF Inv, TypeOK, HandleInv, Calls
<1>4. CallInv'
  BY <1>1 DEF CallInv, CallHolds, HeldForCall, Calling, Reaping
<1>5. PipeInv'
  BY <1>1, <1>2 DEF Inv, PipeInv
<1>6. PendingInv'
  BY <1>1 DEF Inv, PendingInv, Reaping, Calling
<1>7. Unread' = Unread
  BY <1>1 DEF Unread, Reaping
<1>8. ChildInv'
  BY <1>1, <1>7 DEF Inv, ChildInv, Children
<1> QED  BY <1>3, <1>4, <1>5, <1>6, <1>8 DEF Inv

-----------------------------------------------------------------------------
(* The theorems.                                                           *)

\* Nothing is created, caught or called.
LEMMA InitHolds == Init => Inv
<1> SUFFICES ASSUME Init PROVE Inv
  OBVIOUS
<1>1. /\ kind \in Casts /\ pipe = <<>> /\ pending = <<>> /\ watcher = FALSE
      /\ main = [call |-> "none", handle |-> None]
  BY DEF Init
<1>2. Cardinality(Owners) \in Nat /\ 0 \in 0 .. MaxNames + Cardinality(Owners) /\ 0 \in 0 .. MaxNames
      /\ 0 \in 0 .. MaxChecked
  <2>1. Cardinality(Owners) \in Nat /\ MaxNames \in Nat /\ MaxChecked \in Nat
    BY OwnsCount
  <2> QED  BY <2>1
<1>3. ASSUME NEW x \in Handles
      PROVE  h[x] \in Handle /\ h[x].mem = "none" /\ h[x].refs = 0 /\ Fresh(h[x]) /\ h[x].state = "open"
  BY <1>2 DEF Init, Handle, Fresh
<1>4. TypeOK
  <2>1. h \in [Handles -> Handle]
    BY <1>3 DEF Init
  <2> QED  BY <1>1, <2>1, EmptyOnce DEF TypeOK, Calls
<1>5. HandleInv
  BY <1>3 DEF HandleInv, Counted, Held, Fresh
<1>6. CallInv
  BY <1>1, <1>3 DEF CallInv, CallHolds, HeldForCall, Calling, Reaping, Fresh
<1>7. PipeInv /\ PendingInv /\ ChildInv
  BY <1>1, <1>3, EmptyOnce DEF PipeInv, PendingInv, ChildInv, Children, Reaping, Fresh
<1> QED  BY <1>4, <1>5, <1>6, <1>7 DEF Inv

\* Every call of Python, event, message and callback keeps the account.
LEMMA StepKeeps == Inv /\ [Next]_vars => Inv'
<1> SUFFICES ASSUME Inv, [Next]_vars PROVE Inv'
  OBVIOUS
<1>1. ASSUME NEW x \in Handles,
             \/ PollStart(x) \/ SignalStart(x) \/ FSEventStart(x) \/ FSPollStart(x) \/ CheckerStart(x)
      PROVE  Inv'
  BY <1>1, StartKeeps DEF PollStart, SignalStart, FSEventStart, FSPollStart, CheckerStart
<1>2. ASSUME NEW x \in Handles,
             \/ PollStop(x) \/ SignalStop(x) \/ FSEventStop(x) \/ FSPollStop(x) \/ CheckerStop(x)
      PROVE  Inv'
  BY <1>2, StopKeeps DEF PollStop, SignalStop, FSEventStop, FSPollStop, CheckerStop
<1>3. ASSUME NEW x \in Handles,
             \/ Create(x) \/ Spawn(x) \/ SpawnFails(x) \/ ConnectAbstract(x)
             \/ Close(x) \/ KeepName(x) \/ DropName(x)
      PROVE  Inv'
  BY <1>3, CreateKeeps, SpawnKeeps, SpawnFailsKeeps, ConnectAbstractKeeps, CloseKeeps, KeepNameKeeps, DropNameKeeps
<1>4. ASSUME NEW x \in Handles,
             \/ Catch(x) \/ ChildExits(x) \/ Event(x) \/ CheckSignals(x) \/ Connected(x)
             \/ FinishClose(x) \/ FinishDealloc(x)
      PROVE  Inv'
  BY <1>4, CatchKeeps, ChildExitsKeeps, EventKeeps, CheckSignalsKeeps, ConnectedKeeps, FinishCloseKeeps,
     FinishDeallocKeeps
<1>5. CASE LeaveEvent \/ LeaveCheckSignals \/ Dispatch \/ LeaveSignal \/ LeaveConnected \/ LeaveClose
  BY <1>5, LeaveCalledKeeps, LeaveCheckSignalsKeeps, DispatchKeeps, LeaveConnectedKeeps, LeaveCloseKeeps
<1>6. CASE Reap \/ Exit \/ LeaveExit \/ ReapDone
  BY <1>6, ReapKeeps, ExitKeeps, LeaveExitKeeps, ReapDoneKeeps
<1>7. CASE UNCHANGED vars
  BY <1>7 DEF vars, Inv, TypeOK, HandleInv, CallInv, CallHolds, HeldForCall, Calling, Reaping, PipeInv,
     PendingInv, ChildInv, Children, Unread
<1> QED  BY <1>1, <1>2, <1>3, <1>4, <1>5, <1>6, <1>7 DEF Next

\* The account holds whenever the program is looked at.
LEMMA InvHolds == Spec => []Inv
BY InitHolds, StepKeeps, PTL DEF Spec

\* TypeOK: the variables of src/poll.c, signal.c, fs.c, util.c and process.c keep
\* their types; no count goes below zero or above what can be owed.
THEOREM TypeCorrect == Spec => []TypeOK
<1>1. Inv => TypeOK
  BY DEF Inv
<1> QED  BY <1>1, InvHolds, PTL

\* RefsExact: Py_INCREF and Py_DECREF balance, whatever is started, stopped,
\* spawned, connected, closed and dropped from whichever callback, but for the
\* reference pyuv__check_signals drops.
THEOREM CountsExact == Spec => []RefsExact
<1>1. Inv => RefsExact
  BY DEF Inv, HandleInv, Counted, Account, RefsExact
<1> QED  BY <1>1, InvHolds, PTL

\* What a callback other than that of an abstract connection finds in self->loop.
LEMMA LoopOfCall ==
  ASSUME Inv, NEW x \in Handles, main.handle = x, main.call # "connected"
  PROVE  h[x].loop
<1>1. /\ TypeOK /\ Held(h[x], kind[x]) /\ CallHolds(x) /\ CallInv /\ PipeInv
      /\ pipe \in Seq(Handles \cup {Child})
  BY DEF Inv, TypeOK, HandleInv, CallInv
<1>2. main.call \in {"event", "signal", "exit", "close"}
  BY <1>1 DEF CallInv, TypeOK, Calls
<1>3. Calling("signal", x) => In(pipe, x)
  BY <1>1, TailIn DEF CallHolds
<1>4. main.call # "close" => h[x].state # "closed" /\ h[x].mem # "none"
  BY <1>1, <1>2, <1>3 DEF CallHolds, Calling, PipeInv, Held, Fresh
<1> QED  BY <1>1, <1>2, <1>4 DEF CallHolds, Calling, Held

\* NoDangling: no signal, list of children, variable or callback names freed
\* memory, what is active is held and has its callback, and callbacks find the Loop.
THEOREM NothingDangles == Spec => []NoDangling
<1>1. Inv => NoDangling
  <2> SUFFICES ASSUME Inv, NEW x \in Handles, h[x].checked = 0
               PROVE  /\ h[x].active /\ kind[x] # "pipe" => h[x].owns \cap {"pyref", "spawned"} # {}
                      /\ h[x].active /\ kind[x] \in Started \ {"checker"} => h[x].callback
                      /\ h[x].mem = "freed" =>
                           /\ h[x].names = 0 /\ h[x].owns = {} /\ h[x].state = "closed" /\ ~h[x].active
                           /\ ~In(pipe, x) /\ ~In(pending, x) /\ main.handle # x
                      /\ main.handle = x /\ main.call # "connected" => h[x].loop
    BY DEF NoDangling
  <2>1. TypeOK /\ Held(h[x], kind[x]) /\ CallHolds(x) /\ CallInv /\ kind[x] \in Kinds \cup {"absent"}
    BY DEF Inv, TypeOK, HandleInv, CallInv
  <2>2. h[x].active /\ kind[x] # "pipe" => h[x].owns \cap {"pyref", "spawned"} # {}
    BY <2>1 DEF Held, Kinds, Fresh
  <2>3. h[x].active /\ kind[x] \in Started \ {"checker"} => h[x].callback
    BY <2>1 DEF Held
  <2>4. ASSUME h[x].mem = "freed"
        PROVE  /\ h[x].names = 0 /\ h[x].owns = {} /\ h[x].state = "closed" /\ ~h[x].active
               /\ ~In(pipe, x) /\ ~In(pending, x)
    BY <2>1, <2>4 DEF Held, Inv, PipeInv, PendingInv
  <2>5. ASSUME h[x].mem = "freed", main.handle = x PROVE FALSE
    <3>1. main.call \in {"event", "signal", "exit", "connected", "close"}
      BY <2>1, <2>5 DEF CallInv, TypeOK, Calls
    <3>2. h[x].owns = {} /\ h[x].state = "closed"
      BY <2>4, <2>5
    <3> QED  BY <2>1, <2>5, <3>1, <3>2 DEF CallHolds, Calling
  <2>6. main.handle = x /\ main.call # "connected" => h[x].loop
    BY LoopOfCall
  <2> QED  BY <2>2, <2>3, <2>4, <2>5, <2>6
<1> QED  BY <1>1, InvHolds, PTL

\* ExitsReported: no exit of the child of an open handle is missed, however
\* signals, closes and callbacks fall, and a closed handle holds nothing that
\* will not be given back but for an exit that is not reported any more.
THEOREM NoExitMissed == Spec => []ExitsReported
<1>1. Inv => ExitsReported
  <2> SUFFICES ASSUME Inv, NEW x \in Handles
               PROVE  /\ x \in Children(h) => watcher /\ (h[x].child = "exited" => In(pipe, Child))
                      /\ "spawned" \in h[x].owns /\ h[x].child = "reaped" /\ h[x].state = "open" =>
                           In(pending, x) \/ (main.call = "exit" /\ main.handle = x)
                      /\ h[x].state = "closed" /\ main.handle # x /\ h[x].checked = 0 =>
                           /\ h[x].owns \subseteq {"spawned", "timer"}
                           /\ "spawned" \in h[x].owns => h[x].user
    BY DEF ExitsReported
  <2>1. /\ TypeOK /\ CallInv /\ h[x] \in Handle /\ Held(h[x], kind[x]) /\ HeldForCall(x)
        /\ pipe \in Seq(Handles \cup {Child})
    BY DEF Inv, TypeOK, HandleInv, CallInv
  <2>2. In(Unread, Child) => In(pipe, Child)
    <3>1. CASE Reaping
      BY <2>1, <3>1, TailIn DEF Unread, CallInv
    <3>2. CASE ~Reaping
      BY <3>2 DEF Unread
    <3> QED  BY <3>1, <3>2
  <2>3. x \in Children(h) => watcher /\ (h[x].child = "exited" => In(pipe, Child))
    BY <2>2 DEF Inv, ChildInv
  <2>4. "spawned" \in h[x].owns /\ h[x].child = "reaped" /\ h[x].state = "open" =>
          In(pending, x) \/ (main.call = "exit" /\ main.handle = x)
    BY DEF Inv, PendingInv, Calling
  <2>5. ASSUME h[x].state = "closed", main.handle # x, h[x].checked = 0
        PROVE  h[x].owns \subseteq {"spawned", "timer"} /\ ("spawned" \in h[x].owns => h[x].user)
    <3>1. "called" \notin h[x].owns /\ "closing" \notin h[x].owns /\ "pyref" \notin h[x].owns
      BY <2>1, <2>5 DEF HeldForCall, Calling
    <3>2. h[x].owns \subseteq Owners
      BY <2>1 DEF Handle
    <3>3. ~h[x].user => h[x].owns \subseteq {"closing"}
      BY <2>1, <2>5 DEF Held
    <3> QED  BY <3>1, <3>2, <3>3 DEF Owners
  <2> QED  BY <2>3, <2>4, <2>5
<1> QED  BY <1>1, InvHolds, PTL

\* FreedAfterCallback, the comment of Handle_tp_dealloc: it is true of every
\* handle but a SignalChecker, whose callback drops a reference it has not taken.
THEOREM ClosedBeforeFreed ==
  ASSUME \A cast \in Casts : \A x \in Handles : cast[x] # "checker"
  PROVE  Spec => []FreedAfterCallback
<1>1. Inv => FreedAfterCallback
  <2> SUFFICES ASSUME Inv, NEW x \in Handles, h[x].mem = "freed", h[x].user PROVE h[x].told
    BY DEF FreedAfterCallback
  <2>1. Held(h[x], kind[x]) /\ kind[x] # "checker" /\ h[x].checked \in Nat
    BY DEF Inv, TypeOK, HandleInv, Handle
  <2>2. h[x].checked = 0
    BY <2>1 DEF Held
  <2> QED  BY <2>1, <2>2 DEF Held
<1> QED  BY <1>1, InvHolds, PTL

\* ExcepthookFound: among handles other than SignalCheckers, which may be freed in
\* their callback, only a pipe connected to an abstract name is without its Loop in
\* a callback.
THEOREM LoopInCallbacks ==
  ASSUME \A cast \in Casts : \A x \in Handles : cast[x] \notin {"checker", "pipe"}
  PROVE  Spec => []ExcepthookFound
<1>1. Inv => ExcepthookFound
  <2> SUFFICES ASSUME Inv, main.handle # None PROVE h[main.handle].loop
    BY DEF ExcepthookFound
  <2>1. main.handle \in Handles /\ kind \in Casts /\ HandleInv /\ CallInv
    BY DEF Inv, TypeOK
  <2>2. main.call # "connected"
    <3>1. main.call = "connected" => "timer" \in h[main.handle].owns
      BY <2>1 DEF CallInv, CallHolds, Calling
    <3>2. "timer" \in h[main.handle].owns => kind[main.handle] = "pipe"
      BY <2>1 DEF HandleInv, Held, Fresh
    <3> QED  BY <2>1, <3>1, <3>2
  <2> QED  BY <2>1, <2>2, LoopOfCall
<1> QED  BY <1>1, InvHolds, PTL
=============================================================================
