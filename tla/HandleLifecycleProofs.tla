------------------------ MODULE HandleLifecycleProofs ------------------------
(***************************************************************************)
(* Proofs about HandleLifecycle, for any set of handles.                   *)
(*                                                                         *)
(* What a step does to one handle is a function on views, so the invariant *)
(* has a part that speaks of one handle only (Good) and lemmas say how the *)
(* functions keep it; the rest of the invariant ties the handles to the    *)
(* loop's lists and to the running callback.                               *)
(***************************************************************************)
EXTENDS HandleLifecycle, SequenceTheorems, FiniteSetTheorems, TLAPS

Views == [o : Object, u : UvHandle, l : LoopObject]

\* The callback that runs for h.
KindOf(h) == IF cb.handle = h THEN cb.kind ELSE "none"

\* The owners of references to a handle, as in References(h).
Owed(o, u, k) ==
  o.users + One(o.pyref) + One(o.cycle) + One(u.state = "closing" \/ k = "close")
    + One(k = "fire")

\* Consistency of one handle h whose running callback is of kind k, its
\* reference count and its pointer to the loop aside.
Sound(h, o, u, k) ==
  /\ o.mem \in {"absent", "freed"} =>
       o.users = 0 /\ ~o.pyref /\ ~o.cycle /\ k = "none" /\ u.state \in {"zeroed", "closed"}
  /\ o.initialized <=> u.state # "zeroed"
  /\ o.mem = "absent" => ~o.initialized
  /\ u.active => u.state = "open"
  /\ u.state = "open" /\ h \in Asyncs => u.active
  /\ u.closeCb = "none" <=> u.state \in {"zeroed", "open"}
  /\ u.state = "zeroed" => ~o.pyref
  /\ u.state = "closing" /\ u.closeCb = "dealloc" => ~o.pyref
  /\ u.state = "closed" /\ k # "close" => ~o.pyref
  /\ k = "close" => u.state = "closed" /\ u.closeCb = "user"
  /\ k = "fire" => u.state \in {"open", "closing"}
  /\ u.active /\ h \in Watchers => o.pyref

Counts(o, u, k) ==
  IF o.mem = "live" THEN o.refcnt = Owed(o, u, k) /\ o.refcnt > 0 ELSE o.refcnt = 0

\* Who may still need self->loop finds it.
HasLoop(o, u, k) ==
  u.state = "open" \/ (u.state = "closing" /\ u.closeCb = "user") \/ k # "none"
    => o.loop = "loop"

Good(h, o, u, k) == Sound(h, o, u, k) /\ HasLoop(o, u, k) /\ Counts(o, u, k)

\* A view in which one reference has been given up but not yet dropped.
Owing(h, v, k) ==
  /\ v \in Views /\ v.o.mem = "live"
  /\ Sound(h, v.o, v.u, k) /\ (HasLoop(v.o, v.u, k) \/ v.o.refcnt = 1)
  /\ v.o.refcnt = Owed(v.o, v.u, k) + 1

Control ==
  /\ cb.kind = "none" <=> cb.handle = NoHandle
  /\ phase = "out" => cb.kind = "none"
  /\ phase # "closing" => batch = <<>>
  /\ cb.kind = "close" => phase = "closing"

IInv ==
  /\ TypeOK
  /\ \A h \in Handles : Good(h, obj[h], uv[h], KindOf(h))
  /\ \A h \in loop.todo : uv[h].active
  /\ ClosingListed
  /\ Control
  /\ CloseCallbackOnce

\* h is closed in this step by Handle_tp_dealloc.
Resurrected(h) == uv[h].closeCb # "dealloc" /\ uv'[h].closeCb = "dealloc"

\* No step reopens a handle that is closing or closed, and Handle_tp_dealloc
\* closes one only when nothing refers to it.
Final ==
  \A h \in Handles :
    /\ Closing(uv[h]) => Closing(uv'[h])
    /\ Resurrected(h) => obj'[h].users = 0 /\ cb'.handle # h /\ ~obj'[h].pyref

-----------------------------------------------------------------------------
(* The closing lists.                                                      *)

\* closing_handles stays a list without repetitions when uv_close puts a new
\* handle at its head.
LEMMA PushList ==
  ASSUME NEW S, NEW s \in Seq(S), NEW h \in S
  PROVE  /\ <<h>> \o s \in Seq(S)
         /\ \A x : InList(x, <<h>> \o s) <=> x = h \/ InList(x, s)
         /\ Distinct(s) /\ ~InList(h, s) => Distinct(<<h>> \o s)
<1> DEFINE t == <<h>> \o s
<1>1. /\ t \in Seq(S) /\ Len(s) \in Nat /\ Len(t) = Len(s) + 1
      /\ t[1] = h
      /\ \A i \in 1..Len(s) : t[i + 1] = s[i]
      /\ \A i \in 2..Len(t) : t[i] = s[i - 1] /\ i - 1 \in 1..Len(s)
  OBVIOUS
<1> HIDE DEF t
<1>2. \A x : InList(x, t) <=> x = h \/ InList(x, s)
  <2> TAKE x
  <2>1. ASSUME InList(x, t) PROVE x = h \/ InList(x, s)
    BY <1>1, <2>1 DEF InList
  <2>2. ASSUME x = h \/ InList(x, s) PROVE InList(x, t)
    <3>1. CASE x = h
      BY <1>1, <3>1 DEF InList
    <3>2. CASE InList(x, s)
      <4>1. PICK i \in 1..Len(s) : s[i] = x
        BY <3>2 DEF InList
      <4>2. i + 1 \in 1..Len(t) /\ t[i + 1] = x
        BY <1>1, <4>1
      <4> QED BY <4>2 DEF InList
    <3> QED BY <2>2, <3>1, <3>2
  <2> QED BY <2>1, <2>2
<1>3. ASSUME Distinct(s), ~InList(h, s) PROVE Distinct(t)
  <2>1. ASSUME NEW i \in 2..Len(t) PROVE t[i] # h
    BY <1>1, <1>3 DEF InList
  <2>2. ASSUME NEW i \in 2..Len(t), NEW j \in 2..Len(t), t[i] = t[j] PROVE i = j
    <3>1. s[i - 1] = s[j - 1]
      BY <1>1, <2>2
    <3>2. i - 1 = j - 1
      BY <1>1, <1>3, <3>1 DEF Distinct
    <3> QED BY <3>2
  <2> SUFFICES ASSUME NEW i \in 1..Len(t), NEW j \in 1..Len(t), t[i] = t[j] PROVE i = j
    BY DEF Distinct
  <2>3. (i = 1 \/ i \in 2..Len(t)) /\ (j = 1 \/ j \in 2..Len(t))
    BY <1>1
  <2> QED BY <1>1, <2>1, <2>2, <2>3
<1> QED BY <1>1, <1>2, <1>3 DEF t

\* Taking the first handle off the batch of uv__run_closing_handles removes it
\* and nothing else.
LEMMA PopList ==
  ASSUME NEW S, NEW s \in Seq(S), s # <<>>
  PROVE  /\ Tail(s) \in Seq(S) /\ Head(s) \in S
         /\ InList(Head(s), s)
         /\ \A x : InList(x, Tail(s)) => InList(x, s)
         /\ \A x : InList(x, s) => x = Head(s) \/ InList(x, Tail(s))
         /\ Distinct(s) => Distinct(Tail(s)) /\ ~InList(Head(s), Tail(s))
<1> DEFINE t == Tail(s)
<1>1. /\ t \in Seq(S) /\ Len(t) \in Nat /\ Len(s) = Len(t) + 1
      /\ Head(s) = s[1] /\ Head(s) \in S
      /\ \A i \in 1..Len(t) : t[i] = s[i + 1]
  OBVIOUS
<1> HIDE DEF t
<1>2. \A x : InList(x, t) => InList(x, s)
  BY <1>1 DEF InList
<1>3. \A x : InList(x, s) => x = Head(s) \/ InList(x, t)
  <2> TAKE x
  <2> HAVE InList(x, s)
  <2>1. PICK i \in 1..Len(s) : s[i] = x
    BY DEF InList
  <2>2. CASE i = 1
    BY <1>1, <2>1, <2>2
  <2>3. CASE i # 1
    <3>1. i - 1 \in 1..Len(t) /\ t[i - 1] = s[(i - 1) + 1]
      BY <1>1, <2>1, <2>3
    <3> QED BY <2>1, <3>1 DEF InList
  <2> QED BY <2>2, <2>3
<1>4. InList(Head(s), s)
  BY <1>1 DEF InList
<1>5. Distinct(s) => Distinct(t) /\ ~InList(Head(s), t)
  BY <1>1 DEF Distinct, InList
<1> QED BY <1>1, <1>2, <1>3, <1>4, <1>5 DEF t

\* No handle is in the empty list.
LEMMA EmptyList ==
  ASSUME NEW S
  PROVE  <<>> \in Seq(S) /\ Distinct(<<>>) /\ \A x : ~InList(x, <<>>)
BY DEF Distinct, InList

-----------------------------------------------------------------------------
(* What the functions on views do.                                         *)

\* SetFlags keeps the types and changes the uv_handle_t and the active count only.
LEMMA FlagsView ==
  ASSUME NEW v \in Views, NEW u \in UvHandle
  PROVE  LET w == SetFlags(v, u) IN
         /\ w \in Views /\ w.o = v.o /\ w.u = u
         /\ w.l.closing = v.l.closing /\ w.l.todo = v.l.todo
<1> DEFINE a == IF Counted(v.u) = Counted(u) THEN v.l.active
                ELSE IF Counted(u) THEN v.l.active + 1 ELSE v.l.active - 1
           l == [v.l EXCEPT !.active = a]
<1>1. v.l \in LoopObject /\ v.o \in Object
  BY DEF Views
<1>2. a \in Int
  BY <1>1 DEF LoopObject
<1>3. SetFlags(v, u) = [v EXCEPT !.u = u, !.l.active = a]
  BY DEF SetFlags
<1> HIDE DEF a
<1>4. l \in LoopObject /\ l.closing = v.l.closing /\ l.todo = v.l.todo
  BY <1>1, <1>2 DEF LoopObject
<1>5. SetFlags(v, u) = [o |-> v.o, u |-> u, l |-> l]
  BY <1>3 DEF Views
<1> HIDE DEF l
<1> QED BY <1>1, <1>4, <1>5 DEF Views

\* uv__handle_start keeps the types and leaves the object alone.
LEMMA StartView ==
  ASSUME NEW v \in Views
  PROVE  LET w == UvStart(v) IN
         /\ w \in Views /\ w.o = v.o /\ w.u = [v.u EXCEPT !.active = TRUE]
         /\ w.l.closing = v.l.closing /\ w.l.todo = v.l.todo
<1>1. [v.u EXCEPT !.active = TRUE] \in UvHandle
  BY DEF Views, UvHandle
<1> QED BY <1>1, FlagsView DEF UvStart

\* uv_timer_stop and its twins make the handle inactive and leave the object alone.
LEMMA StopView ==
  ASSUME NEW v \in Views, NEW h \in Handles
  PROVE  LET w == UvStop(h, v) IN
         /\ w \in Views /\ w.o = v.o /\ w.u = [v.u EXCEPT !.active = FALSE]
         /\ w.l.closing = v.l.closing /\ w.l.todo = v.l.todo \ {h}
<1> DEFINE w == SetFlags(v, [v.u EXCEPT !.active = FALSE])
<1>1. [v.u EXCEPT !.active = FALSE] \in UvHandle
  BY DEF Views, UvHandle
<1>2. /\ w \in Views /\ w.o = v.o /\ w.u = [v.u EXCEPT !.active = FALSE]
      /\ w.l.closing = v.l.closing /\ w.l.todo = v.l.todo
  BY <1>1, FlagsView
<1> HIDE DEF w
<1>3. UvStop(h, v) = [w EXCEPT !.l.todo = @ \ {h}]
  BY DEF UvStop, w
<1> DEFINE l == [w.l EXCEPT !.todo = @ \ {h}]
<1>4. l \in LoopObject /\ l.closing = w.l.closing /\ l.todo = w.l.todo \ {h}
  BY <1>2 DEF Views, LoopObject
<1>5. UvStop(h, v) = [o |-> w.o, u |-> w.u, l |-> l]
  BY <1>2, <1>3 DEF Views
<1> HIDE DEF l
<1>6. w.o \in Object /\ w.u \in UvHandle
  BY <1>2 DEF Views
<1>7. UvStop(h, v) \in Views
  BY <1>4, <1>5, <1>6 DEF Views
<1>8. UvStop(h, v).o = w.o /\ UvStop(h, v).u = w.u /\ UvStop(h, v).l = l
  BY <1>5
<1> QED BY <1>2, <1>4, <1>7, <1>8

\* uv_close leaves an inactive closing handle at the head of closing_handles.
LEMMA CloseView ==
  ASSUME NEW v \in Views, NEW h \in Handles, NEW c \in {"user", "dealloc"}
  PROVE  LET w == UvClose(h, v, c) IN
         /\ w \in Views /\ w.o = v.o
         /\ w.u = [v.u EXCEPT !.active = FALSE, !.state = "closing", !.closeCb = c]
         /\ w.l.closing = <<h>> \o v.l.closing /\ w.l.todo = v.l.todo \ {h}
<1> DEFINE w == UvStop(h, v)
<1>1. /\ w \in Views /\ w.o = v.o /\ w.u = [v.u EXCEPT !.active = FALSE]
      /\ w.l.closing = v.l.closing /\ w.l.todo = v.l.todo \ {h}
  BY StopView
<1> HIDE DEF w
<1>2. v.l.closing \in Seq(Handles)
  BY DEF Views, LoopObject
<1>3. <<h>> \o v.l.closing \in Seq(Handles)
  BY <1>2
<1>4. UvClose(h, v, c) = [w EXCEPT !.u.state = "closing", !.u.closeCb = c, !.l.closing = <<h>> \o @]
  BY DEF UvClose, w
<1> DEFINE l == [w.l EXCEPT !.closing = <<h>> \o @]
           u == [w.u EXCEPT !.state = "closing", !.closeCb = c]
<1>5. l \in LoopObject /\ l.closing = <<h>> \o w.l.closing /\ l.todo = w.l.todo
  BY <1>1, <1>3 DEF Views, LoopObject
<1>6. u \in UvHandle
      /\ u = [v.u EXCEPT !.active = FALSE, !.state = "closing", !.closeCb = c]
  BY <1>1 DEF Views, UvHandle
<1>7. UvClose(h, v, c) = [o |-> w.o, u |-> u, l |-> l]
  BY <1>1, <1>4 DEF Views
<1> HIDE DEF l, u
<1> QED BY <1>1, <1>5, <1>6, <1>7 DEF Views

\* Py_DECREF(loop) keeps the type of the Loop object.
LEMMA LoopDecrefType ==
  ASSUME NEW l \in LoopObject
  PROVE  LET m == LoopDecref(l) IN
         m \in LoopObject /\ m.closing = l.closing /\ m.todo = l.todo
<1> DEFINE mem == IF l.refcnt = 1 THEN "freed" ELSE l.mem
<1>1. mem \in {"live", "freed"} /\ l.refcnt - 1 \in Int
  BY DEF LoopObject
<1>2. LoopDecref(l) = [l EXCEPT !.refcnt = @ - 1, !.mem = mem]
  BY DEF LoopDecref
<1> HIDE DEF mem
<1> QED BY <1>1, <1>2 DEF LoopObject

\* Dropping self->loop changes that pointer and the Loop object only.
LEMMA DropLoopView ==
  ASSUME NEW v \in Views, NEW p \in {"null", "None"}
  PROVE  LET w == DropLoop(v, p) IN
         /\ w \in Views /\ w.o = [v.o EXCEPT !.loop = p] /\ w.u = v.u
         /\ w.l.closing = v.l.closing /\ w.l.todo = v.l.todo
<1> DEFINE l == IF v.o.loop = "loop" THEN LoopDecref(v.l) ELSE v.l
           o == [v.o EXCEPT !.loop = p]
<1>0. v.l \in LoopObject /\ v.o \in Object /\ v.u \in UvHandle
  BY DEF Views
<1>1. l \in LoopObject /\ l.closing = v.l.closing /\ l.todo = v.l.todo
  BY <1>0, LoopDecrefType
<1>2. o \in Object
  BY <1>0 DEF Object
<1>3. DropLoop(v, p) = [o |-> o, u |-> v.u, l |-> l]
  <2> HIDE DEF l
  <2>1. DropLoop(v, p) = [v EXCEPT !.o.loop = p, !.l = l]
    BY DEF DropLoop, l
  <2> QED BY <2>1 DEF Views
<1> HIDE DEF l, o
<1>4. DropLoop(v, p) \in Views
  BY <1>1, <1>2, <1>3 DEF Views
<1> QED BY <1>1, <1>3, <1>4 DEF o

Kinds == {"none", "fire", "close"}

\* w is v one reference later: less one reference, freed, or closed and resurrected.
Dropped(h, v, w, k) ==
  /\ w \in Views
  /\ Good(h, w.o, w.u, k)
  /\ \/ w.u = v.u /\ w.l.closing = v.l.closing /\ w.l.todo = v.l.todo
     \/ /\ v.u.state = "open" /\ w.u.state = "closing" /\ w.u.closeCb = "dealloc"
        /\ ~w.u.active /\ k = "none" /\ w.o.users = 0 /\ ~w.o.pyref
        /\ w.l.closing = <<h>> \o v.l.closing /\ w.l.todo = v.l.todo \ {h}

\* Dropping the reference that a consistent handle owes leaves it consistent.
LEMMA DecrefView ==
  ASSUME NEW h \in Handles, NEW k \in Kinds, NEW v, Owing(h, v, k)
  PROVE  Dropped(h, v, Decref(h, v), k)
<1> DEFINE w == Decref(h, v)
<1> USE DEF Owing, Dropped
<1>1. CASE v.o.refcnt # 1
  <2>1. w = [v EXCEPT !.o.refcnt = @ - 1]
    BY <1>1 DEF Decref
  <2>2. /\ w \in Views /\ w.u = v.u /\ w.l = v.l
        /\ w.o = [v.o EXCEPT !.refcnt = @ - 1]
    BY <2>1, <1>1 DEF Views, Object, Owed, One
  <2>3. Owed(w.o, w.u, k) = Owed(v.o, v.u, k) /\ w.o.refcnt = Owed(w.o, w.u, k)
    BY <2>2 DEF Owed, Views, Object, One
  <2>4. Sound(h, w.o, w.u, k) /\ HasLoop(w.o, w.u, k)
    BY <2>2, <1>1 DEF Sound, HasLoop, Views, Object
  <2>5. w.o.refcnt > 0
    BY <2>2, <1>1 DEF Views, Object, Owed, One
  <2> QED BY <2>2, <2>3, <2>4, <2>5 DEF Good, Counts
<1>2. CASE v.o.refcnt = 1
  <2>1. v.o.users = 0 /\ ~v.o.pyref /\ ~v.o.cycle /\ k = "none" /\ v.u.state # "closing"
    BY <1>2 DEF Owed, One, Views, Object, Kinds
  <2>2. CASE v.o.initialized /\ ~Closing(v.u)
    <3> DEFINE c == UvClose(h, v, "dealloc")
    <3>1. /\ c \in Views /\ c.o = v.o
          /\ c.u = [v.u EXCEPT !.active = FALSE, !.state = "closing", !.closeCb = "dealloc"]
          /\ c.l.closing = <<h>> \o v.l.closing /\ c.l.todo = v.l.todo \ {h}
      BY CloseView
    <3> HIDE DEF c
    <3>2. w = [c EXCEPT !.o.refcnt = 1]
      BY <1>2, <2>2 DEF Decref, Dealloc, c
    <3>3. /\ w \in Views /\ w.u = c.u /\ w.l = c.l /\ w.o = v.o
      BY <3>1, <3>2, <1>2 DEF Views, Object
    <3>4. v.u.state = "open"
      BY <2>2 DEF Closing, Sound, Views, UvHandle
    <3>5. Sound(h, w.o, w.u, k) /\ HasLoop(w.o, w.u, k)
      BY <2>1, <2>2, <3>1, <3>3, <3>4 DEF Sound, HasLoop, Views, UvHandle
    <3>6. Counts(w.o, w.u, k)
      BY <1>2, <2>1, <3>1, <3>3 DEF Counts, Owed, One, Views, UvHandle, Object
    <3>7. ~w.u.active /\ w.u.state = "closing" /\ w.u.closeCb = "dealloc"
      BY <3>1, <3>3 DEF Views, UvHandle
    <3> QED BY <2>1, <3>1, <3>3, <3>4, <3>5, <3>6, <3>7 DEF Good
  <2>3. CASE ~(v.o.initialized /\ ~Closing(v.u))
    <3> DEFINE c == DropLoop(v, "null")
    <3>1. /\ c \in Views /\ c.o = [v.o EXCEPT !.loop = "null"] /\ c.u = v.u
          /\ c.l.closing = v.l.closing /\ c.l.todo = v.l.todo
      BY DropLoopView
    <3> HIDE DEF c
    <3>2. w = [c EXCEPT !.o.refcnt = 0, !.o.mem = "freed", !.o.onClose = "null"]
      BY <1>2, <2>3 DEF Decref, Dealloc, c
    <3>3. /\ w \in Views /\ w.u = v.u /\ w.l = c.l
          /\ w.o = [v.o EXCEPT !.loop = "null", !.refcnt = 0, !.mem = "freed", !.onClose = "null"]
      <4> DEFINE o == [c.o EXCEPT !.refcnt = 0, !.mem = "freed", !.onClose = "null"]
      <4>1. c.o \in Object /\ c.u \in UvHandle /\ c.l \in LoopObject
        BY <3>1 DEF Views
      <4>2. w = [o |-> o, u |-> c.u, l |-> c.l]
        BY <3>1, <3>2 DEF Views
      <4>3. o \in Object
        BY <4>1 DEF Object
      <4>4. o = [v.o EXCEPT !.loop = "null", !.refcnt = 0, !.mem = "freed", !.onClose = "null"]
        BY <3>1 DEF Views, Object
      <4> HIDE DEF o
      <4>5. w \in Views
        BY <4>1, <4>2, <4>3 DEF Views
      <4> QED BY <3>1, <4>2, <4>4, <4>5
    <3>4. v.u.state \in {"zeroed", "closed"}
      BY <2>1, <2>3 DEF Closing, Sound, Views, UvHandle
    <3>5. Sound(h, w.o, w.u, k) /\ HasLoop(w.o, w.u, k)
      BY <2>1, <3>3, <3>4 DEF Sound, HasLoop, Views, Object, UvHandle
    <3>6. Counts(w.o, w.u, k)
      BY <3>3 DEF Counts, Views, Object
    <3> QED BY <3>1, <3>3, <3>5, <3>6 DEF Good
  <2> QED BY <2>2, <2>3
<1> QED BY <1>1, <1>2

-----------------------------------------------------------------------------
(* From one handle to the whole state.                                     *)

Calls == [kind : Kinds, handle : Handles \cup {NoHandle}]

\* What a step that leaves the closing batch alone may make of the view of h.
Plain(h, v, k) ==
  /\ v \in Views
  /\ Good(h, v.o, v.u, k)
  /\ \/ v.l.closing = loop.closing /\ (v.u.state = "closing" <=> uv[h].state = "closing")
     \/ v.l.closing = <<h>> \o loop.closing /\ v.u.state = "closing" /\ uv[h].state # "closing"
  /\ v.l.todo \subseteq loop.todo \cup {h}
  /\ h \in v.l.todo => v.u.active
  /\ v.u.state = "closed" <=> uv[h].state = "closed"
  /\ v.u.state = "closed" => v.u.closeCb = uv[h].closeCb
  /\ v.u.closeCb = "dealloc" =>
       uv[h].closeCb = "dealloc" \/ (v.o.users = 0 /\ k = "none" /\ ~v.o.pyref)

\* A step on the view of one handle that leaves it consistent, and the closing
\* lists as they were or with the handle newly at their head, keeps the invariant.
LEMMA PlainStep ==
  ASSUME IInv, NEW h \in Handles, NEW v, Commit(h, v), Plain(h, v, KindOf(h)'),
         batch' = batch, closeRuns' = closeRuns,
         phase' \in Phases, cb' \in Calls, Control',
         \A g \in Handles \ {h} : KindOf(g)' = KindOf(g)
  PROVE  IInv' /\ Final
<1>1. TypeOK /\ v.o \in Object /\ v.u \in UvHandle /\ v.l \in LoopObject
  BY DEF IInv, Plain, Views
<1>2. /\ obj' \in [Handles -> Object] /\ uv' \in [Handles -> UvHandle] /\ loop' = v.l
      /\ obj'[h] = v.o /\ uv'[h] = v.u
      /\ \A g \in Handles \ {h} : obj'[g] = obj[g] /\ uv'[g] = uv[g]
  BY <1>1 DEF Commit, TypeOK
<1>3. TypeOK'
  BY <1>1, <1>2 DEF TypeOK, Calls, Kinds
<1>4. \A g \in Handles : Good(g, obj'[g], uv'[g], KindOf(g)')
  BY <1>2 DEF IInv, Plain
<1>5. \A g \in loop'.todo : uv'[g].active
  <2>1. loop.todo \subseteq Handles
    BY <1>1 DEF TypeOK, LoopObject
  <2> QED BY <1>2, <2>1 DEF IInv, Plain
<1>6. ClosingListed'
  <2>1. ClosingListed /\ loop.closing \in Seq(Handles)
    BY <1>1 DEF IInv, TypeOK, LoopObject
  <2>2. CASE loop'.closing = loop.closing /\ (v.u.state = "closing" <=> uv[h].state = "closing")
    BY <1>2, <2>1, <2>2 DEF ClosingListed
  <2>3. CASE loop'.closing = <<h>> \o loop.closing /\ v.u.state = "closing" /\ uv[h].state # "closing"
    <3>1. ~InList(h, loop.closing) /\ ~InList(h, batch)
      BY <2>1, <2>3 DEF ClosingListed
    <3>2. /\ \A x : InList(x, loop'.closing) <=> x = h \/ InList(x, loop.closing)
          /\ Distinct(loop'.closing)
      BY <2>1, <2>3, <3>1, PushList DEF ClosingListed
    <3> QED BY <1>2, <2>1, <2>3, <3>1, <3>2 DEF ClosingListed
  <2> QED BY <1>2, <2>2, <2>3 DEF Plain
<1>7. CloseCallbackOnce'
  BY <1>2 DEF IInv, Plain, CloseCallbackOnce
<1>8. Final
  <2>1. ASSUME KindOf(h)' = "none" PROVE cb'.handle # h
    <3>1. cb'.kind = "none" <=> cb'.handle = NoHandle
      BY DEF Control
    <3> QED BY <2>1, <3>1, ConstantsAssumption DEF KindOf
  <2>2. Resurrected(h) => obj'[h].users = 0 /\ cb'.handle # h /\ ~obj'[h].pyref
    BY <1>2, <2>1 DEF Resurrected, Plain
  <2>3. \A g \in Handles : (Closing(uv[g]) => Closing(uv'[g])) /\ (Resurrected(g) => g = h)
    BY <1>2 DEF Closing, Plain, Resurrected
  <2> QED BY <2>2, <2>3 DEF Final
<1> QED BY <1>3, <1>4, <1>5, <1>6, <1>7, <1>8 DEF IInv

\* What the invariant says of the view of one handle.
LEMMA ViewFacts ==
  ASSUME IInv, NEW h \in Handles
  PROVE  /\ View(h) \in Views
         /\ View(h).o = obj[h] /\ View(h).u = uv[h] /\ View(h).l = loop
         /\ obj[h] \in Object /\ uv[h] \in UvHandle /\ loop \in LoopObject
         /\ loop.todo \subseteq Handles
         /\ Good(h, obj[h], uv[h], KindOf(h)) /\ KindOf(h) \in Kinds
         /\ h \in loop.todo => uv[h].active
         /\ phase \in Phases /\ cb \in Calls /\ Control
BY DEF IInv, TypeOK, View, Views, LoopObject, KindOf, Kinds, Calls

\* Py_DECREF(self) with a reference to spare is such a step.
LEMMA DecrefPlain ==
  ASSUME NEW h \in Handles, NEW k \in Kinds, NEW v, Owing(h, v, k),
         v.l.closing = loop.closing, v.l.todo \subseteq loop.todo,
         h \in v.l.todo => v.u.active,
         v.u.state = uv[h].state, v.u.closeCb = uv[h].closeCb
  PROVE  Plain(h, Decref(h, v), k)
<1> DEFINE w == Decref(h, v)
<1>1. Dropped(h, v, w, k)
  BY DecrefView
<1> HIDE DEF w
<1> QED BY <1>1 DEF Plain, Dropped, w

\* A handle Python code can name has not been freed.
LEMMA ReachableLive ==
  ASSUME IInv, NEW h \in Handles, Reachable(h)
  PROVE  obj[h].mem = "live"
<1>1. NoHandle \notin Handles
  BY ConstantsAssumption
<1> QED BY <1>1, ViewFacts DEF Reachable, Good, Sound, KindOf, Control, Object

\* The same for a step of Python code, which leaves uv_run where it is.
LEMMA QuietStep ==
  ASSUME IInv, NEW h \in Handles, NEW v, Commit(h, v), Plain(h, v, KindOf(h)),
         UNCHANGED control
  PROVE  IInv' /\ Final
<1>1. batch' = batch /\ phase' = phase /\ cb' = cb /\ closeRuns' = closeRuns
  BY DEF control
<1>2. \A g \in Handles : KindOf(g)' = KindOf(g)
  BY <1>1 DEF KindOf
<1>3. phase \in Phases /\ cb \in Calls /\ Control
  BY ViewFacts
<1>4. Control'
  BY <1>1, <1>3 DEF Control
<1> QED BY <1>1, <1>2, <1>3, <1>4, PlainStep

-----------------------------------------------------------------------------
(* Python code.                                                            *)

\* Handle_tp_new keeps the invariant.
LEMMA NewKeeps ==
  ASSUME IInv, NEW h \in Handles, New(h)
  PROVE  IInv' /\ Final
<1> DEFINE o == [obj[h] EXCEPT !.mem = "live", !.refcnt = 1, !.users = 1]
           v == [o |-> o, u |-> uv[h], l |-> loop]
<1>1. /\ obj[h] \in Object /\ uv[h] \in UvHandle /\ loop \in LoopObject
      /\ Good(h, obj[h], uv[h], KindOf(h)) /\ KindOf(h) \in Kinds
      /\ h \in loop.todo => uv[h].active
  BY ViewFacts
<1>2. 1 \in 0..MaxUserRefs
  BY ConstantsAssumption
<1>3. o \in Object /\ v \in Views
  BY <1>1, <1>2 DEF Object, Views
<1>4. Sound(h, o, uv[h], KindOf(h)) /\ HasLoop(o, uv[h], KindOf(h))
  BY <1>1 DEF New, Good, Sound, HasLoop, Object
<1>5. o.refcnt = Owed(o, uv[h], KindOf(h)) /\ o.mem = "live"
  BY <1>1 DEF New, Good, Sound, Object, Owed, One, Kinds
<1>6. Plain(h, v, KindOf(h))
  <2>1. v.o = o /\ v.u = uv[h] /\ v.l = loop
    OBVIOUS
  <2>2. Good(h, o, uv[h], KindOf(h))
    BY <1>1, <1>4, <1>5 DEF Good, Counts, New, Object
  <2> HIDE DEF v, o
  <2> QED BY <1>1, <1>3, <2>1, <2>2 DEF Plain
<1>7. obj' = [obj EXCEPT ![h] = o] /\ uv' = uv /\ loop' = loop
  BY DEF New
<1>8. Commit(h, v)
  BY <1>7, <1>1 DEF Commit, IInv, TypeOK
<1> QED BY <1>6, <1>8, QuietStep DEF New

\* initialize_handle keeps the invariant.
LEMMA InitHandleKeeps ==
  ASSUME IInv, NEW h \in Handles, NEW b \in BOOLEAN, InitHandle(h, b)
  PROVE  IInv' /\ Final
<1> DEFINE o == [obj[h] EXCEPT !.initialized = TRUE, !.pyref = FALSE, !.loop = "loop"]
           u == [uv[h] EXCEPT !.state = "open", !.ref = TRUE, !.hasCb = b]
           l == [loop EXCEPT !.refcnt = @ + 1]
           ready == [o |-> o, u |-> u, l |-> l]
           w == IF h \in Asyncs THEN UvStart(ready) ELSE ready
<1>1. /\ obj[h] \in Object /\ uv[h] \in UvHandle /\ loop \in LoopObject
      /\ Good(h, obj[h], uv[h], KindOf(h)) /\ KindOf(h) \in Kinds
      /\ h \in loop.todo => uv[h].active
  BY ViewFacts
<1>2. obj[h].mem = "live" /\ ~obj[h].initialized
  BY ReachableLive DEF InitHandle
<1>3. /\ uv[h].state = "zeroed" /\ ~uv[h].active /\ ~obj[h].pyref /\ uv[h].closeCb = "none"
      /\ KindOf(h) = "none"
  BY <1>1, <1>2 DEF Good, Sound, Kinds, UvHandle
<1>4. o \in Object /\ u \in UvHandle
  BY <1>1 DEF Object, UvHandle
<1>5. l \in LoopObject /\ l.closing = loop.closing /\ l.todo = loop.todo
  BY <1>1 DEF LoopObject
<1> HIDE DEF o, u, l
<1>6. ready \in Views
  BY <1>4, <1>5 DEF Views
<1>7. /\ w \in Views /\ w.o = o /\ w.l.closing = loop.closing /\ w.l.todo = loop.todo
      /\ w.u = IF h \in Asyncs THEN [u EXCEPT !.active = TRUE] ELSE u
  BY <1>4, <1>5, <1>6, StartView
<1> HIDE DEF ready, w
<1>8. /\ w.o.refcnt = obj[h].refcnt /\ w.o.users = obj[h].users /\ w.o.mem = "live"
      /\ w.o.cycle = obj[h].cycle /\ ~w.o.pyref /\ w.o.initialized /\ w.o.loop = "loop"
  BY <1>1, <1>2, <1>7 DEF Object, o
<1>9. /\ w.u.state = "open" /\ w.u.closeCb = "none"
      /\ h \in Asyncs => w.u.active
      /\ h \notin Asyncs => ~w.u.active
  <2>1. /\ u \in UvHandle /\ u.state = "open" /\ u.closeCb = "none" /\ ~u.active
    BY <1>1, <1>3, <1>4 DEF UvHandle, u
  <2>2. CASE h \in Asyncs
    BY <1>7, <2>1, <2>2 DEF UvHandle
  <2>3. CASE h \notin Asyncs
    BY <1>7, <2>1, <2>3
  <2> QED BY <2>2, <2>3
<1>10. Sound(h, w.o, w.u, KindOf(h)) /\ HasLoop(w.o, w.u, KindOf(h))
  BY <1>3, <1>8, <1>9, ConstantsAssumption DEF Sound, HasLoop
<1>11. Counts(w.o, w.u, KindOf(h))
  BY <1>1, <1>2, <1>3, <1>8, <1>9 DEF Good, Counts, Owed, One
<1>12. Plain(h, w, KindOf(h))
  BY <1>1, <1>3, <1>7, <1>9, <1>10, <1>11 DEF Plain, Good
<1>13. Commit(h, w)
  BY DEF InitHandle, w, ready, o, u, l
<1> QED BY <1>12, <1>13, QuietStep DEF InitHandle

\* start() gives the handle its self-reference unless it has it already.
LEMMA HandleIncrefView ==
  ASSUME NEW h \in Handles, NEW k \in Kinds, NEW v \in Views, v.o.mem = "live",
         v.o.refcnt = Owed(v.o, v.u, k), v.o.refcnt > 0,
         Sound(h, [v.o EXCEPT !.pyref = TRUE], v.u, k), HasLoop(v.o, v.u, k)
  PROVE  LET w == HandleIncref(v) IN
         w \in Views /\ Good(h, w.o, w.u, k) /\ w.u = v.u /\ w.l = v.l
<1> DEFINE w == HandleIncref(v)
<1>0. v.o \in Object /\ v.u \in UvHandle /\ v.l \in LoopObject
  BY DEF Views
<1>1. CASE v.o.pyref
  <2>1. w = v
    BY <1>1 DEF HandleIncref
  <2> DEFINE o == [v.o EXCEPT !.pyref = TRUE]
  <2>2. o.mem = v.o.mem /\ o.users = v.o.users /\ o.pyref = TRUE
    BY <1>0 DEF Object
  <2>3. ASSUME NEW x, NEW y \in {"cycle", "initialized"}
        PROVE  [v.o EXCEPT !.pyref = x][y] = v.o[y]
    BY <1>0 DEF Object
  <2>4. Sound(h, o, v.u, k)
    OBVIOUS
  <2> HIDE DEF o
  <2>5. Sound(h, v.o, v.u, k)
    BY <1>1, <2>2, <2>3, <2>4 DEF Sound
  <2> QED BY <2>1, <2>5 DEF Good, Counts
<1>2. CASE ~v.o.pyref
  <2> DEFINE o == [v.o EXCEPT !.pyref = TRUE, !.refcnt = @ + 1]
  <2>1. o \in Object
    <3>1. v.o.refcnt + 1 \in Nat
      BY <1>0 DEF Object
    <3> QED BY <1>0, <3>1 DEF Object
  <2>2. w = [o |-> o, u |-> v.u, l |-> v.l]
    BY <1>2 DEF HandleIncref, Incref, Views
  <2>3. Sound(h, o, v.u, k) /\ HasLoop(o, v.u, k)
    BY <1>0 DEF Sound, HasLoop, Object
  <2>4. Counts(o, v.u, k)
    <3>1. o.refcnt = v.o.refcnt + 1 /\ o.users = v.o.users /\ o.pyref /\ o.cycle = v.o.cycle
          /\ o.mem = "live"
      BY <1>0 DEF Object
    <3> HIDE DEF o
    <3>2. v.o.refcnt \in Nat /\ v.o.users \in Nat
      BY <1>0 DEF Object
    <3> QED BY <1>2, <3>1, <3>2 DEF Counts, Owed, One
  <2> HIDE DEF o
  <2> QED BY <1>0, <2>1, <2>2, <2>3, <2>4 DEF Views, Good
<1> QED BY <1>1, <1>2

\* stop() drops the self-reference of an inactive handle, if it has it.
LEMMA HandleDecrefPlain ==
  ASSUME NEW h \in Handles, NEW k \in Kinds, NEW v \in Views, v.o.mem = "live",
         Good(h, v.o, v.u, k), ~(v.u.active /\ h \in Watchers),
         v.l.closing = loop.closing, v.l.todo \subseteq loop.todo,
         h \in v.l.todo => v.u.active,
         v.u.state = uv[h].state, v.u.closeCb = uv[h].closeCb
  PROVE  Plain(h, HandleDecref(h, v), k)
<1>0. v.o \in Object /\ v.u \in UvHandle /\ v.l \in LoopObject
  BY DEF Views
<1>1. CASE ~v.o.pyref
  BY <1>1 DEF HandleDecref, Plain
<1>2. CASE v.o.pyref
  <2> DEFINE o == [v.o EXCEPT !.pyref = FALSE]
             w == [o |-> o, u |-> v.u, l |-> v.l]
  <2>1. o \in Object
    BY <1>0 DEF Object
  <2>2. HandleDecref(h, v) = Decref(h, w)
    <3>1. ASSUME NEW x
          PROVE  [v EXCEPT !.o.pyref = x] = [o |-> [v.o EXCEPT !.pyref = x], u |-> v.u, l |-> v.l]
      BY DEF Views
    <3> QED BY <1>2, <3>1 DEF HandleDecref
  <2>3. Sound(h, o, v.u, k) /\ HasLoop(o, v.u, k)
    BY <1>0 DEF Good, Sound, HasLoop, Object
  <2>4. o.refcnt = v.o.refcnt /\ o.users = v.o.users /\ ~o.pyref /\ o.cycle = v.o.cycle
        /\ o.mem = "live"
    BY <1>0 DEF Object
  <2> HIDE DEF o
  <2>5. o.refcnt = Owed(o, v.u, k) + 1
    <3>1. v.o.refcnt \in Nat /\ v.o.users \in Nat
      BY <1>0 DEF Object
    <3> QED BY <1>2, <2>4, <3>1 DEF Good, Counts, Owed, One
  <2>6. w \in Views /\ w.o = o /\ w.u = v.u /\ w.l = v.l
    BY <1>0, <2>1 DEF Views
  <2> HIDE DEF w
  <2>7. Owing(h, w, k)
    BY <2>3, <2>4, <2>5, <2>6 DEF Owing
  <2> QED BY <2>2, <2>6, <2>7, DecrefPlain
<1> QED BY <1>1, <1>2

\* A handle that passes the RAISE_IF_ checks is live, open and has its loop.
LEMMA UsableFacts ==
  ASSUME IInv, NEW h \in Handles, Usable(h)
  PROVE  obj[h].mem = "live" /\ uv[h].state = "open" /\ obj[h].loop = "loop"
<1>1. /\ uv[h] \in UvHandle /\ Good(h, obj[h], uv[h], KindOf(h))
  BY ViewFacts
<1>2. uv[h].state = "open"
  BY <1>1 DEF Usable, Closing, Good, Sound, UvHandle
<1> QED BY <1>1, <1>2, ReachableLive DEF Usable, Good, HasLoop

\* Timer_func_start keeps the invariant.
LEMMA StartTimerKeeps ==
  ASSUME IInv, NEW h \in Timers, NEW r \in BOOLEAN, NEW z \in BOOLEAN, StartTimer(h, r, z)
  PROVE  IInv' /\ Final
<1> DEFINE started == [UvStart(UvStop(h, View(h))) EXCEPT !.u = [@ EXCEPT !.hasCb = TRUE, !.repeat = r]]
           due == IF z /\ InTimersPass THEN {h} ELSE {}
           v == [started EXCEPT !.l.todo = @ \cup due]
           w == HandleIncref(v)
<1>0. h \in Handles /\ h \notin Watchers /\ h \notin Asyncs
  BY ConstantsAssumption DEF Handles
<1>1. /\ View(h) \in Views /\ View(h).o = obj[h] /\ View(h).u = uv[h] /\ View(h).l = loop
      /\ obj[h] \in Object /\ uv[h] \in UvHandle /\ loop \in LoopObject
      /\ Good(h, obj[h], uv[h], KindOf(h)) /\ KindOf(h) \in Kinds
      /\ obj[h].mem = "live" /\ uv[h].state = "open" /\ obj[h].loop = "loop"
  BY <1>0, ViewFacts, UsableFacts DEF StartTimer
<1> DEFINE a == UvStop(h, View(h))
           b == UvStart(a)
<1>2. /\ a \in Views /\ a.o = obj[h] /\ a.u = [uv[h] EXCEPT !.active = FALSE]
      /\ a.l.closing = loop.closing /\ a.l.todo = loop.todo \ {h}
  BY <1>0, <1>1, StopView
<1>3. /\ b \in Views /\ b.o = obj[h] /\ b.u = [a.u EXCEPT !.active = TRUE]
      /\ b.l.closing = loop.closing /\ b.l.todo = loop.todo \ {h}
  <2> HIDE DEF a
  <2> QED BY <1>2, StartView
<1> HIDE DEF a, b
<1> DEFINE u == [b.u EXCEPT !.hasCb = TRUE, !.repeat = r]
           l == [b.l EXCEPT !.todo = @ \cup due]
<1>4. /\ u \in UvHandle /\ u.state = "open" /\ u.active /\ u.closeCb = uv[h].closeCb
  <2>1. b.u \in UvHandle /\ a.u \in UvHandle
    BY <1>2, <1>3 DEF Views
  <2>2. b.u.state = "open" /\ b.u.active /\ b.u.closeCb = uv[h].closeCb
    BY <1>1, <1>2, <1>3, <2>1 DEF UvHandle
  <2> QED BY <2>1, <2>2 DEF UvHandle
<1>5. l \in LoopObject /\ l.closing = loop.closing /\ l.todo \subseteq loop.todo \cup {h}
  BY <1>0, <1>3 DEF Views, LoopObject
<1>6. v = [o |-> obj[h], u |-> u, l |-> l]
  <2>1. v = [[b EXCEPT !.u = u] EXCEPT !.l.todo = @ \cup due]
    BY DEF a, b
  <2> HIDE DEF u
  <2> DEFINE c == [b EXCEPT !.u = u]
  <2>2. c = [o |-> b.o, u |-> u, l |-> b.l]
    BY <1>3 DEF Views
  <2> HIDE DEF c
  <2>3. ASSUME NEW s
        PROVE  [c EXCEPT !.l.todo = @ \cup s] = [o |-> b.o, u |-> u, l |-> [b.l EXCEPT !.todo = @ \cup s]]
    BY <2>2
  <2>4. v = [c EXCEPT !.l.todo = @ \cup due]
    BY <2>1 DEF c
  <2>5. v = [o |-> b.o, u |-> u, l |-> l]
    BY <2>3, <2>4
  <2> QED BY <1>3, <2>5
<1> HIDE DEF u, l
<1>7. v \in Views /\ v.o = obj[h] /\ v.u = u /\ v.l = l
  BY <1>1, <1>4, <1>5, <1>6 DEF Views
<1> HIDE DEF v
<1>8. /\ Sound(h, [obj[h] EXCEPT !.pyref = TRUE], u, KindOf(h))
      /\ HasLoop(obj[h], u, KindOf(h))
  BY <1>0, <1>1, <1>4 DEF Good, Sound, HasLoop, Object
<1>9. obj[h].refcnt = Owed(obj[h], u, KindOf(h)) /\ obj[h].refcnt > 0
  BY <1>1, <1>4 DEF Good, Counts, Owed
<1>10. w \in Views /\ Good(h, w.o, w.u, KindOf(h)) /\ w.u = u /\ w.l = l
  BY <1>0, <1>1, <1>7, <1>8, <1>9, HandleIncrefView
<1>11. Commit(h, w)
  BY DEF StartTimer, w, v
<1> HIDE DEF w
<1>12. Plain(h, w, KindOf(h))
  BY <1>1, <1>4, <1>5, <1>10 DEF Plain
<1> QED BY <1>0, <1>11, <1>12, QuietStep DEF StartTimer

\* Idle_func_start and its twins keep the invariant.
LEMMA StartWatcherKeeps ==
  ASSUME IInv, NEW h \in Watchers, StartWatcher(h)
  PROVE  IInv' /\ Final
<1> DEFINE v == UvStart(View(h))
           w == HandleIncref(v)
<1>0. h \in Handles /\ h \notin Asyncs
  BY ConstantsAssumption DEF Handles
<1>1. /\ View(h) \in Views /\ View(h).o = obj[h] /\ View(h).u = uv[h] /\ View(h).l = loop
      /\ obj[h] \in Object /\ uv[h] \in UvHandle /\ loop \in LoopObject
      /\ Good(h, obj[h], uv[h], KindOf(h)) /\ KindOf(h) \in Kinds
      /\ obj[h].mem = "live" /\ uv[h].state = "open" /\ obj[h].loop = "loop"
  BY <1>0, ViewFacts, UsableFacts DEF StartWatcher
<1>2. /\ v \in Views /\ v.o = obj[h] /\ v.u = [uv[h] EXCEPT !.active = TRUE]
      /\ v.l.closing = loop.closing /\ v.l.todo = loop.todo
  BY <1>1, StartView
<1> HIDE DEF v
<1>3. v.u.state = "open" /\ v.u.active /\ v.u.closeCb = uv[h].closeCb
  BY <1>1, <1>2 DEF UvHandle
<1>4. Sound(h, [obj[h] EXCEPT !.pyref = TRUE], v.u, KindOf(h))
      /\ HasLoop(obj[h], v.u, KindOf(h))
  BY <1>0, <1>1, <1>3 DEF Good, Sound, HasLoop, Object
<1>5. obj[h].refcnt = Owed(obj[h], v.u, KindOf(h)) /\ obj[h].refcnt > 0
  BY <1>1, <1>3 DEF Good, Counts, Owed
<1>6. w \in Views /\ Good(h, w.o, w.u, KindOf(h)) /\ w.u = v.u /\ w.l = v.l
  BY <1>0, <1>1, <1>2, <1>4, <1>5, HandleIncrefView
<1>7. Commit(h, w)
  BY DEF StartWatcher, w, v
<1> HIDE DEF w
<1>8. Plain(h, w, KindOf(h))
  BY <1>1, <1>2, <1>3, <1>6 DEF Plain
<1> QED BY <1>0, <1>7, <1>8, QuietStep DEF StartWatcher

\* Timer_func_stop and its twins keep the invariant.
LEMMA StopKeeps ==
  ASSUME IInv, NEW h \in Handles, Stop(h)
  PROVE  IInv' /\ Final
<1> DEFINE v == UvStop(h, View(h))
           w == HandleDecref(h, v)
<1>1. /\ View(h) \in Views /\ View(h).o = obj[h] /\ View(h).u = uv[h] /\ View(h).l = loop
      /\ uv[h] \in UvHandle
      /\ Good(h, obj[h], uv[h], KindOf(h)) /\ KindOf(h) \in Kinds
      /\ obj[h].mem = "live" /\ uv[h].state = "open"
  BY ViewFacts, UsableFacts DEF Stop
<1>2. /\ v \in Views /\ v.o = obj[h] /\ v.u = [uv[h] EXCEPT !.active = FALSE]
      /\ v.l.closing = loop.closing /\ v.l.todo = loop.todo \ {h}
  BY <1>1, StopView
<1> HIDE DEF v
<1>3. v.u.state = uv[h].state /\ v.u.closeCb = uv[h].closeCb /\ ~v.u.active
  BY <1>1, <1>2 DEF UvHandle
<1>4. Good(h, v.o, v.u, KindOf(h))
  BY <1>1, <1>2, <1>3 DEF Good, Sound, HasLoop, Counts, Owed, Stop
<1>5. Plain(h, w, KindOf(h))
  BY <1>1, <1>2, <1>3, <1>4, HandleDecrefPlain
<1>6. Commit(h, w)
  BY DEF Stop, v
<1> HIDE DEF w
<1> QED BY <1>5, <1>6, QuietStep DEF Stop

\* Timer_func_again keeps the invariant.
LEMMA AgainKeeps ==
  ASSUME IInv, NEW h \in Timers, Again(h)
  PROVE  IInv' /\ Final
<1> DEFINE v == UvStop(h, View(h))
           w == UvStart(v)
<1>0. h \in Handles /\ h \notin Watchers /\ h \notin Asyncs
  BY ConstantsAssumption DEF Handles
<1>1. /\ View(h) \in Views /\ View(h).o = obj[h] /\ View(h).u = uv[h] /\ View(h).l = loop
      /\ uv[h] \in UvHandle
      /\ Good(h, obj[h], uv[h], KindOf(h)) /\ KindOf(h) \in Kinds
      /\ obj[h].mem = "live" /\ uv[h].state = "open"
  BY <1>0, ViewFacts, UsableFacts DEF Again
<1>2. /\ v \in Views /\ v.o = obj[h] /\ v.u = [uv[h] EXCEPT !.active = FALSE]
      /\ v.l.closing = loop.closing /\ v.l.todo = loop.todo \ {h}
  BY <1>0, <1>1, StopView
<1> HIDE DEF v
<1>3. /\ w \in Views /\ w.o = obj[h] /\ w.u = [v.u EXCEPT !.active = TRUE]
      /\ w.l.closing = loop.closing /\ w.l.todo = loop.todo \ {h}
  BY <1>2, StartView
<1>4. Commit(h, w)
  BY DEF Again, v
<1> HIDE DEF w
<1>5. v.u \in UvHandle /\ v.u.state = uv[h].state /\ v.u.closeCb = uv[h].closeCb
  BY <1>1, <1>2 DEF UvHandle
<1>6. w.u.state = uv[h].state /\ w.u.closeCb = uv[h].closeCb /\ w.u.active
  BY <1>3, <1>5 DEF UvHandle
<1>7. Good(h, w.o, w.u, KindOf(h))
  BY <1>0, <1>1, <1>3, <1>6 DEF Good, Sound, HasLoop, Counts, Owed
<1>8. Plain(h, w, KindOf(h))
  BY <1>3, <1>6, <1>7 DEF Plain
<1> QED BY <1>0, <1>4, <1>8, QuietStep DEF Again

\* A step on the fields of one uv_handle_t that the invariant does not read.
LEMMA FieldStep ==
  ASSUME IInv, NEW h \in Handles, NEW v \in Views, Commit(h, v), UNCHANGED control,
         v.o = obj[h], v.l.closing = loop.closing, v.l.todo = loop.todo,
         v.u.state = uv[h].state, v.u.closeCb = uv[h].closeCb, v.u.active = uv[h].active
  PROVE  IInv' /\ Final
<1>1. Good(h, obj[h], uv[h], KindOf(h)) /\ (h \in loop.todo => uv[h].active)
  BY ViewFacts
<1>2. Good(h, v.o, v.u, KindOf(h))
  BY <1>1 DEF Good, Sound, HasLoop, Counts, Owed
<1>3. Plain(h, v, KindOf(h))
  BY <1>1, <1>2 DEF Plain
<1> QED BY <1>3, QuietStep

\* Timer_repeat_set keeps the invariant.
LEMMA SetRepeatKeeps ==
  ASSUME IInv, NEW h \in Timers, NEW r \in BOOLEAN, SetRepeat(h, r)
  PROVE  IInv' /\ Final
<1> DEFINE u == [uv[h] EXCEPT !.repeat = r]
           v == [o |-> obj[h], u |-> u, l |-> loop]
<1>0. h \in Handles
  BY DEF Handles
<1>1. obj[h] \in Object /\ uv[h] \in UvHandle /\ loop \in LoopObject
  BY <1>0, ViewFacts
<1>2. /\ u \in UvHandle /\ u.state = uv[h].state /\ u.closeCb = uv[h].closeCb
      /\ u.active = uv[h].active
  BY <1>1 DEF UvHandle
<1>3. obj' = [obj EXCEPT ![h] = obj[h]] /\ uv' = [uv EXCEPT ![h] = u] /\ loop' = loop
  BY DEF SetRepeat, IInv, TypeOK
<1> HIDE DEF u
<1>4. v \in Views /\ v.o = obj[h] /\ v.u = u /\ v.l = loop
  BY <1>1, <1>2 DEF Views
<1>5. Commit(h, v)
  BY <1>3 DEF Commit
<1> HIDE DEF v
<1> QED BY <1>0, <1>2, <1>4, <1>5, FieldStep DEF SetRepeat

\* Async_func_send keeps the invariant.
LEMMA SendKeeps ==
  ASSUME IInv, NEW h \in Asyncs, Send(h)
  PROVE  IInv' /\ Final
<1> DEFINE u == [uv[h] EXCEPT !.pending = TRUE]
           v == [o |-> obj[h], u |-> u, l |-> loop]
<1>0. h \in Handles
  BY DEF Handles
<1>1. obj[h] \in Object /\ uv[h] \in UvHandle /\ loop \in LoopObject
  BY <1>0, ViewFacts
<1>2. /\ u \in UvHandle /\ u.state = uv[h].state /\ u.closeCb = uv[h].closeCb
      /\ u.active = uv[h].active
  BY <1>1 DEF UvHandle
<1>3. obj' = [obj EXCEPT ![h] = obj[h]] /\ uv' = [uv EXCEPT ![h] = u] /\ loop' = loop
  BY DEF Send, IInv, TypeOK
<1> HIDE DEF u
<1>4. v \in Views /\ v.o = obj[h] /\ v.u = u /\ v.l = loop
  BY <1>1, <1>2 DEF Views
<1>5. Commit(h, v)
  BY <1>3 DEF Commit
<1> HIDE DEF v
<1> QED BY <1>0, <1>2, <1>4, <1>5, FieldStep DEF Send

\* Handle_ref_set keeps the invariant, on a raw or closed handle too.
LEMMA SetRefKeeps ==
  ASSUME IInv, NEW h \in Handles, NEW r \in BOOLEAN, SetRef(h, r)
  PROVE  IInv' /\ Final
<1> DEFINE u == [uv[h] EXCEPT !.ref = r]
           v == SetFlags(View(h), u)
<1>1. /\ View(h) \in Views /\ View(h).o = obj[h] /\ View(h).l = loop /\ uv[h] \in UvHandle
  BY ViewFacts
<1>2. /\ u \in UvHandle /\ u.state = uv[h].state /\ u.closeCb = uv[h].closeCb
      /\ u.active = uv[h].active
  BY <1>1 DEF UvHandle
<1>3. Commit(h, v)
  BY DEF SetRef
<1> HIDE DEF u
<1>4. /\ v \in Views /\ v.o = obj[h] /\ v.u = u
      /\ v.l.closing = loop.closing /\ v.l.todo = loop.todo
  BY <1>1, <1>2, FlagsView
<1> HIDE DEF v
<1> QED BY <1>2, <1>3, <1>4, FieldStep DEF SetRef

\* Handle_func_close keeps the invariant.
LEMMA CloseKeeps ==
  ASSUME IInv, NEW h \in Handles, NEW c \in {"None", "callable"}, Close(h, c)
  PROVE  IInv' /\ Final
<1> DEFINE o == [[obj[h] EXCEPT !.onClose = c] EXCEPT !.refcnt = @ + 1]
           v == Incref([View(h) EXCEPT !.o.onClose = c])
           w == UvClose(h, v, "user")
<1>1. /\ View(h) \in Views /\ View(h).o = obj[h] /\ View(h).u = uv[h] /\ View(h).l = loop
      /\ obj[h] \in Object /\ uv[h] \in UvHandle /\ loop \in LoopObject
      /\ loop.todo \subseteq Handles
      /\ Good(h, obj[h], uv[h], KindOf(h)) /\ KindOf(h) \in Kinds
      /\ obj[h].mem = "live" /\ uv[h].state = "open" /\ obj[h].loop = "loop"
  BY ViewFacts, UsableFacts DEF Close
<1>2. obj[h].refcnt + 1 \in Nat
  BY <1>1 DEF Object
<1>3. /\ o \in Object /\ o.refcnt = obj[h].refcnt + 1 /\ o.users = obj[h].users
      /\ o.mem = "live" /\ o.loop = "loop" /\ o.cycle = obj[h].cycle
      /\ o.initialized = obj[h].initialized /\ o.pyref = obj[h].pyref
  BY <1>1, <1>2 DEF Object
<1>4. v = [o |-> o, u |-> uv[h], l |-> loop]
  <2> DEFINE a == [View(h) EXCEPT !.o.onClose = c]
  <2>1. a = [o |-> [obj[h] EXCEPT !.onClose = c], u |-> uv[h], l |-> loop]
    BY DEF View
  <2>2. v = Incref(a)
    OBVIOUS
  <2> HIDE DEF a
  <2>3. [obj[h] EXCEPT !.onClose = c] \in Object
    BY <1>1 DEF Object
  <2>4. a \in Views /\ a.o = [obj[h] EXCEPT !.onClose = c] /\ a.u = uv[h] /\ a.l = loop
    BY <1>1, <2>1, <2>3 DEF Views
  <2>5. Incref(a) = [o |-> [a.o EXCEPT !.refcnt = @ + 1], u |-> a.u, l |-> a.l]
    BY <2>4 DEF Incref, Views
  <2> QED BY <2>2, <2>4, <2>5
<1> HIDE DEF o
<1>5. v \in Views /\ v.o = o /\ v.u = uv[h] /\ v.l = loop
  BY <1>1, <1>3, <1>4 DEF Views
<1> HIDE DEF v
<1>6. /\ w \in Views /\ w.o = o
      /\ w.u = [v.u EXCEPT !.active = FALSE, !.state = "closing", !.closeCb = "user"]
      /\ w.l.closing = <<h>> \o loop.closing /\ w.l.todo = loop.todo \ {h}
  BY <1>5, CloseView
<1>7. Commit(h, w)
  BY DEF Close, v
<1> HIDE DEF w
<1>8. w.u.state = "closing" /\ w.u.closeCb = "user" /\ ~w.u.active
  BY <1>1, <1>5, <1>6 DEF UvHandle
<1>9. Sound(h, o, w.u, KindOf(h)) /\ HasLoop(o, w.u, KindOf(h))
  BY <1>1, <1>3, <1>8 DEF Good, Sound, HasLoop
<1>10. Counts(o, w.u, KindOf(h))
  <2>1. obj[h].refcnt \in Nat /\ obj[h].users \in Nat
    BY <1>1 DEF Object
  <2>2. KindOf(h) # "close"
    BY <1>1 DEF Good, Sound
  <2> QED BY <1>1, <1>3, <1>8, <2>1, <2>2 DEF Good, Counts, Owed, One
<1>11. Plain(h, w, KindOf(h))
  BY <1>1, <1>6, <1>8, <1>9, <1>10 DEF Plain, Good
<1> QED BY <1>7, <1>11, QuietStep DEF Close

\* A step on the object alone.
LEMMA ObjectStep ==
  ASSUME IInv, NEW h \in Handles, NEW o \in Object,
         obj' = [obj EXCEPT ![h] = o], UNCHANGED <<uv, loop, control>>,
         Good(h, o, uv[h], KindOf(h))
  PROVE  IInv' /\ Final
<1> DEFINE v == [o |-> o, u |-> uv[h], l |-> loop]
<1>1. /\ uv[h] \in UvHandle /\ loop \in LoopObject /\ (h \in loop.todo => uv[h].active)
      /\ uv \in [Handles -> UvHandle]
  BY ViewFacts DEF IInv, TypeOK
<1>2. v \in Views /\ v.o = o /\ v.u = uv[h] /\ v.l = loop
  BY <1>1 DEF Views
<1>3. Commit(h, v)
  BY <1>1 DEF Commit
<1> HIDE DEF v
<1>4. Plain(h, v, KindOf(h))
  BY <1>1, <1>2 DEF Plain
<1> QED BY <1>3, <1>4, QuietStep

\* A new Python reference keeps the invariant.
LEMMA TakeRefKeeps ==
  ASSUME IInv, NEW h \in Handles, TakeRef(h)
  PROVE  IInv' /\ Final
<1> DEFINE o == [obj[h] EXCEPT !.users = @ + 1, !.refcnt = @ + 1]
<1>1. /\ obj[h] \in Object /\ Good(h, obj[h], uv[h], KindOf(h))
  BY ViewFacts
<1>2. obj[h].mem = "live"
  BY <1>1, ReachableLive DEF TakeRef, Registered, Good, Sound, Object
<1>3. /\ obj[h].refcnt \in Nat /\ obj[h].refcnt + 1 \in Nat
      /\ obj[h].users + 1 \in 0..MaxUserRefs /\ obj[h].users \in Nat
  BY <1>1, ConstantsAssumption DEF TakeRef, Object
<1>4. o \in Object
  BY <1>1, <1>3 DEF Object
<1>5. /\ o.refcnt = obj[h].refcnt + 1 /\ o.users = obj[h].users + 1
      /\ o.mem = "live" /\ o.loop = obj[h].loop /\ o.cycle = obj[h].cycle
      /\ o.initialized = obj[h].initialized /\ o.pyref = obj[h].pyref
  BY <1>1, <1>2, <1>3 DEF Object
<1>6. obj' = [obj EXCEPT ![h] = o]
  BY DEF TakeRef
<1> HIDE DEF o
<1>7. Good(h, o, uv[h], KindOf(h))
  BY <1>1, <1>2, <1>3, <1>5 DEF Good, Sound, HasLoop, Counts, Owed, One
<1> QED BY <1>4, <1>6, <1>7, ObjectStep DEF TakeRef

\* A reference from the handle's dict to the handle keeps the invariant.
LEMMA MakeCycleKeeps ==
  ASSUME IInv, NEW h \in Handles, MakeCycle(h)
  PROVE  IInv' /\ Final
<1> DEFINE o == [obj[h] EXCEPT !.cycle = TRUE, !.refcnt = @ + 1]
<1>1. /\ obj[h] \in Object /\ Good(h, obj[h], uv[h], KindOf(h))
  BY ViewFacts
<1>2. obj[h].mem = "live"
  BY ReachableLive DEF MakeCycle
<1>3. obj[h].refcnt \in Nat /\ obj[h].refcnt + 1 \in Nat /\ obj[h].users \in Nat
  BY <1>1 DEF Object
<1>4. /\ o \in Object /\ o.refcnt = obj[h].refcnt + 1 /\ o.users = obj[h].users
      /\ o.mem = "live" /\ o.loop = obj[h].loop /\ o.cycle = TRUE
      /\ o.initialized = obj[h].initialized /\ o.pyref = obj[h].pyref
  BY <1>1, <1>2, <1>3 DEF Object
<1>5. obj' = [obj EXCEPT ![h] = o]
  BY DEF MakeCycle
<1> HIDE DEF o
<1>6. Sound(h, o, uv[h], KindOf(h)) /\ HasLoop(o, uv[h], KindOf(h))
  BY <1>1, <1>2, <1>4 DEF Good, Sound, HasLoop
<1>7. Counts(o, uv[h], KindOf(h))
  BY <1>1, <1>2, <1>3, <1>4 DEF MakeCycle, Good, Counts, Owed, One
<1> QED BY <1>4, <1>5, <1>6, <1>7, ObjectStep DEF MakeCycle, Good

\* Dropping a Python reference, down to Handle_tp_dealloc, keeps the invariant.
LEMMA DropRefKeeps ==
  ASSUME IInv, NEW h \in Handles, DropRef(h)
  PROVE  IInv' /\ Final
<1> DEFINE o == [obj[h] EXCEPT !.users = @ - 1]
           v == [View(h) EXCEPT !.o.users = @ - 1]
           w == Decref(h, v)
<1>1. /\ View(h) \in Views /\ View(h).o = obj[h] /\ View(h).u = uv[h] /\ View(h).l = loop
      /\ obj[h] \in Object /\ uv[h] \in UvHandle /\ loop \in LoopObject
      /\ Good(h, obj[h], uv[h], KindOf(h)) /\ KindOf(h) \in Kinds
      /\ (h \in loop.todo => uv[h].active)
  BY ViewFacts
<1>2. obj[h].mem = "live"
  BY ReachableLive DEF DropRef, Reachable
<1>3. obj[h].refcnt \in Nat /\ obj[h].users - 1 \in 0..MaxUserRefs /\ obj[h].users \in Nat
  BY <1>1, ConstantsAssumption DEF DropRef, Object
<1>4. o \in Object
  BY <1>1, <1>3 DEF Object
<1>5. /\ o.refcnt = obj[h].refcnt /\ o.users = obj[h].users - 1
      /\ o.mem = "live" /\ o.loop = obj[h].loop /\ o.cycle = obj[h].cycle
      /\ o.initialized = obj[h].initialized /\ o.pyref = obj[h].pyref
  BY <1>1, <1>2, <1>3 DEF Object
<1>6. v = [o |-> o, u |-> uv[h], l |-> loop]
  BY <1>1 DEF Views
<1>7. Commit(h, w)
  BY DEF DropRef
<1> HIDE DEF o, v
<1>8. v \in Views /\ v.o = o /\ v.u = uv[h] /\ v.l = loop
  BY <1>1, <1>4, <1>6 DEF Views
<1>9. Sound(h, o, uv[h], KindOf(h)) /\ HasLoop(o, uv[h], KindOf(h))
  BY <1>1, <1>2, <1>5 DEF Good, Sound, HasLoop
<1>10. o.refcnt = Owed(o, uv[h], KindOf(h)) + 1
  BY <1>1, <1>2, <1>3, <1>5 DEF Good, Counts, Owed, One
<1>11. Owing(h, v, KindOf(h))
  BY <1>5, <1>8, <1>9, <1>10 DEF Owing
<1>12. Plain(h, w, KindOf(h))
  BY <1>1, <1>8, <1>11, DecrefPlain
<1> HIDE DEF w
<1> QED BY <1>7, <1>12, QuietStep DEF DropRef

\* Breaking a cycle, down to Handle_tp_dealloc, keeps the invariant.
LEMMA BreakCycleKeeps ==
  ASSUME IInv, NEW h \in Handles, BreakCycle(h)
  PROVE  IInv' /\ Final
<1> DEFINE o == [obj[h] EXCEPT !.cycle = FALSE]
           v == [View(h) EXCEPT !.o.cycle = FALSE]
           w == Decref(h, v)
<1>1. /\ View(h) \in Views /\ View(h).o = obj[h] /\ View(h).u = uv[h] /\ View(h).l = loop
      /\ obj[h] \in Object /\ uv[h] \in UvHandle /\ loop \in LoopObject
      /\ Good(h, obj[h], uv[h], KindOf(h)) /\ KindOf(h) \in Kinds
      /\ (h \in loop.todo => uv[h].active)
  BY ViewFacts
<1>2. obj[h].mem = "live" /\ obj[h].cycle
  BY <1>1 DEF BreakCycle, Good, Sound, Object
<1>3. obj[h].refcnt \in Nat /\ obj[h].users \in Nat
  BY <1>1 DEF Object
<1>4. o \in Object
  BY <1>1 DEF Object
<1>5. /\ o.refcnt = obj[h].refcnt /\ o.users = obj[h].users
      /\ o.mem = "live" /\ o.loop = obj[h].loop /\ ~o.cycle
      /\ o.initialized = obj[h].initialized /\ o.pyref = obj[h].pyref
  BY <1>1, <1>2 DEF Object
<1>6. v = [o |-> o, u |-> uv[h], l |-> loop]
  <2>1. ASSUME NEW x
        PROVE  [View(h) EXCEPT !.o.cycle = x] = [o |-> [obj[h] EXCEPT !.cycle = x], u |-> uv[h], l |-> loop]
    BY <1>1 DEF Views
  <2> QED BY <2>1
<1>7. Commit(h, w)
  BY DEF BreakCycle
<1> HIDE DEF o, v
<1>8. v \in Views /\ v.o = o /\ v.u = uv[h] /\ v.l = loop
  BY <1>1, <1>4, <1>6 DEF Views
<1>9. Sound(h, o, uv[h], KindOf(h)) /\ HasLoop(o, uv[h], KindOf(h))
  BY <1>1, <1>2, <1>5 DEF Good, Sound, HasLoop
<1>10. o.refcnt = Owed(o, uv[h], KindOf(h)) + 1
  BY <1>1, <1>2, <1>3, <1>5 DEF Good, Counts, Owed, One
<1>11. Owing(h, v, KindOf(h))
  BY <1>5, <1>8, <1>9, <1>10 DEF Owing
<1>12. Plain(h, w, KindOf(h))
  BY <1>1, <1>8, <1>11, DecrefPlain
<1> HIDE DEF w
<1> QED BY <1>7, <1>12, QuietStep DEF BreakCycle

\* Handle_tp_clear and what follows from it keep the invariant.
LEMMA CollectKeeps ==
  ASSUME IInv, NEW h \in Handles, Collect(h)
  PROVE  IInv' /\ Final
<1> DEFINE d == DropLoop(View(h), "null")
           o == [d.o EXCEPT !.onClose = "null", !.cycle = FALSE]
           v == [d EXCEPT !.o = [@ EXCEPT !.onClose = "null", !.cycle = FALSE]]
           w == Decref(h, v)
<1>1. /\ View(h) \in Views /\ View(h).o = obj[h] /\ View(h).u = uv[h] /\ View(h).l = loop
      /\ obj[h] \in Object /\ uv[h] \in UvHandle /\ loop \in LoopObject
      /\ Good(h, obj[h], uv[h], KindOf(h)) /\ KindOf(h) \in Kinds
      /\ (h \in loop.todo => uv[h].active)
  BY ViewFacts
<1>2. obj[h].mem = "live" /\ obj[h].cycle /\ obj[h].refcnt = 1
  BY <1>1 DEF Collect, Good, Sound, Object
<1>3. obj[h].users = 0 /\ ~obj[h].pyref /\ KindOf(h) = "none" /\ uv[h].state # "closing"
  BY <1>1, <1>2 DEF Good, Counts, Owed, One, Object, Kinds
<1>4. /\ d \in Views /\ d.o = [obj[h] EXCEPT !.loop = "null"] /\ d.u = uv[h]
      /\ d.l.closing = loop.closing /\ d.l.todo = loop.todo
  BY <1>1, DropLoopView
<1>5. Commit(h, w)
  BY DEF Collect
<1> HIDE DEF d
<1>6. d.o \in Object /\ d.l \in LoopObject
  BY <1>4 DEF Views
<1>7. o \in Object
  BY <1>6 DEF Object
<1>8. o.refcnt = 1 /\ o.users = 0 /\ o.mem = "live" /\ ~o.cycle /\ ~o.pyref
  BY <1>1, <1>2, <1>3, <1>4 DEF Object
<1>9. o.initialized = obj[h].initialized
  BY <1>1, <1>4 DEF Object
<1>10. v = [o |-> o, u |-> uv[h], l |-> d.l]
  <2> HIDE DEF o
  <2>1. v = [d EXCEPT !.o = o]
    BY DEF o
  <2> QED BY <1>4, <2>1 DEF Views
<1> HIDE DEF o, v
<1>11. v \in Views /\ v.o = o /\ v.u = uv[h] /\ v.l = d.l
  BY <1>1, <1>6, <1>7, <1>10 DEF Views
<1>12. Sound(h, o, uv[h], KindOf(h))
  BY <1>1, <1>2, <1>3, <1>8, <1>9 DEF Good, Sound
<1>13. Owed(o, uv[h], KindOf(h)) = 0
  BY <1>3, <1>8 DEF Owed, One
<1>14. Owing(h, v, KindOf(h))
  BY <1>8, <1>11, <1>12, <1>13 DEF Owing
<1>15. Plain(h, w, KindOf(h))
  BY <1>1, <1>4, <1>11, <1>14, DecrefPlain
<1> HIDE DEF w
<1> QED BY <1>5, <1>15, QuietStep DEF Collect

\* A step on the Loop object and the phase of uv_run alone.
LEMMA LoopStepKeeps ==
  ASSUME IInv, UNCHANGED <<obj, uv, batch, cb, closeRuns>>, loop' \in LoopObject,
         loop'.closing = loop.closing, \A g \in loop'.todo : uv[g].active,
         phase' \in Phases, phase' = "out" => cb.kind = "none",
         phase' # "closing" => batch = <<>>, cb.kind = "close" => phase' = "closing"
  PROVE  IInv' /\ Final
<1>1. TypeOK'
  BY DEF IInv, TypeOK
<1>2. \A g \in Handles : Good(g, obj'[g], uv'[g], KindOf(g)')
  BY DEF IInv, KindOf
<1>3. ClosingListed'
  BY DEF IInv, ClosingListed
<1>4. Control'
  BY DEF IInv, Control
<1>5. CloseCallbackOnce'
  BY DEF IInv, CloseCallbackOnce
<1>6. \A g \in loop'.todo : uv'[g].active
  OBVIOUS
<1> QED BY <1>1, <1>2, <1>3, <1>4, <1>5, <1>6 DEF IInv, Final, Resurrected

\* A new Python reference to the loop keeps the invariant.
LEMMA TakeLoopKeeps == IInv /\ TakeLoop => IInv' /\ Final
<1> SUFFICES ASSUME IInv, TakeLoop PROVE IInv' /\ Final
  OBVIOUS
<1>1. loop \in LoopObject /\ Control /\ phase \in Phases /\ \A g \in loop.todo : uv[g].active
  BY DEF IInv, TypeOK
<1>2. loop' \in LoopObject /\ loop'.closing = loop.closing /\ loop'.todo = loop.todo
  <2> DEFINE l == [loop EXCEPT !.users = 1, !.refcnt = @ + 1]
  <2>1. loop.refcnt + 1 \in Int /\ 1 \in 0..1
    BY <1>1 DEF LoopObject
  <2>2. l \in LoopObject
    BY <1>1, <2>1 DEF LoopObject
  <2>3. l.closing = loop.closing /\ l.todo = loop.todo
    BY <1>1 DEF LoopObject
  <2>4. loop' = l
    BY DEF TakeLoop
  <2> QED BY <2>2, <2>3, <2>4
<1> QED BY <1>1, <1>2, LoopStepKeeps DEF TakeLoop, control, Control

\* Timers that become due during the pass keep the invariant.
LEMMA UpdateTimeKeeps == IInv /\ UpdateTime => IInv' /\ Final
<1> SUFFICES ASSUME IInv, UpdateTime PROVE IInv' /\ Final
  OBVIOUS
<1>1. loop \in LoopObject /\ Control /\ phase \in Phases /\ \A g \in loop.todo : uv[g].active
  BY DEF IInv, TypeOK
<1>2. PICK due \in SUBSET {t \in Timers : uv[t].active} : loop' = [loop EXCEPT !.todo = @ \cup due]
  BY DEF UpdateTime
<1>3. due \subseteq Handles
  BY <1>2 DEF Handles
<1>4. loop' \in LoopObject /\ loop'.closing = loop.closing /\ loop'.todo = loop.todo \cup due
  BY <1>1, <1>2, <1>3 DEF LoopObject
<1> QED BY <1>1, <1>4, LoopStepKeeps DEF UpdateTime, control, Control

\* Dropping a Python reference to the loop keeps the invariant.
LEMMA DropLoopRefKeeps == IInv /\ DropLoopRef => IInv' /\ Final
<1> SUFFICES ASSUME IInv, DropLoopRef PROVE IInv' /\ Final
  OBVIOUS
<1>1. loop \in LoopObject /\ Control /\ phase \in Phases /\ \A g \in loop.todo : uv[g].active
  BY DEF IInv, TypeOK
<1> DEFINE l == [loop EXCEPT !.users = 0]
<1>2. l \in LoopObject /\ l.closing = loop.closing /\ l.todo = loop.todo
  BY <1>1 DEF LoopObject
<1>3. loop' = LoopDecref(l)
  BY DEF DropLoopRef
<1> HIDE DEF l
<1>4. loop' \in LoopObject /\ loop'.closing = loop.closing /\ loop'.todo = loop.todo
  BY <1>2, <1>3, LoopDecrefType
<1> QED BY <1>1, <1>4, LoopStepKeeps DEF DropLoopRef, control, Control

-----------------------------------------------------------------------------
(* The loop.                                                               *)

\* The timers pass starts with a set of handles.
LEMMA BeginTimersType ==
  ASSUME IInv, NEW l \in LoopObject, BeginTimers(l)
  PROVE  /\ loop' \in LoopObject /\ loop'.closing = l.closing
         /\ \A g \in loop'.todo : uv[g].active
<1>1. PICK due \in SUBSET {t \in Timers : uv[t].active} : loop' = [l EXCEPT !.todo = due]
  BY DEF BeginTimers
<1>2. due \subseteq Handles
  BY <1>1 DEF Handles
<1> QED BY <1>1, <1>2 DEF LoopObject

\* Entering uv_run keeps the invariant.
LEMMA RunKeeps == IInv /\ Run => IInv' /\ Final
<1> SUFFICES ASSUME IInv, Run PROVE IInv' /\ Final
  OBVIOUS
<1> DEFINE l == [loop EXCEPT !.refcnt = @ + 1]
<1>1. l \in LoopObject /\ l.closing = loop.closing
  <2>1. loop \in LoopObject
    BY DEF IInv, TypeOK
  <2>2. loop.refcnt + 1 \in Int
    BY <2>1 DEF LoopObject
  <2> QED BY <2>1, <2>2 DEF LoopObject
<1>2. BeginTimers(l)
  BY DEF Run
<1> HIDE DEF l
<1>3. loop' \in LoopObject /\ loop'.closing = loop.closing /\ \A g \in loop'.todo : uv[g].active
  BY <1>1, <1>2, BeginTimersType
<1> QED BY <1>3, LoopStepKeeps DEF Run, IInv, Control, Phases

\* The idle, prepare and check phases start with the invariant.
LEMMA RunWatchersKeeps == IInv /\ RunWatchers => IInv' /\ Final
<1> SUFFICES ASSUME IInv, RunWatchers PROVE IInv' /\ Final
  OBVIOUS
<1>1. {w \in Watchers : uv[w].active} \subseteq Handles
  BY DEF Handles
<1>2. loop' \in LoopObject /\ loop'.closing = loop.closing /\ \A g \in loop'.todo : uv[g].active
  BY <1>1 DEF RunWatchers, IInv, TypeOK, LoopObject
<1> QED BY <1>2, LoopStepKeeps DEF RunWatchers, PhaseDone, IInv, Control, Phases

\* The poll phase starts with the invariant.
LEMMA PollKeeps == IInv /\ Poll => IInv' /\ Final
<1> SUFFICES ASSUME IInv, Poll PROVE IInv' /\ Final
  OBVIOUS
<1> DEFINE S == {a \in Asyncs : uv[a].state = "open"}
<1>1. S \subseteq Handles /\ \A g \in S : uv[g].active
  BY DEF Handles, IInv, Good, Sound
<1>2. loop' = [loop EXCEPT !.todo = S] /\ loop \in LoopObject
  BY DEF Poll, IInv, TypeOK
<1> HIDE DEF S
<1>3. loop' \in LoopObject /\ loop'.closing = loop.closing /\ loop'.todo = S
  BY <1>1, <1>2 DEF LoopObject
<1> QED BY <1>1, <1>3, LoopStepKeeps DEF Poll, PhaseDone, IInv, Control, Phases

\* The closing list becomes the batch, in the same order.
LEMMA RunClosingKeeps == IInv /\ RunClosing => IInv' /\ Final
<1> SUFFICES ASSUME IInv, RunClosing PROVE IInv' /\ Final
  OBVIOUS
<1>1. /\ loop \in LoopObject /\ ClosingListed /\ Control /\ phase = "poll" /\ cb.kind = "none"
      /\ batch = <<>> /\ loop.todo = {}
  BY DEF IInv, TypeOK, RunClosing, PhaseDone, Control
<1>2. <<>> \in Seq(Handles) /\ Distinct(<<>>) /\ \A x : ~InList(x, <<>>)
  BY EmptyList
<1>3. /\ loop' \in LoopObject /\ loop'.closing = <<>> /\ loop'.todo = {}
      /\ batch' = loop.closing /\ loop.closing \in Seq(Handles)
  BY <1>1, <1>2 DEF RunClosing, LoopObject
<1>4. TypeOK'
  BY <1>3 DEF IInv, TypeOK, RunClosing, Phases
<1>5. \A g \in Handles : Good(g, obj'[g], uv'[g], KindOf(g)')
  BY DEF IInv, KindOf, RunClosing
<1>6. ClosingListed'
  BY <1>1, <1>2, <1>3 DEF ClosingListed, RunClosing
<1>7. Control' /\ CloseCallbackOnce'
  BY <1>1 DEF IInv, Control, CloseCallbackOnce, RunClosing
<1> QED BY <1>3, <1>4, <1>5, <1>6, <1>7 DEF IInv, Final, Resurrected, RunClosing

\* Going on to the next iteration keeps the invariant.
LEMMA NextIterationKeeps == IInv /\ NextIteration => IInv' /\ Final
<1> SUFFICES ASSUME IInv, NextIteration PROVE IInv' /\ Final
  OBVIOUS
<1>1. loop' \in LoopObject /\ loop'.closing = loop.closing /\ \A g \in loop'.todo : uv[g].active
  BY BeginTimersType DEF NextIteration, IInv, TypeOK
<1> QED BY <1>1, LoopStepKeeps DEF NextIteration, PhaseDone, IInv, Control, Phases

\* Returning from uv_run keeps the invariant.
LEMMA ReturnKeeps == IInv /\ Return => IInv' /\ Final
<1> SUFFICES ASSUME IInv, Return PROVE IInv' /\ Final
  OBVIOUS
<1>1. loop \in LoopObject /\ Control /\ \A g \in loop.todo : uv[g].active
  BY DEF IInv, TypeOK
<1>2. loop' \in LoopObject /\ loop'.closing = loop.closing /\ loop'.todo = loop.todo
  BY <1>1, LoopDecrefType DEF Return
<1>3. batch = <<>> /\ cb.kind = "none"
  BY <1>1 DEF Return, PhaseDone, Control
<1> QED BY <1>1, <1>2, <1>3, LoopStepKeeps DEF Return, Control, Phases

-----------------------------------------------------------------------------
(* Callbacks.                                                              *)

\* Entering the callback of an open handle, with the view v libuv left of it.
LEMMA EnterKeeps ==
  ASSUME IInv, NEW h \in Handles, NEW v \in Views, EnterCallback(h, v),
         cb.kind = "none", phase # "out", v.o = obj[h],
         uv[h].state = "open", v.u.state = "open", v.u.closeCb = uv[h].closeCb,
         Sound(h, obj[h], v.u, "none"),
         v.l.closing = loop.closing, v.l.todo \subseteq loop.todo,
         h \in v.l.todo => v.u.active
  PROVE  IInv' /\ Final
<1> DEFINE o == [obj[h] EXCEPT !.refcnt = @ + 1]
           w == Incref(v)
<1>1. /\ obj[h] \in Object /\ Good(h, obj[h], uv[h], KindOf(h))
      /\ phase \in Phases /\ cb \in Calls /\ Control /\ NoHandle \notin Handles
  BY ViewFacts, ConstantsAssumption
<1>2. KindOf(h) = "none" /\ (\A g \in Handles : KindOf(g) = "none")
  BY <1>1 DEF KindOf, Control
<1>3. obj[h].mem = "live" /\ obj[h].loop = "loop"
  BY <1>1 DEF Good, Sound, HasLoop, Object
<1>4. obj[h].refcnt + 1 \in Nat /\ obj[h].refcnt \in Nat /\ obj[h].users \in Nat
  BY <1>1 DEF Object
<1>5. o \in Object
  BY <1>1, <1>4 DEF Object
<1>6. /\ o.refcnt = obj[h].refcnt + 1 /\ o.users = obj[h].users
      /\ o.mem = "live" /\ o.loop = "loop" /\ o.cycle = obj[h].cycle
      /\ o.initialized = obj[h].initialized /\ o.pyref = obj[h].pyref
  BY <1>1, <1>3, <1>4 DEF Object
<1>7. w = [o |-> o, u |-> v.u, l |-> v.l]
  BY DEF Incref, Views
<1>8. Commit(h, w) /\ UNCHANGED <<batch, phase, closeRuns>> /\ cb' = [kind |-> "fire", handle |-> h]
  BY DEF EnterCallback
<1> HIDE DEF o, w
<1>9. w \in Views /\ w.o = o /\ w.u = v.u /\ w.l = v.l
  BY <1>5, <1>7 DEF Views
<1>10. Sound(h, o, v.u, "fire") /\ HasLoop(o, v.u, "fire")
  BY <1>3, <1>6 DEF Sound, HasLoop
<1>11. Counts(o, v.u, "fire")
  BY <1>1, <1>2, <1>3, <1>4, <1>6 DEF Good, Counts, Owed, One
<1>12. KindOf(h)' = "fire" /\ \A g \in Handles \ {h} : KindOf(g)' = "none"
  BY <1>8 DEF KindOf
<1>13. Plain(h, w, KindOf(h)')
  BY <1>9, <1>10, <1>11, <1>12 DEF Plain, Good
<1>14. cb' \in Calls /\ Control'
  BY <1>1, <1>8 DEF Calls, Kinds, Control
<1> QED BY <1>1, <1>2, <1>8, <1>12, <1>13, <1>14, PlainStep

\* uv__run_timers enters pyuv__timer_cb with the invariant, for an active timer.
LEMMA FireTimerKeeps ==
  ASSUME IInv, NEW h \in Timers, FireTimer(h)
  PROVE  IInv' /\ Final
<1> DEFINE v == UvStop(h, View(h))
           w == IF uv[h].repeat THEN UvStart(v) ELSE v
<1>0. h \in Handles /\ h \notin Watchers /\ h \notin Asyncs
  BY ConstantsAssumption DEF Handles
<1>1. /\ View(h) \in Views /\ View(h).o = obj[h] /\ View(h).u = uv[h] /\ View(h).l = loop
      /\ uv[h] \in UvHandle
      /\ Good(h, obj[h], uv[h], KindOf(h)) /\ uv[h].active
      /\ Control /\ phase # "out" /\ cb.kind = "none" /\ NoHandle \notin Handles
  BY <1>0, ViewFacts, ConstantsAssumption DEF FireTimer, InTimersPass
<1>2. KindOf(h) = "none" /\ uv[h].state = "open"
  BY <1>0, <1>1 DEF KindOf, Control, Good, Sound
<1>3. /\ v \in Views /\ v.o = obj[h] /\ v.u = [uv[h] EXCEPT !.active = FALSE]
      /\ v.l.closing = loop.closing /\ v.l.todo = loop.todo \ {h}
  BY <1>0, <1>1, StopView
<1> HIDE DEF v
<1>4. v.u \in UvHandle /\ v.u.state = "open" /\ v.u.closeCb = uv[h].closeCb
  BY <1>1, <1>2, <1>3 DEF UvHandle
<1>5. /\ w \in Views /\ w.o = obj[h] /\ w.l.closing = loop.closing /\ w.l.todo = loop.todo \ {h}
      /\ w.u.state = "open" /\ w.u.closeCb = uv[h].closeCb
  <2>1. CASE uv[h].repeat
    <3>1. /\ w \in Views /\ w.o = v.o /\ w.u = [v.u EXCEPT !.active = TRUE]
          /\ w.l.closing = v.l.closing /\ w.l.todo = v.l.todo
      BY <1>3, <2>1, StartView
    <3> HIDE DEF w
    <3>2. w.u.state = "open" /\ w.u.closeCb = uv[h].closeCb
      BY <1>4, <3>1 DEF UvHandle
    <3> QED BY <1>3, <3>1, <3>2
  <2>2. CASE ~uv[h].repeat
    BY <1>3, <1>4, <2>2
  <2> QED BY <2>1, <2>2
<1>6. EnterCallback(h, w)
  BY DEF FireTimer, v
<1> HIDE DEF w
<1>7. Sound(h, obj[h], w.u, "none")
  BY <1>0, <1>1, <1>2, <1>5 DEF Good, Sound
<1> QED BY <1>0, <1>1, <1>2, <1>5, <1>6, <1>7, EnterKeeps

\* Visiting a handle removes it from the list being visited only.
LEMMA ServeView ==
  ASSUME NEW v \in Views, NEW h \in Handles
  PROVE  LET w == Serve(h, v) IN
         /\ w \in Views /\ w.o = v.o /\ w.u = v.u
         /\ w.l.closing = v.l.closing /\ w.l.todo = v.l.todo \ {h}
<1> DEFINE l == [v.l EXCEPT !.todo = @ \ {h}]
<1>1. v.o \in Object /\ v.u \in UvHandle /\ v.l \in LoopObject
  BY DEF Views
<1>2. l \in LoopObject /\ l.closing = v.l.closing /\ l.todo = v.l.todo \ {h}
  BY <1>1 DEF LoopObject
<1>3. Serve(h, v) = [o |-> v.o, u |-> v.u, l |-> l]
  BY DEF Serve, Views
<1> HIDE DEF l
<1> QED BY <1>1, <1>2, <1>3 DEF Views

\* uv__run_idle and its twins enter the callback of an active watcher only.
LEMMA FireWatcherKeeps ==
  ASSUME IInv, NEW h \in Watchers, FireWatcher(h)
  PROVE  IInv' /\ Final
<1> DEFINE v == Serve(h, View(h))
<1>0. h \in Handles
  BY DEF Handles
<1>1. /\ View(h) \in Views /\ View(h).o = obj[h] /\ View(h).u = uv[h] /\ View(h).l = loop
      /\ Good(h, obj[h], uv[h], KindOf(h)) /\ uv[h].active
      /\ Control /\ phase # "out" /\ cb.kind = "none" /\ NoHandle \notin Handles
  BY <1>0, ViewFacts, ConstantsAssumption DEF FireWatcher
<1>2. KindOf(h) = "none" /\ uv[h].state = "open"
  BY <1>0, <1>1 DEF KindOf, Control, Good, Sound
<1>3. /\ v \in Views /\ v.o = obj[h] /\ v.u = uv[h]
      /\ v.l.closing = loop.closing /\ v.l.todo = loop.todo \ {h}
  BY <1>0, <1>1, ServeView
<1>4. EnterCallback(h, v)
  BY DEF FireWatcher
<1> HIDE DEF v
<1> QED BY <1>0, <1>1, <1>2, <1>3, <1>4, EnterKeeps DEF Good

\* uv__async_io keeps the invariant, with or without a callback.
LEMMA FireAsyncKeeps ==
  ASSUME IInv, NEW h \in Asyncs, FireAsync(h)
  PROVE  IInv' /\ Final
<1> DEFINE v == Serve(h, View(h))
           u == [uv[h] EXCEPT !.pending = FALSE]
           w == [v EXCEPT !.u.pending = FALSE]
<1>0. h \in Handles
  BY DEF Handles
<1>1. /\ View(h) \in Views /\ View(h).o = obj[h] /\ View(h).u = uv[h] /\ View(h).l = loop
      /\ uv[h] \in UvHandle
      /\ Good(h, obj[h], uv[h], KindOf(h)) /\ uv[h].active
      /\ Control /\ phase # "out" /\ cb.kind = "none" /\ NoHandle \notin Handles
  BY <1>0, ViewFacts, ConstantsAssumption DEF FireAsync
<1>2. KindOf(h) = "none" /\ uv[h].state = "open"
  BY <1>0, <1>1 DEF KindOf, Control, Good, Sound
<1>3. /\ v \in Views /\ v.o = obj[h] /\ v.u = uv[h]
      /\ v.l.closing = loop.closing /\ v.l.todo = loop.todo \ {h}
  BY <1>0, <1>1, ServeView
<1>4. \/ EnterCallback(h, w)
      \/ Commit(h, w) /\ UNCHANGED control
  BY DEF FireAsync
<1> HIDE DEF v
<1>5. u \in UvHandle /\ u.state = "open" /\ u.closeCb = uv[h].closeCb /\ u.active
  BY <1>1, <1>2 DEF UvHandle
<1>6. w = [o |-> obj[h], u |-> u, l |-> v.l]
  <2>1. ASSUME NEW x
        PROVE  [v EXCEPT !.u.pending = x] = [o |-> v.o, u |-> [v.u EXCEPT !.pending = x], l |-> v.l]
    BY <1>3 DEF Views
  <2> QED BY <1>3, <2>1
<1> HIDE DEF u, w
<1>7. w \in Views /\ w.o = obj[h] /\ w.u = u /\ w.l = v.l
  BY <1>3, <1>5, <1>6 DEF Views
<1>8. Sound(h, obj[h], u, "none") /\ Good(h, obj[h], u, KindOf(h))
  BY <1>1, <1>2, <1>5 DEF Good, Sound, HasLoop, Counts, Owed
<1>9. Plain(h, w, KindOf(h))
  BY <1>2, <1>3, <1>5, <1>7, <1>8 DEF Plain
<1>10. CASE EnterCallback(h, w)
  BY <1>0, <1>1, <1>2, <1>3, <1>5, <1>7, <1>8, <1>10, EnterKeeps
<1>11. CASE Commit(h, w) /\ UNCHANGED control
  BY <1>0, <1>9, <1>11, QuietStep
<1> QED BY <1>4, <1>10, <1>11

\* The fire or close callback of h is the only one running.
LEMMA RunningCallback ==
  ASSUME IInv, cb.kind # "none"
  PROVE  /\ cb.handle \in Handles /\ KindOf(cb.handle) = cb.kind
         /\ \A g \in Handles \ {cb.handle} : KindOf(g) = "none"
         /\ cb' = NoCall => \A g \in Handles : KindOf(g)' = "none"
BY ConstantsAssumption DEF IInv, TypeOK, Control, KindOf, NoCall

\* The Py_DECREF(self) after a callback keeps the invariant.
LEMMA LeaveCallbackKeeps == IInv /\ LeaveCallback => IInv' /\ Final
<1> SUFFICES ASSUME IInv, LeaveCallback PROVE IInv' /\ Final
  OBVIOUS
<1> DEFINE h == cb.handle
           v == View(h)
           w == Decref(h, v)
<1>1. /\ h \in Handles /\ KindOf(h) = "fire"
      /\ \A g \in Handles \ {h} : KindOf(g) = "none"
      /\ \A g \in Handles : KindOf(g)' = "none"
  BY RunningCallback DEF LeaveCallback
<1> DEFINE k == "none"
<1>2. /\ v \in Views /\ v.o = obj[h] /\ v.u = uv[h] /\ v.l = loop
      /\ obj[h] \in Object
      /\ Good(h, obj[h], uv[h], "fire") /\ "none" \in Kinds
      /\ (h \in loop.todo => uv[h].active)
      /\ phase \in Phases /\ Control
  BY <1>1, ViewFacts DEF Kinds
<1>3. obj[h].mem = "live"
  BY <1>2 DEF Good, Sound, Object
<1>4. Sound(h, obj[h], uv[h], "none") /\ HasLoop(obj[h], uv[h], "none")
  BY <1>2, <1>3 DEF Good, Sound, HasLoop
<1>5. obj[h].refcnt = Owed(obj[h], uv[h], "none") + 1
  <2>1. obj[h].refcnt \in Nat /\ obj[h].users \in Nat
    BY <1>2 DEF Object
  <2> QED BY <1>2, <1>3, <2>1 DEF Good, Counts, Owed, One
<1>6. Commit(h, w) /\ UNCHANGED <<batch, phase, closeRuns>> /\ cb' = NoCall
  BY DEF LeaveCallback
<1> HIDE DEF h, v
<1>7. Owing(h, v, "none")
  BY <1>2, <1>3, <1>4, <1>5 DEF Owing
<1>8. Plain(h, w, "none")
  BY <1>1, <1>2, <1>7, DecrefPlain
<1> HIDE DEF w
<1>9. cb' \in Calls /\ Control'
  BY <1>2, <1>6 DEF Calls, Kinds, NoCall, Control, LeaveCallback
<1> QED BY <1>1, <1>2, <1>6, <1>8, <1>9, PlainStep

\* The end of pyuv__handle_close_cb on a closed handle that holds libuv's
\* reference and perhaps the one of start().
LEMMA EndCloseView ==
  ASSUME NEW h \in Handles, NEW v \in Views, v.o.mem = "live", v.u.state = "closed",
         v.u.closeCb = "user", ~v.u.active, v.o.initialized,
         v.o.refcnt = Owed(v.o, v.u, "none") + 1
  PROVE  LET w == Decref(h, HandleDecref(h, [DropLoop(v, "None") EXCEPT !.o.onClose = "null"])) IN
         /\ w \in Views /\ Good(h, w.o, w.u, "none") /\ w.u = v.u
         /\ w.l.closing = v.l.closing /\ w.l.todo = v.l.todo
<1> DEFINE d == DropLoop(v, "None")
           f == [d EXCEPT !.o.onClose = "null"]
           o == [d.o EXCEPT !.onClose = "null"]
           p == HandleDecref(h, f)
           w == Decref(h, p)
<1>1. /\ d \in Views /\ d.o = [v.o EXCEPT !.loop = "None"] /\ d.u = v.u
      /\ d.l.closing = v.l.closing /\ d.l.todo = v.l.todo
      /\ v.o \in Object
  BY DropLoopView DEF Views
<1> HIDE DEF d
<1>2. o \in Object
  BY <1>1 DEF Views, Object
<1>3. /\ o.refcnt = v.o.refcnt /\ o.users = v.o.users /\ o.mem = "live"
      /\ o.cycle = v.o.cycle /\ o.initialized = v.o.initialized /\ o.pyref = v.o.pyref
  BY <1>1 DEF Object
<1>4. f = [o |-> o, u |-> v.u, l |-> d.l]
  BY <1>1 DEF Views
<1> HIDE DEF o, f
<1>5. f \in Views /\ f.o = o /\ f.u = v.u /\ f.l = d.l
  BY <1>1, <1>2, <1>4 DEF Views
<1>6. /\ p \in Views /\ p.u = v.u /\ p.l = d.l
      /\ p.o.mem = "live" /\ ~p.o.pyref /\ p.o.initialized
      /\ p.o.refcnt = Owed(p.o, v.u, "none") + 1
  <2>0. o.refcnt \in Nat /\ o.users \in Nat
    BY <1>2 DEF Object
  <2>1. CASE ~o.pyref
    BY <1>3, <1>5, <2>0, <2>1 DEF HandleDecref, Owed, One
  <2>2. CASE o.pyref
    <3> DEFINE q == [o EXCEPT !.pyref = FALSE]
               r == [q EXCEPT !.refcnt = @ - 1]
    <3>1. o.refcnt > 1 /\ o.refcnt - 1 \in Nat
      BY <1>3, <2>0, <2>2 DEF Owed, One
    <3>2. q \in Object /\ ~q.pyref /\ q.refcnt = o.refcnt /\ q.users = o.users
          /\ q.mem = "live" /\ q.cycle = o.cycle /\ q.initialized = o.initialized
      BY <1>2, <1>3 DEF Object
    <3> HIDE DEF q
    <3>3. r \in Object /\ ~r.pyref /\ r.refcnt = o.refcnt - 1 /\ r.users = o.users
          /\ r.mem = "live" /\ r.cycle = o.cycle /\ r.initialized = o.initialized
      BY <3>1, <3>2 DEF Object
    <3>4. p = [o |-> r, u |-> v.u, l |-> d.l]
      <4> DEFINE e == [f EXCEPT !.o.pyref = FALSE]
      <4>1. ASSUME NEW x
            PROVE  [f EXCEPT !.o.pyref = x] = [o |-> [f.o EXCEPT !.pyref = x], u |-> f.u, l |-> f.l]
        BY <1>5 DEF Views
      <4>2. e = [o |-> q, u |-> v.u, l |-> d.l]
        BY <1>5, <4>1 DEF q
      <4>3. p = Decref(h, e)
        BY <1>5, <2>2 DEF HandleDecref
      <4> HIDE DEF e
      <4>4. e \in Views /\ e.o = q /\ e.u = v.u /\ e.l = d.l
        BY <1>1, <3>2, <4>2 DEF Views
      <4>5. p = [e EXCEPT !.o.refcnt = @ - 1]
        BY <3>1, <3>2, <4>3, <4>4 DEF Decref
      <4> QED BY <4>4, <4>5 DEF Views
    <3> HIDE DEF r, p
    <3>5. p \in Views /\ p.o = r /\ p.u = v.u /\ p.l = d.l
      BY <1>1, <3>3, <3>4 DEF Views
    <3>6. o.refcnt = Owed(o, v.u, "none") + 1
      BY <1>3 DEF Owed
    <3>7. r.refcnt = Owed(r, v.u, "none") + 1
      BY <2>0, <2>2, <3>3, <3>6 DEF Owed, One
    <3> QED BY <1>3, <3>3, <3>5, <3>7
  <2> QED BY <2>1, <2>2
<1> HIDE DEF p
<1>7. Owing(h, p, "none")
  BY <1>6 DEF Owing, Sound, HasLoop
<1>8. Dropped(h, p, w, "none")
  BY <1>7, DecrefView DEF Kinds
<1> HIDE DEF w
<1>9. w \in Views /\ Good(h, w.o, w.u, "none") /\ w.u = v.u
      /\ w.l.closing = v.l.closing /\ w.l.todo = v.l.todo
  BY <1>1, <1>6, <1>8 DEF Dropped
<1> QED BY <1>9 DEF w, p, f, d

\* The rest of pyuv__handle_close_cb after the Python callback keeps the invariant.
LEMMA LeaveCloseCallbackKeeps == IInv /\ LeaveCloseCallback => IInv' /\ Final
<1> SUFFICES ASSUME IInv, LeaveCloseCallback PROVE IInv' /\ Final
  OBVIOUS
<1> DEFINE h == cb.handle
           v == View(h)
           w == Decref(h, HandleDecref(h, [DropLoop(v, "None") EXCEPT !.o.onClose = "null"]))
<1>1. /\ h \in Handles /\ KindOf(h) = "close"
      /\ \A g \in Handles \ {h} : KindOf(g) = "none"
      /\ \A g \in Handles : KindOf(g)' = "none"
  BY RunningCallback DEF LeaveCloseCallback
<1>2. /\ v \in Views /\ v.o = obj[h] /\ v.u = uv[h] /\ v.l = loop
      /\ obj[h] \in Object
      /\ Good(h, obj[h], uv[h], "close")
      /\ (h \in loop.todo => uv[h].active)
      /\ phase \in Phases /\ Control
  BY <1>1, ViewFacts
<1>3. /\ obj[h].mem = "live" /\ uv[h].state = "closed" /\ uv[h].closeCb = "user"
      /\ ~uv[h].active /\ obj[h].initialized
  BY <1>2 DEF Good, Sound, Object
<1>4. obj[h].refcnt = Owed(obj[h], uv[h], "none") + 1
  <2>1. obj[h].refcnt \in Nat /\ obj[h].users \in Nat
    BY <1>2 DEF Object
  <2> QED BY <1>2, <1>3, <2>1 DEF Good, Counts, Owed, One
<1>5. Commit(h, w) /\ UNCHANGED <<batch, phase, closeRuns>> /\ cb' = NoCall
  BY DEF LeaveCloseCallback, EndClose
<1>6. /\ w \in Views /\ Good(h, w.o, w.u, "none") /\ w.u = v.u
      /\ w.l.closing = v.l.closing /\ w.l.todo = v.l.todo
  <2> HIDE DEF h, v
  <2> QED BY <1>1, <1>2, <1>3, <1>4, EndCloseView
<1> HIDE DEF h, v, w
<1>7. Plain(h, w, "none")
  BY <1>2, <1>3, <1>6 DEF Plain
<1>8. cb' \in Calls /\ Control'
  BY <1>2, <1>5 DEF Calls, Kinds, NoCall, Control, LeaveCloseCallback
<1> QED BY <1>1, <1>2, <1>5, <1>7, <1>8, PlainStep

\* The next handle of the batch becomes closed.
LEMMA ClosedStep ==
  ASSUME IInv, phase = "closing", cb.kind = "none", batch # <<>>,
         NEW h, h = Head(batch), NEW w \in Views, Commit(h, w),
         Good(h, w.o, w.u, KindOf(h)'),
         w.u.state = "closed", w.u.closeCb = uv[h].closeCb,
         w.l.closing = loop.closing, w.l.todo = loop.todo,
         batch' = Tail(batch), phase' = phase, cb' \in Calls, Control',
         \A g \in Handles \ {h} : KindOf(g)' = KindOf(g),
         closeRuns' = IF uv[h].closeCb = "user" THEN [closeRuns EXCEPT ![h] = @ + 1]
                      ELSE closeRuns
  PROVE  IInv' /\ Final
<1>1. /\ TypeOK /\ ClosingListed /\ batch \in Seq(Handles)
      /\ w.o \in Object /\ w.u \in UvHandle /\ w.l \in LoopObject
  BY DEF IInv, TypeOK, Views
<1>2. /\ batch' \in Seq(Handles) /\ h \in Handles /\ InList(h, batch)
      /\ \A x : InList(x, batch') => InList(x, batch)
      /\ \A x : InList(x, batch) => x = h \/ InList(x, batch')
      /\ Distinct(batch') /\ ~InList(h, batch')
  <2>1. Distinct(batch)
    BY <1>1 DEF ClosingListed
  <2> QED BY <1>1, <2>1, PopList
<1>3. uv[h].state = "closing" /\ ~InList(h, loop.closing)
  BY <1>1, <1>2 DEF ClosingListed
<1>4. /\ obj' \in [Handles -> Object] /\ uv' \in [Handles -> UvHandle] /\ loop' = w.l
      /\ obj'[h] = w.o /\ uv'[h] = w.u
      /\ \A g \in Handles \ {h} : obj'[g] = obj[g] /\ uv'[g] = uv[g]
  BY <1>1, <1>2 DEF Commit, TypeOK
<1>5. closeRuns[h] = 0 /\ closeRuns \in [Handles -> Nat]
  BY <1>1, <1>2, <1>3 DEF IInv, CloseCallbackOnce, One, TypeOK
<1>6. TypeOK'
  BY <1>1, <1>2, <1>4, <1>5 DEF TypeOK, Calls, Kinds
<1>7. \A g \in Handles : Good(g, obj'[g], uv'[g], KindOf(g)')
  BY <1>4 DEF IInv
<1>8. \A g \in loop'.todo : uv'[g].active
  <2>1. loop.todo \subseteq Handles /\ \A g \in loop.todo : uv[g].active
    BY <1>1 DEF TypeOK, LoopObject, IInv
  <2>2. ~uv[h].active
    BY <1>2, <1>3 DEF IInv, Good, Sound
  <2> QED BY <1>4, <2>1, <2>2
<1>9. ClosingListed'
  BY <1>1, <1>2, <1>3, <1>4 DEF ClosingListed
<1>10. CloseCallbackOnce'
  <2>1. closeRuns'[h] = One(uv[h].closeCb = "user")
    BY <1>2, <1>5 DEF One
  <2>2. \A g \in Handles \ {h} : closeRuns'[g] = closeRuns[g]
    BY <1>5
  <2> QED BY <1>4, <2>1, <2>2 DEF IInv, CloseCallbackOnce, One
<1>11. Final
  BY <1>4 DEF Final, Closing, Resurrected
<1> QED BY <1>6, <1>7, <1>8, <1>9, <1>10, <1>11 DEF IInv

\* uv__finish_close with either close callback keeps the invariant.
LEMMA FinishCloseKeeps == IInv /\ FinishClose => IInv' /\ Final
<1> SUFFICES ASSUME IInv, FinishClose PROVE IInv' /\ Final
  OBVIOUS
<1>1. /\ phase = "closing" /\ cb.kind = "none" /\ batch # <<>> /\ batch' = Tail(batch)
      /\ phase' = phase
      /\ Control /\ NoHandle \notin Handles
  BY ConstantsAssumption DEF FinishClose, IInv
<1>2. PICK h \in Handles : h = Head(batch) /\ InList(h, batch)
  BY <1>1, PopList DEF IInv, TypeOK
<1> DEFINE u == [uv[h] EXCEPT !.state = "closed", !.ref = FALSE]
           v == SetFlags(View(h), u)
           done == Decref(h, v)
           ended == Decref(h, HandleDecref(h, [DropLoop(v, "None") EXCEPT !.o.onClose = "null"]))
<1>3. \/ /\ uv[h].closeCb = "dealloc" /\ Commit(h, done) /\ UNCHANGED <<cb, closeRuns>>
      \/ /\ uv[h].closeCb = "user" /\ closeRuns' = [closeRuns EXCEPT ![h] = @ + 1]
         /\ \/ obj[h].onClose = "callable" /\ Commit(h, v) /\ cb' = [kind |-> "close", handle |-> h]
            \/ Commit(h, ended) /\ UNCHANGED cb
  BY <1>2 DEF FinishClose, EndClose
<1>4. /\ View(h) \in Views /\ View(h).o = obj[h] /\ View(h).u = uv[h] /\ View(h).l = loop
      /\ obj[h] \in Object /\ uv[h] \in UvHandle /\ cb \in Calls
      /\ Good(h, obj[h], uv[h], "none") /\ uv[h].state = "closing"
      /\ \A g \in Handles : KindOf(g) = "none"
  <2>1. \A g \in Handles : KindOf(g) = "none"
    BY <1>1 DEF KindOf, Control
  <2>2. uv[h].state = "closing"
    BY <1>2 DEF IInv, ClosingListed
  <2> QED BY <1>2, <2>1, <2>2, ViewFacts
<1>5. obj[h].mem = "live" /\ obj[h].initialized /\ ~uv[h].active
  BY <1>4 DEF Good, Sound, Object
<1>6. u \in UvHandle /\ u.state = "closed" /\ u.closeCb = uv[h].closeCb /\ ~u.active
  BY <1>4, <1>5 DEF UvHandle
<1> HIDE DEF u
<1>7. /\ v \in Views /\ v.o = obj[h] /\ v.u = u
      /\ v.l.closing = loop.closing /\ v.l.todo = loop.todo
  BY <1>4, <1>6, FlagsView
<1> HIDE DEF v
<1>8. obj[h].refcnt = Owed(obj[h], u, "none") + 1
  <2>1. obj[h].refcnt \in Nat /\ obj[h].users \in Nat
    BY <1>4 DEF Object
  <2> QED BY <1>4, <1>5, <1>6, <2>1 DEF Good, Counts, Owed, One
<1>9. CASE uv[h].closeCb = "dealloc" /\ Commit(h, done) /\ UNCHANGED <<cb, closeRuns>>
  <2>1. Owing(h, v, "none")
    BY <1>4, <1>5, <1>6, <1>7, <1>8, <1>9 DEF Owing, Good, Sound, HasLoop
  <2>2. Dropped(h, v, done, "none")
    BY <1>2, <2>1, DecrefView DEF Kinds
  <2> HIDE DEF done
  <2>3. /\ done \in Views /\ Good(h, done.o, done.u, "none") /\ done.u = u
        /\ done.l.closing = loop.closing /\ done.l.todo = loop.todo
    BY <1>6, <1>7, <2>2 DEF Dropped
  <2>4. Control' /\ \A g \in Handles : KindOf(g)' = "none"
    BY <1>1, <1>4, <1>9 DEF Control, KindOf
  <2> QED BY <1>1, <1>2, <1>4, <1>6, <1>9, <2>3, <2>4, ClosedStep
<1>10. CASE /\ uv[h].closeCb = "user" /\ closeRuns' = [closeRuns EXCEPT ![h] = @ + 1]
            /\ obj[h].onClose = "callable" /\ Commit(h, v) /\ cb' = [kind |-> "close", handle |-> h]
  <2>1. /\ cb' \in Calls /\ Control' /\ KindOf(h)' = "close"
        /\ \A g \in Handles \ {h} : KindOf(g)' = "none"
    <3>1. cb' \in Calls /\ cb'.kind = "close" /\ cb'.handle = h
      BY <1>2, <1>10 DEF Calls, Kinds
    <3>2. \A g \in Handles \ {h} : KindOf(g)' = "none"
      BY <3>1 DEF KindOf
    <3> QED BY <1>1, <1>2, <3>1, <3>2 DEF Control, KindOf
  <2>2. Sound(h, obj[h], u, "close") /\ HasLoop(obj[h], u, "close")
    BY <1>4, <1>5, <1>6, <1>10 DEF Good, Sound, HasLoop
  <2>3. Counts(obj[h], u, "close")
    <3>1. obj[h].refcnt \in Nat /\ obj[h].users \in Nat
      BY <1>4 DEF Object
    <3>2. Owed(obj[h], u, "close") = Owed(obj[h], u, "none") + 1
      BY <1>6, <3>1 DEF Owed, One
    <3>3. obj[h].refcnt > 0
      BY <1>4, <1>5 DEF Good, Counts
    <3> QED BY <1>5, <1>8, <3>2, <3>3 DEF Counts
  <2>4. Good(h, v.o, v.u, KindOf(h)')
    BY <1>7, <2>1, <2>2, <2>3 DEF Good
  <2> QED BY <1>1, <1>2, <1>4, <1>6, <1>7, <1>10, <2>1, <2>4, ClosedStep
<1>11. CASE /\ uv[h].closeCb = "user" /\ closeRuns' = [closeRuns EXCEPT ![h] = @ + 1]
            /\ Commit(h, ended) /\ UNCHANGED cb
  <2>1. /\ ended \in Views /\ Good(h, ended.o, ended.u, "none") /\ ended.u = v.u
        /\ ended.l.closing = v.l.closing /\ ended.l.todo = v.l.todo
    BY <1>2, <1>5, <1>6, <1>7, <1>8, <1>11, EndCloseView
  <2> HIDE DEF ended
  <2>2. Control' /\ \A g \in Handles : KindOf(g)' = "none"
    BY <1>1, <1>4, <1>11 DEF Control, KindOf
  <2> QED BY <1>1, <1>2, <1>4, <1>6, <1>7, <1>11, <2>1, <2>2, ClosedStep
<1> QED BY <1>3, <1>9, <1>10, <1>11

-----------------------------------------------------------------------------
(* The invariant.                                                          *)

\* The invariant holds initially.
LEMMA InitKeeps == Init => IInv
<1> SUFFICES ASSUME Init PROVE IInv
  OBVIOUS
<1>1. <<>> \in Seq(Handles) /\ Distinct(<<>>) /\ \A x : ~InList(x, <<>>)
  BY EmptyList
<1>2. \A h \in Handles : KindOf(h) = "none"
  BY DEF Init, NoCall, KindOf
<1>3. TypeOK
  <2>1. obj \in [Handles -> Object]
    BY ConstantsAssumption DEF Init, Object
  <2>2. uv \in [Handles -> UvHandle]
    BY DEF Init, UvHandle
  <2>3. loop \in LoopObject
    BY <1>1 DEF Init, LoopObject
  <2> QED BY <1>1, <2>1, <2>2, <2>3 DEF Init, NoCall, TypeOK, Phases
<1>4. \A h \in Handles : Good(h, obj[h], uv[h], KindOf(h))
  BY <1>2 DEF Init, Good, Sound, HasLoop, Counts
<1>5. ClosingListed
  BY <1>1 DEF Init, ClosingListed
<1>6. Control /\ CloseCallbackOnce /\ loop.todo = {}
  BY DEF Init, Control, NoCall, CloseCallbackOnce, One
<1> QED BY <1>3, <1>4, <1>5, <1>6 DEF IInv

\* Every call from Python keeps the invariant.
LEMMA PythonStepKeeps == IInv /\ PythonStep => IInv' /\ Final
<1> SUFFICES ASSUME IInv, PythonStep PROVE IInv' /\ Final
  OBVIOUS
<1>1. ASSUME NEW h \in Handles,
             New(h) \/ Stop(h) \/ TakeRef(h) \/ DropRef(h) \/ MakeCycle(h) \/ BreakCycle(h) \/ Collect(h)
      PROVE  IInv' /\ Final
  BY <1>1, NewKeeps, StopKeeps, TakeRefKeeps, DropRefKeeps, MakeCycleKeeps, BreakCycleKeeps, CollectKeeps
<1>2. ASSUME NEW h \in Handles, NEW b \in BOOLEAN, InitHandle(h, b) \/ SetRef(h, b)
      PROVE  IInv' /\ Final
  BY <1>2, InitHandleKeeps, SetRefKeeps
<1>3. ASSUME NEW h \in Handles, NEW c \in {"None", "callable"}, Close(h, c)
      PROVE  IInv' /\ Final
  BY <1>3, CloseKeeps
<1>4. ASSUME NEW t \in Timers, NEW repeat \in BOOLEAN, NEW zero \in BOOLEAN,
             StartTimer(t, repeat, zero) \/ Again(t) \/ SetRepeat(t, repeat)
      PROVE  IInv' /\ Final
  BY <1>4, StartTimerKeeps, AgainKeeps, SetRepeatKeeps
<1>5. ASSUME NEW w \in Watchers, StartWatcher(w) PROVE IInv' /\ Final
  BY <1>5, StartWatcherKeeps
<1>6. ASSUME NEW a \in Asyncs, Send(a) PROVE IInv' /\ Final
  BY <1>6, SendKeeps
<1>7. ASSUME UpdateTime \/ TakeLoop \/ DropLoopRef PROVE IInv' /\ Final
  BY <1>7, UpdateTimeKeeps, TakeLoopKeeps, DropLoopRefKeeps
<1> QED BY <1>1, <1>2, <1>3, <1>4, <1>5, <1>6, <1>7 DEF PythonStep

\* Every step of uv_run keeps the invariant.
LEMMA LoopActionsKeep == IInv /\ LoopStep => IInv' /\ Final
<1> SUFFICES ASSUME IInv, LoopStep PROVE IInv' /\ Final
  OBVIOUS
<1>1. ASSUME NEW t \in Timers, FireTimer(t) PROVE IInv' /\ Final
  BY <1>1, FireTimerKeeps
<1>2. ASSUME NEW w \in Watchers, FireWatcher(w) PROVE IInv' /\ Final
  BY <1>2, FireWatcherKeeps
<1>3. ASSUME NEW a \in Asyncs, FireAsync(a) PROVE IInv' /\ Final
  BY <1>3, FireAsyncKeeps
<1>4. ASSUME RunWatchers \/ Poll \/ RunClosing \/ NextIteration \/ Return \/ FinishClose
      PROVE  IInv' /\ Final
  BY <1>4, RunWatchersKeeps, PollKeeps, RunClosingKeeps, NextIterationKeeps, ReturnKeeps,
     FinishCloseKeeps
<1> QED BY <1>1, <1>2, <1>3, <1>4 DEF LoopStep

\* The invariant is inductive, and no step reopens a closing handle.
LEMMA Inductive == IInv /\ [Next]_vars => IInv' /\ Final
<1> SUFFICES ASSUME IInv, [Next]_vars PROVE IInv' /\ Final
  OBVIOUS
<1>1. CASE PythonStep
  BY <1>1, PythonStepKeeps
<1>2. CASE Run
  BY <1>2, RunKeeps
<1>3. CASE LoopStep
  BY <1>3, LoopActionsKeep
<1>4. CASE CallbackReturns
  BY <1>4, LeaveCallbackKeeps, LeaveCloseCallbackKeeps DEF CallbackReturns
<1>5. CASE UNCHANGED vars
  <2>1. /\ obj' = obj /\ uv' = uv /\ loop' = loop /\ batch' = batch /\ phase' = phase
        /\ cb' = cb /\ closeRuns' = closeRuns
    BY <1>5 DEF vars
  <2>2. loop'.closing = loop.closing /\ loop' \in LoopObject /\ phase' \in Phases /\ Control
        /\ \A g \in loop'.todo : uv[g].active
    BY <2>1 DEF IInv, TypeOK
  <2> QED BY <2>1, <2>2, LoopStepKeeps DEF Control
<1> QED BY <1>1, <1>2, <1>3, <1>4, <1>5 DEF Next

\* Every reachable state of handles, loop and closing lists is consistent: the
\* strengthening from which the theorems below follow.
THEOREM Invariance == Spec => []IInv
<1>1. Init => IInv
  BY InitKeeps
<1>2. IInv /\ [Next]_vars => IInv'
  BY Inductive
<1> QED BY <1>1, <1>2, PTL DEF Spec

-----------------------------------------------------------------------------
(* What follows from it.                                                   *)

\* Every variable keeps its type, whatever the program calls.
THEOREM TypeCorrect == Spec => []TypeOK
<1>1. IInv => TypeOK
  BY DEF IInv
<1> QED BY <1>1, Invariance, PTL

\* Every Py_INCREF of a handle in handle.c and the start/stop/callback
\* functions is paired with one Py_DECREF.
THEOREM RefcountsCorrect == Spec => []RefcountExact
<1>1. IInv => RefcountExact
  <2> SUFFICES ASSUME IInv, NEW h \in Handles
               PROVE  obj[h].refcnt = IF obj[h].mem = "live" THEN References(h) ELSE 0
    BY DEF RefcountExact
  <2>1. cb = [kind |-> cb.kind, handle |-> cb.handle]
    BY DEF IInv, TypeOK
  <2>2. \A k \in {"fire", "close"} : cb = [kind |-> k, handle |-> h] <=> KindOf(h) = k
    BY <2>1 DEF KindOf
  <2>3. References(h) = Owed(obj[h], uv[h], KindOf(h))
    BY <2>2 DEF References, Owed, One
  <2>4. Counts(obj[h], uv[h], KindOf(h))
    BY DEF IInv, Good
  <2> QED BY <2>3, <2>4 DEF Counts
<1> QED BY <1>1, Invariance, PTL

\* Handle_tp_dealloc frees no handle that libuv, a running callback or a
\* Python variable can still reach.
THEOREM MemorySafe == Spec => []NoUseAfterFree
<1>1. IInv => NoUseAfterFree
  <2> SUFFICES ASSUME IInv, NEW h \in Handles, obj[h].mem # "live"
               PROVE  /\ ~Registered(h) /\ ~uv[h].active /\ h \notin loop.todo
                      /\ ~InList(h, loop.closing) /\ ~InList(h, batch)
                      /\ cb.handle # h /\ ~(obj[h].users > 0)
    BY DEF NoUseAfterFree
  <2>1. obj[h] \in Object /\ Sound(h, obj[h], uv[h], KindOf(h)) /\ NoHandle \notin Handles
    BY ViewFacts, ConstantsAssumption DEF Good
  <2>2. uv[h].state \in {"zeroed", "closed"} /\ obj[h].users = 0 /\ KindOf(h) = "none"
    BY <2>1 DEF Sound, Object
  <2>3. ~Registered(h) /\ ~uv[h].active
    BY <2>1, <2>2 DEF Registered, Sound
  <2>4. h \notin loop.todo /\ ~InList(h, loop.closing) /\ ~InList(h, batch)
    BY <2>2, <2>3 DEF IInv, ClosingListed
  <2>5. cb.handle # h
    BY <2>1, <2>2 DEF KindOf, IInv, Control
  <2> QED BY <2>2, <2>3, <2>4, <2>5
<1> QED BY <1>1, Invariance, PTL

\* pyuv__handle_close_cb leaves no reference behind: a closed handle without
\* a name is freed.
THEOREM ClosedReclaimed == Spec => []ClosedIsReclaimed
<1>1. IInv => ClosedIsReclaimed
  <2> SUFFICES ASSUME IInv, NEW h \in Handles,
                      uv[h].state = "closed", cb.handle # h, obj[h].users = 0, ~obj[h].cycle
               PROVE  obj[h].mem = "freed"
    BY DEF ClosedIsReclaimed
  <2>1. obj[h] \in Object /\ Good(h, obj[h], uv[h], "none")
    BY ViewFacts DEF KindOf
  <2>2. Owed(obj[h], uv[h], "none") = 0
    BY <2>1 DEF Good, Sound, Owed, One
  <2> QED BY <2>1, <2>2 DEF Good, Sound, Counts, Object
<1> QED BY <1>1, Invariance, PTL

\* A started idle, prepare or check handle keeps itself alive until it is
\* stopped or closed.
THEOREM StartedKept == Spec => []StartedIsKept
<1>1. IInv => StartedIsKept
  <2> SUFFICES ASSUME IInv, NEW w \in Watchers, uv[w].active
               PROVE  obj[w].pyref /\ obj[w].mem = "live"
    BY DEF StartedIsKept
  <2>1. w \in Handles
    BY DEF Handles
  <2>2. obj[w] \in Object /\ Good(w, obj[w], uv[w], KindOf(w))
    BY <2>1, ViewFacts
  <2> QED BY <2>2 DEF Good, Sound, Object
<1> QED BY <1>1, Invariance, PTL

\* The close callback of a handle runs once, and never for a handle that
\* Handle_tp_dealloc closed.
THEOREM CloseCallbacksCorrect == Spec => [](CloseCallbackOnce /\ ClosingListed)
<1>1. IInv => CloseCallbackOnce /\ ClosingListed
  BY DEF IInv
<1> QED BY <1>1, Invariance, PTL

\* uv_close() is final, whatever is called on the handle afterwards.
THEOREM CloseFinal == Spec => CloseIsFinal
<1> DEFINE A == \A h \in Handles : Closing(uv[h]) => Closing(uv'[h]) /\ ~uv'[h].active
<1>1. IInv /\ [Next]_vars => [A]_vars
  <2> SUFFICES ASSUME IInv, [Next]_vars, NEW h \in Handles, Closing(uv[h])
               PROVE  Closing(uv'[h]) /\ ~uv'[h].active
    OBVIOUS
  <2>1. IInv' /\ Closing(uv'[h])
    BY Inductive DEF Final
  <2>2. Sound(h, obj'[h], uv'[h], KindOf(h)')
    BY <2>1 DEF IInv, Good
  <2> QED BY <2>1, <2>2 DEF Sound, Closing
<1>2. IInv /\ [Next]_vars => [\A h \in Handles : Closing(uv[h]) => Closing(uv'[h]) /\ ~uv'[h].active]_vars
  BY <1>1
<1> QED BY <1>2, Invariance, PTL DEF Spec, CloseIsFinal

\* Handle_tp_dealloc closes and resurrects a handle only when no variable, no
\* running callback and no self-reference of start() refers to it.
THEOREM ResurrectedOutOfScope == Spec => ClosedOnlyOutOfScope
<1>1. IInv /\ [Next]_vars
        => [\A h \in Handles :
              uv[h].closeCb # "dealloc" /\ uv'[h].closeCb = "dealloc"
                => obj'[h].users = 0 /\ cb'.handle # h /\ ~obj'[h].pyref]_vars
  BY Inductive DEF Final, Resurrected
<1> QED BY <1>1, Invariance, PTL DEF Spec, ClosedOnlyOutOfScope

\* A timer, watcher or async callback enters Python only for an active handle.
THEOREM FiresCorrectly == Spec => FiresOnlyActive
<1>1. IInv /\ Next /\ cb.kind = "none" /\ cb'.kind = "fire"
        => uv[cb'.handle].active /\ uv[cb'.handle].state = "open"
  <2> SUFFICES ASSUME IInv, Next, cb.kind = "none", cb'.kind = "fire"
               PROVE  uv[cb'.handle].active /\ uv[cb'.handle].state = "open"
    OBVIOUS
  <2>1. \A h \in loop.todo : h \in Handles /\ uv[h].active /\ uv[h].state = "open"
    BY DEF IInv, TypeOK, LoopObject, Good, Sound
  <2>2. PICK h \in loop.todo : cb' = [kind |-> "fire", handle |-> h]
    <3>1. ~PythonStep /\ ~Run /\ ~CallbackReturns
      BY DEF PythonStep, New, Stop, TakeRef, DropRef, MakeCycle, BreakCycle, Collect, InitHandle,
         SetRef, Close, StartTimer, Again, SetRepeat, StartWatcher, Send, UpdateTime, TakeLoop, DropLoopRef,
         control, Run, CallbackReturns, LeaveCallback, LeaveCloseCallback
    <3>2. ~RunWatchers /\ ~Poll /\ ~RunClosing /\ ~NextIteration /\ ~Return /\ ~FinishClose
      BY DEF RunWatchers, Poll, RunClosing, NextIteration, Return, FinishClose, EndClose
    <3> QED BY <3>1, <3>2 DEF Next, LoopStep, FireTimer, FireWatcher, FireAsync, EnterCallback, control
  <2> QED BY <2>1, <2>2
<1>2. IInv /\ [Next]_vars
        => [cb.kind = "none" /\ cb'.kind = "fire"
              => uv[cb'.handle].active /\ uv[cb'.handle].state = "open"]_vars
  BY <1>1
<1> QED BY <1>2, Invariance, PTL DEF Spec, FiresOnlyActive

-----------------------------------------------------------------------------
(* The Loop object.  Two of its counters are each a number of handles, which *)
(* no fact about a single handle bounds: the proof balances what a function  *)
(* on views does to the loop against what it does to the handle.             *)

\* What the counters of the Loop object stand for, and when it is freed.
LoopCounts ==
  /\ ActiveCountExact /\ LoopRefsExact
  /\ loop.mem = "freed" <=> loop.refcnt = 0
  /\ \A h \in Handles : obj[h].loop = "loop" => obj[h].initialized

\* Without reference cycles a handle in libuv's queue keeps self->loop: only
\* Handle_tp_clear, called by the collector, drops it earlier.
LoopKept ==
  ~Cycles => \A h \in Handles : ~obj[h].cycle /\ (Registered(h) => obj[h].loop = "loop")

LoopKnown == LoopCounts /\ LoopKept

\* Views whose object may have any reference count: between two calls of a step
\* it is not the one the invariant asks for.
LooseObject ==
  [mem : {"absent", "live", "freed"}, refcnt : Int, users : Int,
   cycle : BOOLEAN, initialized : BOOLEAN, pyref : BOOLEAN,
   loop : {"null", "loop", "None"}, onClose : {"null", "None", "callable"}]

Loose == [o : LooseObject, u : UvHandle, l : LoopObject]

Paid(v) == v.l.refcnt >= One(v.o.loop = "loop") /\ (v.l.mem = "freed" <=> v.l.refcnt = 0)

\* The loop's counters change by what the handle counts for.
Balanced(v, w) ==
  /\ w.l.active - One(Counted(w.u)) = v.l.active - One(Counted(v.u))
  /\ w.l.refcnt - One(w.o.loop = "loop") = v.l.refcnt - One(v.o.loop = "loop")
  /\ w.l.users = v.l.users
  /\ Paid(v) => Paid(w)
  /\ w.o.loop = "loop" => v.o.loop = "loop"
  /\ w.o.initialized = v.o.initialized /\ (w.o.cycle => v.o.cycle)
  /\ v.o.mem = "freed" => w.o.mem = "freed"
  /\ v.u.state = "closed" => w.u.state = "closed"

\* The handle keeps its pointer to the loop, or dies.
Points(v, w) == w.o.mem = "freed" \/ w.o.loop = v.o.loop

Kept(v, w) == w \in Loose /\ Balanced(v, w) /\ Points(v, w)

\* Two such changes after each other are one.
LEMMA KeptTwice ==
  ASSUME NEW v \in Loose, NEW w \in Loose, NEW x \in Loose, Balanced(v, w), Balanced(w, x)
  PROVE  Balanced(v, x) /\ (Points(v, w) /\ Points(w, x) => Points(v, x))
<1> DEFINE n(y) == y.l.active - One(Counted(y.u))
           m(y) == y.l.refcnt - One(y.o.loop = "loop")
<1>1. n(x) = n(v) /\ m(x) = m(v)
  BY DEF Balanced
<1> QED BY <1>1 DEF Balanced, Points

\* Fields neither of the loop's counters depends on.
LEMMA SameKept ==
  ASSUME NEW v \in Loose, NEW w \in Loose,
         w.o.loop = v.o.loop, w.o.initialized = v.o.initialized, w.o.cycle => v.o.cycle,
         w.o.mem = v.o.mem, w.u.active = v.u.active, w.u.ref = v.u.ref, w.u.state = v.u.state,
         w.l.active = v.l.active, w.l.refcnt = v.l.refcnt, w.l.users = v.l.users, w.l.mem = v.l.mem
  PROVE  Kept(v, w)
<1>1. Counted(w.u) = Counted(v.u) /\ (Paid(v) => Paid(w))
  BY DEF Counted, Paid
<1> QED BY <1>1 DEF Kept, Balanced, Points

\* uv__handle_start, uv__handle_stop, uv__handle_ref and uv__handle_unref.
LEMMA FlagsKept ==
  ASSUME NEW v \in Loose, NEW u \in UvHandle, v.u.state = "closed" => u.state = "closed"
  PROVE  LET w == SetFlags(v, u) IN Kept(v, w) /\ w.o = v.o /\ w.u = u
<1> DEFINE a == IF Counted(v.u) = Counted(u) THEN v.l.active
                ELSE IF Counted(u) THEN v.l.active + 1 ELSE v.l.active - 1
           l == [v.l EXCEPT !.active = a]
           w == SetFlags(v, u)
<1>1. /\ v.l \in LoopObject /\ v.o \in LooseObject /\ v.l.active \in Int
      /\ Counted(u) \in BOOLEAN /\ Counted(v.u) \in BOOLEAN
  BY DEF Loose, LoopObject, Counted, UvHandle
<1>2. a \in Int /\ a - One(Counted(u)) = v.l.active - One(Counted(v.u))
  BY <1>1 DEF One
<1>3. w = [v EXCEPT !.u = u, !.l.active = a]
  BY DEF SetFlags
<1> HIDE DEF a
<1>4. /\ l \in LoopObject /\ l.active = a /\ l.refcnt = v.l.refcnt /\ l.users = v.l.users
      /\ l.mem = v.l.mem
  BY <1>1, <1>2 DEF LoopObject
<1>5. w = [o |-> v.o, u |-> u, l |-> l]
  BY <1>3 DEF Loose
<1> HIDE DEF l, w
<1>6. w \in Loose /\ w.o = v.o /\ w.u = u /\ w.l = l
  BY <1>1, <1>4, <1>5 DEF Loose
<1>7. Balanced(v, w)
  BY <1>2, <1>4, <1>6 DEF Balanced, Paid
<1> QED BY <1>6, <1>7 DEF Kept, Points, w

\* uv_timer_start, uv_idle_start, ...
LEMMA StartKept ==
  ASSUME NEW v \in Loose
  PROVE  Kept(v, UvStart(v)) /\ UvStart(v).o = v.o /\ UvStart(v).u.state = v.u.state
<1>1. [v.u EXCEPT !.active = TRUE] \in UvHandle /\ [v.u EXCEPT !.active = TRUE].state = v.u.state
  BY DEF Loose, UvHandle
<1> QED BY <1>1, FlagsKept DEF UvStart

\* uv_timer_stop, uv_idle_stop, ...
LEMMA StopKept ==
  ASSUME NEW v \in Loose, NEW h \in Handles
  PROVE  LET w == UvStop(h, v) IN
         Kept(v, w) /\ w.o = v.o /\ w.u.state = v.u.state /\ ~w.u.active
<1> DEFINE u == [v.u EXCEPT !.active = FALSE]
           f == SetFlags(v, u)
           l == [f.l EXCEPT !.todo = @ \ {h}]
           w == UvStop(h, v)
<1>1. u \in UvHandle /\ u.state = v.u.state /\ ~u.active
  BY DEF Loose, UvHandle
<1> HIDE DEF u
<1>2. Kept(v, f) /\ f.o = v.o /\ f.u = u /\ f \in Loose
  BY <1>1, FlagsKept DEF Kept
<1>3. w = [f EXCEPT !.l.todo = @ \ {h}]
  BY DEF UvStop, u
<1> HIDE DEF f
<1>4. /\ l \in LoopObject /\ l.active = f.l.active /\ l.refcnt = f.l.refcnt
      /\ l.users = f.l.users /\ l.mem = f.l.mem
  BY <1>2 DEF Loose, LoopObject
<1>5. w = [o |-> f.o, u |-> f.u, l |-> l]
  BY <1>2, <1>3 DEF Loose
<1> HIDE DEF w, l
<1>6. w \in Loose /\ w.o = f.o /\ w.u = f.u /\ w.l = l
  BY <1>2, <1>4, <1>5 DEF Loose
<1>7. Kept(f, w)
  BY <1>2, <1>4, <1>6, SameKept
<1>8. Kept(v, w)
  BY <1>2, <1>6, <1>7, KeptTwice DEF Kept
<1> QED BY <1>1, <1>2, <1>6, <1>8 DEF w

\* uv_close of a handle that is not closed.
LEMMA CloseKept ==
  ASSUME NEW v \in Loose, NEW h \in Handles, NEW c \in {"user", "dealloc"}, v.u.state # "closed"
  PROVE  LET w == UvClose(h, v, c) IN Kept(v, w) /\ w.o = v.o
<1> DEFINE s == UvStop(h, v)
           u == [s.u EXCEPT !.state = "closing", !.closeCb = c]
           l == [s.l EXCEPT !.closing = <<h>> \o @]
           w == UvClose(h, v, c)
<1>1. Kept(v, s) /\ s.o = v.o /\ s \in Loose
  BY StopKept DEF Kept
<1>2. w = [s EXCEPT !.u.state = "closing", !.u.closeCb = c, !.l.closing = <<h>> \o @]
  BY DEF UvClose
<1> HIDE DEF s
<1>3. s.l.closing \in Seq(Handles) /\ s.l \in LoopObject
  BY <1>1 DEF Loose, LoopObject
<1>4. <<h>> \o s.l.closing \in Seq(Handles)
  BY <1>3
<1>5. /\ l \in LoopObject /\ l.active = s.l.active /\ l.refcnt = s.l.refcnt
      /\ l.users = s.l.users /\ l.mem = s.l.mem
  BY <1>3, <1>4 DEF LoopObject
<1>6. u \in UvHandle /\ u.active = s.u.active /\ u.ref = s.u.ref
  BY <1>1 DEF Loose, UvHandle
<1>7. w = [o |-> s.o, u |-> u, l |-> l]
  BY <1>1, <1>2 DEF Loose
<1> HIDE DEF w, l, u
<1>8. w \in Loose /\ w.o = v.o /\ w.u = u /\ w.l = l
  BY <1>1, <1>5, <1>6, <1>7 DEF Loose
<1>9. Balanced(v, w)
  BY <1>1, <1>5, <1>6, <1>8 DEF Kept, Balanced, Counted, Paid
<1> QED BY <1>8, <1>9 DEF Kept, Points, w

\* Dropping self->loop drops one reference to the Loop object if it points there.
LEMMA DropLoopBalanced ==
  ASSUME NEW v \in Loose, NEW p \in {"null", "None"}
  PROVE  LET w == DropLoop(v, p) IN
         w \in Loose /\ Balanced(v, w) /\ w.o = [v.o EXCEPT !.loop = p] /\ w.u = v.u
<1> DEFINE l == IF v.o.loop = "loop" THEN LoopDecref(v.l) ELSE v.l
           mem == IF v.l.refcnt = 1 THEN "freed" ELSE v.l.mem
           o == [v.o EXCEPT !.loop = p]
           w == DropLoop(v, p)
<1>1. v.l \in LoopObject /\ v.o \in LooseObject /\ v.u \in UvHandle /\ v.l.refcnt \in Int
  BY DEF Loose, LoopObject
<1>2. /\ o \in LooseObject /\ o.loop = p /\ o.initialized = v.o.initialized
      /\ o.cycle = v.o.cycle /\ o.mem = v.o.mem
  BY <1>1 DEF LooseObject
<1>3. LoopDecref(v.l) = [v.l EXCEPT !.refcnt = @ - 1, !.mem = mem]
  BY DEF LoopDecref
<1>4. /\ mem \in {"live", "freed"} /\ mem = IF v.l.refcnt = 1 THEN "freed" ELSE v.l.mem
  BY <1>1 DEF LoopObject
<1> HIDE DEF mem, o
<1>5. /\ l \in LoopObject /\ l.active = v.l.active /\ l.users = v.l.users
      /\ l.refcnt = v.l.refcnt - One(v.o.loop = "loop")
      /\ l.mem = IF v.o.loop = "loop" THEN mem ELSE v.l.mem
  <2>1. CASE v.o.loop = "loop"
    <3>1. l = [v.l EXCEPT !.refcnt = @ - 1, !.mem = mem]
      BY <1>3, <2>1
    <3>2. v.l.refcnt - 1 \in Int /\ One(v.o.loop = "loop") = 1
      BY <1>1, <2>1 DEF One
    <3> HIDE DEF l
    <3>3. l \in LoopObject /\ l.active = v.l.active /\ l.users = v.l.users
      BY <1>1, <1>4, <3>1, <3>2 DEF LoopObject
    <3>4. l.refcnt = v.l.refcnt - 1 /\ l.mem = mem
      BY <1>1, <3>1 DEF LoopObject
    <3> QED BY <2>1, <3>2, <3>3, <3>4
  <2>2. CASE v.o.loop # "loop"
    BY <1>1, <2>2 DEF One
  <2> QED BY <2>1, <2>2
<1>6. w = [o |-> o, u |-> v.u, l |-> l]
  <2> HIDE DEF l
  <2>1. w = [v EXCEPT !.o.loop = p, !.l = l]
    BY DEF DropLoop, l
  <2> QED BY <2>1 DEF Loose, o
<1> HIDE DEF l, w
<1>7. w \in Loose /\ w.o = o /\ w.u = v.u /\ w.l = l
  BY <1>1, <1>2, <1>5, <1>6 DEF Loose
<1>8. Paid(v) => Paid(w)
  BY <1>1, <1>2, <1>4, <1>5, <1>7 DEF Paid, One
<1>9. w.l.refcnt - One(w.o.loop = "loop") = v.l.refcnt - One(v.o.loop = "loop")
  BY <1>1, <1>2, <1>5, <1>7 DEF One
<1>10. Balanced(v, w)
  BY <1>2, <1>5, <1>7, <1>8, <1>9 DEF Balanced
<1> QED BY <1>7, <1>10 DEF w, o

\* Handle_tp_dealloc: the handle is closed, keeping its loop, or dies.
LEMMA DeallocKept ==
  ASSUME NEW v \in Loose, NEW h \in Handles
  PROVE  Kept(v, Dealloc(h, v))
<1>1. CASE v.o.initialized /\ ~Closing(v.u)
  <2> DEFINE c == UvClose(h, v, "dealloc")
             o == [c.o EXCEPT !.refcnt = 1]
             w == Dealloc(h, v)
  <2>1. Kept(v, c) /\ c \in Loose
    BY <1>1, CloseKept DEF Closing, Kept
  <2>2. w = [c EXCEPT !.o.refcnt = 1]
    BY <1>1 DEF Dealloc
  <2> HIDE DEF c
  <2>3. /\ o \in LooseObject /\ o.loop = c.o.loop /\ o.initialized = c.o.initialized
        /\ o.cycle = c.o.cycle /\ o.mem = c.o.mem
    BY <2>1 DEF Loose, LooseObject
  <2>4. w = [o |-> o, u |-> c.u, l |-> c.l]
    BY <2>1, <2>2 DEF Loose
  <2> HIDE DEF o, w
  <2>5. w \in Loose /\ w.o = o /\ w.u = c.u /\ w.l = c.l
    BY <2>1, <2>3, <2>4 DEF Loose
  <2>6. Kept(c, w)
    BY <2>1, <2>3, <2>5, SameKept
  <2> QED BY <2>1, <2>5, <2>6, KeptTwice DEF Kept, w
<1>2. CASE ~(v.o.initialized /\ ~Closing(v.u))
  <2> DEFINE d == DropLoop(v, "null")
             o == [d.o EXCEPT !.refcnt = 0, !.mem = "freed", !.onClose = "null"]
             w == Dealloc(h, v)
  <2>1. d \in Loose /\ Balanced(v, d)
    BY DropLoopBalanced
  <2>2. w = [d EXCEPT !.o.refcnt = 0, !.o.mem = "freed", !.o.onClose = "null"]
    BY <1>2 DEF Dealloc
  <2> HIDE DEF d
  <2>3. /\ o \in LooseObject /\ o.loop = d.o.loop /\ o.initialized = d.o.initialized
        /\ o.cycle = d.o.cycle /\ o.mem = "freed"
    <3>1. d.o \in LooseObject /\ o = [d.o EXCEPT !.refcnt = 0, !.mem = "freed", !.onClose = "null"]
      BY <2>1 DEF Loose
    <3>2. 0 \in Int
      OBVIOUS
    <3> HIDE DEF o
    <3>3. o \in LooseObject
      BY <3>1, <3>2 DEF LooseObject
    <3>4. o.loop = d.o.loop /\ o.initialized = d.o.initialized /\ o.cycle = d.o.cycle /\ o.mem = "freed"
      BY <3>1 DEF LooseObject
    <3> QED BY <3>3, <3>4
  <2>4. w = [o |-> o, u |-> d.u, l |-> d.l]
    BY <2>1, <2>2 DEF Loose
  <2> HIDE DEF o, w
  <2>5. w \in Loose /\ w.o = o /\ w.u = d.u /\ w.l = d.l
    BY <2>1, <2>3, <2>4 DEF Loose
  <2>6. Balanced(d, w)
    BY <2>1, <2>3, <2>5 DEF Balanced, Paid
  <2>7. Balanced(v, w)
    BY <2>1, <2>5, <2>6, KeptTwice
  <2> QED BY <2>3, <2>5, <2>7 DEF Kept, Points, w
<1> QED BY <1>1, <1>2

\* A step on fields of the object that the loop does not depend on.
LEMMA ObjectKept ==
  ASSUME NEW v \in Loose, NEW o \in LooseObject, o.loop = v.o.loop,
         o.initialized = v.o.initialized, o.cycle => v.o.cycle, o.mem = v.o.mem,
         NEW w, w = [v EXCEPT !.o = o]
  PROVE  Kept(v, w) /\ w \in Loose /\ w.o = o /\ w.u = v.u /\ w.l = v.l
<1>1. w \in Loose /\ w.o = o /\ w.u = v.u /\ w.l = v.l
  BY DEF Loose
<1> QED BY <1>1, SameKept

\* A step on fields of the uv_handle_t that the loop does not count by.
LEMMA UvKept ==
  ASSUME NEW v \in Loose, NEW u \in UvHandle, u.active = v.u.active, u.ref = v.u.ref,
         u.state = v.u.state, NEW w, w = [v EXCEPT !.u = u]
  PROVE  Kept(v, w) /\ w \in Loose /\ w.o = v.o /\ w.u = u /\ w.l = v.l
<1>1. w \in Loose /\ w.o = v.o /\ w.u = u /\ w.l = v.l
  BY DEF Loose
<1> QED BY <1>1, SameKept

\* A step on the list the phase is visiting.
LEMMA TodoKept ==
  ASSUME NEW v \in Loose, NEW S \in SUBSET Handles, NEW w, w = [v EXCEPT !.l.todo = S]
  PROVE  Kept(v, w) /\ w \in Loose /\ w.o = v.o /\ w.u = v.u
<1> DEFINE l == [v.l EXCEPT !.todo = S]
<1>1. /\ l \in LoopObject /\ l.active = v.l.active /\ l.refcnt = v.l.refcnt
      /\ l.users = v.l.users /\ l.mem = v.l.mem
  BY DEF Loose, LoopObject
<1>2. w = [o |-> v.o, u |-> v.u, l |-> l]
  BY DEF Loose
<1> HIDE DEF l
<1>3. w \in Loose /\ w.o = v.o /\ w.u = v.u /\ w.l = l
  BY <1>1, <1>2 DEF Loose
<1> QED BY <1>1, <1>3, SameKept

\* Py_INCREF(self)
LEMMA IncrefKept ==
  ASSUME NEW v \in Loose
  PROVE  Kept(v, Incref(v)) /\ Incref(v).u = v.u
<1> DEFINE o == [v.o EXCEPT !.refcnt = @ + 1]
<1>1. /\ o \in LooseObject /\ o.loop = v.o.loop /\ o.initialized = v.o.initialized
      /\ o.cycle = v.o.cycle /\ o.mem = v.o.mem
  BY DEF Loose, LooseObject
<1>2. Incref(v) = [v EXCEPT !.o = o]
  BY DEF Incref
<1> HIDE DEF o
<1> QED BY <1>1, <1>2, ObjectKept

\* Py_DECREF(self)
LEMMA DecrefKept ==
  ASSUME NEW v \in Loose, NEW h \in Handles
  PROVE  Kept(v, Decref(h, v))
<1>1. CASE v.o.refcnt = 1
  BY <1>1, DeallocKept DEF Decref
<1>2. CASE v.o.refcnt # 1
  <2> DEFINE o == [v.o EXCEPT !.refcnt = @ - 1]
  <2>1. /\ o \in LooseObject /\ o.loop = v.o.loop /\ o.initialized = v.o.initialized
        /\ o.cycle = v.o.cycle /\ o.mem = v.o.mem
    BY DEF Loose, LooseObject
  <2>2. Decref(h, v) = [v EXCEPT !.o = o]
    BY <1>2 DEF Decref
  <2> HIDE DEF o
  <2> QED BY <2>1, <2>2, ObjectKept
<1> QED BY <1>1, <1>2

\* The self-reference of start() comes or goes.
LEMMA PyrefKept ==
  ASSUME NEW v \in Loose, NEW b \in BOOLEAN
  PROVE  LET w == [v EXCEPT !.o.pyref = b] IN Kept(v, w) /\ w \in Loose
<1> DEFINE o == [v.o EXCEPT !.pyref = b]
           w == [v EXCEPT !.o.pyref = b]
<1>1. /\ o \in LooseObject /\ o.loop = v.o.loop /\ o.initialized = v.o.initialized
      /\ o.cycle = v.o.cycle /\ o.mem = v.o.mem
  BY DEF Loose, LooseObject
<1>2. w = [v EXCEPT !.o = o]
  OBVIOUS
<1> HIDE DEF o, w
<1>3. Kept(v, w) /\ w \in Loose
  BY <1>1, <1>2, ObjectKept
<1> QED BY <1>3 DEF w

\* PYUV_HANDLE_INCREF
LEMMA HandleIncrefKept ==
  ASSUME NEW v \in Loose
  PROVE  Kept(v, HandleIncref(v))
<1>1. CASE v.o.pyref
  BY <1>1, SameKept DEF HandleIncref
<1>2. CASE ~v.o.pyref
  <2> DEFINE p == [v EXCEPT !.o.pyref = TRUE]
  <2>1. Kept(v, p) /\ p \in Loose
    BY PyrefKept
  <2>2. HandleIncref(v) = Incref(p)
    BY <1>2 DEF HandleIncref
  <2> HIDE DEF p
  <2>3. Kept(p, Incref(p))
    BY <2>1, IncrefKept
  <2> QED BY <2>1, <2>2, <2>3, KeptTwice DEF Kept
<1> QED BY <1>1, <1>2

\* PYUV_HANDLE_DECREF
LEMMA HandleDecrefKept ==
  ASSUME NEW v \in Loose, NEW h \in Handles
  PROVE  Kept(v, HandleDecref(h, v))
<1>1. CASE ~v.o.pyref
  BY <1>1, SameKept DEF HandleDecref
<1>2. CASE v.o.pyref
  <2> DEFINE p == [v EXCEPT !.o.pyref = FALSE]
  <2>1. Kept(v, p) /\ p \in Loose
    BY PyrefKept
  <2>2. HandleDecref(h, v) = Decref(h, p)
    BY <1>2 DEF HandleDecref
  <2> HIDE DEF p
  <2>3. Kept(p, Decref(h, p))
    BY <2>1, DecrefKept
  <2> QED BY <2>1, <2>2, <2>3, KeptTwice DEF Kept
<1> QED BY <1>1, <1>2

-----------------------------------------------------------------------------
(* From one handle to all of them.                                         *)

\* Two sets that differ at most in x differ in size by what x counts.
LEMMA CountDiffers ==
  ASSUME NEW S, IsFiniteSet(S), NEW A \in SUBSET S, NEW B \in SUBSET S, NEW x \in S,
         \A y \in S : y # x => (y \in A <=> y \in B)
  PROVE  /\ Cardinality(A) \in Nat /\ Cardinality(B) \in Nat
         /\ Cardinality(A) >= One(x \in A)
         /\ Cardinality(B) - One(x \in B) = Cardinality(A) - One(x \in A)
<1> DEFINE R == A \ {x}
<1>1. R = B \ {x} /\ IsFiniteSet(A) /\ IsFiniteSet(B)
  BY FS_Subset
<1>2. Cardinality(A) \in Nat /\ Cardinality(B) \in Nat /\ Cardinality(R) \in Nat
  BY <1>1, FS_CardinalityType, FS_Subset
<1>3. Cardinality(R) = IF x \in A THEN Cardinality(A) - 1 ELSE Cardinality(A)
  BY <1>1, FS_RemoveElement
<1>4. Cardinality(R) = IF x \in B THEN Cardinality(B) - 1 ELSE Cardinality(B)
  BY <1>1, FS_RemoveElement
<1> QED BY <1>2, <1>3, <1>4 DEF One

\* A step on the view of one handle keeps the counters if it changes them by
\* what it makes the handle count for.
LEMMA CountsStep ==
  ASSUME IInv, LoopCounts, NEW h \in Handles, NEW w \in Loose, Commit(h, w),
         (phase' = "out") <=> (phase = "out"),
         w.l.active - One(Counted(w.u)) = loop.active - One(Counted(uv[h])),
         w.l.refcnt - One(w.o.loop = "loop") = loop.refcnt - One(obj[h].loop = "loop"),
         w.l.users = loop.users, w.l.mem = "freed" <=> w.l.refcnt = 0,
         w.o.loop = "loop" => w.o.initialized
  PROVE  LoopCounts'
<1> DEFINE A == {g \in Handles : Counted(uv[g])}
           A2 == {g \in Handles : Counted(uv'[g])}
           L == {g \in Handles : obj[g].loop = "loop"}
           L2 == {g \in Handles : obj'[g].loop = "loop"}
<1>1. /\ loop \in LoopObject /\ loop.active \in Int /\ loop.refcnt \in Int /\ loop.users \in Int
      /\ w.l.active \in Int /\ w.l.refcnt \in Int
  BY DEF IInv, TypeOK, Loose, LoopObject
<1>2. /\ loop' = w.l /\ obj'[h] = w.o /\ uv'[h] = w.u
      /\ \A g \in Handles : g # h => obj'[g] = obj[g] /\ uv'[g] = uv[g]
  BY DEF Commit, IInv, TypeOK
<1>3. IsFiniteSet(Handles)
  BY ConstantsAssumption
<1>4. /\ Cardinality(A) \in Nat /\ Cardinality(A2) \in Nat
      /\ Cardinality(A2) - One(h \in A2) = Cardinality(A) - One(h \in A)
  <2>1. A \in SUBSET Handles /\ A2 \in SUBSET Handles
        /\ \A y \in Handles : y # h => (y \in A <=> y \in A2)
    BY <1>2
  <2> HIDE DEF A, A2
  <2> QED BY <1>3, <2>1, CountDiffers
<1>5. /\ Cardinality(L) \in Nat /\ Cardinality(L2) \in Nat
      /\ Cardinality(L2) - One(h \in L2) = Cardinality(L) - One(h \in L)
  <2>1. L \in SUBSET Handles /\ L2 \in SUBSET Handles
        /\ \A y \in Handles : y # h => (y \in L <=> y \in L2)
    BY <1>2
  <2> HIDE DEF L, L2
  <2> QED BY <1>3, <2>1, CountDiffers
<1>6. /\ h \in A <=> Counted(uv[h])
      /\ h \in A2 <=> Counted(w.u)
      /\ h \in L <=> obj[h].loop = "loop"
      /\ h \in L2 <=> w.o.loop = "loop"
  BY <1>2
<1>7. loop.active = Cardinality(A)
  BY DEF LoopCounts, ActiveCountExact
<1>8. loop.refcnt = loop.users + One(phase # "out") + One(DefaultLoop) + Cardinality(L)
  BY DEF LoopCounts, LoopRefsExact
<1>9. \A g \in Handles : obj'[g].loop = "loop" => obj'[g].initialized
  BY <1>2 DEF LoopCounts
<1> HIDE DEF A, A2, L, L2
<1>10. w.l.active = Cardinality(A2)
  BY <1>1, <1>4, <1>6, <1>7 DEF One
<1>11. w.l.refcnt = w.l.users + One(phase' # "out") + One(DefaultLoop) + Cardinality(L2)
  <2> DEFINE p == One(phase # "out")
             d == One(DefaultLoop)
             before == One(obj[h].loop = "loop")
             after == One(w.o.loop = "loop")
  <2>1. p \in Int /\ d \in Int /\ before \in Int /\ after \in Int
    BY DEF One
  <2>2. One(phase' # "out") = p
    BY DEF One
  <2>3. Cardinality(L2) - after = Cardinality(L) - before
    BY <1>5, <1>6 DEF One
  <2>4. loop.refcnt = loop.users + p + d + Cardinality(L)
    BY <1>8
  <2>5. w.l.refcnt - after = loop.refcnt - before /\ w.l.users = loop.users
    OBVIOUS
  <2> HIDE DEF p, d, before, after
  <2>6. w.l.refcnt = w.l.users + p + d + Cardinality(L2)
    BY <1>1, <1>5, <2>1, <2>3, <2>4, <2>5
  <2> QED BY <2>2, <2>6 DEF d
<1>12. ActiveCountExact'
  BY <1>2, <1>10 DEF ActiveCountExact, A2
<1>13. LoopRefsExact'
  BY <1>2, <1>11 DEF LoopRefsExact, L2
<1> QED BY <1>2, <1>9, <1>12, <1>13 DEF LoopCounts

\* The loop has been paid for what a handle refers to.
LEMMA LoopPaid ==
  ASSUME IInv, LoopCounts, NEW h \in Handles
  PROVE  /\ View(h) \in Loose /\ Paid(View(h))
         /\ View(h).o = obj[h] /\ View(h).u = uv[h] /\ View(h).l = loop
         /\ loop \in LoopObject /\ obj[h] \in LooseObject /\ uv[h] \in UvHandle
<1> DEFINE L == {g \in Handles : obj[g].loop = "loop"}
<1>1. /\ View(h).o = obj[h] /\ View(h).u = uv[h] /\ View(h).l = loop
      /\ obj[h] \in Object /\ uv[h] \in UvHandle /\ loop \in LoopObject
      /\ View(h) = [o |-> obj[h], u |-> uv[h], l |-> loop]
  BY ViewFacts DEF View
<1>2. obj[h] \in LooseObject
  BY <1>1 DEF Object, LooseObject
<1>3. View(h) \in Loose
  BY <1>1, <1>2 DEF Loose
<1>4. L \in SUBSET Handles /\ (h \in L <=> obj[h].loop = "loop") /\ IsFiniteSet(Handles)
      /\ loop.refcnt = loop.users + One(phase # "out") + One(DefaultLoop) + Cardinality(L)
  BY ConstantsAssumption DEF LoopCounts, LoopRefsExact
<1> HIDE DEF L
<1>5. Cardinality(L) \in Nat /\ Cardinality(L) >= One(h \in L)
  BY <1>4, CountDiffers
<1>6. loop.users \in Nat /\ loop.refcnt \in Int
  BY <1>1 DEF LoopObject
<1>7. loop.refcnt >= One(obj[h].loop = "loop")
  BY <1>4, <1>5, <1>6 DEF One
<1>8. Paid(View(h))
  BY <1>1, <1>7 DEF Paid, LoopCounts
<1> QED BY <1>1, <1>2, <1>3, <1>8

\* A balanced step keeps the counters; without cycles, the handle keeps its loop
\* until it is closed or freed.
LEMMA BalancedStep ==
  ASSUME IInv, IInv', LoopKnown, NEW h \in Handles, NEW w \in Loose,
         Commit(h, w), (phase' = "out") <=> (phase = "out"),
         Balanced(View(h), w),
         Points(View(h), w) \/ w.u.state = "closed" \/ Cycles
  PROVE  LoopKnown'
<1>0. LoopCounts /\ LoopKept
  BY DEF LoopKnown
<1>1. /\ View(h) \in Loose /\ Paid(View(h))
      /\ View(h).o = obj[h] /\ View(h).u = uv[h] /\ View(h).l = loop
  BY <1>0, LoopPaid
<1>2. /\ w.l.active - One(Counted(w.u)) = loop.active - One(Counted(uv[h]))
      /\ w.l.refcnt - One(w.o.loop = "loop") = loop.refcnt - One(obj[h].loop = "loop")
      /\ w.l.users = loop.users /\ Paid(w)
      /\ w.o.loop = "loop" => obj[h].loop = "loop"
      /\ w.o.initialized = obj[h].initialized /\ (w.o.cycle => obj[h].cycle)
      /\ uv[h].state = "closed" => w.u.state = "closed"
  BY <1>1 DEF Balanced
<1>3. w.o.loop = "loop" => w.o.initialized
  BY <1>0, <1>2 DEF LoopCounts
<1>4. LoopCounts'
  BY <1>0, <1>2, <1>3, CountsStep DEF Paid
<1>5. /\ obj'[h] = w.o /\ uv'[h] = w.u
      /\ \A g \in Handles : g # h => obj'[g] = obj[g] /\ uv'[g] = uv[g]
  BY DEF Commit, IInv, TypeOK
<1>6. ASSUME ~Cycles PROVE ~w.o.cycle /\ (w.u.state \in {"open", "closing"} => w.o.loop = "loop")
  <2>1. ~obj[h].cycle /\ (uv[h].state \in {"open", "closing"} => obj[h].loop = "loop")
    BY <1>0, <1>6 DEF LoopKept, Registered
  <2>2. SUFFICES ASSUME w.u.state \in {"open", "closing"} PROVE w.o.loop = "loop"
    BY <1>2, <2>1
  <2>3. Sound(h, w.o, w.u, KindOf(h)')
    BY <1>5 DEF IInv, Good
  <2>4. w.o.mem # "freed" /\ w.o.initialized
    BY <2>2, <2>3 DEF Sound
  <2>5. w.o.loop = obj[h].loop
    BY <1>1, <1>6, <2>2, <2>4 DEF Points
  <2>6. uv[h].state # "zeroed" /\ uv[h].state # "closed"
    BY <1>2, <2>2, <2>4 DEF IInv, Good, Sound
  <2>7. uv[h].state \in {"open", "closing"}
    BY <1>1, <2>6, ViewFacts DEF UvHandle
  <2> QED BY <2>1, <2>5, <2>7
<1>7. LoopKept'
  BY <1>0, <1>5, <1>6 DEF LoopKept, Registered
<1> QED BY <1>4, <1>7 DEF LoopKnown

\* A step that changes nothing the counters stand for.
LEMMA UnchangedCounts ==
  ASSUME IInv, LoopKnown,
         \A g \in Handles :
           /\ obj'[g].loop = obj[g].loop /\ obj'[g].initialized = obj[g].initialized
           /\ obj'[g].cycle => obj[g].cycle \/ Cycles
           /\ uv'[g].active = uv[g].active /\ uv'[g].ref = uv[g].ref /\ uv'[g].state = uv[g].state,
         loop'.active = loop.active, loop'.refcnt = loop.refcnt, loop'.users = loop.users,
         loop'.mem = loop.mem, (phase' = "out") <=> (phase = "out")
  PROVE  LoopKnown'
<1>0. LoopCounts /\ LoopKept
  BY DEF LoopKnown
<1>1. {g \in Handles : Counted(uv'[g])} = {g \in Handles : Counted(uv[g])}
  BY DEF Counted
<1>2. {g \in Handles : obj'[g].loop = "loop"} = {g \in Handles : obj[g].loop = "loop"}
  OBVIOUS
<1>3. ActiveCountExact'
  BY <1>0, <1>1 DEF LoopCounts, ActiveCountExact
<1>4. LoopRefsExact'
  BY <1>0, <1>2 DEF LoopCounts, LoopRefsExact, One
<1>5. LoopKept'
  BY <1>0 DEF LoopKept, Registered
<1> QED BY <1>0, <1>3, <1>4, <1>5 DEF LoopCounts, LoopKnown

\* A step that leaves the pointer to the loop or frees the handle.
LEMMA KeptStep ==
  ASSUME IInv, IInv', LoopKnown, NEW h \in Handles, NEW w, Kept(View(h), w),
         Commit(h, w), (phase' = "out") <=> (phase = "out")
  PROVE  LoopKnown'
BY BalancedStep DEF Kept

\* The view a step starts from.
LEMMA StartsLoose ==
  ASSUME IInv, LoopKnown, NEW h \in Handles
  PROVE  /\ View(h) \in Loose /\ View(h).o = obj[h] /\ View(h).u = uv[h] /\ View(h).l = loop
         /\ obj[h] \in LooseObject /\ uv[h] \in UvHandle /\ loop \in LoopObject
BY LoopPaid DEF LoopKnown

-----------------------------------------------------------------------------
(* Every action leaves the counters right.                                 *)

\* __new__, a setter of repeat, send(), a new name and a cycle count for nothing.
LEMMA QuietKnown ==
  ASSUME IInv, LoopKnown, NEW h \in Handles,
         New(h) \/ TakeRef(h) \/ MakeCycle(h) \/ Send(h) \/ \E r \in BOOLEAN : SetRepeat(h, r)
  PROVE  LoopKnown'
<1>1. obj \in [Handles -> Object] /\ uv \in [Handles -> UvHandle]
  BY DEF IInv, TypeOK
<1>2. loop' = loop /\ phase' = phase
  BY DEF New, TakeRef, MakeCycle, Send, SetRepeat, control
<1>3. \A g \in Handles :
        /\ uv'[g].active = uv[g].active /\ uv'[g].ref = uv[g].ref /\ uv'[g].state = uv[g].state
  BY <1>1 DEF New, TakeRef, MakeCycle, Send, SetRepeat, UvHandle
<1>4. \A g \in Handles :
        /\ obj'[g].loop = obj[g].loop /\ obj'[g].initialized = obj[g].initialized
        /\ obj'[g].cycle => obj[g].cycle \/ Cycles
  BY <1>1 DEF New, TakeRef, MakeCycle, Send, SetRepeat, Object
<1> QED BY <1>2, <1>3, <1>4, UnchangedCounts

\* initialize_handle: the handle begins to refer to the loop.
LEMMA InitHandleKnown ==
  ASSUME IInv, IInv', LoopKnown, NEW h \in Handles, NEW b \in BOOLEAN, InitHandle(h, b)
  PROVE  LoopKnown'
<1> DEFINE o == [obj[h] EXCEPT !.initialized = TRUE, !.pyref = FALSE, !.loop = "loop"]
           u == [uv[h] EXCEPT !.state = "open", !.ref = TRUE, !.hasCb = b]
           l == [loop EXCEPT !.refcnt = @ + 1]
           ready == [o |-> o, u |-> u, l |-> l]
           w == IF h \in Asyncs THEN UvStart(ready) ELSE ready
<1>1. /\ View(h) \in Loose /\ View(h).o = obj[h] /\ View(h).u = uv[h] /\ View(h).l = loop
      /\ obj[h] \in LooseObject /\ uv[h] \in UvHandle /\ loop \in LoopObject
      /\ Paid(View(h)) /\ LoopCounts /\ LoopKept
  BY LoopPaid DEF LoopKnown
<1>2. /\ ~obj[h].initialized /\ loop.users > 0 /\ Commit(h, w)
      /\ phase' = phase
  BY DEF InitHandle, control
<1>3. obj[h].loop # "loop" /\ uv[h].state = "zeroed" /\ ~uv[h].active
  BY <1>1, <1>2 DEF LoopCounts, IInv, Good, Sound
<1>4. /\ o \in LooseObject /\ o.initialized /\ o.loop = "loop" /\ o.cycle = obj[h].cycle
  BY <1>1 DEF LooseObject
<1>5. u \in UvHandle /\ ~u.active /\ u.state = "open"
  BY <1>1, <1>3 DEF UvHandle
<1>6. /\ l \in LoopObject /\ l.refcnt = loop.refcnt + 1 /\ l.active = loop.active
      /\ l.users = loop.users /\ l.mem = loop.mem
  BY <1>1 DEF LoopObject
<1> HIDE DEF o, u, l
<1>7. ready \in Loose /\ ready.o = o /\ ready.u = u /\ ready.l = l
  BY <1>4, <1>5, <1>6 DEF Loose
<1> HIDE DEF ready
<1>8. /\ w \in Loose /\ w.o = o
      /\ w.l.active - One(Counted(w.u)) = l.active - One(Counted(u))
      /\ w.l.refcnt - One(w.o.loop = "loop") = l.refcnt - One(o.loop = "loop")
      /\ w.l.users = l.users /\ (Paid(ready) => Paid(w))
  <2>1. CASE h \in Asyncs
    BY <1>7, <2>1, StartKept DEF Kept, Balanced
  <2>2. CASE h \notin Asyncs
    BY <1>7, <2>2
  <2> QED BY <2>1, <2>2
<1>9. loop.refcnt >= 1
  <2>1. loop.refcnt \in Int /\ loop.users >= 1 /\ loop.users \in Int
    BY <1>1, <1>2 DEF LoopObject
  <2> DEFINE L == {g \in Handles : obj[g].loop = "loop"}
  <2>2. Cardinality(L) \in Nat
    BY ConstantsAssumption, FS_Subset, FS_CardinalityType
  <2>3. loop.refcnt = loop.users + One(phase # "out") + One(DefaultLoop) + Cardinality(L)
    BY <1>1 DEF LoopCounts, LoopRefsExact
  <2> HIDE DEF L
  <2> QED BY <2>1, <2>2, <2>3 DEF One
<1>10. Paid(ready)
  <2>1. loop.refcnt \in Int /\ loop.mem # "freed"
    BY <1>1, <1>9 DEF LoopCounts, LoopObject
  <2> QED BY <1>4, <1>6, <1>7, <1>9, <2>1 DEF Paid, One
<1>11. ~Counted(u) /\ ~Counted(uv[h])
  BY <1>3, <1>5 DEF Counted
<1>12. /\ w.l.active - One(Counted(w.u)) = loop.active - One(Counted(uv[h]))
       /\ w.l.refcnt - One(w.o.loop = "loop") = loop.refcnt - One(obj[h].loop = "loop")
  <2>1. loop.refcnt \in Int /\ loop.active \in Int
    BY <1>1 DEF LoopObject
  <2>2. One(Counted(u)) = One(Counted(uv[h]))
    BY <1>11 DEF One
  <2>3. l.refcnt - One(o.loop = "loop") = loop.refcnt - One(obj[h].loop = "loop")
    BY <1>3, <1>4, <1>6, <2>1 DEF One
  <2> QED BY <1>6, <1>8, <2>2, <2>3
<1> HIDE DEF w
<1>13. LoopCounts'
  BY <1>1, <1>2, <1>4, <1>6, <1>8, <1>10, <1>12, CountsStep DEF Paid
<1>14. LoopKept'
  <2>1. /\ obj'[h] = o
        /\ \A g \in Handles : g # h => obj'[g] = obj[g] /\ uv'[g] = uv[g]
    BY <1>2, <1>8 DEF Commit, IInv, TypeOK
  <2> QED BY <1>1, <1>4, <2>1 DEF LoopKept, Registered
<1> QED BY <1>13, <1>14 DEF LoopKnown

\* Timer_func_start
LEMMA StartTimerKnown ==
  ASSUME IInv, IInv', LoopKnown, NEW h \in Timers, NEW r \in BOOLEAN, NEW z \in BOOLEAN,
         StartTimer(h, r, z)
  PROVE  LoopKnown'
<1> DEFINE s == UvStop(h, View(h))
           a == UvStart(s)
           u == [a.u EXCEPT !.hasCb = TRUE, !.repeat = r]
           f == [a EXCEPT !.u = [@ EXCEPT !.hasCb = TRUE, !.repeat = r]]
           due == IF z /\ InTimersPass THEN {h} ELSE {}
           t == [f EXCEPT !.l.todo = @ \cup due]
           w == HandleIncref(t)
<1>0. h \in Handles
  BY DEF Handles
<1>1. View(h) \in Loose
  BY <1>0, StartsLoose
<1>2. Kept(View(h), s) /\ s \in Loose
  BY <1>0, <1>1, StopKept DEF Kept
<1>3. Commit(h, w) /\ phase' = phase
  BY DEF StartTimer, control
<1> HIDE DEF s
<1>4. Kept(s, a) /\ a \in Loose
  BY <1>2, StartKept DEF Kept
<1> HIDE DEF a
<1>5. u \in UvHandle /\ u.active = a.u.active /\ u.ref = a.u.ref /\ u.state = a.u.state
  BY <1>4 DEF Loose, UvHandle
<1>6. f = [a EXCEPT !.u = u]
  OBVIOUS
<1> HIDE DEF u, f
<1>7. Kept(a, f) /\ f \in Loose
  BY <1>4, <1>5, <1>6, UvKept
<1>8. f.l.todo \cup due \in SUBSET Handles
  BY <1>0, <1>7 DEF Loose, LoopObject
<1> HIDE DEF due
<1>9. t = [f EXCEPT !.l.todo = f.l.todo \cup due]
  OBVIOUS
<1> HIDE DEF t
<1>10. Kept(f, t) /\ t \in Loose
  BY <1>7, <1>8, <1>9, TodoKept
<1>11. Kept(t, w) /\ w \in Loose
  BY <1>10, HandleIncrefKept DEF Kept
<1> HIDE DEF w
<1>12. Kept(View(h), a)
  BY <1>1, <1>2, <1>4, KeptTwice DEF Kept
<1>13. Kept(View(h), f)
  BY <1>1, <1>4, <1>7, <1>12, KeptTwice DEF Kept
<1>14. Kept(View(h), t)
  BY <1>1, <1>7, <1>10, <1>13, KeptTwice DEF Kept
<1>15. Kept(View(h), w)
  BY <1>1, <1>10, <1>11, <1>14, KeptTwice DEF Kept
<1> QED BY <1>0, <1>3, <1>15, KeptStep

\* Idle_func_start, Prepare_func_start, Check_func_start
LEMMA StartWatcherKnown ==
  ASSUME IInv, IInv', LoopKnown, NEW h \in Handles, StartWatcher(h)
  PROVE  LoopKnown'
<1> DEFINE a == UvStart(View(h))
           w == HandleIncref(a)
<1>1. View(h) \in Loose
  BY StartsLoose
<1>2. Kept(View(h), a) /\ a \in Loose
  BY <1>1, StartKept DEF Kept
<1>3. Commit(h, w) /\ phase' = phase
  BY DEF StartWatcher, control
<1> HIDE DEF a
<1>4. Kept(a, w) /\ w \in Loose
  BY <1>2, HandleIncrefKept DEF Kept
<1> HIDE DEF w
<1>5. Kept(View(h), w)
  BY <1>1, <1>2, <1>4, KeptTwice DEF Kept
<1> QED BY <1>3, <1>5, KeptStep

\* Timer_func_stop, Idle_func_stop, ...
LEMMA StopKnown ==
  ASSUME IInv, IInv', LoopKnown, NEW h \in Handles, Stop(h)
  PROVE  LoopKnown'
<1> DEFINE a == UvStop(h, View(h))
           w == HandleDecref(h, a)
<1>1. View(h) \in Loose
  BY StartsLoose
<1>2. Kept(View(h), a) /\ a \in Loose
  BY <1>1, StopKept DEF Kept
<1>3. Commit(h, w) /\ phase' = phase
  BY DEF Stop, control
<1> HIDE DEF a
<1>4. Kept(a, w) /\ w \in Loose
  BY <1>2, HandleDecrefKept DEF Kept
<1> HIDE DEF w
<1>5. Kept(View(h), w)
  BY <1>1, <1>2, <1>4, KeptTwice DEF Kept
<1> QED BY <1>3, <1>5, KeptStep

\* Timer_func_again
LEMMA AgainKnown ==
  ASSUME IInv, IInv', LoopKnown, NEW h \in Handles, Again(h)
  PROVE  LoopKnown'
<1> DEFINE a == UvStop(h, View(h))
           w == UvStart(a)
<1>1. View(h) \in Loose
  BY StartsLoose
<1>2. Kept(View(h), a) /\ a \in Loose
  BY <1>1, StopKept DEF Kept
<1>3. Commit(h, w) /\ phase' = phase
  BY DEF Again, control
<1> HIDE DEF a
<1>4. Kept(a, w) /\ w \in Loose
  BY <1>2, StartKept DEF Kept
<1> HIDE DEF w
<1>5. Kept(View(h), w)
  BY <1>1, <1>2, <1>4, KeptTwice DEF Kept
<1> QED BY <1>3, <1>5, KeptStep

\* Handle_ref_set, on a raw or closed handle too.
LEMMA SetRefKnown ==
  ASSUME IInv, IInv', LoopKnown, NEW h \in Handles, NEW r \in BOOLEAN, SetRef(h, r)
  PROVE  LoopKnown'
<1> DEFINE u == [uv[h] EXCEPT !.ref = r]
           w == SetFlags(View(h), u)
<1>1. View(h) \in Loose /\ View(h).u = uv[h] /\ uv[h] \in UvHandle
  BY StartsLoose
<1>2. u \in UvHandle /\ u.state = uv[h].state
  BY <1>1 DEF UvHandle
<1>3. Commit(h, w) /\ phase' = phase
  BY DEF SetRef, control
<1> HIDE DEF u
<1>4. Kept(View(h), w)
  BY <1>1, <1>2, FlagsKept
<1> HIDE DEF w
<1> QED BY <1>3, <1>4, KeptStep

\* Handle_func_close
LEMMA CloseKnown ==
  ASSUME IInv, IInv', LoopKnown, NEW h \in Handles, NEW c \in {"None", "callable"}, Close(h, c)
  PROVE  LoopKnown'
<1> DEFINE o == [obj[h] EXCEPT !.onClose = c]
           a == [View(h) EXCEPT !.o.onClose = c]
           b == Incref(a)
           w == UvClose(h, b, "user")
<1>1. /\ View(h) \in Loose /\ View(h).o = obj[h] /\ View(h).u = uv[h]
      /\ obj[h] \in LooseObject
  BY StartsLoose
<1>2. Commit(h, w) /\ phase' = phase /\ uv[h].state # "closed"
  BY DEF Close, Usable, Closing, control
<1>3. /\ o \in LooseObject /\ o.loop = obj[h].loop /\ o.initialized = obj[h].initialized
      /\ o.cycle = obj[h].cycle /\ o.mem = obj[h].mem
  BY <1>1 DEF LooseObject
<1>4. a = [View(h) EXCEPT !.o = o]
  BY <1>1
<1> HIDE DEF o, a
<1>5. Kept(View(h), a) /\ a \in Loose /\ a.u = uv[h]
  BY <1>1, <1>3, <1>4, ObjectKept
<1>6. Kept(a, b) /\ b \in Loose /\ b.u = uv[h]
  BY <1>5, IncrefKept DEF Kept
<1> HIDE DEF b
<1>7. Kept(b, w) /\ w \in Loose
  BY <1>2, <1>6, CloseKept DEF Kept
<1> HIDE DEF w
<1>8. Kept(View(h), b)
  BY <1>1, <1>5, <1>6, KeptTwice DEF Kept
<1>9. Kept(View(h), w)
  BY <1>1, <1>6, <1>7, <1>8, KeptTwice DEF Kept
<1> QED BY <1>2, <1>9, KeptStep

\* A name is dropped.
LEMMA DropRefKnown ==
  ASSUME IInv, IInv', LoopKnown, NEW h \in Handles, DropRef(h)
  PROVE  LoopKnown'
<1> DEFINE o == [obj[h] EXCEPT !.users = @ - 1]
           a == [View(h) EXCEPT !.o.users = @ - 1]
           w == Decref(h, a)
<1>1. View(h) \in Loose /\ View(h).o = obj[h] /\ obj[h] \in LooseObject
  BY StartsLoose
<1>2. Commit(h, w) /\ phase' = phase
  BY DEF DropRef, control
<1>3. /\ o \in LooseObject /\ o.loop = obj[h].loop /\ o.initialized = obj[h].initialized
      /\ o.cycle = obj[h].cycle /\ o.mem = obj[h].mem
  BY <1>1 DEF LooseObject
<1>4. a = [View(h) EXCEPT !.o = o]
  BY <1>1
<1> HIDE DEF o, a
<1>5. Kept(View(h), a) /\ a \in Loose
  BY <1>1, <1>3, <1>4, ObjectKept
<1>6. Kept(a, w) /\ w \in Loose
  BY <1>5, DecrefKept DEF Kept
<1> HIDE DEF w
<1>7. Kept(View(h), w)
  BY <1>1, <1>5, <1>6, KeptTwice DEF Kept
<1> QED BY <1>2, <1>7, KeptStep

\* A cycle is broken.
LEMMA BreakCycleKnown ==
  ASSUME IInv, IInv', LoopKnown, NEW h \in Handles, BreakCycle(h)
  PROVE  LoopKnown'
<1> DEFINE o == [obj[h] EXCEPT !.cycle = FALSE]
           a == [View(h) EXCEPT !.o.cycle = FALSE]
           w == Decref(h, a)
<1>1. View(h) \in Loose /\ View(h).o = obj[h] /\ obj[h] \in LooseObject
  BY StartsLoose
<1>2. Commit(h, w) /\ phase' = phase
  BY DEF BreakCycle, control
<1>3. /\ o \in LooseObject /\ o.loop = obj[h].loop /\ o.initialized = obj[h].initialized
      /\ ~o.cycle /\ o.mem = obj[h].mem
  BY <1>1 DEF LooseObject
<1>4. a = [View(h) EXCEPT !.o = o]
  BY <1>1
<1> HIDE DEF o, a
<1>5. Kept(View(h), a) /\ a \in Loose
  BY <1>1, <1>3, <1>4, ObjectKept
<1>6. Kept(a, w) /\ w \in Loose
  BY <1>5, DecrefKept DEF Kept
<1> HIDE DEF w
<1>7. Kept(View(h), w)
  BY <1>1, <1>5, <1>6, KeptTwice DEF Kept
<1> QED BY <1>2, <1>7, KeptStep

\* The collector drops self->loop before the handle is closed; without cycles
\* there is nothing to collect.
LEMMA CollectKnown ==
  ASSUME IInv, IInv', LoopKnown, NEW h \in Handles, Collect(h)
  PROVE  LoopKnown'
<1> DEFINE d == DropLoop(View(h), "null")
           o == [d.o EXCEPT !.onClose = "null", !.cycle = FALSE]
           a == [d EXCEPT !.o = [@ EXCEPT !.onClose = "null", !.cycle = FALSE]]
           w == Decref(h, a)
<1>1. View(h) \in Loose
  BY StartsLoose
<1>2. Commit(h, w) /\ phase' = phase /\ obj[h].cycle
  BY DEF Collect, control
<1>3. d \in Loose /\ Balanced(View(h), d)
  BY <1>1, DropLoopBalanced
<1>4. a = [d EXCEPT !.o = o]
  OBVIOUS
<1> HIDE DEF d
<1>5. /\ o \in LooseObject /\ o.loop = d.o.loop /\ o.initialized = d.o.initialized
      /\ ~o.cycle /\ o.mem = d.o.mem
  BY <1>3 DEF Loose, LooseObject
<1> HIDE DEF o, a
<1>6. Kept(d, a) /\ a \in Loose
  BY <1>3, <1>4, <1>5, ObjectKept
<1>7. Kept(a, w) /\ w \in Loose
  BY <1>6, DecrefKept DEF Kept
<1> HIDE DEF w
<1>8. Balanced(View(h), a)
  BY <1>1, <1>3, <1>6, KeptTwice DEF Kept
<1>9. Balanced(View(h), w)
  BY <1>1, <1>6, <1>7, <1>8, KeptTwice DEF Kept
<1>10. Cycles
  BY <1>2 DEF LoopKnown, LoopKept
<1> QED BY <1>2, <1>7, <1>9, <1>10, BalancedStep

\* A step on the Loop object that keeps what its counters stand for.
LEMMA LoopStepKnown ==
  ASSUME IInv, LoopKnown, obj' = obj, uv' = uv, loop'.active = loop.active,
         loop'.refcnt = loop'.users + One(phase' # "out") + One(DefaultLoop)
                          + Cardinality({h \in Handles : obj[h].loop = "loop"}),
         loop'.mem = "freed" <=> loop'.refcnt = 0
  PROVE  LoopKnown'
<1>1. ActiveCountExact'
  BY DEF LoopKnown, LoopCounts, ActiveCountExact
<1>2. LoopRefsExact'
  BY DEF LoopRefsExact
<1>3. LoopKept'
  BY DEF LoopKnown, LoopKept, Registered
<1> QED BY <1>1, <1>2, <1>3 DEF LoopKnown, LoopCounts

\* The references to the Loop object, in numbers.
LEMMA LoopRefs ==
  ASSUME IInv, LoopKnown
  PROVE  LET n == Cardinality({h \in Handles : obj[h].loop = "loop"}) IN
         /\ n \in Nat /\ (n = 0 => \A h \in Handles : obj[h].loop # "loop")
         /\ loop \in LoopObject /\ loop.users \in 0..1 /\ loop.refcnt \in Int
         /\ loop.refcnt = loop.users + One(phase # "out") + One(DefaultLoop) + n
         /\ loop.mem = "freed" <=> loop.refcnt = 0
         /\ One(phase # "out") \in 0..1 /\ One(DefaultLoop) \in 0..1
<1> DEFINE L == {h \in Handles : obj[h].loop = "loop"}
<1>1. IsFiniteSet(L)
  BY ConstantsAssumption, FS_Subset
<1>2. Cardinality(L) \in Nat /\ (Cardinality(L) = 0 => L = {})
  BY <1>1, FS_CardinalityType, FS_EmptySet
<1>3. loop \in LoopObject /\ loop.users \in 0..1 /\ loop.refcnt \in Int
  BY DEF IInv, TypeOK, LoopObject
<1>4. One(phase # "out") \in 0..1 /\ One(DefaultLoop) \in 0..1
  BY DEF One
<1> QED BY <1>2, <1>3, <1>4 DEF LoopKnown, LoopCounts, LoopRefsExact

\* handle.loop, or Loop.default_loop()
LEMMA TakeLoopKnown ==
  ASSUME IInv, LoopKnown, TakeLoop
  PROVE  LoopKnown'
<1> DEFINE n == Cardinality({h \in Handles : obj[h].loop = "loop"})
           p == One(phase # "out")
           d == One(DefaultLoop)
           l == [loop EXCEPT !.users = 1, !.refcnt = @ + 1]
<1>1. /\ n \in Nat /\ (n = 0 => \A h \in Handles : obj[h].loop # "loop")
      /\ loop \in LoopObject /\ loop.users \in 0..1 /\ loop.refcnt \in Int
      /\ loop.refcnt = loop.users + p + d + n
      /\ loop.mem = "freed" <=> loop.refcnt = 0
      /\ p \in 0..1 /\ d \in 0..1
  BY LoopRefs
<1>2. loop' = l /\ loop.users = 0 /\ obj' = obj /\ uv' = uv /\ phase' = phase
  BY DEF TakeLoop, control
<1>3. d = 1 \/ n # 0
  BY <1>1 DEF TakeLoop, One
<1>4. l.active = loop.active /\ l.refcnt = loop.refcnt + 1 /\ l.users = 1 /\ l.mem = loop.mem
  BY <1>1 DEF LoopObject
<1> HIDE DEF n, d, p, l
<1>5. loop'.refcnt = loop'.users + p + d + n
  BY <1>1, <1>2, <1>4
<1>6. loop'.mem = "freed" <=> loop'.refcnt = 0
  BY <1>1, <1>2, <1>3, <1>4
<1>7. loop'.active = loop.active
  BY <1>2, <1>4
<1> QED BY <1>2, <1>5, <1>6, <1>7, LoopStepKnown DEF n, p, d

\* Py_DECREF(loop) of a Loop that is not freed yet.
LEMMA LoopDecrefFacts ==
  ASSUME NEW l \in LoopObject, l.refcnt >= 1, l.mem = "freed" <=> l.refcnt = 0
  PROVE  LET m == LoopDecref(l) IN
         /\ m.refcnt = l.refcnt - 1 /\ m.active = l.active /\ m.users = l.users
         /\ m.mem = "freed" <=> m.refcnt = 0
<1> DEFINE mem == IF l.refcnt = 1 THEN "freed" ELSE l.mem
           m == LoopDecref(l)
<1>1. m = [l EXCEPT !.refcnt = @ - 1, !.mem = mem] /\ l.refcnt \in Int
  BY DEF LoopDecref, LoopObject
<1>2. mem = "freed" <=> l.refcnt - 1 = 0
  BY <1>1
<1> HIDE DEF mem, m
<1>3. m.refcnt = l.refcnt - 1 /\ m.active = l.active /\ m.users = l.users /\ m.mem = mem
  BY <1>1 DEF LoopObject
<1> QED BY <1>2, <1>3 DEF m

\* The last variable that names the Loop is dropped.
LEMMA DropLoopRefKnown ==
  ASSUME IInv, LoopKnown, DropLoopRef
  PROVE  LoopKnown'
<1> DEFINE n == Cardinality({h \in Handles : obj[h].loop = "loop"})
           p == One(phase # "out")
           d == One(DefaultLoop)
           l == [loop EXCEPT !.users = 0]
<1>1. /\ n \in Nat
      /\ loop \in LoopObject /\ loop.users \in 0..1 /\ loop.refcnt \in Int
      /\ loop.refcnt = loop.users + p + d + n
      /\ loop.mem = "freed" <=> loop.refcnt = 0
      /\ p \in 0..1 /\ d \in 0..1
  BY LoopRefs
<1>2. loop' = LoopDecref(l) /\ loop.users = 1 /\ obj' = obj /\ uv' = uv /\ phase' = phase
  BY DEF DropLoopRef, control
<1>3. /\ l \in LoopObject /\ l.active = loop.active /\ l.refcnt = loop.refcnt /\ l.users = 0
      /\ l.mem = loop.mem
  BY <1>1 DEF LoopObject
<1> HIDE DEF n, d, p, l
<1>4. l.refcnt >= 1
  BY <1>1, <1>2, <1>3
<1>5. /\ loop'.refcnt = l.refcnt - 1 /\ loop'.active = l.active /\ loop'.users = l.users
      /\ loop'.mem = "freed" <=> loop'.refcnt = 0
  BY <1>1, <1>2, <1>3, <1>4, LoopDecrefFacts
<1>6. loop'.refcnt = loop'.users + p + d + n
  BY <1>1, <1>2, <1>3, <1>5
<1> QED BY <1>2, <1>3, <1>5, <1>6, LoopStepKnown DEF n, p, d

\* Loop_func_run takes a reference to the Loop object...
LEMMA RunKnown ==
  ASSUME IInv, LoopKnown, Run
  PROVE  LoopKnown'
<1> DEFINE n == Cardinality({h \in Handles : obj[h].loop = "loop"})
           p == One(phase # "out")
           q == One(phase' # "out")
           d == One(DefaultLoop)
<1>1. /\ n \in Nat
      /\ loop \in LoopObject /\ loop.users \in 0..1 /\ loop.refcnt \in Int
      /\ loop.refcnt = loop.users + p + d + n
      /\ loop.mem = "freed" <=> loop.refcnt = 0
      /\ p \in 0..1 /\ d \in 0..1
  BY LoopRefs
<1>2. loop.users > 0 /\ obj' = obj /\ uv' = uv /\ p = 0 /\ q = 1
  BY DEF Run, One
<1>3. /\ loop'.active = loop.active /\ loop'.refcnt = loop.refcnt + 1 /\ loop'.users = loop.users
      /\ loop'.mem = loop.mem
  BY <1>1 DEF Run, BeginTimers, LoopObject
<1> HIDE DEF n, d, p, q
<1>4. loop'.refcnt = loop'.users + q + d + n
  BY <1>1, <1>2, <1>3
<1>5. loop'.mem = "freed" <=> loop'.refcnt = 0
  BY <1>1, <1>2, <1>3
<1> QED BY <1>2, <1>3, <1>4, <1>5, LoopStepKnown DEF n, q, d

\* ... and gives it back.
LEMMA ReturnKnown ==
  ASSUME IInv, LoopKnown, Return
  PROVE  LoopKnown'
<1> DEFINE n == Cardinality({h \in Handles : obj[h].loop = "loop"})
           p == One(phase # "out")
           q == One(phase' # "out")
           d == One(DefaultLoop)
<1>1. /\ n \in Nat
      /\ loop \in LoopObject /\ loop.users \in 0..1 /\ loop.refcnt \in Int
      /\ loop.refcnt = loop.users + p + d + n
      /\ loop.mem = "freed" <=> loop.refcnt = 0
      /\ p \in 0..1 /\ d \in 0..1
  BY LoopRefs
<1>2. loop' = LoopDecref(loop) /\ obj' = obj /\ uv' = uv /\ p = 1 /\ q = 0
  BY DEF Return, PhaseDone, One
<1> HIDE DEF n, d, p, q
<1>3. loop.refcnt >= 1
  BY <1>1, <1>2
<1>4. /\ loop'.refcnt = loop.refcnt - 1 /\ loop'.active = loop.active /\ loop'.users = loop.users
      /\ loop'.mem = "freed" <=> loop'.refcnt = 0
  BY <1>1, <1>2, <1>3, LoopDecrefFacts
<1>5. loop'.refcnt = loop'.users + q + d + n
  BY <1>1, <1>2, <1>4
<1> QED BY <1>2, <1>4, <1>5, LoopStepKnown DEF n, q, d

\* The phases of uv_run, and Loop.update_time(), move between lists only.
LEMMA PhasesKnown ==
  ASSUME IInv, LoopKnown, UpdateTime \/ RunWatchers \/ Poll \/ RunClosing \/ NextIteration
  PROVE  LoopKnown'
<1>1. loop \in LoopObject
  BY DEF IInv, TypeOK
<1>2. /\ loop'.active = loop.active /\ loop'.refcnt = loop.refcnt /\ loop'.users = loop.users
      /\ loop'.mem = loop.mem
  BY <1>1 DEF UpdateTime, RunWatchers, Poll, RunClosing, NextIteration, BeginTimers, LoopObject
<1>3. obj' = obj /\ uv' = uv /\ ((phase' = "out") <=> (phase = "out"))
  BY DEF UpdateTime, control, RunWatchers, Poll, RunClosing, NextIteration, PhaseDone
<1> QED BY <1>2, <1>3, UnchangedCounts

\* A callback is entered with a reference to the handle.
LEMMA EnterKnown ==
  ASSUME IInv, IInv', LoopKnown, NEW h \in Handles, NEW v, Kept(View(h), v), EnterCallback(h, v)
  PROVE  LoopKnown'
<1> DEFINE w == Incref(v)
<1>1. v \in Loose /\ View(h) \in Loose
  BY StartsLoose DEF Kept
<1>2. Kept(v, w) /\ Commit(h, w) /\ phase' = phase
  BY <1>1, IncrefKept DEF EnterCallback
<1> HIDE DEF w
<1>3. Kept(View(h), w)
  BY <1>1, <1>2, KeptTwice DEF Kept
<1> QED BY <1>2, <1>3, KeptStep

\* uv__run_timers
LEMMA FireTimerKnown ==
  ASSUME IInv, IInv', LoopKnown, NEW h \in Handles, FireTimer(h)
  PROVE  LoopKnown'
<1> DEFINE s == UvStop(h, View(h))
           w == IF uv[h].repeat THEN UvStart(s) ELSE s
<1>1. View(h) \in Loose
  BY StartsLoose
<1>2. Kept(View(h), s) /\ s \in Loose
  BY <1>1, StopKept DEF Kept
<1>3. EnterCallback(h, w)
  BY DEF FireTimer
<1> HIDE DEF s
<1>4. Kept(s, UvStart(s)) /\ UvStart(s) \in Loose
  BY <1>2, StartKept DEF Kept
<1>5. Kept(View(h), UvStart(s))
  BY <1>1, <1>2, <1>4, KeptTwice DEF Kept
<1>6. Kept(View(h), w)
  BY <1>2, <1>5
<1> HIDE DEF w
<1> QED BY <1>3, <1>6, EnterKnown

\* The phase takes a handle off its list.
LEMMA ServeKept ==
  ASSUME NEW v \in Loose, NEW h \in Handles
  PROVE  LET w == Serve(h, v) IN Kept(v, w) /\ w \in Loose /\ w.u = v.u
<1>1. v.l.todo \ {h} \in SUBSET Handles
  BY DEF Loose, LoopObject
<1>2. Serve(h, v) = [v EXCEPT !.l.todo = v.l.todo \ {h}]
  BY DEF Serve
<1> QED BY <1>1, <1>2, TodoKept

\* uv__run_idle, uv__run_prepare, uv__run_check
LEMMA FireWatcherKnown ==
  ASSUME IInv, IInv', LoopKnown, NEW h \in Handles, FireWatcher(h)
  PROVE  LoopKnown'
<1>1. View(h) \in Loose
  BY StartsLoose
<1> QED BY <1>1, ServeKept, EnterKnown DEF FireWatcher

\* uv__async_io
LEMMA FireAsyncKnown ==
  ASSUME IInv, IInv', LoopKnown, NEW h \in Handles, FireAsync(h)
  PROVE  LoopKnown'
<1> DEFINE s == Serve(h, View(h))
           u == [s.u EXCEPT !.pending = FALSE]
           w == [s EXCEPT !.u.pending = FALSE]
<1>1. View(h) \in Loose
  BY StartsLoose
<1>2. Kept(View(h), s) /\ s \in Loose
  BY <1>1, ServeKept
<1>3. EnterCallback(h, w) \/ (Commit(h, w) /\ phase' = phase)
  BY DEF FireAsync, control
<1> HIDE DEF s
<1>4. u \in UvHandle /\ u.active = s.u.active /\ u.ref = s.u.ref /\ u.state = s.u.state
  BY <1>2 DEF Loose, UvHandle
<1>5. w = [s EXCEPT !.u = u]
  OBVIOUS
<1> HIDE DEF u, w
<1>6. Kept(s, w) /\ w \in Loose
  BY <1>2, <1>4, <1>5, UvKept
<1>7. Kept(View(h), w)
  BY <1>1, <1>2, <1>6, KeptTwice DEF Kept
<1>8. CASE EnterCallback(h, w)
  BY <1>7, <1>8, EnterKnown
<1>9. CASE Commit(h, w) /\ phase' = phase
  BY <1>7, <1>9, KeptStep
<1> QED BY <1>3, <1>8, <1>9

\* The Py_DECREF(self) after a callback.
LEMMA LeaveCallbackKnown ==
  ASSUME IInv, IInv', LoopKnown, LeaveCallback
  PROVE  LoopKnown'
<1>1. PICK h \in Handles : h = cb.handle
  BY RunningCallback DEF LeaveCallback
<1>2. Commit(h, Decref(h, View(h))) /\ phase' = phase
  BY <1>1 DEF LeaveCallback
<1>3. Kept(View(h), Decref(h, View(h)))
  BY StartsLoose, DecrefKept
<1> QED BY <1>2, <1>3, KeptStep

\* The end of pyuv__handle_close_cb drops the loop and up to two references.
LEMMA EndBalanced ==
  ASSUME NEW h \in Handles, NEW v \in Loose, v.u.state = "closed"
  PROVE  LET w == Decref(h, HandleDecref(h, [DropLoop(v, "None") EXCEPT !.o.onClose = "null"])) IN
         w \in Loose /\ Balanced(v, w) /\ w.u.state = "closed"
<1> DEFINE d == DropLoop(v, "None")
           o == [d.o EXCEPT !.onClose = "null"]
           f == [d EXCEPT !.o.onClose = "null"]
           p == HandleDecref(h, f)
           w == Decref(h, p)
<1>1. d \in Loose /\ Balanced(v, d)
  BY DropLoopBalanced
<1> HIDE DEF d
<1>2. /\ o \in LooseObject /\ o.loop = d.o.loop /\ o.initialized = d.o.initialized
      /\ o.cycle = d.o.cycle /\ o.mem = d.o.mem
  BY <1>1 DEF Loose, LooseObject
<1>3. f = [d EXCEPT !.o = o]
  OBVIOUS
<1> HIDE DEF o, f
<1>4. Kept(d, f) /\ f \in Loose
  BY <1>1, <1>2, <1>3, ObjectKept
<1>5. Kept(f, p) /\ p \in Loose
  BY <1>4, HandleDecrefKept DEF Kept
<1> HIDE DEF p
<1>6. Kept(p, w) /\ w \in Loose
  BY <1>5, DecrefKept DEF Kept
<1> HIDE DEF w
<1>7. Balanced(v, f)
  BY <1>1, <1>4, KeptTwice DEF Kept
<1>8. Balanced(v, p)
  BY <1>4, <1>5, <1>7, KeptTwice DEF Kept
<1>9. Balanced(v, w)
  BY <1>5, <1>6, <1>8, KeptTwice DEF Kept
<1>10. w.u.state = "closed"
  BY <1>9 DEF Balanced
<1> QED BY <1>6, <1>9, <1>10 DEF w, p, f, d

\* The close callback returns.
LEMMA LeaveCloseCallbackKnown ==
  ASSUME IInv, IInv', LoopKnown, LeaveCloseCallback
  PROVE  LoopKnown'
<1>1. PICK h \in Handles : h = cb.handle /\ KindOf(h) = "close"
  BY RunningCallback DEF LeaveCloseCallback
<1> DEFINE w == Decref(h, HandleDecref(h, [DropLoop(View(h), "None") EXCEPT !.o.onClose = "null"]))
<1>2. View(h) \in Loose /\ View(h).u.state = "closed"
  BY <1>1, StartsLoose DEF IInv, Good, Sound
<1>3. w \in Loose /\ Balanced(View(h), w) /\ w.u.state = "closed"
  BY <1>2, EndBalanced
<1>4. Commit(h, w) /\ phase' = phase
  BY <1>1 DEF LeaveCloseCallback, EndClose
<1> HIDE DEF w
<1> QED BY <1>3, <1>4, BalancedStep

\* uv__finish_close
LEMMA FinishCloseKnown ==
  ASSUME IInv, IInv', LoopKnown, FinishClose
  PROVE  LoopKnown'
<1>1. PICK h \in Handles : h = Head(batch)
  BY PopList DEF FinishClose, IInv, TypeOK
<1> DEFINE u == [uv[h] EXCEPT !.state = "closed", !.ref = FALSE]
           v == SetFlags(View(h), u)
           done == Decref(h, v)
           ended == Decref(h, HandleDecref(h, [DropLoop(v, "None") EXCEPT !.o.onClose = "null"]))
<1>2. (Commit(h, done) \/ Commit(h, v) \/ Commit(h, ended)) /\ phase' = phase
  BY <1>1 DEF FinishClose, EndClose
<1>3. View(h) \in Loose /\ uv[h] \in UvHandle
  BY StartsLoose
<1>4. u \in UvHandle /\ u.state = "closed"
  BY <1>3 DEF UvHandle
<1> HIDE DEF u
<1>5. Kept(View(h), v) /\ v \in Loose /\ v.u.state = "closed"
  BY <1>3, <1>4, FlagsKept DEF Kept
<1> HIDE DEF v
<1>6. Kept(v, done) /\ done \in Loose
  BY <1>5, DecrefKept DEF Kept
<1>7. ended \in Loose /\ Balanced(v, ended) /\ ended.u.state = "closed"
  BY <1>5, EndBalanced
<1> HIDE DEF done, ended
<1>8. Kept(View(h), done)
  BY <1>3, <1>5, <1>6, KeptTwice DEF Kept
<1>9. Balanced(View(h), ended)
  BY <1>3, <1>5, <1>7, KeptTwice DEF Kept
<1>10. CASE Commit(h, done)
  BY <1>2, <1>8, <1>10, KeptStep
<1>11. CASE Commit(h, v)
  BY <1>2, <1>5, <1>11, KeptStep
<1>12. CASE Commit(h, ended)
  BY <1>2, <1>7, <1>9, <1>12, BalancedStep
<1> QED BY <1>2, <1>10, <1>11, <1>12

-----------------------------------------------------------------------------

\* A new loop is referred to by the variable that names it, and by the static
\* of default_loop().
LEMMA InitKnown == Init => LoopKnown
<1> SUFFICES ASSUME Init PROVE LoopKnown
  OBVIOUS
<1>1. {h \in Handles : Counted(uv[h])} = {} /\ {h \in Handles : obj[h].loop = "loop"} = {}
  BY DEF Init, Counted
<1>2. Cardinality({}) = 0
  BY FS_EmptySet
<1>3. ActiveCountExact
  BY <1>1, <1>2 DEF Init, ActiveCountExact
<1>4. LoopRefsExact
  <2>1. loop.refcnt = (IF DefaultLoop THEN 2 ELSE 1) /\ loop.users = 1 /\ phase = "out"
    BY DEF Init
  <2>2. loop.refcnt = loop.users + One(phase # "out") + One(DefaultLoop) + 0
    BY <2>1 DEF One
  <2> QED BY <1>1, <1>2, <2>2 DEF LoopRefsExact
<1>5. loop.mem = "freed" <=> loop.refcnt = 0
  BY DEF Init
<1>6. LoopKept /\ \A h \in Handles : obj[h].loop = "loop" => obj[h].initialized
  BY DEF Init, LoopKept, Registered
<1> QED BY <1>3, <1>4, <1>5, <1>6 DEF LoopKnown, LoopCounts

\* Every step keeps what the loop knows of its handles.
LEMMA KnownStep == IInv /\ LoopKnown /\ [Next]_vars => LoopKnown'
<1> SUFFICES ASSUME IInv, LoopKnown, [Next]_vars PROVE LoopKnown'
  OBVIOUS
<1>0. IInv'
  BY Inductive
<1>1. CASE PythonStep
  <2>1. ASSUME NEW h \in Handles,
               New(h) \/ Stop(h) \/ TakeRef(h) \/ DropRef(h) \/ MakeCycle(h) \/ BreakCycle(h) \/ Collect(h)
        PROVE  LoopKnown'
    BY <1>0, <2>1, QuietKnown, StopKnown, DropRefKnown, BreakCycleKnown, CollectKnown
  <2>2. ASSUME NEW h \in Handles, NEW b \in BOOLEAN, InitHandle(h, b) \/ SetRef(h, b)
        PROVE  LoopKnown'
    BY <1>0, <2>2, InitHandleKnown, SetRefKnown
  <2>3. ASSUME NEW h \in Handles, NEW c \in {"None", "callable"}, Close(h, c)
        PROVE  LoopKnown'
    BY <1>0, <2>3, CloseKnown
  <2>4. ASSUME NEW t \in Timers, NEW repeat \in BOOLEAN, NEW zero \in BOOLEAN,
               StartTimer(t, repeat, zero) \/ Again(t) \/ SetRepeat(t, repeat)
        PROVE  LoopKnown'
    <3>1. t \in Handles
      BY DEF Handles
    <3> QED BY <1>0, <2>4, <3>1, StartTimerKnown, AgainKnown, QuietKnown
  <2>5. ASSUME NEW w \in Watchers, StartWatcher(w) PROVE LoopKnown'
    <3>1. w \in Handles
      BY DEF Handles
    <3> QED BY <1>0, <2>5, <3>1, StartWatcherKnown
  <2>6. ASSUME NEW a \in Asyncs, Send(a) PROVE LoopKnown'
    <3>1. a \in Handles
      BY DEF Handles
    <3> QED BY <2>6, <3>1, QuietKnown
  <2>7. ASSUME UpdateTime \/ TakeLoop \/ DropLoopRef PROVE LoopKnown'
    BY <2>7, PhasesKnown, TakeLoopKnown, DropLoopRefKnown
  <2> QED BY <1>1, <2>1, <2>2, <2>3, <2>4, <2>5, <2>6, <2>7 DEF PythonStep
<1>2. CASE Run
  BY <1>2, RunKnown
<1>3. CASE LoopStep
  <2>1. ASSUME NEW t \in Timers, FireTimer(t) PROVE LoopKnown'
    <3>1. t \in Handles
      BY DEF Handles
    <3> QED BY <1>0, <2>1, <3>1, FireTimerKnown
  <2>2. ASSUME NEW w \in Watchers, FireWatcher(w) PROVE LoopKnown'
    <3>1. w \in Handles
      BY DEF Handles
    <3> QED BY <1>0, <2>2, <3>1, FireWatcherKnown
  <2>3. ASSUME NEW a \in Asyncs, FireAsync(a) PROVE LoopKnown'
    <3>1. a \in Handles
      BY DEF Handles
    <3> QED BY <1>0, <2>3, <3>1, FireAsyncKnown
  <2>4. ASSUME RunWatchers \/ Poll \/ RunClosing \/ NextIteration \/ Return \/ FinishClose
        PROVE  LoopKnown'
    BY <1>0, <2>4, PhasesKnown, ReturnKnown, FinishCloseKnown
  <2> QED BY <1>3, <2>1, <2>2, <2>3, <2>4 DEF LoopStep
<1>4. CASE CallbackReturns
  BY <1>0, <1>4, LeaveCallbackKnown, LeaveCloseCallbackKnown DEF CallbackReturns
<1>5. CASE UNCHANGED vars
  <2>1. obj' = obj /\ uv' = uv /\ loop' = loop /\ phase' = phase
    BY <1>5 DEF vars
  <2> QED BY <2>1, UnchangedCounts
<1> QED BY <1>1, <1>2, <1>3, <1>4, <1>5 DEF Next

\* The loop's counters and the lifetime of the Loop object are right in every
\* reachable state.
LEMMA KnownAlways == Spec => []LoopKnown
<1> QED BY InitKnown, KnownStep, Invariance, PTL DEF Spec

\* Every Py_INCREF of the Loop object, by initialize_handle, handle.loop and
\* Loop_func_run, is paired with one Py_DECREF, also when the collector clears a
\* handle before it is closed.
THEOREM LoopRefcountsCorrect == Spec => []LoopRefsExact
<1>1. LoopKnown => LoopRefsExact
  BY DEF LoopKnown, LoopCounts
<1> QED BY <1>1, KnownAlways, PTL

\* uv_run's count of active handles and the closing lists are exact, a callback
\* that raises finds the Loop, and the Loop outlives its handles, those
\* Handle_tp_dealloc resurrects too: on the default loop, or where no handle is
\* in a cycle, since Handle_tp_clear drops self->loop before the handle is closed.
THEOREM LoopOutlives ==
  ASSUME DefaultLoop \/ ~Cycles
  PROVE  Spec => [](LoopKnowsHandles /\ ResurrectedUntilClosed)
<1>1. IInv /\ LoopKnown => LoopKnowsHandles /\ ResurrectedUntilClosed
  <2> SUFFICES ASSUME IInv, LoopKnown PROVE LoopKnowsHandles /\ ResurrectedUntilClosed
    OBVIOUS
  <2> DEFINE n == Cardinality({h \in Handles : obj[h].loop = "loop"})
  <2>1. /\ n \in Nat /\ (n = 0 => \A h \in Handles : obj[h].loop # "loop")
        /\ loop \in LoopObject /\ loop.users \in 0..1 /\ loop.refcnt \in Int
        /\ loop.refcnt = loop.users + One(phase # "out") + One(DefaultLoop) + n
        /\ loop.mem = "freed" <=> loop.refcnt = 0
        /\ One(phase # "out") \in 0..1 /\ One(DefaultLoop) \in 0..1
    BY LoopRefs
  <2> HIDE DEF n
  <2>2. ASSUME loop.mem = "freed"
        PROVE  /\ loop.users = 0 /\ phase = "out" /\ ~DefaultLoop
               /\ \A h \in Handles : obj[h].loop # "loop"
    <3>1. loop.users = 0 /\ One(phase # "out") = 0 /\ One(DefaultLoop) = 0 /\ n = 0
      BY <2>1, <2>2
    <3> QED BY <2>1, <3>1 DEF One
  <2>3. LoopOutlivesHandles
    BY <2>2 DEF LoopOutlivesHandles, LoopKnown, LoopKept
  <2>4. ActiveCountExact /\ ClosingListed
    BY DEF LoopKnown, LoopCounts, IInv
  <2>5. ExcepthookFindsLoop
    <3> SUFFICES ASSUME cb.kind # "none" PROVE obj[cb.handle].loop = "loop" /\ loop.mem = "live"
      BY DEF ExcepthookFindsLoop
    <3>1. PICK h \in Handles : h = cb.handle /\ KindOf(h) # "none"
      BY RunningCallback
    <3>2. obj[h].loop = "loop"
      BY <3>1 DEF IInv, Good, HasLoop
    <3> QED BY <2>1, <2>2, <3>1, <3>2 DEF LoopObject
  <2>6. ResurrectedUntilClosed
    BY <2>1, <2>3 DEF ResurrectedUntilClosed, LoopOutlivesHandles, Registered, LoopObject
  <2> QED BY <2>3, <2>4, <2>5, <2>6 DEF LoopKnowsHandles
<1> QED BY <1>1, KnownAlways, Invariance, PTL
=============================================================================
