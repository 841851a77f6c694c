---------------------------- MODULE LoopRunProofs ----------------------------
(***************************************************************************)
(* uv_run calls what it should, once and in time, and loses no handle and  *)
(* no wake-up, for any number of handles and of threads that send: proofs  *)
(* of the invariants of LoopRun.                                           *)
(***************************************************************************)
EXTENDS LoopRun, QueueLemmas, TLAPS

Listed == Watchers \cup Asyncs

\* The places of an iteration before the phase that calls h.
Before(h) ==
  IF h \in Idles THEN {"timers"} ELSE IF h \in Prepares THEN {"timers", "idle"}
  ELSE {"timers", "idle", "prepare", "poll", "blocked", "async"}

-----------------------------------------------------------------------------
(* The inductive invariant.                                                *)

\* Only open handles are active, and an open async always is.
HandleInv ==
  /\ \A h \in Handles : handle[h].active => Open(h)
  /\ \A a \in Asyncs : Open(a) => handle[a].active

\* The heap has the active timers, and the first is the next due.
HeapInv ==
  /\ Once(heap) /\ Sorted(heap, left)
  /\ \A t \in Timers : In(heap, t) <=> handle[t].active

\* The queue visited is the one of the phase; an active handle is in it or in the loop's.
QueueInv ==
  /\ \A k \in Kinds : Once(queue[k]) /\ \A h \in Handles : In(queue[k], h) => h \in Listed /\ KindOf(h) = k
  /\ Once(visiting)
  /\ \A h \in Handles : In(visiting, h) => h \in Listed /\ at = KindOf(h) /\ ~In(queue[KindOf(h)], h)
  /\ \A h \in Listed : handle[h].active <=> In(queue[KindOf(h)], h) \/ In(visiting, h)

CloseInv ==
  /\ Once(closing) /\ Once(batch)
  /\ \A h \in Handles : /\ handle[h].state = "closing" <=> In(closing, h) \/ In(batch, h)
                        /\ ~(In(closing, h) /\ In(batch, h))
  /\ batch # <<>> => at = "closing"

\* Callbacks run in the phases that make them.
CallbackInv == at \in {"out", "poll", "blocked"} => cb = NoHandle

\* What is left of the poll's timeout is never more than what is left to a timer.
PollInv ==
  at = "blocked" =>
    /\ poll.real = poll.timeout
    /\ poll.wait <= poll.timeout \/ poll.wait = 0
    /\ \A t \in Timers : handle[t].active => poll.timeout <= left[t]

\* A watcher is called in its phase only; one that is not called yet, and was not
\* started in this iteration, has its phase before it or is still to be visited.
ServedInv ==
  /\ \A h \in served : at # "out" /\ at \notin Before(h) /\ ~In(visiting, h)
  /\ \A h \in Watchers :
       at # "out" /\ handle[h].active /\ h \notin fresh \cup served => at \in Before(h) \/ In(visiting, h)

Inv ==
  /\ TypeOK /\ HandleInv /\ HeapInv /\ QueueInv /\ CloseInv /\ CallbackInv
  /\ PollInv /\ WaitsOnlyWhenIdle /\ NoLostSend /\ ServedInv

-----------------------------------------------------------------------------
(* Lemmas about the operators.                                             *)

\* Each listed handle has the kind of its set, and no timer is listed.
LEMMA KindsApart ==
  /\ \A h \in Idles : KindOf(h) = "idle"
  /\ \A h \in Prepares : KindOf(h) = "prepare"
  /\ \A h \in Checks : KindOf(h) = "check"
  /\ \A h \in Asyncs : KindOf(h) = "async"
  /\ \A h \in Listed : KindOf(h) \in Kinds /\ h \notin Timers
  /\ \A h \in Watchers : KindOf(h) \in {"idle", "prepare", "check"} /\ h \notin Asyncs
  /\ \A h \in Handles \ Timers : h \in Listed
  /\ NoHandle \notin Handles
BY LoopRunAssumption DEF KindOf, Kinds, Listed, Watchers, Handles

\* The kinds of the phases a watcher has before it are not its own.
LEMMA BeforeFacts ==
  ASSUME NEW h \in Watchers
  PROVE  /\ "timers" \in Before(h) /\ KindOf(h) \notin Before(h)
         /\ "out" \notin Before(h) /\ "closing" \notin Before(h) /\ "lastTimers" \notin Before(h)
         /\ "idle" \in Before(h) <=> KindOf(h) # "idle"
         /\ "prepare" \in Before(h) <=> KindOf(h) = "check"
         /\ "poll" \in Before(h) <=> KindOf(h) = "check"
         /\ "blocked" \in Before(h) <=> KindOf(h) = "check"
         /\ "async" \in Before(h) <=> KindOf(h) = "check"
         /\ "check" \notin Before(h)
BY LoopRunAssumption, KindsApart DEF Before, Watchers

\* heap_insert puts the timer behind those that are due no later.
LEMMA InsertedSorted ==
  ASSUME NEW s \in Seq(Timers), NEW t \in Timers, NEW dates \in [Timers -> 0 .. MaxTimeout],
         Once(s), ~In(s, t), Sorted(s, dates)
  PROVE  LET u == Inserted(s, t, dates)
         IN  /\ u \in Seq(Timers) /\ Once(u) /\ Sorted(u, dates)
             /\ \A x : In(u, x) <=> In(s, x) \/ x = t
<1> DEFINE before == {i \in DOMAIN s : dates[s[i]] <= dates[t]}
           n == Cardinality(before)
           u == Inserted(s, t, dates)
<1>1. DOMAIN s = 1 .. Len(s) /\ Len(s) \in Nat /\ \A i \in 1 .. Len(s) : s[i] \in Timers
  BY LenProperties, ElementOfSeq
<1>2. MaxTimeout \in Nat /\ \A x \in Timers : dates[x] \in Int
  BY LoopRunAssumption
<1>3. \A i \in before : \A j \in 1 .. i : j \in before
  <2> SUFFICES ASSUME NEW i \in before, NEW j \in 1 .. i, j # i PROVE j \in before
    OBVIOUS
  <2>1. i \in DOMAIN s /\ j \in DOMAIN s /\ j < i
    BY <1>1
  <2>2. dates[s[j]] <= dates[s[i]] /\ dates[s[i]] <= dates[t]
    BY <2>1 DEF Sorted
  <2>3. dates[s[j]] \in Int /\ dates[s[i]] \in Int /\ dates[t] \in Int
    BY <1>1, <1>2, <2>1
  <2> QED BY <2>1, <2>2, <2>3
<1>4. n \in 0 .. Len(s) /\ before = 1 .. n
  <2>1. before \in SUBSET (1 .. Len(s))
    BY <1>1
  <2> HIDE DEF before
  <2> QED BY <1>1, <1>3, <2>1, PrefixSize
<1>5. /\ \A i \in 1 .. n : dates[s[i]] <= dates[t]
      /\ \A i \in DOMAIN s : i \in 1 .. n \/ ~(dates[s[i]] <= dates[t])
  BY <1>4
<1>6. u = Spliced(s, n, t)
  BY DEF Inserted
<1> HIDE DEF n, u
<1>7. n \in Nat /\ n <= Len(s)
  BY <1>1, <1>4
<1> HIDE DEF before
<1>8. \A i \in n + 1 .. Len(s) : dates[t] <= dates[s[i]]
  <2> SUFFICES ASSUME NEW i \in n + 1 .. Len(s) PROVE dates[t] <= dates[s[i]]
    OBVIOUS
  <2>1. i \in DOMAIN s /\ i \notin 1 .. n
    BY <1>1, <1>7
  <2>2. dates[s[i]] \in Int /\ dates[t] \in Int
    BY <1>1, <1>2, <2>1
  <2> QED BY <1>5, <2>1, <2>2
<1>9. /\ u \in Seq(Timers) /\ DOMAIN u = 1 .. Len(s) + 1
      /\ \A i \in 1 .. n : u[i] = s[i]
      /\ u[n + 1] = t
      /\ \A i \in n + 2 .. Len(s) + 1 : u[i] = s[i - 1]
  <2> DEFINE w == Spliced(s, n, t)
  <2>1. /\ w \in Seq(Timers) /\ DOMAIN w = 1 .. Len(s) + 1
        /\ \A i \in 1 .. n : w[i] = s[i]
        /\ w[n + 1] = t
        /\ \A i \in n + 2 .. Len(s) + 1 : w[i] = s[i - 1]
    BY <1>7, SplicedIs
  <2> QED BY <1>6, <2>1
<1> DEFINE from(i) == IF i <= n THEN i ELSE i - 1
<1>10. ASSUME NEW i \in DOMAIN u, i # n + 1 PROVE from(i) \in DOMAIN s /\ u[i] = s[from(i)]
  <2>1. CASE i \in 1 .. n
    BY <1>1, <1>7, <1>9, <2>1
  <2>2. CASE i \in n + 2 .. Len(s) + 1
    <3>1. ~(i <= n) /\ i - 1 \in DOMAIN s /\ u[i] = s[i - 1]
      BY <1>1, <1>7, <1>9, <2>2
    <3> QED BY <3>1
  <2> QED BY <1>1, <1>7, <1>9, <1>10, <2>1, <2>2
<1>11. \A i, j \in DOMAIN u : i # n + 1 /\ j # n + 1 /\ i < j => from(i) < from(j)
  <2>0. \A i \in DOMAIN u : i \in Int
    BY <1>1, <1>9
  <2> HIDE DEF from
  <2> SUFFICES ASSUME NEW i \in Int, NEW j \in Int, i # n + 1, j # n + 1, i < j PROVE from(i) < from(j)
    BY <2>0
  <2> USE DEF from
  <2>1. CASE i <= n /\ j <= n
    BY <2>1
  <2>2. CASE i <= n /\ ~(j <= n)
    <3>1. n + 1 < j
      BY <1>7, <2>2
    <3> QED BY <1>7, <2>2, <3>1
  <2>3. CASE ~(i <= n) /\ ~(j <= n)
    BY <2>3
  <2>4. ~(~(i <= n) /\ j <= n)
    BY <1>7
  <2> QED BY <2>1, <2>2, <2>3, <2>4
<1>12. \A i \in DOMAIN u : i # n + 1 => u[i] # t
  BY <1>10 DEF In
<1>13. Once(u)
  <2> SUFFICES ASSUME NEW i \in DOMAIN u, NEW j \in DOMAIN u, u[i] = u[j], i < j PROVE FALSE
    BY <1>9 DEF Once
  <2>1. i # n + 1 /\ j # n + 1
    BY <1>9, <1>12
  <2>2. from(i) \in DOMAIN s /\ from(j) \in DOMAIN s /\ s[from(i)] = s[from(j)] /\ from(i) < from(j)
    BY <1>10, <1>11, <2>1
  <2> HIDE DEF from
  <2> QED BY <1>1, <2>2 DEF Once
<1>14. Sorted(u, dates)
  <2> SUFFICES ASSUME NEW i \in DOMAIN u, NEW j \in DOMAIN u, i < j PROVE dates[u[i]] <= dates[u[j]]
    BY DEF Sorted
  <2>1. CASE i # n + 1 /\ j # n + 1
    <3>1. from(i) \in DOMAIN s /\ from(j) \in DOMAIN s /\ from(i) < from(j)
      BY <1>10, <1>11, <2>1
    <3> HIDE DEF from
    <3>2. dates[s[from(i)]] <= dates[s[from(j)]]
      BY <3>1 DEF Sorted
    <3> QED BY <1>10, <2>1, <3>2
  <2>2. CASE i = n + 1
    <3>1. j - 1 \in n + 1 .. Len(s) /\ u[j] = s[j - 1] /\ u[i] = t
      BY <1>1, <1>7, <1>9, <2>2
    <3> QED BY <1>8, <3>1
  <2>3. CASE j = n + 1
    <3>1. i \in 1 .. n /\ u[i] = s[i] /\ u[j] = t
      BY <1>1, <1>7, <1>9, <2>3
    <3> QED BY <1>5, <3>1
  <2> QED BY <2>1, <2>2, <2>3
<1>15. ASSUME NEW x PROVE In(u, x) <=> In(s, x) \/ x = t
  <2>1. In(u, x) => In(s, x) \/ x = t
    BY <1>9, <1>10 DEF In
  <2>2. In(u, t)
    <3>1. n + 1 \in DOMAIN u
      BY <1>1, <1>7, <1>9
    <3> QED BY <1>9, <3>1 DEF In
  <2>3. ASSUME In(s, x) PROVE In(u, x)
    <3>1. PICK i \in 1 .. Len(s) : s[i] = x
      BY <1>1, <2>3 DEF In
    <3>2. CASE i <= n
      <4>1. i \in DOMAIN u /\ u[i] = s[i]
        BY <1>1, <1>7, <1>9, <3>2
      <4> QED BY <3>1, <4>1 DEF In
    <3>3. CASE i > n
      <4>1. i + 1 \in n + 2 .. Len(s) + 1 /\ (i + 1) - 1 = i /\ i + 1 \in DOMAIN u
        BY <1>1, <1>7, <1>9, <3>3
      <4>2. u[i + 1] = s[i]
        BY <1>9, <4>1
      <4> QED BY <3>1, <4>1, <4>2 DEF In
    <3> QED BY <1>1, <1>7, <3>1, <3>2, <3>3
  <2> QED BY <2>1, <2>2, <2>3
<1> QED BY <1>9, <1>13, <1>14, <1>15 DEF u

\* uv_timer_start puts the timer into the heap at its new date.
LEMMA RestartedSorted ==
  ASSUME TypeOK, NEW s \in Seq(Timers), NEW t \in Timers, NEW timeout \in 0 .. MaxTimeout,
         Once(s), ~In(s, t), Sorted(s, left), Restarted(s, t, timeout)
  PROVE  /\ left' \in [Timers -> 0 .. MaxTimeout]
         /\ heap' \in Seq(Timers) /\ Once(heap') /\ Sorted(heap', left')
         /\ \A x : In(heap', x) <=> In(s, x) \/ x = t
<1>1. left' = [left EXCEPT ![t] = timeout] /\ heap' = Inserted(s, t, left')
  BY DEF Restarted
<1>2. left' \in [Timers -> 0 .. MaxTimeout]
  BY <1>1 DEF TypeOK
<1>3. \A i \in DOMAIN s : left'[s[i]] = left[s[i]]
  BY <1>1 DEF TypeOK, In
<1>4. Sorted(s, left')
  BY <1>3 DEF Sorted
<1> QED BY <1>1, <1>2, <1>4, InsertedSorted

\* uv__update_time brings every timer nearer by the lag, and keeps their order.
LEMMA UpdateTimeIs ==
  ASSUME TypeOK, UpdateTime
  PROVE  /\ left' \in [Timers -> 0 .. MaxTimeout] /\ lag' = 0 /\ UNCHANGED <<repeat, heap>>
         /\ \A t \in Timers : left'[t] >= 0 /\ left'[t] >= left[t] - lag
         /\ Sorted(heap, left) => Sorted(heap', left')
<1>1. MaxTimeout \in Nat /\ lag \in 0 .. MaxTimeout /\ left \in [Timers -> 0 .. MaxTimeout]
  BY LoopRunAssumption DEF TypeOK
<1>2. left' = UpdatedLeft /\ lag' = 0 /\ UNCHANGED <<repeat, heap>>
  BY DEF UpdateTime
<1>3. \A t \in Timers : left'[t] = IF left[t] > lag THEN left[t] - lag ELSE 0
  BY <1>2 DEF UpdatedLeft
<1>4. ASSUME NEW t \in Timers PROVE left'[t] \in 0 .. MaxTimeout /\ left'[t] >= left[t] - lag
  BY <1>1, <1>3
<1>5. left' \in [Timers -> 0 .. MaxTimeout]
  BY <1>2, <1>4 DEF UpdatedLeft
<1>6. \A t, u \in Timers : left[t] <= left[u] => left'[t] <= left'[u]
  BY <1>1, <1>3
<1>7. \A i \in DOMAIN heap : heap[i] \in Timers
  BY ElementOfSeq, LenProperties DEF TypeOK
<1>8. Sorted(heap, left) => Sorted(heap', left')
  BY <1>2, <1>6, <1>7 DEF Sorted
<1> QED BY <1>2, <1>4, <1>5, <1>8

\* What starting or stopping a handle does to its uv_handle_t.
LEMMA ActiveSet ==
  ASSUME TypeOK, NEW h \in Handles, NEW b \in BOOLEAN, handle' = [handle EXCEPT ![h].active = b]
  PROVE  /\ handle' \in [Handles -> HandleType]
         /\ \A x \in Handles \ {h} : handle'[x] = handle[x]
         /\ (handle'[h].active <=> b) /\ handle'[h].state = handle[h].state
BY DEF TypeOK, HandleType

-----------------------------------------------------------------------------
(* What leaves a part of the invariant alone.                              *)

\* No timer is started or stopped, nor does time go on.
LEMMA HeapFrame ==
  ASSUME HeapInv, UNCHANGED <<left, heap>>, \A t \in Timers : handle'[t].active <=> handle[t].active
  PROVE  HeapInv'
BY DEF HeapInv

\* No handle of a queue is started or stopped, and uv_run stays where it is.
LEMMA QueueFrame ==
  ASSUME QueueInv, UNCHANGED <<queue, visiting, at>>, \A h \in Listed : handle'[h].active <=> handle[h].active
  PROVE  QueueInv'
BY DEF QueueInv

\* No handle is closed or finished.
LEMMA CloseFrame ==
  ASSUME CloseInv, UNCHANGED <<closing, batch, at>>,
         \A h \in Handles : handle'[h].state = "closing" <=> handle[h].state = "closing"
  PROVE  CloseInv'
BY DEF CloseInv

\* No send is made or served.
LEMMA SendFrame ==
  ASSUME NoLostSend, UNCHANGED <<pending, eventfd, sender, visiting, at>>, \A a \in Asyncs : Open(a)' => Open(a)
  PROVE  NoLostSend'
BY DEF NoLostSend

\* No watcher is started or called.
LEMMA ServedFrame ==
  ASSUME ServedInv, UNCHANGED <<served, fresh, visiting, at>>,
         \A h \in Watchers : handle'[h].active => handle[h].active
  PROVE  ServedInv'
BY DEF ServedInv

-----------------------------------------------------------------------------
(* The steps that change a uv_handle_t: each keeps the invariant.          *)

HandleStep ==
  \/ \E h \in Handles : InitHandle(h) \/ Close(h) \/ FinishClose(h)
  \/ \E h \in Reffed, ref \in BOOLEAN : SetRef(h, ref)
  \/ \E a \in Asyncs : InitAsync(a)
  \/ \E t \in Timers : \/ \E timeout, rep \in Timeouts : StartTimer(t, timeout, rep)
                       \/ StopTimer(t) \/ Again(t) \/ FireTimer(t)
  \/ \E h \in Watchers : StartWatcher(h) \/ StopWatcher(h)

\* They are taken outside the poll, which they do not touch.
LEMMA HandleStepElsewhere ==
  ASSUME Inv, HandleStep
  PROVE  /\ UNCHANGED <<at, mode, stopFlag, eventfd, sender, lag, poll, served>>
         /\ PollInv' /\ WaitsOnlyWhenIdle' /\ CallbackInv' /\ cb' \in Handles \cup {NoHandle} /\ ran' \in BOOLEAN
<1> USE DEF Inv, TypeOK
<1>1. InPython => at \notin {"poll", "blocked"}
  BY DEF CallbackInv, InPython
<1> DEFINE Quiet == /\ UNCHANGED <<at, mode, stopFlag, eventfd, sender, lag, poll, served>>
                    /\ at \notin {"poll", "blocked"} /\ (at = "out" => cb' = cb)
                    /\ cb' \in Handles \cup {NoHandle} /\ ran' \in BOOLEAN
<1>2. ASSUME NEW h \in Handles, InitHandle(h) \/ Close(h) PROVE Quiet
  BY <1>1, <1>2 DEF InitHandle, Close, runVars, asyncVars
<1>3. ASSUME NEW h \in Handles, FinishClose(h) PROVE Quiet
  BY <1>3 DEF FinishClose, Between, asyncVars
<1>4. ASSUME NEW h \in Reffed, NEW ref \in BOOLEAN, SetRef(h, ref) PROVE Quiet
  BY <1>1, <1>4 DEF SetRef, runVars, asyncVars
<1>5. ASSUME NEW a \in Asyncs, InitAsync(a) PROVE Quiet
  BY <1>1, <1>5 DEF InitAsync, runVars
<1>6. ASSUME NEW t \in Timers, (\E timeout, rep \in Timeouts : StartTimer(t, timeout, rep)) \/ StopTimer(t) \/ Again(t)
      PROVE  Quiet
  BY <1>1, <1>6 DEF StartTimer, StopTimer, Again, runVars, asyncVars
<1>7. ASSUME NEW t \in Timers, FireTimer(t) PROVE Quiet
  BY <1>7 DEF FireTimer, Between, asyncVars, Handles
<1>8. ASSUME NEW h \in Watchers, StartWatcher(h) \/ StopWatcher(h) PROVE Quiet
  BY <1>1, <1>8 DEF StartWatcher, StopWatcher, runVars, asyncVars
<1>9. Quiet
  BY <1>2, <1>3, <1>4, <1>5, <1>6, <1>7, <1>8 DEF HandleStep
<1> QED BY <1>9 DEF PollInv, WaitsOnlyWhenIdle, CallbackInv

\* What is left to show of a step that changes a uv_handle_t.
LEMMA HandleStepKeeps ==
  ASSUME Inv, HandleStep, handle' \in [Handles -> HandleType],
         left' \in [Timers -> 0 .. MaxTimeout], repeat' \in [Timers -> 0 .. MaxTimeout], heap' \in Seq(Timers),
         queue' \in [Kinds -> Seq(Handles)], visiting' \in Seq(Handles), closing' \in Seq(Handles),
         batch' \in Seq(Handles), pending' \in [Asyncs -> BOOLEAN], fresh' \subseteq Watchers,
         HandleInv', HeapInv', QueueInv', CloseInv', NoLostSend', ServedInv'
  PROVE  Inv'
<1>1. TypeOK'
  BY HandleStepElsewhere DEF Inv, TypeOK
<1> QED BY <1>1, HandleStepElsewhere DEF Inv

\* A timer comes into the heap at its place, or leaves it.
LEMMA TimerSetKeeps ==
  ASSUME Inv, HandleStep, NEW t \in Timers, NEW b \in BOOLEAN, Open(t),
         handle' \in [Handles -> HandleType], \A x \in Handles \ {t} : handle'[x] = handle[x],
         handle'[t].active <=> b, handle'[t].state = "open",
         left' \in [Timers -> 0 .. MaxTimeout], repeat' \in [Timers -> 0 .. MaxTimeout],
         heap' \in Seq(Timers), Once(heap'), Sorted(heap', left'),
         \A x : In(heap', x) <=> (In(heap, x) /\ x # t) \/ (x = t /\ b),
         UNCHANGED <<listVars, pending, fresh>>
  PROVE  Inv'
<1> USE DEF listVars
<1>1. UNCHANGED <<at, eventfd, sender, served>>
  BY HandleStepElsewhere
<1>2. t \in Handles /\ t \notin Listed /\ t \notin Asyncs /\ t \notin Watchers /\ Listed \subseteq Handles
      /\ Timers \subseteq Handles
  BY KindsApart DEF Handles, Listed
<1>3. HandleInv'
  <2>1. ASSUME NEW h \in Handles, handle'[h].active PROVE handle'[h].state = "open"
    BY <2>1 DEF Inv, HandleInv, Open
  <2>2. ASSUME NEW a \in Asyncs, handle'[a].state = "open" PROVE handle'[a].active
    <3>1. a \in Handles \ {t}
      BY <1>2 DEF Handles
    <3> QED BY <2>2, <3>1 DEF Inv, HandleInv, Open
  <2> QED BY <2>1, <2>2 DEF HandleInv, Open
<1>4. HeapInv'
  BY <1>2 DEF Inv, HeapInv
<1>5. QueueInv'
  BY <1>1, <1>2, QueueFrame DEF Inv
<1>6. CloseInv'
  BY <1>1, CloseFrame DEF Inv, Open
<1>7. NoLostSend'
  BY <1>1, <1>2, SendFrame DEF Inv, Open, Handles
<1>8. ServedInv'
  BY <1>1, <1>2, ServedFrame DEF Inv, Listed
<1> QED BY <1>3, <1>4, <1>5, <1>6, <1>7, <1>8, HandleStepKeeps DEF Inv, TypeOK

\* uv_timer_start, also of a timer that is in the heap, and uv_timer_again.
LEMMA StartTimerKeeps ==
  ASSUME Inv, NEW t \in Timers, (\E timeout, rep \in Timeouts : StartTimer(t, timeout, rep)) \/ Again(t)
  PROVE  Inv'
<1>1. HandleStep
  BY DEF HandleStep
<1>2. /\ t \in Handles /\ Open(t) /\ UNCHANGED <<listVars, pending, fresh>>
      /\ Timeouts \subseteq 0 .. MaxTimeout
  BY LoopRunAssumption DEF StartTimer, Again, asyncVars, Handles
<1>3. PICK timeout \in 0 .. MaxTimeout : Restarted(Without(heap, t), t, timeout)
  BY <1>2 DEF StartTimer, Again, Inv, TypeOK
<1>4. heap \in Seq(Timers) /\ Once(heap) /\ Sorted(heap, left)
  BY DEF Inv, TypeOK, HeapInv
<1>5. /\ Without(heap, t) \in Seq(Timers) /\ Once(Without(heap, t)) /\ Sorted(Without(heap, t), left)
      /\ \A x : In(Without(heap, t), x) <=> In(heap, x) /\ x # t
  BY <1>4, WithoutOnce, WithoutSorted
<1>6. /\ left' \in [Timers -> 0 .. MaxTimeout]
      /\ heap' \in Seq(Timers) /\ Once(heap') /\ Sorted(heap', left')
      /\ \A x : In(heap', x) <=> In(Without(heap, t), x) \/ x = t
  BY <1>3, <1>5, RestartedSorted DEF Inv
<1>7. /\ handle' \in [Handles -> HandleType] /\ \A x \in Handles \ {t} : handle'[x] = handle[x]
      /\ handle'[t].active /\ handle'[t].state = "open"
  <2>1. CASE Again(t)
    BY <1>2, <2>1, ActiveSet DEF Again, Inv, Open
  <2>2. CASE \E timeout1, rep \in Timeouts : StartTimer(t, timeout1, rep)
    <3>1. handle' = [handle EXCEPT ![t].active = TRUE, ![t].hasCb = TRUE]
      BY <2>2 DEF StartTimer
    <3>2. handle \in [Handles -> HandleType]
      BY DEF Inv, TypeOK
    <3>3. handle' = [handle EXCEPT ![t] = [handle[t] EXCEPT !.active = TRUE, !.hasCb = TRUE]]
      BY <1>2, <3>1, <3>2 DEF HandleType
    <3>4. [handle[t] EXCEPT !.active = TRUE, !.hasCb = TRUE] \in HandleType
      BY <1>2, <3>2 DEF HandleType
    <3> QED BY <1>2, <3>2, <3>3, <3>4 DEF Open, HandleType
  <2> QED BY <2>1, <2>2
<1>8. repeat' \in [Timers -> 0 .. MaxTimeout]
  BY <1>2 DEF StartTimer, Again, Inv, TypeOK
<1>9. \A x : In(heap', x) <=> (In(heap, x) /\ x # t) \/ (x = t /\ TRUE)
  BY <1>5, <1>6
<1> QED BY <1>1, <1>2, <1>6, <1>7, <1>8, <1>9, TimerSetKeeps

\* uv_timer_stop
LEMMA StopTimerKeeps ==
  ASSUME Inv, NEW t \in Timers, StopTimer(t)
  PROVE  Inv'
<1>1. HandleStep
  BY DEF HandleStep
<1>2. t \in Handles /\ Open(t) /\ UNCHANGED <<listVars, pending, fresh, repeat>>
  BY DEF StopTimer, asyncVars, Handles
<1>3. heap \in Seq(Timers) /\ Once(heap) /\ Sorted(heap, left)
  BY DEF Inv, TypeOK, HeapInv
<1>4. /\ heap' \in Seq(Timers) /\ Once(heap') /\ Sorted(heap', left)
      /\ \A x : In(heap', x) <=> In(heap, x) /\ x # t
  BY <1>3, WithoutOnce, WithoutSorted DEF StopTimer
<1>5. left' = [left EXCEPT ![t] = 0] /\ left' \in [Timers -> 0 .. MaxTimeout]
  BY LoopRunAssumption DEF StopTimer, Inv, TypeOK
<1>6. Sorted(heap', left')
  <2>1. \A i \in DOMAIN heap' : left'[heap'[i]] = left[heap'[i]]
    <3>1. \A i \in DOMAIN heap' : heap'[i] # t /\ heap'[i] \in Timers
      BY <1>4, ElementOfSeq, LenProperties DEF In
    <3> QED BY <1>5, <3>1 DEF Inv, TypeOK
  <2> QED BY <1>4, <2>1 DEF Sorted
<1>7. /\ handle' \in [Handles -> HandleType] /\ \A x \in Handles \ {t} : handle'[x] = handle[x]
      /\ (handle'[t].active <=> FALSE) /\ handle'[t].state = "open"
  BY <1>2, ActiveSet DEF StopTimer, Inv, Open
<1>8. \A x : In(heap', x) <=> (In(heap, x) /\ x # t) \/ (x = t /\ FALSE)
  BY <1>4
<1> QED BY <1>1, <1>2, <1>4, <1>5, <1>6, <1>7, <1>8, TimerSetKeeps DEF Inv, TypeOK

\* uv__run_timers, for the first timer.
LEMMA FireTimerKeeps ==
  ASSUME Inv, NEW t \in Timers, FireTimer(t)
  PROVE  Inv'
<1>1. HandleStep
  BY DEF HandleStep
<1>2. heap \in Seq(Timers) /\ Once(heap) /\ Sorted(heap, left) /\ heap # <<>> /\ t = Head(heap)
  BY DEF Inv, TypeOK, HeapInv, FireTimer
<1>3. /\ Tail(heap) \in Seq(Timers) /\ Once(Tail(heap)) /\ Sorted(Tail(heap), left)
      /\ In(heap, t) /\ \A x : In(Tail(heap), x) <=> In(heap, x) /\ x # t
  BY <1>2, TailOnce, TailSorted
<1>4. t \in Handles /\ Open(t) /\ handle[t].active /\ UNCHANGED <<listVars, pending, fresh, repeat>>
  BY <1>3 DEF FireTimer, asyncVars, Handles, Inv, HandleInv, HeapInv
<1>5. CASE repeat[t] > 0
  <2>1. Restarted(Tail(heap), t, repeat[t]) /\ UNCHANGED handle /\ repeat[t] \in 0 .. MaxTimeout
    BY <1>5 DEF FireTimer, Inv, TypeOK
  <2>2. /\ left' \in [Timers -> 0 .. MaxTimeout]
        /\ heap' \in Seq(Timers) /\ Once(heap') /\ Sorted(heap', left')
        /\ \A x : In(heap', x) <=> In(Tail(heap), x) \/ x = t
    BY <1>3, <2>1, RestartedSorted DEF Inv
  <2>3. \A x : In(heap', x) <=> (In(heap, x) /\ x # t) \/ (x = t /\ TRUE)
    BY <1>3, <2>2
  <2>4. handle' \in [Handles -> HandleType] /\ (handle'[t].active <=> TRUE) /\ handle'[t].state = "open"
    BY <1>4, <2>1 DEF Inv, TypeOK, Open
  <2> QED BY <1>1, <1>4, <2>1, <2>2, <2>3, <2>4, TimerSetKeeps DEF Inv, TypeOK
<1>6. CASE ~(repeat[t] > 0)
  <2>1. heap' = Tail(heap) /\ UNCHANGED left /\ handle' = [handle EXCEPT ![t].active = FALSE]
    BY <1>6 DEF FireTimer
  <2>2. \A x : In(heap', x) <=> (In(heap, x) /\ x # t) \/ (x = t /\ FALSE)
    BY <1>3, <2>1
  <2>3. /\ handle' \in [Handles -> HandleType] /\ \A x \in Handles \ {t} : handle'[x] = handle[x]
        /\ (handle'[t].active <=> FALSE) /\ handle'[t].state = "open"
    BY <1>4, <2>1, ActiveSet DEF Inv, Open
  <2>4. Sorted(heap', left') /\ heap' \in Seq(Timers) /\ Once(heap') /\ left' \in [Timers -> 0 .. MaxTimeout]
    BY <1>3, <2>1 DEF Inv, TypeOK
  <2> QED BY <1>1, <1>4, <2>2, <2>3, <2>4, TimerSetKeeps DEF Inv, TypeOK
<1> QED BY <1>5, <1>6

\* A handle is put into its loop queue, out of the one being visited.
LEMMA QueueAdded ==
  ASSUME TypeOK, QueueInv, NEW h \in Listed, NEW s \in Seq(Handles),
         queue' = [queue EXCEPT ![KindOf(h)] = s], Once(s), \A x : In(s, x) <=> In(queue[KindOf(h)], x) \/ x = h,
         Once(visiting'), \A x : In(visiting', x) <=> In(visiting, x) /\ x # h,
         UNCHANGED at, handle'[h].active, \A x \in Listed \ {h} : handle'[x].active <=> handle[x].active
  PROVE  QueueInv' /\ queue' \in [Kinds -> Seq(Handles)]
<1> DEFINE k == KindOf(h)
<1>1. k \in Kinds /\ h \in Handles /\ \A x \in Listed : KindOf(x) \in Kinds
  BY KindsApart DEF Listed, Handles
<1> HIDE DEF k
<1>2. queue' \in [Kinds -> Seq(Handles)] /\ queue'[k] = s /\ \A l \in Kinds \ {k} : queue'[l] = queue[l]
  BY <1>1 DEF TypeOK, k
<1>3. \A l \in Kinds : Once(queue'[l]) /\ \A x : In(queue'[l], x) <=> In(queue[l], x) \/ (x = h /\ l = k)
  BY <1>1, <1>2 DEF QueueInv, k
<1>4. \A l \in Kinds : Once(queue'[l]) /\ \A x \in Handles : In(queue'[l], x) => x \in Listed /\ KindOf(x) = l
  BY <1>3 DEF QueueInv, k
<1>5. \A x \in Handles : In(visiting', x) => x \in Listed /\ at' = KindOf(x) /\ ~In(queue'[KindOf(x)], x)
  BY <1>1, <1>3 DEF QueueInv
<1>6. \A x \in Listed : handle'[x].active <=> In(queue'[KindOf(x)], x) \/ In(visiting', x)
  BY <1>1, <1>3 DEF QueueInv, k
<1> QED BY <1>2, <1>4, <1>5, <1>6 DEF QueueInv

\* QUEUE_REMOVE finds a handle in its loop queue or in the one being visited.
LEMMA QueueRemoved ==
  ASSUME TypeOK, QueueInv, NEW h \in Listed, Unlink(h),
         UNCHANGED at, ~handle'[h].active, \A x \in Listed \ {h} : handle'[x].active <=> handle[x].active
  PROVE  /\ QueueInv' /\ queue' \in [Kinds -> Seq(Handles)] /\ visiting' \in Seq(Handles)
         /\ \A x : In(visiting', x) <=> In(visiting, x) /\ x # h
<1> DEFINE k == KindOf(h)
           s == Without(queue[k], h)
<1>1. k \in Kinds /\ h \in Handles /\ \A x \in Listed : KindOf(x) \in Kinds
  BY KindsApart DEF Listed, Handles
<1> HIDE DEF k
<1>2. queue[k] \in Seq(Handles) /\ Once(queue[k]) /\ visiting \in Seq(Handles) /\ Once(visiting)
  BY <1>1 DEF TypeOK, QueueInv
<1>3. s \in Seq(Handles) /\ Once(s) /\ \A x : In(s, x) <=> In(queue[k], x) /\ x # h
  BY <1>2, WithoutOnce
<1>4. visiting' \in Seq(Handles) /\ Once(visiting') /\ \A x : In(visiting', x) <=> In(visiting, x) /\ x # h
  BY <1>2, WithoutOnce DEF Unlink
<1>5. queue' = [queue EXCEPT ![k] = s]
  BY DEF Unlink, k
<1> HIDE DEF s
<1>6. queue' \in [Kinds -> Seq(Handles)] /\ queue'[k] = s /\ \A l \in Kinds \ {k} : queue'[l] = queue[l]
  BY <1>1, <1>3, <1>5 DEF TypeOK
<1>7. \A l \in Kinds : \A x : In(queue'[l], x) <=> In(queue[l], x) /\ ~(x = h /\ l = k)
  BY <1>1, <1>3, <1>6
<1>8. \A l \in Kinds : Once(queue'[l]) /\ \A x \in Handles : In(queue'[l], x) => x \in Listed /\ KindOf(x) = l
  BY <1>3, <1>6, <1>7 DEF QueueInv
<1>9. \A x \in Handles : In(visiting', x) => x \in Listed /\ at' = KindOf(x) /\ ~In(queue'[KindOf(x)], x)
  BY <1>1, <1>4, <1>7 DEF QueueInv
<1>10. \A x \in Listed : handle'[x].active <=> In(queue'[KindOf(x)], x) \/ In(visiting', x)
  BY <1>1, <1>4, <1>7 DEF QueueInv, k
<1> QED BY <1>4, <1>6, <1>8, <1>9, <1>10 DEF QueueInv

\* A handle that is not active is in no queue.
LEMMA InactiveUnlinked ==
  ASSUME QueueInv, NEW h \in Listed, ~handle[h].active
  PROVE  ~In(queue[KindOf(h)], h) /\ ~In(visiting, h)
BY DEF QueueInv

\* uv_idle_start and its twins.
LEMMA StartWatcherKeeps ==
  ASSUME Inv, NEW h \in Watchers, StartWatcher(h)
  PROVE  Inv'
<1>1. HandleStep
  BY DEF HandleStep
<1>2. /\ h \in Handles /\ h \in Listed /\ h \notin Asyncs /\ h \notin Timers /\ Open(h)
      /\ UNCHANGED <<timerVars, visiting, closing, batch, pending>>
      /\ KindOf(h) \in Kinds /\ Timers \subseteq Handles /\ Listed \subseteq Handles /\ Asyncs \subseteq Handles
  BY KindsApart DEF StartWatcher, asyncVars, Handles, Listed
<1>3. /\ handle' \in [Handles -> HandleType] /\ \A x \in Handles \ {h} : handle'[x] = handle[x]
      /\ handle'[h].active /\ handle'[h].state = handle[h].state
  BY <1>2, ActiveSet DEF StartWatcher, Inv
<1>4. UNCHANGED <<at, eventfd, sender, served>>
  BY <1>1, HandleStepElsewhere
<1>5. HandleInv'
  <2>1. ASSUME NEW x \in Handles, handle'[x].active PROVE handle'[x].state = "open"
    BY <1>2, <1>3, <2>1 DEF Inv, HandleInv, Open
  <2>2. ASSUME NEW a \in Asyncs, handle'[a].state = "open" PROVE handle'[a].active
    BY <1>2, <1>3, <2>2 DEF Inv, HandleInv, Open
  <2> QED BY <2>1, <2>2 DEF HandleInv, Open
<1>6. HeapInv'
  BY <1>2, <1>3, HeapFrame DEF Inv, timerVars
<1>7. CloseInv'
  BY <1>2, <1>3, <1>4, CloseFrame DEF Inv
<1>8. NoLostSend'
  BY <1>2, <1>3, <1>4, SendFrame DEF Inv, Open
<1>9. QueueInv' /\ ServedInv' /\ queue' \in [Kinds -> Seq(Handles)] /\ fresh' \subseteq Watchers
  <2>1. CASE handle[h].active
    <3>1. UNCHANGED <<queue, fresh>>
      BY <2>1 DEF StartWatcher
    <3>2. \A x \in Handles : handle'[x].active <=> handle[x].active
      BY <1>3, <2>1
    <3> QED BY <1>2, <1>4, <3>1, <3>2, QueueFrame, ServedFrame DEF Inv, TypeOK, Listed
  <2>2. CASE ~handle[h].active
    <3> DEFINE s == <<h>> \o queue[KindOf(h)]
    <3>1. ~In(queue[KindOf(h)], h) /\ ~In(visiting, h)
      BY <1>2, <2>2, InactiveUnlinked DEF Inv
    <3>2. queue[KindOf(h)] \in Seq(Handles) /\ Once(queue[KindOf(h)])
      BY <1>2 DEF Inv, TypeOK, QueueInv
    <3>3. s \in Seq(Handles) /\ Once(s) /\ \A x : In(s, x) <=> In(queue[KindOf(h)], x) \/ x = h
      BY <1>2, <3>1, <3>2, PushOnce
    <3>4. queue' = [queue EXCEPT ![KindOf(h)] = s] /\ fresh' = StartedMeanwhile(h)
      BY <2>2 DEF StartWatcher
    <3> HIDE DEF s
    <3>5. \A x : In(visiting', x) <=> In(visiting, x) /\ x # h
      BY <1>2, <3>1
    <3>6. QueueInv' /\ queue' \in [Kinds -> Seq(Handles)]
      BY <1>2, <1>3, <1>4, <3>3, <3>4, <3>5, QueueAdded DEF Inv, QueueInv
    <3>7. ServedInv'
      BY <1>2, <1>3, <1>4, <3>4 DEF Inv, ServedInv, StartedMeanwhile, Listed
    <3>8. fresh' \subseteq Watchers
      BY <3>4 DEF Inv, TypeOK, StartedMeanwhile
    <3> QED BY <3>6, <3>7, <3>8
  <2> QED BY <2>1, <2>2
<1> QED BY <1>1, <1>2, <1>3, <1>5, <1>6, <1>7, <1>8, <1>9, HandleStepKeeps DEF Inv, TypeOK, timerVars

\* uv_idle_stop and its twins.
LEMMA StopWatcherKeeps ==
  ASSUME Inv, NEW h \in Watchers, StopWatcher(h)
  PROVE  Inv'
<1>1. HandleStep
  BY DEF HandleStep
<1>2. /\ h \in Handles /\ h \in Listed /\ h \notin Asyncs /\ h \notin Timers /\ Unlink(h)
      /\ UNCHANGED <<timerVars, closing, batch, pending, fresh>>
      /\ Timers \subseteq Handles /\ Listed \subseteq Handles /\ Asyncs \subseteq Handles /\ Watchers \subseteq Handles
  BY KindsApart DEF StopWatcher, asyncVars, Handles, Listed
<1>3. /\ handle' \in [Handles -> HandleType] /\ \A x \in Handles \ {h} : handle'[x] = handle[x]
      /\ ~handle'[h].active /\ handle'[h].state = handle[h].state
  BY <1>2, ActiveSet DEF StopWatcher, Inv
<1>4. UNCHANGED <<at, eventfd, sender, served>>
  BY <1>1, HandleStepElsewhere
<1>5. HandleInv'
  BY <1>2, <1>3 DEF Inv, HandleInv, Open
<1>6. HeapInv'
  BY <1>2, <1>3, HeapFrame DEF Inv, timerVars
<1>7. CloseInv'
  BY <1>2, <1>3, <1>4, CloseFrame DEF Inv
<1>8. /\ QueueInv' /\ queue' \in [Kinds -> Seq(Handles)] /\ visiting' \in Seq(Handles)
      /\ \A x : In(visiting', x) <=> In(visiting, x) /\ x # h
  BY <1>2, <1>3, <1>4, QueueRemoved DEF Inv
<1>9. NoLostSend'
  BY <1>2, <1>3, <1>4, <1>8 DEF Inv, NoLostSend, Open
<1>10. ServedInv'
  BY <1>2, <1>3, <1>4, <1>8 DEF Inv, ServedInv
<1> QED BY <1>1, <1>2, <1>3, <1>5, <1>6, <1>7, <1>8, <1>9, <1>10, HandleStepKeeps DEF Inv, TypeOK, timerVars

\* uv_close takes the handle out of the heap or of its queue and lists it.
LEMMA CloseKeeps ==
  ASSUME Inv, NEW h \in Handles, Close(h)
  PROVE  Inv'
<1>1. HandleStep
  BY DEF HandleStep
<1>2. /\ Open(h) /\ UNCHANGED <<repeat, batch, pending, fresh>> /\ closing' = <<h>> \o closing
      /\ Timers \subseteq Handles /\ Listed \subseteq Handles /\ Asyncs \subseteq Handles /\ Watchers \subseteq Listed
      /\ Asyncs \subseteq Listed
  BY DEF Close, asyncVars, Handles, Listed
<1>3. /\ handle' \in [Handles -> HandleType] /\ \A x \in Handles \ {h} : handle'[x] = handle[x]
      /\ ~handle'[h].active /\ handle'[h].state = "closing"
  <2>1. handle \in [Handles -> HandleType]
    BY DEF Inv, TypeOK
  <2>2. handle' = [handle EXCEPT ![h] = [handle[h] EXCEPT !.active = FALSE, !.state = "closing"]]
    BY <2>1 DEF Close, HandleType
  <2>3. [handle[h] EXCEPT !.active = FALSE, !.state = "closing"] \in HandleType
    BY <2>1 DEF HandleType
  <2> QED BY <2>1, <2>2, <2>3 DEF HandleType
<1>4. UNCHANGED <<at, eventfd, sender, served>>
  BY <1>1, HandleStepElsewhere
<1>5. HandleInv'
  BY <1>2, <1>3 DEF Inv, HandleInv, Open
<1>6. CloseInv' /\ closing' \in Seq(Handles)
  <2>1. closing \in Seq(Handles) /\ Once(closing) /\ ~In(closing, h) /\ ~In(batch, h)
    BY <1>2 DEF Inv, TypeOK, CloseInv, Open
  <2>2. closing' \in Seq(Handles) /\ Once(closing') /\ \A x : In(closing', x) <=> In(closing, x) \/ x = h
    BY <1>2, <2>1, PushOnce
  <2> QED BY <1>2, <1>3, <1>4, <2>1, <2>2 DEF Inv, CloseInv
<1>7. CASE h \in Timers
  <2>1. h \notin Listed /\ heap' = Without(heap, h) /\ left' = [left EXCEPT ![h] = 0] /\ UNCHANGED <<queue, visiting>>
    BY <1>7, KindsApart DEF Close
  <2>2. heap \in Seq(Timers) /\ Once(heap) /\ Sorted(heap, left)
    BY DEF Inv, TypeOK, HeapInv
  <2>3. /\ heap' \in Seq(Timers) /\ Once(heap') /\ Sorted(heap', left)
        /\ \A x : In(heap', x) <=> In(heap, x) /\ x # h
    BY <2>1, <2>2, WithoutOnce, WithoutSorted
  <2>4. left' \in [Timers -> 0 .. MaxTimeout]
    <3>1. 0 \in 0 .. MaxTimeout /\ left \in [Timers -> 0 .. MaxTimeout]
      BY LoopRunAssumption DEF Inv, TypeOK
    <3> QED BY <2>1, <3>1
  <2>5. \A i \in DOMAIN heap' : left'[heap'[i]] = left[heap'[i]]
    <3>1. \A i \in DOMAIN heap' : heap'[i] # h /\ heap'[i] \in Timers
      BY <2>3, ElementOfSeq, LenProperties DEF In
    <3> QED BY <2>1, <3>1 DEF Inv, TypeOK
  <2>6. Sorted(heap', left')
    BY <2>3, <2>5 DEF Sorted
  <2>7. HeapInv'
    BY <1>2, <1>3, <2>3, <2>6 DEF Inv, HeapInv
  <2>8. QueueInv'
    BY <1>2, <1>3, <1>4, <2>1, QueueFrame DEF Inv
  <2>9. NoLostSend'
    BY <1>2, <1>3, <1>4, <2>1, SendFrame DEF Inv, Open
  <2>10. ServedInv'
    BY <1>2, <1>3, <1>4, <2>1, ServedFrame DEF Inv
  <2> QED BY <1>1, <1>2, <1>3, <1>5, <1>6, <2>1, <2>3, <2>4, <2>7, <2>8, <2>9, <2>10, HandleStepKeeps DEF Inv, TypeOK
<1>8. CASE h \notin Timers
  <2>1. h \in Listed /\ Unlink(h) /\ UNCHANGED <<left, heap>>
    BY <1>8, KindsApart DEF Close
  <2>2. HeapInv'
    BY <1>2, <1>3, <1>8, <2>1, HeapFrame DEF Inv
  <2>3. /\ QueueInv' /\ queue' \in [Kinds -> Seq(Handles)] /\ visiting' \in Seq(Handles)
        /\ \A x : In(visiting', x) <=> In(visiting, x) /\ x # h
    BY <1>2, <1>3, <1>4, <2>1, QueueRemoved DEF Inv
  <2>4. NoLostSend'
    BY <1>2, <1>3, <1>4, <2>3 DEF Inv, NoLostSend, Open
  <2>5. ServedInv'
    BY <1>2, <1>3, <1>4, <2>3 DEF Inv, ServedInv
  <2> QED BY <1>1, <1>2, <1>3, <1>5, <1>6, <2>1, <2>2, <2>3, <2>4, <2>5, HandleStepKeeps DEF Inv, TypeOK
<1> QED BY <1>7, <1>8

\* A step that makes no handle active or inactive and moves none.
LEMMA HandleOnlyKeeps ==
  ASSUME Inv, HandleStep, NEW h \in Handles, handle' \in [Handles -> HandleType],
         \A x \in Handles \ {h} : handle'[x] = handle[x], handle'[h].active <=> handle[h].active,
         repeat' \in [Timers -> 0 .. MaxTimeout], UNCHANGED <<left, heap, queue, visiting, pending, fresh>>,
         handle'[h].active => handle'[h].state = "open",
         h \in Asyncs /\ handle'[h].state = "open" => handle[h].state = "open",
         CloseInv', closing' \in Seq(Handles), batch' \in Seq(Handles)
  PROVE  Inv'
<1>1. UNCHANGED <<at, eventfd, sender, served>>
  BY HandleStepElsewhere
<1>2. /\ Timers \subseteq Handles /\ Listed \subseteq Handles /\ Asyncs \subseteq Handles /\ Watchers \subseteq Handles
      /\ \A x \in Handles : handle'[x].active <=> handle[x].active
  BY DEF Handles, Listed
<1>3. HandleInv'
  BY <1>2 DEF Inv, HandleInv, Open
<1>4. HeapInv' /\ QueueInv' /\ ServedInv'
  BY <1>1, <1>2, HeapFrame, QueueFrame, ServedFrame DEF Inv
<1>5. NoLostSend'
  BY <1>1, <1>2, SendFrame DEF Inv, Open
<1> QED BY <1>3, <1>4, <1>5, HandleStepKeeps DEF Inv, TypeOK

\* uv__handle_init of a new handle, and the ref property.
LEMMA InitKeeps ==
  ASSUME Inv, NEW h \in Handles, InitHandle(h) \/ \E ref \in BOOLEAN : h \in Reffed /\ SetRef(h, ref)
  PROVE  Inv'
<1>1. HandleStep /\ UNCHANGED <<left, heap, listVars, pending, fresh>>
  BY DEF HandleStep, InitHandle, SetRef, asyncVars, timerVars
<1>2. UNCHANGED at
  BY <1>1, HandleStepElsewhere
<1>3. handle \in [Handles -> HandleType] /\ repeat \in [Timers -> 0 .. MaxTimeout] /\ MaxTimeout \in Nat
  BY LoopRunAssumption DEF Inv, TypeOK
<1>4. /\ handle' \in [Handles -> HandleType] /\ \A x \in Handles \ {h} : handle'[x] = handle[x]
      /\ handle'[h].active <=> handle[h].active
      /\ handle'[h].active => handle'[h].state = "open"
      /\ h \in Asyncs /\ handle'[h].state = "open" => handle[h].state = "open"
      /\ handle'[h].state = "closing" <=> handle[h].state = "closing"
      /\ repeat' \in [Timers -> 0 .. MaxTimeout]
  <2>1. CASE InitHandle(h)
    <3> DEFINE q == [state |-> "open", active |-> FALSE, ref |-> TRUE, hasCb |-> FALSE]
    <3>1. q \in HandleType /\ ~q.active /\ q.state = "open"
      BY DEF HandleType
    <3>2. handle' = [handle EXCEPT ![h] = q] /\ handle[h].state = "none" /\ h \notin Asyncs
      BY <2>1 DEF InitHandle
    <3> HIDE DEF q
    <3>3. handle' \in [Handles -> HandleType] /\ handle'[h] = q /\ \A x \in Handles \ {h} : handle'[x] = handle[x]
      BY <1>3, <3>1, <3>2
    <3>4. ~handle[h].active
      BY <3>2 DEF Inv, HandleInv, Open
    <3>5. repeat' \in [Timers -> 0 .. MaxTimeout]
      BY <1>3, <2>1 DEF InitHandle
    <3> QED BY <3>1, <3>2, <3>3, <3>4, <3>5
  <2>2. ASSUME NEW ref \in BOOLEAN, SetRef(h, ref) PROVE <1>4
    <3>1. handle' = [handle EXCEPT ![h].ref = ref] /\ UNCHANGED repeat
      BY <2>2 DEF SetRef, timerVars
    <3>2. /\ handle' \in [Handles -> HandleType] /\ \A x \in Handles \ {h} : handle'[x] = handle[x]
          /\ (handle'[h].active <=> handle[h].active) /\ handle'[h].state = handle[h].state
      BY <1>3, <3>1 DEF HandleType
    <3> QED BY <1>3, <3>1, <3>2 DEF Inv, HandleInv, Open
  <2> QED BY <2>1, <2>2
<1>5. CloseInv'
  BY <1>1, <1>2, <1>4, CloseFrame DEF Inv, listVars
<1> QED BY <1>1, <1>4, <1>5, HandleOnlyKeeps DEF Inv, TypeOK, listVars

\* uv_async_init: active and in the loop's queue from the start.
LEMMA InitAsyncKeeps ==
  ASSUME Inv, NEW a \in Asyncs, InitAsync(a)
  PROVE  Inv'
<1>1. HandleStep
  BY DEF HandleStep
<1>2. /\ a \in Handles /\ a \in Listed /\ KindOf(a) = "async" /\ a \notin Timers /\ a \notin Watchers
      /\ "async" \in Kinds /\ UNCHANGED <<timerVars, visiting, closing, batch, fresh>> /\ handle[a].state = "none"
      /\ Timers \subseteq Handles /\ Listed \subseteq Handles /\ Asyncs \subseteq Handles /\ Watchers \subseteq Handles
  BY KindsApart DEF InitAsync, Handles, Listed, Kinds
<1>3. UNCHANGED <<at, eventfd, sender, served>>
  BY <1>1, HandleStepElsewhere
<1> DEFINE q == [state |-> "open", active |-> TRUE, ref |-> TRUE, hasCb |-> FALSE]
<1>4. q \in HandleType /\ q.active /\ q.state = "open"
  BY DEF HandleType
<1>5. handle' = [handle EXCEPT ![a] = q]
  BY DEF InitAsync
<1> HIDE DEF q
<1>6. handle' \in [Handles -> HandleType] /\ handle'[a] = q /\ \A x \in Handles \ {a} : handle'[x] = handle[x]
  BY <1>2, <1>4, <1>5 DEF Inv, TypeOK
<1>7. ~handle[a].active
  BY <1>2 DEF Inv, HandleInv, Open
<1>8. HandleInv'
  BY <1>2, <1>4, <1>6 DEF Inv, HandleInv, Open
<1>9. HeapInv'
  BY <1>2, <1>6, HeapFrame DEF Inv, timerVars
<1>10. QueueInv' /\ queue' \in [Kinds -> Seq(Handles)]
  <2> DEFINE s == Append(queue[KindOf(a)], a)
  <2>1. ~In(queue[KindOf(a)], a) /\ ~In(visiting, a)
    BY <1>2, <1>7, InactiveUnlinked DEF Inv
  <2>2. queue[KindOf(a)] \in Seq(Handles) /\ Once(queue[KindOf(a)])
    BY <1>2 DEF Inv, TypeOK, QueueInv
  <2>3. s \in Seq(Handles) /\ Once(s) /\ \A x : In(s, x) <=> In(queue[KindOf(a)], x) \/ x = a
    BY <1>2, <2>1, <2>2, AppendOnce
  <2>4. queue' = [queue EXCEPT ![KindOf(a)] = s]
    BY <1>2 DEF InitAsync
  <2> HIDE DEF s
  <2>5. \A x : In(visiting', x) <=> In(visiting, x) /\ x # a
    BY <1>2, <2>1
  <2>6. Once(visiting') /\ handle'[a].active
    BY <1>2, <1>4, <1>6 DEF Inv, QueueInv
  <2>7. \A x \in Listed \ {a} : handle'[x].active <=> handle[x].active
    BY <1>2, <1>6
  <2> QED BY <1>2, <1>3, <2>3, <2>4, <2>5, <2>6, <2>7, QueueAdded DEF Inv
<1>11. CloseInv'
  BY <1>2, <1>3, <1>4, <1>6, CloseFrame DEF Inv
<1>12. pending' = [pending EXCEPT ![a] = FALSE] /\ pending' \in [Asyncs -> BOOLEAN]
  BY DEF InitAsync, Inv, TypeOK
<1>13. NoLostSend'
  BY <1>2, <1>3, <1>6, <1>12 DEF Inv, NoLostSend, Open, TypeOK
<1>14. ServedInv'
  BY <1>2, <1>3, <1>6, ServedFrame DEF Inv
<1> QED BY <1>1, <1>2, <1>6, <1>8, <1>9, <1>10, <1>11, <1>12, <1>13, <1>14, HandleStepKeeps DEF Inv, TypeOK, timerVars

\* uv__finish_close of the first handle of the batch.
LEMMA FinishCloseKeeps ==
  ASSUME Inv, NEW h \in Handles, FinishClose(h)
  PROVE  Inv'
<1>1. HandleStep /\ UNCHANGED <<timerVars, queue, visiting, closing, pending, fresh>> /\ at = "closing"
  BY DEF HandleStep, FinishClose, asyncVars, Between
<1>2. UNCHANGED at
  BY <1>1, HandleStepElsewhere
<1>3. batch \in Seq(Handles) /\ Once(batch) /\ batch # <<>> /\ h = Head(batch) /\ batch' = Tail(batch)
  BY DEF FinishClose, Inv, TypeOK, CloseInv
<1>4. /\ In(batch, h) /\ batch' \in Seq(Handles) /\ Once(batch')
      /\ \A x : In(batch', x) <=> In(batch, x) /\ x # h
  BY <1>3, TailOnce
<1>5. handle[h].state = "closing" /\ ~In(closing, h) /\ ~handle[h].active
  BY <1>4 DEF Inv, CloseInv, HandleInv, Open
<1>6. NoUv \in HandleType /\ ~NoUv.active /\ NoUv.state = "none"
  BY DEF NoUv, HandleType
<1>7. handle' \in [Handles -> HandleType] /\ handle'[h] = NoUv /\ \A x \in Handles \ {h} : handle'[x] = handle[x]
  BY <1>6 DEF FinishClose, Inv, TypeOK
<1>8. CloseInv'
  BY <1>1, <1>2, <1>4, <1>5, <1>6, <1>7 DEF Inv, CloseInv
<1> QED BY <1>1, <1>4, <1>5, <1>6, <1>7, <1>8, HandleOnlyKeeps DEF Inv, TypeOK, timerVars

-----------------------------------------------------------------------------
(* The steps that change no uv_handle_t.                                   *)

PollType ==
  [timeout : -1 .. MaxTimeout, wait : 0 .. MaxTimeout, real : -1 .. MaxTimeout, since : 0 .. MaxTimeout]

\* What is left to show of a step that moves no handle and stays in its phase.
LEMMA QuietKeeps ==
  ASSUME Inv, UNCHANGED <<handle, heap, listVars, at, mode, ran, served, fresh>>,
         left' \in [Timers -> 0 .. MaxTimeout], Sorted(heap, left'), repeat' \in [Timers -> 0 .. MaxTimeout],
         pending' \in [Asyncs -> BOOLEAN], eventfd' \in BOOLEAN, sender' \in [Senders -> {"idle", "write"}],
         lag' \in 0 .. MaxTimeout, poll' \in PollType, stopFlag' \in BOOLEAN, cb' \in {cb, NoHandle},
         PollInv', WaitsOnlyWhenIdle', NoLostSend'
  PROVE  Inv'
<1>1. TypeOK'
  BY DEF Inv, TypeOK, PollType, listVars
<1>2. HandleInv' /\ HeapInv' /\ QueueInv' /\ CloseInv' /\ CallbackInv' /\ ServedInv'
  BY DEF Inv, HandleInv, HeapInv, QueueInv, CloseInv, CallbackInv, ServedInv, listVars, Open
<1> QED BY <1>1, <1>2 DEF Inv

\* Timer.repeat, Loop.stop(), Loop.update_time(): called outside the poll.
LEMMA QuietCallKeeps ==
  ASSUME Inv, (\E t \in Timers, rep \in Timeouts : SetRepeat(t, rep)) \/ Stop \/ UpdateLoopTime
  PROVE  Inv'
<1>1. InPython /\ at \notin {"poll", "blocked"}
  BY DEF SetRepeat, Stop, UpdateLoopTime, InPython, Inv, CallbackInv
<1>2. UNCHANGED <<handle, heap, listVars, at, mode, ran, served, fresh, pending, eventfd, sender, poll, cb>>
  BY UpdateTimeIs DEF SetRepeat, Stop, UpdateLoopTime, timerVars, asyncVars, runVars, Inv
<1>3. /\ left' \in [Timers -> 0 .. MaxTimeout] /\ lag' \in 0 .. MaxTimeout /\ Sorted(heap, left')
      /\ repeat' \in [Timers -> 0 .. MaxTimeout] /\ stopFlag' \in BOOLEAN
  <2>1. CASE UpdateLoopTime
    BY <1>2, <2>1, UpdateTimeIs, LoopRunAssumption DEF UpdateLoopTime, Inv, HeapInv, TypeOK, runVars
  <2>2. CASE Stop
    BY <2>2 DEF Stop, timerVars, Inv, HeapInv, TypeOK
  <2>3. ASSUME NEW t \in Timers, NEW rep \in Timeouts, SetRepeat(t, rep) PROVE <1>3
    <3>1. rep \in 0 .. MaxTimeout
      BY LoopRunAssumption
    <3> QED BY <2>3, <3>1 DEF SetRepeat, Inv, HeapInv, TypeOK, runVars
  <2> QED BY <2>1, <2>2, <2>3
<1>4. PollInv' /\ WaitsOnlyWhenIdle'
  BY <1>1, <1>2 DEF PollInv, WaitsOnlyWhenIdle
<1>5. NoLostSend'
  BY <1>2, SendFrame DEF Inv, Open, listVars
<1> QED BY <1>2, <1>3, <1>4, <1>5, QuietKeeps DEF Inv, TypeOK, PollType

\* Async.send() up to the write, the write, the return of a callback and the clock.
LEMMA SendKeeps ==
  ASSUME Inv, NEW s \in Senders, (\E a \in Asyncs : Send(s, a)) \/ WriteEventfd(s)
  PROVE  Inv'
<1>1. UNCHANGED <<handle, timerVars, listVars, lag, poll, runVars, served, fresh>>
  BY DEF Send, WriteEventfd
<1>2. /\ pending' \in [Asyncs -> BOOLEAN] /\ eventfd' \in BOOLEAN /\ sender' \in [Senders -> {"idle", "write"}]
      /\ sender'[s] = "write" \/ eventfd'
      /\ \A x \in Senders \ {s} : sender'[x] = sender[x]
  BY DEF Send, WriteEventfd, Inv, TypeOK
<1>3. NoLostSend'
  BY <1>1, <1>2 DEF NoLostSend
<1>4. PollInv' /\ WaitsOnlyWhenIdle'
  BY <1>1 DEF Inv, PollInv, WaitsOnlyWhenIdle, timerVars, listVars, runVars
<1> QED BY <1>1, <1>2, <1>3, <1>4, QuietKeeps DEF Inv, TypeOK, HeapInv, PollType, timerVars, runVars

\* A callback returns.
LEMMA LeaveCallbackKeeps ==
  ASSUME Inv, LeaveCallback
  PROVE  Inv'
<1>1. UNCHANGED <<handle, timerVars, listVars, asyncVars, lag, poll, at, mode, stopFlag, ran, served, fresh>> /\ cb' = NoHandle
  BY DEF LeaveCallback
<1>2. NoLostSend'
  BY <1>1, SendFrame DEF Inv, asyncVars, listVars, Open
<1>3. PollInv' /\ WaitsOnlyWhenIdle'
  BY <1>1 DEF Inv, PollInv, WaitsOnlyWhenIdle, timerVars, listVars
<1> QED BY <1>1, <1>2, <1>3, QuietKeeps DEF Inv, TypeOK, HeapInv, PollType, timerVars, asyncVars

\* Time goes on.
LEMMA TickKeeps ==
  ASSUME Inv, Tick
  PROVE  Inv'
<1>1. UNCHANGED <<handle, timerVars, listVars, asyncVars, runVars, served, fresh>>
  BY DEF Tick
<1>2. lag' \in 0 .. MaxTimeout
  BY LoopRunAssumption DEF Tick, Capped, Inv, TypeOK
<1>3. poll \in PollType /\ MaxTimeout \in Nat
  BY LoopRunAssumption DEF Inv, TypeOK, PollType
<1> DEFINE w == IF poll.wait > 0 THEN poll.wait - 1 ELSE 0
<1>4. w \in 0 .. MaxTimeout /\ (w <= poll.wait \/ w = 0)
  BY <1>3 DEF PollType
<1>5. poll' = [poll EXCEPT !.wait = w]
  BY DEF Tick
<1> HIDE DEF w
<1>6. /\ poll' \in PollType /\ poll'.real = poll.real /\ poll'.timeout = poll.timeout
      /\ poll'.wait = w
  BY <1>3, <1>4, <1>5 DEF PollType
<1>7. PollInv'
  <2>1. poll.timeout \in Int /\ poll.wait \in Int /\ w \in Int
    BY <1>3, <1>4 DEF PollType
  <2>2. poll.wait <= poll.timeout \/ poll.wait = 0 => w <= poll.timeout \/ w = 0
    BY <1>3, <1>4, <2>1 DEF PollType
  <2> QED BY <1>1, <1>6, <2>2 DEF Inv, PollInv, timerVars, runVars
<1>8. WaitsOnlyWhenIdle'
  BY <1>1, <1>6 DEF Inv, WaitsOnlyWhenIdle, listVars, runVars
<1>9. NoLostSend'
  BY <1>1, SendFrame DEF Inv, asyncVars, listVars, runVars, Open
<1> QED BY <1>1, <1>2, <1>6, <1>7, <1>8, <1>9, QuietKeeps DEF Inv, TypeOK, HeapInv, timerVars, asyncVars, runVars

\* What is left to show of a step of uv_run.
LEMMA RunStepKeeps ==
  ASSUME Inv, UNCHANGED <<handle, repeat, heap, sender>>,
         left' \in [Timers -> 0 .. MaxTimeout], Sorted(heap, left'), lag' \in 0 .. MaxTimeout, poll' \in PollType,
         queue' \in [Kinds -> Seq(Handles)], visiting' \in Seq(Handles), closing' \in Seq(Handles),
         batch' \in Seq(Handles), pending' \in [Asyncs -> BOOLEAN], eventfd' \in BOOLEAN,
         at' \in Places, mode' \in {"default"} \cup Modes, stopFlag' \in BOOLEAN, ran' \in BOOLEAN,
         cb' \in Handles \cup {NoHandle}, served' \subseteq Watchers, fresh' \subseteq Watchers,
         QueueInv', CloseInv', CallbackInv', PollInv', WaitsOnlyWhenIdle', NoLostSend', ServedInv'
  PROVE  Inv'
<1>1. TypeOK'
  BY DEF Inv, TypeOK, PollType
<1>2. HandleInv' /\ HeapInv'
  BY DEF Inv, HandleInv, HeapInv, Open
<1> QED BY <1>1, <1>2 DEF Inv

\* A callback is made for the first of the queue being visited.
LEMMA VisitedFirst ==
  ASSUME Inv, NEW h \in Handles, visiting # <<>>, h = Head(visiting),
         visiting' = Tail(visiting), queue' = [queue EXCEPT ![KindOf(h)] = Append(@, h)], UNCHANGED <<handle, at>>
  PROVE  /\ h \in Listed /\ at = KindOf(h) /\ In(visiting, h) /\ handle[h].active
         /\ QueueInv' /\ queue' \in [Kinds -> Seq(Handles)] /\ visiting' \in Seq(Handles)
         /\ \A x : In(visiting', x) <=> In(visiting, x) /\ x # h
<1>1. visiting \in Seq(Handles) /\ Once(visiting)
  BY DEF Inv, TypeOK, QueueInv
<1>2. /\ In(visiting, h) /\ visiting' \in Seq(Handles) /\ Once(visiting')
      /\ \A x : In(visiting', x) <=> In(visiting, x) /\ x # h
  BY <1>1, TailOnce
<1>3. h \in Listed /\ at = KindOf(h) /\ ~In(queue[KindOf(h)], h) /\ handle[h].active /\ KindOf(h) \in Kinds
  BY <1>2, KindsApart DEF Inv, QueueInv
<1> DEFINE s == Append(queue[KindOf(h)], h)
<1>4. queue[KindOf(h)] \in Seq(Handles) /\ Once(queue[KindOf(h)])
  BY <1>3 DEF Inv, TypeOK, QueueInv
<1>5. s \in Seq(Handles) /\ Once(s) /\ \A x : In(s, x) <=> In(queue[KindOf(h)], x) \/ x = h
  BY <1>3, <1>4, AppendOnce
<1>6. queue' = [queue EXCEPT ![KindOf(h)] = s]
  OBVIOUS
<1> HIDE DEF s
<1>7. QueueInv' /\ queue' \in [Kinds -> Seq(Handles)]
  BY <1>2, <1>3, <1>5, <1>6, QueueAdded DEF Inv
<1> QED BY <1>2, <1>3, <1>7

\* uv__run_idle and its twins, for the first watcher.
LEMMA FireWatcherKeeps ==
  ASSUME Inv, NEW h \in Watchers, FireWatcher(h)
  PROVE  Inv' /\ h \notin served
<1>1. UNCHANGED <<handle, timerVars, closing, batch, asyncVars, lag, poll, at, mode, stopFlag, fresh>>
  BY DEF FireWatcher
<1>2. served' = served \cup {h} /\ cb' = h /\ ran' = TRUE /\ h \in Handles
  BY DEF FireWatcher, Handles
<1>3. /\ h \in Listed /\ at = KindOf(h) /\ In(visiting, h) /\ handle[h].active
      /\ QueueInv' /\ queue' \in [Kinds -> Seq(Handles)] /\ visiting' \in Seq(Handles)
      /\ \A x : In(visiting', x) <=> In(visiting, x) /\ x # h
  BY <1>1, <1>2, VisitedFirst DEF FireWatcher
<1>4. at \in {"idle", "prepare", "check"} /\ at \notin Before(h)
  BY <1>3, KindsApart, BeforeFacts
<1>5. CloseInv'
  BY <1>1, CloseFrame DEF Inv
<1>6. CallbackInv' /\ PollInv' /\ WaitsOnlyWhenIdle'
  BY <1>1, <1>4 DEF CallbackInv, PollInv, WaitsOnlyWhenIdle
<1>7. NoLostSend'
  BY <1>1, <1>4 DEF Inv, NoLostSend, asyncVars, Open
<1>8. ServedInv'
  BY <1>1, <1>2, <1>3, <1>4 DEF Inv, ServedInv
<1>9. h \notin served
  BY <1>3 DEF Inv, ServedInv
<1> QED BY <1>1, <1>2, <1>3, <1>5, <1>6, <1>7, <1>8, <1>9, RunStepKeeps DEF Inv, TypeOK, HeapInv, PollType, timerVars, asyncVars

\* uv__async_io, for the first async.
LEMMA FireAsyncKeeps ==
  ASSUME Inv, NEW a \in Asyncs, FireAsync(a)
  PROVE  Inv'
<1>1. UNCHANGED <<handle, timerVars, closing, batch, eventfd, sender, lag, poll, at, mode, stopFlag, served, fresh>>
  BY DEF FireAsync
<1>2. a \in Handles /\ KindOf(a) = "async" /\ Between("async") /\ a \notin Watchers
  BY KindsApart DEF FireAsync, Handles
<1>3. /\ QueueInv' /\ queue' \in [Kinds -> Seq(Handles)] /\ visiting' \in Seq(Handles)
      /\ \A x : In(visiting', x) <=> In(visiting, x) /\ x # a
  BY <1>1, <1>2, VisitedFirst DEF FireAsync
<1>4. at = "async"
  BY <1>2 DEF Between
<1>5. /\ pending' \in [Asyncs -> BOOLEAN] /\ ~pending'[a] /\ \A x \in Asyncs \ {a} : pending'[x] = pending[x]
      /\ cb' \in Handles \cup {NoHandle} /\ ran' \in BOOLEAN
  BY <1>2 DEF FireAsync, Inv, TypeOK
<1>6. CloseInv'
  BY <1>1, CloseFrame DEF Inv
<1>7. CallbackInv' /\ PollInv' /\ WaitsOnlyWhenIdle'
  BY <1>1, <1>4 DEF CallbackInv, PollInv, WaitsOnlyWhenIdle
<1>8. NoLostSend'
  BY <1>1, <1>3, <1>4, <1>5 DEF Inv, NoLostSend, Open
<1>9. ServedInv'
  BY <1>1, <1>2, <1>3 DEF Inv, ServedInv
<1> QED BY <1>1, <1>3, <1>5, <1>6, <1>7, <1>8, <1>9, RunStepKeeps DEF Inv, TypeOK, HeapInv, PollType, timerVars

\* A phase takes over its whole queue: nothing of another phase is being visited.
LEMMA BeginIs ==
  ASSUME Inv, NEW phase \in Kinds, Begin(phase), UNCHANGED handle, at \in Kinds => visiting = <<>>
  PROVE  /\ at' = phase /\ QueueInv' /\ queue' \in [Kinds -> Seq(Handles)] /\ visiting' \in Seq(Handles)
         /\ \A h \in Handles : ~In(visiting, h)
         /\ \A h \in Listed : In(visiting', h) <=> handle[h].active /\ KindOf(h) = phase
<1>1. /\ at' = phase /\ visiting' = queue[phase] /\ queue' = [queue EXCEPT ![phase] = <<>>]
  BY DEF Begin
<1>2. /\ queue' \in [Kinds -> Seq(Handles)] /\ visiting' \in Seq(Handles) /\ Once(visiting')
      /\ queue'[phase] = <<>> /\ \A k \in Kinds \ {phase} : queue'[k] = queue[k]
  BY <1>1, EmptyOnce DEF Inv, TypeOK, QueueInv
<1>3. \A k \in Kinds : Once(queue'[k]) /\ \A h : In(queue'[k], h) <=> In(queue[k], h) /\ k # phase
  BY <1>2, EmptyOnce DEF Inv, QueueInv
<1>4. Listed \subseteq Handles /\ \A h \in Listed : KindOf(h) \in Kinds
  BY KindsApart DEF Listed, Handles
<1>5. \A h \in Handles : ~In(visiting, h)
  BY <1>4, EmptyOnce DEF Inv, QueueInv
<1>6. \A h \in Handles : In(visiting', h) => h \in Listed /\ at' = KindOf(h) /\ ~In(queue'[KindOf(h)], h)
  BY <1>1, <1>3 DEF Inv, QueueInv
<1>7. \A h \in Listed : handle[h].active <=> In(queue[KindOf(h)], h)
  BY <1>4, <1>5 DEF Inv, QueueInv
<1>8. \A h \in Listed : In(visiting', h) <=> handle[h].active /\ KindOf(h) = phase
  BY <1>1, <1>4, <1>6, <1>7
<1>9. \A h \in Listed : handle'[h].active <=> In(queue'[KindOf(h)], h) \/ In(visiting', h)
  BY <1>3, <1>4, <1>7, <1>8
<1>10. \A k \in Kinds : Once(queue'[k]) /\ \A h \in Handles : In(queue'[k], h) => h \in Listed /\ KindOf(h) = k
  BY <1>3 DEF Inv, QueueInv
<1>11. QueueInv'
  BY <1>2, <1>6, <1>9, <1>10 DEF QueueInv
<1> QED BY <1>1, <1>2, <1>5, <1>8, <1>11

\* When nothing is being visited, a step to another phase moves no handle.
LEMMA MovesKeep ==
  ASSUME Inv, UNCHANGED <<handle, closing, batch, pending, eventfd, sender>>,
         at \in Kinds => visiting = <<>>, at = "closing" => batch = <<>>
  PROVE  /\ CloseInv' /\ NoLostSend' /\ \A h \in Handles : ~In(visiting, h)
         /\ UNCHANGED <<queue, visiting>> => QueueInv'
<1>1. \A h \in Handles : ~In(visiting, h)
  BY KindsApart, EmptyOnce DEF Inv, QueueInv
<1>2. CloseInv'
  BY DEF Inv, CloseInv
<1>3. NoLostSend'
  BY <1>1 DEF Inv, NoLostSend, Open, Handles
<1>4. UNCHANGED <<queue, visiting>> => QueueInv'
  BY <1>1 DEF Inv, QueueInv
<1> QED BY <1>1, <1>2, <1>3, <1>4

\* The next phase of an iteration begins: it has the active handles of its kind to
\* visit, and none was called.
LEMMA ServedBegins ==
  ASSUME Inv, NEW phase \in Kinds, Begin(phase), UNCHANGED <<handle, served, fresh>>, at \in Kinds => visiting = <<>>,
         \/ at = "timers" /\ phase = "idle"
         \/ at = "idle" /\ phase = "prepare"
         \/ at \in {"blocked", "async"} /\ phase = "check"
         \/ at = "blocked" /\ phase = "async"
  PROVE  ServedInv'
<1>1. /\ at' = phase /\ \A h \in Handles : ~In(visiting, h)
      /\ \A h \in Listed : In(visiting', h) <=> handle[h].active /\ KindOf(h) = phase
  BY BeginIs
<1>2. Watchers \subseteq Listed /\ Watchers \subseteq Handles /\ served \subseteq Watchers
  BY DEF Inv, TypeOK, Listed, Handles
<1>3. \A h \in served : at' # "out" /\ at' \notin Before(h) /\ ~In(visiting', h)
  <2> SUFFICES ASSUME NEW h \in served PROVE at' # "out" /\ at' \notin Before(h) /\ ~In(visiting', h)
    OBVIOUS
  <2>1. h \in Watchers /\ at \notin Before(h)
    BY <1>2 DEF Inv, ServedInv
  <2> QED BY <1>1, <1>2, <2>1, BeforeFacts, KindsApart
<1>4. ASSUME NEW h \in Watchers, handle[h].active, h \notin fresh \cup served
      PROVE  at' \in Before(h) \/ In(visiting', h)
  <2>1. at \in Before(h)
    BY <1>1, <1>2, <1>4 DEF Inv, ServedInv
  <2> QED BY <1>1, <1>2, <1>4, <2>1, BeforeFacts, KindsApart
<1> QED BY <1>3, <1>4 DEF ServedInv

\* The ends of the timer, idle and async phases.
LEMMA PhaseDoneKeeps ==
  ASSUME Inv, TimersDone \/ IdleDone \/ AsyncDone
  PROVE  Inv'
<1>1. /\ UNCHANGED <<handle, timerVars, closing, batch, asyncVars, lag, poll, mode, stopFlag, cb, ran, served, fresh>>
      /\ cb = NoHandle
  BY DEF TimersDone, IdleDone, AsyncDone, Between
<1>2. PICK phase \in {"idle", "prepare", "check"} :
        /\ Begin(phase)
        /\ \/ at = "timers" /\ phase = "idle"
           \/ at = "idle" /\ phase = "prepare" /\ visiting = <<>>
           \/ at = "async" /\ phase = "check" /\ visiting = <<>>
  BY DEF TimersDone, IdleDone, AsyncDone, Between
<1>3. phase \in Kinds /\ (at \in Kinds => visiting = <<>>) /\ at # "closing"
  BY <1>2 DEF Kinds
<1>4. at' = phase /\ QueueInv' /\ queue' \in [Kinds -> Seq(Handles)] /\ visiting' \in Seq(Handles)
  BY <1>1, <1>2, <1>3, BeginIs
<1>5. CloseInv' /\ NoLostSend'
  BY <1>1, <1>3, MovesKeep DEF asyncVars
<1>6. ServedInv'
  BY <1>1, <1>2, <1>3, ServedBegins
<1>7. CallbackInv' /\ PollInv' /\ WaitsOnlyWhenIdle' /\ at' \in Places
  BY <1>2, <1>4 DEF CallbackInv, PollInv, WaitsOnlyWhenIdle, Places
<1> QED BY <1>1, <1>4, <1>5, <1>6, <1>7, RunStepKeeps DEF Inv, TypeOK, HeapInv, PollType, timerVars, asyncVars

\* The end of the prepare phase.
LEMMA PrepareDoneKeeps ==
  ASSUME Inv, PrepareDone
  PROVE  Inv'
<1>1. /\ UNCHANGED <<handle, timerVars, listVars, asyncVars, lag, poll, mode, stopFlag, cb, ran, served, fresh>>
      /\ at = "prepare" /\ at' = "poll" /\ visiting = <<>> /\ cb = NoHandle
  BY DEF PrepareDone, Between
<1>2. CloseInv' /\ NoLostSend' /\ QueueInv' /\ \A h \in Handles : ~In(visiting, h)
  BY <1>1, MovesKeep DEF asyncVars, listVars
<1>3. ServedInv'
  <2>1. \A h \in served : h \in Watchers
    BY DEF Inv, TypeOK
  <2> QED BY <1>1, <1>2, <2>1, BeforeFacts DEF Inv, ServedInv, Handles, listVars
<1>4. CallbackInv' /\ PollInv' /\ WaitsOnlyWhenIdle' /\ at' \in Places
  BY <1>1 DEF CallbackInv, PollInv, WaitsOnlyWhenIdle, Places
<1> QED BY <1>1, <1>2, <1>3, <1>4, RunStepKeeps DEF Inv, TypeOK, HeapInv, PollType, timerVars, asyncVars, listVars

\* uv_backend_timeout: no longer than the time to any timer, and zero unless the
\* loop has nothing else to do.
LEMMA BackendTimeoutIs ==
  ASSUME Inv
  PROVE  /\ BackendTimeout \in -1 .. MaxTimeout
         /\ \A t \in Timers : handle[t].active => BackendTimeout <= left[t]
         /\ BackendTimeout # 0 => ~stopFlag /\ queue["idle"] = <<>> /\ closing = <<>>
         /\ BackendTimeout = -1 => \A t \in Timers : ~handle[t].active
<1>1. MaxTimeout \in Nat /\ left \in [Timers -> 0 .. MaxTimeout] /\ heap \in Seq(Timers) /\ Once(heap) /\ Sorted(heap, left)
  BY LoopRunAssumption DEF Inv, TypeOK, HeapInv
<1>2. \A t \in Timers : handle[t].active <=> In(heap, t)
  BY DEF Inv, HeapInv
<1>3. CASE heap = <<>>
  BY <1>1, <1>2, <1>3, EmptyOnce DEF BackendTimeout, NextTimeout
<1>4. CASE heap # <<>>
  <2>1. Head(heap) \in Timers /\ NextTimeout = left[Head(heap)]
    BY <1>1, <1>4, TailOnce DEF NextTimeout
  <2>2. ASSUME NEW t \in Timers, In(heap, t) PROVE left[Head(heap)] <= left[t]
    <3>1. PICK i \in DOMAIN heap : heap[i] = t
      BY <2>2 DEF In
    <3>2. Head(heap) = heap[1]
      BY <1>1, <1>4, HeadTailProperties
    <3>3. CASE i = 1
      BY <1>1, <2>1, <3>1, <3>2, <3>3
    <3>4. CASE i # 1
      BY <1>1, <1>4, <3>1, <3>4, TailSorted
    <3> QED BY <3>3, <3>4
  <2> QED BY <1>1, <1>2, <2>1, <2>2 DEF BackendTimeout
<1> QED BY <1>3, <1>4

\* The loop goes to sleep.
LEMMA EnterPollKeeps ==
  ASSUME Inv, EnterPoll
  PROVE  Inv'
<1>1. /\ UNCHANGED <<handle, timerVars, listVars, asyncVars, lag, mode, stopFlag, cb, ran, served, fresh>>
      /\ at = "poll" /\ at' = "blocked" /\ cb = NoHandle
  BY DEF EnterPoll, Inv, CallbackInv
<1>2. CloseInv' /\ NoLostSend' /\ QueueInv' /\ \A h \in Handles : ~In(visiting, h)
  BY <1>1, MovesKeep DEF asyncVars, listVars, Kinds
<1>3. ServedInv'
  <2>1. \A h \in served : h \in Watchers
    BY DEF Inv, TypeOK
  <2> QED BY <1>1, <1>2, <2>1, BeforeFacts DEF Inv, ServedInv, Handles, listVars
<1> DEFINE timeout == IF mode = "nowait" THEN 0 ELSE BackendTimeout
           wait == IF timeout > 0 THEN timeout ELSE 0
<1>4. MaxTimeout \in Nat /\ \A t \in Timers : left[t] \in 0 .. MaxTimeout
  BY LoopRunAssumption DEF Inv, TypeOK
<1>5. /\ timeout \in -1 .. MaxTimeout
      /\ \A t \in Timers : handle[t].active => timeout <= left[t]
      /\ timeout # 0 => ~stopFlag /\ queue["idle"] = <<>> /\ closing = <<>> /\ mode # "nowait"
      /\ timeout = -1 => \A t \in Timers : ~handle[t].active
  BY <1>4, BackendTimeoutIs
<1>6. poll' = [timeout |-> timeout, wait |-> wait, real |-> timeout, since |-> 0]
  BY DEF EnterPoll
<1> HIDE DEF timeout
<1>7. wait \in 0 .. MaxTimeout /\ (wait <= timeout \/ wait = 0)
  BY <1>4, <1>5
<1> HIDE DEF wait
<1>8. poll' \in PollType /\ poll'.real = timeout /\ poll'.timeout = timeout /\ poll'.wait = wait
  BY <1>4, <1>5, <1>6, <1>7 DEF PollType
<1>9. PollInv'
  BY <1>1, <1>5, <1>7, <1>8 DEF PollInv, timerVars
<1>10. WaitsOnlyWhenIdle'
  <2>1. ASSUME queue["idle"] = <<>>, NEW h \in Idles PROVE ~handle[h].active
    <3>1. KindOf(h) = "idle" /\ h \in Listed /\ h \in Handles
      BY KindsApart DEF Listed, Watchers, Handles
    <3> QED BY <1>2, <2>1, <3>1, EmptyOnce DEF Inv, QueueInv
  <2> QED BY <1>1, <1>5, <1>8, <2>1 DEF WaitsOnlyWhenIdle, listVars
<1>11. CallbackInv' /\ at' \in Places
  BY <1>1 DEF CallbackInv, Places
<1> QED BY <1>1, <1>2, <1>3, <1>8, <1>9, <1>10, <1>11, RunStepKeeps DEF Inv, TypeOK, HeapInv, timerVars, asyncVars, listVars

\* After a wait that ended early the loop waits for no more than what is left.
LEMMA PollAgainIs ==
  ASSUME Inv, at = "blocked", poll.timeout > 0, UpdateTime, PollAgain
  PROVE  \/ ReturnFromPoll("check")
         \/ /\ UNCHANGED <<at, queue, visiting>> /\ poll' \in PollType /\ poll'.timeout > 0
            /\ poll'.real = poll'.timeout /\ poll'.wait = poll'.timeout
            /\ \A t \in Timers : handle[t].active => poll'.timeout <= left'[t]
<1> DEFINE elapsed == Capped(poll.since + lag)
           real == poll.real - elapsed
<1>1. /\ MaxTimeout \in Nat /\ poll \in PollType /\ lag \in 0 .. MaxTimeout
      /\ \A t \in Timers : left[t] \in 0 .. MaxTimeout /\ left'[t] \in Int /\ left'[t] >= left[t] - lag
  <2>1. left' \in [Timers -> 0 .. MaxTimeout] /\ \A t \in Timers : left'[t] >= left[t] - lag
    BY UpdateTimeIs DEF Inv
  <2> QED BY <2>1, LoopRunAssumption DEF Inv, TypeOK, PollType
<1>2. poll.real \in -1 .. MaxTimeout /\ poll.since \in 0 .. MaxTimeout
  BY <1>1 DEF PollType
<1>3. elapsed \in 0 .. MaxTimeout /\ elapsed >= lag
  BY <1>1, <1>2 DEF Capped
<1>4. real > 0 \/ ReturnFromPoll("check")
  BY <1>1, <1>2, <1>3 DEF PollAgain
<1>5. CASE real > 0
  <2>1. /\ poll' = [timeout |-> real, wait |-> real, real |-> real, since |-> elapsed]
        /\ UNCHANGED <<at, queue, visiting>>
    BY <1>1, <1>2, <1>3, <1>5 DEF PollAgain
  <2>2. real \in 0 .. MaxTimeout /\ real <= poll.real - lag
    BY <1>1, <1>2, <1>3, <1>5
  <2>3. \A t \in Timers : handle[t].active => poll.real <= left[t]
    BY DEF Inv, PollInv
  <2> HIDE DEF real, elapsed
  <2>4. \A t \in Timers : handle[t].active => real <= left'[t]
    BY <1>1, <1>2, <2>2, <2>3
  <2>5. /\ poll' \in PollType /\ poll'.timeout = real /\ poll'.wait = real /\ poll'.real = real
    BY <1>1, <1>3, <2>1, <2>2 DEF PollType
  <2> QED BY <1>5, <2>1, <2>4, <2>5
<1> QED BY <1>4, <1>5

\* The poll ends with nothing to do, by its timeout or by a signal.
LEMMA PollEndsKeeps ==
  ASSUME Inv, PollTimeout \/ Interrupt
  PROVE  Inv'
<1>1. /\ UNCHANGED <<handle, closing, batch, asyncVars, mode, stopFlag, cb, ran, served, fresh>>
      /\ at = "blocked" /\ cb = NoHandle /\ UpdateTime
  BY DEF PollTimeout, Interrupt, Inv, CallbackInv
<1>2. /\ left' \in [Timers -> 0 .. MaxTimeout] /\ lag' = 0 /\ UNCHANGED <<repeat, heap>> /\ Sorted(heap, left')
      /\ \A t \in Timers : left'[t] >= 0
  BY <1>1, UpdateTimeIs DEF Inv, HeapInv
<1>3. CloseInv' /\ NoLostSend' /\ (UNCHANGED <<queue, visiting>> => QueueInv')
  BY <1>1, MovesKeep DEF asyncVars, Kinds
<1>4. poll \in PollType /\ poll.timeout \in -1 .. MaxTimeout /\ MaxTimeout \in Nat
  BY LoopRunAssumption DEF Inv, TypeOK, PollType
<1>5. \/ ReturnFromPoll("check")
      \/ poll.timeout = -1 /\ UNCHANGED <<poll, at, queue, visiting>>
      \/ poll.timeout > 0 /\ PollAgain
  BY <1>4 DEF PollTimeout, Interrupt
<1>6. CASE ReturnFromPoll("check")
  <2>1. "check" \in Kinds /\ Begin("check") /\ poll' = NoPoll
    BY <1>6 DEF ReturnFromPoll, Kinds
  <2>2. at' = "check" /\ QueueInv' /\ queue' \in [Kinds -> Seq(Handles)] /\ visiting' \in Seq(Handles)
    BY <1>1, <2>1, BeginIs DEF Kinds
  <2>3. ServedInv'
    BY <1>1, <2>1, ServedBegins DEF Kinds
  <2>4. CallbackInv' /\ PollInv' /\ WaitsOnlyWhenIdle' /\ at' \in Places
    BY <2>2 DEF CallbackInv, PollInv, WaitsOnlyWhenIdle, Places
  <2>5. poll' \in PollType /\ lag' \in 0 .. MaxTimeout
    BY <1>2, <1>4, <2>1 DEF NoPoll, PollType
  <2> QED BY <1>1, <1>2, <1>3, <2>2, <2>3, <2>4, <2>5, RunStepKeeps DEF Inv, TypeOK, asyncVars
<1>7. CASE UNCHANGED <<at, queue, visiting>> /\ poll' \in PollType /\ PollInv' /\ (poll.timeout = -1 <=> poll'.timeout = -1)
             /\ poll.timeout # 0
  <2>1. ServedInv'
    BY <1>1, <1>7, ServedFrame DEF Inv
  <2>2. CallbackInv' /\ WaitsOnlyWhenIdle' /\ lag' \in 0 .. MaxTimeout
    BY <1>1, <1>2, <1>4, <1>7 DEF Inv, CallbackInv, WaitsOnlyWhenIdle
  <2> QED BY <1>1, <1>2, <1>3, <1>7, <2>1, <2>2, RunStepKeeps DEF Inv, TypeOK, asyncVars
<1>8. CASE poll.timeout = -1 /\ UNCHANGED <<poll, at, queue, visiting>>
  <2>1. PollInv'
    BY <1>1, <1>2, <1>4, <1>8 DEF Inv, PollInv
  <2> QED BY <1>4, <1>7, <1>8, <2>1
<1>9. CASE poll.timeout > 0 /\ PollAgain
  <2>1. \/ ReturnFromPoll("check")
        \/ /\ UNCHANGED <<at, queue, visiting>> /\ poll' \in PollType /\ poll'.timeout > 0
           /\ poll'.real = poll'.timeout /\ poll'.wait = poll'.timeout
           /\ \A t \in Timers : handle[t].active => poll'.timeout <= left'[t]
    BY <1>1, <1>9, PollAgainIs
  <2>2. CASE /\ UNCHANGED <<at, queue, visiting>> /\ poll' \in PollType /\ poll'.timeout > 0
             /\ poll'.real = poll'.timeout /\ poll'.wait = poll'.timeout
             /\ \A t \in Timers : handle[t].active => poll'.timeout <= left'[t]
    <3>1. poll'.timeout \in -1 .. MaxTimeout
      BY <2>2 DEF PollType
    <3>2. PollInv'
      BY <1>1, <1>4, <2>2, <3>1 DEF PollInv
    <3>3. poll.timeout # -1 /\ poll'.timeout # -1 /\ poll.timeout # 0
      BY <1>4, <1>9, <2>2, <3>1
    <3> QED BY <1>7, <2>2, <3>2, <3>3
  <2> QED BY <1>6, <2>1, <2>2
<1> QED BY <1>5, <1>6, <1>8, <1>9

\* uv__async_io has read the eventfd: all the asyncs are still to be looked at.
LEMMA PollEventsKeeps ==
  ASSUME Inv, PollEvents
  PROVE  Inv'
<1>1. /\ UNCHANGED <<handle, closing, batch, pending, sender, mode, stopFlag, cb, ran, served, fresh>>
      /\ at = "blocked" /\ cb = NoHandle /\ UpdateTime /\ Begin("async") /\ poll' = NoPoll /\ eventfd' = FALSE
      /\ "async" \in Kinds
  BY DEF PollEvents, ReturnFromPoll, Inv, CallbackInv, Kinds
<1>2. /\ left' \in [Timers -> 0 .. MaxTimeout] /\ lag' = 0 /\ UNCHANGED <<repeat, heap>> /\ Sorted(heap, left')
  BY <1>1, UpdateTimeIs DEF Inv, HeapInv
<1>3. /\ at' = "async" /\ QueueInv' /\ queue' \in [Kinds -> Seq(Handles)] /\ visiting' \in Seq(Handles)
      /\ \A h \in Listed : In(visiting', h) <=> handle[h].active /\ KindOf(h) = "async"
  BY <1>1, BeginIs DEF Kinds
<1>4. CloseInv'
  BY <1>1 DEF Inv, CloseInv
<1>5. NoLostSend'
  <2>1. \A a \in Asyncs : a \in Listed /\ KindOf(a) = "async" /\ (Open(a) => handle[a].active)
    BY KindsApart DEF Listed, Inv, HandleInv
  <2> QED BY <1>1, <1>3, <2>1 DEF NoLostSend, Open
<1>6. ServedInv'
  BY <1>1, ServedBegins DEF Kinds
<1>7. CallbackInv' /\ PollInv' /\ WaitsOnlyWhenIdle' /\ at' \in Places
  BY <1>3 DEF CallbackInv, PollInv, WaitsOnlyWhenIdle, Places
<1>8. poll' \in PollType /\ lag' \in 0 .. MaxTimeout
  BY <1>1, <1>2, LoopRunAssumption DEF NoPoll, PollType
<1> QED BY <1>1, <1>2, <1>3, <1>4, <1>5, <1>6, <1>7, <1>8, RunStepKeeps DEF Inv, TypeOK

\* The closing handles are taken over as a batch.
LEMMA CheckDoneKeeps ==
  ASSUME Inv, CheckDone
  PROVE  Inv'
<1>1. /\ UNCHANGED <<handle, timerVars, queue, visiting, asyncVars, lag, poll, mode, stopFlag, cb, ran, served, fresh>>
      /\ at = "check" /\ at' = "closing" /\ visiting = <<>> /\ batch' = closing /\ closing' = <<>>
  BY DEF CheckDone, Between
<1>2. batch = <<>>
  BY <1>1 DEF Inv, CloseInv
<1>3. CloseInv' /\ closing' \in Seq(Handles) /\ batch' \in Seq(Handles)
  BY <1>1, <1>2, EmptyOnce DEF Inv, CloseInv, TypeOK
<1>4. QueueInv' /\ NoLostSend' /\ \A h \in Handles : ~In(visiting, h)
  BY <1>1, EmptyOnce DEF Inv, QueueInv, NoLostSend, asyncVars, Open
<1>5. ServedInv'
  <2>1. \A h \in served : h \in Watchers /\ h \in Handles
    BY DEF Inv, TypeOK, Handles
  <2> QED BY <1>1, <1>4, <2>1, BeforeFacts DEF Inv, ServedInv, Handles
<1>6. CallbackInv' /\ PollInv' /\ WaitsOnlyWhenIdle' /\ at' \in Places
  BY <1>1 DEF CallbackInv, PollInv, WaitsOnlyWhenIdle, Places
<1> QED BY <1>1, <1>3, <1>4, <1>5, <1>6, RunStepKeeps DEF Inv, TypeOK, HeapInv, PollType, timerVars, asyncVars

\* An iteration ends, another begins or uv_run returns; and uv_run is called.
LEMMA IterationKeeps ==
  ASSUME Inv, IterationDone \/ LastTimersDone \/ \E m \in Modes : Run(m)
  PROVE  Inv'
<1>1. /\ UNCHANGED <<handle, listVars, asyncVars, poll, cb>> /\ cb = NoHandle /\ batch = <<>>
      /\ at \in {"out", "closing", "lastTimers"}
  BY DEF IterationDone, LastTimersDone, Run, Between, Inv, CallbackInv, CloseInv
<1>2. /\ left' \in [Timers -> 0 .. MaxTimeout] /\ lag' \in 0 .. MaxTimeout /\ UNCHANGED <<repeat, heap>>
      /\ Sorted(heap, left')
  <2>1. UpdateTime \/ UNCHANGED <<timerVars, lag>>
    BY DEF IterationDone, LastTimersDone, Run, BeginIteration
  <2>2. CASE UpdateTime
    BY <2>2, UpdateTimeIs, LoopRunAssumption DEF Inv, HeapInv
  <2>3. CASE UNCHANGED <<timerVars, lag>>
    BY <2>3 DEF Inv, TypeOK, HeapInv, timerVars
  <2> QED BY <2>1, <2>2, <2>3
<1>3. /\ at' \in {"out", "timers", "lastTimers"} /\ mode' \in {"default"} \cup Modes /\ stopFlag' \in BOOLEAN
      /\ ran' \in BOOLEAN
      /\ \/ at' = "out" /\ served' = {} /\ fresh' = {}
         \/ at' = "timers" /\ served' = {} /\ fresh' = {}
         \/ at' = "lastTimers" /\ at = "closing" /\ UNCHANGED <<served, fresh>>
  BY DEF IterationDone, LastTimersDone, Run, BeginIteration, Leave, Between, Inv, TypeOK
<1>4. CloseInv' /\ NoLostSend' /\ QueueInv' /\ \A h \in Handles : ~In(visiting, h)
  BY <1>1, MovesKeep DEF asyncVars, listVars, Kinds
<1>5. ServedInv'
  <2>1. CASE served' = {} /\ fresh' = {} /\ at' = "out"
    BY <2>1 DEF ServedInv
  <2>2. CASE served' = {} /\ fresh' = {} /\ at' = "timers"
    BY <2>2, BeforeFacts DEF ServedInv
  <2>3. CASE at' = "lastTimers" /\ at = "closing" /\ UNCHANGED <<served, fresh>>
    <3>1. \A h \in served : h \in Watchers
      BY DEF Inv, TypeOK
    <3> QED BY <1>1, <1>4, <2>3, <3>1, BeforeFacts DEF Inv, ServedInv, listVars, Handles
  <2> QED BY <1>3, <2>1, <2>2, <2>3
<1>6. CallbackInv' /\ PollInv' /\ WaitsOnlyWhenIdle' /\ at' \in Places
  BY <1>1, <1>3 DEF CallbackInv, PollInv, WaitsOnlyWhenIdle, Places
<1>7. served' \subseteq Watchers /\ fresh' \subseteq Watchers
  BY <1>3 DEF Inv, TypeOK
<1> QED BY <1>1, <1>2, <1>3, <1>4, <1>5, <1>6, <1>7, RunStepKeeps DEF Inv, TypeOK, PollType, asyncVars, listVars

-----------------------------------------------------------------------------
(* The invariant holds of the initial states and of every step.            *)

\* Before anything is called.
LEMMA InitEstablishes ==
  ASSUME Init
  PROVE  Inv
<1>1. /\ handle \in [Handles -> HandleType] /\ \A h \in Handles : ~handle[h].active
      /\ \A h \in Handles : handle[h].state \in {"none", "absent"}
  <2>1. PICK cast \in Casts :
          handle = [h \in Handles |-> IF h \in cast THEN NoUv ELSE [NoUv EXCEPT !.state = "absent"]]
    BY DEF Init
  <2> QED BY <2>1 DEF NoUv, HandleType
<1>2. /\ left = [t \in Timers |-> 0] /\ repeat = [t \in Timers |-> 0] /\ heap = <<>>
      /\ queue = [k \in Kinds |-> <<>>] /\ visiting = <<>> /\ closing = <<>> /\ batch = <<>>
      /\ pending = [a \in Asyncs |-> FALSE] /\ eventfd = FALSE
      /\ sender = [s \in Senders |-> "idle"]
      /\ lag = 0 /\ poll = NoPoll
      /\ at = "out" /\ mode = "default" /\ stopFlag = FALSE /\ cb = NoHandle
      /\ served = {} /\ fresh = {} /\ ran = FALSE
  BY DEF Init
<1>3. MaxTimeout \in Nat /\ 0 \in 0 .. MaxTimeout /\ 0 \in -1 .. MaxTimeout
  BY LoopRunAssumption
<1>4. NoPoll \in PollType
  BY <1>3 DEF NoPoll, PollType
<1>5. <<>> \in Seq(Timers) /\ queue \in [Kinds -> Seq(Handles)] /\ <<>> \in Seq(Handles)
  BY <1>2, EmptyOnce
<1>6. left \in [Timers -> 0 .. MaxTimeout] /\ repeat \in [Timers -> 0 .. MaxTimeout] /\ lag \in 0 .. MaxTimeout
  BY <1>2, <1>3
<1>7. TypeOK
  BY <1>1, <1>2, <1>4, <1>5, <1>6 DEF TypeOK, PollType, Places
<1>8. CallbackInv /\ PollInv /\ WaitsOnlyWhenIdle /\ NoLostSend /\ ServedInv /\ HandleInv
  <2>1. NoLostSend /\ HandleInv
    BY <1>1, <1>2 DEF NoLostSend, HandleInv, Open, Handles
  <2> QED BY <1>2, <2>1 DEF CallbackInv, PollInv, WaitsOnlyWhenIdle, ServedInv
<1>9. Once(heap) /\ Sorted(heap, left) /\ \A x : ~In(heap, x)
  BY <1>2, EmptyOnce DEF Sorted
<1>10. HeapInv
  BY <1>1, <1>9 DEF HeapInv, Handles
<1>11. \A k \in Kinds : Once(queue[k]) /\ \A x : ~In(queue[k], x)
  BY <1>2, EmptyOnce
<1>12. /\ Once(visiting) /\ Once(closing) /\ Once(batch)
       /\ \A x : ~In(visiting, x) /\ ~In(closing, x) /\ ~In(batch, x)
  BY <1>2, EmptyOnce
<1>13. QueueInv
  BY <1>1, <1>11, <1>12, KindsApart DEF QueueInv, Listed, Handles
<1>14. CloseInv
  BY <1>1, <1>2, <1>12 DEF CloseInv
<1> QED BY <1>7, <1>8, <1>10, <1>13, <1>14 DEF Inv

\* A step in which nothing happens.
LEMMA StutterKeeps ==
  ASSUME Inv, UNCHANGED vars
  PROVE  Inv'
<1>1. /\ UNCHANGED <<handle, left, repeat, heap, queue, visiting, closing, batch>>
      /\ UNCHANGED <<pending, eventfd, sender, lag, poll, at, mode, stopFlag, cb, ran, served, fresh>>
  BY DEF vars, timerVars, listVars, asyncVars, runVars
<1>2. TypeOK' /\ HandleInv' /\ HeapInv' /\ QueueInv'
  BY <1>1 DEF Inv, TypeOK, HandleInv, HeapInv, QueueInv, Open
<1>3. CloseInv' /\ CallbackInv' /\ PollInv' /\ WaitsOnlyWhenIdle' /\ NoLostSend' /\ ServedInv'
  BY <1>1 DEF Inv, CloseInv, CallbackInv, PollInv, WaitsOnlyWhenIdle, NoLostSend, ServedInv, Open
<1> QED BY <1>2, <1>3 DEF Inv

\* Every step is one of the above.
LEMMA StepKeeps ==
  ASSUME Inv, [Next]_vars
  PROVE  Inv'
<1>1. CASE CallHandle
  <2>1. CASE \E h \in Handles : InitHandle(h)
    BY <2>1, InitKeeps
  <2>2. CASE \E h \in Handles : Close(h)
    BY <2>2, CloseKeeps
  <2>3. CASE \E h \in Reffed, ref \in BOOLEAN : SetRef(h, ref)
    BY <2>3, InitKeeps, LoopRunAssumption
  <2>4. CASE \E a \in Asyncs : InitAsync(a)
    BY <2>4, InitAsyncKeeps
  <2> QED BY <1>1, <2>1, <2>2, <2>3, <2>4 DEF CallHandle
<1>2. CASE CallTimer
  BY <1>2, StartTimerKeeps, StopTimerKeeps, QuietCallKeeps DEF CallTimer
<1>3. CASE CallWatcher
  <2>1. PICK h \in Watchers : StartWatcher(h) \/ StopWatcher(h)
    BY <1>3 DEF CallWatcher, StartIdle, StopIdle, StartPrepare, StopPrepare, StartCheck, StopCheck, Watchers
  <2> QED BY <2>1, StartWatcherKeeps, StopWatcherKeeps
<1>4. CASE CallLoop
  BY <1>4, QuietCallKeeps, IterationKeeps DEF CallLoop
<1>5. CASE (\E s \in Senders, a \in Asyncs : Send(s, a)) \/ (\E s \in Senders : WriteEventfd(s))
  BY <1>5, SendKeeps
<1>6. CASE LoopStep
  <2>1. CASE \E t \in Timers : FireTimer(t)
    BY <2>1, FireTimerKeeps
  <2>2. CASE \E h \in Watchers : IdleCb(h) \/ PrepareCb(h) \/ CheckCb(h)
    BY <2>2, FireWatcherKeeps DEF IdleCb, PrepareCb, CheckCb
  <2>3. CASE \E a \in Asyncs : FireAsync(a)
    BY <2>3, FireAsyncKeeps
  <2>4. CASE \E h \in Handles : FinishClose(h)
    BY <2>4, FinishCloseKeeps
  <2>5. CASE TimersDone \/ IdleDone \/ AsyncDone \/ PrepareDone
    BY <2>5, PhaseDoneKeeps, PrepareDoneKeeps
  <2>6. CASE EnterPoll \/ PollTimeout \/ PollEvents
    BY <2>6, EnterPollKeeps, PollEndsKeeps, PollEventsKeeps
  <2>7. CASE CheckDone \/ IterationDone \/ LastTimersDone
    BY <2>7, CheckDoneKeeps, IterationKeeps
  <2> QED BY <1>6, <2>1, <2>2, <2>3, <2>4, <2>5, <2>6, <2>7 DEF LoopStep
<1>7. CASE Interrupt \/ LeaveCallback \/ Tick
  BY <1>7, PollEndsKeeps, LeaveCallbackKeeps, TickKeeps
<1>8. CASE UNCHANGED vars
  BY <1>8, StutterKeeps
<1> QED BY <1>1, <1>2, <1>3, <1>4, <1>5, <1>6, <1>7, <1>8 DEF Next

\* The inductive invariant holds throughout.
LEMMA Invariance == Spec => []Inv
<1>1. Init => Inv
  BY InitEstablishes
<1>2. Inv /\ [Next]_vars => Inv'
  BY StepKeeps
<1> QED BY <1>1, <1>2, PTL DEF Spec

-----------------------------------------------------------------------------
(* The theorems.                                                           *)

\* Every variable of uv_run and of its lists keeps its type.
THEOREM TypeCorrect == Spec => []TypeOK
BY Invariance, PTL DEF Inv

\* Async.send(): a pending async of an open handle is never left without a
\* wake-up, whatever the threads that send and uv__async_io do in between.
THEOREM SendsKept == Spec => []NoLostSend
BY Invariance, PTL DEF Inv

\* The timer heap holds the active timers in the order of their dates, and
\* uv__io_poll, also after an interrupt, does not sleep through the first.
THEOREM TimersInTime == Spec => []TimersExact
<1>1. Inv => HeapExact
  <2> SUFFICES ASSUME Inv PROVE HeapExact
    OBVIOUS
  <2>1. heap \in Seq(Timers) /\ \A i \in DOMAIN heap : heap[i] \in Timers
    BY ElementOfSeq, LenProperties DEF Inv, TypeOK
  <2>2. DOMAIN heap = 1 .. Len(heap) /\ Len(heap) \in Nat
    BY <2>1, LenProperties
  <2>3. Elements(heap) = {t \in Timers : handle[t].active}
    BY <2>1 DEF Inv, HeapInv, Elements, In
  <2>4. \A i \in 1 .. Len(heap) - 1 : left[heap[i]] <= left[heap[i + 1]]
    <3> SUFFICES ASSUME NEW i \in 1 .. Len(heap) - 1 PROVE left[heap[i]] <= left[heap[i + 1]]
      OBVIOUS
    <3>1. i \in DOMAIN heap /\ i + 1 \in DOMAIN heap /\ i < i + 1
      BY <2>2
    <3> QED BY <3>1 DEF Inv, HeapInv, Sorted
  <2> QED BY <2>3, <2>4 DEF HeapExact, Inv, HeapInv
<1>2. Inv => SleepsNoLongerThanTimers
  <2> SUFFICES ASSUME Inv, at = "blocked", NEW t \in Timers, handle[t].active
               PROVE  poll.wait <= left[t]
    BY DEF SleepsNoLongerThanTimers
  <2>1. /\ MaxTimeout \in Nat /\ left[t] \in 0 .. MaxTimeout
        /\ poll.wait \in 0 .. MaxTimeout /\ poll.timeout \in -1 .. MaxTimeout
    BY LoopRunAssumption DEF Inv, TypeOK
  <2>2. (poll.wait <= poll.timeout \/ poll.wait = 0) /\ poll.timeout <= left[t]
    BY DEF Inv, PollInv
  <2> QED BY <2>1, <2>2
<1> QED BY <1>1, <1>2, Invariance, PTL DEF TimersExact

\* Every list that uv_run walks while callbacks start, stop and close handles has
\* each of its handles once and no other; none is in two lists.
THEOREM ListsWalked == Spec => []ListsExact
<1>1. Inv => QueuesExact
  <2> SUFFICES ASSUME Inv PROVE QueuesExact
    OBVIOUS
  <2> DEFINE idle == queue["idle"]
             prepare == queue["prepare"]
             check == queue["check"]
             async == queue["async"]
             linked == idle \o prepare \o check \o async \o visiting
  <2>1. /\ idle \in Seq(Handles) /\ prepare \in Seq(Handles) /\ check \in Seq(Handles)
        /\ async \in Seq(Handles) /\ visiting \in Seq(Handles)
        /\ Once(idle) /\ Once(prepare) /\ Once(check) /\ Once(async) /\ Once(visiting)
    BY DEF Inv, TypeOK, QueueInv, Kinds
  <2>2. ASSUME NEW s \in Seq(Handles), NEW x PROVE In(s, x) => x \in Handles
    BY ElementOfSeq, LenProperties DEF In
  <2>3. ASSUME NEW x
        PROVE  /\ In(idle, x) => x \in Listed /\ KindOf(x) = "idle"
               /\ In(prepare, x) => x \in Listed /\ KindOf(x) = "prepare"
               /\ In(check, x) => x \in Listed /\ KindOf(x) = "check"
               /\ In(async, x) => x \in Listed /\ KindOf(x) = "async"
               /\ In(visiting, x) => x \in Listed /\ ~In(queue[KindOf(x)], x)
    BY <2>1, <2>2 DEF Inv, QueueInv, Kinds
  <2>4. /\ idle \o prepare \in Seq(Handles) /\ Once(idle \o prepare)
        /\ \A x : In(idle \o prepare, x) <=> In(idle, x) \/ In(prepare, x)
    <3> HIDE DEF idle, prepare
    <3>1. \A x : ~(In(idle, x) /\ In(prepare, x))
      BY <2>3
    <3> QED BY <2>1, <3>1, ConcatOnce
  <2>5. /\ idle \o prepare \o check \in Seq(Handles) /\ Once(idle \o prepare \o check)
        /\ \A x : In(idle \o prepare \o check, x) <=> In(idle, x) \/ In(prepare, x) \/ In(check, x)
    <3> DEFINE s == idle \o prepare
    <3> HIDE DEF idle, prepare, check
    <3>1. s \in Seq(Handles) /\ Once(s) /\ \A x : In(s, x) <=> In(idle, x) \/ In(prepare, x)
      BY <2>4
    <3> HIDE DEF s
    <3>2. \A x : ~(In(s, x) /\ In(check, x))
      BY <2>3, <3>1
    <3>3. s \o check \in Seq(Handles) /\ Once(s \o check) /\ \A x : In(s \o check, x) <=> In(s, x) \/ In(check, x)
      BY <2>1, <3>1, <3>2, ConcatOnce
    <3> QED BY <3>1, <3>3 DEF s
  <2>6. /\ idle \o prepare \o check \o async \in Seq(Handles) /\ Once(idle \o prepare \o check \o async)
        /\ \A x : In(idle \o prepare \o check \o async, x)
                    <=> In(idle, x) \/ In(prepare, x) \/ In(check, x) \/ In(async, x)
    <3> DEFINE s == idle \o prepare \o check
    <3> HIDE DEF idle, prepare, check, async
    <3>1. s \in Seq(Handles) /\ Once(s) /\ \A x : In(s, x) <=> In(idle, x) \/ In(prepare, x) \/ In(check, x)
      BY <2>5
    <3> HIDE DEF s
    <3>2. \A x : ~(In(s, x) /\ In(async, x))
      BY <2>3, <3>1
    <3>3. s \o async \in Seq(Handles) /\ Once(s \o async) /\ \A x : In(s \o async, x) <=> In(s, x) \/ In(async, x)
      BY <2>1, <3>1, <3>2, ConcatOnce
    <3> QED BY <3>1, <3>3 DEF s
  <2>7. /\ linked \in Seq(Handles) /\ Once(linked)
        /\ \A x : In(linked, x)
                    <=> In(idle, x) \/ In(prepare, x) \/ In(check, x) \/ In(async, x) \/ In(visiting, x)
    <3> DEFINE s == idle \o prepare \o check \o async
    <3>1. ASSUME NEW x, In(visiting, x) PROVE ~In(idle, x) /\ ~In(prepare, x) /\ ~In(check, x) /\ ~In(async, x)
      BY <2>3, <3>1
    <3> HIDE DEF idle, prepare, check, async
    <3>2. /\ s \in Seq(Handles) /\ Once(s)
          /\ \A x : In(s, x) <=> In(idle, x) \/ In(prepare, x) \/ In(check, x) \/ In(async, x)
      BY <2>6
    <3> HIDE DEF s
    <3>3. \A x : ~(In(s, x) /\ In(visiting, x))
      BY <3>1, <3>2
    <3>4. /\ s \o visiting \in Seq(Handles) /\ Once(s \o visiting)
          /\ \A x : In(s \o visiting, x) <=> In(s, x) \/ In(visiting, x)
      BY <2>1, <3>2, <3>3, ConcatOnce
    <3> QED BY <3>2, <3>4 DEF s
  <2>8. \A x : In(linked, x) <=> x \in Listed /\ handle[x].active
    <3> SUFFICES ASSUME NEW x PROVE In(linked, x) <=> x \in Listed /\ handle[x].active
      OBVIOUS
    <3>1. In(linked, x) <=> x \in Listed /\ (In(queue[KindOf(x)], x) \/ In(visiting, x))
      <4> HIDE DEF linked
      <4> QED BY <2>3, <2>7, KindsApart DEF Kinds
    <3> QED BY <3>1 DEF Inv, QueueInv
  <2>9. Elements(linked) = {h \in Watchers \cup Asyncs : handle[h].active}
    <3> HIDE DEF linked
    <3> QED BY <2>8 DEF Elements, In, Listed
  <2>10. \A k \in Kinds : \A h \in Elements(queue[k]) : KindOf(h) = k
    BY <2>3 DEF Elements, In, Kinds
  <2>11. \A h \in Elements(visiting) : at = KindOf(h)
    BY <2>1, <2>2 DEF Elements, In, Inv, QueueInv
  <2> QED BY <2>7, <2>9, <2>10, <2>11 DEF QueuesExact
<1>2. Inv => ClosesExact
  <2> SUFFICES ASSUME Inv PROVE ClosesExact
    OBVIOUS
  <2>1. closing \in Seq(Handles) /\ batch \in Seq(Handles) /\ Once(closing) /\ Once(batch)
    BY DEF Inv, TypeOK, CloseInv
  <2>2. \A x : In(closing, x) \/ In(batch, x) => x \in Handles
    BY <2>1, ElementOfSeq, LenProperties DEF In
  <2>3. \A x : ~(In(closing, x) /\ In(batch, x))
    BY <2>2 DEF Inv, CloseInv
  <2> DEFINE list == closing \o batch
  <2>4. Once(list) /\ \A x : In(list, x) <=> In(closing, x) \/ In(batch, x)
    BY <2>1, <2>3, ConcatOnce
  <2>5. Elements(list) = {h \in Handles : handle[h].state = "closing"}
    <3> HIDE DEF list
    <3>1. \A x : In(list, x) <=> x \in Handles /\ handle[x].state = "closing"
      BY <2>2, <2>4 DEF Inv, CloseInv
    <3> QED BY <3>1 DEF Elements, In
  <2> QED BY <2>4, <2>5 DEF ClosesExact
<1> QED BY <1>1, <1>2, Invariance, PTL DEF ListsExact

\* An iteration reaches the poll only after every idle and prepare callback it
\* owes, the closing callbacks only after the checks', and waits in the poll only
\* when nothing else is to be done.
THEOREM IterationsComplete == Spec => []IterationExact
<1>1. Inv => CalledEveryIteration
  <2> SUFFICES ASSUME Inv PROVE CalledEveryIteration
    OBVIOUS
  <2>1. ASSUME NEW h \in Watchers, at # "out", at # KindOf(h), at \notin Before(h), handle[h].active, h \notin fresh
        PROVE  h \in served
    BY <2>1 DEF Inv, ServedInv, QueueInv, Handles
  <2>2. ASSUME NEW h \in Idles \cup Prepares, at \in {"poll", "blocked"}
        PROVE  h \in Watchers /\ at # "out" /\ at # KindOf(h) /\ at \notin Before(h)
    BY <2>2, KindsApart, LoopRunAssumption DEF Before, Watchers
  <2>3. ASSUME NEW h \in Checks, at = "closing"
        PROVE  h \in Watchers /\ at # "out" /\ at # KindOf(h) /\ at \notin Before(h)
    BY <2>3, KindsApart, LoopRunAssumption DEF Before, Watchers
  <2> QED BY <2>1, <2>2, <2>3 DEF CalledEveryIteration
<1> QED BY <1>1, Invariance, PTL DEF IterationExact, Inv

\* Idle, prepare and check callbacks: none is called twice in an iteration, also
\* if it stops, starts or closes handles, itself among them.
THEOREM CalledOnce == Spec => CalledOncePerIteration
<1>1. ASSUME Inv, [Next]_vars, cb' # cb, cb' \in Watchers, at # "closing"
      PROVE  cb' \notin served
  <2>1. cb' # NoHandle
    BY <1>1, KindsApart DEF Handles
  <2>2. CASE CallHandle \/ CallTimer \/ CallWatcher \/ UNCHANGED vars
    <3>1. UNCHANGED cb
      BY <2>2 DEF CallHandle, InitHandle, Close, SetRef, InitAsync, CallTimer, StartTimer, SetRepeat, StopTimer, Again,
                  CallWatcher, StartIdle, StopIdle, StartPrepare, StopPrepare, StartCheck, StopCheck, StartWatcher,
                  StopWatcher, runVars, vars
    <3> QED BY <1>1, <3>1
  <2>3. CASE \/ CallLoop \/ Interrupt \/ Tick
             \/ (\E s \in Senders, a \in Asyncs : Send(s, a)) \/ (\E s \in Senders : WriteEventfd(s))
    <3>1. UNCHANGED cb
      BY <2>3 DEF CallLoop, Stop, UpdateLoopTime, Run, Interrupt, Tick, Send, WriteEventfd, runVars
    <3> QED BY <1>1, <3>1
  <2>4. CASE LeaveCallback
    BY <2>1, <2>4 DEF LeaveCallback
  <2>5. CASE LoopStep
    <3>1. CASE \E t \in Timers : FireTimer(t)
      <4>1. cb' \in Timers
        BY <3>1 DEF FireTimer
      <4> QED BY <1>1, <4>1, LoopRunAssumption
    <3>2. CASE \E h \in Watchers : IdleCb(h) \/ PrepareCb(h) \/ CheckCb(h)
      <4>1. PICK h \in Watchers : FireWatcher(h)
        BY <3>2 DEF IdleCb, PrepareCb, CheckCb
      <4> QED BY <1>1, <4>1, FireWatcherKeeps DEF FireWatcher
    <3>3. CASE \E a \in Asyncs : FireAsync(a)
      <4>1. cb' \in Asyncs \/ cb' = cb
        BY <3>3 DEF FireAsync
      <4> QED BY <1>1, <4>1, LoopRunAssumption
    <3>4. CASE \E h \in Handles : FinishClose(h)
      BY <1>1, <3>4 DEF FinishClose, Between
    <3>5. CASE \/ TimersDone \/ IdleDone \/ AsyncDone \/ PrepareDone \/ EnterPoll \/ PollTimeout \/ PollEvents
               \/ CheckDone \/ IterationDone \/ LastTimersDone
      <4>1. UNCHANGED cb
        BY <3>5 DEF TimersDone, IdleDone, AsyncDone, PrepareDone, EnterPoll, PollTimeout, PollEvents,
                    CheckDone, IterationDone, LastTimersDone
      <4> QED BY <1>1, <4>1
    <3> QED BY <2>5, <3>1, <3>2, <3>3, <3>4, <3>5 DEF LoopStep
  <2> QED BY <1>1, <2>2, <2>3, <2>4, <2>5 DEF Next
<1>2. Inv /\ [Next]_vars => [cb' # cb /\ cb' \in Watchers /\ at # "closing" => cb' \notin served]_vars
  BY <1>1
<1> QED BY <1>2, Invariance, PTL DEF CalledOncePerIteration, Spec
=============================================================================
