--------------------------- MODULE ThreadSyncProofs ---------------------------
(***************************************************************************)
(* The locks of src/thread.c exclude, for any set of threads: what Python  *)
(* code was told it holds, it holds, and nobody else does.  Permits of a   *)
(* Semaphore are conserved and a complete party leaves its Barrier.        *)
(***************************************************************************)
EXTENDS ThreadSync, FiniteSetTheorems, TLAPS

\* t begins some method.
Enters(t) ==
  \E method \in Methods, holds \in {"nothing", "mutex", "read", "write", "permit"} : Enter(t, method, holds)

\* Every step of a method of src/thread.c leaves values of the kinds it found.
LEMMA TypesStep == TypeOK /\ [Next]_vars => TypeOK'
<1> SUFFICES ASSUME TypeOK, [Next]_vars PROVE TypeOK'
  OBVIOUS
<1>1. CASE UNCHANGED vars
  BY <1>1 DEF TypeOK, vars
<1>2. ASSUME NEW t \in Threads,
             \/ Resume(t) \/ Switch(t) \/ Finish(t) \/ Make(t)
      PROVE TypeOK'
  BY <1>2 DEF TypeOK, Resume, Switch, Finish, Make, Told, Running, primitive, Methods
<1>3. ASSUME NEW t \in Threads, NEW method \in Methods, NEW holds, Enter(t, method, holds),
             holds \in {"nothing", "mutex", "read", "write", "permit"}
      PROVE TypeOK'
  BY <1>3 DEF TypeOK, Enter, AllowThreads, primitive
<1>4. ASSUME NEW t \in Threads,
             \/ MutexLock(t) \/ MutexUnlock(t) \/ MutexTrylock(t)
             \/ RdLock(t) \/ RdUnlock(t) \/ TryRdLock(t) \/ WrLock(t) \/ WrUnlock(t) \/ TryWrLock(t)
      PROVE TypeOK'
  <2>1. CASE Enters(t)
    BY <2>1, <1>3 DEF Enters
  <2>2. CASE ~Enters(t)
    BY <2>2, <1>4 DEF Enters, TypeOK, Back, Methods, MutexLock, MutexUnlock, MutexTrylock,
         RdLock, RdUnlock, TryRdLock, WrLock, WrUnlock, TryWrLock, Free
  <2> QED BY <2>1, <2>2
<1>5. ASSUME NEW t \in Threads, Signal(t) \/ Broadcast(t) PROVE TypeOK'
  <2>1. CASE Enters(t)
    BY <2>1, <1>3 DEF Enters
  <2>2. CASE ~Enters(t)
    BY <2>2, <1>5 DEF Enters, TypeOK, Back, Methods, Signal, Broadcast, Woken
  <2> QED BY <2>1, <2>2
<1>6. ASSUME NEW t \in Threads, ConditionWait(t) \/ ConditionTimedwait(t) PROVE TypeOK'
  <2>1. CASE Enters(t)
    BY <2>1, <1>3 DEF Enters
  <2>2. ASSUME NEW method \in {"wait", "timedwait"}, Sleep(t, method) PROVE TypeOK'
    BY <2>2 DEF TypeOK, Sleep
  <2>3. ASSUME NEW method \in {"wait", "timedwait"}, WakeUp(t, method) PROVE TypeOK'
    BY <2>3 DEF TypeOK, WakeUp, Woken
  <2>4. ASSUME NEW method \in {"wait", "timedwait"}, Relock(t, method) PROVE TypeOK'
    BY <2>4 DEF TypeOK, Relock, Back
  <2> QED BY <2>1, <2>2, <2>3, <2>4, <1>6 DEF Enters, ConditionWait, ConditionTimedwait, Methods
<1>7. ASSUME NEW t \in Threads, SemaphorePost(t) \/ SemaphoreWait(t) \/ SemaphoreTrywait(t) PROVE TypeOK'
  <2>1. ASSUME NEW method \in {"post", "sem wait", "sem trywait"}, NEW holds \in {"nothing", "permit"}, Enter(t, method, holds)
        PROVE TypeOK'
    BY <2>1, <1>3 DEF Methods
  <2>2. ASSUME NEW r \in BOOLEAN, Back(t, r), count' \in {count, count + 1} \/ (count > 0 /\ count' = count - 1),
               UNCHANGED <<owner, readers, waiting>>
        PROVE TypeOK'
    <3>1. count' \in Nat BY <2>2 DEF TypeOK
    <3> QED BY <2>2, <3>1 DEF TypeOK, Back
  <2>3. CASE SemaphorePost(t) BY <2>1, <2>2, <2>3 DEF SemaphorePost
  <2>4. CASE SemaphoreWait(t) BY <2>1, <2>2, <2>4 DEF SemaphoreWait
  <2>5. CASE SemaphoreTrywait(t) BY <2>1, <2>2, <2>5 DEF SemaphoreTrywait
  <2> QED BY <1>7, <2>3, <2>4, <2>5
<1>8. ASSUME NEW t \in Threads, BarrierWait(t) PROVE TypeOK'
  <2>1. CASE Enter(t, "barrier wait", "nothing")
    BY <2>1, <1>3 DEF Methods
  <2>2. CASE ~Enter(t, "barrier wait", "nothing")
    BY <2>2, <1>8 DEF TypeOK, BarrierWait
  <2> QED BY <2>1, <2>2
<1> QED BY <1>1, <1>2, <1>4, <1>5, <1>6, <1>7, <1>8 DEF Next

\* The state of the objects of src/thread.c and of the threads keeps its types.
THEOREM ThreadTypes == Spec => []TypeOK
<1>1. Init => TypeOK
  BY ThreadAssumption DEF Init, TypeOK, Methods
<1> QED BY <1>1, TypesStep, PTL DEF Spec


-----------------------------------------------------------------------------
(* Exclusion is not inductive: what a thread will be told is decided while *)
(* it is in libuv, so the claims of threads on their way back, or about to *)
(* release, are part of the invariant.                                     *)

MutexCalls == {"lock", "unlock", "trylock", "wait", "timedwait"}
RWLockCalls == {"rdlock", "rdunlock", "tryrdlock", "wrlock", "wrunlock", "trywrlock"}

\* What a thread has got: what Python knows, or is going to be told.
Claim(t) == IF at[t] = "back" THEN Told(t) ELSE knows[t]

ThreadInv(t) ==
  /\ at[t] \in {"python", "ended"} => call[t] = "none"
  /\ at[t] \notin {"python", "ended"} /\ call[t] \notin {"signal", "broadcast"} => knows[t] = "nothing"
  /\ call[t] \in MutexCalls => Locks
  /\ call[t] \in RWLockCalls => program = "rwlock"
  /\ call[t] = "barrier wait" => program = "barrier"
  /\ knows[t] \in {"mutex", "write"} \/ Claim(t) \in {"mutex", "write"} => owner = t
  /\ knows[t] = "read" \/ Claim(t) = "read" => t \in readers
  /\ In(t, "unlock") \/ In(t, "wrunlock") => owner = t
  /\ In(t, "rdunlock") => t \in readers
  /\ t \in waiting => at[t] = "asleep"
  /\ t \in waiting /\ program = "barrier" => call[t] = "barrier wait"

LockInv ==
  /\ TypeOK
  /\ readers # {} => owner = None /\ program = "rwlock"
  /\ \A t \in Threads : ThreadInv(t)

\* LockInv's conjuncts but the types, at the end of a step that only t takes.
LEMMA LockInvStep ==
  ASSUME LockInv, [Next]_vars,
         readers' # {} => owner' = None /\ program' = "rwlock",
         \A u \in Threads : ThreadInv(u)'
  PROVE  LockInv'
BY TypesStep DEF LockInv

\* A thread enters a method of src/thread.c: it claims less than before.
LEMMA EnterKeeps ==
  ASSUME LockInv, [Next]_vars, NEW t \in Threads, NEW method \in Methods \ {"none"}, NEW holds, Enter(t, method, holds),
         method \in MutexCalls => Locks, method \in RWLockCalls => program = "rwlock",
         method = "barrier wait" => program = "barrier",
         method = "unlock" => holds = "mutex", method = "wrunlock" => holds = "write",
         method = "rdunlock" => holds = "read"
  PROVE  LockInv'
<1> USE DEF LockInv, TypeOK, Enter, AllowThreads, primitive, Running
<1>1. ASSUME NEW u \in Threads PROVE ThreadInv(u)'
  <2>1. CASE u = t
    BY <2>1 DEF ThreadInv, Claim, Told, In, Locks, MutexCalls, RWLockCalls
  <2>2. CASE u # t
    <3>1. UNCHANGED <<at[u], call[u], knows[u], result[u], owner, readers, waiting, program>>
      BY <2>2
    <3> QED BY <3>1 DEF ThreadInv, Claim, Told, In, Locks
  <2> QED BY <2>1, <2>2
<1> QED BY <1>1, LockInvStep

\* Resume, Switch, Finish and Make: Python learns what was claimed.
LEMMA PythonKeeps ==
  ASSUME LockInv, [Next]_vars, NEW t \in Threads, Resume(t) \/ Switch(t) \/ Finish(t) \/ Make(t)
  PROVE  LockInv'
<1> USE DEF LockInv, TypeOK, Resume, Switch, Finish, Make, primitive, Running
<1>1. ASSUME NEW u \in Threads PROVE ThreadInv(u)'
  <2>1. CASE u = t
    <3>1. CASE Resume(t)
      <4>1. knows'[t] = Claim(t) /\ at'[t] = "python" /\ call'[t] = "none"
        BY <3>1 DEF ThreadInv, Claim, Told
      <4>2. UNCHANGED <<owner, readers, waiting, program>>
        BY <3>1
      <4>3. t \notin waiting
        BY <3>1 DEF ThreadInv
      <4> QED BY <2>1, <3>1, <4>1, <4>2, <4>3 DEF ThreadInv, Claim, Told, In, Locks, MutexCalls, RWLockCalls
    <3>2. CASE Switch(t) \/ Make(t)
      BY <2>1, <3>2 DEF ThreadInv, Claim, Told, In, Locks
    <3>3. CASE Finish(t)
      BY <2>1, <3>3 DEF ThreadInv, Claim, Told, In, Locks, MutexCalls, RWLockCalls
    <3> QED BY <3>1, <3>2, <3>3
  <2>2. CASE u # t
    <3>1. UNCHANGED <<at[u], call[u], knows[u], result[u], owner, readers, waiting, program>>
      BY <2>2
    <3> QED BY <3>1 DEF ThreadInv, Claim, Told, In, Locks
  <2> QED BY <2>1, <2>2
<1> QED BY <1>1, LockInvStep

\* The call of libuv ends for t; its claims and those of the others are kept.
LEMMA BackKeeps ==
  ASSUME LockInv, [Next]_vars, NEW t \in Threads, NEW r \in BOOLEAN, Back(t, r), at[t] \in {"libuv", "asleep"},
         readers' # {} => owner' = None /\ program' = "rwlock",
         call[t] \in {"wait", "timedwait"} \/ (r = TRUE /\ call[t] \in {"lock", "trylock", "wrlock", "trywrlock"}) => owner' = t,
         r = TRUE /\ call[t] \in {"rdlock", "tryrdlock"} => t \in readers',
         \A u \in Threads \ {t} : (owner = u => owner' = u) /\ (u \in readers => u \in readers'),
         knows[t] # "nothing" => owner' = owner /\ readers' = readers,
         waiting' \subseteq waiting \ {t}
  PROVE  LockInv'
<1> USE DEF LockInv, TypeOK, Back
<1>1. ASSUME NEW u \in Threads PROVE ThreadInv(u)'
  <2>1. CASE u = t
    BY <2>1 DEF ThreadInv, Claim, Told, In, Locks, MutexCalls, RWLockCalls
  <2>2. CASE u # t
    <3>1. UNCHANGED <<at[u], call[u], knows[u], result[u], program>>
      BY <2>2
    <3> QED BY <2>2, <3>1 DEF ThreadInv, Claim, Told, In, Locks
  <2> QED BY <2>1, <2>2
<1> QED BY <1>1, LockInvStep

\* The methods of Mutex.
LEMMA MutexKeeps ==
  ASSUME LockInv, [Next]_vars, NEW t \in Threads, MutexLock(t) \/ MutexUnlock(t) \/ MutexTrylock(t)
  PROVE  LockInv'
<1>1. CASE Locks /\ (Enter(t, "lock", "nothing") \/ Enter(t, "unlock", "mutex") \/ Enter(t, "trylock", "nothing"))
  BY <1>1, EnterKeeps DEF Methods, MutexCalls, RWLockCalls
<1>a. at[t] = "libuv" => t \notin waiting
  BY DEF LockInv, ThreadInv
<1>b. call[t] \in MutexCalls => readers = {}
  BY DEF LockInv, ThreadInv, Locks
<1>c. call[t] \in MutexCalls => knows[t] = "nothing"
  BY DEF LockInv, TypeOK, ThreadInv, MutexCalls
<1>d. \A u \in Threads : u # None
  BY ThreadAssumption
<1> USE DEF In, MutexCalls
<1>2. CASE (In(t, "lock") \/ In(t, "trylock")) /\ owner = None /\ owner' = t /\ Back(t, TRUE) /\ UNCHANGED <<readers, waiting, count>>
  BY <1>2, <1>a, <1>b, <1>c, <1>d, BackKeeps
<1>3. CASE In(t, "unlock") /\ owner' = None /\ Back(t, TRUE) /\ UNCHANGED <<readers, waiting, count>>
  <2>1. In(t, "unlock") => owner = t BY DEF LockInv, ThreadInv
  <2> QED BY <1>3, <2>1, <1>a, <1>b, <1>c, <1>d, BackKeeps
<1>4. CASE /\ In(t, "trylock") /\ owner' = (IF owner = None THEN t ELSE owner)
           /\ Back(t, owner = None) /\ UNCHANGED <<readers, waiting, count>>
  <2>1. CASE owner = None
    <3>1. Back(t, TRUE) /\ owner' = t BY <1>4, <2>1 DEF Back, Free
    <3> QED BY <1>4, <2>1, <3>1, <1>2
  <2>2. CASE owner # None
    <3>1. Back(t, FALSE) /\ owner' = owner BY <1>4, <2>2 DEF Back
    <3> QED BY <1>4, <2>2, <3>1, <1>a, <1>b, <1>c, <1>d, BackKeeps
  <2> QED BY <2>1, <2>2
<1> QED BY <1>1, <1>2, <1>3, <1>4 DEF MutexLock, MutexUnlock, MutexTrylock

\* What LockInv says of a thread in a call of libuv.
LEMMA InLibuv ==
  ASSUME LockInv, NEW t \in Threads, at[t] = "libuv" \/ (at[t] = "asleep" /\ t \notin waiting)
  PROVE  /\ t \notin waiting
         /\ call[t] \in MutexCalls => readers = {}
         /\ call[t] \notin {"signal", "broadcast"} => knows[t] = "nothing"
         /\ \A u \in Threads : u # None
         /\ readers # {} => owner = None /\ program = "rwlock"
         /\ call[t] \in RWLockCalls => program = "rwlock"
         /\ In(t, "unlock") \/ In(t, "wrunlock") => owner = t
         /\ readers \subseteq Threads
BY ThreadAssumption DEF LockInv, TypeOK, ThreadInv, Locks, MutexCalls

\* The methods of RWLock for readers: nobody writes when they get it.
LEMMA ReadersKeep ==
  ASSUME LockInv, [Next]_vars, NEW t \in Threads, RdLock(t) \/ RdUnlock(t) \/ TryRdLock(t)
  PROVE  LockInv'
<1>1. CASE program = "rwlock" /\ (Enter(t, "rdlock", "nothing") \/ Enter(t, "rdunlock", "read") \/ Enter(t, "tryrdlock", "nothing"))
  BY <1>1, EnterKeeps DEF Methods, MutexCalls, RWLockCalls
<1>2. CASE /\ In(t, "rdlock") \/ In(t, "tryrdlock")
           /\ owner = None /\ readers' = readers \cup {t} /\ Back(t, TRUE) /\ UNCHANGED <<owner, waiting, count>>
  <2>1. program' = "rwlock"
    BY <1>2, InLibuv DEF In, RWLockCalls, Back
  <2> QED BY <1>2, <2>1, InLibuv, BackKeeps DEF In
<1>3. CASE In(t, "rdunlock") /\ readers' = readers \ {t} /\ Back(t, TRUE) /\ UNCHANGED <<owner, waiting, count>>
  <2>1. readers' # {} => owner' = None /\ program' = "rwlock"
    BY <1>3, InLibuv DEF In, RWLockCalls, Back
  <2> QED BY <1>3, <2>1, InLibuv, BackKeeps DEF In
<1>4. CASE /\ In(t, "tryrdlock") /\ readers' = (IF owner = None THEN readers \cup {t} ELSE readers)
           /\ Back(t, owner = None) /\ UNCHANGED <<owner, waiting, count>>
  <2>1. CASE owner = None
    <3>1. Back(t, TRUE) /\ readers' = readers \cup {t} BY <1>4, <2>1 DEF Back
    <3> QED BY <1>2, <1>4, <2>1, <3>1
  <2>2. CASE owner # None
    <3>1. Back(t, FALSE) /\ readers' = readers BY <1>4, <2>2 DEF Back
    <3>2. readers' = {} BY <2>2, <3>1 DEF LockInv
    <3> QED BY <1>4, <2>2, <3>1, <3>2, InLibuv, BackKeeps DEF In
  <2> QED BY <2>1, <2>2
<1> QED BY <1>1, <1>2, <1>3, <1>4 DEF RdLock, RdUnlock, TryRdLock

\* The methods of RWLock for writers: nobody reads when they get it.
LEMMA WritersKeep ==
  ASSUME LockInv, [Next]_vars, NEW t \in Threads, WrLock(t) \/ WrUnlock(t) \/ TryWrLock(t)
  PROVE  LockInv'
<1>1. CASE program = "rwlock" /\ (Enter(t, "wrlock", "nothing") \/ Enter(t, "wrunlock", "write") \/ Enter(t, "trywrlock", "nothing"))
  BY <1>1, EnterKeeps DEF Methods, MutexCalls, RWLockCalls
<1>2. CASE /\ In(t, "wrlock") \/ In(t, "trywrlock")
           /\ Free /\ owner' = t /\ Back(t, TRUE) /\ UNCHANGED <<readers, waiting, count>>
  BY <1>2, InLibuv, BackKeeps DEF In, Free
<1>3. CASE In(t, "wrunlock") /\ owner' = None /\ Back(t, TRUE) /\ UNCHANGED <<readers, waiting, count>>
  <2>1. readers' # {} => owner' = None /\ program' = "rwlock"
    BY <1>3, InLibuv DEF In, RWLockCalls, Back
  <2> QED BY <1>3, <2>1, InLibuv, BackKeeps DEF In
<1>4. CASE /\ In(t, "trywrlock") /\ owner' = (IF Free THEN t ELSE owner)
           /\ Back(t, Free) /\ UNCHANGED <<readers, waiting, count>>
  <2>1. CASE Free
    <3>1. Back(t, TRUE) /\ owner' = t BY <1>4, <2>1 DEF Back, Free
    <3> QED BY <1>2, <1>4, <2>1, <3>1
  <2>2. CASE ~Free
    <3>1. Back(t, FALSE) /\ owner' = owner BY <1>4, <2>2 DEF Back, Free
    <3>2. readers' # {} => owner' = None /\ program' = "rwlock"
      BY <1>4, <3>1, InLibuv DEF In, Back
    <3> QED BY <1>4, <3>1, <3>2, InLibuv, BackKeeps DEF In
  <2> QED BY <2>1, <2>2
<1> QED BY <1>1, <1>2, <1>3, <1>4 DEF WrLock, WrUnlock, TryWrLock

\* A thread falls asleep in a Condition: nobody else had the mutex.
LEMMA SleepKeeps ==
  ASSUME LockInv, [Next]_vars, NEW t \in Threads, NEW method \in {"wait", "timedwait"}, Sleep(t, method)
  PROVE  LockInv'
<1> USE DEF LockInv, TypeOK, Sleep
<1>1. program # "barrier" /\ readers = {}
  BY InLibuv DEF In, MutexCalls, ThreadInv, Locks
<1>2. ASSUME NEW u \in Threads PROVE ThreadInv(u)'
  <2>1. CASE u = t
    BY <2>1, <1>1 DEF ThreadInv, Claim, Told, In, Locks, MutexCalls, RWLockCalls
  <2>2. CASE u # t
    <3>1. UNCHANGED <<at[u], call[u], knows[u], result[u], readers, program>> /\ owner # u
      BY <2>2
    <3> QED BY <2>2, <3>1, <1>1 DEF ThreadInv, Claim, Told, In, Locks
  <2> QED BY <2>1, <2>2
<1> QED BY <1>1, <1>2, LockInvStep

\* The methods of Condition: wait() comes back with the mutex.
LEMMA ConditionKeeps ==
  ASSUME LockInv, [Next]_vars, NEW t \in Threads,
         Signal(t) \/ Broadcast(t) \/ ConditionWait(t) \/ ConditionTimedwait(t)
  PROVE  LockInv'
<1>1. ASSUME NEW method \in {"signal", "broadcast", "wait", "timedwait"}, NEW holds,
             program = "condition" /\ Enter(t, method, holds)
      PROVE LockInv'
  BY <1>1, EnterKeeps DEF Methods, MutexCalls, RWLockCalls, Locks
<1>2. CASE /\ In(t, "signal") \/ In(t, "broadcast")
           /\ Back(t, TRUE) /\ waiting' \subseteq waiting /\ UNCHANGED <<owner, readers, count>>
  <2>1. readers' # {} => owner' = None /\ program' = "rwlock"
    BY <1>2 DEF Back, LockInv
  <2> QED BY <1>2, <2>1, InLibuv, BackKeeps DEF In
<1>3. ASSUME NEW method \in {"wait", "timedwait"}, WakeUp(t, method) PROVE LockInv'
  <2> USE <1>3 DEF LockInv, WakeUp, Woken
  <2>1. ASSUME NEW u \in Threads PROVE ThreadInv(u)'
    BY DEF ThreadInv, Claim, Told, In, Locks
  <2> QED BY <2>1, LockInvStep
<1>4. ASSUME NEW method \in {"wait", "timedwait"}, Relock(t, method) PROVE LockInv'
  <2>1. /\ at[t] = "asleep" /\ call[t] = method /\ t \notin waiting /\ owner = None /\ owner' = t
        /\ UNCHANGED <<readers, waiting, count>>
    BY <1>4 DEF Relock
  <2>2. PICK r \in BOOLEAN : Back(t, r)
    BY <1>4 DEF Relock
  <2> QED BY <2>1, <2>2, InLibuv, BackKeeps DEF MutexCalls
<1>5. CASE Signal(t)
  BY <1>1, <1>2, <1>5 DEF Signal, Woken
<1>6. CASE Broadcast(t)
  BY <1>1, <1>2, <1>6 DEF Broadcast, Woken
<1>7. CASE ConditionWait(t)
  BY <1>1, <1>3, <1>4, <1>7, SleepKeeps DEF ConditionWait
<1>8. CASE ConditionTimedwait(t)
  BY <1>1, <1>3, <1>4, <1>8, SleepKeeps DEF ConditionTimedwait
<1> QED BY <1>5, <1>6, <1>7, <1>8

\* The methods of Semaphore touch no lock.
LEMMA SemaphoreKeeps ==
  ASSUME LockInv, [Next]_vars, NEW t \in Threads, SemaphorePost(t) \/ SemaphoreWait(t) \/ SemaphoreTrywait(t)
  PROVE  LockInv'
<1>1. ASSUME NEW method \in {"post", "sem wait", "sem trywait"}, NEW holds, Enter(t, method, holds)
      PROVE LockInv'
  BY <1>1, EnterKeeps DEF Methods, MutexCalls, RWLockCalls
<1>2. ASSUME NEW r \in BOOLEAN, In(t, "post") \/ In(t, "sem wait") \/ In(t, "sem trywait"), Back(t, r),
             UNCHANGED <<owner, readers, waiting>>
      PROVE LockInv'
  <2>1. readers' # {} => owner' = None /\ program' = "rwlock"
    BY <1>2 DEF Back, LockInv
  <2> QED BY <1>2, <2>1, InLibuv, BackKeeps DEF In
<1>3. CASE SemaphorePost(t)
  BY <1>1, <1>2, <1>3 DEF SemaphorePost
<1>4. CASE SemaphoreWait(t)
  BY <1>1, <1>2, <1>4 DEF SemaphoreWait
<1>5. CASE SemaphoreTrywait(t)
  BY <1>1, <1>2, <1>5 DEF SemaphoreTrywait
<1> QED BY <1>3, <1>4, <1>5

\* A party leaves a Barrier: nobody in it holds or claims a lock.
LEMMA BarrierKeeps ==
  ASSUME LockInv, [Next]_vars, NEW t \in Threads, BarrierWait(t)
  PROVE  LockInv'
<1>1. CASE program = "barrier" /\ Enter(t, "barrier wait", "nothing")
  BY <1>1, EnterKeeps DEF Methods, MutexCalls, RWLockCalls
<1>2. CASE /\ In(t, "barrier wait") /\ waiting' = waiting \cup {t} /\ at' = [at EXCEPT ![t] = "asleep"]
           /\ UNCHANGED <<program, made, gil, call, result, knows, owner, readers, count>>
  <2> USE <1>2 DEF LockInv, TypeOK
  <2>1. ASSUME NEW u \in Threads PROVE ThreadInv(u)'
    BY DEF ThreadInv, Claim, Told, In, Locks, MutexCalls, RWLockCalls
  <2> QED BY <2>1, LockInvStep
<1>3. CASE /\ In(t, "barrier wait") /\ waiting' = {}
           /\ at' = [u \in Threads |-> IF u \in waiting \cup {t} THEN "back" ELSE at[u]]
           /\ \E serial \in waiting \cup {t} :
                result' = [u \in Threads |-> IF u \in waiting \cup {t} THEN u = serial ELSE result[u]]
           /\ UNCHANGED <<program, made, gil, call, knows, owner, readers, count>>
  <2> USE <1>3 DEF LockInv, TypeOK
  <2>1. program = "barrier" /\ \A u \in waiting \cup {t} : call[u] = "barrier wait"
    BY DEF ThreadInv, In
  <2>2. ASSUME NEW u \in Threads PROVE ThreadInv(u)'
    <3>1. CASE u \in waiting \cup {t}
      <4>1. call'[u] = "barrier wait" /\ at'[u] = "back" /\ knows'[u] = "nothing"
        BY <2>1, <3>1 DEF ThreadInv, In
      <4> QED BY <2>1, <4>1 DEF ThreadInv, Claim, Told, In, MutexCalls, RWLockCalls
    <3>2. CASE u \notin waiting \cup {t}
      <4>1. UNCHANGED <<at[u], call[u], knows[u], result[u], owner, readers, program>> /\ u \notin waiting'
        BY <3>2
      <4> QED BY <4>1 DEF ThreadInv, Claim, Told, In, Locks
    <3> QED BY <3>1, <3>2
  <2> QED BY <2>2, LockInvStep
<1> QED BY <1>1, <1>2, <1>3 DEF BarrierWait

\* LockInv is an invariant of src/thread.c as modelled.
LEMMA LockInvHolds == Spec => []LockInv
<1>1. Init => LockInv
  BY ThreadAssumption DEF Init, LockInv, TypeOK, Methods, ThreadInv, Claim, Told, In, MutexCalls, RWLockCalls
<1>2. LockInv /\ [Next]_vars => LockInv'
  <2> SUFFICES ASSUME LockInv, [Next]_vars PROVE LockInv'
    OBVIOUS
  <2>1. CASE UNCHANGED vars
    BY <2>1 DEF vars, LockInv, TypeOK, ThreadInv, Claim, Told, In, Locks
  <2>2. CASE Next
    BY <2>2, PythonKeeps, MutexKeeps, ReadersKeep, WritersKeep, ConditionKeeps, SemaphoreKeeps, BarrierKeeps DEF Next
  <2> QED BY <2>1, <2>2
<1> QED BY <1>1, <1>2, PTL DEF Spec

\* Mutex, RWLock and Condition of src/thread.c: for any number of threads and
\* however the interpreter lock goes round, what Python was told it holds it
\* holds, and alone.
THEOREM LocksExclude == Spec => []ToldTruth
<1>1. LockInv => ToldTruth
  BY ThreadAssumption DEF ToldTruth, LockInv, ThreadInv, Exclusion, TypeOK
<1> QED BY <1>1, LockInvHolds, PTL

-----------------------------------------------------------------------------
(* Nobody is forgotten.  A permit is given by the call of libuv and known   *)
(* to Python later, so the thread that has it is one that knows of it, is   *)
(* going to be told of it, or is giving it back.  Neither Threads nor the   *)
(* threads with a permit need be few: each step moves one permit at most.   *)

Holds(t) == knows[t] = "permit" \/ In(t, "post") \/ (at[t] = "back" /\ Told(t) = "permit")

Holders == {t \in Threads : Holds(t)}

Accounted ==
  /\ program = "semaphore" => IsFiniteSet(Holders) /\ count + Cardinality(Holders) = Permits
  /\ IsFiniteSet(waiting) /\ PartyComplete

\* The step leaves the threads apart from t where they were.
Alone(t) ==
  \A u \in Threads \ {t} : UNCHANGED <<at[u], call[u], result[u], knows[u]>>

\* Whether a thread has a permit depends on nothing but that thread.
LEMMA AloneHolds ==
  ASSUME NEW t \in Threads, Alone(t), NEW u \in Threads \ {t}
  PROVE  Holds(u)' <=> Holds(u)
BY DEF Alone, Holds, In, Told

\* A step of t that moves no permit, or one between t and the semaphore.
Moves(t) ==
  /\ Alone(t) /\ program' = program
  /\ \/ (Holds(t)' <=> Holds(t)) /\ count' = count
     \/ Holds(t) /\ ~Holds(t)' /\ count' = count + 1
     \/ ~Holds(t) /\ Holds(t)' /\ count > 0 /\ count' = count - 1

\* Python goes on, and learns of what it has been given.
LEMMA PythonMoves ==
  ASSUME LockInv, NEW t \in Threads, Resume(t) \/ Switch(t) \/ Finish(t) \/ Make(t)
  PROVE  Moves(t)
<1>0. ThreadInv(t) /\ TypeOK
  BY DEF LockInv
<1>1. Alone(t) /\ program' = program /\ count' = count
  BY <1>0 DEF Alone, TypeOK, Resume, Switch, Finish, Make, primitive
<1>2. CASE Resume(t)
  <2>1. /\ at'[t] = "python" /\ call'[t] = "none" /\ knows'[t] = Told(t)
        /\ at[t] \in {"python", "back"}
    BY <1>0, <1>2 DEF Resume, TypeOK
  <2>2. at[t] = "python" => Told(t) = knows[t]
    BY <1>0 DEF ThreadInv, Told
  <2>3. knows[t] = "permit" => Told(t) = "permit"
    BY <1>0, <2>1, <2>2 DEF ThreadInv, Told
  <2>4. Holds(t)' <=> Told(t) = "permit"
    BY <2>1 DEF Holds, In
  <2>5. Holds(t) <=> Told(t) = "permit"
    BY <2>1, <2>2, <2>3 DEF Holds, In
  <2> QED BY <1>1, <2>4, <2>5 DEF Moves
<1>3. CASE Switch(t) \/ Make(t)
  <2>1. UNCHANGED <<at, call, result, knows>>
    BY <1>3 DEF Switch, Make
  <2> QED BY <1>1, <2>1 DEF Moves, Holds, In, Told
<1>4. CASE Finish(t)
  <2>1. /\ at[t] = "python" /\ at'[t] = "ended" /\ knows[t] = "nothing" /\ knows'[t] = "nothing"
    BY <1>0, <1>4 DEF Finish, Running, TypeOK
  <2> QED BY <1>1, <2>1 DEF Moves, Holds, In
<1> QED BY <1>2, <1>3, <1>4

\* A method begins: with a permit only post().
LEMMA EnterMoves ==
  ASSUME LockInv, NEW t \in Threads, NEW method \in Methods, NEW holds, Enter(t, method, holds),
         (holds = "permit") <=> (method = "post")
  PROVE  Moves(t)
<1>0. ThreadInv(t) /\ TypeOK
  BY DEF LockInv
<1>1. Alone(t) /\ program' = program /\ count' = count
  BY <1>0 DEF Alone, TypeOK, Enter, primitive
<1>2. /\ at[t] = "python" /\ knows[t] = holds /\ at'[t] = "libuv" /\ call'[t] = method
      /\ knows'[t] = IF method \in {"signal", "broadcast"} THEN holds ELSE "nothing"
  BY <1>0 DEF Enter, Running, TypeOK
<1>3. Holds(t) <=> holds = "permit"
  BY <1>2 DEF Holds, In
<1>4. Holds(t)' <=> method = "post"
  BY <1>2 DEF Holds, In
<1> QED BY <1>1, <1>3, <1>4 DEF Moves

\* A call of libuv that is about no permit ends.
LEMMA BackMoves ==
  ASSUME LockInv, NEW t \in Threads, NEW r \in BOOLEAN, Back(t, r), at[t] \in {"libuv", "asleep"},
         call[t] \notin {"post", "sem wait", "sem trywait"}, count' = count
  PROVE  Moves(t)
<1>0. ThreadInv(t) /\ TypeOK
  BY DEF LockInv
<1>1. Alone(t) /\ program' = program
  BY <1>0 DEF Alone, TypeOK, Back
<1>2. at'[t] = "back" /\ call'[t] = call[t] /\ knows'[t] = knows[t]
  BY <1>0 DEF Back, TypeOK
<1>3. Holds(t) <=> knows[t] = "permit"
  BY DEF Holds, In
<1>4. knows[t] = "permit" => call[t] \in {"signal", "broadcast"}
  BY <1>0 DEF ThreadInv
<1>5. Told(t)' = "permit" <=> knows[t] = "permit"
  BY <1>2, <1>4 DEF Told
<1>6. Holds(t)' <=> knows[t] = "permit"
  BY <1>2, <1>5 DEF Holds, In
<1> QED BY <1>1, <1>3, <1>6 DEF Moves

\* A call of libuv that is about a permit ends.
LEMMA PermitMoves ==
  ASSUME LockInv, NEW t \in Threads, NEW r \in BOOLEAN, Back(t, r),
         \/ In(t, "post") /\ count' = count + 1
         \/ (In(t, "sem wait") \/ In(t, "sem trywait")) /\ r /\ count > 0 /\ count' = count - 1
         \/ In(t, "sem trywait") /\ ~r /\ count' = count
  PROVE  Moves(t)
<1>0. ThreadInv(t) /\ TypeOK
  BY DEF LockInv
<1>1. Alone(t) /\ program' = program
  BY <1>0 DEF Alone, TypeOK, Back
<1>2. /\ at'[t] = "back" /\ call'[t] = call[t] /\ knows'[t] = "nothing" /\ result'[t] = r
      /\ at[t] = "libuv" /\ knows[t] = "nothing"
  BY <1>0 DEF Back, TypeOK, In, ThreadInv
<1>3. Holds(t) <=> In(t, "post")
  BY <1>2 DEF Holds
<1>4. Holds(t)' <=> call[t] \in {"sem wait", "sem trywait"} /\ r
  BY <1>2 DEF Holds, In, Told
<1> QED BY <1>1, <1>3, <1>4 DEF Moves, In

\* The steps of all methods but a Barrier's.
LEMMA MethodsMove ==
  ASSUME LockInv, NEW t \in Threads,
         \/ MutexLock(t) \/ MutexUnlock(t) \/ MutexTrylock(t)
         \/ RdLock(t) \/ RdUnlock(t) \/ TryRdLock(t) \/ WrLock(t) \/ WrUnlock(t) \/ TryWrLock(t)
         \/ Signal(t) \/ Broadcast(t) \/ ConditionWait(t) \/ ConditionTimedwait(t)
         \/ SemaphorePost(t) \/ SemaphoreWait(t) \/ SemaphoreTrywait(t)
  PROVE  Moves(t)
<1>1. ASSUME NEW method \in Methods, NEW holds, Enter(t, method, holds),
             (holds = "permit") <=> (method = "post")
      PROVE  Moves(t)
  BY <1>1, EnterMoves
<1>2. ASSUME NEW r \in BOOLEAN, Back(t, r), at[t] \in {"libuv", "asleep"},
             call[t] \notin {"post", "sem wait", "sem trywait"}, count' = count
      PROVE  Moves(t)
  BY <1>2, BackMoves
<1>3. CASE MutexLock(t) \/ MutexUnlock(t) \/ MutexTrylock(t)
  BY <1>1, <1>2, <1>3 DEF MutexLock, MutexUnlock, MutexTrylock, Methods, In
<1>4. CASE RdLock(t) \/ RdUnlock(t) \/ TryRdLock(t)
  BY <1>1, <1>2, <1>4 DEF RdLock, RdUnlock, TryRdLock, Methods, In
<1>5. CASE WrLock(t) \/ WrUnlock(t) \/ TryWrLock(t)
  <2>1. Free \in BOOLEAN
    BY DEF Free
  <2> QED BY <1>1, <1>2, <1>5, <2>1 DEF WrLock, WrUnlock, TryWrLock, Methods, In
<1>6. CASE Signal(t) \/ Broadcast(t)
  BY <1>1, <1>2, <1>6 DEF Signal, Broadcast, Methods, In
<1>7. ASSUME NEW method \in {"wait", "timedwait"},
             Sleep(t, method) \/ WakeUp(t, method) \/ Relock(t, method)
      PROVE  Moves(t)
  <2>0. TypeOK
    BY DEF LockInv
  <2>1. CASE Sleep(t, method)
    <3>1. Alone(t) /\ program' = program /\ count' = count
      BY <2>0, <2>1 DEF Alone, TypeOK, Sleep
    <3>2. at[t] = "libuv" /\ at'[t] = "asleep" /\ call[t] = method /\ call'[t] = method /\ knows'[t] = knows[t]
      BY <2>0, <2>1 DEF TypeOK, Sleep, In
    <3> QED BY <3>1, <3>2 DEF Moves, Holds, In
  <2>2. CASE WakeUp(t, method)
    <3>1. UNCHANGED <<program, at, call, result, knows, count>>
      BY <2>2 DEF WakeUp
    <3> QED BY <3>1 DEF Moves, Alone, Holds, In, Told
  <2>3. CASE Relock(t, method)
    <3>1. at[t] = "asleep" /\ call[t] = method /\ count' = count
      BY <2>3 DEF Relock
    <3>2. PICK r \in BOOLEAN : Back(t, r)
      BY <2>3 DEF Relock
    <3> QED BY <1>2, <3>1, <3>2
  <2> QED BY <1>7, <2>1, <2>2, <2>3
<1>8. CASE ConditionWait(t) \/ ConditionTimedwait(t)
  BY <1>1, <1>7, <1>8 DEF ConditionWait, ConditionTimedwait, Methods
<1>9. CASE SemaphorePost(t) \/ SemaphoreWait(t) \/ SemaphoreTrywait(t)
  BY <1>1, <1>9, PermitMoves DEF SemaphorePost, SemaphoreWait, SemaphoreTrywait, Methods
<1> QED BY <1>3, <1>4, <1>5, <1>6, <1>8, <1>9

\* What a semaphore has and what is with the threads add up after such a step.
LEMMA PermitsStep ==
  ASSUME LockInv, Accounted, NEW t \in Threads, Moves(t), program = "semaphore"
  PROVE  IsFiniteSet(Holders') /\ count' + Cardinality(Holders') = Permits
<1>1. /\ IsFiniteSet(Holders) /\ count + Cardinality(Holders) = Permits
      /\ count \in Nat /\ Cardinality(Holders) \in Nat /\ Permits \in Nat
  BY FS_CardinalityType, ThreadAssumption DEF Accounted, LockInv, TypeOK
<1>2. \A u \in Threads \ {t} : u \in Holders' <=> u \in Holders
  BY AloneHolds DEF Moves, Holders
<1>3. (t \in Holders <=> Holds(t)) /\ (t \in Holders' <=> Holds(t)')
      /\ Holders \subseteq Threads /\ Holders' \subseteq Threads
  BY DEF Holders
<1>4. CASE (Holds(t)' <=> Holds(t)) /\ count' = count
  <2>1. Holders' = Holders
    BY <1>2, <1>3, <1>4
  <2> QED BY <1>1, <1>4, <2>1
<1>5. CASE Holds(t) /\ ~Holds(t)' /\ count' = count + 1
  <2>1. Holders' = Holders \ {t} /\ t \in Holders
    BY <1>2, <1>3, <1>5
  <2>2. IsFiniteSet(Holders') /\ Cardinality(Holders') = Cardinality(Holders) - 1
    BY <1>1, <2>1, FS_RemoveElement
  <2> QED BY <1>1, <1>5, <2>2
<1>6. CASE ~Holds(t) /\ Holds(t)' /\ count > 0 /\ count' = count - 1
  <2>1. Holders' = Holders \cup {t} /\ t \notin Holders
    BY <1>2, <1>3, <1>6
  <2>2. IsFiniteSet(Holders') /\ Cardinality(Holders') = Cardinality(Holders) + 1
    BY <1>1, <2>1, FS_AddElement
  <2> QED BY <1>1, <1>6, <2>2
<1> QED BY <1>4, <1>5, <1>6 DEF Moves

\* Threads fall asleep one by one, and in a Barrier only while the party is not
\* complete.
LEMMA SleepersStep ==
  ASSUME LockInv, Accounted, [Next]_vars
  PROVE  IsFiniteSet(waiting') /\ PartyComplete'
<1>1. /\ IsFiniteSet(waiting) /\ Cardinality(waiting) \in Nat /\ Party \in Nat /\ Party > 0
      /\ program = "barrier" => Cardinality(waiting) < Party
  BY FS_CardinalityType, ThreadAssumption DEF Accounted, PartyComplete
<1>2. ASSUME waiting' \subseteq waiting, program' = program PROVE IsFiniteSet(waiting') /\ PartyComplete'
  <2>1. IsFiniteSet(waiting') /\ Cardinality(waiting') <= Cardinality(waiting) /\ Cardinality(waiting') \in Nat
    BY <1>1, <1>2, FS_Subset, FS_CardinalityType
  <2> QED BY <1>1, <1>2, <2>1 DEF PartyComplete
<1>3. ASSUME NEW t \in Threads, waiting' = waiting \cup {t}, program' = program,
             program = "barrier" => Cardinality(waiting) + 1 < Party
      PROVE  IsFiniteSet(waiting') /\ PartyComplete'
  <2>1. /\ IsFiniteSet(waiting') /\ Cardinality(waiting') <= Cardinality(waiting) + 1
        /\ Cardinality(waiting') \in Nat
    <3>1. CASE t \in waiting
      <4>1. waiting' = waiting
        BY <1>3, <3>1
      <4> QED BY <1>1, <4>1
    <3>2. CASE t \notin waiting
      <4>1. IsFiniteSet(waiting') /\ Cardinality(waiting') = Cardinality(waiting) + 1
        BY <1>1, <1>3, <3>2, FS_AddElement
      <4> QED BY <1>1, <4>1
    <3> QED BY <3>1, <3>2
  <2> QED BY <1>1, <1>3, <2>1 DEF PartyComplete
<1>4. CASE UNCHANGED vars
  BY <1>2, <1>4 DEF vars
<1>5. ASSUME NEW t \in Threads,
             \/ Resume(t) \/ Switch(t) \/ Finish(t) \/ Make(t)
             \/ MutexLock(t) \/ MutexUnlock(t) \/ MutexTrylock(t)
             \/ RdLock(t) \/ RdUnlock(t) \/ TryRdLock(t) \/ WrLock(t) \/ WrUnlock(t) \/ TryWrLock(t)
             \/ SemaphorePost(t) \/ SemaphoreWait(t) \/ SemaphoreTrywait(t)
      PROVE  IsFiniteSet(waiting') /\ PartyComplete'
  <2>1. waiting' = waiting /\ program' = program
    BY <1>5 DEF Resume, Switch, Finish, Make, primitive, Enter, Back, MutexLock, MutexUnlock, MutexTrylock,
       RdLock, RdUnlock, TryRdLock, WrLock, WrUnlock, TryWrLock, SemaphorePost, SemaphoreWait, SemaphoreTrywait
  <2> QED BY <1>2, <2>1
<1>6. ASSUME NEW t \in Threads, Signal(t) \/ Broadcast(t)
      PROVE  IsFiniteSet(waiting') /\ PartyComplete'
  <2>1. waiting' \subseteq waiting /\ program' = program
    BY <1>6 DEF Signal, Broadcast, Woken, Enter, Back, primitive
  <2> QED BY <1>2, <2>1
<1>7. ASSUME NEW t \in Threads, ConditionWait(t) \/ ConditionTimedwait(t)
      PROVE  IsFiniteSet(waiting') /\ PartyComplete'
  <2>1. CASE \E method \in {"wait", "timedwait"} : Sleep(t, method)
    <3>1. waiting' = waiting \cup {t} /\ program' = program /\ call[t] \in {"wait", "timedwait"}
      BY <2>1 DEF Sleep, In
    <3>2. program # "barrier"
      BY <3>1 DEF LockInv, ThreadInv, MutexCalls, Locks
    <3> QED BY <1>3, <3>1, <3>2
  <2>2. CASE ~\E method \in {"wait", "timedwait"} : Sleep(t, method)
    <3>1. waiting' \subseteq waiting /\ program' = program
      BY <1>7, <2>2 DEF ConditionWait, ConditionTimedwait, WakeUp, Relock, Woken, Enter, Back, primitive
    <3> QED BY <1>2, <3>1
  <2> QED BY <2>1, <2>2
<1>8. ASSUME NEW t \in Threads, BarrierWait(t)
      PROVE  IsFiniteSet(waiting') /\ PartyComplete'
  <2>1. CASE waiting' = waiting \cup {t} /\ Cardinality(waiting) + 1 < Party /\ program' = program
    BY <1>3, <2>1
  <2>2. CASE waiting' \subseteq waiting /\ program' = program
    BY <1>2, <2>2
  <2>3. \/ waiting' = waiting \cup {t} /\ Cardinality(waiting) + 1 < Party /\ program' = program
        \/ waiting' \subseteq waiting /\ program' = program
    BY <1>8 DEF BarrierWait, Enter, primitive
  <2> QED BY <2>1, <2>2, <2>3
<1> QED BY <1>4, <1>5, <1>6, <1>7, <1>8 DEF Next

\* Every step keeps permits and parties accounted for.
LEMMA AccountedStep == LockInv /\ Accounted /\ [Next]_vars => Accounted'
<1> SUFFICES ASSUME LockInv, Accounted, [Next]_vars PROVE Accounted'
  OBVIOUS
<1>1. IsFiniteSet(waiting') /\ PartyComplete'
  BY SleepersStep
<1>2. ASSUME program' = "semaphore"
      PROVE  IsFiniteSet(Holders') /\ count' + Cardinality(Holders') = Permits
  <2>1. CASE UNCHANGED vars
    <3>1. UNCHANGED <<program, count, at, call, result, knows>>
      BY <2>1 DEF vars
    <3>2. Holders' = Holders
      BY <3>1 DEF Holders, Holds, In, Told
    <3> QED BY <1>2, <3>1, <3>2 DEF Accounted
  <2>2. ASSUME NEW t \in Threads, Moves(t)
        PROVE  IsFiniteSet(Holders') /\ count' + Cardinality(Holders') = Permits
    BY <1>2, <2>2, PermitsStep DEF Moves
  <2>3. ASSUME NEW t \in Threads, BarrierWait(t) PROVE FALSE
    <3>1. program = "semaphore"
      BY <1>2, <2>3 DEF BarrierWait, Enter
    <3> QED BY <2>3, <3>1 DEF BarrierWait, In, LockInv, ThreadInv
  <2> QED BY <2>1, <2>2, <2>3, PythonMoves, MethodsMove DEF Next
<1> QED BY <1>1, <1>2 DEF Accounted

\* However post(), wait() and trywait() of a Semaphore overlap no permit is lost
\* or made, and no thread of a complete party stays asleep in a Barrier, for any
\* threads, any value the Semaphore starts with and any party.
THEOREM NobodyLeft == Spec => []NobodyForgotten
<1>1. Init => Accounted
  <2> SUFFICES ASSUME Init PROVE Accounted
    OBVIOUS
  <2>1. Holders = {} /\ waiting = {} /\ count = Permits
    BY DEF Init, Holders, Holds, In
  <2>2. IsFiniteSet({}) /\ Cardinality({}) = 0
    BY FS_EmptySet
  <2> QED BY <2>1, <2>2, ThreadAssumption DEF Accounted, PartyComplete
<1>2. Accounted => NobodyForgotten
  BY DEF Accounted, NobodyForgotten, PermitsExact, Holders, Holds
<1> QED BY <1>1, <1>2, AccountedStep, LockInvHolds, PTL DEF Spec

=============================================================================
