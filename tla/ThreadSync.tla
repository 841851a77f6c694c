------------------------------ MODULE ThreadSync ------------------------------
(***************************************************************************)
(* pyuv.thread (src/thread.c): Barrier, Mutex, RWLock, Condition and       *)
(* Semaphore, used by the threads of one Python program.  A method runs    *)
(* with the interpreter lock, gives it up for the call of libuv            *)
(* (Py_BEGIN_ALLOW_THREADS), and takes it again before it returns: three   *)
(* steps, and the primitive changes in the second.                         *)
(*                                                                         *)
(* The program is one that POSIX gives a meaning: a lock is not taken      *)
(* again by its holder, nor released by another thread, and somebody is    *)
(* left to wake the threads that wait.                                     *)
(*                                                                         *)
(* An operator named Wrong... is the definition after it with a plausible  *)
(* mistake; no action uses it.                                             *)
(***************************************************************************)
EXTENDS Naturals, FiniteSets

CONSTANTS
  Threads,   \* the threads of the program
  None,      \* no thread
  Programs,  \* the primitives a program may use, out of AllPrograms
  Permits,   \* the value a Semaphore starts with
  Party      \* the number of threads a Barrier is for

AllPrograms == {"barrier", "mutex", "rwlock", "condition", "semaphore"}

ASSUME ThreadAssumption ==
  /\ None \notin Threads /\ Programs \subseteq AllPrograms
  /\ Permits \in Nat /\ Party \in Nat \ {0}

VARIABLES
  program,  \* the primitive this program uses
  made,     \* it has been initialized
  gil,      \* the thread that has the interpreter lock
  at,       \* each thread: in Python, in a call of libuv, or at its end
  call,     \* the method each thread is in
  result,   \* what libuv's call returned to each thread
  knows,    \* what Python code of each thread holds, by what it was told
  owner,    \* the thread that has the mutex, or the lock for writing
  readers,  \* the threads that have the lock for reading
  waiting,  \* the threads asleep in the condition or the barrier
  count     \* of the semaphore

vars == <<program, made, gil, at, call, result, knows, owner, readers, waiting, count>>

Methods == {"none", "barrier wait", "lock", "unlock", "trylock", "rdlock", "rdunlock", "tryrdlock",
            "wrlock", "wrunlock", "trywrlock", "signal", "broadcast", "wait", "timedwait",
            "post", "sem wait", "sem trywait"}

Init ==
  /\ program \in Programs /\ made = FALSE /\ gil = None
  /\ at = [t \in Threads |-> "python"] /\ call = [t \in Threads |-> "none"]
  /\ result = [t \in Threads |-> FALSE] /\ knows = [t \in Threads |-> "nothing"]
  /\ owner = None /\ readers = {} /\ waiting = {} /\ count = Permits

primitive == <<owner, readers, waiting, count>>

-----------------------------------------------------------------------------
(* The interpreter lock.                                                   *)

\* What the method a thread is in has got for it: Py_RETURN_NONE says it was
\* locked, True from trylock() does, and wait() always returns with the mutex.
Told(t) ==
  IF call[t] \in {"wait", "timedwait"} THEN "mutex"
  ELSE IF ~result[t] THEN knows[t]
  ELSE IF call[t] \in {"lock", "trylock"} THEN "mutex"
  ELSE IF call[t] \in {"rdlock", "tryrdlock"} THEN "read"
  ELSE IF call[t] \in {"wrlock", "trywrlock"} THEN "write"
  ELSE IF call[t] \in {"sem wait", "sem trywait"} THEN "permit"
  ELSE knows[t]

\* A thread that runs Python, or is back from libuv, gets the lock: only then
\* does the program know what the method did (Py_END_ALLOW_THREADS).
Resume(t) ==
  /\ at[t] \in {"python", "back"} /\ (gil = None \/ (gil = t /\ at[t] = "back"))
  /\ gil' = t
  /\ at' = [at EXCEPT ![t] = "python"] /\ call' = [call EXCEPT ![t] = "none"]
  /\ knows' = [knows EXCEPT ![t] = Told(t)]
  /\ UNCHANGED <<program, made, result, primitive>>

\* The interpreter switches threads.
Switch(t) ==
  /\ gil = t /\ at[t] = "python"
  /\ gil' = None
  /\ UNCHANGED <<program, made, at, call, result, knows, primitive>>

Running(t) == gil = t /\ at[t] = "python"

\* The lock is kept for the call.
WrongAllowThreads(t) == gil' = gil

\* Py_BEGIN_ALLOW_THREADS
AllowThreads(t) == gil' = None

\* The thread's function returns, with nothing held; while others are in a wait
\* that only a thread ends, there is one left to end it.
Left == {t \in Threads : at[t] # "ended"}
InWait == {t \in Threads : call[t] \in {"wait", "barrier wait"}}

Finish(t) ==
  /\ Running(t) /\ knows[t] = "nothing"
  /\ program = "condition" => InWait = {} \/ Left \ InWait # {t}
  /\ program = "barrier" => InWait = {} \/ Cardinality(Left) > Party
  /\ gil' = None /\ at' = [at EXCEPT ![t] = "ended"]
  /\ UNCHANGED <<program, made, call, result, knows, primitive>>

\* A method begins; one that releases something, or waits, takes it from Python.
Enter(t, method, holds) ==
  /\ Running(t) /\ made /\ knows[t] = holds
  /\ AllowThreads(t)
  /\ at' = [at EXCEPT ![t] = "libuv"] /\ call' = [call EXCEPT ![t] = method]
  /\ knows' = [knows EXCEPT ![t] = IF method \in {"signal", "broadcast"} THEN holds ELSE "nothing"]
  /\ UNCHANGED <<program, made, result, primitive>>

\* The call of libuv ends.
Back(t, r) ==
  /\ at' = [at EXCEPT ![t] = "back"] /\ result' = [result EXCEPT ![t] = r]
  /\ UNCHANGED <<program, made, gil, call, knows>>

In(t, method) == at[t] = "libuv" /\ call[t] = method

\* X_tp_new and X_tp_init; until then, and when called again, methods raise.
Make(t) ==
  /\ Running(t) /\ ~made
  /\ made' = TRUE
  /\ UNCHANGED <<program, gil, at, call, result, knows, primitive>>

-----------------------------------------------------------------------------
(* Mutex.                                                                  *)

Locks == program \in {"mutex", "condition"}

MutexLock(t) ==
  \/ Locks /\ Enter(t, "lock", "nothing")
  \/ /\ In(t, "lock") /\ owner = None
     /\ owner' = t /\ Back(t, TRUE)
     /\ UNCHANGED <<readers, waiting, count>>

MutexUnlock(t) ==
  \/ Locks /\ Enter(t, "unlock", "mutex")
  \/ /\ In(t, "unlock")
     /\ owner' = None /\ Back(t, TRUE)
     /\ UNCHANGED <<readers, waiting, count>>

\* True when libuv's result is not 0.
WrongMutexTrylock(t) ==
  \/ Locks /\ Enter(t, "trylock", "nothing")
  \/ /\ In(t, "trylock")
     /\ owner' = (IF owner = None THEN t ELSE owner) /\ Back(t, owner # None)
     /\ UNCHANGED <<readers, waiting, count>>

MutexTrylock(t) ==
  \/ Locks /\ Enter(t, "trylock", "nothing")
  \/ /\ In(t, "trylock")
     /\ owner' = (IF owner = None THEN t ELSE owner) /\ Back(t, owner = None)
     /\ UNCHANGED <<readers, waiting, count>>

-----------------------------------------------------------------------------
(* RWLock.                                                                 *)

RdLock(t) ==
  \/ program = "rwlock" /\ Enter(t, "rdlock", "nothing")
  \/ /\ In(t, "rdlock") /\ owner = None
     /\ readers' = readers \cup {t} /\ Back(t, TRUE)
     /\ UNCHANGED <<owner, waiting, count>>

RdUnlock(t) ==
  \/ program = "rwlock" /\ Enter(t, "rdunlock", "read")
  \/ /\ In(t, "rdunlock")
     /\ readers' = readers \ {t} /\ Back(t, TRUE)
     /\ UNCHANGED <<owner, waiting, count>>

TryRdLock(t) ==
  \/ program = "rwlock" /\ Enter(t, "tryrdlock", "nothing")
  \/ /\ In(t, "tryrdlock")
     /\ readers' = (IF owner = None THEN readers \cup {t} ELSE readers) /\ Back(t, owner = None)
     /\ UNCHANGED <<owner, waiting, count>>

Free == owner = None /\ readers = {}

WrLock(t) ==
  \/ program = "rwlock" /\ Enter(t, "wrlock", "nothing")
  \/ /\ In(t, "wrlock") /\ Free
     /\ owner' = t /\ Back(t, TRUE)
     /\ UNCHANGED <<readers, waiting, count>>

WrUnlock(t) ==
  \/ program = "rwlock" /\ Enter(t, "wrunlock", "write")
  \/ /\ In(t, "wrunlock")
     /\ owner' = None /\ Back(t, TRUE)
     /\ UNCHANGED <<readers, waiting, count>>

TryWrLock(t) ==
  \/ program = "rwlock" /\ Enter(t, "trywrlock", "nothing")
  \/ /\ In(t, "trywrlock")
     /\ owner' = (IF Free THEN t ELSE owner) /\ Back(t, Free)
     /\ UNCHANGED <<readers, waiting, count>>

-----------------------------------------------------------------------------
(* Condition, with a Mutex.                                                *)

\* The threads a call wakes, or that wake for no reason, want the mutex again.
Woken(ts) == waiting' = waiting \ ts

Signal(t) ==
  \/ program = "condition" /\ \E holds \in {"nothing", "mutex"} : Enter(t, "signal", holds)
  \/ /\ In(t, "signal") /\ Back(t, TRUE)
     /\ IF waiting = {} THEN UNCHANGED waiting ELSE \E w \in waiting : Woken({w})
     /\ UNCHANGED <<owner, readers, count>>

Broadcast(t) ==
  \/ program = "condition" /\ \E holds \in {"nothing", "mutex"} : Enter(t, "broadcast", holds)
  \/ In(t, "broadcast") /\ Back(t, TRUE) /\ Woken(waiting) /\ UNCHANGED <<owner, readers, count>>

\* Asleep without the mutex; awake, alone if spurious, and with the mutex again.
Sleep(t, method) ==
  /\ In(t, method) /\ owner = t
  /\ owner' = None /\ waiting' = waiting \cup {t}
  /\ at' = [at EXCEPT ![t] = "asleep"]
  /\ UNCHANGED <<program, made, gil, call, result, knows, readers, count>>

WakeUp(t, method) ==
  /\ at[t] = "asleep" /\ call[t] = method /\ t \in waiting
  /\ Woken({t})
  /\ UNCHANGED <<program, made, gil, at, call, result, knows, owner, readers, count>>

Relock(t, method) ==
  /\ at[t] = "asleep" /\ call[t] = method /\ t \notin waiting /\ owner = None
  /\ owner' = t
  /\ \E r \in IF method = "wait" THEN {TRUE} ELSE BOOLEAN : Back(t, r)
  /\ UNCHANGED <<readers, waiting, count>>

\* Neither wait() nor timedwait() asks whether the Mutex it is given has been
\* initialized, as every other method does of its own object; here it has.
ConditionWait(t) ==
  \/ program = "condition" /\ Left \ InWait # {t} /\ Enter(t, "wait", "mutex")
  \/ Sleep(t, "wait") \/ WakeUp(t, "wait") \/ Relock(t, "wait")

\* WakeUp stands for the timeout, too.
ConditionTimedwait(t) ==
  \/ program = "condition" /\ Enter(t, "timedwait", "mutex")
  \/ Sleep(t, "timedwait") \/ WakeUp(t, "timedwait") \/ Relock(t, "timedwait")

-----------------------------------------------------------------------------
(* Semaphore and Barrier.                                                  *)

SemaphorePost(t) ==
  \/ program = "semaphore" /\ Enter(t, "post", "permit")
  \/ In(t, "post") /\ count' = count + 1 /\ Back(t, TRUE) /\ UNCHANGED <<owner, readers, waiting>>

SemaphoreWait(t) ==
  \/ program = "semaphore" /\ Enter(t, "sem wait", "nothing")
  \/ In(t, "sem wait") /\ count > 0 /\ count' = count - 1 /\ Back(t, TRUE) /\ UNCHANGED <<owner, readers, waiting>>

\* The answer is taken the wrong way round.
WrongSemaphoreTrywait(t) ==
  \/ program = "semaphore" /\ Enter(t, "sem trywait", "nothing")
  \/ In(t, "sem trywait") /\ count > 0 /\ count' = count - 1 /\ Back(t, FALSE) /\ UNCHANGED <<owner, readers, waiting>>
  \/ In(t, "sem trywait") /\ count = 0 /\ Back(t, TRUE) /\ UNCHANGED <<owner, readers, waiting, count>>

SemaphoreTrywait(t) ==
  \/ program = "semaphore" /\ Enter(t, "sem trywait", "nothing")
  \/ In(t, "sem trywait") /\ count > 0 /\ count' = count - 1 /\ Back(t, TRUE) /\ UNCHANGED <<owner, readers, waiting>>
  \/ In(t, "sem trywait") /\ count = 0 /\ Back(t, FALSE) /\ UNCHANGED <<owner, readers, waiting, count>>

\* The last of a party lets all of it go; one of them is told True.
BarrierWait(t) ==
  \/ program = "barrier" /\ Cardinality(Left) >= Party /\ Enter(t, "barrier wait", "nothing")
  \/ /\ In(t, "barrier wait") /\ Cardinality(waiting) + 1 < Party
     /\ waiting' = waiting \cup {t} /\ at' = [at EXCEPT ![t] = "asleep"]
     /\ UNCHANGED <<program, made, gil, call, result, knows, owner, readers, count>>
  \/ /\ In(t, "barrier wait") /\ Cardinality(waiting) + 1 >= Party
     /\ waiting' = {}
     /\ at' = [u \in Threads |-> IF u \in waiting \cup {t} THEN "back" ELSE at[u]]
     /\ \E serial \in waiting \cup {t} :
          result' = [u \in Threads |-> IF u \in waiting \cup {t} THEN u = serial ELSE result[u]]
     /\ UNCHANGED <<program, made, gil, call, knows, owner, readers, count>>

Next ==
  \E t \in Threads :
    \/ Resume(t) \/ Switch(t) \/ Finish(t) \/ Make(t)
    \/ MutexLock(t) \/ MutexUnlock(t) \/ MutexTrylock(t)
    \/ RdLock(t) \/ RdUnlock(t) \/ TryRdLock(t) \/ WrLock(t) \/ WrUnlock(t) \/ TryWrLock(t)
    \/ Signal(t) \/ Broadcast(t) \/ ConditionWait(t) \/ ConditionTimedwait(t)
    \/ SemaphorePost(t) \/ SemaphoreWait(t) \/ SemaphoreTrywait(t) \/ BarrierWait(t)

Spec == Init /\ [][Next]_vars

\* The machine does not stop while some thread can go on.
FairSpec == Spec /\ WF_vars(Next)

-----------------------------------------------------------------------------
(* Properties.                                                             *)

\* Types of the state of src/thread.c's objects and of the threads.
TypeOK ==
  /\ program \in Programs /\ made \in BOOLEAN /\ gil \in Threads \cup {None}
  /\ at \in [Threads -> {"python", "libuv", "asleep", "back", "ended"}]
  /\ call \in [Threads -> Methods] /\ result \in [Threads -> BOOLEAN]
  /\ knows \in [Threads -> {"nothing", "mutex", "read", "write", "permit"}]
  /\ owner \in Threads \cup {None} /\ readers \subseteq Threads /\ waiting \subseteq Threads
  /\ count \in Nat

\* No two threads hold a Mutex or an RWLock for writing, nobody reads while one
\* writes, and wait() returns with the mutex.
Exclusion ==
  \A t, u \in Threads :
    /\ knows[t] \in {"mutex", "write"} => owner = t
    /\ knows[t] = "read" => t \in readers /\ owner = None
    /\ t # u /\ knows[t] \in {"mutex", "write"} => knows[u] \notin {"mutex", "read", "write"}

\* A Semaphore's permits are with it, with a thread, or on their way.
PermitsExact ==
  program = "semaphore" =>
    count + Cardinality({t \in Threads : \/ knows[t] = "permit" \/ In(t, "post")
                                         \/ at[t] = "back" /\ Told(t) = "permit"}) = Permits

\* No thread sleeps that its party should have let go.
PartyComplete == program = "barrier" => Cardinality(waiting) < Party

\* What Python code was told by lock(), trylock(), wait() and the others of
\* src/thread.c is so.
ToldTruth == TypeOK /\ Exclusion

\* However post(), wait() and trywait() overlap no permit is lost or made, and
\* no thread of a complete party is left asleep.
NobodyForgotten == PermitsExact /\ PartyComplete

\* Py_BEGIN_ALLOW_THREADS around every call that may block: whoever is blocked,
\* time and again some thread runs Python, so the thread that is to release it
\* is never kept from doing so by the interpreter lock; or all have ended.
InterpreterFree == []<>((\E t \in Threads : Running(t)) \/ Left = {})
=============================================================================
