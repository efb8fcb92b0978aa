----------------------------- MODULE PthreadMutex -----------------------------
(***************************************************************************)
(* The mutex of the untrusted thread library (untrusted/pthread/nc_mutex.c):*)
(* one word that is UNLOCKED, LOCKED_WITHOUT_WAITERS or LOCKED_WITH_WAITERS *)
(* and a futex on it.  One action per access to shared memory, so that the  *)
(* threads interleave between any two of them; but the stores of the owner  *)
(* and of the recursion counter that follow each other are one action, as   *)
(* their writer holds the mutex and only its holder reads the counter.  The *)
(* calls of a thread return to the label op[t].ret: "user" for calls of the *)
(* program, another label for calls made by PthreadCondvar.                 *)
(***************************************************************************)
EXTENDS Futex

CONSTANTS
    NoThread,    \* NACL_PTHREAD_ILLEGAL_THREAD_ID
    Mutex,       \* the address of mutex_state
    MaxDepth     \* bound on recursive locking

ASSUME MutexAssumption ==
    /\ NoThread \notin Thread
    /\ Mutex \in Addr
    /\ MaxDepth \in Nat \ {0}

UNLOCKED == 0
LOCKED_WITHOUT_WAITERS == 1
LOCKED_WITH_WAITERS == 2

VARIABLES
    mutex_type,         \* "FAST", "RECURSIVE" or "ERRORCHECK", fixed by pthread_mutex_init()
    owner_thread_id,    \* kept for the last two types only
    recursion_counter,
    pc, op,             \* where each thread is, and the arguments of its call
    depth               \* how many times each thread holds the mutex (history)

mutexVars == <<mutex_type, owner_thread_id, recursion_counter, pc, op, depth>>

mutex_state == word[Mutex]
SetState(v) == Store(Mutex, v)

NoOp == [try |-> FALSE, timed |-> FALSE, ret |-> "user"]
MutexLabels == {"lock", "cas", "contend", "wait", "asleep", "retry", "own",
                "unlock", "sub", "store", "wake"}

MutexInit ==
    /\ mutex_type \in {"FAST", "RECURSIVE", "ERRORCHECK"}
    /\ owner_thread_id = NoThread
    /\ recursion_counter = 0
    /\ pc = [t \in Thread |-> "user"]
    /\ op = [t \in Thread |-> NoOp]
    /\ depth = [t \in Thread |-> 0]

Goto(t, label) == pc' = [pc EXCEPT ![t] = label]
At(t, label) == pc[t] = label

Call(t, label, try, timed, ret) ==
    /\ Goto(t, label)
    /\ op' = [op EXCEPT ![t] = [try |-> try, timed |-> timed, ret |-> ret]]

(* The call returns: 0, or an error that a calling library function hands   *)
(* on to the program.                                                       *)
Return(t, code) ==
    /\ Goto(t, IF code = "0" THEN op[t].ret ELSE "user")
    /\ op' = [op EXCEPT ![t] = NoOp]

(* A FAST mutex skips the tests of the owner.                               *)
LockEntry == IF mutex_type = "FAST" THEN "cas" ELSE "lock"
UnlockEntry == IF mutex_type = "FAST" THEN "sub" ELSE "unlock"

Hold(t, n) == depth' = [depth EXCEPT ![t] = @ + n]

-----------------------------------------------------------------------------
(* mutex_lock(): the thread that owns a mutex of the last two types is told *)
(* so, or counts; every other call competes for the word.                   *)
MutexLock(t) ==
    /\ At(t, "lock")
    /\ \/ /\ owner_thread_id # t
          /\ Goto(t, "cas")
          /\ UNCHANGED <<op, depth, recursion_counter>>
       \/ /\ mutex_type = "ERRORCHECK" /\ owner_thread_id = t
          /\ Return(t, "EDEADLK")
          /\ UNCHANGED <<depth, recursion_counter>>
       \/ /\ mutex_type = "RECURSIVE" /\ owner_thread_id = t
          /\ recursion_counter' = recursion_counter + 1
          /\ Hold(t, 1)
          /\ Return(t, "0")
    /\ UNCHANGED <<futexVars, mutex_type, owner_thread_id>>

(* The word was UNLOCKED: the thread has the mutex.                         *)
Acquired(t) ==
    /\ Hold(t, 1)
    /\ \/ mutex_type = "FAST" /\ Return(t, "0")
       \/ mutex_type # "FAST" /\ Goto(t, "own") /\ UNCHANGED op

(* old_state, the value the compare-and-swap has found, decides whether the *)
(* loop still has to announce a waiter.                                     *)
NextTry(t) == Goto(t, IF mutex_state = LOCKED_WITH_WAITERS THEN "wait" ELSE "contend")

(* mutex_lock_nonrecursive(): the first compare-and-swap.                   *)
LockCas(t) ==
    /\ At(t, "cas")
    /\ \/ /\ mutex_state = UNLOCKED
          /\ SetState(LOCKED_WITHOUT_WAITERS)
          /\ Acquired(t)
       \/ /\ mutex_state # UNLOCKED
          /\ \/ op[t].try /\ Return(t, "EBUSY")
             \/ /\ ~op[t].try
                /\ NextTry(t)
                /\ UNCHANGED op
          /\ UNCHANGED <<futexVars, depth>>
    /\ UNCHANGED <<mutex_type, owner_thread_id, recursion_counter>>

(* Mutant of LockContend: announces no waiter.                              *)
ContendUnmarked(t) ==
    /\ At(t, "contend")
    /\ Goto(t, "wait")
    /\ UNCHANGED <<futexVars, mutex_type, owner_thread_id, recursion_counter, op, depth>>

(* The second one announces a waiter unless the mutex is free by now.       *)
LockContend(t) ==
    /\ At(t, "contend")
    /\ \/ /\ mutex_state = LOCKED_WITHOUT_WAITERS
          /\ SetState(LOCKED_WITH_WAITERS)
          /\ Goto(t, "wait")
       \/ /\ mutex_state # LOCKED_WITHOUT_WAITERS
          /\ Goto(t, IF mutex_state = UNLOCKED THEN "retry" ELSE "wait")
          /\ UNCHANGED futexVars
    /\ UNCHANGED <<mutex_type, owner_thread_id, recursion_counter, op, depth>>

(* futex_wait_abs(mutex_state, LOCKED_WITH_WAITERS, abstime).  A time that  *)
(* has passed ends the call without a look at the word.                     *)
LockWait(t) ==
    /\ At(t, "wait")
    /\ \/ FutexBlock(t, Mutex, LOCKED_WITH_WAITERS) /\ Goto(t, "asleep") /\ UNCHANGED op
       \/ FutexMismatch(t, Mutex, LOCKED_WITH_WAITERS) /\ Goto(t, "retry") /\ UNCHANGED op
       \/ op[t].timed /\ Return(t, "ETIMEDOUT") /\ UNCHANGED futexVars
    /\ UNCHANGED <<mutex_type, owner_thread_id, recursion_counter, depth>>

LockWoken(t) ==
    /\ At(t, "asleep")
    /\ FutexReturn(t)
    /\ Goto(t, "retry")
    /\ UNCHANGED <<mutex_type, owner_thread_id, recursion_counter, op, depth>>

(* The wait ends without a wake: spuriously, or timed out.                  *)
LockGiveUp(t) ==
    /\ At(t, "asleep")
    /\ FutexGiveUp(t, Mutex)
    /\ \/ op[t].timed /\ Return(t, "ETIMEDOUT")
       \/ Goto(t, "retry") /\ UNCHANGED op
    /\ UNCHANGED <<mutex_type, owner_thread_id, recursion_counter, depth>>

(* Mutant of LockRetry: forgets that others may be waiting.                 *)
RetryWithoutWaiters(t) ==
    /\ At(t, "retry")
    /\ \/ mutex_state = UNLOCKED /\ SetState(LOCKED_WITHOUT_WAITERS) /\ Acquired(t)
       \/ /\ mutex_state # UNLOCKED
          /\ NextTry(t)
          /\ UNCHANGED <<futexVars, op, depth>>
    /\ UNCHANGED <<mutex_type, owner_thread_id, recursion_counter>>

(* A thread that has waited takes the mutex as LOCKED_WITH_WAITERS.         *)
LockRetry(t) ==
    /\ At(t, "retry")
    /\ \/ mutex_state = UNLOCKED /\ SetState(LOCKED_WITH_WAITERS) /\ Acquired(t)
       \/ /\ mutex_state # UNLOCKED
          /\ NextTry(t)
          /\ UNCHANGED <<futexVars, op, depth>>
    /\ UNCHANGED <<mutex_type, owner_thread_id, recursion_counter>>

LockOwn(t) ==
    /\ At(t, "own")
    /\ owner_thread_id' = t
    /\ recursion_counter' = 1
    /\ Return(t, "0")
    /\ UNCHANGED <<futexVars, mutex_type, depth>>

-----------------------------------------------------------------------------
(* Mutant of MutexUnlock: an error checking mutex lets strangers unlock it. *)
UnlockByStranger(t) ==
    /\ At(t, "unlock")
    /\ \/ /\ mutex_type = "RECURSIVE" /\ recursion_counter # 1
          /\ recursion_counter' = recursion_counter - 1
          /\ Hold(t, -1)
          /\ Return(t, "0")
          /\ UNCHANGED owner_thread_id
       \/ /\ mutex_type = "ERRORCHECK" \/ recursion_counter = 1
          /\ owner_thread_id' = NoThread
          /\ recursion_counter' = 0
          /\ Goto(t, "sub")
          /\ UNCHANGED <<op, depth>>
    /\ UNCHANGED <<futexVars, mutex_type>>

(* Mutant of MutexUnlock: the owner stays behind.                           *)
UnlockKeepsOwner(t) ==
    /\ At(t, "unlock")
    /\ \/ /\ mutex_type = "RECURSIVE" /\ recursion_counter # 1
          /\ recursion_counter' = recursion_counter - 1
          /\ Hold(t, -1)
          /\ Return(t, "0")
       \/ /\ mutex_type = "ERRORCHECK" /\ owner_thread_id # t
          /\ Return(t, "EPERM")
          /\ UNCHANGED <<recursion_counter, depth>>
       \/ /\ \/ mutex_type = "RECURSIVE" /\ recursion_counter = 1
             \/ mutex_type = "ERRORCHECK" /\ owner_thread_id = t
          /\ recursion_counter' = 0
          /\ Goto(t, "sub")
          /\ UNCHANGED <<op, depth>>
    /\ UNCHANGED <<futexVars, mutex_type, owner_thread_id>>

(* pthread_mutex_unlock(): a recursive mutex counts down, an error checking *)
(* one tells strangers off; both forget the owner before the release.       *)
MutexUnlock(t) ==
    /\ At(t, "unlock")
    /\ \/ /\ mutex_type = "RECURSIVE" /\ recursion_counter # 1
          /\ recursion_counter' = recursion_counter - 1
          /\ Hold(t, -1)
          /\ Return(t, "0")
          /\ UNCHANGED owner_thread_id
       \/ /\ mutex_type = "ERRORCHECK" /\ owner_thread_id # t
          /\ Return(t, "EPERM")
          /\ UNCHANGED <<owner_thread_id, recursion_counter, depth>>
       \/ /\ \/ mutex_type = "RECURSIVE" /\ recursion_counter = 1
             \/ mutex_type = "ERRORCHECK" /\ owner_thread_id = t
          /\ owner_thread_id' = NoThread
          /\ recursion_counter' = 0
          /\ Goto(t, "sub")
          /\ UNCHANGED <<op, depth>>
    /\ UNCHANGED <<futexVars, mutex_type>>

(* The atomic decrement releases a mutex nobody waits for; otherwise the    *)
(* mutex stays taken until the store.                                       *)
UnlockSub(t) ==
    /\ At(t, "sub")
    /\ SetState(mutex_state - 1)
    /\ \/ mutex_state = LOCKED_WITHOUT_WAITERS /\ Hold(t, -1) /\ Return(t, "0")
       \/ mutex_state = UNLOCKED /\ Return(t, "EPERM") /\ UNCHANGED depth
       \/ /\ mutex_state = LOCKED_WITH_WAITERS
          /\ Goto(t, "store")
          /\ UNCHANGED <<op, depth>>
    /\ UNCHANGED <<mutex_type, owner_thread_id, recursion_counter>>

UnlockStore(t) ==
    /\ At(t, "store")
    /\ SetState(UNLOCKED)
    /\ Hold(t, -1)
    /\ Goto(t, "wake")
    /\ UNCHANGED <<mutex_type, owner_thread_id, recursion_counter, op>>

UnlockWake(t) ==
    /\ At(t, "wake")
    /\ FutexWake(Mutex, 1)
    /\ Return(t, "0")
    /\ UNCHANGED <<mutex_type, owner_thread_id, recursion_counter, depth>>

-----------------------------------------------------------------------------
(* The calls of a program that uses the mutex as it should: a FAST mutex is *)
(* not locked twice, and only an error checking one is unlocked by a thread *)
(* that does not hold it.                                                   *)
pthread_mutex_lock(t, try, timed) ==
    /\ At(t, "user")
    /\ mutex_type = "FAST" => depth[t] = 0
    /\ depth[t] < MaxDepth
    /\ ~(try /\ timed)
    /\ Call(t, LockEntry, try, timed, "user")
    /\ UNCHANGED <<futexVars, mutex_type, owner_thread_id, recursion_counter, depth>>

pthread_mutex_unlock(t) ==
    /\ At(t, "user")
    /\ depth[t] > 0 \/ mutex_type = "ERRORCHECK"
    /\ Call(t, UnlockEntry, FALSE, FALSE, "user")
    /\ UNCHANGED <<futexVars, mutex_type, owner_thread_id, recursion_counter, depth>>

MutexStep(t) ==
    \/ MutexLock(t) \/ LockCas(t) \/ LockContend(t) \/ LockWait(t) \/ LockWoken(t)
    \/ LockRetry(t) \/ LockOwn(t)
    \/ MutexUnlock(t) \/ UnlockSub(t) \/ UnlockStore(t) \/ UnlockWake(t)

MutexCall(t) ==
    \/ \E try, timed \in BOOLEAN : pthread_mutex_lock(t, try, timed)
    \/ pthread_mutex_unlock(t)

-----------------------------------------------------------------------------
(* At most one thread holds the mutex.                                      *)
MutualExclusion == \A t, u \in Thread : depth[t] > 0 /\ depth[u] > 0 => t = u

(* owner_thread_id names nobody but the holder, and the counter is his:     *)
(* mutex_lock() and pthread_mutex_unlock() read them without holding the    *)
(* mutex.                                                                   *)
OwnerIsHolder ==
    \A t \in Thread :
        owner_thread_id = t => /\ depth[t] > 0
                               /\ mutex_type = "RECURSIVE" => recursion_counter = depth[t]

(* While a thread sleeps on the mutex somebody will wake a sleeper: the     *)
(* mutex is marked as contended, or its release is on its way to the wake,  *)
(* or a thread is up that will mark it or take it as contended.             *)
MutexWakePending ==
    Waiters(Mutex) # {} =>
        \/ mutex_state = LOCKED_WITH_WAITERS
        \/ \E t \in Thread :
              \/ pc[t] \in {"store", "wake", "retry"}
              \/ pc[t] = "asleep" /\ t \in woken
              \/ pc[t] = "contend"

(* A mutex that is free while threads sleep on it is taken again.           *)
MutexHandedOver ==
    (mutex_state = UNLOCKED /\ Waiters(Mutex) # {}) ~> (mutex_state # UNLOCKED \/ Waiters(Mutex) = {})
=============================================================================
