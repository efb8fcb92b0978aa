-------------------------- MODULE PthreadMutexProofs --------------------------
(***************************************************************************)
(* Proofs about the mutex of the thread library and the condition variable *)
(* that uses it (PthreadCondvar), for any number of threads: the inductive *)
(* invariant IInv, and from it that the mutex excludes, that the owner is  *)
(* the holder, and that a sleeper is never forgotten; and PulseInv, from   *)
(* which a signal or a broadcast lets go whom it should.                   *)
(***************************************************************************)
EXTENDS PthreadCondvar, FiniteSetTheorems, TLAPS

USE DEF UNLOCKED, LOCKED_WITHOUT_WAITERS, LOCKED_WITH_WAITERS

\* The labels at which a thread competes for the word, and those at which it
\* cannot hold the mutex.
Competing == {"cas", "contend", "wait", "asleep", "retry"}
Outside == Competing \cup {"wake", "cw_futex", "cw_asleep"}

\* Where a thread can be, and the arguments of its call.
Labels == {"user"} \cup MutexLabels \cup CondLabels

Ops == [Thread -> [try : BOOLEAN, timed : BOOLEAN, ret : {"user", "cw_futex"}]]

\* The part of the types the proof needs.
MutexType ==
  /\ word \in [Addr -> Int] /\ mutex_state \in 0 .. 2
  /\ asleep \in [Thread -> Addr \cup {NoAddr}] /\ woken \subseteq Thread
  /\ mutex_type \in {"FAST", "RECURSIVE", "ERRORCHECK"}
  /\ owner_thread_id \in Thread \cup {NoThread}
  /\ recursion_counter \in Int
  /\ pc \in [Thread -> Labels]
  /\ op \in Ops
  /\ depth \in [Thread -> Nat]

\* A thread that holds the mutex has set the word, and is alone.
HoldInv ==
  \A t \in Thread : depth[t] > 0 =>
    /\ mutex_state # UNLOCKED
    /\ \A u \in Thread : depth[u] > 0 => u = t

\* How often a thread holds the mutex, by where it is.
DepthInv ==
  \A t \in Thread :
    /\ pc[t] \in Outside => depth[t] = 0
    /\ pc[t] \in {"own", "sub", "store"} => depth[t] = 1
    /\ pc[t] = "unlock" => depth[t] > 0 \/ mutex_type = "ERRORCHECK"
    /\ mutex_type # "RECURSIVE" => depth[t] <= 1

\* The owner is recorded while the mutex is held, but for the two moments in
\* which it is about to be set and has been cleared.
OwnerInv ==
  \A t \in Thread :
    /\ owner_thread_id = t =>
         /\ depth[t] > 0 /\ pc[t] \notin {"own", "sub", "store"}
         /\ mutex_type # "FAST"
         /\ mutex_type = "RECURSIVE" => recursion_counter = depth[t]
    /\ depth[t] > 0 /\ mutex_type # "FAST" /\ pc[t] \notin {"own", "sub", "store"} =>
         owner_thread_id = t
    /\ pc[t] \in {"lock", "own", "unlock"} => mutex_type # "FAST"

\* Only the unlock at the start of a wait goes on to the wait, and it releases
\* the mutex.
ReturnInv ==
  \A t \in Thread :
    /\ pc[t] \in Competing \cup {"lock", "own"} => op[t].ret = "user"
    /\ pc[t] = "unlock" /\ op[t].ret = "cw_futex" => depth[t] = 1

\* Where the threads are that sleep, or have been woken.
SleepInv ==
  \A t \in Thread :
    /\ asleep[t] = Mutex => pc[t] = "asleep"
    /\ asleep[t] = Cond => pc[t] = "cw_asleep"
    /\ t \in woken => pc[t] \in {"asleep", "cw_asleep"} /\ asleep[t] = NoAddr

\* The inductive invariant.
IInv == /\ MutexType /\ HoldInv /\ DepthInv /\ OwnerInv /\ ReturnInv /\ SleepInv
        /\ MutexWakePending

-----------------------------------------------------------------------------

\* A call that returns leaves its thread at a label, with the arguments cleared.
LEMMA ReturnType ==
  ASSUME MutexType, NEW t \in Thread, NEW code, Return(t, code)
  PROVE  op' \in Ops /\ pc' \in [Thread -> Labels]
<1>1. op[t].ret \in {"user", "cw_futex"}
  BY DEF MutexType, Ops
<1>2. NoOp \in [try : BOOLEAN, timed : BOOLEAN, ret : {"user", "cw_futex"}]
  BY DEF NoOp
<1>3. op' \in Ops
  BY <1>2 DEF Return, MutexType, Ops
<1>4. pc' \in [Thread -> Labels]
  BY <1>1 DEF Return, Goto, MutexType, Labels, CondLabels
<1> QED BY <1>3, <1>4

-----------------------------------------------------------------------------

(* One lemma for each action: it preserves the inductive invariant.        *)

\* A thread that is not the owner does not hold the mutex, so it may compete.
LEMMA MutexLockStep ==
  ASSUME IInv, NEW t \in Thread, MutexLock(t)
  PROVE  IInv'
<1> USE MutexAssumption, CondAssumption, NoAddrAssumption DEF IInv, futexVars, condVars
<1>1. MutexType'
  <2>1. pc' \in [Thread -> Labels]
    BY ReturnType DEF MutexLock, Goto, MutexType, Labels, MutexLabels
  <2>2. op' \in Ops
    BY ReturnType DEF MutexLock, MutexType
  <2>3. depth' \in [Thread -> Nat]
    BY DEF MutexLock, Hold, MutexType
  <2>4. word' \in [Addr -> Int] /\ mutex_state' \in 0 .. 2
    BY DEF MutexLock, MutexType, mutex_state
  <2>5. asleep' \in [Thread -> Addr \cup {NoAddr}] /\ woken' \subseteq Thread
    BY DEF MutexLock, MutexType
  <2>6. /\ mutex_type' = mutex_type /\ owner_thread_id' \in Thread \cup {NoThread}
        /\ recursion_counter' \in Int
    BY DEF MutexLock, MutexType
  <2> QED BY <2>1, <2>2, <2>3, <2>4, <2>5, <2>6 DEF MutexType
<1>2. HoldInv'
  BY DEF MutexLock, Hold, MutexType, HoldInv, mutex_state, OwnerInv
<1>3. DepthInv'
  BY DEF MutexLock, Goto, Return, Hold, At, MutexType, DepthInv, Outside, Competing,
     OwnerInv, ReturnInv
<1>4. OwnerInv'
  BY DEF MutexLock, Goto, Return, Hold, At, MutexType, OwnerInv, Ops
<1>5. ReturnInv'
  BY DEF MutexLock, Goto, Return, NoOp, Hold, At, MutexType, ReturnInv, Ops
<1>6. SleepInv'
  BY DEF MutexLock, Goto, Return, At, MutexType, SleepInv
<1>7. MutexWakePending'
  BY DEF MutexLock, Goto, Return, At, MutexType, MutexWakePending, Waiters, mutex_state
<1> QED BY <1>1, <1>2, <1>3, <1>4, <1>5, <1>6, <1>7

\* The compare-and-swap takes a mutex that nobody holds, and leaves the mark of
\* the waiters alone.
LEMMA LockCasStep ==
  ASSUME IInv, NEW t \in Thread, LockCas(t)
  PROVE  IInv'
<1> USE MutexAssumption, CondAssumption, NoAddrAssumption DEF IInv, futexVars, condVars
<1>1. MutexType'
  <2>1. pc' \in [Thread -> Labels]
    BY ReturnType DEF LockCas, Goto, Acquired, NextTry, MutexType, Labels, MutexLabels
  <2>2. op' \in Ops
    BY ReturnType DEF LockCas, Acquired, MutexType
  <2>3. depth' \in [Thread -> Nat]
    BY DEF LockCas, Acquired, Hold, MutexType
  <2>4. word' \in [Addr -> Int] /\ mutex_state' \in 0 .. 2
    BY DEF LockCas, SetState, Store, mutex_state, MutexType
  <2>5. asleep' \in [Thread -> Addr \cup {NoAddr}] /\ woken' \subseteq Thread
    BY DEF LockCas, SetState, Store, MutexType
  <2>6. /\ mutex_type' = mutex_type /\ owner_thread_id' \in Thread \cup {NoThread}
        /\ recursion_counter' \in Int
    BY DEF LockCas, MutexType
  <2> QED BY <2>1, <2>2, <2>3, <2>4, <2>5, <2>6 DEF MutexType
<1>2. HoldInv'
  BY DEF LockCas, SetState, Store, Acquired, Hold, mutex_state, MutexType, HoldInv
<1>3. DepthInv'
  BY DEF LockCas, Return, Goto, Acquired, Hold, NextTry, At, MutexType, DepthInv,
     Outside, Competing, ReturnInv
<1>4. OwnerInv'
  BY DEF LockCas, Return, Goto, Acquired, Hold, NextTry, At, MutexType, OwnerInv, Ops,
     HoldInv
<1>5. ReturnInv'
  BY DEF LockCas, Return, Goto, Acquired, Hold, NextTry, At, MutexType, ReturnInv,
     Competing, Ops
<1>6. SleepInv'
  BY DEF LockCas, Return, Goto, SetState, Store, Acquired, NextTry, At, MutexType,
     SleepInv
<1>7. MutexWakePending'
  BY DEF LockCas, Return, Goto, SetState, Store, Acquired, NextTry, At, mutex_state,
     MutexType, MutexWakePending, Waiters
<1> QED BY <1>1, <1>2, <1>3, <1>4, <1>5, <1>6, <1>7

\* A thread that finds the mutex taken marks it, or goes on to look again.
LEMMA LockContendStep ==
  ASSUME IInv, NEW t \in Thread, LockContend(t)
  PROVE  IInv'
<1> USE MutexAssumption, CondAssumption, NoAddrAssumption DEF IInv, futexVars, condVars
<1>1. MutexType'
  BY DEF LockContend, Goto, SetState, Store, mutex_state, MutexType, Labels, MutexLabels
<1>2. HoldInv'
  BY DEF LockContend, SetState, Store, mutex_state, MutexType, HoldInv
<1>3. DepthInv'
  BY DEF LockContend, Goto, At, MutexType, DepthInv, Outside, Competing
<1>4. OwnerInv'
  BY DEF LockContend, Goto, At, MutexType, OwnerInv
<1>5. ReturnInv'
  BY DEF LockContend, Goto, At, MutexType, ReturnInv, Competing
<1>6. SleepInv'
  BY DEF LockContend, Goto, SetState, Store, At, MutexType, SleepInv
<1>7. MutexWakePending'
  BY DEF LockContend, Goto, SetState, Store, mutex_state, MutexType, MutexWakePending
<1> QED BY <1>1, <1>2, <1>3, <1>4, <1>5, <1>6, <1>7

\* A thread sleeps only while the word is marked.
LEMMA LockWaitStep ==
  ASSUME IInv, NEW t \in Thread, LockWait(t)
  PROVE  IInv'
<1> USE MutexAssumption, CondAssumption, NoAddrAssumption DEF IInv, futexVars, condVars
<1>1. MutexType'
  <2>1. pc' \in [Thread -> Labels]
    BY ReturnType DEF LockWait, Goto, MutexType, Labels, MutexLabels
  <2>2. op' \in Ops
    BY ReturnType DEF LockWait, MutexType
  <2>3. depth' \in [Thread -> Nat]
    BY DEF LockWait, MutexType
  <2>4. word' \in [Addr -> Int] /\ mutex_state' \in 0 .. 2
    BY DEF LockWait, FutexBlock, FutexMismatch, MutexType, mutex_state
  <2>5. asleep' \in [Thread -> Addr \cup {NoAddr}] /\ woken' \subseteq Thread
    BY DEF LockWait, FutexBlock, FutexMismatch, MutexType
  <2>6. /\ mutex_type' = mutex_type /\ owner_thread_id' \in Thread \cup {NoThread}
        /\ recursion_counter' \in Int
    BY DEF LockWait, MutexType
  <2> QED BY <2>1, <2>2, <2>3, <2>4, <2>5, <2>6 DEF MutexType
<1>2. HoldInv'
  BY DEF LockWait, HoldInv, FutexBlock, FutexMismatch, mutex_state
<1>3. DepthInv'
  BY DEF LockWait, Goto, Return, At, MutexType, DepthInv, Outside, Competing
<1>4. OwnerInv'
  BY DEF LockWait, Goto, Return, At, MutexType, OwnerInv
<1>5. ReturnInv'
  BY DEF LockWait, Goto, Return, At, MutexType, ReturnInv, Competing, Ops
<1>6. SleepInv'
  BY DEF LockWait, Goto, Return, FutexBlock, FutexMismatch, At, MutexType, SleepInv
<1>7. MutexWakePending'
  BY DEF LockWait, Goto, Return, FutexBlock, At, MutexType, MutexWakePending, Waiters,
     mutex_state
<1> QED BY <1>1, <1>2, <1>3, <1>4, <1>5, <1>6, <1>7

\* A woken thread goes on to take the mutex as contended.
LEMMA LockWokenStep ==
  ASSUME IInv, NEW t \in Thread, LockWoken(t)
  PROVE  IInv'
<1> USE MutexAssumption, CondAssumption, NoAddrAssumption DEF IInv, futexVars, condVars
<1>1. MutexType'
  BY DEF LockWoken, Goto, FutexReturn, MutexType, Labels, MutexLabels, mutex_state
<1>2. HoldInv'
  BY DEF LockWoken, HoldInv, FutexReturn, mutex_state
<1>3. DepthInv'
  BY DEF LockWoken, Goto, At, DepthInv, Outside, Competing
<1>4. OwnerInv'
  BY DEF LockWoken, Goto, At, OwnerInv
<1>5. ReturnInv'
  BY DEF LockWoken, Goto, At, ReturnInv, Competing
<1>6. SleepInv'
  BY DEF LockWoken, Goto, FutexReturn, SleepInv
<1>7. MutexWakePending'
  BY DEF LockWoken, Goto, MutexType, MutexWakePending
<1> QED BY <1>1, <1>2, <1>3, <1>4, <1>5, <1>6, <1>7

\* A thread that gives up was not the one a wake has counted.
LEMMA LockGiveUpStep ==
  ASSUME IInv, NEW t \in Thread, LockGiveUp(t)
  PROVE  IInv'
<1> USE MutexAssumption, CondAssumption, NoAddrAssumption DEF IInv, futexVars, condVars
<1>1. MutexType'
  <2>1. pc' \in [Thread -> Labels]
    BY ReturnType DEF LockGiveUp, Goto, MutexType, Labels, MutexLabels
  <2>2. op' \in Ops
    BY ReturnType DEF LockGiveUp, MutexType
  <2>3. depth' \in [Thread -> Nat]
    BY DEF LockGiveUp, MutexType
  <2>4. word' \in [Addr -> Int] /\ mutex_state' \in 0 .. 2
    BY DEF LockGiveUp, FutexGiveUp, MutexType, mutex_state
  <2>5. asleep' \in [Thread -> Addr \cup {NoAddr}] /\ woken' \subseteq Thread
    BY DEF LockGiveUp, FutexGiveUp, MutexType
  <2>6. /\ mutex_type' = mutex_type /\ owner_thread_id' \in Thread \cup {NoThread}
        /\ recursion_counter' \in Int
    BY DEF LockGiveUp, MutexType
  <2> QED BY <2>1, <2>2, <2>3, <2>4, <2>5, <2>6 DEF MutexType
<1>2. HoldInv'
  BY DEF LockGiveUp, HoldInv, FutexGiveUp, mutex_state
<1>3. DepthInv'
  BY DEF LockGiveUp, Goto, Return, At, MutexType, DepthInv, Outside, Competing
<1>4. OwnerInv'
  BY DEF LockGiveUp, Goto, Return, At, MutexType, OwnerInv
<1>5. ReturnInv'
  BY DEF LockGiveUp, Goto, Return, At, MutexType, ReturnInv, Competing, Ops
<1>6. SleepInv'
  BY DEF LockGiveUp, Goto, Return, FutexGiveUp, MutexType, SleepInv
<1>7. MutexWakePending'
  BY DEF LockGiveUp, Goto, Return, FutexGiveUp, MutexType, MutexWakePending, Waiters,
     mutex_state, SleepInv
<1> QED BY <1>1, <1>2, <1>3, <1>4, <1>5, <1>6, <1>7

\* A thread that has waited takes a free mutex with the mark set.
LEMMA LockRetryStep ==
  ASSUME IInv, NEW t \in Thread, LockRetry(t)
  PROVE  IInv'
<1> USE MutexAssumption, CondAssumption, NoAddrAssumption DEF IInv, futexVars, condVars
<1>1. MutexType'
  <2>1. pc' \in [Thread -> Labels]
    BY ReturnType DEF LockRetry, Acquired, Goto, NextTry, MutexType, Labels, MutexLabels
  <2>2. op' \in Ops
    BY ReturnType DEF LockRetry, Acquired, MutexType
  <2>3. depth' \in [Thread -> Nat]
    BY DEF LockRetry, Acquired, Hold, MutexType
  <2>4. word' \in [Addr -> Int] /\ mutex_state' \in 0 .. 2
    BY DEF LockRetry, SetState, Store, mutex_state, MutexType
  <2>5. asleep' \in [Thread -> Addr \cup {NoAddr}] /\ woken' \subseteq Thread
    BY DEF LockRetry, SetState, Store, MutexType
  <2>6. /\ mutex_type' = mutex_type /\ owner_thread_id' \in Thread \cup {NoThread}
        /\ recursion_counter' \in Int
    BY DEF LockRetry, MutexType
  <2> QED BY <2>1, <2>2, <2>3, <2>4, <2>5, <2>6 DEF MutexType
<1>2. HoldInv'
  BY DEF LockRetry, SetState, Store, Acquired, Hold, mutex_state, MutexType, HoldInv
<1>3. DepthInv'
  BY DEF LockRetry, Acquired, Hold, Return, Goto, NextTry, At, MutexType, DepthInv,
     Outside, Competing, ReturnInv
<1>4. OwnerInv'
  BY DEF LockRetry, Acquired, Hold, Return, Goto, NextTry, At, MutexType, OwnerInv,
     Ops, HoldInv
<1>5. ReturnInv'
  BY DEF LockRetry, Acquired, Hold, Return, Goto, NextTry, At, MutexType, ReturnInv,
     Competing, Ops
<1>6. SleepInv'
  BY DEF LockRetry, SetState, Store, Acquired, Return, Goto, NextTry, At, MutexType,
     SleepInv
<1>7. MutexWakePending'
  BY DEF LockRetry, SetState, Store, Goto, NextTry, mutex_state, MutexType,
     MutexWakePending
<1> QED BY <1>1, <1>2, <1>3, <1>4, <1>5, <1>6, <1>7

\* The owner is recorded by the only thread that holds the mutex.
LEMMA LockOwnStep ==
  ASSUME IInv, NEW t \in Thread, LockOwn(t)
  PROVE  IInv'
<1> USE MutexAssumption, CondAssumption, NoAddrAssumption DEF IInv, futexVars, condVars
<1>1. MutexType'
  BY DEF LockOwn, Return, Goto, NoOp, MutexType, Ops, Labels, CondLabels, mutex_state
<1>2. HoldInv'
  BY DEF LockOwn, HoldInv, mutex_state
<1>3. DepthInv'
  BY DEF LockOwn, Return, Goto, At, DepthInv, Outside, Competing, ReturnInv
<1>4. OwnerInv'
  BY DEF LockOwn, Return, Goto, At, MutexType, OwnerInv, Ops, DepthInv, HoldInv
<1>5. ReturnInv'
  BY DEF LockOwn, Return, Goto, NoOp, At, ReturnInv
<1>6. SleepInv'
  BY DEF LockOwn, Return, Goto, At, SleepInv
<1>7. MutexWakePending'
  BY DEF LockOwn, Return, Goto, At, MutexWakePending, Waiters, mutex_state
<1> QED BY <1>1, <1>2, <1>3, <1>4, <1>5, <1>6, <1>7

\* The owner is forgotten by the holder, before the release; a stranger changes
\* nothing.
LEMMA MutexUnlockStep ==
  ASSUME IInv, NEW t \in Thread, MutexUnlock(t)
  PROVE  IInv'
<1> USE MutexAssumption, CondAssumption, NoAddrAssumption DEF IInv, futexVars, condVars
<1>1. MutexType'
  <2>1. pc' \in [Thread -> Labels]
    BY ReturnType DEF MutexUnlock, Goto, MutexType, Labels, MutexLabels
  <2>2. op' \in Ops
    BY ReturnType DEF MutexUnlock, MutexType
  <2>3. depth' \in [Thread -> Nat]
    BY DEF MutexUnlock, Hold, At, MutexType, DepthInv
  <2>4. word' \in [Addr -> Int] /\ mutex_state' \in 0 .. 2
    BY DEF MutexUnlock, MutexType, mutex_state
  <2>5. asleep' \in [Thread -> Addr \cup {NoAddr}] /\ woken' \subseteq Thread
    BY DEF MutexUnlock, MutexType
  <2>6. /\ mutex_type' = mutex_type /\ owner_thread_id' \in Thread \cup {NoThread}
        /\ recursion_counter' \in Int
    BY DEF MutexUnlock, MutexType
  <2> QED BY <2>1, <2>2, <2>3, <2>4, <2>5, <2>6 DEF MutexType
<1>2. HoldInv'
  BY DEF MutexUnlock, Hold, MutexType, HoldInv, mutex_state
<1>3. DepthInv'
  BY DEF MutexUnlock, Goto, Return, Hold, At, MutexType, DepthInv, Outside, Competing,
     Ops, OwnerInv, ReturnInv
<1>4. OwnerInv'
  BY DEF MutexUnlock, Goto, Return, Hold, At, MutexType, OwnerInv, Ops, DepthInv
<1>5. ReturnInv'
  BY DEF MutexUnlock, Goto, Return, Hold, MutexType, ReturnInv, Competing, Ops
<1>6. SleepInv'
  BY DEF MutexUnlock, Goto, Return, At, MutexType, SleepInv
<1>7. MutexWakePending'
  BY DEF MutexUnlock, Goto, Return, At, MutexType, MutexWakePending, Waiters,
     mutex_state
<1> QED BY <1>1, <1>2, <1>3, <1>4, <1>5, <1>6, <1>7

\* The decrement releases an unmarked mutex; a marked one stays taken.
LEMMA UnlockSubStep ==
  ASSUME IInv, NEW t \in Thread, UnlockSub(t)
  PROVE  IInv'
<1> USE MutexAssumption, CondAssumption, NoAddrAssumption DEF IInv, futexVars, condVars
<1>1. MutexType'
  <2>1. pc' \in [Thread -> Labels]
    BY ReturnType DEF UnlockSub, Goto, MutexType, Labels, MutexLabels
  <2>2. op' \in Ops
    BY ReturnType DEF UnlockSub, MutexType
  <2>3. depth' \in [Thread -> Nat]
    BY DEF UnlockSub, Hold, At, MutexType, DepthInv
  <2>4. word' \in [Addr -> Int] /\ mutex_state' \in 0 .. 2
    BY DEF UnlockSub, SetState, Store, At, mutex_state, MutexType, DepthInv, HoldInv
  <2>5. asleep' \in [Thread -> Addr \cup {NoAddr}] /\ woken' \subseteq Thread
    BY DEF UnlockSub, SetState, Store, MutexType
  <2>6. /\ mutex_type' = mutex_type /\ owner_thread_id' \in Thread \cup {NoThread}
        /\ recursion_counter' \in Int
    BY DEF UnlockSub, MutexType
  <2> QED BY <2>1, <2>2, <2>3, <2>4, <2>5, <2>6 DEF MutexType
<1>2. HoldInv'
  BY DEF UnlockSub, Hold, SetState, Store, At, mutex_state, MutexType, HoldInv, DepthInv
<1>3. DepthInv'
  BY DEF UnlockSub, Goto, Return, Hold, At, MutexType, DepthInv, Outside, Competing, Ops
<1>4. OwnerInv'
  BY DEF UnlockSub, Goto, Return, Hold, At, MutexType, OwnerInv, Ops, DepthInv, HoldInv
<1>5. ReturnInv'
  BY DEF UnlockSub, Goto, Return, Hold, MutexType, ReturnInv, Competing, Ops
<1>6. SleepInv'
  BY DEF UnlockSub, Goto, Return, SetState, Store, At, MutexType, SleepInv
<1>7. MutexWakePending'
  BY DEF UnlockSub, Goto, Return, SetState, Store, At, MutexType, MutexWakePending,
     Waiters
<1> QED BY <1>1, <1>2, <1>3, <1>4, <1>5, <1>6, <1>7

\* The store releases a marked mutex, and the wake is still to come.
LEMMA UnlockStoreStep ==
  ASSUME IInv, NEW t \in Thread, UnlockStore(t)
  PROVE  IInv'
<1> USE MutexAssumption, CondAssumption, NoAddrAssumption DEF IInv, futexVars, condVars
<1>1. MutexType'
  BY DEF UnlockStore, Goto, Hold, SetState, Store, At, MutexType, Labels, MutexLabels,
     mutex_state, DepthInv
<1>2. HoldInv'
  BY DEF UnlockStore, Hold, At, MutexType, HoldInv, DepthInv
<1>3. DepthInv'
  BY DEF UnlockStore, Goto, Hold, At, MutexType, DepthInv
<1>4. OwnerInv'
  BY DEF UnlockStore, Goto, Hold, At, MutexType, OwnerInv, DepthInv
<1>5. ReturnInv'
  BY DEF UnlockStore, Goto, Hold, At, ReturnInv, Competing
<1>6. SleepInv'
  BY DEF UnlockStore, Goto, SetState, Store, At, SleepInv
<1>7. MutexWakePending'
  BY DEF UnlockStore, Goto, At, MutexWakePending
<1> QED BY <1>1, <1>2, <1>3, <1>4, <1>5, <1>6, <1>7

\* The wake counts a sleeper if there is one, who will take the mutex as
\* contended.
LEMMA UnlockWakeStep ==
  ASSUME IInv, NEW t \in Thread, UnlockWake(t)
  PROVE  IInv'
<1> USE MutexAssumption, CondAssumption, NoAddrAssumption DEF IInv, futexVars, condVars
<1>1. MutexType'
  BY DEF UnlockWake, Return, Goto, NoOp, FutexWake, Waiters, MutexType, Ops, Labels,
     CondLabels, mutex_state
<1>2. HoldInv'
  BY DEF UnlockWake, HoldInv, FutexWake, mutex_state
<1>3. DepthInv'
  BY DEF UnlockWake, Return, Goto, At, MutexType, DepthInv, Outside, Ops
<1>4. OwnerInv'
  BY DEF UnlockWake, Return, Goto, At, MutexType, OwnerInv, Ops
<1>5. ReturnInv'
  BY DEF UnlockWake, Return, Goto, NoOp, MutexType, ReturnInv, Ops
<1>6. SleepInv'
  BY DEF UnlockWake, Return, Goto, FutexWake, Waiters, At, SleepInv
<1>7. MutexWakePending'
  <2>1. PICK W \in SUBSET Waiters(Mutex) :
          /\ IF Cardinality(Waiters(Mutex)) <= 1 THEN W = Waiters(Mutex) ELSE Cardinality(W) = 1
          /\ asleep' = [u \in Thread |-> IF u \in W THEN NoAddr ELSE asleep[u]]
          /\ woken' = woken \cup W
    BY DEF UnlockWake, FutexWake
  <2>2. SUFFICES ASSUME Waiters(Mutex)' # {}
                 PROVE  \E u \in Thread : pc'[u] = "asleep" /\ u \in woken'
    BY DEF MutexWakePending
  <2>3. Waiters(Mutex)' \subseteq Waiters(Mutex)
    BY <2>1 DEF Waiters
  <2>4. W # {}
    BY <2>1, <2>2, <2>3, FS_EmptySet
  <2>5. PICK u \in W : TRUE
    BY <2>4
  <2>6. u \in Thread /\ pc[u] = "asleep" /\ u # t
    BY DEF Waiters, SleepInv, UnlockWake, At
  <2> QED BY <2>1, <2>6 DEF UnlockWake, Return, Goto
<1> QED BY <1>1, <1>2, <1>3, <1>4, <1>5, <1>6, <1>7

\* A call to lock starts with the test its type needs.
LEMMA pthread_mutex_lockStep ==
  ASSUME IInv, NEW t \in Thread, NEW try \in BOOLEAN, NEW timed \in BOOLEAN,
         pthread_mutex_lock(t, try, timed)
  PROVE  IInv'
<1> USE MutexAssumption, CondAssumption, NoAddrAssumption DEF IInv, futexVars, condVars
<1>1. MutexType'
  BY DEF pthread_mutex_lock, Call, Goto, LockEntry, MutexType, Ops, Labels,
     MutexLabels, mutex_state
<1>2. HoldInv'
  BY DEF pthread_mutex_lock, HoldInv, mutex_state
<1>3. DepthInv'
  BY DEF pthread_mutex_lock, Call, Goto, LockEntry, DepthInv, Outside, Competing
<1>4. OwnerInv'
  BY DEF pthread_mutex_lock, Call, Goto, LockEntry, At, OwnerInv
<1>5. ReturnInv'
  BY DEF pthread_mutex_lock, Call, Goto, MutexType, ReturnInv, Ops
<1>6. SleepInv'
  BY DEF pthread_mutex_lock, Call, Goto, At, SleepInv
<1>7. MutexWakePending'
  BY DEF pthread_mutex_lock, Call, Goto, At, MutexWakePending, Waiters, mutex_state
<1> QED BY <1>1, <1>2, <1>3, <1>4, <1>5, <1>6, <1>7

\* Only an error checking mutex is unlocked by a thread that does not hold it.
LEMMA pthread_mutex_unlockStep ==
  ASSUME IInv, NEW t \in Thread, pthread_mutex_unlock(t)
  PROVE  IInv'
<1> USE MutexAssumption, CondAssumption, NoAddrAssumption DEF IInv, futexVars, condVars
<1>1. MutexType'
  BY DEF pthread_mutex_unlock, Call, Goto, UnlockEntry, MutexType, Ops, Labels,
     MutexLabels, mutex_state
<1>2. HoldInv'
  BY DEF pthread_mutex_unlock, HoldInv, mutex_state
<1>3. DepthInv'
  BY DEF pthread_mutex_unlock, Call, Goto, UnlockEntry, MutexType, DepthInv, Outside,
     Competing
<1>4. OwnerInv'
  BY DEF pthread_mutex_unlock, Call, Goto, UnlockEntry, At, OwnerInv
<1>5. ReturnInv'
  BY DEF pthread_mutex_unlock, Call, Goto, MutexType, ReturnInv, Ops
<1>6. SleepInv'
  BY DEF pthread_mutex_unlock, Call, Goto, At, SleepInv
<1>7. MutexWakePending'
  BY DEF pthread_mutex_unlock, Call, Goto, At, MutexWakePending, Waiters, mutex_state
<1> QED BY <1>1, <1>2, <1>3, <1>4, <1>5, <1>6, <1>7

\* A wait starts with the release of a mutex that is held once.
LEMMA pthread_cond_timedwait_absStep ==
  ASSUME IInv, NEW t \in Thread, NEW timed \in BOOLEAN, pthread_cond_timedwait_abs(t,
         timed)
  PROVE  IInv'
<1> USE MutexAssumption, CondAssumption, NoAddrAssumption DEF IInv, futexVars, condVars
<1>1. MutexType'
  BY DEF pthread_cond_timedwait_abs, Call, Goto, UnlockEntry, MutexType, Ops, Labels,
     MutexLabels, mutex_state
<1>2. HoldInv'
  BY DEF pthread_cond_timedwait_abs, HoldInv, mutex_state
<1>3. DepthInv'
  BY DEF pthread_cond_timedwait_abs, Call, Goto, UnlockEntry, DepthInv, Outside,
     Competing
<1>4. OwnerInv'
  BY DEF pthread_cond_timedwait_abs, Call, Goto, UnlockEntry, At, OwnerInv
<1>5. ReturnInv'
  BY DEF pthread_cond_timedwait_abs, Call, Goto, UnlockEntry, At, ReturnInv, Competing
<1>6. SleepInv'
  BY DEF pthread_cond_timedwait_abs, Call, Goto, At, SleepInv
<1>7. MutexWakePending'
  BY DEF pthread_cond_timedwait_abs, Call, Goto, At, MutexWakePending, Waiters,
     mutex_state
<1> QED BY <1>1, <1>2, <1>3, <1>4, <1>5, <1>6, <1>7

\* A thread comes to the condition variable's futex without the mutex.
LEMMA CondFutexWaitStep ==
  ASSUME IInv, NEW t \in Thread, CondFutexWait(t)
  PROVE  IInv'
<1> USE MutexAssumption, CondAssumption, NoAddrAssumption DEF IInv, futexVars, condVars
<1>1. MutexType'
  <2>1. pc' \in [Thread -> Labels]
    BY ReturnType DEF CondFutexWait, Goto, Relock, Call, LockEntry, MutexType, Labels,
       MutexLabels, CondLabels
  <2>2. op' \in Ops
    <3>1. [try |-> FALSE, timed |-> FALSE, ret |-> "user"] \in
            [try : BOOLEAN, timed : BOOLEAN, ret : {"user", "cw_futex"}]
      OBVIOUS
    <3>2. op' = op \/ op' = [op EXCEPT ![t] = [try |-> FALSE, timed |-> FALSE, ret |-> "user"]]
      BY DEF CondFutexWait, Relock, Call
    <3> QED BY <3>1, <3>2 DEF MutexType, Ops
  <2>3. depth' \in [Thread -> Nat]
    BY DEF CondFutexWait, MutexType
  <2>4. word' \in [Addr -> Int] /\ mutex_state' \in 0 .. 2
    BY DEF CondFutexWait, FutexBlock, FutexMismatch, mutex_state, MutexType
  <2>5. asleep' \in [Thread -> Addr \cup {NoAddr}] /\ woken' \subseteq Thread
    BY DEF CondFutexWait, FutexBlock, FutexMismatch, MutexType
  <2>6. /\ mutex_type' = mutex_type /\ owner_thread_id' \in Thread \cup {NoThread}
        /\ recursion_counter' \in Int
    BY DEF CondFutexWait, MutexType
  <2> QED BY <2>1, <2>2, <2>3, <2>4, <2>5, <2>6 DEF MutexType
<1>2. HoldInv'
  BY DEF CondFutexWait, HoldInv, FutexBlock, FutexMismatch, mutex_state
<1>3. DepthInv'
  BY DEF CondFutexWait, Goto, Relock, Call, LockEntry, At, MutexType, DepthInv, Outside
<1>4. OwnerInv'
  BY DEF CondFutexWait, Goto, Relock, Call, LockEntry, At, MutexType, OwnerInv
<1>5. ReturnInv'
  BY DEF CondFutexWait, Goto, Relock, Call, MutexType, ReturnInv, Competing, Ops
<1>6. SleepInv'
  BY DEF CondFutexWait, Goto, FutexBlock, FutexMismatch, Relock, Call, At, MutexType,
     SleepInv
<1>7. MutexWakePending'
  BY DEF CondFutexWait, Goto, FutexBlock, FutexMismatch, Relock, Call, At, mutex_state,
     MutexType, MutexWakePending, Waiters
<1> QED BY <1>1, <1>2, <1>3, <1>4, <1>5, <1>6, <1>7

\* A woken waiter takes the mutex again.
LEMMA CondWokenStep ==
  ASSUME IInv, NEW t \in Thread, CondWoken(t)
  PROVE  IInv'
<1> USE MutexAssumption, CondAssumption, NoAddrAssumption DEF IInv, futexVars, condVars
<1>1. MutexType'
  BY DEF CondWoken, FutexReturn, Relock, Call, Goto, LockEntry, MutexType, Ops, Labels,
     MutexLabels, mutex_state
<1>2. HoldInv'
  BY DEF CondWoken, HoldInv, FutexReturn, mutex_state
<1>3. DepthInv'
  BY DEF CondWoken, Relock, Call, Goto, LockEntry, At, DepthInv, Outside
<1>4. OwnerInv'
  BY DEF CondWoken, Relock, Call, Goto, LockEntry, At, OwnerInv
<1>5. ReturnInv'
  BY DEF CondWoken, Relock, Call, Goto, MutexType, ReturnInv, Ops
<1>6. SleepInv'
  BY DEF CondWoken, FutexReturn, Relock, Call, Goto, SleepInv
<1>7. MutexWakePending'
  BY DEF CondWoken, FutexReturn, Relock, Call, Goto, At, MutexWakePending, Waiters,
     mutex_state
<1> QED BY <1>1, <1>2, <1>3, <1>4, <1>5, <1>6, <1>7

\* So does one whose wait ends without a wake.
LEMMA CondGiveUpStep ==
  ASSUME IInv, NEW t \in Thread, CondGiveUp(t)
  PROVE  IInv'
<1> USE MutexAssumption, CondAssumption, NoAddrAssumption DEF IInv, futexVars, condVars
<1>1. MutexType'
  BY DEF CondGiveUp, FutexGiveUp, Relock, Call, Goto, LockEntry, MutexType, Ops,
     Labels, MutexLabels, mutex_state
<1>2. HoldInv'
  BY DEF CondGiveUp, HoldInv, FutexGiveUp, mutex_state
<1>3. DepthInv'
  BY DEF CondGiveUp, Relock, Call, Goto, LockEntry, At, DepthInv, Outside
<1>4. OwnerInv'
  BY DEF CondGiveUp, Relock, Call, Goto, LockEntry, At, OwnerInv
<1>5. ReturnInv'
  BY DEF CondGiveUp, Relock, Call, Goto, MutexType, ReturnInv, Ops
<1>6. SleepInv'
  BY DEF CondGiveUp, FutexGiveUp, Relock, Call, Goto, MutexType, SleepInv
<1>7. MutexWakePending'
  BY DEF CondGiveUp, FutexGiveUp, Relock, Call, Goto, At, MutexWakePending, Waiters,
     mutex_state
<1> QED BY <1>1, <1>2, <1>3, <1>4, <1>5, <1>6, <1>7

\* A signal or broadcast does not touch the mutex,
LEMMA pulseStep ==
  ASSUME IInv, NEW t \in Thread, NEW count, pulse(t, count)
  PROVE  IInv'
<1> USE MutexAssumption, CondAssumption, NoAddrAssumption DEF IInv, futexVars, condVars
<1>1. MutexType'
  BY DEF pulse, Goto, MutexType, Labels, CondLabels, mutex_state
<1>2. HoldInv'
  BY DEF pulse, HoldInv, mutex_state
<1>3. DepthInv'
  BY DEF pulse, Goto, DepthInv, Outside, Competing
<1>4. OwnerInv'
  BY DEF pulse, Goto, At, OwnerInv
<1>5. ReturnInv'
  BY DEF pulse, Goto, ReturnInv, Competing
<1>6. SleepInv'
  BY DEF pulse, Goto, At, SleepInv
<1>7. MutexWakePending'
  BY DEF pulse, Goto, At, MutexWakePending, Waiters, mutex_state
<1> QED BY <1>1, <1>2, <1>3, <1>4, <1>5, <1>6, <1>7

\* ... nor does its increment of the sequence number,
LEMMA PulseIncrementStep ==
  ASSUME IInv, NEW t \in Thread, PulseIncrement(t)
  PROVE  IInv'
<1> USE MutexAssumption, CondAssumption, NoAddrAssumption DEF IInv, futexVars, condVars
<1>1. MutexType'
  BY DEF PulseIncrement, Goto, Store, sequence_number, mutex_state, MutexType, Labels,
     CondLabels
<1>2. HoldInv'
  BY DEF PulseIncrement, Store, mutex_state, HoldInv
<1>3. DepthInv'
  BY DEF PulseIncrement, Goto, DepthInv, Outside, Competing
<1>4. OwnerInv'
  BY DEF PulseIncrement, Goto, At, OwnerInv
<1>5. ReturnInv'
  BY DEF PulseIncrement, Goto, ReturnInv, Competing
<1>6. SleepInv'
  BY DEF PulseIncrement, Goto, Store, At, SleepInv
<1>7. MutexWakePending'
  BY DEF PulseIncrement, Goto, Store, At, mutex_state, MutexWakePending, Waiters
<1> QED BY <1>1, <1>2, <1>3, <1>4, <1>5, <1>6, <1>7

\* ... and it wakes nobody who sleeps on the mutex.
LEMMA PulseWakeStep ==
  ASSUME IInv, NEW t \in Thread, PulseWake(t)
  PROVE  IInv'
<1> USE MutexAssumption, CondAssumption, NoAddrAssumption DEF IInv, futexVars, condVars
<1>1. MutexType'
  BY DEF PulseWake, Goto, FutexWake, Waiters, MutexType, Labels, mutex_state
<1>2. HoldInv'
  BY DEF PulseWake, HoldInv, FutexWake, mutex_state
<1>3. DepthInv'
  BY DEF PulseWake, Goto, DepthInv, Outside, Competing
<1>4. OwnerInv'
  BY DEF PulseWake, Goto, At, OwnerInv
<1>5. ReturnInv'
  BY DEF PulseWake, Goto, ReturnInv, Competing
<1>6. SleepInv'
  BY DEF PulseWake, Goto, FutexWake, Waiters, At, SleepInv
<1>7. MutexWakePending'
  BY DEF PulseWake, Goto, FutexWake, Waiters, At, MutexWakePending, mutex_state
<1> QED BY <1>1, <1>2, <1>3, <1>4, <1>5, <1>6, <1>7

-----------------------------------------------------------------------------

\* The initial states satisfy the inductive invariant: nobody holds the mutex,
\* and nobody sleeps.
LEMMA InitIInv == Init => IInv
<1> SUFFICES ASSUME Init PROVE IInv
  OBVIOUS
<1> USE MutexAssumption, CondAssumption, NoAddrAssumption DEF Init, FutexInit, MutexInit
<1>1. MutexType
  BY DEF MutexType, mutex_state, Ops, NoOp, Labels
<1>2. HoldInv /\ DepthInv
  BY DEF HoldInv, DepthInv
<1>3. OwnerInv /\ ReturnInv
  BY DEF OwnerInv, ReturnInv, Competing
<1>4. SleepInv /\ MutexWakePending
  BY DEF SleepInv, MutexWakePending, Waiters
<1> QED BY <1>1, <1>2, <1>3, <1>4 DEF IInv

\* A step that leaves the variables alone preserves the inductive invariant.
LEMMA StutterStep ==
  ASSUME IInv, UNCHANGED vars
  PROVE  IInv'
<1> USE DEF IInv, vars, futexVars, mutexVars
<1>1. MutexType'
  BY DEF MutexType, mutex_state
<1>2. HoldInv' /\ DepthInv'
  BY DEF HoldInv, DepthInv, mutex_state
<1>3. OwnerInv' /\ ReturnInv'
  BY DEF OwnerInv, ReturnInv
<1>4. SleepInv' /\ MutexWakePending'
  BY DEF SleepInv, MutexWakePending, Waiters, mutex_state
<1> QED BY <1>1, <1>2, <1>3, <1>4

\* Every step of the specification preserves the inductive invariant.
LEMMA NextStep ==
  ASSUME IInv, [Next]_vars
  PROVE  IInv'
<1>1. CASE UNCHANGED vars
  BY <1>1, StutterStep
<1>2. ASSUME NEW t \in Thread, MutexCall(t) \/ LockGiveUp(t) PROVE IInv'
  BY <1>2, pthread_mutex_lockStep, pthread_mutex_unlockStep,
     LockGiveUpStep DEF MutexCall
<1>3. ASSUME NEW t \in Thread, CondCall(t) \/ CondGiveUp(t) PROVE IInv'
  BY <1>3, pthread_cond_timedwait_absStep, pulseStep, CondGiveUpStep DEF CondCall
<1>4. ASSUME NEW t \in Thread, MutexStep(t) PROVE IInv'
  BY <1>4, MutexLockStep, LockCasStep, LockContendStep, LockWaitStep, LockWokenStep,
     LockRetryStep, LockOwnStep, MutexUnlockStep, UnlockSubStep, UnlockStoreStep,
     UnlockWakeStep DEF MutexStep
<1>5. ASSUME NEW t \in Thread, CondStep(t) PROVE IInv'
  BY <1>5, CondFutexWaitStep, CondWokenStep, PulseIncrementStep,
     PulseWakeStep DEF CondStep
<1> QED BY <1>1, <1>2, <1>3, <1>4, <1>5 DEF Next, Step

\* The inductive invariant holds in every reachable state, for any number of
\* threads and each of the three types of mutex.
THEOREM Invariance == Spec => []IInv
<1>1. Init => IInv
  BY InitIInv
<1>2. IInv /\ [Next]_vars => IInv'
  BY NextStep
<1> QED BY <1>1, <1>2, PTL DEF Spec

\* The mutex excludes: at most one thread holds it (nc_mutex.c), also when it
\* is taken again at the end of a condition wait.
THEOREM MutexExcludes == Spec => []MutualExclusion
<1>1. IInv => MutualExclusion
  BY DEF IInv, HoldInv, MutualExclusion
<1> QED BY <1>1, Invariance, PTL

\* owner_thread_id names nobody but the holder, and recursion_counter is his,
\* although both are read without the mutex (mutex_lock, pthread_mutex_unlock).
THEOREM OwnerHolds == Spec => []OwnerIsHolder
<1>1. IInv => OwnerIsHolder
  BY DEF IInv, OwnerInv, OwnerIsHolder
<1> QED BY <1>1, Invariance, PTL

\* No sleeper is forgotten: as long as a thread sleeps on the mutex, the word
\* is marked or a thread is on its way to wake it, to mark the word or to take
\* the mutex as contended.
THEOREM SleeperIsRemembered == Spec => []MutexWakePending
<1>1. IInv => MutexWakePending
  BY DEF IInv
<1> QED BY <1>1, Invariance, PTL

-----------------------------------------------------------------------------
(* The pulses of the condition variable.                                   *)

\* A thread in a wait: it releases the mutex, is about to sleep or sleeps.
InWait(u) ==
  \/ pc[u] \in {"unlock", "sub", "store", "wake"} /\ op[u].ret = "cw_futex"
  \/ pc[u] \in {"cw_futex", "cw_asleep"}

\* A wait has read the number it finds or an earlier one, and a pulse that has
\* incremented the number knows of earlier waits only.
PulseInv ==
  /\ cwait \in [Thread -> [old_value : Nat, timed : BOOLEAN]]
  /\ pulsed \in [Thread -> [count : Nat, before : SUBSET Thread]]
  /\ sequence_number \in Nat
  /\ \A u \in Thread : cwait[u].old_value <= sequence_number
  /\ \A t \in Thread :
       /\ \A u \in pulsed[t].before :
            InWait(u) /\ (pc[t] = "pulse_wake" => cwait[u].old_value < sequence_number)
       /\ pc[t] \in {"pulse", "pulse_wake"} => pulsed[t].count \in {1, Cardinality(Thread)}

\* The calls of the mutex leave the sequence number alone, and bring a thread
\* that is in a wait no further than to its sleep.
LEMMA MutexKeepsWaits ==
  ASSUME IInv, NEW t \in Thread, MutexStep(t) \/ MutexCall(t) \/ LockGiveUp(t)
  PROVE  /\ word'[Cond] = word[Cond]
         /\ \A u \in Thread : InWait(u) => InWait(u)'
         /\ \A u \in Thread : pc'[u] \in {"pulse", "pulse_wake"} => pc'[u] = pc[u]
<1> USE MutexAssumption, CondAssumption DEF IInv
<1>1. word'[Cond] = word[Cond]
  BY DEF MutexStep, MutexCall, MutexType, futexVars,
     MutexLock, LockCas, LockContend, LockWait, LockWoken, LockRetry, LockOwn,
     MutexUnlock, UnlockSub, UnlockStore, UnlockWake, pthread_mutex_lock,
     pthread_mutex_unlock, LockGiveUp, SetState, Store, FutexBlock, FutexMismatch,
     FutexReturn, FutexGiveUp, FutexWake
<1>2. ASSUME NEW u \in Thread, u # t
      PROVE  pc'[u] = pc[u] /\ op'[u] = op[u]
  BY <1>2 DEF MutexStep, MutexCall, MutexType, Ops, Goto, Call, Return, Acquired, NextTry,
     MutexLock, LockCas, LockContend, LockWait, LockWoken, LockRetry, LockOwn,
     MutexUnlock, UnlockSub, UnlockStore, UnlockWake, pthread_mutex_lock,
     pthread_mutex_unlock, LockGiveUp
<1>3. /\ InWait(t) => InWait(t)'
      /\ pc'[t] \notin {"pulse", "pulse_wake"}
  <2>0. op[t].ret \in {"user", "cw_futex"}
    BY DEF MutexType, Ops
  <2>1. CASE MutexLock(t) \/ LockCas(t) \/ LockContend(t) \/ LockWait(t) \/ LockWoken(t)
             \/ LockRetry(t) \/ LockOwn(t) \/ LockGiveUp(t) \/ MutexCall(t)
    BY <2>0, <2>1 DEF MutexCall, MutexType, Goto, Call, Return, Acquired, NextTry, At, InWait,
       MutexLock, LockCas, LockContend, LockWait, LockWoken, LockRetry, LockOwn,
       pthread_mutex_lock, pthread_mutex_unlock, LockGiveUp, LockEntry, UnlockEntry
  <2>2. CASE MutexUnlock(t)
    BY <2>0, <2>2 DEF MutexUnlock, MutexType, Goto, Return, At, InWait, ReturnInv, OwnerInv
  <2>3. CASE UnlockSub(t)
    BY <2>0, <2>3 DEF UnlockSub, MutexType, Goto, Return, At, InWait, DepthInv, HoldInv,
       mutex_state
  <2>4. CASE UnlockStore(t) \/ UnlockWake(t)
    BY <2>0, <2>4 DEF UnlockStore, UnlockWake, MutexType, Goto, Return, At, InWait
  <2> QED BY <2>1, <2>2, <2>3, <2>4 DEF MutexStep
<1>4. \A u \in Thread : InWait(u) => InWait(u)'
  BY <1>2, <1>3 DEF InWait
<1> QED BY <1>1, <1>2, <1>3, <1>4

\* So they preserve PulseInv.
LEMMA MutexPulseStep ==
  ASSUME IInv, PulseInv, NEW t \in Thread, UNCHANGED condVars,
         MutexStep(t) \/ MutexCall(t) \/ LockGiveUp(t)
  PROVE  PulseInv'
BY MutexKeepsWaits DEF PulseInv, condVars, sequence_number

\* A wait begins: no pulse has counted it yet.
LEMMA WaitBegins ==
  ASSUME IInv, PulseInv, NEW t \in Thread, NEW timed \in BOOLEAN,
         pthread_cond_timedwait_abs(t, timed)
  PROVE  PulseInv'
<1> USE DEF pthread_cond_timedwait_abs, Call, Goto, At, IInv, MutexType, futexVars
<1>1. \A u \in Thread : t \notin pulsed[u].before
  BY DEF PulseInv, InWait
<1>2. \A u \in Thread : u # t /\ InWait(u) => InWait(u)'
  BY DEF InWait, Ops
<1>3. cwait' \in [Thread -> [old_value : Nat, timed : BOOLEAN]]
  BY DEF PulseInv, sequence_number
<1>4. \A u \in Thread : cwait'[u].old_value <= sequence_number'
  BY DEF PulseInv, sequence_number
<1>5. ASSUME NEW p \in Thread
      PROVE  /\ \A u \in pulsed'[p].before :
                  /\ InWait(u)'
                  /\ pc'[p] = "pulse_wake" => cwait'[u].old_value < sequence_number'
             /\ pc'[p] \in {"pulse", "pulse_wake"} =>
                  pulsed'[p].count \in {1, Cardinality(Thread)}
  <2>1. pc'[p] \in {"pulse", "pulse_wake"} => pc'[p] = pc[p]
    BY DEF UnlockEntry
  <2>2. \A u \in pulsed[p].before : u \in Thread /\ u # t
    BY <1>1 DEF PulseInv
  <2> QED BY <1>2, <2>1, <2>2 DEF PulseInv, sequence_number
<1> QED BY <1>3, <1>4, <1>5 DEF PulseInv, sequence_number

\* A wait ends: no pulse counts it any more.
LEMMA WaitEnds ==
  ASSUME IInv, PulseInv, NEW t \in Thread, Relock(t), word' = word
  PROVE  PulseInv'
<1> USE DEF Relock, Call, Goto, IInv, MutexType
<1>1. /\ cwait' \in [Thread -> [old_value : Nat, timed : BOOLEAN]]
      /\ \A u \in Thread : cwait'[u].old_value <= sequence_number'
      /\ \A u \in Thread : u # t => cwait'[u] = cwait[u]
  BY DEF PulseInv, NoWait, sequence_number
<1>2. /\ pulsed' \in [Thread -> [count : Nat, before : SUBSET Thread]]
      /\ \A p \in Thread : /\ pulsed'[p].count = pulsed[p].count
                           /\ pulsed'[p].before = pulsed[p].before \ {t}
  BY DEF PulseInv
<1>3. \A u \in Thread : u # t /\ InWait(u) => InWait(u)'
  BY DEF InWait, Ops
<1>4. \A p \in Thread : pc'[p] \in {"pulse", "pulse_wake"} => pc'[p] = pc[p]
  BY DEF LockEntry
<1>5. ASSUME NEW p \in Thread, NEW u \in pulsed'[p].before
      PROVE  /\ InWait(u)'
             /\ pc'[p] = "pulse_wake" => cwait'[u].old_value < sequence_number'
  <2>1. u \in Thread /\ u # t /\ u \in pulsed[p].before
    BY <1>2 DEF PulseInv
  <2> QED BY <1>1, <1>3, <1>4, <2>1 DEF PulseInv, sequence_number
<1>6. \A p \in Thread : pc'[p] \in {"pulse", "pulse_wake"} =>
                          pulsed'[p].count \in {1, Cardinality(Thread)}
  BY <1>2, <1>4 DEF PulseInv
<1> QED BY <1>1, <1>2, <1>5, <1>6 DEF PulseInv, sequence_number

\* A pulse begins, and notes who is waiting.
LEMMA PulseBegins ==
  ASSUME IInv, PulseInv, NEW t \in Thread, NEW count \in {1, Cardinality(Thread)},
         pulse(t, count)
  PROVE  PulseInv'
<1> USE DEF pulse, Goto, At, IInv, MutexType, futexVars
<1>1. Cardinality(Thread) \in Nat
  BY FS_CardinalityType, CondAssumption
<1>2. /\ pulsed' \in [Thread -> [count : Nat, before : SUBSET Thread]]
      /\ pulsed'[t] = [count |-> count, before |-> {u \in Thread : Waiting(u)}]
      /\ \A p \in Thread : p # t => pulsed'[p] = pulsed[p]
  BY <1>1 DEF PulseInv
<1>3. \A u \in Thread : InWait(u) => InWait(u)'
  BY DEF InWait
<1>4. \A u \in Thread : Waiting(u) => InWait(u)
  BY DEF InWait, Waiting
<1>5. ASSUME NEW p \in Thread
      PROVE  /\ \A u \in pulsed'[p].before :
                  /\ InWait(u)'
                  /\ pc'[p] = "pulse_wake" => cwait'[u].old_value < sequence_number'
             /\ pc'[p] \in {"pulse", "pulse_wake"} =>
                  pulsed'[p].count \in {1, Cardinality(Thread)}
  <2>1. CASE p = t
    BY <1>2, <1>3, <1>4, <2>1
  <2>2. CASE p # t
    <3>1. \A u \in pulsed[p].before : u \in Thread
      BY DEF PulseInv
    <3> QED BY <1>2, <1>3, <2>2, <3>1 DEF PulseInv, sequence_number
  <2> QED BY <2>1, <2>2
<1> QED BY <1>2, <1>5 DEF PulseInv, sequence_number

\* The increment makes the number of every wait the pulse has noted an old one.
LEMMA PulseIncrements ==
  ASSUME IInv, PulseInv, NEW t \in Thread, PulseIncrement(t)
  PROVE  PulseInv'
<1> USE DEF PulseIncrement, Goto, At, Store, IInv, MutexType, condVars
<1>1. sequence_number \in Nat /\ sequence_number' = sequence_number + 1
  BY CondAssumption DEF PulseInv, sequence_number
<1>2. \A u \in Thread : InWait(u) => InWait(u)'
  BY DEF InWait
<1>3. \A u \in Thread : /\ cwait[u].old_value \in Nat
                        /\ cwait[u].old_value <= sequence_number
  BY DEF PulseInv
<1>4. ASSUME NEW p \in Thread
      PROVE  /\ \A u \in pulsed'[p].before :
                  /\ InWait(u)'
                  /\ pc'[p] = "pulse_wake" => cwait'[u].old_value < sequence_number'
             /\ pc'[p] \in {"pulse", "pulse_wake"} =>
                  pulsed'[p].count \in {1, Cardinality(Thread)}
  <2>1. \A u \in pulsed[p].before : u \in Thread
    BY DEF PulseInv
  <2>2. pc'[p] \in {"pulse", "pulse_wake"} => pc[p] \in {"pulse", "pulse_wake"}
    OBVIOUS
  <2> QED BY <1>1, <1>2, <1>3, <2>1, <2>2 DEF PulseInv
<1>5. sequence_number' \in Nat /\ \A u \in Thread : cwait'[u].old_value <= sequence_number'
  BY <1>1, <1>3
<1> QED BY <1>4, <1>5 DEF PulseInv

\* The wake ends the pulse.
LEMMA PulseWakes ==
  ASSUME IInv, PulseInv, NEW t \in Thread, PulseWake(t)
  PROVE  PulseInv'
<1> USE DEF PulseWake, Goto, At, FutexWake, IInv, MutexType
<1>1. /\ pulsed' \in [Thread -> [count : Nat, before : SUBSET Thread]]
      /\ pulsed'[t] = NoPulse
      /\ \A p \in Thread : p # t => pulsed'[p] = pulsed[p]
  BY DEF PulseInv, NoPulse
<1>2. \A u \in Thread : InWait(u) => InWait(u)'
  BY DEF InWait
<1>3. ASSUME NEW p \in Thread
      PROVE  /\ \A u \in pulsed'[p].before :
                  /\ InWait(u)'
                  /\ pc'[p] = "pulse_wake" => cwait'[u].old_value < sequence_number'
             /\ pc'[p] \in {"pulse", "pulse_wake"} =>
                  pulsed'[p].count \in {1, Cardinality(Thread)}
  <2>1. CASE p = t
    BY <1>1, <2>1 DEF NoPulse
  <2>2. CASE p # t
    <3>1. \A u \in pulsed[p].before : u \in Thread
      BY DEF PulseInv
    <3> QED BY <1>1, <1>2, <2>2, <3>1 DEF PulseInv, sequence_number
  <2> QED BY <2>1, <2>2
<1> QED BY <1>1, <1>3 DEF PulseInv, sequence_number

\* Every step preserves PulseInv.
LEMMA NextPulse ==
  ASSUME IInv, PulseInv, [Next]_vars
  PROVE  PulseInv'
<1>1. CASE UNCHANGED vars
  BY <1>1 DEF vars, futexVars, mutexVars, condVars, PulseInv, InWait, sequence_number
<1>2. ASSUME NEW t \in Thread,
             (MutexCall(t) \/ LockGiveUp(t) \/ MutexStep(t)) /\ UNCHANGED condVars
      PROVE  PulseInv'
  BY <1>2, MutexPulseStep
<1>3. ASSUME NEW t \in Thread, CondCall(t) PROVE PulseInv'
  BY <1>3, WaitBegins, PulseBegins DEF CondCall
<1>4. ASSUME NEW t \in Thread, CondGiveUp(t) PROVE PulseInv'
  BY <1>4, WaitEnds DEF CondGiveUp, FutexGiveUp
<1>5. ASSUME NEW t \in Thread, CondFutexWait(t) PROVE PulseInv'
  <2>1. CASE Relock(t)
    BY <1>5, <2>1, WaitEnds DEF CondFutexWait, FutexBlock, FutexMismatch, futexVars
  <2>2. CASE ~Relock(t)
    <3>1. /\ Goto(t, "cw_asleep") /\ At(t, "cw_futex") /\ UNCHANGED <<op, condVars, word>>
      BY <1>5, <2>2 DEF CondFutexWait, FutexBlock
    <3>2. /\ \A u \in Thread : InWait(u) => InWait(u)'
          /\ \A u \in Thread : pc'[u] \in {"pulse", "pulse_wake"} => pc'[u] = pc[u]
      BY <3>1 DEF Goto, At, InWait, IInv, MutexType
    <3> QED BY <3>1, <3>2 DEF PulseInv, condVars, sequence_number
  <2> QED BY <2>1, <2>2
<1>6. ASSUME NEW t \in Thread, CondWoken(t) PROVE PulseInv'
  BY <1>6, WaitEnds DEF CondWoken, FutexReturn
<1> QED
  BY <1>1, <1>2, <1>3, <1>4, <1>5, <1>6, PulseIncrements, PulseWakes
  DEF Next, Step, CondStep

\* PulseInv holds in every reachable state.
LEMMA PulseInvariance == Spec => []PulseInv
<1>1. Init => PulseInv
  BY CondAssumption DEF Init, FutexInit, MutexInit, PulseInv, NoWait, NoPulse, sequence_number
<1>2. IInv /\ PulseInv /\ [Next]_vars => PulseInv'
  BY NextPulse
<1> QED BY <1>1, <1>2, Invariance, PTL DEF Spec

\* A pulse that wakes lets go of all it has noted who have fallen asleep, or as a
\* signal of one sleeper: whoever it has noted and does not sleep yet will find
\* another number.
LEMMA WakeReleases ==
  ASSUME IInv, PulseInv, NEW t \in Thread, PulseWake(t)
  PROVE  \/ {u \in pulsed[t].before : StaysAsleep(u)'} = {}
         \/ pulsed[t].count = 1 /\ woken' # woken
<1> DEFINE n == pulsed[t].count
<1>1. n \in {1, Cardinality(Thread)}
  BY DEF PulseWake, At, PulseInv
<1>2. PICK W \in SUBSET Waiters(Cond) :
        /\ IF Cardinality(Waiters(Cond)) <= n THEN W = Waiters(Cond) ELSE Cardinality(W) = n
        /\ asleep' = [u \in Thread |-> IF u \in W THEN NoAddr ELSE asleep[u]]
        /\ woken' = woken \cup W
        /\ word' = word
  BY DEF PulseWake, FutexWake
<1>3. CASE W = Waiters(Cond)
  <2>1. ASSUME NEW u \in pulsed[t].before PROVE ~StaysAsleep(u)'
    <3>1. /\ u \in Thread /\ cwait[u].old_value < sequence_number
          /\ sequence_number \in Nat /\ cwait[u].old_value \in Nat
      BY DEF PulseInv, PulseWake, At
    <3>2. asleep'[u] # Cond
      BY <1>2, <1>3, <3>1, CondAssumption, NoAddrAssumption DEF Waiters
    <3>3. cwait' = cwait /\ sequence_number' = sequence_number
      BY <1>2 DEF PulseWake, sequence_number
    <3> QED BY <3>1, <3>2, <3>3 DEF StaysAsleep
  <2> QED BY <2>1
<1>4. CASE W # Waiters(Cond)
  <2>1. /\ IsFiniteSet(Waiters(Cond)) /\ Cardinality(Waiters(Cond)) <= Cardinality(Thread)
        /\ Cardinality(Thread) \in Nat /\ Cardinality(Waiters(Cond)) \in Nat
    <3>1. Waiters(Cond) \subseteq Thread
      BY DEF Waiters
    <3> QED BY <3>1, FS_Subset, FS_CardinalityType, CondAssumption
  <2>2. n = 1 /\ Cardinality(W) = 1
    BY <1>1, <1>2, <1>4, <2>1
  <2>3. W # {}
    BY <2>2, FS_EmptySet
  <2>4. PICK u \in W : TRUE
    BY <2>3
  <2>5. u \notin woken
    BY <2>4, CondAssumption, NoAddrAssumption DEF IInv, SleepInv, Waiters
  <2> QED BY <1>2, <2>2, <2>4, <2>5
<1> QED BY <1>3, <1>4

\* A pulse lets go whom it should (nc_condvar.c): when it returns, a broadcast has
\* left none asleep of those that waited when it was called, and a signal has
\* woken a waiter unless there is none left to wake.
THEOREM PulsesRelease == Spec => PulseReleases
<1>1. ASSUME IInv, PulseInv, [Next]_vars
      PROVE  [\A t \in Thread :
                At(t, "pulse_wake") /\ pc'[t] = "user" =>
                  LET still == {u \in pulsed[t].before : StaysAsleep(u)'} IN
                  \/ still = {}
                  \/ pulsed[t].count = 1 /\ (still # pulsed[t].before \/ woken' # woken)]_vars
  <2> SUFFICES ASSUME NEW t \in Thread, At(t, "pulse_wake"), pc'[t] = "user"
               PROVE  PulseWake(t)
    BY <1>1, WakeReleases
  <2>1. pc[t] = "pulse_wake" /\ pc'[t] # pc[t]
    BY DEF At
  <2>2. PICK u \in Thread :
          \/ (MutexCall(u) \/ LockGiveUp(u)) /\ UNCHANGED condVars
          \/ CondCall(u) \/ CondGiveUp(u) \/ Step(u)
    BY <1>1, <2>1 DEF Next, vars, mutexVars
  <2>3. u = t
    <3>1. ASSUME u # t, MutexStep(u) \/ MutexCall(u) \/ LockGiveUp(u)
          PROVE  pc'[t] = pc[t]
      BY <1>1, <3>1 DEF IInv, MutexType, MutexStep, MutexCall, Goto, Call, Return,
         Acquired, NextTry,
         MutexLock, LockCas, LockContend, LockWait, LockWoken, LockRetry, LockOwn,
         MutexUnlock, UnlockSub, UnlockStore, UnlockWake, pthread_mutex_lock,
         pthread_mutex_unlock, LockGiveUp
    <3>2. ASSUME u # t, CondCall(u) \/ CondGiveUp(u) \/ CondStep(u)
          PROVE  pc'[t] = pc[t]
      BY <1>1, <3>2 DEF IInv, MutexType, CondCall, CondStep, Goto, Call, Relock, CondGiveUp,
         CondFutexWait, CondWoken, PulseIncrement, PulseWake, pulse,
         pthread_cond_timedwait_abs
    <3> QED BY <2>1, <2>2, <3>1, <3>2 DEF Step
  <2> QED
    BY <2>1, <2>2, <2>3 DEF Step, CondStep, CondCall, MutexStep, MutexCall, At,
       CondGiveUp, CondFutexWait, CondWoken, PulseIncrement, pulse,
       pthread_cond_timedwait_abs,
       MutexLock, LockCas, LockContend, LockWait, LockWoken, LockRetry, LockOwn,
       MutexUnlock, UnlockSub, UnlockStore, UnlockWake, pthread_mutex_lock,
       pthread_mutex_unlock, LockGiveUp
<1> QED BY <1>1, Invariance, PulseInvariance, PTL DEF Spec, PulseReleases
-----------------------------------------------------------------------------
(* The types of the variables.                                             *)

\* A thread does not hold the mutex more often than MaxDepth says, and one that
\* asks whether it is the owner could hold it once more.
DepthBound ==
  /\ recursion_counter \in 0 .. MaxDepth
  /\ \A t \in Thread : /\ depth[t] <= MaxDepth
                       /\ pc[t] = "lock" => depth[t] < MaxDepth

\* The sequence number leaves room for the pulses that have begun.
Pulsing == {u \in Thread : pc[u] = "pulse"}
SequenceBound ==
  /\ sequence_number \in Nat
  /\ sequence_number + Cardinality(Pulsing) <= MaxPulses

\* The mutex keeps the first bound: it is the owner who counts, ...
LEMMA MutexDepth ==
  ASSUME IInv, DepthBound, NEW t \in Thread, MutexStep(t) \/ MutexCall(t) \/ LockGiveUp(t)
  PROVE  DepthBound'
<1> USE MutexAssumption DEF IInv, MutexType
<1>1. /\ \A u \in Thread : depth[u] \in Nat /\ depth[u] <= MaxDepth
      /\ recursion_counter \in 0 .. MaxDepth
      /\ pc[t] = "lock" => depth[t] < MaxDepth
      /\ pc[t] \in Outside => depth[t] = 0
      /\ owner_thread_id = t /\ mutex_type = "RECURSIVE" => recursion_counter = depth[t]
      /\ pc[t] = "unlock" /\ mutex_type = "RECURSIVE" => depth[t] > 0 /\ owner_thread_id = t
      /\ op[t].ret \in {"user", "cw_futex"}
  BY DEF DepthBound, DepthInv, OwnerInv, Ops
<1>2. \A u \in Thread : u # t => pc'[u] = pc[u] /\ depth'[u] = depth[u]
  BY DEF MutexStep, MutexCall, Goto, Call, Return, Hold, Acquired, NextTry,
     MutexLock, LockCas, LockContend, LockWait, LockWoken, LockRetry, LockOwn,
     MutexUnlock, UnlockSub, UnlockStore, UnlockWake, pthread_mutex_lock,
     pthread_mutex_unlock, LockGiveUp
<1>3. /\ recursion_counter' \in 0 .. MaxDepth /\ depth'[t] <= MaxDepth
      /\ pc'[t] = "lock" => depth'[t] < MaxDepth
  <2>1. CASE MutexLock(t)
    BY <1>1, <2>1 DEF MutexLock, At, Goto, Return, Hold
  <2>2. CASE LockCas(t) \/ LockRetry(t)
    BY <1>1, <2>2 DEF LockCas, LockRetry, At, Goto, Return, Hold, Acquired, NextTry,
       Outside, Competing
  <2>3. CASE LockContend(t) \/ LockWait(t) \/ LockWoken(t) \/ LockGiveUp(t) \/ UnlockWake(t)
    BY <1>1, <2>3 DEF LockContend, LockWait, LockWoken, LockGiveUp, UnlockWake,
       At, Goto, Return
  <2>4. CASE LockOwn(t)
    BY <1>1, <2>4 DEF LockOwn, At, Goto, Return
  <2>5. CASE MutexUnlock(t)
    BY <1>1, <2>5 DEF MutexUnlock, At, Goto, Return, Hold
  <2>6. CASE UnlockSub(t) \/ UnlockStore(t)
    BY <1>1, <2>6 DEF UnlockSub, UnlockStore, At, Goto, Return, Hold
  <2>7. CASE MutexCall(t)
    BY <1>1, <2>7 DEF MutexCall, pthread_mutex_lock, pthread_mutex_unlock, At, Call, Goto,
       UnlockEntry
  <2> QED BY <2>1, <2>2, <2>3, <2>4, <2>5, <2>6, <2>7 DEF MutexStep
<1> QED BY <1>2, <1>3 DEF DepthBound

\* ... and so does the condition variable: who comes back from a wait has
\* released the mutex.
LEMMA CondDepth ==
  ASSUME IInv, DepthBound, NEW t \in Thread, CondStep(t) \/ CondCall(t) \/ CondGiveUp(t)
  PROVE  DepthBound'
<1> USE MutexAssumption DEF IInv, MutexType
<1>1. /\ UNCHANGED <<recursion_counter, depth>>
      /\ \A u \in Thread : u # t => pc'[u] = pc[u]
  BY DEF CondStep, CondCall, CondFutexWait, CondWoken, PulseIncrement, PulseWake, CondGiveUp,
     pthread_cond_timedwait_abs, pulse, Relock, Goto, Call
<1>2. pc'[t] = "lock" => depth[t] = 0
  BY DEF CondStep, CondCall, CondFutexWait, CondWoken, PulseIncrement, PulseWake, CondGiveUp,
     pthread_cond_timedwait_abs, pulse, Relock, At, Goto, Call, UnlockEntry, DepthInv, Outside
<1> QED BY <1>1, <1>2 DEF DepthBound

\* The pulses that have begun can be counted, before a step and after.
LEMMA PulsesFinite ==
  /\ IsFiniteSet(Pulsing) /\ Cardinality(Pulsing) \in Nat
  /\ IsFiniteSet(Pulsing') /\ Cardinality(Pulsing') \in Nat
BY CondAssumption, FS_Subset, FS_CardinalityType DEF Pulsing

\* A step that neither adds to the pulses nor increments keeps the second bound.
LEMMA NoPulseBegins ==
  ASSUME SequenceBound, sequence_number' = sequence_number, Pulsing' \in SUBSET Pulsing
  PROVE  SequenceBound'
<1>1. Cardinality(Pulsing') <= Cardinality(Pulsing)
  BY PulsesFinite, FS_Subset
<1> QED BY <1>1, PulsesFinite, CondAssumption DEF SequenceBound

\* A pulse begins only if there is room for it.
LEMMA PulseHasRoom ==
  ASSUME IInv, SequenceBound, NEW t \in Thread, NEW count, pulse(t, count)
  PROVE  SequenceBound'
<1> USE DEF pulse, Goto, At, IInv, MutexType
<1>1. Pulsing' = Pulsing \cup {t}
  BY DEF Pulsing
<1>2. Cardinality(Pulsing') <= Cardinality(Pulsing) + 1
  BY <1>1, PulsesFinite, FS_AddElement
<1>3. sequence_number' = sequence_number /\ sequence_number + Cardinality(Pulsing) < MaxPulses
  BY DEF sequence_number, futexVars, Pulsing
<1> QED BY <1>2, <1>3, PulsesFinite, CondAssumption DEF SequenceBound

\* And takes the room when it increments.
LEMMA IncrementTakesRoom ==
  ASSUME IInv, SequenceBound, NEW t \in Thread, PulseIncrement(t)
  PROVE  SequenceBound'
<1> USE DEF PulseIncrement, Goto, At, Store, IInv, MutexType
<1>1. Pulsing' = Pulsing \ {t} /\ t \in Pulsing
  BY DEF Pulsing
<1>2. Cardinality(Pulsing') = Cardinality(Pulsing) - 1
  BY <1>1, PulsesFinite, FS_RemoveElement
<1>3. sequence_number' = sequence_number + 1
  BY CondAssumption DEF sequence_number
<1> QED BY <1>2, <1>3, PulsesFinite, CondAssumption DEF SequenceBound

\* Every step keeps both.
LEMMA BoundStep ==
  ASSUME IInv, DepthBound, SequenceBound, [Next]_vars
  PROVE  DepthBound' /\ SequenceBound'
<1>1. CASE UNCHANGED vars
  BY <1>1 DEF vars, futexVars, mutexVars, DepthBound, SequenceBound, Pulsing, sequence_number
<1>2. ASSUME NEW t \in Thread,
             (MutexCall(t) \/ LockGiveUp(t) \/ MutexStep(t)) /\ UNCHANGED condVars
      PROVE  DepthBound' /\ SequenceBound'
  <2>1. sequence_number' = sequence_number /\ Pulsing' \in SUBSET Pulsing
    BY <1>2, MutexKeepsWaits DEF sequence_number, Pulsing
  <2> QED BY <1>2, <2>1, NoPulseBegins, MutexDepth
<1>3. ASSUME NEW t \in Thread, CondCall(t) \/ CondGiveUp(t) \/ CondStep(t)
      PROVE  DepthBound' /\ SequenceBound'
  <2>1. DepthBound'
    BY <1>3, CondDepth
  <2>2. CASE \E count : pulse(t, count)
    BY <2>1, <2>2, PulseHasRoom
  <2>3. CASE PulseIncrement(t)
    BY <2>1, <2>3, IncrementTakesRoom
  <2>4. CASE ~PulseIncrement(t) /\ \A count : ~pulse(t, count)
    <3>1. \/ \E timed \in BOOLEAN : pthread_cond_timedwait_abs(t, timed)
          \/ CondGiveUp(t) \/ CondFutexWait(t) \/ CondWoken(t) \/ PulseWake(t)
      BY <1>3, <2>4 DEF CondCall, CondStep
    <3>2. Pulsing' \in SUBSET Pulsing
      BY <3>1 DEF Pulsing, pthread_cond_timedwait_abs, CondGiveUp, CondFutexWait, CondWoken,
         PulseWake, Relock, Call, Goto, LockEntry, UnlockEntry, IInv, MutexType
    <3>3. sequence_number' = sequence_number
      BY <3>1 DEF sequence_number, pthread_cond_timedwait_abs, CondGiveUp, CondFutexWait,
         CondWoken, PulseWake, FutexBlock, FutexMismatch, FutexReturn, FutexGiveUp, FutexWake,
         futexVars
    <3> QED BY <2>1, <3>2, <3>3, NoPulseBegins
  <2> QED BY <2>2, <2>3, <2>4
<1> QED BY <1>1, <1>2, <1>3 DEF Next, Step

\* The word of the mutex has one of its three values, the recursion counter and
\* the sequence number stay in their bounds, and a thread is where its code can
\* be (nc_mutex.c, nc_condvar.c).
THEOREM MutexTyping == Spec => []TypeOK
<1>1. Init => DepthBound /\ SequenceBound
  <2> SUFFICES ASSUME Init
               PROVE  DepthBound /\ SequenceBound
    OBVIOUS
  <2> USE DEF Init, FutexInit, MutexInit
  <2>1. DepthBound
    BY MutexAssumption DEF DepthBound
  <2>2. Pulsing = {} /\ sequence_number = 0
    BY CondAssumption DEF Pulsing, sequence_number
  <2> QED BY <2>1, <2>2, FS_EmptySet, CondAssumption DEF SequenceBound
<1>2. IInv /\ DepthBound /\ SequenceBound /\ [Next]_vars => DepthBound' /\ SequenceBound'
  BY BoundStep
<1>3. ASSUME IInv, PulseInv, DepthBound, SequenceBound
      PROVE  TypeOK
  <2>1. sequence_number \in 0 .. MaxPulses
    BY <1>3, PulsesFinite, CondAssumption DEF SequenceBound
  <2>2. \A t \in Thread : depth[t] \in 0 .. MaxDepth
    BY <1>3, MutexAssumption DEF IInv, MutexType, DepthBound
  <2>3. word[Mutex] \in UNLOCKED .. LOCKED_WITH_WAITERS /\ word[Cond] \in 0 .. MaxPulses
    BY <1>3, <2>1 DEF IInv, MutexType, mutex_state, sequence_number
  <2>4. \A t \in Thread : op[t].ret \in {"user", "cw_futex"} /\ pulsed[t].before \subseteq Thread
    BY <1>3 DEF IInv, MutexType, Ops, PulseInv
  <2> QED BY <1>3, <2>2, <2>3, <2>4
          DEF TypeOK, IInv, MutexType, DepthBound, Labels
<1> QED BY <1>1, <1>2, <1>3, Invariance, PulseInvariance, PTL DEF Spec
=============================================================================
