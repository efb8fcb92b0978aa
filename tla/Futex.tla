-------------------------------- MODULE Futex --------------------------------
(***************************************************************************)
(* The futex calls as untrusted code sees them through the IRT              *)
(* (untrusted/irt/irt_futex.c): words of memory, and threads that sleep on  *)
(* a word as long as it holds the value they expect.  Comparing the word    *)
(* and falling asleep is one atomic step, and a thread that a wake has      *)
(* counted reports success.  The locks of untrusted/pthread are built from  *)
(* the operators of this module; UserFutex shows that the wait queue of the *)
(* runtime implements Spec.                                                 *)
(***************************************************************************)
EXTENDS Integers, FiniteSets

CONSTANTS Thread, Addr, Value, NoAddr

ASSUME NoAddrAssumption == NoAddr \notin Addr

VARIABLES
    word,     \* the memory words
    asleep,   \* the address each thread sleeps on, NoAddr when it does not
    woken     \* threads a wake has counted that have not returned yet

futexVars == <<word, asleep, woken>>

Waiters(a) == {t \in Thread : asleep[t] = a}

FutexInit(contents) ==
    /\ word = contents
    /\ asleep = [t \in Thread |-> NoAddr]
    /\ woken = {}

-----------------------------------------------------------------------------
(* futex_wait_abs(): sleeps only if the word still has the value.           *)
FutexBlock(t, a, v) ==
    /\ word[a] = v
    /\ asleep' = [asleep EXCEPT ![t] = a]
    /\ UNCHANGED <<word, woken>>

(* ... and returns EWOULDBLOCK otherwise.                                   *)
FutexMismatch(t, a, v) ==
    /\ word[a] # v
    /\ UNCHANGED futexVars

(* The return of a wait that a wake has ended: 0.                           *)
FutexReturn(t) ==
    /\ t \in woken
    /\ woken' = woken \ {t}
    /\ UNCHANGED <<word, asleep>>

(* The end of a wait that no wake has ended: a timeout or a spurious wakeup *)
(* that takes the thread off the queue.                                     *)
FutexGiveUp(t, a) ==
    /\ asleep[t] = a
    /\ asleep' = [asleep EXCEPT ![t] = NoAddr]
    /\ UNCHANGED <<word, woken>>

(* futex_wake() of at most n threads; which of them is left open.           *)
FutexWake(a, n) ==
    \E W \in SUBSET Waiters(a) :
        /\ IF Cardinality(Waiters(a)) <= n THEN W = Waiters(a) ELSE Cardinality(W) = n
        /\ asleep' = [t \in Thread |-> IF t \in W THEN NoAddr ELSE asleep[t]]
        /\ woken' = woken \cup W
        /\ UNCHANGED word

-----------------------------------------------------------------------------
Store(a, v) ==
    /\ word' = [word EXCEPT ![a] = v]
    /\ UNCHANGED <<asleep, woken>>

AnyInit == \E contents \in [Addr -> Value] : FutexInit(contents)

AnyNext ==
    \/ \E a \in Addr, v \in Value : Store(a, v)
    \/ \E t \in Thread, a \in Addr, v \in Value :
          /\ asleep[t] = NoAddr
          /\ t \notin woken
          /\ FutexBlock(t, a, v)
    \/ \E t \in Thread : FutexReturn(t)
    \/ \E t \in Thread, a \in Addr : FutexGiveUp(t, a)
    \/ \E a \in Addr, n \in 1 .. Cardinality(Thread) : FutexWake(a, n)

FutexSpec == AnyInit /\ [][AnyNext]_futexVars
=============================================================================
