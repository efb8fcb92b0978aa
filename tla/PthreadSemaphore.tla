--------------------------- MODULE PthreadSemaphore ---------------------------
(***************************************************************************)
(* The semaphore of the untrusted thread library (untrusted/pthread/        *)
(* nc_semaphore.c): a count with a futex on it, and a number of waiters     *)
(* that spares sem_post() the wake when nobody waits.  Every load and every *)
(* compare-and-swap is a step of its own; memory is sequentially consistent *)
(* as the __sync builtins make it.                                          *)
(***************************************************************************)
EXTENDS Futex

CONSTANTS
    Count, NWaiters,     \* the addresses of sem->count and sem->nwaiters, which differ
    SEM_VALUE_MAX        \* bound on the count, above which sem_post() fails

(* What the constants must be.                                              *)
SemConstants ==
    /\ Count \in Addr /\ NWaiters \in Addr \ {Count}
    /\ SEM_VALUE_MAX \in Nat
    /\ IsFiniteSet(Thread)

VARIABLES
    pc,
    mode,     \* which loop calls decrement_if_positive(): "first", "again" or "try"
    seen      \* old_value of the current loop

semVars == <<pc, mode, seen>>
vars == <<futexVars, semVars>>

count == word[Count]
nwaiters == word[NWaiters]

TypeOK ==
    /\ count \in 0 .. SEM_VALUE_MAX
    /\ nwaiters \in 0 .. Cardinality(Thread)
    /\ pc \in [Thread -> {"user", "load", "cas", "add", "wait", "asleep", "sub",
                          "post_load", "post_cas", "post_check", "post_wake"}]
    /\ mode \in [Thread -> {"none", "first", "again", "try"}]
    /\ seen \in [Thread -> 0 .. SEM_VALUE_MAX]

(* sem_init() with any value that is allowed.                               *)
Init ==
    /\ \E value \in 0 .. SEM_VALUE_MAX :
          FutexInit([a \in Addr |-> IF a = Count THEN value ELSE 0])
    /\ pc = [t \in Thread |-> "user"]
    /\ mode = [t \in Thread |-> "none"]
    /\ seen = [t \in Thread |-> 0]

At(t, label) == pc[t] = label
Goto(t, label) == pc' = [pc EXCEPT ![t] = label]
Enter(t, label, m) == Goto(t, label) /\ mode' = [mode EXCEPT ![t] = m]
See(t, v) == seen' = [seen EXCEPT ![t] = v]

-----------------------------------------------------------------------------
sem_wait(t) == At(t, "user") /\ Enter(t, "load", "first") /\ UNCHANGED <<futexVars, seen>>
sem_trywait(t) == At(t, "user") /\ Enter(t, "load", "try") /\ UNCHANGED <<futexVars, seen>>
sem_post(t) == At(t, "user") /\ Goto(t, "post_load") /\ UNCHANGED <<futexVars, mode, seen>>

(* decrement_if_positive(): gives up on 0.                                  *)
DecrementLoad(t) ==
    /\ At(t, "load")
    /\ See(t, count)
    /\ \/ count # 0 /\ Goto(t, "cas") /\ UNCHANGED mode
       \/ count = 0 /\ mode[t] = "first" /\ Goto(t, "add") /\ UNCHANGED mode
       \/ count = 0 /\ mode[t] = "again" /\ Goto(t, "wait") /\ UNCHANGED mode
       \/ count = 0 /\ mode[t] = "try" /\ Enter(t, "user", "none")
    /\ UNCHANGED futexVars

DecrementCas(t) ==
    /\ At(t, "cas")
    /\ \/ /\ count = seen[t]
          /\ Store(Count, count - 1)
          /\ \/ mode[t] = "again" /\ Goto(t, "sub") /\ UNCHANGED mode
             \/ mode[t] # "again" /\ Enter(t, "user", "none")
       \/ count # seen[t] /\ Goto(t, "load") /\ UNCHANGED <<futexVars, mode>>
    /\ See(t, 0)

(* Mutant of WaitAdd: the waiter announces itself only after it slept.      *)
WaitUnannounced(t) ==
    /\ At(t, "add")
    /\ Enter(t, "wait", "again")
    /\ UNCHANGED <<futexVars, seen>>

WaitAdd(t) ==
    /\ At(t, "add")
    /\ Store(NWaiters, nwaiters + 1)
    /\ Enter(t, "wait", "again")
    /\ UNCHANGED seen

(* futex_wait_abs(&sem->count, 0, NULL), whose result is ignored.           *)
WaitFutex(t) ==
    /\ At(t, "wait")
    /\ \/ FutexBlock(t, Count, 0) /\ Goto(t, "asleep")
       \/ FutexMismatch(t, Count, 0) /\ Goto(t, "load")
    /\ UNCHANGED <<mode, seen>>

WaitWoken(t) == At(t, "asleep") /\ FutexReturn(t) /\ Goto(t, "load") /\ UNCHANGED <<mode, seen>>
WaitSpurious(t) == At(t, "asleep") /\ FutexGiveUp(t, Count) /\ Goto(t, "load") /\ UNCHANGED <<mode, seen>>

WaitSub(t) ==
    /\ At(t, "sub")
    /\ Store(NWaiters, nwaiters - 1)
    /\ Enter(t, "user", "none")
    /\ UNCHANGED seen

-----------------------------------------------------------------------------
PostLoad(t) ==
    /\ At(t, "post_load")
    /\ See(t, count)
    /\ Goto(t, IF count = SEM_VALUE_MAX THEN "user" ELSE "post_cas")
    /\ UNCHANGED <<futexVars, mode>>

PostCas(t) ==
    /\ At(t, "post_cas")
    /\ \/ count = seen[t] /\ Store(Count, count + 1) /\ Goto(t, "post_check")
       \/ count # seen[t] /\ Goto(t, "post_load") /\ UNCHANGED futexVars
    /\ See(t, 0)
    /\ UNCHANGED mode

(* Mutant of PostCheck: wakes only if the count was 0 before.               *)
CheckOnlyFirst(t) ==
    /\ At(t, "post_check")
    /\ Goto(t, IF nwaiters # 0 /\ count = 1 THEN "post_wake" ELSE "user")
    /\ UNCHANGED <<futexVars, mode, seen>>

PostCheck(t) ==
    /\ At(t, "post_check")
    /\ Goto(t, IF nwaiters # 0 THEN "post_wake" ELSE "user")
    /\ UNCHANGED <<futexVars, mode, seen>>

PostWake(t) ==
    /\ At(t, "post_wake")
    /\ FutexWake(Count, 1)
    /\ Goto(t, "user")
    /\ UNCHANGED <<mode, seen>>

SemCall(t) == sem_wait(t) \/ sem_trywait(t) \/ sem_post(t)

SemStep(t) ==
    \/ DecrementLoad(t) \/ DecrementCas(t) \/ WaitAdd(t) \/ WaitFutex(t) \/ WaitWoken(t) \/ WaitSub(t)
    \/ PostLoad(t) \/ PostCas(t) \/ PostCheck(t) \/ PostWake(t)

Next == \E t \in Thread : SemCall(t) \/ SemStep(t) \/ WaitSpurious(t)

Spec == Init /\ [][Next]_vars

(* The host runs every thread that is inside the library.                   *)
FairSpec == Spec /\ \A t \in Thread : WF_vars(SemStep(t))

-----------------------------------------------------------------------------
(* As many threads are on their way as there are units that a sleeper could *)
(* take: each positive count is matched by a post that has still to wake    *)
(* (or to look for waiters), or by a waiter that is up and will look at the *)
(* count again.  A post that found no waiter must have been right.          *)
OnTheirWay ==
    {t \in Thread : \/ pc[t] \in {"post_check", "post_wake"}
                    \/ mode[t] = "again" /\ pc[t] \in {"load", "cas", "wait"}
                    \/ pc[t] = "asleep" /\ t \in woken}
SemWakePending ==
    LET units == count
        sleepers == Cardinality(Waiters(Count))
    IN Cardinality(OnTheirWay) >= IF units < sleepers THEN units ELSE sleepers

(* Units that are there while threads sleep do not stay: they are taken, or *)
(* the sleepers get up.                                                     *)
SemDelivered == (count > 0 /\ Waiters(Count) # {}) ~> (count = 0 \/ Waiters(Count) = {})
=============================================================================
