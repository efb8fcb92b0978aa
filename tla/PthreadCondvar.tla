---------------------------- MODULE PthreadCondvar ----------------------------
(***************************************************************************)
(* The condition variable of the untrusted thread library                   *)
(* (untrusted/pthread/nc_condvar.c) together with its mutex: a sequence     *)
(* number that every pulse increments, and a futex on it.  A waiter reads   *)
(* the number, releases the mutex, sleeps as long as the number is the same *)
(* and takes the mutex again.                                               *)
(*                                                                          *)
(* The number wraps at 2^32; MaxPulses keeps it below, so that the wakeup   *)
(* the source gives up on ("called an exact multiple of 2^32 times") is     *)
(* outside the model.                                                       *)
(***************************************************************************)
EXTENDS PthreadMutex

CONSTANTS
    Cond,         \* the address of sequence_number
    Waiter,       \* the threads that wait on the condition variable
    Pulser,       \* the threads that signal and broadcast
    MaxPulses

ASSUME CondAssumption ==
    /\ IsFiniteSet(Thread)
    /\ Cond \in Addr \ {Mutex}
    /\ Waiter \subseteq Thread /\ Pulser \subseteq Thread
    /\ MaxPulses \in Nat

VARIABLES
    cwait,     \* per thread: old_value and abstime of its wait
    pulsed     \* per thread: how many its pulse lets go, and who was waiting
               \* when it began and is in that wait still (history)

condVars == <<cwait, pulsed>>
vars == <<futexVars, mutexVars, condVars>>

sequence_number == word[Cond]
NoWait == [old_value |-> 0, timed |-> FALSE]
NoPulse == [count |-> 0, before |-> {}]
CondLabels == {"cw_futex", "cw_asleep", "pulse", "pulse_wake"}

TypeOK ==
    /\ word[Mutex] \in UNLOCKED .. LOCKED_WITH_WAITERS
    /\ word[Cond] \in 0 .. MaxPulses
    /\ asleep \in [Thread -> Addr \cup {NoAddr}]
    /\ woken \in SUBSET Thread
    /\ owner_thread_id \in Thread \cup {NoThread}
    /\ recursion_counter \in 0 .. MaxDepth
    /\ pc \in [Thread -> {"user"} \cup MutexLabels \cup CondLabels]
    /\ \A t \in Thread : op[t].ret \in {"user", "cw_futex"}
    /\ depth \in [Thread -> 0 .. MaxDepth]
    /\ \A t \in Thread : pulsed[t].before \subseteq Thread

Init ==
    /\ FutexInit([a \in Addr |-> 0])
    /\ MutexInit
    /\ cwait = [t \in Thread |-> NoWait]
    /\ pulsed = [t \in Thread |-> NoPulse]

(* Waiting: the mutex is released, or about to be, and nothing has ended    *)
(* the wait.                                                                *)
Waiting(t) ==
    \/ pc[t] \in {"unlock", "sub", "store", "wake"} /\ op[t].ret = "cw_futex"
    \/ pc[t] = "cw_futex"
    \/ pc[t] = "cw_asleep" /\ t \notin woken

-----------------------------------------------------------------------------
(* pthread_cond_timedwait_abs() reads the number with the mutex held ...    *)
pthread_cond_timedwait_abs(t, timed) ==
    /\ At(t, "user")
    /\ t \in Waiter
    /\ depth[t] = 1
    /\ cwait' = [cwait EXCEPT ![t] = [old_value |-> sequence_number, timed |-> timed]]
    /\ Call(t, UnlockEntry, FALSE, FALSE, "cw_futex")
    /\ UNCHANGED <<futexVars, mutex_type, owner_thread_id, recursion_counter, depth, pulsed>>

(* ... and unlocks it; sleeps if nothing has happened in between, and locks *)
(* the mutex again however the sleep ends.                                  *)
Relock(t) ==
    /\ Call(t, LockEntry, FALSE, FALSE, "user")
    /\ cwait' = [cwait EXCEPT ![t] = NoWait]
    /\ pulsed' = [u \in Thread |-> [pulsed[u] EXCEPT !.before = @ \ {t}]]

CondFutexWait(t) ==
    /\ At(t, "cw_futex")
    /\ \/ /\ FutexBlock(t, Cond, cwait[t].old_value)
          /\ Goto(t, "cw_asleep")
          /\ UNCHANGED <<op, condVars>>
       \/ FutexMismatch(t, Cond, cwait[t].old_value) /\ Relock(t)
       \/ cwait[t].timed /\ Relock(t) /\ UNCHANGED futexVars
    /\ UNCHANGED <<mutex_type, owner_thread_id, recursion_counter, depth>>

CondWoken(t) ==
    /\ At(t, "cw_asleep")
    /\ FutexReturn(t)
    /\ Relock(t)
    /\ UNCHANGED <<mutex_type, owner_thread_id, recursion_counter, depth>>

(* A timeout or a spurious wakeup.                                          *)
CondGiveUp(t) ==
    /\ At(t, "cw_asleep")
    /\ FutexGiveUp(t, Cond)
    /\ Relock(t)
    /\ UNCHANGED <<mutex_type, owner_thread_id, recursion_counter, depth>>

-----------------------------------------------------------------------------
(* pthread_cond_signal() and pthread_cond_broadcast(), which need not hold  *)
(* the mutex: pulse() increments the number, then wakes.                    *)
pulse(t, count) ==
    /\ At(t, "user")
    /\ t \in Pulser
    /\ sequence_number + Cardinality({u \in Thread : At(u, "pulse")}) < MaxPulses
    /\ Goto(t, "pulse")
    /\ pulsed' = [pulsed EXCEPT ![t] = [count |-> count, before |-> {u \in Thread : Waiting(u)}]]
    /\ UNCHANGED <<futexVars, mutex_type, owner_thread_id, recursion_counter, op, depth, cwait>>

(* Mutant of PulseIncrement.                                                *)
PulseWithoutIncrement(t) ==
    /\ At(t, "pulse")
    /\ Goto(t, "pulse_wake")
    /\ UNCHANGED <<futexVars, mutex_type, owner_thread_id, recursion_counter, op, depth, condVars>>

PulseIncrement(t) ==
    /\ At(t, "pulse")
    /\ Store(Cond, sequence_number + 1)
    /\ Goto(t, "pulse_wake")
    /\ UNCHANGED <<mutex_type, owner_thread_id, recursion_counter, op, depth, condVars>>

PulseWake(t) ==
    /\ At(t, "pulse_wake")
    /\ FutexWake(Cond, pulsed[t].count)
    /\ pulsed' = [pulsed EXCEPT ![t] = NoPulse]
    /\ Goto(t, "user")
    /\ UNCHANGED <<mutex_type, owner_thread_id, recursion_counter, op, depth, cwait>>

CondCall(t) ==
    \/ \E timed \in BOOLEAN : pthread_cond_timedwait_abs(t, timed)
    \/ \E count \in {1, Cardinality(Thread)} : pulse(t, count)

CondStep(t) ==
    \/ CondFutexWait(t) \/ CondWoken(t) \/ PulseIncrement(t) \/ PulseWake(t)

Step(t) == (MutexStep(t) /\ UNCHANGED condVars) \/ CondStep(t)

Next ==
    \E t \in Thread :
        \/ (MutexCall(t) \/ LockGiveUp(t)) /\ UNCHANGED condVars
        \/ CondCall(t)
        \/ CondGiveUp(t)
        \/ Step(t)

Spec == Init /\ [][Next]_vars

(* A thread inside the library is run by the host whenever it can go on.    *)
(* The program need not call anything, and no timeout has to happen.        *)
FairSpec == Spec /\ \A t \in Thread : WF_vars(Step(t))

-----------------------------------------------------------------------------
(* Whether the wait of a thread goes on: it sleeps, or will when it gets to *)
(* its futex_wait(), as the number is still the one it has read.            *)
StaysAsleep(t) ==
    \/ asleep[t] = Cond
    \/ Waiting(t) /\ pc[t] # "cw_asleep" /\ cwait[t].old_value = sequence_number

(* A pulse lets go whom it should: when it returns, of those who waited     *)
(* when it was called a broadcast leaves none asleep, and a signal one less,*)
(* or it has woken another waiter in his place.                             *)
PulseReleases ==
    [][\A t \in Thread :
          At(t, "pulse_wake") /\ pc'[t] = "user" =>
              LET still == {u \in pulsed[t].before : StaysAsleep(u)'} IN
              \/ still = {}
              \/ pulsed[t].count = 1 /\ (still # pulsed[t].before \/ woken' # woken)]_vars
=============================================================================
