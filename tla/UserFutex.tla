------------------------------ MODULE UserFutex ------------------------------
(***************************************************************************)
(* The wait queue behind the futex system calls (service_runtime/           *)
(* sys_futex.c): one list of waiting threads under futex_wait_list_mu and   *)
(* one condition variable per thread.  A wake takes threads off the list    *)
(* and signals them; a thread whose wait timed out, or woke up spuriously,  *)
(* takes itself off, unless a wake was faster.                              *)
(***************************************************************************)
EXTENDS Integers, FiniteSets

CONSTANTS Thread, Addr, Value, NoAddr, NoThread, MaxCalls

(* What the constants must be.                                              *)
UserFutexConstants ==
    /\ IsFiniteSet(Thread) /\ NoThread \notin Thread
    /\ NoAddr \notin Addr /\ MaxCalls \in Nat

VARIABLES
    word,       \* user memory
    mu,         \* holder of futex_wait_list_mu
    queue,      \* futex_wait_list_head: maps its threads to those ahead of them
    pc,         \* where each thread is in NaClSysFutexWaitAbs()
    arg,        \* its arguments: addr, value and whether abstime_ptr is set
    signaled,   \* futex_condvar has been signaled for a thread blocked on it
    status,     \* sync_status of the condition variable, then the result
    calls,      \* calls made so far, at most MaxCalls
    wakes,      \* sum of the counts NaClSysFutexWake() has returned
    oks         \* waits that have returned 0

vars == <<word, mu, queue, pc, arg, signaled, status, calls, wakes, oks>>

NoArg == [addr |-> NoAddr, value |-> CHOOSE v \in Value : TRUE, timed |-> FALSE]
Queued(t) == t \in DOMAIN queue

TypeOK ==
    /\ word \in [Addr -> Value]
    /\ mu \in Thread \cup {NoThread}
    /\ DOMAIN queue \subseteq Thread
    /\ \A t \in DOMAIN queue : queue[t] \subseteq DOMAIN queue \ {t}
    /\ pc \in [Thread -> {"user", "lock", "read", "enqueue", "blocked", "relock", "check"}]
    /\ \A t \in Thread : arg[t].addr \in Addr \cup {NoAddr}
    /\ signaled \in SUBSET Thread
    /\ status \in [Thread -> {"OK", "ETIMEDOUT", "EWOULDBLOCK"}]
    /\ {calls, wakes, oks} \subseteq 0 .. MaxCalls

Init ==
    /\ word \in [Addr -> Value]
    /\ mu = NoThread
    /\ queue = [t \in {} |-> {}]
    /\ pc = [t \in Thread |-> "user"]
    /\ arg = [t \in Thread |-> NoArg]
    /\ signaled = {}
    /\ status = [t \in Thread |-> "OK"]
    /\ calls = 0 /\ wakes = 0 /\ oks = 0

Goto(t, label) == pc' = [pc EXCEPT ![t] = label]
LockList(t) == mu = NoThread /\ mu' = t
UnlockList(t) == mu' = NoThread

(* The list is doubly linked: a thread joins it behind all the others, and  *)
(* those that leave it leave the others in their order.                     *)
ListAddNodeAtEnd(t) ==
    [u \in DOMAIN queue \cup {t} |-> IF u = t THEN DOMAIN queue ELSE queue[u]]
ListRemoveNode(leaving) == [u \in DOMAIN queue \ leaving |-> queue[u] \ leaving]

-----------------------------------------------------------------------------
(* Untrusted code stores to the word at any time, under no lock.            *)
UserStore(t, a, v) ==
    /\ pc[t] = "user"
    /\ word[a] # v
    /\ calls < MaxCalls
    /\ calls' = calls + 1
    /\ word' = [word EXCEPT ![a] = v]
    /\ UNCHANGED <<mu, queue, pc, arg, signaled, status, wakes, oks>>

NaClSysFutexWaitAbs(t, a, v, timed) ==
    /\ pc[t] = "user"
    /\ calls < MaxCalls
    /\ calls' = calls + 1
    /\ arg' = [arg EXCEPT ![t] = [addr |-> a, value |-> v, timed |-> timed]]
    /\ Goto(t, "lock")
    /\ UNCHANGED <<word, mu, queue, signaled, status, wakes, oks>>

WaitLock(t) ==
    /\ pc[t] = "lock"
    /\ LockList(t)
    /\ Goto(t, "read")
    /\ UNCHANGED <<word, queue, arg, signaled, status, calls, wakes, oks>>

(* Mutant of WaitRead.                                                      *)
MismatchKeepsLock(t) ==
    /\ pc[t] = "read"
    /\ \/ /\ word[arg[t].addr] = arg[t].value
          /\ Goto(t, "enqueue")
          /\ UNCHANGED <<arg, status>>
       \/ /\ word[arg[t].addr] # arg[t].value
          /\ Goto(t, "user")
          /\ arg' = [arg EXCEPT ![t] = NoArg]
          /\ status' = [status EXCEPT ![t] = "EWOULDBLOCK"]
    /\ UNCHANGED <<word, mu, queue, signaled, calls, wakes, oks>>

(* read_value; on a mismatch the call unlocks and returns.                  *)
WaitRead(t) ==
    /\ pc[t] = "read"
    /\ \/ /\ word[arg[t].addr] = arg[t].value
          /\ Goto(t, "enqueue")
          /\ UNCHANGED <<mu, arg, status>>
       \/ /\ word[arg[t].addr] # arg[t].value
          /\ UnlockList(t)
          /\ Goto(t, "user")
          /\ arg' = [arg EXCEPT ![t] = NoArg]
          /\ status' = [status EXCEPT ![t] = "EWOULDBLOCK"]
    /\ UNCHANGED <<word, queue, signaled, calls, wakes, oks>>

(* futex_wait_addr, the list node, and the wait on the own condition        *)
(* variable, which releases the mutex and blocks in one step.               *)
WaitEnqueue(t) ==
    /\ pc[t] = "enqueue"
    /\ queue' = ListAddNodeAtEnd(t)
    /\ UnlockList(t)
    /\ Goto(t, "blocked")
    /\ UNCHANGED <<word, arg, signaled, status, calls, wakes, oks>>

(* The condition variable lets the thread go: signaled, timed out (also     *)
(* when the signal arrives at the same time) or spuriously.                 *)
CondReturn(t, s) ==
    /\ pc[t] = "blocked"
    /\ s = "ETIMEDOUT" => arg[t].timed
    /\ signaled' = signaled \ {t}
    /\ status' = [status EXCEPT ![t] = s]
    /\ Goto(t, "relock")
    /\ UNCHANGED <<word, mu, queue, arg, calls, wakes, oks>>

CondRelock(t) ==
    /\ pc[t] = "relock"
    /\ LockList(t)
    /\ Goto(t, "check")
    /\ UNCHANGED <<word, queue, arg, signaled, status, calls, wakes, oks>>

(* Mutant of Result.                                                        *)
TimeoutReported(t) == status[t]

(* futex_wait_list_node.next == NULL tells that a wake removed the thread:  *)
(* the result is 0 even when the condition variable reported a timeout.     *)
(* Otherwise the thread removes itself.                                     *)
Result(t) == IF Queued(t) THEN status[t] ELSE "OK"

(* Mutant of WaitCheck.                                                     *)
NodeStaysQueued(t) ==
    /\ pc[t] = "check"
    /\ status' = [status EXCEPT ![t] = Result(t)]
    /\ oks' = IF Result(t) = "OK" THEN oks + 1 ELSE oks
    /\ arg' = [arg EXCEPT ![t] = NoArg]
    /\ UnlockList(t)
    /\ Goto(t, "user")
    /\ UNCHANGED <<word, queue, signaled, calls, wakes>>

WaitCheck(t) ==
    /\ pc[t] = "check"
    /\ status' = [status EXCEPT ![t] = Result(t)]
    /\ queue' = IF Queued(t) THEN ListRemoveNode({t}) ELSE queue
    /\ oks' = IF Result(t) = "OK" THEN oks + 1 ELSE oks
    /\ arg' = [arg EXCEPT ![t] = NoArg]
    /\ UnlockList(t)
    /\ Goto(t, "user")
    /\ UNCHANGED <<word, signaled, calls, wakes>>

(* The threads a wake of n threads at a takes off the list: those with      *)
(* fewer than n waiters of that address ahead of them.                      *)
Waiting(a) == {t \in DOMAIN queue : arg[t].addr = a}
Woken(a, n) == {t \in Waiting(a) : Cardinality(queue[t] \cap Waiting(a)) < n}

(* Everything the loop touches is under futex_wait_list_mu: one step.       *)
(* A signal for a thread that no longer blocks on its condition variable    *)
(* has no effect.                                                           *)
TakeAndSignal(a, n) ==
    /\ queue' = ListRemoveNode(Woken(a, n))
    /\ signaled' = signaled \cup {u \in Woken(a, n) : pc[u] = "blocked"}
    /\ wakes' = wakes + Cardinality(Woken(a, n))
    /\ UNCHANGED <<word, mu, pc, arg, status, oks>>

(* Mutant of NaClSysFutexWake.                                              *)
WakeOutsideLock(t, a, n) ==
    /\ pc[t] = "user"
    /\ calls < MaxCalls
    /\ calls' = calls + 1
    /\ TakeAndSignal(a, n)

NaClSysFutexWake(t, a, n) ==
    /\ mu = NoThread
    /\ pc[t] = "user"
    /\ calls < MaxCalls
    /\ calls' = calls + 1
    /\ TakeAndSignal(a, n)

ThreadStep(t) ==
    \/ WaitLock(t) \/ WaitRead(t) \/ WaitEnqueue(t) \/ CondRelock(t) \/ WaitCheck(t)

Next ==
    \E t \in Thread :
        \/ \E a \in Addr, v \in Value : UserStore(t, a, v)
        \/ \E a \in Addr, v \in Value, timed \in BOOLEAN : NaClSysFutexWaitAbs(t, a, v, timed)
        \/ \E a \in Addr, n \in 1 .. Cardinality(Thread) : NaClSysFutexWake(t, a, n)
        \/ \E s \in {"OK", "ETIMEDOUT"} : CondReturn(t, s)
        \/ ThreadStep(t)

Spec == Init /\ [][Next]_vars

(* The host runs every thread that can run; a signaled condition variable   *)
(* lets its waiter go.  Nothing makes a timeout or a spurious wakeup happen *)
(* and untrusted code need not call anything.  MaxCalls ends the contention *)
(* for the mutex, so weak fairness is enough.                               *)
FairStep(t) == ThreadStep(t) \/ (t \in signaled /\ CondReturn(t, "OK"))

FairSpec == Spec /\ \A t \in Thread : WF_vars(FairStep(t))

-----------------------------------------------------------------------------
(* No wake is lost: every thread that NaClSysFutexWake() has counted        *)
(* returns 0 from its wait, or is still on its way out.  A wait that        *)
(* answered ETIMEDOUT after it was counted would break this.                *)
InFlight == {t \in Thread : pc[t] \in {"blocked", "relock", "check"} /\ ~Queued(t)}
CountedWaitsSucceed == wakes <= oks + Cardinality(InFlight)

(* The queue implements the futex calls: a thread counts as asleep from the *)
(* moment it has found the word unchanged, and until someone takes it off   *)
(* the list.  A call of NaClSysFutexWake() is a wake, also when it finds no *)
(* thread on the list: then none may count as asleep.                       *)
Futexes == INSTANCE Futex WITH
    asleep <- [t \in Thread |-> IF Queued(t) \/ pc[t] = "enqueue" THEN arg[t].addr ELSE NoAddr],
    woken <- InFlight
WakeCall == calls' # calls /\ UNCHANGED <<word, pc>>
ImplementsFutex ==
    /\ Futexes!FutexSpec
    /\ [][WakeCall => \E a \in Addr, n \in 1 .. Cardinality(Thread) : Futexes!FutexWake(a, n)]_vars

(* Threads that a wake has taken off the list return to their callers: once *)
(* the calls end, all of them have.                                         *)
WokenThreadsReturn == (InFlight # {}) ~> (InFlight = {})
=============================================================================
