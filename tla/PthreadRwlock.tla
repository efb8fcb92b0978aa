---------------------------- MODULE PthreadRwlock ----------------------------
(***************************************************************************)
(* The write-preferring reader-writer lock of the untrusted thread library  *)
(* (untrusted/pthread/nc_rwlock.c).  All fields of a lock are used under    *)
(* its mutex only, so an action is one critical section: from taking the    *)
(* mutex to releasing it or to going to sleep on one of the two condition   *)
(* variables (PthreadCondvar models both).  A thread that is let go by a    *)
(* condition variable, whether by a signal, spuriously or by a timeout, has *)
(* the mutex yet to take: meanwhile others get in.                          *)
(***************************************************************************)
EXTENDS Integers, FiniteSets

CONSTANTS Thread, Lock, NoThread, MaxReads

(* What the constants must be.                                              *)
RwlockConstants ==
    /\ IsFiniteSet(Thread) /\ IsFiniteSet(Lock) /\ Lock # {}
    /\ NoThread \notin Thread /\ MaxReads \in Nat \ {0}

VARIABLES
    writer_thread_id, writers_waiting, reader_count,    \* per lock
    thread_rdlock_count,    \* per thread, over all locks
    reading,                \* how often each thread has each lock for reading (history)
    pc, call                \* per thread: where it waits, and for what

lockVars == <<writer_thread_id, writers_waiting, reader_count>>
vars == <<lockVars, thread_rdlock_count, reading, pc, call>>

NoCall == [lock |-> CHOOSE l \in Lock : TRUE, timed |-> FALSE]

(* "reader" and "writer" sleep on read_possible and write_possible; "up"    *)
(* has been let go, "late" by its timeout.                                  *)
TypeOK ==
    /\ writer_thread_id \in [Lock -> Thread \cup {NoThread}]
    /\ writers_waiting \in [Lock -> 0 .. Cardinality(Thread)]
    /\ reader_count \in [Lock -> 0 .. MaxReads * Cardinality(Thread)]
    /\ thread_rdlock_count \in [Thread -> 0 .. MaxReads * Cardinality(Lock)]
    /\ reading \in [Thread -> [Lock -> 0 .. MaxReads]]
    /\ pc \in [Thread -> {"user", "reader", "reader_up", "reader_late",
                          "writer", "writer_up", "writer_late"}]
    /\ call \in [Thread -> [lock : Lock, timed : BOOLEAN]]

Init ==
    /\ writer_thread_id = [l \in Lock |-> NoThread]
    /\ writers_waiting = [l \in Lock |-> 0]
    /\ reader_count = [l \in Lock |-> 0]
    /\ thread_rdlock_count = [t \in Thread |-> 0]
    /\ reading = [t \in Thread |-> [l \in Lock |-> 0]]
    /\ pc = [t \in Thread |-> "user"]
    /\ call = [t \in Thread |-> NoCall]

-----------------------------------------------------------------------------
write_lock_available(l) == writer_thread_id[l] = NoThread /\ reader_count[l] = 0

read_lock_available(t, l) ==
    /\ writer_thread_id[l] = NoThread
    /\ writers_waiting[l] = 0 \/ thread_rdlock_count[t] > 0

Waits(t, label, l, timed) ==
    /\ pc' = [pc EXCEPT ![t] = label]
    /\ call' = [call EXCEPT ![t] = [lock |-> l, timed |-> timed]]

Returns(t) ==
    /\ pc' = [pc EXCEPT ![t] = "user"]
    /\ call' = [call EXCEPT ![t] = NoCall]

(* pthread_cond_signal() lets one of the sleepers go, broadcast all.        *)
Sleepers(label, l) == {t \in Thread : pc[t] = label /\ call[t].lock = l}
Release(S, up) == pc' = [t \in Thread |-> IF t \in S THEN up ELSE pc[t]]

-----------------------------------------------------------------------------
(* rdlock_internal(): one round of the loop under the mutex.                *)
TakeRead(t, l) ==
    /\ reader_count' = [reader_count EXCEPT ![l] = @ + 1]
    /\ thread_rdlock_count' = [thread_rdlock_count EXCEPT ![t] = @ + 1]
    /\ reading' = [reading EXCEPT ![t][l] = @ + 1]
    /\ Returns(t)
    /\ UNCHANGED <<writer_thread_id, writers_waiting>>

RdlockRound(t, l, try, timed) ==
    \/ read_lock_available(t, l) /\ TakeRead(t, l)
    \/ /\ ~read_lock_available(t, l)
       /\ IF try THEN Returns(t) ELSE Waits(t, "reader", l, timed)
       /\ UNCHANGED <<lockVars, thread_rdlock_count, reading>>

rdlock_internal(t, l, try, timed) ==
    /\ pc[t] = "user"
    /\ writer_thread_id[l] # t
    /\ reading[t][l] < MaxReads
    /\ ~(try /\ timed)
    /\ RdlockRound(t, l, try, timed)

ReaderRelock(t) == pc[t] = "reader_up" /\ RdlockRound(t, call[t].lock, FALSE, call[t].timed)

(* The timeout makes the call return, whatever has become of the lock.      *)
ReaderTimedOut(t) ==
    /\ pc[t] = "reader_late"
    /\ Returns(t)
    /\ UNCHANGED <<lockVars, thread_rdlock_count, reading>>

-----------------------------------------------------------------------------
(* rwlock_internal(): n is writers_waiting less the caller himself.         *)
WrlockRound(t, l, try, timed, n) ==
    /\ \/ /\ write_lock_available(l)
          /\ writer_thread_id' = [writer_thread_id EXCEPT ![l] = t]
          /\ writers_waiting' = [writers_waiting EXCEPT ![l] = n]
          /\ Returns(t)
       \/ /\ ~write_lock_available(l)
          /\ writers_waiting' = [writers_waiting EXCEPT ![l] = IF try THEN n ELSE n + 1]
          /\ IF try THEN Returns(t) ELSE Waits(t, "writer", l, timed)
          /\ UNCHANGED writer_thread_id
    /\ UNCHANGED <<reader_count, thread_rdlock_count, reading>>

rwlock_internal(t, l, try, timed) ==
    /\ pc[t] = "user"
    /\ writer_thread_id[l] # t
    /\ reading[t][l] = 0
    /\ ~(try /\ timed)
    /\ WrlockRound(t, l, try, timed, writers_waiting[l])

WriterRelock(t) ==
    LET l == call[t].lock IN
    /\ pc[t] = "writer_up"
    /\ WrlockRound(t, l, FALSE, call[t].timed, writers_waiting[l] - 1)

(* Mutant of WriterTimedOut: the count is left as it is.                    *)
TimedOutStillCounted(t) ==
    /\ pc[t] = "writer_late"
    /\ Returns(t)
    /\ UNCHANGED <<lockVars, thread_rdlock_count, reading>>

WriterTimedOut(t) ==
    /\ pc[t] = "writer_late"
    /\ writers_waiting' = [writers_waiting EXCEPT ![call[t].lock] = @ - 1]
    /\ Returns(t)
    /\ UNCHANGED <<writer_thread_id, reader_count, thread_rdlock_count, reading>>

-----------------------------------------------------------------------------
(* The condition variables let a thread go without a signal.                *)
Unsignaled(t) ==
    /\ \/ pc[t] = "reader" /\ Release({t}, "reader_up")
       \/ pc[t] = "reader" /\ call[t].timed /\ Release({t}, "reader_late")
       \/ pc[t] = "writer" /\ Release({t}, "writer_up")
       \/ pc[t] = "writer" /\ call[t].timed /\ Release({t}, "writer_late")
    /\ UNCHANGED <<lockVars, thread_rdlock_count, reading, call>>

SignalWriter(l) ==
    \/ Sleepers("writer", l) = {} /\ UNCHANGED pc
    \/ \E w \in Sleepers("writer", l) : Release({w}, "writer_up")

(* pthread_rwlock_unlock() by a thread that has the lock.                   *)
UnlockWrite(t, l) ==
    /\ pc[t] = "user"
    /\ writer_thread_id[l] = t
    /\ writer_thread_id' = [writer_thread_id EXCEPT ![l] = NoThread]
    /\ IF writers_waiting[l] > 0 THEN SignalWriter(l)
                                 ELSE Release(Sleepers("reader", l), "reader_up")
    /\ UNCHANGED <<writers_waiting, reader_count, thread_rdlock_count, reading, call>>

(* Mutant of UnlockRead: only a thread's last read lock is a reason to wake.*)
UnlockReadOfThread(t, l) ==
    /\ pc[t] = "user"
    /\ reading[t][l] > 0
    /\ reader_count' = [reader_count EXCEPT ![l] = @ - 1]
    /\ thread_rdlock_count' = [thread_rdlock_count EXCEPT ![t] = @ - 1]
    /\ reading' = [reading EXCEPT ![t][l] = @ - 1]
    /\ IF thread_rdlock_count'[t] = 0 /\ writers_waiting[l] > 0 THEN SignalWriter(l) ELSE UNCHANGED pc
    /\ UNCHANGED <<writer_thread_id, writers_waiting, call>>

UnlockRead(t, l) ==
    /\ pc[t] = "user"
    /\ reading[t][l] > 0
    /\ reader_count' = [reader_count EXCEPT ![l] = @ - 1]
    /\ thread_rdlock_count' = [thread_rdlock_count EXCEPT ![t] = @ - 1]
    /\ reading' = [reading EXCEPT ![t][l] = @ - 1]
    /\ IF reader_count'[l] = 0 /\ writers_waiting[l] > 0 THEN SignalWriter(l) ELSE UNCHANGED pc
    /\ UNCHANGED <<writer_thread_id, writers_waiting, call>>

RwCall(t) ==
    \E l \in Lock :
        \/ \E try, timed \in BOOLEAN : rdlock_internal(t, l, try, timed) \/ rwlock_internal(t, l, try, timed)
        \/ UnlockWrite(t, l)
        \/ UnlockRead(t, l)

RwStep(t) == ReaderRelock(t) \/ ReaderTimedOut(t) \/ WriterRelock(t) \/ WriterTimedOut(t)

Next == \E t \in Thread : RwCall(t) \/ RwStep(t) \/ Unsignaled(t)

Spec == Init /\ [][Next]_vars

(* A thread that is let go takes the mutex in the end, and a program that   *)
(* holds a lock gives it back.  The second is the programs' part; without   *)
(* it nobody could promise anything.                                        *)
FairSpec ==
    /\ Spec
    /\ \A t \in Thread : WF_vars(RwStep(t))
    /\ \A t \in Thread, l \in Lock : WF_vars(UnlockWrite(t, l) \/ UnlockRead(t, l))

-----------------------------------------------------------------------------
(* A writer is alone, and the counts are those of the threads, also for     *)
(* threads that give up waiting: an error in writers_waiting would shut the *)
(* readers out, or the preference for writers off.                          *)
CountsExact ==
    \A l \in Lock :
        /\ writer_thread_id[l] # NoThread => reader_count[l] = 0
        /\ reader_count[l] > 0 <=> \E t \in Thread : reading[t][l] > 0
        /\ writers_waiting[l] = Cardinality({t \in Thread :
              call[t].lock = l /\ pc[t] \in {"writer", "writer_up", "writer_late"}})

(* While writers sleep on a free lock, one of them is up already.           *)
WriterWakePending ==
    \A l \in Lock :
        write_lock_available(l) /\ Sleepers("writer", l) # {} => Sleepers("writer_up", l) # {}

(* VIOLATED.  The comment in pthread_rwlock_unlock() says of the waiting    *)
(* readers that all of them "should be able to make progress now that the   *)
(* write lock is no longer held".  But they are woken only by an unlock     *)
(* that sees no waiting writer: a writer who has timed out still counts     *)
(* until he has the mutex, and when he leaves he wakes nobody.              *)
ReadersMakeProgress ==
    \A t \in Thread :
        (pc[t] = "reader") ~> (pc[t] # "reader" \/ writer_thread_id[call[t].lock] # NoThread
                                                \/ writers_waiting[call[t].lock] > 0)
=============================================================================
