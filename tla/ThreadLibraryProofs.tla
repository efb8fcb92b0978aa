------------------------- MODULE ThreadLibraryProofs -------------------------
(***************************************************************************)
(* Proofs about the reader-writer lock, the semaphore and the wait queue   *)
(* of the futex calls, for any number of threads, locks and addresses.  They *)
(* are about PthreadRwlock, PthreadSemaphore and UserFutex as MCPthread    *)
(* instantiates them; what PthreadMutexProofs shows of the mutex and the   *)
(* condition variable is used at the end, for the types.                   *)
(***************************************************************************)
EXTENDS MCPthread, PthreadMutexProofs

USE DEF libraryVars, vars, futexVars, mutexVars, condVars, semaphoreVars, rwlockVars, userVars

\* An instance has a Cardinality and an IsFiniteSet of its own.
LEMMA InstanceSets ==
  ASSUME NEW S
  PROVE  /\ Rwlock!Cardinality(S) = Cardinality(S)
         /\ Semaphore!Cardinality(S) = Cardinality(S)
         /\ Rwlock!IsFiniteSet(S) <=> IsFiniteSet(S)
         /\ Semaphore!IsFiniteSet(S) <=> IsFiniteSet(S)
<1>1. Rwlock!Cardinality(S) = Cardinality(S)
  BY DEF Rwlock!Cardinality, Cardinality
<1>2. Semaphore!Cardinality(S) = Cardinality(S)
  BY DEF Semaphore!Cardinality, Cardinality
<1>3. Rwlock!IsFiniteSet(S) <=> IsFiniteSet(S)
  BY DEF Rwlock!IsFiniteSet, IsFiniteSet
<1>4. Semaphore!IsFiniteSet(S) <=> IsFiniteSet(S)
  BY DEF Semaphore!IsFiniteSet, IsFiniteSet
<1> QED BY <1>1, <1>2, <1>3, <1>4

-----------------------------------------------------------------------------
(* The reader-writer lock.                                                 *)

\* What the constants must be.
LEMMA RwConstants ==
  /\ IsFiniteSet(Thread) /\ IsFiniteSet(Lock) /\ Lock # {}
  /\ NoThread \notin Thread /\ MaxReads \in Nat \ {0}
BY LibraryConstants, InstanceSets DEF Rwlock!RwlockConstants

\* A thread that makes no call has an arbitrary one recorded.
LEMMA RwNoCall == Rwlock!NoCall \in [lock : Lock, timed : BOOLEAN]
BY RwConstants DEF Rwlock!NoCall

\* Where a thread can be.
RwLabels == {"user", "reader", "reader_up", "reader_late", "writer", "writer_up", "writer_late"}

\* The types of the variables.
RwType ==
  /\ writer_thread_id \in [Lock -> Thread \cup {NoThread}]
  /\ writers_waiting \in [Lock -> Nat]
  /\ reader_count \in [Lock -> Nat]
  /\ thread_rdlock_count \in [Thread -> Nat]
  /\ reading \in [Thread -> [Lock -> 0 .. MaxReads]]
  /\ rw_pc \in [Thread -> RwLabels]
  /\ call \in [Thread -> [lock : Lock, timed : BOOLEAN]]

\* The read locks there are: the i-th one a thread has of a lock.
OfLock(l) == {p \in Thread \X (1 .. MaxReads) : p[2] <= reading[p[1]][l]}
OfThread(t) == {p \in Lock \X (1 .. MaxReads) : p[2] <= reading[t][p[1]]}

\* The counters count them.
ReadsCounted ==
  /\ \A l \in Lock : reader_count[l] = Cardinality(OfLock(l))
  /\ \A t \in Thread : thread_rdlock_count[t] = Cardinality(OfThread(t))

\* The writers that writers_waiting counts.
WaitingWriters(l) ==
  {t \in Thread : call[t].lock = l /\ rw_pc[t] \in {"writer", "writer_up", "writer_late"}}

\* writers_waiting counts them.
WritersCounted == \A l \in Lock : writers_waiting[l] = Cardinality(WaitingWriters(l))

\* A writer is alone.
WriterAlone == \A l \in Lock : writer_thread_id[l] # NoThread => reader_count[l] = 0

\* A thread that waits to read has room for another read lock.
ReadersHaveRoom ==
  \A t \in Thread : rw_pc[t] \in {"reader", "reader_up", "reader_late"} =>
    reading[t][call[t].lock] < MaxReads

\* The inductive invariant of the lock.
RwInv == RwType /\ ReadsCounted /\ WritersCounted /\ WriterAlone /\ ReadersHaveRoom

\* There is a bound to the read locks, as a thread has one to its own.
LEMMA ReadsFinite ==
  /\ IsFiniteSet(Thread \X (1 .. MaxReads)) /\ IsFiniteSet(Lock \X (1 .. MaxReads))
  /\ Cardinality(Thread \X (1 .. MaxReads)) = MaxReads * Cardinality(Thread)
  /\ Cardinality(Lock \X (1 .. MaxReads)) = MaxReads * Cardinality(Lock)
<1>1. IsFiniteSet(1 .. MaxReads) /\ Cardinality(1 .. MaxReads) = MaxReads
  BY RwConstants, FS_Interval
<1>2. Cardinality(Thread) \in Nat /\ Cardinality(Lock) \in Nat
  BY RwConstants, FS_CardinalityType
<1>3. /\ IsFiniteSet(Thread \X (1 .. MaxReads))
      /\ Cardinality(Thread \X (1 .. MaxReads)) = Cardinality(Thread) * MaxReads
  BY <1>1, RwConstants, FS_Product
<1>4. /\ IsFiniteSet(Lock \X (1 .. MaxReads))
      /\ Cardinality(Lock \X (1 .. MaxReads)) = Cardinality(Lock) * MaxReads
  BY <1>1, RwConstants, FS_Product
<1> QED BY <1>2, <1>3, <1>4, RwConstants

\* What the counters count can be counted.
LEMMA RwFinite ==
  ASSUME NEW l \in Lock, NEW t \in Thread
  PROVE  IsFiniteSet(OfLock(l)) /\ IsFiniteSet(OfThread(t))
              /\ IsFiniteSet(WaitingWriters(l))
<1>1. OfLock(l) \subseteq Thread \X (1 .. MaxReads)
            /\ OfThread(t) \subseteq Lock \X (1 .. MaxReads)
      /\ WaitingWriters(l) \subseteq Thread
  BY DEF OfLock, OfThread, WaitingWriters
<1> QED BY <1>1, ReadsFinite, RwConstants, FS_Subset

\* A thread gets a read lock.
LEMMA OneMoreRead ==
  ASSUME RwType, ReadsCounted, NEW t \in Thread, NEW l \in Lock,
         reading[t][l] < MaxReads,
         reading' = [reading EXCEPT ![t][l] = @ + 1],
         reader_count' = [reader_count EXCEPT ![l] = @ + 1],
         thread_rdlock_count' = [thread_rdlock_count EXCEPT ![t] = @ + 1]
  PROVE  ReadsCounted'
<1> DEFINE i == reading[t][l] + 1
<1>0. i \in 1 .. MaxReads /\ ~(i <= reading[t][l])
  BY RwConstants DEF RwType
<1>1. OfLock(l)' = OfLock(l) \cup {<<t, i>>} /\ <<t, i>> \notin OfLock(l)
  BY <1>0, RwConstants DEF OfLock, RwType
<1>2. \A k \in Lock : k # l => OfLock(k)' = OfLock(k)
  BY DEF OfLock
<1>3. OfThread(t)' = OfThread(t) \cup {<<l, i>>} /\ <<l, i>> \notin OfThread(t)
  BY <1>0, RwConstants DEF OfThread, RwType
<1>4. \A u \in Thread : u # t => OfThread(u)' = OfThread(u)
  BY DEF OfThread
<1>5. Cardinality(OfLock(l)') = Cardinality(OfLock(l)) + 1
  BY <1>1, RwFinite, FS_AddElement
<1>6. Cardinality(OfThread(t)') = Cardinality(OfThread(t)) + 1
  BY <1>3, RwFinite, FS_AddElement
<1>7. \A k \in Lock : reader_count'[k] = Cardinality(OfLock(k)')
  BY <1>2, <1>5 DEF ReadsCounted, RwType
<1>8. \A u \in Thread : thread_rdlock_count'[u] = Cardinality(OfThread(u)')
  BY <1>4, <1>6 DEF ReadsCounted, RwType
<1> QED BY <1>7, <1>8 DEF ReadsCounted

\* It gives one back.
LEMMA OneReadLess ==
  ASSUME RwType, ReadsCounted, NEW t \in Thread, NEW l \in Lock, reading[t][l] > 0,
         reading' = [reading EXCEPT ![t][l] = @ - 1],
         reader_count' = [reader_count EXCEPT ![l] = @ - 1],
         thread_rdlock_count' = [thread_rdlock_count EXCEPT ![t] = @ - 1]
  PROVE  /\ ReadsCounted'
         /\ reader_count[l] > 0 /\ thread_rdlock_count[t] > 0
<1> DEFINE i == reading[t][l]
<1>0. i \in 1 .. MaxReads
  BY RwConstants DEF RwType
<1>1. OfLock(l)' = OfLock(l) \ {<<t, i>>} /\ <<t, i>> \in OfLock(l)
  <2>1. \A u \in Thread, j \in 1 .. MaxReads :
          j <= reading'[u][l] <=> j <= reading[u][l] /\ ~(u = t /\ j = i)
    BY <1>0, RwConstants DEF RwType
  <2> QED BY <1>0, <2>1 DEF OfLock
<1>2. \A k \in Lock : k # l => OfLock(k)' = OfLock(k)
  BY DEF OfLock
<1>3. OfThread(t)' = OfThread(t) \ {<<l, i>>} /\ <<l, i>> \in OfThread(t)
  <2>1. \A k \in Lock, j \in 1 .. MaxReads :
          j <= reading'[t][k] <=> j <= reading[t][k] /\ ~(k = l /\ j = i)
    <3>1. \A k \in Lock : reading'[t][k] = IF k = l THEN i - 1 ELSE reading[t][k]
      BY DEF RwType
    <3> QED BY <1>0, <3>1, RwConstants
  <2> QED BY <1>0, <2>1 DEF OfThread
<1>4. \A u \in Thread : u # t => OfThread(u)' = OfThread(u)
  BY DEF OfThread
<1>5. Cardinality(OfLock(l)') = Cardinality(OfLock(l)) - 1 /\ Cardinality(OfLock(l)) # 0
  BY <1>1, RwFinite, FS_RemoveElement, FS_EmptySet
<1>6. Cardinality(OfThread(t)') = Cardinality(OfThread(t)) - 1
            /\ Cardinality(OfThread(t)) # 0
  BY <1>3, RwFinite, FS_RemoveElement, FS_EmptySet
<1>7. \A k \in Lock : reader_count'[k] = Cardinality(OfLock(k)')
  BY <1>2, <1>5 DEF ReadsCounted, RwType
<1>8. \A u \in Thread : thread_rdlock_count'[u] = Cardinality(OfThread(u)')
  BY <1>4, <1>6 DEF ReadsCounted, RwType
<1>9. reader_count[l] > 0 /\ thread_rdlock_count[t] > 0
  BY <1>5, <1>6 DEF ReadsCounted, RwType
<1> QED BY <1>7, <1>8, <1>9 DEF ReadsCounted

\* A thread that moves on leaves the types alone.
LEMMA RwMoves ==
  ASSUME RwType, NEW t \in Thread, NEW l \in Lock, NEW timed \in BOOLEAN,
         NEW label \in RwLabels,
         Rwlock!Returns(t) \/ Rwlock!Waits(t, label, l, timed)
  PROVE  rw_pc' \in [Thread -> RwLabels]
              /\ call' \in [Thread -> [lock : Lock, timed : BOOLEAN]]
<1>1. CASE Rwlock!Returns(t)
  BY <1>1, RwNoCall DEF RwType, RwLabels, Rwlock!Returns
<1>2. CASE Rwlock!Waits(t, label, l, timed)
  BY <1>2 DEF RwType, Rwlock!Waits
<1> QED BY <1>1, <1>2

\* The counters and the read locks are left alone together.
LEMMA ReadsSame ==
  ASSUME ReadsCounted, UNCHANGED <<reader_count, thread_rdlock_count, reading>>
  PROVE  ReadsCounted'
<1>1. \A l \in Lock : OfLock(l)' = OfLock(l)
  BY DEF OfLock
<1>2. \A t \in Thread : OfThread(t)' = OfThread(t)
  BY DEF OfThread
<1> QED BY <1>1, <1>2 DEF ReadsCounted

\* A reader takes the lock, or waits for it: a thread that does not wait to write.
LEMMA RdlockRoundKeeps ==
  ASSUME RwInv, NEW t \in Thread, NEW l \in Lock, NEW try \in BOOLEAN,
         NEW timed \in BOOLEAN,
         rw_pc[t] \in {"user", "reader_up"}, reading[t][l] < MaxReads, ~(try /\ timed),
         Rwlock!RdlockRound(t, l, try, timed)
  PROVE  RwInv'
<1>1. RwType'
  <2>1. rw_pc' \in [Thread -> RwLabels]
              /\ call' \in [Thread -> [lock : Lock, timed : BOOLEAN]]
    <3>1. Rwlock!Returns(t) \/ Rwlock!Waits(t, "reader", l, timed)
      BY DEF Rwlock!RdlockRound, Rwlock!TakeRead
    <3> QED BY <3>1, RwMoves DEF RwInv, RwLabels
  <2>2. reading' \in [Thread -> [Lock -> 0 .. MaxReads]]
        /\ reader_count' \in [Lock -> Nat] /\ thread_rdlock_count' \in [Thread -> Nat]
    <3>1. CASE Rwlock!TakeRead(t, l)
      BY <3>1, RwConstants DEF RwInv, RwType, Rwlock!TakeRead
    <3>2. CASE UNCHANGED <<reader_count, thread_rdlock_count, reading>>
      BY <3>2 DEF RwInv, RwType
    <3> QED BY <3>1, <3>2 DEF Rwlock!RdlockRound, Rwlock!lockVars
  <2> QED BY <2>1, <2>2 DEF RwInv, RwType, Rwlock!RdlockRound, Rwlock!TakeRead,
     Rwlock!lockVars
<1>2. ReadsCounted'
  <2>1. CASE Rwlock!TakeRead(t, l)
    BY <2>1, OneMoreRead DEF RwInv, Rwlock!TakeRead
  <2>2. CASE UNCHANGED <<reader_count, thread_rdlock_count, reading>>
    BY <2>2, ReadsSame DEF RwInv
  <2> QED BY <2>1, <2>2 DEF Rwlock!RdlockRound, Rwlock!lockVars
<1>3. WritersCounted'
  <2>1. \A k \in Lock : WaitingWriters(k)' = WaitingWriters(k)
    BY RwNoCall DEF RwInv, RwType, WaitingWriters, Rwlock!RdlockRound, Rwlock!TakeRead,
       Rwlock!Waits, Rwlock!Returns
  <2> QED BY <2>1 DEF RwInv, WritersCounted, Rwlock!RdlockRound, Rwlock!TakeRead,
     Rwlock!lockVars
<1>4. WriterAlone'
  BY RwConstants, RwNoCall DEF RwInv, WriterAlone, RwType, Rwlock!RdlockRound,
     Rwlock!TakeRead, Rwlock!read_lock_available, Rwlock!lockVars
<1>5. ReadersHaveRoom'
  BY RwConstants, RwNoCall DEF RwInv, ReadersHaveRoom, RwType, RwLabels,
     Rwlock!RdlockRound, Rwlock!TakeRead, Rwlock!read_lock_available, Rwlock!Waits,
     Rwlock!Returns
<1> QED BY <1>1, <1>2, <1>3, <1>4, <1>5 DEF RwInv

\* A writer takes the lock, or waits for it; n is the number of the others that wait.
LEMMA WrlockRoundKeeps ==
  ASSUME RwInv, NEW t \in Thread, NEW l \in Lock, NEW try \in BOOLEAN,
         NEW timed \in BOOLEAN, NEW n \in Nat,
         n = Cardinality(WaitingWriters(l) \ {t}),
         rw_pc[t] = "user" \/ (rw_pc[t] = "writer_up" /\ call[t].lock = l /\ ~try),
         Rwlock!WrlockRound(t, l, try, timed, n)
  PROVE  RwInv'
<1>1. RwType'
  <2>1. rw_pc' \in [Thread -> RwLabels]
              /\ call' \in [Thread -> [lock : Lock, timed : BOOLEAN]]
    <3>1. Rwlock!Returns(t) \/ Rwlock!Waits(t, "writer", l, timed)
      BY DEF Rwlock!WrlockRound
    <3> QED BY <3>1, RwMoves DEF RwInv, RwLabels
  <2>2. writer_thread_id' \in [Lock -> Thread \cup {NoThread}]
              /\ writers_waiting' \in [Lock -> Nat]
    <3>1. PICK m \in Nat : UNCHANGED writers_waiting
                \/ writers_waiting' = [writers_waiting EXCEPT ![l] = m]
      BY DEF Rwlock!WrlockRound
    <3>2. UNCHANGED writer_thread_id
                \/ writer_thread_id' = [writer_thread_id EXCEPT ![l] = t]
      BY DEF Rwlock!WrlockRound
    <3>3. writers_waiting' \in [Lock -> Nat]
      BY <3>1 DEF RwInv, RwType
    <3>4. writer_thread_id' \in [Lock -> Thread \cup {NoThread}]
      BY <3>2 DEF RwInv, RwType
    <3> QED BY <3>3, <3>4
  <2> QED BY <2>1, <2>2 DEF RwInv, RwType, Rwlock!WrlockRound
<1>2. ReadsCounted'
  BY ReadsSame DEF RwInv, Rwlock!WrlockRound
<1>3. WritersCounted'
  <2>1. \A k \in Lock : k # l => WaitingWriters(k)' = WaitingWriters(k)
    BY RwNoCall DEF RwInv, RwType, WaitingWriters, Rwlock!WrlockRound,
       Rwlock!write_lock_available, Rwlock!Waits, Rwlock!Returns
  <2>2. CASE rw_pc'[t] = "user" /\ writers_waiting' = [writers_waiting EXCEPT ![l] = n]
    <3>1. WaitingWriters(l)' = WaitingWriters(l) \ {t}
      BY <2>2 DEF RwInv, RwType, WaitingWriters, Rwlock!WrlockRound, Rwlock!Waits,
         Rwlock!Returns
    <3> QED BY <2>1, <2>2, <3>1 DEF RwInv, WritersCounted, RwType
  <2>3. CASE rw_pc'[t] = "writer"
              /\ writers_waiting' = [writers_waiting EXCEPT ![l] = n + 1]
    <3>1. WaitingWriters(l)' = (WaitingWriters(l) \ {t}) \cup {t}
      BY <2>3 DEF RwInv, RwType, WaitingWriters, Rwlock!WrlockRound, Rwlock!Waits,
         Rwlock!Returns
    <3>2. IsFiniteSet(WaitingWriters(l) \ {t})
      BY RwFinite, FS_RemoveElement
    <3>3. Cardinality(WaitingWriters(l)') = n + 1
      BY <3>1, <3>2, FS_AddElement
    <3> QED BY <2>1, <2>3, <3>3 DEF RwInv, WritersCounted, RwType
  <2> QED BY <2>2, <2>3 DEF RwInv, RwType, Rwlock!WrlockRound, Rwlock!Waits,
     Rwlock!Returns
<1>4. WriterAlone'
  BY RwConstants, RwNoCall DEF RwInv, WriterAlone, RwType, Rwlock!WrlockRound,
     Rwlock!write_lock_available
<1>5. ReadersHaveRoom'
  <2>1. \A u \in Thread : rw_pc'[u] \in {"reader", "reader_up", "reader_late"} =>
          rw_pc[u] = rw_pc'[u] /\ call'[u] = call[u]
    BY RwNoCall DEF RwInv, RwType, Rwlock!WrlockRound, Rwlock!Waits, Rwlock!Returns
  <2>2. UNCHANGED reading
    BY DEF Rwlock!WrlockRound
  <2> QED BY <2>1, <2>2 DEF RwInv, ReadersHaveRoom
<1> QED BY <1>1, <1>2, <1>3, <1>4, <1>5 DEF RwInv

\* A writer releases the lock, ...
LEMMA UnlockWriteKeeps ==
  ASSUME RwInv, NEW t \in Thread, NEW l \in Lock, Rwlock!UnlockWrite(t, l)
  PROVE  RwInv'
<1>1. RwType'
  BY RwNoCall DEF RwInv, RwType, RwLabels, Rwlock!UnlockWrite, Rwlock!SignalWriter,
     Rwlock!Release
<1>2. ReadsCounted'
  BY ReadsSame DEF RwInv, Rwlock!UnlockWrite
<1>3. WritersCounted'
  <2>1. \A k \in Lock : WaitingWriters(k)' = WaitingWriters(k)
    BY RwNoCall DEF RwInv, WaitingWriters, Rwlock!UnlockWrite, Rwlock!SignalWriter,
       Rwlock!Sleepers, Rwlock!Release
  <2> QED BY <2>1 DEF RwInv, WritersCounted, Rwlock!UnlockWrite
<1>4. WriterAlone'
  BY RwConstants, RwNoCall DEF RwInv, WriterAlone, Rwlock!UnlockWrite
<1>5. ReadersHaveRoom'
  BY RwNoCall DEF RwInv, ReadersHaveRoom, Rwlock!UnlockWrite, Rwlock!SignalWriter,
     Rwlock!Sleepers, Rwlock!Release
<1> QED BY <1>1, <1>2, <1>3, <1>4, <1>5 DEF RwInv

\* ... a reader gives back one of its read locks, ...
LEMMA UnlockReadKeeps ==
  ASSUME RwInv, NEW t \in Thread, NEW l \in Lock, Rwlock!UnlockRead(t, l)
  PROVE  RwInv'
<1>1. RwType'
  <2>1. reader_count[l] > 0 /\ thread_rdlock_count[t] > 0
    BY OneReadLess DEF RwInv, Rwlock!UnlockRead
  <2>2. reading' \in [Thread -> [Lock -> 0 .. MaxReads]]
    <3>1. reading[t][l] - 1 \in 0 .. MaxReads
      BY RwConstants DEF RwInv, RwType, Rwlock!UnlockRead
    <3> QED BY <3>1 DEF RwInv, RwType, Rwlock!UnlockRead
  <2>3. reader_count' \in [Lock -> Nat] /\ thread_rdlock_count' \in [Thread -> Nat]
    BY <2>1 DEF RwInv, RwType, Rwlock!UnlockRead
  <2>4. rw_pc' \in [Thread -> RwLabels]
    BY DEF RwInv, RwType, RwLabels, Rwlock!UnlockRead, Rwlock!SignalWriter,
       Rwlock!Release
  <2> QED BY <2>2, <2>3, <2>4 DEF RwInv, RwType, Rwlock!UnlockRead
<1>2. ReadsCounted'
  BY OneReadLess DEF RwInv, Rwlock!UnlockRead
<1>3. WritersCounted'
  <2>1. \A k \in Lock : WaitingWriters(k)' = WaitingWriters(k)
    BY RwNoCall DEF RwInv, WaitingWriters, Rwlock!UnlockRead, Rwlock!SignalWriter,
       Rwlock!Sleepers, Rwlock!Release
  <2> QED BY <2>1 DEF RwInv, WritersCounted, Rwlock!UnlockRead
<1>4. WriterAlone'
  <2>1. reader_count[l] > 0
    BY OneReadLess DEF RwInv, Rwlock!UnlockRead
  <2> QED BY <2>1 DEF RwInv, WriterAlone, Rwlock!UnlockRead
<1>5. ReadersHaveRoom'
  BY RwNoCall DEF RwInv, ReadersHaveRoom, Rwlock!UnlockRead, Rwlock!SignalWriter,
     Rwlock!Release
<1> QED BY <1>1, <1>2, <1>3, <1>4, <1>5 DEF RwInv

\* ... a reader gives up waiting, ...
LEMMA ReaderTimedOutKeeps ==
  ASSUME RwInv, NEW t \in Thread, Rwlock!ReaderTimedOut(t)
  PROVE  RwInv'
<1>1. RwType'
  BY RwNoCall DEF RwInv, RwType, RwLabels, Rwlock!ReaderTimedOut, Rwlock!Returns,
     Rwlock!lockVars
<1>2. ReadsCounted'
  BY ReadsSame DEF RwInv, Rwlock!ReaderTimedOut, Rwlock!lockVars
<1>3. WritersCounted'
  <2>1. \A k \in Lock : WaitingWriters(k)' = WaitingWriters(k)
    BY RwNoCall DEF RwInv, WaitingWriters, Rwlock!ReaderTimedOut, Rwlock!Returns
  <2> QED BY <2>1 DEF RwInv, WritersCounted, Rwlock!ReaderTimedOut, Rwlock!lockVars
<1>4. WriterAlone'
  BY RwConstants, RwNoCall DEF RwInv, WriterAlone, Rwlock!ReaderTimedOut,
     Rwlock!lockVars
<1>5. ReadersHaveRoom'
  BY RwNoCall DEF RwInv, ReadersHaveRoom, RwType, Rwlock!ReaderTimedOut, Rwlock!Returns
<1> QED BY <1>1, <1>2, <1>3, <1>4, <1>5 DEF RwInv

\* ... a writer gives up and is no longer counted, ...
LEMMA WriterTimedOutKeeps ==
  ASSUME RwInv, NEW t \in Thread, Rwlock!WriterTimedOut(t)
  PROVE  RwInv'
<1>1. RwType'
  <2> DEFINE l == call[t].lock
  <2>1. l \in Lock /\ t \in WaitingWriters(l)
    BY DEF RwInv, RwType, WaitingWriters, Rwlock!WriterTimedOut
  <2>2. IsFiniteSet(WaitingWriters(l))
    BY <2>1, RwFinite
  <2>3. writers_waiting[l] > 0
    BY <2>1, <2>2, FS_EmptySet DEF RwInv, RwType, WritersCounted
  <2>4. writers_waiting' \in [Lock -> Nat]
    BY <2>1, <2>3 DEF RwInv, RwType, Rwlock!WriterTimedOut
  <2>5. rw_pc' \in [Thread -> RwLabels]
              /\ call' \in [Thread -> [lock : Lock, timed : BOOLEAN]]
    BY <2>1, RwMoves DEF RwInv, RwLabels, Rwlock!WriterTimedOut
  <2> QED BY <2>4, <2>5 DEF RwInv, RwType, Rwlock!WriterTimedOut
<1>2. ReadsCounted'
  BY ReadsSame DEF RwInv, Rwlock!WriterTimedOut
<1>3. WritersCounted'
  <2>a. PICK l \in Lock : l = call[t].lock
    BY DEF RwInv, RwType
  <2>0. l = call[t].lock /\ t \in WaitingWriters(l)
    BY <2>a DEF RwInv, WaitingWriters, Rwlock!WriterTimedOut
  <2>1. WaitingWriters(l)' = WaitingWriters(l) \ {t}
    BY <2>0 DEF RwInv, RwType, WaitingWriters, Rwlock!WriterTimedOut, Rwlock!Returns
  <2>2. \A k \in Lock : k # l => WaitingWriters(k)' = WaitingWriters(k)
    BY <2>0 DEF RwInv, RwType, WaitingWriters, Rwlock!WriterTimedOut, Rwlock!Returns
  <2>3. Cardinality(WaitingWriters(l)') = Cardinality(WaitingWriters(l)) - 1
    <3>1. IsFiniteSet(WaitingWriters(l))
      BY <2>0, RwFinite
    <3>2. Cardinality(WaitingWriters(l) \ {t}) = Cardinality(WaitingWriters(l)) - 1
      BY <2>0, <3>1, FS_RemoveElement
    <3> QED BY <2>1, <3>2
  <2>4. writers_waiting' = [writers_waiting EXCEPT ![l] = @ - 1]
    BY <2>0 DEF Rwlock!WriterTimedOut
  <2> QED BY <2>0, <2>2, <2>3, <2>4 DEF RwInv, RwType, WritersCounted
<1>4. WriterAlone'
  BY RwConstants, RwNoCall DEF RwInv, WriterAlone, Rwlock!WriterTimedOut
<1>5. ReadersHaveRoom'
  BY RwNoCall DEF RwInv, ReadersHaveRoom, Rwlock!WriterTimedOut, Rwlock!Returns
<1> QED BY <1>1, <1>2, <1>3, <1>4, <1>5 DEF RwInv

\* ... and a sleeper wakes up without a signal.
LEMMA UnsignaledKeeps ==
  ASSUME RwInv, NEW t \in Thread, Rwlock!Unsignaled(t)
  PROVE  RwInv'
<1>1. RwType'
  BY RwNoCall DEF RwInv, RwType, RwLabels, Rwlock!Unsignaled, Rwlock!Release,
     Rwlock!lockVars
<1>2. ReadsCounted'
  BY ReadsSame DEF RwInv, Rwlock!Unsignaled, Rwlock!lockVars
<1>3. WritersCounted'
  <2>1. \A k \in Lock : WaitingWriters(k)' = WaitingWriters(k)
    BY RwNoCall DEF RwInv, WaitingWriters, Rwlock!Unsignaled, Rwlock!Release
  <2> QED BY <2>1 DEF RwInv, WritersCounted, Rwlock!Unsignaled, Rwlock!lockVars
<1>4. WriterAlone'
  BY RwConstants, RwNoCall DEF RwInv, WriterAlone, Rwlock!Unsignaled, Rwlock!lockVars
<1>5. ReadersHaveRoom'
  BY RwNoCall DEF RwInv, ReadersHaveRoom, Rwlock!Unsignaled, Rwlock!Release
<1> QED BY <1>1, <1>2, <1>3, <1>4, <1>5 DEF RwInv

\* A step of another part of the library leaves the lock alone.
LEMMA RwUnchanged ==
  ASSUME RwInv, UNCHANGED rwlockVars
  PROVE  RwInv'
<1>1. RwType' /\ WriterAlone' /\ ReadersHaveRoom'
  BY DEF RwInv, RwType, WriterAlone, ReadersHaveRoom
<1>2. ReadsCounted'
  BY ReadsSame DEF RwInv
<1>3. \A l \in Lock : WaitingWriters(l)' = WaitingWriters(l)
  BY DEF WaitingWriters
<1>4. WritersCounted'
  BY <1>3 DEF RwInv, WritersCounted
<1> QED BY <1>1, <1>2, <1>4 DEF RwInv

\* Every step of the lock keeps the invariant, ...
LEMMA RwNext == RwInv /\ Rwlock!Next => RwInv'
<1> SUFFICES ASSUME RwInv, NEW t \in Thread,
                    Rwlock!RwCall(t) \/ Rwlock!RwStep(t) \/ Rwlock!Unsignaled(t)
             PROVE  RwInv'
  BY DEF Rwlock!Next
<1>1. CASE \E l \in Lock, try, timed \in BOOLEAN : Rwlock!rdlock_internal(t, l, try, timed)
  BY <1>1, RdlockRoundKeeps DEF Rwlock!rdlock_internal
<1>2. ASSUME NEW l \in Lock, NEW try \in BOOLEAN, NEW timed \in BOOLEAN,
             Rwlock!rwlock_internal(t, l, try, timed)
      PROVE  RwInv'
  <2>1. t \notin WaitingWriters(l)
    BY <1>2 DEF WaitingWriters, Rwlock!rwlock_internal
  <2>2. WaitingWriters(l) \ {t} = WaitingWriters(l)
    BY <2>1
  <2>3. writers_waiting[l] = Cardinality(WaitingWriters(l) \ {t})
              /\ writers_waiting[l] \in Nat
    BY <2>2 DEF RwInv, RwType, WritersCounted
  <2> QED BY <1>2, <2>3, WrlockRoundKeeps DEF Rwlock!rwlock_internal
<1>3. CASE \E l \in Lock : Rwlock!UnlockWrite(t, l)
  BY <1>3, UnlockWriteKeeps
<1>4. CASE \E l \in Lock : Rwlock!UnlockRead(t, l)
  BY <1>4, UnlockReadKeeps
<1>5. CASE Rwlock!ReaderRelock(t)
  BY <1>5, RdlockRoundKeeps DEF RwInv, RwType, ReadersHaveRoom, Rwlock!ReaderRelock
<1>6. CASE Rwlock!ReaderTimedOut(t)
  BY <1>6, ReaderTimedOutKeeps
<1>7. CASE Rwlock!WriterRelock(t)
  <2> DEFINE l == call[t].lock
  <2>1. l \in Lock /\ t \in WaitingWriters(l) /\ call[t].timed \in BOOLEAN
    BY <1>7 DEF RwInv, RwType, WaitingWriters, Rwlock!WriterRelock
  <2>2. IsFiniteSet(WaitingWriters(l))
    BY <2>1, RwFinite
  <2>3. /\ Cardinality(WaitingWriters(l) \ {t}) = writers_waiting[l] - 1
        /\ Cardinality(WaitingWriters(l) \ {t}) \in Nat
    BY <2>1, <2>2, FS_RemoveElement, FS_CardinalityType DEF RwInv, WritersCounted
  <2> QED BY <1>7, <2>1, <2>3, WrlockRoundKeeps DEF Rwlock!WriterRelock
<1>8. CASE Rwlock!WriterTimedOut(t)
  BY <1>8, WriterTimedOutKeeps
<1>9. CASE Rwlock!Unsignaled(t)
  BY <1>9, UnsignaledKeeps
<1> QED BY <1>1, <1>2, <1>3, <1>4, <1>5, <1>6, <1>7, <1>8, <1>9 DEF Rwlock!RwCall,
   Rwlock!RwStep

\* ... which holds of a new lock, ...
LEMMA RwInitial == LibraryInit => RwInv
<1> SUFFICES ASSUME Rwlock!Init
             PROVE  RwInv
  BY DEF LibraryInit, PrimitivesInit
<1>1. RwType
  BY RwNoCall, RwConstants DEF RwType, RwLabels, Rwlock!Init
<1>2. \A l \in Lock : OfLock(l) = {}
  BY RwConstants DEF OfLock, Rwlock!Init
<1>3. \A t \in Thread : OfThread(t) = {}
  BY RwConstants DEF OfThread, Rwlock!Init
<1>4. ReadsCounted
  BY <1>2, <1>3, FS_EmptySet DEF ReadsCounted, Rwlock!Init
<1>5. \A l \in Lock : WaitingWriters(l) = {}
  BY DEF WaitingWriters, Rwlock!Init
<1>6. WritersCounted
  BY <1>5, FS_EmptySet DEF WritersCounted, Rwlock!Init
<1>7. WriterAlone /\ ReadersHaveRoom
  BY DEF WriterAlone, ReadersHaveRoom, Rwlock!Init
<1> QED BY <1>1, <1>4, <1>6, <1>7 DEF RwInv

\* ... and so always.
LEMMA RwInvariance == LibrarySpec => []RwInv
<1>1. RwInv /\ [LibraryNext]_libraryVars => RwInv'
  BY RwNext, RwUnchanged DEF LibraryNext
<1> QED BY <1>1, RwInitial, PTL DEF LibrarySpec

\* A writer excludes readers, a lock is read-locked while a thread has a read
\* lock of it, and writers_waiting counts the writers that wait: what the next
\* pthread_rwlock_rdlock() and pthread_rwlock_unlock() decide by.
THEOREM LockCountsExact == LibrarySpec => []CountsExact
<1>1. ASSUME RwInv
      PROVE  CountsExact
  <2> SUFFICES ASSUME NEW l \in Lock
               PROVE  /\ writer_thread_id[l] # NoThread => reader_count[l] = 0
                      /\ reader_count[l] > 0 <=> \E t \in Thread : reading[t][l] > 0
                      /\ writers_waiting[l] = Rwlock!Cardinality(WaitingWriters(l))
    BY DEF CountsExact, Rwlock!CountsExact, WaitingWriters
  <2>1. writer_thread_id[l] # NoThread => reader_count[l] = 0
    BY <1>1 DEF RwInv, WriterAlone
  <2>2. reader_count[l] > 0 <=> OfLock(l) # {}
    <3>1. IsFiniteSet(OfLock(l))
      BY RwConstants, ReadsFinite, FS_Subset DEF OfLock
    <3> QED BY <1>1, <3>1, FS_EmptySet, FS_CardinalityType DEF RwInv, ReadsCounted
  <2>3. OfLock(l) # {} <=> \E t \in Thread : reading[t][l] > 0
    <3>1. ASSUME NEW t \in Thread, reading[t][l] > 0
          PROVE  <<t, 1>> \in OfLock(l)
      BY <1>1, <3>1, RwConstants DEF RwInv, RwType, OfLock
    <3>2. ASSUME NEW p \in OfLock(l)
          PROVE  reading[p[1]][l] > 0 /\ p[1] \in Thread
      BY <1>1, <3>2, RwConstants DEF RwInv, RwType, OfLock
    <3> QED BY <3>1, <3>2
  <2>4. writers_waiting[l] = Cardinality(WaitingWriters(l))
    BY <1>1 DEF RwInv, WritersCounted
  <2> QED BY <2>1, <2>2, <2>3, <2>4, InstanceSets
<1> QED BY <1>1, RwInvariance, PTL

\* A writer that sleeps is counted.
LEMMA SleepersCounted ==
  ASSUME RwInv, NEW l \in Lock, Rwlock!Sleepers("writer", l) # {}
  PROVE  writers_waiting[l] > 0
<1>1. WaitingWriters(l) # {} /\ IsFiniteSet(WaitingWriters(l))
  BY RwConstants, FS_Subset DEF WaitingWriters, Rwlock!Sleepers
<1> QED BY <1>1, FS_EmptySet DEF RwInv, RwType, WritersCounted

\* While writers sleep on a free lock, one of them is up already: the unlock
\* that freed it saw them counted, and signaled.
LEMMA WriterWakeNext ==
  RwInv /\ WriterWakePending /\ Rwlock!Next => WriterWakePending'
<1> SUFFICES ASSUME RwInv, WriterWakePending, NEW t \in Thread,
                    Rwlock!RwCall(t) \/ Rwlock!RwStep(t) \/ Rwlock!Unsignaled(t),
                    NEW l \in Lock,
                    Rwlock!write_lock_available(l)', Rwlock!Sleepers("writer", l)' # {}
             PROVE  Rwlock!Sleepers("writer_up", l)' # {}
  BY DEF Rwlock!Next, WriterWakePending, Rwlock!WriterWakePending

\* A step that leaves the lock and those that sleep on it as they were.
<1>0. ASSUME Rwlock!write_lock_available(l),
             Rwlock!Sleepers("writer", l)' \subseteq Rwlock!Sleepers("writer", l),
             Rwlock!Sleepers("writer_up", l) \subseteq Rwlock!Sleepers("writer_up", l)'
      PROVE  Rwlock!Sleepers("writer_up", l)' # {}
  BY <1>0 DEF WriterWakePending, Rwlock!WriterWakePending
<1>1. CASE \E k \in Lock : Rwlock!UnlockWrite(t, k) \/ Rwlock!UnlockRead(t, k)
  <2>1. PICK k \in Lock : Rwlock!UnlockWrite(t, k) \/ Rwlock!UnlockRead(t, k)
    BY <1>1
  <2>2. CASE k # l
    <3>1. Rwlock!write_lock_available(l)
      BY <2>1, <2>2 DEF RwInv, RwType, Rwlock!write_lock_available, Rwlock!UnlockWrite,
         Rwlock!UnlockRead
    <3>2. /\ Rwlock!Sleepers("writer", l)' \subseteq Rwlock!Sleepers("writer", l)
          /\ Rwlock!Sleepers("writer_up", l) \subseteq Rwlock!Sleepers("writer_up", l)'
      BY <2>1, <2>2 DEF RwInv, RwType, Rwlock!UnlockWrite, Rwlock!UnlockRead,
         Rwlock!SignalWriter,
           Rwlock!Sleepers, Rwlock!Release
    <3> QED BY <1>0, <3>1, <3>2
  <2>3. CASE k = l
    <3>1. Rwlock!Sleepers("writer", l) # {}
      BY <2>1, <2>3 DEF RwInv, RwType, Rwlock!UnlockWrite, Rwlock!UnlockRead,
         Rwlock!SignalWriter,
           Rwlock!Sleepers, Rwlock!Release
    <3>2. Rwlock!SignalWriter(l)
      BY <2>1, <2>3, <3>1, SleepersCounted
         DEF Rwlock!UnlockWrite, Rwlock!UnlockRead, Rwlock!write_lock_available
    <3>3. UNCHANGED call
      BY <2>1 DEF Rwlock!UnlockWrite, Rwlock!UnlockRead
    <3> QED BY <3>1, <3>2, <3>3 DEF Rwlock!SignalWriter, Rwlock!Sleepers, Rwlock!Release
  <2> QED BY <2>2, <2>3
<1>3. CASE Rwlock!Unsignaled(t)
  <2>1. Rwlock!write_lock_available(l)
    BY <1>3 DEF Rwlock!write_lock_available, Rwlock!Unsignaled, Rwlock!lockVars
  <2>2. /\ Rwlock!Sleepers("writer", l)' \subseteq Rwlock!Sleepers("writer", l)
        /\ Rwlock!Sleepers("writer_up", l) \subseteq Rwlock!Sleepers("writer_up", l)'
    BY <1>3 DEF Rwlock!Unsignaled, Rwlock!Sleepers, Rwlock!Release
  <2> QED BY <1>0, <2>1, <2>2
<1>4. ASSUME NEW k \in Lock, NEW try \in BOOLEAN, NEW timed \in BOOLEAN,
             rw_pc[t] \in {"user", "reader_up"}, Rwlock!RdlockRound(t, k, try, timed)
      PROVE  Rwlock!Sleepers("writer_up", l)' # {}
  <2>1. Rwlock!write_lock_available(l)
    BY <1>4 DEF RwInv, RwType, Rwlock!write_lock_available, Rwlock!RdlockRound,
       Rwlock!TakeRead, Rwlock!lockVars
  <2>2. /\ Rwlock!Sleepers("writer", l)' \subseteq Rwlock!Sleepers("writer", l)
        /\ Rwlock!Sleepers("writer_up", l) \subseteq Rwlock!Sleepers("writer_up", l)'
    BY <1>4 DEF RwInv, RwType, Rwlock!RdlockRound, Rwlock!TakeRead, Rwlock!Sleepers,
       Rwlock!Returns, Rwlock!Waits
  <2> QED BY <1>0, <2>1, <2>2
<1>5. ASSUME NEW k \in Lock, NEW try \in BOOLEAN, NEW timed \in BOOLEAN, NEW n,
             rw_pc[t] = "user" \/ call[t].lock = k, Rwlock!WrlockRound(t, k, try, timed, n)
      PROVE  Rwlock!Sleepers("writer_up", l)' # {}
  <2>1. k # l
    BY <1>5, RwConstants DEF RwInv, RwType, Rwlock!write_lock_available,
       Rwlock!WrlockRound
  <2>2. Rwlock!write_lock_available(l)
    BY <1>5, <2>1 DEF RwInv, RwType, Rwlock!write_lock_available, Rwlock!WrlockRound
  <2>3. /\ Rwlock!Sleepers("writer", l)' \subseteq Rwlock!Sleepers("writer", l)
        /\ Rwlock!Sleepers("writer_up", l) \subseteq Rwlock!Sleepers("writer_up", l)'
    <3>1. CASE Rwlock!Returns(t)
      BY <1>5, <2>1, <3>1 DEF RwInv, RwType, Rwlock!Sleepers, Rwlock!Returns
    <3>2. CASE Rwlock!Waits(t, "writer", k, timed)
      BY <1>5, <2>1, <3>2 DEF RwInv, RwType, Rwlock!Sleepers, Rwlock!Waits
    <3> QED BY <1>5, <3>1, <3>2 DEF Rwlock!WrlockRound
  <2> QED BY <1>0, <2>2, <2>3
<1>6. CASE Rwlock!ReaderTimedOut(t) \/ Rwlock!WriterTimedOut(t)
  <2>1. Rwlock!write_lock_available(l)
    BY <1>6 DEF Rwlock!write_lock_available, Rwlock!ReaderTimedOut,
       Rwlock!WriterTimedOut, Rwlock!lockVars
  <2>2. /\ Rwlock!Sleepers("writer", l)' \subseteq Rwlock!Sleepers("writer", l)
        /\ Rwlock!Sleepers("writer_up", l) \subseteq Rwlock!Sleepers("writer_up", l)'
    BY <1>6 DEF RwInv, RwType, Rwlock!ReaderTimedOut, Rwlock!WriterTimedOut,
       Rwlock!Sleepers, Rwlock!Returns
  <2> QED BY <1>0, <2>1, <2>2
<1>7. CASE Rwlock!ReaderRelock(t)
  BY <1>4, <1>7 DEF RwInv, RwType, Rwlock!ReaderRelock
<1>8. CASE Rwlock!WriterRelock(t)
  <2>1. PICK k \in Lock, timed \in BOOLEAN, n \in {writers_waiting[call[t].lock] - 1} :
          k = call[t].lock /\ Rwlock!WrlockRound(t, k, FALSE, timed, n)
    <3>1. call[t].lock \in Lock /\ call[t].timed \in BOOLEAN
      BY DEF RwInv, RwType
    <3>2. Rwlock!WrlockRound(t, call[t].lock, FALSE, call[t].timed, writers_waiting[call[t].lock] - 1)
      BY <1>8 DEF Rwlock!WriterRelock
    <3> QED BY <3>1, <3>2
  <2> QED BY <1>5, <2>1
<1>9. CASE \E k \in Lock, try, timed \in BOOLEAN :
             Rwlock!rdlock_internal(t, k, try, timed)
                         \/ Rwlock!rwlock_internal(t, k, try, timed)
  BY <1>4, <1>5, <1>9 DEF Rwlock!rdlock_internal, Rwlock!rwlock_internal
<1> QED BY <1>1, <1>3, <1>6, <1>7, <1>8, <1>9 DEF Rwlock!RwCall, Rwlock!RwStep

\* A lock that nobody holds has no writer asleep that nobody is going to wake:
\* every pthread_rwlock_unlock(), and every writer that gives up, passes it on.
THEOREM WriterIsWoken == LibrarySpec => []WriterWakePending
<1>1. LibraryInit => WriterWakePending
  BY DEF LibraryInit, PrimitivesInit, Rwlock!Init, WriterWakePending,
     Rwlock!WriterWakePending, Rwlock!Sleepers
<1>2. WriterWakePending /\ UNCHANGED rwlockVars => WriterWakePending'
  BY DEF WriterWakePending, Rwlock!WriterWakePending, Rwlock!Sleepers,
     Rwlock!write_lock_available
<1>3. RwInv /\ WriterWakePending /\ [LibraryNext]_libraryVars => WriterWakePending'
  BY <1>2, WriterWakeNext DEF LibraryNext
<1> QED BY <1>1, <1>3, RwInvariance, PTL DEF LibrarySpec

\* The counters of the locks stay in their bounds, which are those of the
\* threads and of the locks they have.
THEOREM LockTyping == LibrarySpec => []Rwlock!TypeOK
<1>1. ASSUME RwInv
      PROVE  Rwlock!TypeOK
  <2>1. /\ Cardinality(Thread) \in Nat
        /\ \A l \in Lock : Cardinality(WaitingWriters(l)) <= Cardinality(Thread)
    BY RwConstants, FS_CardinalityType, FS_Subset DEF WaitingWriters
  <2>2. writers_waiting \in [Lock -> 0 .. Cardinality(Thread)]
    BY <1>1, <2>1 DEF RwInv, RwType, WritersCounted
  <2>3. \A l \in Lock : Cardinality(OfLock(l)) <= MaxReads * Cardinality(Thread)
    BY ReadsFinite, FS_Subset DEF OfLock
  <2>4. \A t \in Thread : Cardinality(OfThread(t)) <= MaxReads * Cardinality(Lock)
    BY ReadsFinite, FS_Subset DEF OfThread
  <2>5. MaxReads * Cardinality(Thread) \in Nat /\ MaxReads * Cardinality(Lock) \in Nat
    BY ReadsFinite, FS_CardinalityType
  <2>6. reader_count \in [Lock -> 0 .. MaxReads * Cardinality(Thread)]
    BY <1>1, <2>3, <2>5 DEF RwInv, RwType, ReadsCounted
  <2>7. thread_rdlock_count \in [Thread -> 0 .. MaxReads * Cardinality(Lock)]
    BY <1>1, <2>4, <2>5 DEF RwInv, RwType, ReadsCounted
  <2> QED BY <1>1, <2>2, <2>6, <2>7, InstanceSets DEF RwInv, RwType, RwLabels,
     Rwlock!TypeOK
<1> QED BY <1>1, RwInvariance, PTL

-----------------------------------------------------------------------------
(* The semaphore.                                                          *)

\* What the constants must be.
LEMMA SemTypes ==
  /\ IsFiniteSet(Thread) /\ SEM_VALUE_MAX \in Nat
  /\ Mutex \in Addr /\ Cond \in Addr /\ Mutex # Cond /\ NoAddr \notin Addr
BY LibraryConstants, InstanceSets, NoAddrAssumption DEF Semaphore!SemConstants

\* Where a thread can be.
SemLabels == {"user", "load", "cas", "add", "wait", "asleep", "sub",
              "post_load", "post_cas", "post_check", "post_wake"}

\* The types of the variables.
SemType ==
  /\ sem_word \in [Addr -> Int] /\ Semaphore!count \in 0 .. SEM_VALUE_MAX
  /\ sem_asleep \in [Thread -> Addr \cup {NoAddr}]
  /\ sem_woken \subseteq Thread
  /\ sem_pc \in [Thread -> SemLabels]
  /\ mode \in [Thread -> {"none", "first", "again", "try"}]
  /\ seen \in [Thread -> 0 .. SEM_VALUE_MAX]

\* Where a thread can be in each of its loops; that it sleeps, or has been
\* woken, only where it is asleep; and what a compare-and-swap expects.
SemControl ==
  \A t \in Thread :
    /\ sem_pc[t] = "add" => mode[t] = "first"
    /\ sem_pc[t] \in {"wait", "asleep", "sub"} => mode[t] = "again"
    /\ sem_pc[t] \in {"load", "cas"} => mode[t] # "none"
    /\ sem_pc[t] \in {"user", "post_load", "post_cas", "post_check", "post_wake"}
                => mode[t] = "none"
    /\ sem_asleep[t] = Mutex => sem_pc[t] = "asleep" /\ t \notin sem_woken
    /\ sem_asleep[t] # Mutex => sem_asleep[t] = NoAddr
    /\ t \in sem_woken => sem_pc[t] = "asleep"
    /\ sem_pc[t] = "cas" => seen[t] > 0
    /\ sem_pc[t] = "post_cas" => seen[t] < SEM_VALUE_MAX

\* The threads that nwaiters counts.
Announced == {t \in Thread : mode[t] = "again"}

\* nwaiters counts them.
WaitersCounted == Semaphore!nwaiters = Cardinality(Announced)

\* The inductive invariant of the semaphore.
SemInv == SemType /\ SemControl /\ WaitersCounted

\* One lemma for each step of sem_wait(), sem_trywait() and sem_post(): it keeps
\* the invariant.
LEMMA sem_waitKeeps ==
  ASSUME SemInv, NEW t \in Thread, Semaphore!sem_wait(t)
  PROVE  SemInv'
<1>1. SemType'
  BY SemTypes DEF SemInv, SemType, SemLabels, Semaphore!sem_wait, Semaphore!Goto,
     Semaphore!Enter, Semaphore!futexVars, Semaphore!count
<1>2. SemControl'
  BY SemTypes DEF SemInv, SemType, SemControl, Semaphore!sem_wait, Semaphore!At,
     Semaphore!Goto, Semaphore!Enter, Semaphore!futexVars
<1>3. Announced' = Announced
  BY DEF SemInv, SemControl, Announced, Semaphore!sem_wait, Semaphore!At,
     Semaphore!Enter
<1>4. WaitersCounted'
  BY <1>3, SemTypes DEF SemInv, WaitersCounted, Semaphore!sem_wait,
     Semaphore!futexVars, Semaphore!nwaiters
<1> QED BY <1>1, <1>2, <1>4 DEF SemInv

LEMMA sem_trywaitKeeps ==
  ASSUME SemInv, NEW t \in Thread, Semaphore!sem_trywait(t)
  PROVE  SemInv'
<1>1. SemType'
  BY SemTypes DEF SemInv, SemType, SemLabels, Semaphore!sem_trywait, Semaphore!Goto,
     Semaphore!Enter, Semaphore!futexVars, Semaphore!count
<1>2. SemControl'
  BY SemTypes DEF SemInv, SemType, SemControl, Semaphore!sem_trywait, Semaphore!At,
     Semaphore!Goto, Semaphore!Enter, Semaphore!futexVars
<1>3. Announced' = Announced
  BY DEF SemInv, SemControl, Announced, Semaphore!sem_trywait, Semaphore!At,
     Semaphore!Enter
<1>4. WaitersCounted'
  BY <1>3, SemTypes DEF SemInv, WaitersCounted, Semaphore!sem_trywait,
     Semaphore!futexVars, Semaphore!nwaiters
<1> QED BY <1>1, <1>2, <1>4 DEF SemInv

LEMMA sem_postKeeps ==
  ASSUME SemInv, NEW t \in Thread, Semaphore!sem_post(t)
  PROVE  SemInv'
<1>1. SemType'
  BY SemTypes DEF SemInv, SemType, SemLabels, Semaphore!sem_post, Semaphore!Goto,
     Semaphore!futexVars, Semaphore!count
<1>2. SemControl'
  BY SemTypes DEF SemInv, SemControl, Semaphore!sem_post, Semaphore!At, Semaphore!Goto,
     Semaphore!futexVars
<1>3. Announced' = Announced
  BY DEF SemInv, Announced, Semaphore!sem_post
<1>4. WaitersCounted'
  BY <1>3, SemTypes DEF SemInv, WaitersCounted, Semaphore!sem_post,
     Semaphore!futexVars, Semaphore!nwaiters
<1> QED BY <1>1, <1>2, <1>4 DEF SemInv

LEMMA DecrementLoadKeeps ==
  ASSUME SemInv, NEW t \in Thread, Semaphore!DecrementLoad(t)
  PROVE  SemInv'
<1>1. SemType'
  BY SemTypes DEF SemInv, SemType, SemLabels, Semaphore!DecrementLoad, Semaphore!See,
     Semaphore!Goto, Semaphore!Enter, Semaphore!futexVars, Semaphore!count
<1>2. SemControl'
  BY SemTypes DEF SemInv, SemType, SemControl, Semaphore!DecrementLoad, Semaphore!See,
     Semaphore!At, Semaphore!Goto, Semaphore!Enter, Semaphore!futexVars
<1>3. Announced' = Announced
  BY DEF SemInv, SemType, Announced, Semaphore!DecrementLoad, Semaphore!Enter
<1>4. WaitersCounted'
  BY <1>3, SemTypes DEF SemInv, WaitersCounted, Semaphore!DecrementLoad,
     Semaphore!futexVars, Semaphore!nwaiters
<1> QED BY <1>1, <1>2, <1>4 DEF SemInv

LEMMA DecrementCasKeeps ==
  ASSUME SemInv, NEW t \in Thread, Semaphore!DecrementCas(t)
  PROVE  SemInv'
<1>1. SemType'
  BY SemTypes DEF SemInv, SemType, SemLabels, SemControl, Semaphore!DecrementCas,
     Semaphore!Store, Semaphore!See, Semaphore!At, Semaphore!Goto, Semaphore!Enter,
     Semaphore!futexVars, Semaphore!count
<1>2. SemControl'
  BY SemTypes DEF SemInv, SemType, SemControl, Semaphore!DecrementCas, Semaphore!Store,
     Semaphore!See, Semaphore!At, Semaphore!Goto, Semaphore!Enter, Semaphore!futexVars
<1>3. Announced' = Announced
  BY DEF SemInv, SemType, Announced, Semaphore!DecrementCas, Semaphore!Enter
<1>4. WaitersCounted'
  BY <1>3, SemTypes DEF SemInv, SemType, WaitersCounted, Semaphore!DecrementCas,
     Semaphore!Store, Semaphore!futexVars, Semaphore!nwaiters
<1> QED BY <1>1, <1>2, <1>4 DEF SemInv

LEMMA WaitAddKeeps ==
  ASSUME SemInv, NEW t \in Thread, Semaphore!WaitAdd(t)
  PROVE  SemInv'
<1>1. SemType'
  BY SemTypes DEF SemInv, SemType, SemLabels, Semaphore!WaitAdd, Semaphore!Store,
     Semaphore!Goto, Semaphore!Enter, Semaphore!count, Semaphore!nwaiters
<1>2. SemControl'
  BY SemTypes DEF SemInv, SemType, SemControl, Semaphore!WaitAdd, Semaphore!Store,
     Semaphore!At, Semaphore!Goto, Semaphore!Enter
<1>3. Announced' = Announced \cup {t} /\ t \notin Announced
  BY DEF SemInv, SemType, SemControl, Announced, Semaphore!WaitAdd, Semaphore!At,
     Semaphore!Enter
<1>4. IsFiniteSet(Announced)
  BY SemTypes, FS_Subset DEF Announced
<1>5. WaitersCounted'
  BY <1>3, <1>4, FS_AddElement, SemTypes DEF SemInv, SemType, WaitersCounted,
     Semaphore!WaitAdd, Semaphore!Store, Semaphore!nwaiters
<1> QED BY <1>1, <1>2, <1>5 DEF SemInv

LEMMA WaitFutexKeeps ==
  ASSUME SemInv, NEW t \in Thread, Semaphore!WaitFutex(t)
  PROVE  SemInv'
<1>1. SemType'
  BY SemTypes DEF SemInv, SemType, SemLabels, Semaphore!WaitFutex,
     Semaphore!FutexBlock, Semaphore!FutexMismatch, Semaphore!Goto,
     Semaphore!futexVars, Semaphore!count
<1>2. SemControl'
  BY SemTypes DEF SemInv, SemType, SemControl, Semaphore!WaitFutex,
     Semaphore!FutexBlock, Semaphore!FutexMismatch, Semaphore!At, Semaphore!Goto,
     Semaphore!futexVars
<1>3. Announced' = Announced
  BY DEF SemInv, Announced, Semaphore!WaitFutex
<1>4. WaitersCounted'
  BY <1>3, SemTypes DEF SemInv, WaitersCounted, Semaphore!WaitFutex,
     Semaphore!FutexBlock, Semaphore!FutexMismatch, Semaphore!futexVars,
     Semaphore!nwaiters
<1> QED BY <1>1, <1>2, <1>4 DEF SemInv

LEMMA WaitWokenKeeps ==
  ASSUME SemInv, NEW t \in Thread, Semaphore!WaitWoken(t)
  PROVE  SemInv'
<1>1. SemType'
  BY SemTypes DEF SemInv, SemType, SemLabels, Semaphore!WaitWoken,
     Semaphore!FutexReturn, Semaphore!Goto, Semaphore!count
<1>2. SemControl'
  BY SemTypes DEF SemInv, SemControl, Semaphore!WaitWoken, Semaphore!FutexReturn,
     Semaphore!Goto
<1>3. Announced' = Announced
  BY DEF SemInv, Announced, Semaphore!WaitWoken
<1>4. WaitersCounted'
  BY <1>3, SemTypes DEF SemInv, WaitersCounted, Semaphore!WaitWoken,
     Semaphore!FutexReturn, Semaphore!nwaiters
<1> QED BY <1>1, <1>2, <1>4 DEF SemInv

LEMMA WaitSpuriousKeeps ==
  ASSUME SemInv, NEW t \in Thread, Semaphore!WaitSpurious(t)
  PROVE  SemInv'
<1>1. SemType'
  BY SemTypes DEF SemInv, SemType, SemLabels, Semaphore!WaitSpurious,
     Semaphore!FutexGiveUp, Semaphore!Goto, Semaphore!count
<1>2. SemControl'
  BY SemTypes DEF SemInv, SemType, SemControl, Semaphore!WaitSpurious,
     Semaphore!FutexGiveUp, Semaphore!Goto
<1>3. Announced' = Announced
  BY DEF SemInv, Announced, Semaphore!WaitSpurious
<1>4. WaitersCounted'
  BY <1>3, SemTypes DEF SemInv, WaitersCounted, Semaphore!WaitSpurious,
     Semaphore!FutexGiveUp, Semaphore!nwaiters
<1> QED BY <1>1, <1>2, <1>4 DEF SemInv

LEMMA WaitSubKeeps ==
  ASSUME SemInv, NEW t \in Thread, Semaphore!WaitSub(t)
  PROVE  SemInv'
<1>1. SemType'
  BY SemTypes DEF SemInv, SemType, SemLabels, Semaphore!WaitSub, Semaphore!Store,
     Semaphore!Goto, Semaphore!Enter, Semaphore!count, Semaphore!nwaiters
<1>2. SemControl'
  BY SemTypes DEF SemInv, SemType, SemControl, Semaphore!WaitSub, Semaphore!Store,
     Semaphore!At, Semaphore!Goto, Semaphore!Enter
<1>3. Announced' = Announced \ {t} /\ t \in Announced
  BY DEF SemInv, SemType, SemControl, Announced, Semaphore!WaitSub, Semaphore!At,
     Semaphore!Enter
<1>4. IsFiniteSet(Announced)
  BY SemTypes, FS_Subset DEF Announced
<1>5. WaitersCounted'
  BY <1>3, <1>4, FS_RemoveElement, SemTypes DEF SemInv, SemType, WaitersCounted,
     Semaphore!WaitSub, Semaphore!Store, Semaphore!nwaiters
<1> QED BY <1>1, <1>2, <1>5 DEF SemInv

LEMMA PostLoadKeeps ==
  ASSUME SemInv, NEW t \in Thread, Semaphore!PostLoad(t)
  PROVE  SemInv'
<1>1. SemType'
  BY SemTypes DEF SemInv, SemType, SemLabels, Semaphore!PostLoad, Semaphore!See,
     Semaphore!Goto, Semaphore!futexVars, Semaphore!count
<1>2. SemControl'
  BY SemTypes DEF SemInv, SemType, SemControl, Semaphore!PostLoad, Semaphore!See,
     Semaphore!At, Semaphore!Goto, Semaphore!futexVars
<1>3. Announced' = Announced
  BY DEF SemInv, Announced, Semaphore!PostLoad
<1>4. WaitersCounted'
  BY <1>3, SemTypes DEF SemInv, WaitersCounted, Semaphore!PostLoad,
     Semaphore!futexVars, Semaphore!nwaiters
<1> QED BY <1>1, <1>2, <1>4 DEF SemInv

LEMMA PostCasKeeps ==
  ASSUME SemInv, NEW t \in Thread, Semaphore!PostCas(t)
  PROVE  SemInv'
<1>1. SemType'
  BY SemTypes DEF SemInv, SemType, SemLabels, SemControl, Semaphore!PostCas,
     Semaphore!Store, Semaphore!See, Semaphore!At, Semaphore!Goto, Semaphore!futexVars,
     Semaphore!count
<1>2. SemControl'
  BY SemTypes DEF SemInv, SemType, SemControl, Semaphore!PostCas, Semaphore!Store,
     Semaphore!See, Semaphore!At, Semaphore!Goto, Semaphore!futexVars
<1>3. Announced' = Announced
  BY DEF SemInv, Announced, Semaphore!PostCas
<1>4. WaitersCounted'
  BY <1>3, SemTypes DEF SemInv, SemType, WaitersCounted, Semaphore!PostCas,
     Semaphore!Store, Semaphore!futexVars, Semaphore!nwaiters
<1> QED BY <1>1, <1>2, <1>4 DEF SemInv

LEMMA PostCheckKeeps ==
  ASSUME SemInv, NEW t \in Thread, Semaphore!PostCheck(t)
  PROVE  SemInv'
<1>1. SemType'
  BY SemTypes DEF SemInv, SemType, SemLabels, Semaphore!PostCheck, Semaphore!Goto,
     Semaphore!futexVars, Semaphore!count
<1>2. SemControl'
  BY SemTypes DEF SemInv, SemControl, Semaphore!PostCheck, Semaphore!At,
     Semaphore!Goto, Semaphore!futexVars
<1>3. Announced' = Announced
  BY DEF SemInv, Announced, Semaphore!PostCheck
<1>4. WaitersCounted'
  BY <1>3, SemTypes DEF SemInv, WaitersCounted, Semaphore!PostCheck,
     Semaphore!futexVars, Semaphore!nwaiters
<1> QED BY <1>1, <1>2, <1>4 DEF SemInv

LEMMA PostWakeKeeps ==
  ASSUME SemInv, NEW t \in Thread, Semaphore!PostWake(t)
  PROVE  SemInv'
<1>1. SemType'
  BY SemTypes DEF SemInv, SemType, SemLabels, Semaphore!PostWake, Semaphore!FutexWake,
     Semaphore!Waiters, Semaphore!Goto, Semaphore!count
<1>2. SemControl'
  BY SemTypes DEF SemInv, SemControl, Semaphore!PostWake, Semaphore!FutexWake,
     Semaphore!Waiters, Semaphore!At, Semaphore!Goto
<1>3. Announced' = Announced
  BY DEF SemInv, Announced, Semaphore!PostWake
<1>4. WaitersCounted'
  BY <1>3, SemTypes DEF SemInv, WaitersCounted, Semaphore!PostWake,
     Semaphore!FutexWake, Semaphore!nwaiters
<1> QED BY <1>1, <1>2, <1>4 DEF SemInv

\* So every step does, ...
LEMMA SemNext == SemInv /\ Semaphore!Next => SemInv'
BY sem_waitKeeps, sem_trywaitKeeps, sem_postKeeps, DecrementLoadKeeps,
   DecrementCasKeeps, WaitAddKeeps, WaitFutexKeeps, WaitWokenKeeps, WaitSpuriousKeeps,
   WaitSubKeeps, PostLoadKeeps, PostCasKeeps, PostCheckKeeps, PostWakeKeeps
   DEF Semaphore!Next, Semaphore!SemCall, Semaphore!SemStep

\* ... one that is not the semaphore's leaves it alone, ...
LEMMA SemUnchanged == SemInv /\ UNCHANGED semaphoreVars => SemInv'
<1> SUFFICES ASSUME SemInv, UNCHANGED semaphoreVars
             PROVE  SemInv'
  OBVIOUS
<1>1. SemType' /\ SemControl' /\ Announced' = Announced
  BY DEF SemInv, SemType, SemControl, Announced, Semaphore!count
<1> QED BY <1>1 DEF SemInv, WaitersCounted, Semaphore!nwaiters

\* ... and it holds of a new semaphore.
LEMMA SemInitial == LibraryInit => SemInv
<1> SUFFICES ASSUME Semaphore!Init
             PROVE  SemInv
  BY DEF LibraryInit, PrimitivesInit
<1>1. SemType /\ SemControl /\ Announced = {}
  BY SemTypes DEF SemType, SemControl, SemLabels, Announced, Semaphore!Init,
     Semaphore!FutexInit, Semaphore!count
<1>2. Semaphore!nwaiters = 0
  BY SemTypes DEF Semaphore!Init, Semaphore!FutexInit, Semaphore!nwaiters
<1> QED BY <1>1, <1>2, FS_EmptySet DEF SemInv, WaitersCounted

\* So it always holds.
LEMMA SemInvariance == LibrarySpec => []SemInv
<1>1. SemInv /\ [LibraryNext]_libraryVars => SemInv'
  BY SemNext, SemUnchanged DEF LibraryNext
<1> QED BY <1>1, SemInitial, PTL DEF LibrarySpec

\* The threads that will look at the count or wake somebody, those of them that
\* will wake somebody, and those that sleep.
OnTheirWay == Semaphore!OnTheirWay
Posting == {t \in Thread : sem_pc[t] \in {"post_check", "post_wake"}}
Sleepers == Semaphore!Waiters(Mutex)

\* SemWakePending is not inductive: a waiter who takes one of many units leaves
\* the others behind.  But either every unit has somebody on the way, or every
\* sleeper has a post that will wake him.
SemWakeInv ==
  \/ Semaphore!count <= Cardinality(OnTheirWay)
  \/ Cardinality(Sleepers) <= Cardinality(Posting)

\* These sets can be counted, ...
LEMMA SetsFinite ==
  /\ IsFiniteSet(OnTheirWay) /\ IsFiniteSet(Sleepers) /\ IsFiniteSet(Posting)
  /\ Cardinality(OnTheirWay) \in Nat /\ Cardinality(Sleepers) \in Nat
              /\ Cardinality(Posting) \in Nat
BY SemTypes, FS_Subset, FS_CardinalityType
   DEF OnTheirWay, Sleepers, Posting, Semaphore!OnTheirWay, Semaphore!Waiters

\* ... after a step too.
LEMMA SetsFiniteNext ==
  /\ IsFiniteSet(OnTheirWay') /\ IsFiniteSet(Sleepers') /\ IsFiniteSet(Posting')
  /\ Cardinality(OnTheirWay') \in Nat /\ Cardinality(Sleepers') \in Nat
              /\ Cardinality(Posting') \in Nat
BY SemTypes, FS_Subset, FS_CardinalityType
   DEF OnTheirWay, Sleepers, Posting, Semaphore!OnTheirWay, Semaphore!Waiters

\* A set loses at most one member with one element.
LEMMA RemovedCount ==
  ASSUME NEW S, NEW x, IsFiniteSet(S)
  PROVE  /\ IsFiniteSet(S \ {x}) /\ Cardinality(S \ {x}) \in Nat
         /\ Cardinality(S \ {x}) >= Cardinality(S) - 1
<1>1. /\ IsFiniteSet(S \ {x})
      /\ Cardinality(S \ {x}) = IF x \in S THEN Cardinality(S) - 1 ELSE Cardinality(S)
  BY FS_RemoveElement
<1>2. Cardinality(S) \in Nat /\ Cardinality(S \ {x}) \in Nat
  BY <1>1, FS_CardinalityType
<1> QED BY <1>1, <1>2

\* A step that takes nobody off his way, puts nobody to sleep and adds no unit.
LEMMA NobodyLost ==
  ASSUME SemInv, SemInv', SemWakeInv,
         OnTheirWay \subseteq OnTheirWay', Posting \subseteq Posting', Sleepers' \subseteq Sleepers,
         Semaphore!count' <= Semaphore!count
  PROVE  SemWakeInv'
<1>1. /\ Cardinality(OnTheirWay) <= Cardinality(OnTheirWay')
      /\ Cardinality(Posting) <= Cardinality(Posting')
      /\ Cardinality(Sleepers') <= Cardinality(Sleepers)
  BY SetsFinite, SetsFiniteNext, FS_Subset
<1>2. Semaphore!count \in Int /\ Semaphore!count' \in Int
  BY SemTypes DEF SemInv, SemType
<1> QED BY <1>1, <1>2, SetsFinite, SetsFiniteNext DEF SemWakeInv

\* One lemma for each step: what is left to be had has somebody on the way to it,
\* or every sleeper has his wake coming.
LEMMA sem_waitWakes ==
  ASSUME SemInv, SemInv', SemWakeInv, NEW t \in Thread, Semaphore!sem_wait(t)
  PROVE  SemWakeInv'
<1>1. OnTheirWay \subseteq OnTheirWay' /\ Posting \subseteq Posting'
  BY DEF SemInv, OnTheirWay, Posting, Semaphore!OnTheirWay, Semaphore!sem_wait,
     Semaphore!At, Semaphore!Goto, Semaphore!Enter, Semaphore!futexVars
<1>2. Sleepers' \subseteq Sleepers /\ Semaphore!count' = Semaphore!count
  BY SemTypes DEF SemInv, Sleepers, Semaphore!Waiters, Semaphore!sem_wait,
     Semaphore!futexVars, Semaphore!count
<1> QED BY <1>1, <1>2, NobodyLost DEF SemInv, SemType

LEMMA sem_trywaitWakes ==
  ASSUME SemInv, SemInv', SemWakeInv, NEW t \in Thread, Semaphore!sem_trywait(t)
  PROVE  SemWakeInv'
<1>1. OnTheirWay \subseteq OnTheirWay' /\ Posting \subseteq Posting'
  BY DEF SemInv, OnTheirWay, Posting, Semaphore!OnTheirWay, Semaphore!sem_trywait,
     Semaphore!At, Semaphore!Goto, Semaphore!Enter, Semaphore!futexVars
<1>2. Sleepers' \subseteq Sleepers /\ Semaphore!count' = Semaphore!count
  BY SemTypes DEF SemInv, Sleepers, Semaphore!Waiters, Semaphore!sem_trywait,
     Semaphore!futexVars, Semaphore!count
<1> QED BY <1>1, <1>2, NobodyLost DEF SemInv, SemType

LEMMA sem_postWakes ==
  ASSUME SemInv, SemInv', SemWakeInv, NEW t \in Thread, Semaphore!sem_post(t)
  PROVE  SemWakeInv'
<1>1. OnTheirWay \subseteq OnTheirWay' /\ Posting \subseteq Posting'
  BY DEF SemInv, OnTheirWay, Posting, Semaphore!OnTheirWay, Semaphore!sem_post,
     Semaphore!At, Semaphore!Goto, Semaphore!futexVars
<1>2. Sleepers' \subseteq Sleepers /\ Semaphore!count' = Semaphore!count
  BY SemTypes DEF SemInv, Sleepers, Semaphore!Waiters, Semaphore!sem_post,
     Semaphore!futexVars, Semaphore!count
<1> QED BY <1>1, <1>2, NobodyLost DEF SemInv, SemType

LEMMA DecrementLoadWakes ==
  ASSUME SemInv, SemInv', SemWakeInv, NEW t \in Thread, Semaphore!DecrementLoad(t)
  PROVE  SemWakeInv'
<1>1. OnTheirWay \subseteq OnTheirWay' /\ Posting \subseteq Posting'
  BY DEF SemInv, SemType, SemControl, OnTheirWay, Posting, Semaphore!OnTheirWay,
     Semaphore!DecrementLoad, Semaphore!Goto, Semaphore!Enter, Semaphore!futexVars
<1>2. Sleepers' \subseteq Sleepers /\ Semaphore!count' = Semaphore!count
  BY SemTypes DEF SemInv, Sleepers, Semaphore!Waiters, Semaphore!DecrementLoad,
     Semaphore!futexVars, Semaphore!count
<1> QED BY <1>1, <1>2, NobodyLost DEF SemInv, SemType

LEMMA WaitAddWakes ==
  ASSUME SemInv, SemInv', SemWakeInv, NEW t \in Thread, Semaphore!WaitAdd(t)
  PROVE  SemWakeInv'
<1>1. OnTheirWay \subseteq OnTheirWay' /\ Posting \subseteq Posting'
  BY DEF SemInv, OnTheirWay, Posting, Semaphore!OnTheirWay, Semaphore!WaitAdd,
     Semaphore!Store, Semaphore!At, Semaphore!Goto, Semaphore!Enter
<1>2. Sleepers' \subseteq Sleepers /\ Semaphore!count' = Semaphore!count
  BY SemTypes DEF SemInv, Sleepers, Semaphore!Waiters, Semaphore!WaitAdd,
     Semaphore!Store, Semaphore!count
<1> QED BY <1>1, <1>2, NobodyLost DEF SemInv, SemType

LEMMA WaitWokenWakes ==
  ASSUME SemInv, SemInv', SemWakeInv, NEW t \in Thread, Semaphore!WaitWoken(t)
  PROVE  SemWakeInv'
<1>1. OnTheirWay \subseteq OnTheirWay' /\ Posting \subseteq Posting'
  BY DEF SemInv, SemType, SemControl, OnTheirWay, Posting, Semaphore!OnTheirWay,
     Semaphore!WaitWoken, Semaphore!FutexReturn, Semaphore!Goto
<1>2. Sleepers' \subseteq Sleepers /\ Semaphore!count' = Semaphore!count
  BY SemTypes DEF SemInv, Sleepers, Semaphore!Waiters, Semaphore!WaitWoken,
     Semaphore!FutexReturn, Semaphore!count
<1> QED BY <1>1, <1>2, NobodyLost DEF SemInv, SemType

LEMMA WaitSpuriousWakes ==
  ASSUME SemInv, SemInv', SemWakeInv, NEW t \in Thread, Semaphore!WaitSpurious(t)
  PROVE  SemWakeInv'
<1>1. OnTheirWay \subseteq OnTheirWay' /\ Posting \subseteq Posting'
  BY DEF SemInv, SemControl, OnTheirWay, Posting, Semaphore!OnTheirWay,
     Semaphore!WaitSpurious, Semaphore!FutexGiveUp, Semaphore!Goto
<1>2. Sleepers' \subseteq Sleepers /\ Semaphore!count' = Semaphore!count
  BY SemTypes DEF SemInv, Sleepers, Semaphore!Waiters, Semaphore!WaitSpurious,
     Semaphore!FutexGiveUp, Semaphore!count
<1> QED BY <1>1, <1>2, NobodyLost DEF SemInv, SemType

LEMMA WaitSubWakes ==
  ASSUME SemInv, SemInv', SemWakeInv, NEW t \in Thread, Semaphore!WaitSub(t)
  PROVE  SemWakeInv'
<1>1. OnTheirWay \subseteq OnTheirWay' /\ Posting \subseteq Posting'
  BY DEF SemInv, OnTheirWay, Posting, Semaphore!OnTheirWay, Semaphore!WaitSub,
     Semaphore!Store, Semaphore!At, Semaphore!Goto, Semaphore!Enter
<1>2. Sleepers' \subseteq Sleepers /\ Semaphore!count' = Semaphore!count
  BY SemTypes DEF SemInv, Sleepers, Semaphore!Waiters, Semaphore!WaitSub,
     Semaphore!Store, Semaphore!count
<1> QED BY <1>1, <1>2, NobodyLost DEF SemInv, SemType

LEMMA PostLoadWakes ==
  ASSUME SemInv, SemInv', SemWakeInv, NEW t \in Thread, Semaphore!PostLoad(t)
  PROVE  SemWakeInv'
<1>1. OnTheirWay \subseteq OnTheirWay' /\ Posting \subseteq Posting'
  BY DEF SemInv, OnTheirWay, Posting, Semaphore!OnTheirWay, Semaphore!PostLoad,
     Semaphore!At, Semaphore!Goto, Semaphore!futexVars
<1>2. Sleepers' \subseteq Sleepers /\ Semaphore!count' = Semaphore!count
  BY SemTypes DEF SemInv, Sleepers, Semaphore!Waiters, Semaphore!PostLoad,
     Semaphore!futexVars, Semaphore!count
<1> QED BY <1>1, <1>2, NobodyLost DEF SemInv, SemType

\* One unit less, and one thread less.
LEMMA DecrementCasWakes ==
  ASSUME SemInv, SemInv', SemWakeInv, NEW t \in Thread, Semaphore!DecrementCas(t)
  PROVE  SemWakeInv'
<1>1. CASE Semaphore!count = seen[t]
  <2>1. OnTheirWay \ {t} \subseteq OnTheirWay' /\ Posting \subseteq Posting'
              /\ Sleepers' = Sleepers
    BY <1>1 DEF SemInv, SemType, OnTheirWay, Posting, Sleepers, Semaphore!OnTheirWay,
       Semaphore!Waiters, Semaphore!DecrementCas, Semaphore!Store, Semaphore!At,
       Semaphore!Goto, Semaphore!Enter
  <2>2. Semaphore!count' = Semaphore!count - 1
    BY <1>1, SemTypes DEF SemInv, SemType, Semaphore!DecrementCas, Semaphore!Store,
       Semaphore!count
  <2>3. Cardinality(OnTheirWay') >= Cardinality(OnTheirWay) - 1
    <3>1. Cardinality(OnTheirWay \ {t}) <= Cardinality(OnTheirWay')
      BY <2>1, SetsFiniteNext, FS_Subset
    <3>2. Cardinality(OnTheirWay \ {t}) >= Cardinality(OnTheirWay) - 1
                /\ Cardinality(OnTheirWay \ {t}) \in Nat
      BY SetsFinite, RemovedCount
    <3> QED BY <3>1, <3>2, SetsFinite, SetsFiniteNext
  <2>4. Cardinality(Posting) <= Cardinality(Posting')
    BY <2>1, SetsFiniteNext, FS_Subset
  <2>5. Semaphore!count \in Int
    BY SemTypes DEF SemInv, SemType
  <2> QED BY <2>1, <2>2, <2>3, <2>4, <2>5, SetsFinite, SetsFiniteNext DEF SemWakeInv
<1>2. CASE Semaphore!count # seen[t]
  <2>1. OnTheirWay \subseteq OnTheirWay' /\ Posting \subseteq Posting'
              /\ Sleepers' \subseteq Sleepers /\ Semaphore!count' = Semaphore!count
    BY <1>2 DEF SemInv, SemType, SemControl, OnTheirWay, Posting, Sleepers,
       Semaphore!OnTheirWay, Semaphore!Waiters, Semaphore!DecrementCas, Semaphore!Goto,
       Semaphore!futexVars, Semaphore!count
  <2> QED BY <2>1, NobodyLost DEF SemInv, SemType
<1> QED BY <1>1, <1>2

\* A thread goes to sleep when there is no unit.
LEMMA WaitFutexWakes ==
  ASSUME SemInv, SemInv', SemWakeInv, NEW t \in Thread, Semaphore!WaitFutex(t)
  PROVE  SemWakeInv'
<1>1. CASE Semaphore!count = 0
  <2>1. Semaphore!count' = 0
    BY <1>1 DEF Semaphore!WaitFutex, Semaphore!FutexBlock, Semaphore!FutexMismatch,
       Semaphore!count
  <2> QED BY <2>1, SetsFiniteNext DEF SemWakeInv
<1>2. CASE Semaphore!count # 0
  <2>1. OnTheirWay \subseteq OnTheirWay' /\ Posting \subseteq Posting'
              /\ Sleepers' \subseteq Sleepers /\ Semaphore!count' = Semaphore!count
    BY <1>2 DEF SemInv, SemType, SemControl, OnTheirWay, Posting, Sleepers,
       Semaphore!OnTheirWay, Semaphore!Waiters, Semaphore!WaitFutex,
       Semaphore!FutexBlock, Semaphore!FutexMismatch, Semaphore!Goto,
       Semaphore!futexVars, Semaphore!count
  <2> QED BY <2>1, NobodyLost DEF SemInv, SemType
<1> QED BY <1>1, <1>2

\* One unit more, and one thread more.
LEMMA PostCasWakes ==
  ASSUME SemInv, SemInv', SemWakeInv, NEW t \in Thread, Semaphore!PostCas(t)
  PROVE  SemWakeInv'
<1>1. CASE Semaphore!count = seen[t]
  <2>1. OnTheirWay \cup {t} \subseteq OnTheirWay' /\ Posting \subseteq Posting'
              /\ t \notin OnTheirWay /\ Sleepers' = Sleepers
    BY <1>1 DEF SemInv, SemType, OnTheirWay, Posting, Sleepers, Semaphore!OnTheirWay,
       Semaphore!Waiters, Semaphore!PostCas, Semaphore!Store, Semaphore!At,
       Semaphore!Goto
  <2>2. Semaphore!count' = Semaphore!count + 1
    BY <1>1, SemTypes DEF SemInv, SemType, Semaphore!PostCas, Semaphore!Store,
       Semaphore!count
  <2>3. Cardinality(OnTheirWay') >= Cardinality(OnTheirWay) + 1
    <3>1. Cardinality(OnTheirWay \cup {t}) <= Cardinality(OnTheirWay')
      BY <2>1, SetsFiniteNext, FS_Subset
    <3>2. Cardinality(OnTheirWay \cup {t}) = Cardinality(OnTheirWay) + 1
      BY <2>1, SetsFinite, FS_AddElement
    <3> QED BY <3>1, <3>2
  <2>4. Cardinality(Posting) <= Cardinality(Posting')
    BY <2>1, SetsFiniteNext, FS_Subset
  <2>5. Semaphore!count \in Int
    BY SemTypes DEF SemInv, SemType
  <2> QED BY <2>1, <2>2, <2>3, <2>4, <2>5, SetsFinite, SetsFiniteNext DEF SemWakeInv
<1>2. CASE Semaphore!count # seen[t]
  <2>1. OnTheirWay \subseteq OnTheirWay' /\ Posting \subseteq Posting'
              /\ Sleepers' \subseteq Sleepers /\ Semaphore!count' = Semaphore!count
    BY <1>2 DEF SemInv, SemType, OnTheirWay, Posting, Sleepers, Semaphore!OnTheirWay,
       Semaphore!Waiters, Semaphore!PostCas, Semaphore!At, Semaphore!Goto,
       Semaphore!futexVars, Semaphore!count
  <2> QED BY <2>1, NobodyLost DEF SemInv, SemType
<1> QED BY <1>1, <1>2

\* A post that finds no waiter announced is right: nobody sleeps.
LEMMA PostCheckWakes ==
  ASSUME SemInv, SemInv', SemWakeInv, NEW t \in Thread, Semaphore!PostCheck(t)
  PROVE  SemWakeInv'
<1>1. CASE Semaphore!nwaiters # 0
  <2>1. OnTheirWay \subseteq OnTheirWay' /\ Posting \subseteq Posting'
              /\ Sleepers' \subseteq Sleepers /\ Semaphore!count' = Semaphore!count
    BY <1>1 DEF SemInv, OnTheirWay, Posting, Sleepers, Semaphore!OnTheirWay,
       Semaphore!Waiters, Semaphore!PostCheck, Semaphore!Goto, Semaphore!futexVars,
       Semaphore!count
  <2> QED BY <2>1, NobodyLost DEF SemInv, SemType
<1>2. CASE Semaphore!nwaiters = 0
  <2>1. IsFiniteSet(Announced)
    BY SemTypes, FS_Subset DEF Announced
  <2>2. Announced = {}
    BY <1>2, <2>1, FS_EmptySet DEF SemInv, WaitersCounted
  <2>3. Sleepers' = {}
    BY <2>2 DEF SemInv, SemControl, Announced, Sleepers, Semaphore!Waiters,
       Semaphore!PostCheck
  <2>4. Cardinality(Sleepers') = 0
    BY <2>3, FS_EmptySet
  <2> QED BY <2>4, SetsFiniteNext DEF SemWakeInv
<1> QED BY <1>1, <1>2

\* The wake takes the post itself off, and puts a sleeper on the way.
LEMMA PostWakeWakes ==
  ASSUME SemInv, SemInv', SemWakeInv, NEW t \in Thread, Semaphore!PostWake(t)
  PROVE  SemWakeInv'
<1>1. PICK W \in SUBSET Sleepers :
        /\ IF Cardinality(Sleepers) <= 1 THEN W = Sleepers ELSE Cardinality(W) = 1
        /\ sem_asleep' = [u \in Thread |-> IF u \in W THEN NoAddr ELSE sem_asleep[u]]
        /\ sem_woken' = sem_woken \cup W
        /\ UNCHANGED sem_word
  BY InstanceSets DEF Semaphore!PostWake, Semaphore!FutexWake, Sleepers
<1>2. Sleepers' \subseteq Sleepers /\ Semaphore!count' = Semaphore!count
  BY <1>1, SemTypes DEF SemInv, Semaphore!count, Sleepers, Semaphore!Waiters
<1>3. CASE W = {}
  <2>1. Sleepers = {}
    BY <1>1, <1>3, FS_EmptySet
  <2>2. Cardinality(Sleepers') = 0
    BY <1>2, <2>1, FS_EmptySet
  <2> QED BY <2>2, SetsFiniteNext DEF SemWakeInv
<1>4. ASSUME NEW w \in W
      PROVE  SemWakeInv'
  <2>1. w # t /\ w \notin OnTheirWay
    BY <1>1 DEF SemInv, SemControl, Semaphore!PostWake, Semaphore!At, OnTheirWay,
       Sleepers, Semaphore!OnTheirWay, Semaphore!Waiters
  <2>2. (OnTheirWay \ {t}) \cup {w} \subseteq OnTheirWay'
    BY <1>1 DEF SemInv, SemType, SemControl, Semaphore!PostWake, Semaphore!Goto,
       OnTheirWay, Semaphore!OnTheirWay
  <2>3. Cardinality(OnTheirWay') >= Cardinality(OnTheirWay)
    <3>1. Cardinality((OnTheirWay \ {t}) \cup {w}) = Cardinality(OnTheirWay \ {t}) + 1
      BY <2>1, SetsFinite, RemovedCount, FS_AddElement
    <3>2. Cardinality((OnTheirWay \ {t}) \cup {w}) <= Cardinality(OnTheirWay')
      BY <2>2, SetsFiniteNext, FS_Subset
    <3>3. Cardinality(OnTheirWay \ {t}) >= Cardinality(OnTheirWay) - 1
                /\ Cardinality(OnTheirWay \ {t}) \in Nat
      BY SetsFinite, RemovedCount
    <3> QED BY <3>1, <3>2, <3>3, SetsFinite, SetsFiniteNext
  <2>4. Cardinality(Posting') >= Cardinality(Posting) - 1
    <3>1. Posting \ {t} \subseteq Posting'
      BY DEF SemInv, Posting, Semaphore!PostWake, Semaphore!Goto
    <3>2. Cardinality(Posting \ {t}) <= Cardinality(Posting')
      BY <3>1, SetsFiniteNext, FS_Subset
    <3>3. Cardinality(Posting \ {t}) >= Cardinality(Posting) - 1
                /\ Cardinality(Posting \ {t}) \in Nat
      BY SetsFinite, RemovedCount
    <3> QED BY <3>2, <3>3, SetsFinite, SetsFiniteNext
  <2>5. Cardinality(Sleepers') <= Cardinality(Sleepers) - 1
    <3>1. Sleepers' \subseteq Sleepers \ {w} /\ w \in Sleepers
      BY <1>1, SemTypes DEF OnTheirWay, Sleepers, Semaphore!Waiters
    <3>2. Cardinality(Sleepers \ {w}) = Cardinality(Sleepers) - 1
                /\ IsFiniteSet(Sleepers \ {w})
      BY <3>1, SetsFinite, FS_RemoveElement
    <3> QED BY <3>1, <3>2, FS_Subset
  <2>6. Semaphore!count \in Int
    BY SemTypes DEF SemInv, SemType
  <2> QED BY <1>2, <2>3, <2>4, <2>5, <2>6, SetsFinite, SetsFiniteNext DEF SemWakeInv
<1> QED BY <1>3, <1>4

\* So it always is.
LEMMA SemWakeInvariance == LibrarySpec => []SemWakeInv
<1>1. LibraryInit => SemWakeInv
  <2> SUFFICES ASSUME Semaphore!Init
               PROVE  SemWakeInv
    BY DEF LibraryInit, PrimitivesInit
  <2>1. Sleepers = {}
    BY SemTypes DEF Sleepers, Semaphore!Waiters, Semaphore!Init, Semaphore!FutexInit
  <2> QED BY <2>1, FS_EmptySet, SetsFinite DEF SemWakeInv
<1>2. SemInv /\ SemInv' /\ SemWakeInv /\ Semaphore!Next => SemWakeInv'
  BY sem_waitWakes, sem_trywaitWakes, sem_postWakes, DecrementLoadWakes,
     DecrementCasWakes, WaitAddWakes, WaitFutexWakes, WaitWokenWakes,
     WaitSpuriousWakes, WaitSubWakes, PostLoadWakes, PostCasWakes, PostCheckWakes,
     PostWakeWakes
     DEF Semaphore!Next, Semaphore!SemCall, Semaphore!SemStep
<1>3. SemInv /\ SemWakeInv /\ UNCHANGED semaphoreVars => SemWakeInv'
  BY DEF SemWakeInv, OnTheirWay, Posting, Sleepers, Semaphore!OnTheirWay,
     Semaphore!Waiters, Semaphore!count
<1>4. SemInv /\ SemInv' /\ SemWakeInv /\ [LibraryNext]_libraryVars => SemWakeInv'
  BY <1>2, <1>3 DEF LibraryNext
<1> QED BY <1>1, <1>4, SemInvariance, PTL DEF LibrarySpec

\* A unit and a sleeper are never left alone together: as many threads are on
\* their way as could meet.
THEOREM SemaphoreWakesArrive == LibrarySpec => []SemWakePending
<1>1. ASSUME SemInv, SemWakeInv
      PROVE  SemWakePending
  <2>1. Cardinality(Posting) <= Cardinality(OnTheirWay)
    <3>1. Posting \subseteq OnTheirWay
      BY DEF Posting, OnTheirWay, Semaphore!OnTheirWay
    <3> QED BY <3>1, SetsFinite, FS_Subset
  <2>2. Semaphore!count \in Int
    BY <1>1, SemTypes DEF SemInv, SemType
  <2>3. /\ Semaphore!Cardinality(OnTheirWay) = Cardinality(OnTheirWay)
        /\ Semaphore!Cardinality(Sleepers) = Cardinality(Sleepers)
    BY InstanceSets
  <2> QED BY <1>1, <2>1, <2>2, <2>3, SetsFinite
          DEF SemWakeInv, SemWakePending, Semaphore!SemWakePending, OnTheirWay, Sleepers
<1> QED BY <1>1, SemInvariance, SemWakeInvariance, PTL

\* The count and the number of waiters stay in their bounds.
THEOREM SemaphoreTyping == LibrarySpec => []Semaphore!TypeOK
<1>1. ASSUME SemInv
      PROVE  Semaphore!TypeOK
  <2>1. Cardinality(Announced) \in 0 .. Cardinality(Thread)
    BY SemTypes, FS_Subset, FS_CardinalityType DEF Announced
  <2> QED BY <1>1, <2>1, InstanceSets
          DEF SemInv, SemType, SemLabels, WaitersCounted, Semaphore!TypeOK
<1> QED BY <1>1, SemInvariance, PTL

-----------------------------------------------------------------------------
(* The wait queue of the futex calls.                                      *)

\* An instance counts as everybody does.
LEMMA QueueCardinality ==
  ASSUME NEW S
  PROVE  /\ UserFutex!Cardinality(S) = Cardinality(S)
         /\ UserFutex!Futexes!Cardinality(S) = Cardinality(S)
         /\ UserFutex!IsFiniteSet(S) <=> IsFiniteSet(S)
<1>1. UserFutex!Cardinality(S) = Cardinality(S)
  BY DEF UserFutex!Cardinality, Cardinality
<1>2. UserFutex!Futexes!Cardinality(S) = Cardinality(S)
  BY DEF UserFutex!Futexes!Cardinality, Cardinality
<1>3. UserFutex!IsFiniteSet(S) <=> IsFiniteSet(S)
  BY DEF UserFutex!IsFiniteSet, IsFiniteSet
<1> QED BY <1>1, <1>2, <1>3

\* What the constants must be.
LEMMA QueueConstants ==
  /\ IsFiniteSet(Thread) /\ NoThread \notin Thread
  /\ NoAddr \notin UserAddr /\ MaxCalls \in Nat /\ UserValue # {}
BY LibraryConstants, QueueCardinality DEF UserFutex!UserFutexConstants

\* In a line one is ahead of the other, and behind those who are ahead of him.
InLine(W, ahead) ==
  /\ \A t \in W : t \notin ahead[t]
  /\ \A t, u \in W : t # u => t \in ahead[u] \/ u \in ahead[t]
  /\ \A t, u \in W : u \in ahead[t] => ahead[u] \subseteq ahead[t]

\* Those with fewer than n ahead of them.
AreFirst(G, W, ahead, n) ==
  G \subseteq W /\ \A t \in W : t \in G <=> Cardinality(ahead[t] \cap W) < n

\* They are n, or all.
LEMMA FirstOfLine ==
  ASSUME NEW W, IsFiniteSet(W), NEW ahead, InLine(W, ahead), NEW n \in Nat,
         NEW G, AreFirst(G, W, ahead, n)
  PROVE  IF Cardinality(W) <= n THEN G = W ELSE Cardinality(G) = n
<1> USE DEF InLine, AreFirst
<1> DEFINE c == Cardinality(W)
           rank == [t \in W |-> Cardinality(ahead[t] \cap W)]
<1>1. c \in Nat
  BY FS_CardinalityType
<1>2. ASSUME NEW t \in W
      PROVE  rank[t] \in 0 .. c - 1
  <2>1. /\ IsFiniteSet(W \ {t}) /\ Cardinality(W \ {t}) = c - 1
    BY FS_RemoveElement
  <2>2. ahead[t] \cap W \in SUBSET (W \ {t})
    OBVIOUS
  <2>3. /\ Cardinality(ahead[t] \cap W) <= Cardinality(W \ {t})
        /\ IsFiniteSet(ahead[t] \cap W)
    BY <2>1, <2>2, FS_Subset
  <2>4. Cardinality(ahead[t] \cap W) \in Nat
    BY <2>3, FS_CardinalityType
  <2> QED BY <1>1, <2>1, <2>3, <2>4
<1>3. ASSUME NEW t \in W, NEW u \in W, u \in ahead[t]
      PROVE  rank[u] < rank[t]
  <2>1. /\ IsFiniteSet(ahead[t] \cap W) /\ IsFiniteSet(ahead[u] \cap W)
    BY FS_Intersection
  <2>2. ahead[u] \cap W \in SUBSET ((ahead[t] \cap W) \ {u})
    BY <1>3
  <2>3. /\ IsFiniteSet((ahead[t] \cap W) \ {u})
        /\ Cardinality((ahead[t] \cap W) \ {u}) = Cardinality(ahead[t] \cap W) - 1
    BY <1>3, <2>1, FS_RemoveElement
  <2>4. Cardinality(ahead[u] \cap W) <= Cardinality((ahead[t] \cap W) \ {u})
    BY <2>2, <2>3, FS_Subset
  <2> QED BY <1>2, <2>3, <2>4
<1>4. CASE c <= n
  <2>1. ASSUME NEW t \in W
        PROVE  Cardinality(ahead[t] \cap W) < n
    BY <1>1, <1>2, <1>4
  <2>2. \A t \in W : t \in G
    BY <2>1
  <2>3. G = W
    BY <2>2
  <2> QED BY <1>4, <2>3
<1>5. CASE ~ (c <= n)
  <2>1. rank \in Injection(W, 0 .. c - 1)
    <3>1. rank \in [W -> 0 .. c - 1]
      BY <1>2
    <3>2. ASSUME NEW t \in W, NEW u \in W, rank[t] = rank[u]
          PROVE  t = u
      BY <1>2, <1>3, <3>2
    <3> HIDE DEF rank
    <3> QED BY <3>1, <3>2 DEF Injection, IsInjective
  <2>2. IsFiniteSet(0 .. c - 1) /\ Cardinality(0 .. c - 1) = c
    BY <1>1, FS_Interval
  <2>3. rank \in Surjection(W, 0 .. c - 1)
    BY <2>1, <2>2, FS_Injection
  <2> DEFINE first == [t \in G |-> rank[t]]
  <2>4. ASSUME NEW t \in G
        PROVE  t \in W /\ rank[t] \in 0 .. n - 1
    BY <1>2
  <2>5. first \in Injection(G, 0 .. n - 1)
    <3>1. first \in [G -> 0 .. n - 1]
      BY <2>4
    <3>2. ASSUME NEW t \in G, NEW u \in G, first[t] = first[u]
          PROVE  t = u
      <4>1. rank[t] = rank[u] /\ t \in W /\ u \in W
        BY <3>2
      <4> HIDE DEF rank
      <4> QED BY <2>1, <4>1 DEF Injection, IsInjective
    <3> HIDE DEF first
    <3> QED BY <3>1, <3>2 DEF Injection, IsInjective
  <2>6. ASSUME NEW i \in 0 .. n - 1
        PROVE  \E t \in G : first[t] = i
    <3>1. i \in 0 .. c - 1
      BY <1>1, <1>5
    <3>2. \E t \in W : rank[t] = i
      <4> HIDE DEF rank
      <4> QED BY <2>3, <3>1 DEF Surjection
    <3>3. PICK t \in W : rank[t] = i
      BY <3>2
    <3>4. t \in G
      BY <3>3
    <3> QED BY <3>3, <3>4
  <2>7. first \in Surjection(G, 0 .. n - 1)
    <3>1. first \in [G -> 0 .. n - 1]
      BY <2>4
    <3> HIDE DEF first
    <3> QED BY <3>1, <2>6 DEF Surjection
  <2>8. IsFiniteSet(0 .. n - 1) /\ Cardinality(0 .. n - 1) = n
    BY FS_Interval
  <2>9. Cardinality(G) = n
    BY <2>5, <2>7, <2>8, FS_Injection
  <2> QED BY <1>5, <2>9
<1> QED BY <1>4, <1>5

\* Where a thread can be in a wait, and where it is on the list or was taken
\* off it by a wake.
QueueLabels == {"user", "lock", "read", "enqueue", "blocked", "relock", "check"}
Waits == {"blocked", "relock", "check"}

\* The types of the variables.
QueueType ==
  /\ user_word \in [UserAddr -> UserValue]
  /\ mu \in Thread \cup {NoThread}
  /\ user_pc \in [Thread -> QueueLabels]
  /\ arg \in [Thread -> [addr : UserAddr \cup {NoAddr}, value : UserValue, timed : BOOLEAN]]
  /\ signaled \subseteq Thread
  /\ status \in [Thread -> {"OK", "ETIMEDOUT", "EWOULDBLOCK"}]
  /\ calls \in 0 .. MaxCalls /\ wakes \in Nat /\ oks \in Nat

\* A thread between the lock and the unlock has the mutex, and one in a call
\* has an address.
QueueControl ==
  \A t \in Thread :
    /\ user_pc[t] \in {"read", "enqueue", "check"} => mu = t
    /\ user_pc[t] # "user" => arg[t].addr \in UserAddr

\* The list is one after the other, and on it are waiting threads.
QueueOrder ==
  /\ DOMAIN queue \subseteq Thread
  /\ \A t \in DOMAIN queue : user_pc[t] \in Waits /\ queue[t] \subseteq DOMAIN queue \ {t}
  /\ \A t, u \in DOMAIN queue : t # u => t \in queue[u] \/ u \in queue[t]
  /\ \A t, u \in DOMAIN queue : u \in queue[t] => queue[u] \subseteq queue[t]

\* A counted thread is in flight or has returned 0, and who returns has called.
InCall == {t \in Thread : user_pc[t] # "user"}
InFlight == UserFutex!InFlight

QueueCounts ==
  /\ wakes <= oks + Cardinality(InFlight)
  /\ oks + Cardinality(InCall) <= calls

QueueInv == QueueType /\ QueueControl /\ QueueOrder /\ QueueCounts

\* A wake asks for at least one thread.
LEMMA WakeNumbers == 1 .. UserFutex!Cardinality(Thread) \subseteq Nat
BY QueueConstants, QueueCardinality, FS_CardinalityType

\* A thread that makes no call has an arbitrary value recorded.
LEMMA QueueNoArg ==
  UserFutex!NoArg \in [addr : UserAddr \cup {NoAddr}, value : UserValue, timed : BOOLEAN]
BY QueueConstants DEF UserFutex!NoArg

\* The threads in a call and in flight can be counted, before a step and after.
LEMMA QueueSets ==
  /\ InFlight \subseteq InCall
  /\ IsFiniteSet(InFlight) /\ IsFiniteSet(InCall)
  /\ Cardinality(InFlight) \in Nat /\ Cardinality(InCall) \in Nat
<1>1. InFlight \subseteq InCall /\ InCall \subseteq Thread
  BY DEF InFlight, InCall, UserFutex!InFlight
<1> QED BY <1>1, QueueConstants, FS_Subset, FS_CardinalityType

LEMMA QueueSetsNext ==
  /\ IsFiniteSet(InFlight') /\ IsFiniteSet(InCall')
  /\ Cardinality(InFlight') \in Nat /\ Cardinality(InCall') \in Nat
<1>1. InFlight' \subseteq InCall' /\ InCall' \subseteq Thread
  BY DEF InFlight, InCall, UserFutex!InFlight
<1> QED BY <1>1, QueueConstants, FS_Subset, FS_CardinalityType

\* The program stores to a word.
LEMMA UserStoreQueue ==
  ASSUME QueueInv, NEW t \in Thread, NEW a \in UserAddr, NEW v \in UserValue,
         UserFutex!UserStore(t, a, v)
  PROVE  QueueInv'
<1> USE DEF UserFutex!UserStore, QueueInv
<1>1. QueueType'
  BY QueueConstants DEF QueueType
<1>2. QueueControl' /\ QueueOrder'
  BY DEF QueueControl, QueueOrder
<1>3. InFlight' = InFlight /\ InCall' = InCall
  BY DEF InFlight, InCall, UserFutex!InFlight, UserFutex!Queued
<1>4. QueueCounts'
  BY <1>3, QueueSets DEF QueueCounts, QueueType
<1> QED BY <1>1, <1>2, <1>4

\* A wait begins: one thread more is in a call, and one call is made.
LEMMA NaClSysFutexWaitAbsQueue ==
  ASSUME QueueInv, NEW t \in Thread, NEW a \in UserAddr, NEW v \in UserValue,
         NEW timed \in BOOLEAN, UserFutex!NaClSysFutexWaitAbs(t, a, v, timed)
  PROVE  QueueInv'
<1> USE DEF UserFutex!NaClSysFutexWaitAbs, UserFutex!Goto, QueueInv
<1>1. QueueType'
  BY QueueConstants DEF QueueType, QueueLabels
<1>2. QueueControl' /\ QueueOrder'
  BY DEF QueueControl, QueueOrder, QueueType, Waits
<1>3. InFlight' = InFlight
  BY DEF InFlight, UserFutex!InFlight, UserFutex!Queued, QueueType
<1>4. InCall' = InCall \cup {t} /\ t \notin InCall
  BY DEF InCall, QueueType
<1>5. Cardinality(InCall') = Cardinality(InCall) + 1
  BY <1>4, QueueSets, FS_AddElement
<1>6. QueueCounts'
  BY <1>3, <1>5, QueueSets DEF QueueCounts, QueueType
<1> QED BY <1>1, <1>2, <1>6

\* The mutex of the list is taken.
LEMMA WaitLockQueue ==
  ASSUME QueueInv, NEW t \in Thread, UserFutex!WaitLock(t)
  PROVE  QueueInv'
<1> USE DEF UserFutex!WaitLock, UserFutex!Goto, UserFutex!LockList, QueueInv
<1>1. QueueType'
  BY DEF QueueType, QueueLabels
<1>2. QueueControl' /\ QueueOrder'
  BY QueueConstants DEF QueueControl, QueueOrder, QueueType, Waits
<1>3. InFlight' = InFlight /\ InCall' = InCall
  BY DEF InFlight, InCall, UserFutex!InFlight, UserFutex!Queued, QueueType
<1>4. QueueCounts'
  BY <1>3, QueueSets DEF QueueCounts, QueueType
<1> QED BY <1>1, <1>2, <1>4

\* The word is compared: the call goes on, or is over.
LEMMA WaitReadQueue ==
  ASSUME QueueInv, NEW t \in Thread, UserFutex!WaitRead(t)
  PROVE  QueueInv'
<1> USE DEF UserFutex!WaitRead, UserFutex!Goto, UserFutex!UnlockList, QueueInv
<1>1. QueueType'
  BY QueueNoArg DEF QueueType, QueueLabels
<1>2. QueueControl' /\ QueueOrder'
  BY QueueConstants DEF QueueControl, QueueOrder, QueueType, Waits
<1>3. InFlight' = InFlight
  BY DEF InFlight, UserFutex!InFlight, UserFutex!Queued, QueueType
<1>4. InCall' \in SUBSET InCall
  BY DEF InCall, QueueType
<1>5. Cardinality(InCall') <= Cardinality(InCall)
  BY <1>4, QueueSets, FS_Subset
<1>6. QueueCounts'
  BY <1>3, <1>5, QueueSets, QueueSetsNext DEF QueueCounts, QueueType
<1> QED BY <1>1, <1>2, <1>6

\* A thread joins the list behind the others.
LEMMA WaitEnqueueQueue ==
  ASSUME QueueInv, NEW t \in Thread, UserFutex!WaitEnqueue(t)
  PROVE  QueueInv'
<1> USE DEF UserFutex!WaitEnqueue, UserFutex!Goto, UserFutex!UnlockList, QueueInv
<1>1. QueueType'
  BY DEF QueueType, QueueLabels
<1>2. QueueControl'
  BY QueueConstants DEF QueueControl, QueueType
<1>3. /\ t \notin DOMAIN queue /\ DOMAIN queue' = DOMAIN queue \cup {t}
      /\ queue'[t] = DOMAIN queue
      /\ \A u \in DOMAIN queue : queue'[u] = queue[u]
  BY DEF QueueOrder, UserFutex!ListAddNodeAtEnd, Waits
<1>4. QueueOrder'
  <2>1. \A u \in DOMAIN queue' : user_pc'[u] \in Waits
    BY <1>3 DEF QueueOrder, QueueType, Waits
  <2>2. \A u \in DOMAIN queue' : queue'[u] \subseteq DOMAIN queue' \ {u}
    BY <1>3 DEF QueueOrder
  <2>3. \A u, w \in DOMAIN queue' : u # w => u \in queue'[w] \/ w \in queue'[u]
    BY <1>3 DEF QueueOrder
  <2>4. \A u, w \in DOMAIN queue' : w \in queue'[u] => queue'[w] \subseteq queue'[u]
    BY <1>3 DEF QueueOrder
  <2> QED BY <1>3, <2>1, <2>2, <2>3, <2>4 DEF QueueOrder
<1>5. InFlight' = InFlight /\ InCall' = InCall
  BY <1>3 DEF InFlight, InCall, UserFutex!InFlight, UserFutex!Queued, QueueType
<1>6. QueueCounts'
  BY <1>5, QueueSets DEF QueueCounts, QueueType
<1> QED BY <1>1, <1>2, <1>4, <1>6

\* The condition variable lets the thread go.
LEMMA CondReturnQueue ==
  ASSUME QueueInv, NEW t \in Thread, NEW s \in {"OK", "ETIMEDOUT"}, UserFutex!CondReturn(t, s)
  PROVE  QueueInv'
<1> USE DEF UserFutex!CondReturn, UserFutex!Goto, QueueInv
<1>1. QueueType'
  BY DEF QueueType, QueueLabels
<1>2. QueueControl' /\ QueueOrder'
  BY DEF QueueControl, QueueOrder, QueueType, Waits
<1>3. InFlight' = InFlight /\ InCall' = InCall
  BY DEF InFlight, InCall, UserFutex!InFlight, UserFutex!Queued, QueueType
<1>4. QueueCounts'
  BY <1>3, QueueSets DEF QueueCounts, QueueType
<1> QED BY <1>1, <1>2, <1>4

\* It takes the mutex again.
LEMMA CondRelockQueue ==
  ASSUME QueueInv, NEW t \in Thread, UserFutex!CondRelock(t)
  PROVE  QueueInv'
<1> USE DEF UserFutex!CondRelock, UserFutex!Goto, UserFutex!LockList, QueueInv
<1>1. QueueType'
  BY DEF QueueType, QueueLabels
<1>2. QueueControl' /\ QueueOrder'
  BY QueueConstants DEF QueueControl, QueueOrder, QueueType, Waits
<1>3. InFlight' = InFlight /\ InCall' = InCall
  BY DEF InFlight, InCall, UserFutex!InFlight, UserFutex!Queued, QueueType
<1>4. QueueCounts'
  BY <1>3, QueueSets DEF QueueCounts, QueueType
<1> QED BY <1>1, <1>2, <1>4

\* Who leaves the list leaves the others in their order.
LEMMA LeavingKeepsOrder ==
  ASSUME QueueOrder, NEW leaving, queue' = UserFutex!ListRemoveNode(leaving),
         \A u \in DOMAIN queue' : user_pc'[u] \in Waits
  PROVE  QueueOrder'
<1>1. /\ DOMAIN queue' = DOMAIN queue \ leaving
      /\ \A u \in DOMAIN queue' : queue'[u] = queue[u] \ leaving
  BY DEF UserFutex!ListRemoveNode
<1>2. /\ DOMAIN queue' \subseteq Thread
      /\ \A u \in DOMAIN queue' : queue'[u] \subseteq DOMAIN queue' \ {u}
  BY <1>1 DEF QueueOrder
<1>3. \A u, w \in DOMAIN queue' : u # w => u \in queue'[w] \/ w \in queue'[u]
  BY <1>1 DEF QueueOrder
<1>4. \A u, w \in DOMAIN queue' : w \in queue'[u] => queue'[w] \subseteq queue'[u]
  BY <1>1 DEF QueueOrder
<1> QED BY <1>2, <1>3, <1>4 DEF QueueOrder

\* A wait is over.  Who was taken off the list returns 0 and is counted; who
\* is on it takes himself off.
LEMMA WaitCheckQueue ==
  ASSUME QueueInv, NEW t \in Thread, UserFutex!WaitCheck(t)
  PROVE  QueueInv'
<1> USE DEF UserFutex!WaitCheck, UserFutex!Goto, UserFutex!UnlockList, QueueInv
<1>1. user_pc[t] = "check" /\ UserFutex!Result(t) \in {"OK", "ETIMEDOUT", "EWOULDBLOCK"}
  BY DEF QueueType, UserFutex!Result
<1>2. QueueType'
  BY <1>1, QueueNoArg DEF QueueType, QueueLabels
<1>3. QueueControl'
  BY <1>1, QueueConstants DEF QueueControl, QueueType
<1>4. t \notin DOMAIN queue' /\ DOMAIN queue' = DOMAIN queue \ {t}
  BY DEF UserFutex!Queued, UserFutex!ListRemoveNode
<1>5. QueueOrder'
  <2>1. \A u \in DOMAIN queue' : user_pc'[u] \in Waits
    BY <1>4 DEF QueueOrder, QueueType
  <2>2. CASE t \in DOMAIN queue
    BY <2>1, <2>2, LeavingKeepsOrder DEF UserFutex!Queued
  <2>3. CASE t \notin DOMAIN queue
    BY <2>1, <2>3 DEF UserFutex!Queued, QueueOrder
  <2> QED BY <2>2, <2>3
<1>6. InFlight' = InFlight \ {t} /\ InCall' = InCall \ {t} /\ t \in InCall
  BY <1>1, <1>4 DEF InFlight, InCall, UserFutex!InFlight, UserFutex!Queued, QueueType
<1>7. /\ Cardinality(InCall') = Cardinality(InCall) - 1
      /\ Cardinality(InFlight') =
           IF t \in InFlight THEN Cardinality(InFlight) - 1 ELSE Cardinality(InFlight)
  BY <1>6, QueueSets, FS_RemoveElement
<1>8. t \in InFlight => UserFutex!Result(t) = "OK"
  BY DEF InFlight, UserFutex!InFlight, UserFutex!Result
<1>9. /\ oks' \in {oks, oks + 1} /\ wakes' = wakes /\ calls' = calls
      /\ t \in InFlight => oks' = oks + 1
  BY <1>8
<1>10. QueueCounts'
  BY <1>7, <1>9, QueueSets DEF QueueCounts, QueueType
<1> QED BY <1>2, <1>3, <1>5, <1>10

\* A wake takes threads off the list, which are in flight then.
LEMMA NaClSysFutexWakeQueue ==
  ASSUME QueueInv, NEW t \in Thread, NEW a \in UserAddr, NEW n \in Nat,
         UserFutex!NaClSysFutexWake(t, a, n)
  PROVE  QueueInv'
<1> DEFINE gone == UserFutex!Woken(a, n)
<1> USE DEF UserFutex!NaClSysFutexWake, UserFutex!TakeAndSignal, QueueInv
<1>1. gone \subseteq DOMAIN queue /\ gone \subseteq Thread
  BY DEF UserFutex!Woken, UserFutex!Waiting, QueueOrder
<1>2. /\ IsFiniteSet(gone) /\ Cardinality(gone) \in Nat
      /\ UserFutex!Cardinality(gone) = Cardinality(gone)
  BY <1>1, QueueConstants, QueueCardinality, FS_Subset, FS_CardinalityType
<1> HIDE DEF gone
<1>3. /\ queue' = UserFutex!ListRemoveNode(gone)
      /\ signaled' \subseteq Thread /\ wakes' = wakes + Cardinality(gone)
  BY <1>1, <1>2 DEF gone, QueueType
<1>4. DOMAIN queue' = DOMAIN queue \ gone
  BY <1>3 DEF UserFutex!ListRemoveNode
<1>5. QueueType'
  BY <1>2, <1>3, QueueConstants DEF QueueType
<1>6. QueueControl'
  BY DEF QueueControl
<1>7. QueueOrder'
  BY <1>3, <1>4, LeavingKeepsOrder DEF QueueOrder
<1>8. InCall' = InCall
  BY DEF InCall
<1>9. InFlight' = InFlight \cup gone /\ InFlight \cap gone = {}
  BY <1>1, <1>4 DEF InFlight, UserFutex!InFlight, UserFutex!Queued, QueueOrder, Waits
<1>10. Cardinality(InFlight') = Cardinality(InFlight) + Cardinality(gone)
  <2>1. /\ IsFiniteSet(InFlight) /\ IsFiniteSet(gone)
        /\ Cardinality(InFlight) \in Nat /\ Cardinality(gone) \in Nat
    BY <1>2, QueueSets
  <2>2. Cardinality(InFlight \cup gone) =
          Cardinality(InFlight) + Cardinality(gone) - Cardinality(InFlight \cap gone)
    BY <2>1, FS_Union
  <2>3. Cardinality(InFlight \cap gone) = 0
    BY <1>9, FS_EmptySet
  <2> QED BY <1>9, <2>1, <2>2, <2>3
<1>11. QueueCounts'
  BY <1>2, <1>3, <1>8, <1>10, QueueSets DEF QueueCounts, QueueType
<1> QED BY <1>5, <1>6, <1>7, <1>11

\* So every step of the queue keeps the invariant, ...
LEMMA QueueNext == QueueInv /\ UserFutex!Next => QueueInv'
<1> SUFFICES ASSUME QueueInv, NEW t \in Thread,
                    \/ \E a \in UserAddr, v \in UserValue : UserFutex!UserStore(t, a, v)
                    \/ \E a \in UserAddr, v \in UserValue, timed \in BOOLEAN :
                          UserFutex!NaClSysFutexWaitAbs(t, a, v, timed)
                    \/ \E a \in UserAddr, n \in Nat : UserFutex!NaClSysFutexWake(t, a, n)
                    \/ \E s \in {"OK", "ETIMEDOUT"} : UserFutex!CondReturn(t, s)
                    \/ UserFutex!ThreadStep(t)
             PROVE  QueueInv'
  BY WakeNumbers DEF UserFutex!Next
<1> QED BY UserStoreQueue, NaClSysFutexWaitAbsQueue, WaitLockQueue, WaitReadQueue,
           WaitEnqueueQueue, CondReturnQueue, CondRelockQueue, WaitCheckQueue,
           NaClSysFutexWakeQueue DEF UserFutex!ThreadStep

\* ... one that is not the queue's leaves it alone, ...
LEMMA QueueUnchanged == QueueInv /\ UNCHANGED userVars => QueueInv'
<1> SUFFICES ASSUME QueueInv, UNCHANGED userVars
             PROVE  QueueInv'
  OBVIOUS
<1>1. QueueType' /\ QueueControl' /\ QueueOrder'
  BY DEF QueueInv, QueueType, QueueControl, QueueOrder
<1>2. InFlight' = InFlight /\ InCall' = InCall
  BY DEF InFlight, InCall, UserFutex!InFlight, UserFutex!Queued
<1> QED BY <1>1, <1>2 DEF QueueInv, QueueCounts

\* ... and an empty list satisfies it.
LEMMA QueueInitial == LibraryInit => QueueInv
<1> SUFFICES ASSUME UserFutex!Init
             PROVE  QueueInv
  BY DEF LibraryInit, PrimitivesInit
<1> USE DEF UserFutex!Init
<1>1. QueueType
  BY QueueConstants, QueueNoArg DEF QueueType, QueueLabels
<1>2. QueueControl /\ QueueOrder
  BY DEF QueueControl, QueueOrder
<1>3. InFlight = {} /\ InCall = {}
  BY DEF InFlight, InCall, UserFutex!InFlight
<1> QED BY <1>1, <1>2, <1>3, FS_EmptySet DEF QueueInv, QueueCounts

\* So it always holds.
LEMMA QueueInvariance == LibrarySpec => []QueueInv
<1>1. QueueInv /\ [LibraryNext]_libraryVars => QueueInv'
  BY QueueNext, QueueUnchanged DEF LibraryNext
<1> QED BY <1>1, QueueInitial, PTL DEF LibrarySpec

\* A thread that a wake has counted returns 0, also when its wait times out
\* meanwhile: the counts are exact (NaClSysFutexWake, sys_futex.c).
THEOREM CountedWaitsReturn == LibrarySpec => []CountedWaitsSucceed
<1>1. QueueInv => CountedWaitsSucceed
  BY QueueCardinality DEF QueueInv, QueueCounts, InFlight, CountedWaitsSucceed,
     UserFutex!CountedWaitsSucceed
<1> QED BY <1>1, QueueInvariance, PTL

\* The list has each thread once, and no more waits return 0 and no more
\* threads are woken than calls are made.
LEMMA QueueTyping == LibrarySpec => []UserFutex!TypeOK
<1>1. ASSUME QueueInv
      PROVE  UserFutex!TypeOK
  <2>1. Cardinality(InFlight) <= Cardinality(InCall)
    BY QueueSets, FS_Subset
  <2>2. calls \in 0 .. MaxCalls /\ oks \in 0 .. MaxCalls /\ wakes \in 0 .. MaxCalls
    BY <1>1, <2>1, QueueSets, QueueConstants DEF QueueInv, QueueCounts, QueueType
  <2> QED BY <1>1, <2>2
          DEF QueueInv, QueueType, QueueLabels, QueueOrder, UserFutex!TypeOK
<1> QED BY <1>1, QueueInvariance, PTL

-----------------------------------------------------------------------------
(* The wait queue implements the futex calls.                              *)

\* The address each thread sleeps on: it does from the moment at which it has
\* found the word unchanged.
Asleep == [t \in Thread |-> IF UserFutex!Queued(t) \/ user_pc[t] = "enqueue"
                            THEN arg[t].addr ELSE NoAddr]

\* What a step of the futex calls does, in these terms.
FutexIdle == user_word' = user_word /\ Asleep' = Asleep /\ InFlight' = InFlight

FutexStore ==
  /\ \E a \in UserAddr, v \in UserValue : user_word' = [user_word EXCEPT ![a] = v]
  /\ Asleep' = Asleep /\ InFlight' = InFlight

FutexBlocks(t, a) ==
  /\ Asleep[t] = NoAddr /\ t \notin InFlight /\ user_word[a] \in UserValue
  /\ Asleep' = [Asleep EXCEPT ![t] = a]
  /\ user_word' = user_word /\ InFlight' = InFlight

FutexReturns(t) ==
  /\ t \in InFlight /\ InFlight' = InFlight \ {t}
  /\ user_word' = user_word /\ Asleep' = Asleep

FutexGivesUp(t, a) ==
  /\ Asleep[t] = a /\ Asleep' = [Asleep EXCEPT ![t] = NoAddr]
  /\ user_word' = user_word /\ InFlight' = InFlight

FutexWakes(a, n) ==
  \E W \in SUBSET {t \in Thread : Asleep[t] = a} :
    /\ IF Cardinality({t \in Thread : Asleep[t] = a}) <= n
       THEN W = {t \in Thread : Asleep[t] = a} ELSE Cardinality(W) = n
    /\ Asleep' = [t \in Thread |-> IF t \in W THEN NoAddr ELSE Asleep[t]]
    /\ InFlight' = InFlight \cup W /\ user_word' = user_word

\* They are the steps of the specification of the futex calls.
LEMMA FutexIdleRefines ==
  ASSUME FutexIdle
  PROVE  UNCHANGED UserFutex!Futexes!futexVars
BY DEF FutexIdle, Asleep, InFlight, UserFutex!Futexes!futexVars

LEMMA FutexStoreRefines ==
  ASSUME FutexStore
  PROVE  UserFutex!Futexes!AnyNext
BY DEF FutexStore, Asleep, InFlight, UserFutex!Futexes!AnyNext, UserFutex!Futexes!Store

LEMMA FutexBlocksRefines ==
  ASSUME NEW t \in Thread, NEW a \in UserAddr, FutexBlocks(t, a)
  PROVE  UserFutex!Futexes!AnyNext
<1>1. PICK v \in UserValue : user_word[a] = v
  BY DEF FutexBlocks
<1>2. UserFutex!Futexes!FutexBlock(t, a, v)
  BY <1>1 DEF FutexBlocks, Asleep, InFlight, UserFutex!Futexes!FutexBlock
<1>3. Asleep[t] = NoAddr /\ t \notin UserFutex!InFlight
  BY DEF FutexBlocks, InFlight
<1> QED BY <1>2, <1>3 DEF Asleep, UserFutex!Futexes!AnyNext

LEMMA FutexReturnsRefines ==
  ASSUME NEW t \in Thread, FutexReturns(t)
  PROVE  UserFutex!Futexes!AnyNext
<1>1. UserFutex!Futexes!FutexReturn(t)
  BY DEF FutexReturns, Asleep, InFlight, UserFutex!Futexes!FutexReturn
<1> QED BY <1>1 DEF UserFutex!Futexes!AnyNext

LEMMA FutexGivesUpRefines ==
  ASSUME NEW t \in Thread, NEW a \in UserAddr, FutexGivesUp(t, a)
  PROVE  UserFutex!Futexes!AnyNext
<1>1. UserFutex!Futexes!FutexGiveUp(t, a)
  BY DEF FutexGivesUp, Asleep, InFlight, UserFutex!Futexes!FutexGiveUp
<1> QED BY <1>1 DEF UserFutex!Futexes!AnyNext

LEMMA FutexWakesRefines ==
  ASSUME NEW a \in UserAddr, NEW n \in Nat, FutexWakes(a, n)
  PROVE  UserFutex!Futexes!FutexWake(a, n)
BY QueueCardinality
   DEF FutexWakes, Asleep, InFlight, UserFutex!Futexes!FutexWake, UserFutex!Futexes!Waiters

\* Who does not sleep has another reason to be asleep than an address.
LEMMA AsleepIs ==
  ASSUME QueueInv, NEW t \in Thread, NEW a \in UserAddr
  PROVE  Asleep[t] = a <=> (t \in DOMAIN queue \/ user_pc[t] = "enqueue") /\ arg[t].addr = a
BY QueueConstants DEF Asleep, UserFutex!Queued

\* The actions in these terms.
LEMMA UserStoreFutex ==
  ASSUME QueueInv, NEW t \in Thread, NEW a \in UserAddr, NEW v \in UserValue,
         UserFutex!UserStore(t, a, v)
  PROVE  FutexStore
BY DEF UserFutex!UserStore, FutexStore, Asleep, InFlight, UserFutex!InFlight, UserFutex!Queued

LEMMA NaClSysFutexWaitAbsFutex ==
  ASSUME QueueInv, NEW t \in Thread, NEW a \in UserAddr, NEW v \in UserValue,
         NEW timed \in BOOLEAN, UserFutex!NaClSysFutexWaitAbs(t, a, v, timed)
  PROVE  FutexIdle
<1> USE DEF UserFutex!NaClSysFutexWaitAbs, UserFutex!Goto, QueueInv, UserFutex!Queued
<1>1. t \notin DOMAIN queue
  BY DEF QueueOrder, Waits
<1>2. \A u \in Thread : /\ user_pc'[u] = "enqueue" <=> user_pc[u] = "enqueue"
                        /\ u # t => arg'[u] = arg[u]
  BY DEF QueueType
<1>3. Asleep' = Asleep
  BY <1>1, <1>2 DEF Asleep
<1>4. InFlight' = InFlight
  BY DEF InFlight, UserFutex!InFlight, QueueType
<1> QED BY <1>3, <1>4 DEF FutexIdle

LEMMA WaitLockFutex ==
  ASSUME QueueInv, NEW t \in Thread, UserFutex!WaitLock(t)
  PROVE  FutexIdle
<1> USE DEF UserFutex!WaitLock, UserFutex!Goto, UserFutex!LockList, QueueInv, UserFutex!Queued
<1>1. \A u \in Thread : user_pc'[u] = "enqueue" <=> user_pc[u] = "enqueue"
  BY DEF QueueType
<1>2. Asleep' = Asleep
  BY <1>1 DEF Asleep
<1>3. InFlight' = InFlight
  BY DEF InFlight, UserFutex!InFlight, QueueType
<1> QED BY <1>2, <1>3 DEF FutexIdle

\* The word is unchanged: the thread falls asleep, although it is not yet on
\* the list.
LEMMA WaitReadFutex ==
  ASSUME QueueInv, NEW t \in Thread, UserFutex!WaitRead(t)
  PROVE  FutexIdle \/ FutexBlocks(t, arg[t].addr)
<1> USE DEF UserFutex!WaitRead, UserFutex!Goto, QueueInv, UserFutex!Queued
<1>1. t \notin DOMAIN queue /\ t \notin InFlight
  BY DEF QueueOrder, Waits, InFlight, UserFutex!InFlight
<1>2. InFlight' = InFlight
  BY DEF InFlight, UserFutex!InFlight, QueueType
<1>3. \A u \in Thread : u # t => user_pc'[u] = user_pc[u] /\ arg'[u] = arg[u]
  BY DEF QueueType
<1>4. CASE user_word[arg[t].addr] = arg[t].value
  <2>1. user_pc'[t] = "enqueue" /\ arg' = arg /\ user_word' = user_word
    BY <1>4 DEF QueueType
  <2>2. Asleep[t] = NoAddr
    BY <1>1 DEF Asleep
  <2>3. Asleep' = [Asleep EXCEPT ![t] = arg[t].addr]
    BY <1>1, <1>3, <2>1 DEF Asleep
  <2>4. user_word[arg[t].addr] \in UserValue
    BY <1>4 DEF QueueType
  <2> QED BY <1>1, <1>2, <2>1, <2>2, <2>3, <2>4 DEF FutexBlocks
<1>5. CASE user_word[arg[t].addr] # arg[t].value
  <2>1. user_pc'[t] = "user" /\ user_word' = user_word
    BY <1>5 DEF QueueType
  <2>2. Asleep' = Asleep
    BY <1>1, <1>3, <2>1 DEF Asleep
  <2> QED BY <1>2, <2>1, <2>2 DEF FutexIdle
<1> QED BY <1>4, <1>5

LEMMA WaitEnqueueFutex ==
  ASSUME QueueInv, NEW t \in Thread, UserFutex!WaitEnqueue(t)
  PROVE  FutexIdle
<1> USE DEF UserFutex!WaitEnqueue, UserFutex!Goto, QueueInv, UserFutex!Queued
<1>1. DOMAIN queue' = DOMAIN queue \cup {t}
  BY DEF UserFutex!ListAddNodeAtEnd
<1>2. /\ user_pc'[t] = "blocked"
      /\ \A u \in Thread : u # t => user_pc'[u] = user_pc[u]
  BY DEF QueueType
<1>3. Asleep' = Asleep
  BY <1>1, <1>2 DEF Asleep
<1>4. InFlight' = InFlight
  BY <1>1, <1>2 DEF InFlight, UserFutex!InFlight
<1> QED BY <1>3, <1>4 DEF FutexIdle

LEMMA CondReturnFutex ==
  ASSUME QueueInv, NEW t \in Thread, NEW s \in {"OK", "ETIMEDOUT"}, UserFutex!CondReturn(t, s)
  PROVE  FutexIdle
<1> USE DEF UserFutex!CondReturn, UserFutex!Goto, QueueInv, UserFutex!Queued
<1>1. \A u \in Thread : user_pc'[u] = "enqueue" <=> user_pc[u] = "enqueue"
  BY DEF QueueType
<1>2. Asleep' = Asleep
  BY <1>1 DEF Asleep
<1>3. InFlight' = InFlight
  BY DEF InFlight, UserFutex!InFlight, QueueType
<1> QED BY <1>2, <1>3 DEF FutexIdle

LEMMA CondRelockFutex ==
  ASSUME QueueInv, NEW t \in Thread, UserFutex!CondRelock(t)
  PROVE  FutexIdle
<1> USE DEF UserFutex!CondRelock, UserFutex!Goto, UserFutex!LockList, QueueInv,
            UserFutex!Queued
<1>1. \A u \in Thread : user_pc'[u] = "enqueue" <=> user_pc[u] = "enqueue"
  BY DEF QueueType
<1>2. Asleep' = Asleep
  BY <1>1 DEF Asleep
<1>3. InFlight' = InFlight
  BY DEF InFlight, UserFutex!InFlight, QueueType
<1> QED BY <1>2, <1>3 DEF FutexIdle

\* Who is on the list yet gives up, who was taken off it returns.
LEMMA WaitCheckFutex ==
  ASSUME QueueInv, NEW t \in Thread, UserFutex!WaitCheck(t)
  PROVE  FutexGivesUp(t, arg[t].addr) \/ FutexReturns(t)
<1> USE DEF UserFutex!WaitCheck, UserFutex!Goto, QueueInv, UserFutex!Queued
<1>1. /\ user_pc[t] = "check" /\ user_pc'[t] = "user"
      /\ \A u \in Thread : u # t => user_pc'[u] = user_pc[u] /\ arg'[u] = arg[u]
  BY DEF QueueType
<1>2. t \notin DOMAIN queue' /\ DOMAIN queue' = DOMAIN queue \ {t}
  BY DEF UserFutex!ListRemoveNode
<1>3. CASE t \in DOMAIN queue
  <2>1. Asleep[t] = arg[t].addr
    BY <1>3 DEF Asleep
  <2>2. Asleep' = [Asleep EXCEPT ![t] = NoAddr]
    <3>1. \A u \in Thread : u # t => (u \in DOMAIN queue' <=> u \in DOMAIN queue)
      BY <1>2
    <3>2. \A u \in Thread : Asleep'[u] = IF u = t THEN NoAddr ELSE Asleep[u]
      BY <1>1, <1>2, <3>1 DEF Asleep
    <3>3. Asleep' = [u \in Thread |-> Asleep'[u]] /\ DOMAIN Asleep = Thread
      BY DEF Asleep
    <3> QED BY <3>2, <3>3
  <2>3. InFlight' = InFlight
    BY <1>1, <1>2, <1>3 DEF InFlight, UserFutex!InFlight
  <2> QED BY <2>1, <2>2, <2>3 DEF FutexGivesUp
<1>4. CASE t \notin DOMAIN queue
  <2>1. Asleep' = Asleep
    BY <1>1, <1>2, <1>4 DEF Asleep
  <2>2. t \in InFlight /\ InFlight' = InFlight \ {t}
    BY <1>1, <1>2, <1>4 DEF InFlight, UserFutex!InFlight
  <2> QED BY <2>1, <2>2 DEF FutexReturns
<1> QED BY <1>3, <1>4

\* With the mutex of the list free nobody is about to join it, so the sleepers
\* are those on the list, and a wake takes as many of them as it should.
LEMMA NaClSysFutexWakeFutex ==
  ASSUME QueueInv, NEW t \in Thread, NEW a \in UserAddr, NEW n \in Nat,
         UserFutex!NaClSysFutexWake(t, a, n)
  PROVE  FutexWakes(a, n)
<1> DEFINE W == UserFutex!Waiting(a)
           gone == UserFutex!Woken(a, n)
<1> USE DEF UserFutex!NaClSysFutexWake, UserFutex!TakeAndSignal
<1>1. \A u \in Thread : user_pc[u] # "enqueue"
  BY QueueConstants DEF QueueInv, QueueControl
<1>2. W \subseteq DOMAIN queue /\ W \subseteq Thread /\ IsFiniteSet(W)
  BY QueueConstants, FS_Subset DEF UserFutex!Waiting, QueueInv, QueueOrder
<1>3. {u \in Thread : Asleep[u] = a} = W
  BY <1>1, <1>2, AsleepIs DEF UserFutex!Waiting
<1>4. AreFirst(gone, W, queue, n)
  BY QueueCardinality DEF AreFirst, UserFutex!Woken
<1>5. IF Cardinality(W) <= n THEN gone = W ELSE Cardinality(gone) = n
  <2>1. InLine(W, queue)
    BY <1>2 DEF InLine, QueueInv, QueueOrder
  <2> HIDE DEF W, gone
  <2> QED BY <1>2, <1>4, <2>1, FirstOfLine
<1>6. gone \in SUBSET W
  BY <1>4 DEF AreFirst
<1>7. DOMAIN queue' = DOMAIN queue \ gone
  BY DEF UserFutex!ListRemoveNode
<1>8. user_pc' = user_pc /\ arg' = arg /\ user_word' = user_word
  OBVIOUS
<1> HIDE DEF W, gone
<1>9. Asleep' = [u \in Thread |-> IF u \in gone THEN NoAddr ELSE Asleep[u]]
  BY <1>1, <1>7, <1>8 DEF Asleep, UserFutex!Queued
<1>10. InFlight' = InFlight \cup gone
  BY <1>2, <1>6, <1>7, <1>8 DEF InFlight, UserFutex!InFlight, UserFutex!Queued, QueueInv,
     QueueOrder, Waits
<1> QED BY <1>3, <1>5, <1>6, <1>8, <1>9, <1>10 DEF FutexWakes

\* A wake asks for no more threads than there are.
LEMMA NaClSysFutexWakeRefines ==
  ASSUME QueueInv, NEW t \in Thread, NEW a \in UserAddr,
         NEW n \in 1 .. UserFutex!Cardinality(Thread), UserFutex!NaClSysFutexWake(t, a, n)
  PROVE  /\ UserFutex!Futexes!FutexWake(a, n)
         /\ UserFutex!Futexes!AnyNext
<1>1. n \in Nat /\ n \in 1 .. UserFutex!Futexes!Cardinality(Thread)
  BY WakeNumbers, QueueCardinality
<1>2. UserFutex!Futexes!FutexWake(a, n)
  BY <1>1, NaClSysFutexWakeFutex, FutexWakesRefines
<1> QED BY <1>1, <1>2 DEF UserFutex!Futexes!AnyNext

\* So each step of the queue is one of the futex calls, or none.
LEMMA QueueRefines ==
  QueueInv /\ UserFutex!Next => [UserFutex!Futexes!AnyNext]_(UserFutex!Futexes!futexVars)
<1> SUFFICES ASSUME QueueInv, NEW t \in Thread,
                    \/ \E a \in UserAddr, v \in UserValue : UserFutex!UserStore(t, a, v)
                    \/ \E a \in UserAddr, v \in UserValue, timed \in BOOLEAN :
                          UserFutex!NaClSysFutexWaitAbs(t, a, v, timed)
                    \/ \E a \in UserAddr, n \in 1 .. UserFutex!Cardinality(Thread) :
                          UserFutex!NaClSysFutexWake(t, a, n)
                    \/ \E s \in {"OK", "ETIMEDOUT"} : UserFutex!CondReturn(t, s)
                    \/ UserFutex!ThreadStep(t)
             PROVE  UserFutex!Futexes!AnyNext \/ UNCHANGED UserFutex!Futexes!futexVars
  BY DEF UserFutex!Next
<1>1. CASE \E a \in UserAddr, v \in UserValue : UserFutex!UserStore(t, a, v)
  BY <1>1, UserStoreFutex, FutexStoreRefines
<1>2. CASE \E a \in UserAddr, v \in UserValue, timed \in BOOLEAN :
             UserFutex!NaClSysFutexWaitAbs(t, a, v, timed)
  BY <1>2, NaClSysFutexWaitAbsFutex, FutexIdleRefines
<1>3. CASE \E a \in UserAddr, n \in 1 .. UserFutex!Cardinality(Thread) :
             UserFutex!NaClSysFutexWake(t, a, n)
  BY <1>3, NaClSysFutexWakeRefines
<1>4. CASE \E s \in {"OK", "ETIMEDOUT"} : UserFutex!CondReturn(t, s)
  BY <1>4, CondReturnFutex, FutexIdleRefines
<1>5. CASE UserFutex!WaitLock(t) \/ UserFutex!WaitEnqueue(t) \/ UserFutex!CondRelock(t)
  BY <1>5, WaitLockFutex, WaitEnqueueFutex, CondRelockFutex, FutexIdleRefines
<1>6. CASE UserFutex!WaitRead(t)
  <2>1. arg[t].addr \in UserAddr
    BY <1>6 DEF QueueInv, QueueControl, UserFutex!WaitRead
  <2> QED BY <1>6, <2>1, WaitReadFutex, FutexIdleRefines, FutexBlocksRefines
<1>7. CASE UserFutex!WaitCheck(t)
  <2>1. arg[t].addr \in UserAddr
    BY <1>7 DEF QueueInv, QueueControl, UserFutex!WaitCheck
  <2> QED BY <1>7, <2>1, WaitCheckFutex, FutexGivesUpRefines, FutexReturnsRefines
<1> QED BY <1>1, <1>2, <1>3, <1>4, <1>5, <1>6, <1>7 DEF UserFutex!ThreadStep

\* And a call that makes one and leaves the words and the threads where they
\* are is a wake.
LEMMA WakeCallRefines ==
  QueueInv /\ UserFutex!Next /\ UserFutex!WakeCall =>
    \E a \in UserAddr, n \in 1 .. UserFutex!Cardinality(Thread) :
      UserFutex!Futexes!FutexWake(a, n)
<1> SUFFICES ASSUME QueueInv, UserFutex!Next, UserFutex!WakeCall
             PROVE  \E a \in UserAddr, n \in 1 .. UserFutex!Cardinality(Thread) :
                      UserFutex!Futexes!FutexWake(a, n)
  OBVIOUS
<1>1. calls' # calls /\ user_word' = user_word /\ user_pc' = user_pc
  BY DEF UserFutex!WakeCall
<1>2. PICK t \in Thread :
        \/ \E a \in UserAddr, v \in UserValue : UserFutex!UserStore(t, a, v)
        \/ \E a \in UserAddr, v \in UserValue, timed \in BOOLEAN :
              UserFutex!NaClSysFutexWaitAbs(t, a, v, timed)
        \/ \E a \in UserAddr, n \in 1 .. UserFutex!Cardinality(Thread) :
              UserFutex!NaClSysFutexWake(t, a, n)
        \/ \E s \in {"OK", "ETIMEDOUT"} : UserFutex!CondReturn(t, s)
        \/ UserFutex!ThreadStep(t)
  BY DEF UserFutex!Next
<1>3. ~ UserFutex!ThreadStep(t) /\ \A s : ~ UserFutex!CondReturn(t, s)
  BY <1>1 DEF UserFutex!ThreadStep, UserFutex!WaitLock, UserFutex!WaitRead,
     UserFutex!WaitEnqueue, UserFutex!CondRelock, UserFutex!WaitCheck, UserFutex!CondReturn
<1>4. \A a \in UserAddr, v \in UserValue : ~ UserFutex!UserStore(t, a, v)
  BY <1>1 DEF UserFutex!UserStore, QueueInv, QueueType
<1>5. \A a, v, timed : ~ UserFutex!NaClSysFutexWaitAbs(t, a, v, timed)
  BY <1>1 DEF UserFutex!NaClSysFutexWaitAbs, UserFutex!Goto, QueueInv, QueueType
<1> QED BY <1>2, <1>3, <1>4, <1>5, NaClSysFutexWakeRefines

\* The list, its mutex and the condition variables (sys_futex.c) implement
\* futex calls that compare the word and fall asleep in one step, and a wake
\* that finds nobody on the list finds nobody asleep.
THEOREM QueueImplementsFutex == LibrarySpec => ImplementsFutex
<1>1. LibraryInit => UserFutex!Futexes!AnyInit
  <2> SUFFICES ASSUME UserFutex!Init
               PROVE  UserFutex!Futexes!AnyInit
    BY DEF LibraryInit, PrimitivesInit
  <2>1. InFlight = {} /\ Asleep = [t \in Thread |-> NoAddr]
    BY DEF InFlight, UserFutex!InFlight, Asleep, UserFutex!Queued, UserFutex!Init
  <2>2. UserFutex!Futexes!FutexInit(user_word) /\ user_word \in [UserAddr -> UserValue]
    BY <2>1 DEF InFlight, Asleep, UserFutex!Futexes!FutexInit, UserFutex!Init
  <2> QED BY <2>2 DEF UserFutex!Futexes!AnyInit
<1>2. UNCHANGED userVars => /\ UNCHANGED UserFutex!Futexes!futexVars
                            /\ UNCHANGED UserFutex!vars
  BY DEF UserFutex!Futexes!futexVars, UserFutex!InFlight, UserFutex!Queued, UserFutex!vars
<1>3. QueueInv /\ [LibraryNext]_libraryVars =>
        [UserFutex!Futexes!AnyNext]_(UserFutex!Futexes!futexVars)
  BY <1>2, QueueRefines DEF LibraryNext
<1>4. QueueInv /\ [LibraryNext]_libraryVars =>
        [UserFutex!WakeCall => \E a \in UserAddr, n \in 1 .. UserFutex!Cardinality(Thread) :
                                 UserFutex!Futexes!FutexWake(a, n)]_(UserFutex!vars)
  BY <1>2, WakeCallRefines DEF LibraryNext
<1> QED BY <1>1, <1>3, <1>4, QueueInvariance, PTL
        DEF LibrarySpec, ImplementsFutex, UserFutex!ImplementsFutex, UserFutex!Futexes!FutexSpec

-----------------------------------------------------------------------------
(* The library as a whole.                                                 *)

\* To the mutex and its condition variable the library is no more than a
\* program that uses them.
LEMMA LibraryUsesMutex == LibrarySpec => Spec
<1>1. LibraryInit => Init
  BY DEF LibraryInit, PrimitivesInit
<1>2. [LibraryNext]_libraryVars => [Next]_vars
  BY DEF LibraryNext
<1> QED BY <1>1, <1>2, PTL DEF LibrarySpec, Spec

\* The state of every primitive is one its code can be in, whatever the threads
\* do: no word, counter or list leaves its bounds.
THEOREM LibraryTyping == LibrarySpec => []LibraryTypeOK
<1>1. TypeOK /\ Semaphore!TypeOK /\ Rwlock!TypeOK /\ UserFutex!TypeOK => LibraryTypeOK
  BY DEF LibraryTypeOK
<1> QED BY <1>1, LibraryUsesMutex, MutexTyping, SemaphoreTyping, LockTyping, QueueTyping, PTL
=============================================================================
