------------------------------ MODULE MCPthread ------------------------------
(***************************************************************************)
(* The untrusted thread library and the futex queue of the runtime it is   *)
(* built on, for TLC.  A behaviour of the program uses one of them, which  *)
(* "primitive" names: a mutex with its condition variable (PthreadCondvar, *)
(* whose state and properties are taken as they are), a semaphore, two     *)
(* reader-writer locks, or the futex system calls themselves.  The others  *)
(* stay in an initial state.                                               *)
(***************************************************************************)
EXTENDS PthreadCondvar

CONSTANTS
    SEM_VALUE_MAX,            \* of the semaphore
    Lock, MaxReads,           \* of the reader-writer locks
    UserAddr, UserValue,      \* of the futex system calls
    MaxCalls

VARIABLES
    primitive,
    sem_word, sem_asleep, sem_woken, sem_pc, mode, seen,
    writer_thread_id, writers_waiting, reader_count, thread_rdlock_count,
    reading, rw_pc, call,
    user_word, mu, queue, user_pc, arg, signaled, status, calls, wakes, oks

semaphoreVars == <<sem_word, sem_asleep, sem_woken, sem_pc, mode, seen>>
rwlockVars == <<writer_thread_id, writers_waiting, reader_count, thread_rdlock_count,
                reading, rw_pc, call>>
userVars == <<user_word, mu, queue, user_pc, arg, signaled, status, calls, wakes, oks>>
libraryVars == <<primitive, vars, semaphoreVars, rwlockVars, userVars>>

Semaphore == INSTANCE PthreadSemaphore WITH
    Count <- Mutex, NWaiters <- Cond,
    word <- sem_word, asleep <- sem_asleep, woken <- sem_woken, pc <- sem_pc

Rwlock == INSTANCE PthreadRwlock WITH pc <- rw_pc

UserFutex == INSTANCE UserFutex WITH
    Addr <- UserAddr, Value <- UserValue, word <- user_word, pc <- user_pc

ASSUME LibraryConstants ==
    /\ Semaphore!SemConstants /\ Rwlock!RwlockConstants /\ UserFutex!UserFutexConstants
    /\ 0 \in UserValue

(* Each module in an initial state, and those that stay there in one of     *)
(* them.                                                                    *)
PrimitivesInit ==
    /\ Init /\ (primitive # "mutex" => mutex_type = "FAST")
    /\ Semaphore!Init /\ (primitive # "semaphore" => sem_word[Mutex] = 0)
    /\ Rwlock!Init
    /\ UserFutex!Init /\ (primitive # "futex" => user_word = [a \in UserAddr |-> 0])

LibraryInit == primitive \in {"mutex", "semaphore", "rwlock", "futex"} /\ PrimitivesInit

LibraryNext ==
    /\ UNCHANGED primitive
    /\ \/ /\ primitive = "mutex" /\ Next
          /\ UNCHANGED <<semaphoreVars, rwlockVars, userVars>>
       \/ /\ primitive = "semaphore" /\ Semaphore!Next
          /\ UNCHANGED <<vars, rwlockVars, userVars>>
       \/ /\ primitive = "rwlock" /\ Rwlock!Next
          /\ UNCHANGED <<vars, semaphoreVars, userVars>>
       \/ /\ primitive = "futex" /\ UserFutex!Next
          /\ UNCHANGED <<vars, semaphoreVars, rwlockVars>>

LibrarySpec == LibraryInit /\ [][LibraryNext]_libraryVars

(* The host runs a thread that is inside its primitive, as the modules say. *)
LibraryStep(t) ==
    \/ /\ primitive = "mutex" /\ Step(t)
       /\ UNCHANGED <<primitive, semaphoreVars, rwlockVars, userVars>>
    \/ /\ primitive = "semaphore" /\ Semaphore!SemStep(t)
       /\ UNCHANGED <<primitive, vars, rwlockVars, userVars>>
    \/ /\ primitive = "futex" /\ UserFutex!FairStep(t)
       /\ UNCHANGED <<primitive, vars, semaphoreVars, rwlockVars>>

LibraryFairSpec == LibrarySpec /\ \A t \in Thread : WF_libraryVars(LibraryStep(t))

-----------------------------------------------------------------------------
(* The variables of every primitive have their types: counters stay in      *)
(* their bounds, the wait queue has a thread once, and a thread is where    *)
(* its code can be.                                                         *)
LibraryTypeOK == TypeOK /\ Semaphore!TypeOK /\ Rwlock!TypeOK /\ UserFutex!TypeOK

(* sem_post() leaves no sleeper behind: see PthreadSemaphore.               *)
SemWakePending == Semaphore!SemWakePending

(* A unit of the semaphore and a sleeper meet: see PthreadSemaphore.        *)
SemDelivered == Semaphore!SemDelivered

(* The counts of the reader-writer lock are those of its threads, also of   *)
(* those that time out: see PthreadRwlock.                                  *)
CountsExact == Rwlock!CountsExact

(* A free lock with sleeping writers has one on the way: see PthreadRwlock. *)
WriterWakePending == Rwlock!WriterWakePending

(* A wait that NaClSysFutexWake() has counted returns 0, even when it times *)
(* out meanwhile: see UserFutex.                                            *)
CountedWaitsSucceed == UserFutex!CountedWaitsSucceed

(* The wait queue implements the futex the library is modelled on: see      *)
(* UserFutex.                                                               *)
ImplementsFutex == UserFutex!ImplementsFutex

(* Threads taken off the wait queue return to their callers: see UserFutex. *)
WokenThreadsReturn == UserFutex!WokenThreadsReturn
=============================================================================
