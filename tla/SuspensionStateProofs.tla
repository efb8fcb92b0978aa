------------------------ MODULE SuspensionStateProofs ------------------------
(***************************************************************************)
(* Proofs about the state that the suspension protocol of ThreadSuspension *)
(* protects, for any number of threads, controllers and register values:   *)
(* the count of faulted threads (FaultInv), the saved registers            *)
(* (RegisterInv, SnapInv), and the threads asleep on natp->suspend_state,  *)
(* of which none is forgotten: WakeInv says who can be in the queue on the *)
(* word and what the word said when they joined it.  Each invariant is     *)
(* inductive relative to ProtocolInv; together they establish the whole    *)
(* invariant IInv.                                                         *)
(***************************************************************************)
EXTENDS ThreadSuspensionProofs, FiniteSetTheorems

USE DEF UNTRUSTED, TRUSTED, SUSPENDING, SUSPENDED, kBaseState, SuspendedState,
        tvars, fvars, hvars, cvars, lvars, svars, xvars, world

-----------------------------------------------------------------------------
(* The count of faulted threads.                                           *)

\* What does not touch the fault flags, the counter and the handlers keeps
\* FaultInv.
LEMMA FaultFrame ==
  ASSUME FaultInv, UNCHANGED <<faulted_thread_count, fault_signal, fpc, hpc>>
  PROVE  FaultInv'
BY DEF FaultInv, FaultCountExact, BlockedOnFault

\* The threads blocked on a fault are some of finitely many threads.
LEMMA BlockedFinite == IsFiniteSet(BlockedOnFault)
BY ConstantsDistinct, FS_Subset DEF BlockedOnFault

\* The thread's own runtime code never touches the fault flags;
LEMMA FaultTrustedStep ==
  ASSUME ProtocolInv, FaultInv, NEW t \in Threads, TrustedStep(t)
  PROVE  FaultInv'
<1>1. CASE NaClAppThreadLauncher(t)
  BY <1>1, FaultFrame DEF NaClAppThreadLauncher
<1>2. CASE ToUntrusted(t)
  BY <1>2, FaultFrame DEF ToUntrusted, NaClAppThreadSetSuspendState
<1>3. CASE ToTrusted(t)
  BY <1>3, FaultFrame DEF ToTrusted, NaClAppThreadSetSuspendState
<1>4. CASE StateWait(t)
  BY <1>4, FaultFrame DEF StateWait
<1>5. CASE StateWaitReturn(t)
  BY <1>5, FaultFrame DEF StateWaitReturn
<1>6. CASE EnterUntrusted(t)
  BY <1>6, FaultFrame DEF EnterUntrusted
<1>7. CASE NaClAppThreadTeardown(t)
  BY <1>7, FaultFrame DEF NaClAppThreadTeardown
<1>8. CASE NaClAppThreadDelete(t)
  BY <1>8, FaultFrame DEF NaClAppThreadDelete
<1>9. QED
  BY <1>1, <1>2, <1>3, <1>4, <1>5, <1>6, <1>7, <1>8 DEF TrustedStep

\* HandleUntrustedFault() counts the thread exactly once, in the step after it
\* has marked it, and leaves its loop only when the mark is gone;
LEMMA FaultHandlerStep ==
  ASSUME ProtocolInv, FaultInv, NEW t \in Threads, HandlerStep(t)
  PROVE  FaultInv'
<1>1. CASE FaultCount(t)
  <2>1. BlockedOnFault' = BlockedOnFault \cup {t} /\ t \notin BlockedOnFault
    BY <1>1 DEF BlockedOnFault, FaultInv, FaultCount, ProtocolInv, TypeOK
  <2>2. Cardinality(BlockedOnFault') = Cardinality(BlockedOnFault) + 1
    BY <2>1, BlockedFinite, FS_AddElement
  <2>3. FaultCountExact'
    BY <1>1, <2>2 DEF FaultInv, FaultCountExact, FaultCount
  <2>4. QED
    BY <1>1, <2>3 DEF FaultInv, FaultCount
<1>2. CASE FireDebugStubEvent(t)
  <2>1. BlockedOnFault' = BlockedOnFault
    BY <1>2, Bits DEF BlockedOnFault, FireDebugStubEvent
  <2>2. faulted_thread_count' = faulted_thread_count
    BY <1>2 DEF FireDebugStubEvent
  <2>3. QED
    BY <1>2, <2>1, <2>2, Bits DEF FaultInv, FaultCountExact, FireDebugStubEvent
<1>3. CASE FaultSigwait(t)
  <2>1. BlockedOnFault' = BlockedOnFault
    BY <1>3, Bits DEF BlockedOnFault, FaultSigwait
  <2>2. faulted_thread_count' = faulted_thread_count
    BY <1>3 DEF FaultSigwait
  <2>3. QED
    BY <1>3, <2>1, <2>2, Bits DEF FaultInv, FaultCountExact, FaultSigwait, ProtocolInv,
       TypeOK
<1>4. CASE FaultTest(t)
  <2>1. BlockedOnFault' = BlockedOnFault
    BY <1>4, Bits DEF BlockedOnFault, FaultTest
  <2>2. faulted_thread_count' = faulted_thread_count
    BY <1>4 DEF FaultTest
  <2>3. QED
    BY <1>4, <2>1, <2>2, Bits DEF FaultInv, FaultCountExact, FaultTest
<1>5. CASE DeliverSignal(t)
  BY <1>5, Bits, ConstantsDistinct DEF DeliverSignal, InOwnCode, FaultInv,
     FaultCountExact, BlockedOnFault
<1>6. CASE HandlerCheck(t)
  BY <1>6, Bits, ConstantsDistinct DEF HandlerCheck, FaultInv, FaultCountExact,
     BlockedOnFault
<1>7. CASE HandlerSave(t)
  BY <1>7, Bits, ConstantsDistinct DEF HandlerSave, FaultInv, FaultCountExact,
     BlockedOnFault
<1>8. CASE HandlerRead(t)
  BY <1>8, Bits, ConstantsDistinct DEF HandlerRead, FaultInv, FaultCountExact,
     BlockedOnFault
<1>9. CASE HandlerWrite(t)
  BY <1>9, Bits, ConstantsDistinct DEF HandlerWrite, FaultInv, FaultCountExact,
     BlockedOnFault
<1>10. CASE HandlerWake(t)
  BY <1>10, Bits, ConstantsDistinct DEF HandlerWake, FaultInv, FaultCountExact,
     BlockedOnFault
<1>11. CASE HandlerLoop(t)
  BY <1>11, Bits, ConstantsDistinct DEF HandlerLoop, FaultInv, FaultCountExact,
     BlockedOnFault
<1>12. CASE HandlerWait(t)
  BY <1>12, Bits, ConstantsDistinct DEF HandlerWait, FaultInv, FaultCountExact,
     BlockedOnFault
<1>13. CASE HandlerWaitReturn(t)
  BY <1>13, Bits, ConstantsDistinct DEF HandlerWaitReturn, FaultInv, FaultCountExact,
     BlockedOnFault
<1>14. CASE HandlerApply(t)
  <2>1. BlockedOnFault' = BlockedOnFault
    BY <1>14, Bits DEF BlockedOnFault, HandlerApply
  <2>2. faulted_thread_count' = faulted_thread_count
    BY <1>14 DEF HandlerApply
  <2>3. QED
    BY <1>14, <2>1, <2>2, Bits DEF FaultInv, FaultCountExact, HandlerApply,
       ProtocolInv, TypeOK
<1>15. QED
BY <1>1, <1>2, <1>3, <1>4, <1>5, <1>6, <1>7, <1>8, <1>9, <1>10, <1>11, <1>12, <1>13,
   <1>14
    DEF HandlerStep

\* a fault marks the thread before it is counted, a new thread starts unmarked;
LEMMA FaultEnvironmentStep ==
  ASSUME ProtocolInv, FaultInv, NEW t \in Threads, EnvironmentStep(t)
  PROVE  FaultInv'
<1>1. CASE NaClAppThreadSpawn(t)
  <2>1. BlockedOnFault' = BlockedOnFault
    BY <1>1, Bits DEF BlockedOnFault, FaultInv, NaClAppThreadSpawn, ProtocolInv,
       HandlerInv
  <2>2. faulted_thread_count' = faulted_thread_count
    BY <1>1 DEF NaClAppThreadSpawn
  <2>3. QED
    BY <1>1, <2>1, <2>2, Bits DEF FaultInv, FaultCountExact, NaClAppThreadSpawn,
       ProtocolInv, HandlerInv
<1>2. CASE UserStep(t)
  BY <1>2, FaultFrame DEF UserStep
<1>3. CASE Syscall(t)
  BY <1>3, FaultFrame DEF Syscall
<1>4. CASE Fault(t)
  <2>1. /\ fault_signal' = [fault_signal EXCEPT ![t] = TRUE]
        /\ fpc' = [fpc EXCEPT ![t] = "count"] /\ fpc[t] = "none" /\ hpc[t] = "none"
    BY <1>4, Bits DEF Fault, UserRunning, InOwnCode, ProtocolInv, ThreadInv,
       InUntrustedPCs
  <2>2. BlockedOnFault' = BlockedOnFault
    BY <2>1 DEF BlockedOnFault, FaultInv, ProtocolInv, TypeOK
  <2>3. faulted_thread_count' = faulted_thread_count
    BY <1>4 DEF Fault
  <2>4. QED
    BY <1>4, <2>1, <2>2, <2>3 DEF FaultInv, FaultCountExact, Fault, ProtocolInv, TypeOK
<1>5. CASE SyscallReturn(t)
  BY <1>5, FaultFrame DEF SyscallReturn
<1>6. CASE SyscallExit(t)
  BY <1>6, FaultFrame DEF SyscallExit
<1>7. QED
  BY <1>1, <1>2, <1>3, <1>4, <1>5, <1>6 DEF EnvironmentStep

\* suspending and
LEMMA FaultSuspendStep ==
  ASSUME ProtocolInv, FaultInv, NEW c \in Controllers, SuspendStep(c)
  PROVE  FaultInv'
<1>1. CASE SuspendAllLoop(c)
  BY <1>1, FaultFrame DEF SuspendAllLoop
<1>2. CASE SuspendRead(c)
  BY <1>2, FaultFrame DEF SuspendRead
<1>3. CASE SuspendCas(c)
  BY <1>3, FaultFrame DEF SuspendCas
<1>4. CASE SuspendCheck(c)
  BY <1>4, FaultFrame DEF SuspendCheck
<1>5. CASE SuspendKill(c)
  BY <1>5, FaultFrame DEF SuspendKill
<1>6. CASE WaitForUntrustedThreadToSuspend(c)
  BY <1>6, FaultFrame DEF WaitForUntrustedThreadToSuspend
<1>7. CASE SuspendWait(c)
  BY <1>7, FaultFrame DEF SuspendWait
<1>8. CASE SuspendWaitReturn(c)
  BY <1>8, FaultFrame DEF SuspendWaitReturn
<1>9. QED
  BY <1>1, <1>2, <1>3, <1>4, <1>5, <1>6, <1>7, <1>8 DEF SuspendStep

\* resuming a thread leave the count alone;
LEMMA FaultResumeStep ==
  ASSUME ProtocolInv, FaultInv, NEW c \in Controllers, ResumeStep(c)
  PROVE  FaultInv'
<1>1. CASE ResumeAllLoop(c)
  BY <1>1, FaultFrame DEF ResumeAllLoop
<1>2. CASE ResumeRead(c)
  BY <1>2, FaultFrame DEF ResumeRead
<1>3. CASE ResumeCas(c)
  BY <1>3, FaultFrame DEF ResumeCas
<1>4. CASE ResumeWake(c)
  BY <1>4, FaultFrame DEF ResumeWake
<1>5. QED
  BY <1>1, <1>2, <1>3, <1>4 DEF ResumeStep

\* NaClAppThreadUnblockIfFaulted() clears the mark and counts down together:
\* the thread it is called for is suspended, hence no longer between marking
\* and counting.
LEMMA FaultCallerStep ==
  ASSUME ProtocolInv, FaultInv, NEW c \in Controllers, CallerStep(c)
  PROVE  FaultInv'
<1>1. CASE NaClUntrustedThreadsSuspendAll(c)
  BY <1>1, FaultFrame DEF NaClUntrustedThreadsSuspendAll
<1>2. CASE NaClUntrustedThreadsResumeAll(c)
  BY <1>2, FaultFrame DEF NaClUntrustedThreadsResumeAll
<1>3. CASE DrainFaultEvents(c)
  BY <1>3, FaultFrame DEF DrainFaultEvents
<1>4. ASSUME NEW t \in Threads, NaClAppThreadUnblockIfFaulted(c, t) PROVE FaultInv'
  <2>1. CASE suspend_state[t] \notin {SuspendedState, TRUSTED + SUSPENDING}
    BY <1>4, <2>1, FaultFrame DEF NaClAppThreadUnblockIfFaulted
  <2>2. CASE suspend_state[t] \in {SuspendedState, TRUSTED + SUSPENDING}
    <3>1. fault_signal[t] /\ fault_signal' = [fault_signal EXCEPT ![t] = FALSE]
      BY <1>4, <2>2 DEF NaClAppThreadUnblockIfFaulted
    <3>2. fpc[t] # "count" /\ fpc[t] # "none"
      <4>1. fpc[t] # "none"
        BY <3>1 DEF FaultInv
      <4>2. pc[t] = "user" /\ suspend_state[t] = SuspendedState
        BY <1>4, <2>2, <4>1 DEF NaClAppThreadUnblockIfFaulted, ProtocolInv, ThreadInv,
           HandlerInv, InUntrustedPCs
      <4>3. QED
        BY <4>1, <4>2 DEF FaultInv, ProtocolInv, HandlerInv
    <3>3. BlockedOnFault' = BlockedOnFault \ {t} /\ t \in BlockedOnFault
      BY <1>4, <3>1, <3>2 DEF BlockedOnFault, NaClAppThreadUnblockIfFaulted,
         ProtocolInv, TypeOK
    <3>4. Cardinality(BlockedOnFault') = Cardinality(BlockedOnFault) - 1
      BY <3>3, BlockedFinite, FS_RemoveElement
    <3>5. FaultCountExact'
      BY <1>4, <2>2, <3>4 DEF FaultInv, FaultCountExact, NaClAppThreadUnblockIfFaulted
    <3>6. QED
      BY <1>4, <3>1, <3>2, <3>5 DEF FaultInv, NaClAppThreadUnblockIfFaulted
  <2>3. QED BY <2>1, <2>2
<1>5. ASSUME NEW t \in Threads, SuspendThread(c, t) PROVE FaultInv'
  BY <1>5, FaultFrame DEF SuspendThread
<1>6. ASSUME NEW t \in Threads, NEW r \in Regs, ResumeThread(c, t, r) PROVE FaultInv'
  BY <1>6, FaultFrame DEF ResumeThread
<1>7. ASSUME NEW t \in Threads, NEW r \in Regs, NaClAppThreadSetSuspendedRegisters(c, t,
     r) PROVE FaultInv'
  BY <1>7, FaultFrame DEF NaClAppThreadSetSuspendedRegisters
<1>8. QED
  BY <1>1, <1>2, <1>3, <1>4, <1>5, <1>6, <1>7 DEF CallerStep

\* No thread has faulted before the first one is spawned.
LEMMA InitFault == Init => FaultInv
<1> SUFFICES ASSUME Init PROVE FaultInv
  OBVIOUS
<1>1. BlockedOnFault = {}
  BY DEF Init, BlockedOnFault
<1>2. FaultCountExact
  BY <1>1, FS_EmptySet DEF Init, FaultCountExact
<1>3. QED
  BY <1>2 DEF Init, FaultInv

\* Every step keeps FaultInv.
LEMMA NextFault ==
  ASSUME ProtocolInv, FaultInv, [Next]_vars
  PROVE  FaultInv'
<1>1. ASSUME NEW t \in Threads, TrustedStep(t) PROVE FaultInv'
  BY <1>1, FaultTrustedStep
<1>2. ASSUME NEW t \in Threads, HandlerStep(t) PROVE FaultInv'
  BY <1>2, FaultHandlerStep
<1>3. ASSUME NEW t \in Threads, EnvironmentStep(t) PROVE FaultInv'
  BY <1>3, FaultEnvironmentStep
<1>4. ASSUME NEW c \in Controllers, SuspendStep(c) PROVE FaultInv'
  BY <1>4, FaultSuspendStep
<1>5. ASSUME NEW c \in Controllers, ResumeStep(c) PROVE FaultInv'
  BY <1>5, FaultResumeStep
<1>6. ASSUME NEW c \in Controllers, CallerStep(c) PROVE FaultInv'
  BY <1>6, FaultCallerStep
<1>7. CASE UNCHANGED vars
  BY <1>7, FaultFrame DEF vars
<1>8. QED
  BY <1>1, <1>2, <1>3, <1>4, <1>5, <1>6, <1>7 DEF Next

\* FaultInv holds in every reachable state.
LEMMA FaultInvariance == Spec => []FaultInv
<1>1. ProtocolInv /\ FaultInv /\ [Next]_vars => FaultInv'
  BY NextFault
<1>2. QED
  BY InitFault, <1>1, ProtocolInvariance, PTL DEF Spec

\* nap->faulted_thread_count is the number of threads that are marked as faulted
\* and counted, whatever faults, signals, suspensions and unblocks interleave.
THEOREM FaultedThreadCount == Spec => []FaultCountExact
<1>1. FaultInv => FaultCountExact BY DEF FaultInv
<1>2. QED BY <1>1, FaultInvariance, PTL

-----------------------------------------------------------------------------
(* The registers.                                                          *)

\* What does not touch any register file, the thread's control point or its
\* handler keeps RegisterInv.
LEMMA RegisterFrame ==
  ASSUME RegisterInv, UNCHANGED <<pc, ctx, user, hpc, snap, suspended_registers>>
  PROVE  RegisterInv'
BY DEF RegisterInv, ContextIntact

\* EnterUntrusted loads natp->user, which holds untrusted registers;
LEMMA RegisterTrustedStep ==
  ASSUME ProtocolInv, RegisterInv, NEW t \in Threads, TrustedStep(t)
  PROVE  RegisterInv'
<1>1. CASE NaClAppThreadLauncher(t)
  BY <1>1, Bits, ConstantsDistinct DEF NaClAppThreadLauncher, RegisterInv, ContextIntact
<1>2. CASE ToUntrusted(t)
  BY <1>2, Bits, ConstantsDistinct DEF ToUntrusted, NaClAppThreadSetSuspendState,
     RegisterInv, ContextIntact, ProtocolInv, TypeOK
<1>3. CASE ToTrusted(t)
  BY <1>3, Bits, ConstantsDistinct DEF ToTrusted, NaClAppThreadSetSuspendState,
     RegisterInv, ContextIntact, ProtocolInv, TypeOK
<1>4. CASE StateWait(t)
  BY <1>4, Bits, ConstantsDistinct DEF StateWait, WaitPoint, RegisterInv,
     ContextIntact, ProtocolInv, TypeOK
<1>5. CASE StateWaitReturn(t)
  BY <1>5, Bits, ConstantsDistinct DEF StateWaitReturn, RegisterInv, ContextIntact,
     ProtocolInv, TypeOK
<1>6. CASE EnterUntrusted(t)
  BY <1>6, Bits, ConstantsDistinct DEF EnterUntrusted, InOwnCode, RegisterInv,
     ContextIntact, SavedPCs, ProtocolInv, TypeOK
<1>7. CASE NaClAppThreadTeardown(t)
  BY <1>7, Bits, ConstantsDistinct DEF NaClAppThreadTeardown, RegisterInv, ContextIntact
<1>8. CASE NaClAppThreadDelete(t)
  BY <1>8, Bits, ConstantsDistinct DEF NaClAppThreadDelete, InOwnCode, RegisterInv,
     ContextIntact, SavedPCs
<1>9. QED
  BY <1>1, <1>2, <1>3, <1>4, <1>5, <1>6, <1>7, <1>8 DEF TrustedStep

\* the handler saves the registers of the code it interrupts, and puts back
\* what is in the struct if it saved it there;
LEMMA RegisterHandlerStep ==
  ASSUME ProtocolInv, RegisterInv, NEW t \in Threads, HandlerStep(t)
  PROVE  RegisterInv'
<1>1. CASE FaultCount(t)
  BY <1>1, RegisterFrame DEF FaultCount
<1>2. CASE FireDebugStubEvent(t)
  BY <1>2, RegisterFrame DEF FireDebugStubEvent
<1>3. CASE FaultSigwait(t)
  BY <1>3, Bits, ConstantsDistinct DEF FaultSigwait, RegisterInv, ContextIntact,
     SavedPCs, ProtocolInv, TypeOK
<1>4. CASE FaultTest(t)
  BY <1>4, RegisterFrame DEF FaultTest
<1>5. CASE DeliverSignal(t)
  BY <1>5, Bits, ConstantsDistinct DEF DeliverSignal, InOwnCode, RegisterInv,
     ContextIntact, SavedPCs
<1>6. CASE HandlerCheck(t)
  BY <1>6, Bits, ConstantsDistinct DEF HandlerCheck, RegisterInv, ContextIntact,
     SavedPCs
<1>7. CASE HandlerSave(t)
  BY <1>7, Bits, ConstantsDistinct DEF HandlerSave, RegisterInv, ContextIntact,
     ProtocolInv, TypeOK
<1>8. CASE HandlerRead(t)
  BY <1>8, Bits, ConstantsDistinct DEF HandlerRead, RegisterInv, ContextIntact, SavedPCs
<1>9. CASE HandlerWrite(t)
  BY <1>9, Bits, ConstantsDistinct DEF HandlerWrite, RegisterInv, ContextIntact,
     SavedPCs
<1>10. CASE HandlerWake(t)
  BY <1>10, Bits, ConstantsDistinct DEF HandlerWake, RegisterInv, ContextIntact,
     SavedPCs
<1>11. CASE HandlerLoop(t)
  BY <1>11, Bits, ConstantsDistinct DEF HandlerLoop, RegisterInv, ContextIntact,
     SavedPCs
<1>12. CASE HandlerWait(t)
  BY <1>12, Bits, ConstantsDistinct DEF HandlerWait, RegisterInv, ContextIntact,
     SavedPCs
<1>13. CASE HandlerWaitReturn(t)
  BY <1>13, Bits, ConstantsDistinct DEF HandlerWaitReturn, RegisterInv, ContextIntact,
     SavedPCs
<1>14. CASE HandlerApply(t)
  BY <1>14, Bits, ConstantsDistinct DEF HandlerApply, RegisterInv, ContextIntact,
     SavedPCs
<1>15. QED
BY <1>1, <1>2, <1>3, <1>4, <1>5, <1>6, <1>7, <1>8, <1>9, <1>10, <1>11, <1>12, <1>13,
   <1>14
    DEF HandlerStep

\* a syscall saves the untrusted registers in natp->user;
LEMMA RegisterEnvironmentStep ==
  ASSUME ProtocolInv, RegisterInv, NEW t \in Threads, EnvironmentStep(t)
  PROVE  RegisterInv'
<1>1. CASE NaClAppThreadSpawn(t)
  BY <1>1, Bits, ConstantsDistinct DEF NaClAppThreadSpawn, RegisterInv, ContextIntact,
     SavedPCs, ProtocolInv, ThreadInv, HandlerInv, InUntrustedPCs
<1>2. CASE UserStep(t)
  BY <1>2, Bits, ConstantsDistinct DEF UserStep, UserRunning, RegisterInv, ContextIntact
<1>3. CASE Syscall(t)
  BY <1>3, Bits, ConstantsDistinct DEF Syscall, InOwnCode, UserRunning, RegisterInv,
     ContextIntact, SavedPCs, ProtocolInv, TypeOK
<1>4. CASE Fault(t)
  BY <1>4, RegisterFrame DEF Fault
<1>5. CASE SyscallReturn(t)
  BY <1>5, Bits, ConstantsDistinct DEF SyscallReturn, RegisterInv, ContextIntact
<1>6. CASE SyscallExit(t)
  BY <1>6, Bits, ConstantsDistinct DEF SyscallExit, RegisterInv, ContextIntact
<1>7. QED
  BY <1>1, <1>2, <1>3, <1>4, <1>5, <1>6 DEF EnvironmentStep

\* SuspendCheck allocates a struct only where there is none, so never over a
\* saved file;
LEMMA RegisterSuspendStep ==
  ASSUME ProtocolInv, RegisterInv, NEW c \in Controllers, SuspendStep(c)
  PROVE  RegisterInv'
<1>1. CASE SuspendAllLoop(c)
  BY <1>1, RegisterFrame DEF SuspendAllLoop
<1>2. CASE SuspendRead(c)
  BY <1>2, RegisterFrame DEF SuspendRead
<1>3. CASE SuspendCas(c)
  BY <1>3, RegisterFrame DEF SuspendCas
<1>4. CASE SuspendCheck(c)
  BY <1>4, Bits, ConstantsDistinct DEF SuspendCheck, RegisterInv, ContextIntact,
     ProtocolInv, TypeOK
<1>5. CASE SuspendKill(c)
  BY <1>5, RegisterFrame DEF SuspendKill
<1>6. CASE WaitForUntrustedThreadToSuspend(c)
  BY <1>6, RegisterFrame DEF WaitForUntrustedThreadToSuspend
<1>7. CASE SuspendWait(c)
  BY <1>7, RegisterFrame DEF SuspendWait
<1>8. CASE SuspendWaitReturn(c)
  BY <1>8, RegisterFrame DEF SuspendWaitReturn
<1>9. QED
  BY <1>1, <1>2, <1>3, <1>4, <1>5, <1>6, <1>7, <1>8 DEF SuspendStep

\* resuming a thread touches no registers;
LEMMA RegisterResumeStep ==
  ASSUME ProtocolInv, RegisterInv, NEW c \in Controllers, ResumeStep(c)
  PROVE  RegisterInv'
<1>1. CASE ResumeAllLoop(c)
  BY <1>1, RegisterFrame DEF ResumeAllLoop
<1>2. CASE ResumeRead(c)
  BY <1>2, RegisterFrame DEF ResumeRead
<1>3. CASE ResumeCas(c)
  BY <1>3, RegisterFrame DEF ResumeCas
<1>4. CASE ResumeWake(c)
  BY <1>4, RegisterFrame DEF ResumeWake
<1>5. QED
  BY <1>1, <1>2, <1>3, <1>4 DEF ResumeStep

\* and a controller writes untrusted registers only over untrusted ones.
LEMMA RegisterCallerStep ==
  ASSUME ProtocolInv, RegisterInv, NEW c \in Controllers, CallerStep(c)
  PROVE  RegisterInv'
<1>1. CASE NaClUntrustedThreadsSuspendAll(c)
  BY <1>1, RegisterFrame DEF NaClUntrustedThreadsSuspendAll
<1>2. CASE NaClUntrustedThreadsResumeAll(c)
  BY <1>2, RegisterFrame DEF NaClUntrustedThreadsResumeAll
<1>3. CASE DrainFaultEvents(c)
  BY <1>3, RegisterFrame DEF DrainFaultEvents
<1>4. ASSUME NEW t \in Threads, NaClAppThreadUnblockIfFaulted(c, t) PROVE RegisterInv'
  BY <1>4, RegisterFrame DEF NaClAppThreadUnblockIfFaulted
<1>5. ASSUME NEW t \in Threads, SuspendThread(c, t) PROVE RegisterInv'
  BY <1>5, RegisterFrame DEF SuspendThread
<1>6. ASSUME NEW t \in Threads, NEW r \in Regs, ResumeThread(c, t, r) PROVE RegisterInv'
  BY <1>6, Bits, ConstantsDistinct DEF ResumeThread, RegistersWritable, RegisterInv,
     ContextIntact
<1>7. ASSUME NEW t \in Threads, NEW r \in Regs, NaClAppThreadSetSuspendedRegisters(c, t,
     r) PROVE RegisterInv'
  BY <1>7, Bits, ConstantsDistinct DEF NaClAppThreadSetSuspendedRegisters,
     RegistersWritable, RegisterInv, ContextIntact
<1>8. QED
  BY <1>1, <1>2, <1>3, <1>4, <1>5, <1>6, <1>7 DEF CallerStep

\* Before the first thread is spawned no handler has saved anything.
LEMMA InitRegister == Init => RegisterInv
<1> SUFFICES ASSUME Init PROVE RegisterInv
  OBVIOUS
<1>1. (CHOOSE r \in Regs : TRUE) \in Regs
  BY ConstantsDistinct
<1>2. QED
  BY <1>1 DEF Init, RegisterInv, ContextIntact

\* Every step keeps RegisterInv.
LEMMA NextRegister ==
  ASSUME ProtocolInv, RegisterInv, [Next]_vars
  PROVE  RegisterInv'
<1>1. ASSUME NEW t \in Threads, TrustedStep(t) PROVE RegisterInv'
  BY <1>1, RegisterTrustedStep
<1>2. ASSUME NEW t \in Threads, HandlerStep(t) PROVE RegisterInv'
  BY <1>2, RegisterHandlerStep
<1>3. ASSUME NEW t \in Threads, EnvironmentStep(t) PROVE RegisterInv'
  BY <1>3, RegisterEnvironmentStep
<1>4. ASSUME NEW c \in Controllers, SuspendStep(c) PROVE RegisterInv'
  BY <1>4, RegisterSuspendStep
<1>5. ASSUME NEW c \in Controllers, ResumeStep(c) PROVE RegisterInv'
  BY <1>5, RegisterResumeStep
<1>6. ASSUME NEW c \in Controllers, CallerStep(c) PROVE RegisterInv'
  BY <1>6, RegisterCallerStep
<1>7. CASE UNCHANGED vars
  BY <1>7, RegisterFrame DEF vars
<1>8. QED
  BY <1>1, <1>2, <1>3, <1>4, <1>5, <1>6, <1>7 DEF Next

\* What does not touch the struct, its pointer and the control of the
\* suspension keeps SnapInv.
LEMMA SnapFrame ==
  ASSUME SnapInv, UNCHANGED <<save, cpc, suspended_registers, cur, snap, hpc,
         suspend_state, held>>
  PROVE  SnapInv'
BY DEF SnapInv

\* A suspended thread, or one that is being suspended, is not freed;
LEMMA SnapTrustedStep ==
  ASSUME ProtocolInv, SnapInv, NEW t \in Threads, TrustedStep(t)
  PROVE  SnapInv'
<1>1. CASE NaClAppThreadLauncher(t)
  BY <1>1, SnapFrame DEF NaClAppThreadLauncher
<1>2. CASE ToUntrusted(t)
  BY <1>2, Bits, ConstantsDistinct DEF ToUntrusted, NaClAppThreadSetSuspendState,
     SnapInv, ProtocolInv, TypeOK
<1>3. CASE ToTrusted(t)
  BY <1>3, Bits, ConstantsDistinct DEF ToTrusted, NaClAppThreadSetSuspendState,
     SnapInv, ProtocolInv, TypeOK
<1>4. CASE StateWait(t)
  BY <1>4, SnapFrame DEF StateWait
<1>5. CASE StateWaitReturn(t)
  BY <1>5, SnapFrame DEF StateWaitReturn
<1>6. CASE EnterUntrusted(t)
  BY <1>6, SnapFrame DEF EnterUntrusted
<1>7. CASE NaClAppThreadTeardown(t)
  BY <1>7, SnapFrame DEF NaClAppThreadTeardown
<1>8. CASE NaClAppThreadDelete(t)
  BY <1>8, Bits, ConstantsDistinct DEF NaClAppThreadDelete, SnapInv, ProtocolInv,
     ControlInv, ControlAt, ThreadInv, HandlerInv, Awaited, InSyscallPCs, InUntrustedPCs
<1>9. QED
  BY <1>1, <1>2, <1>3, <1>4, <1>5, <1>6, <1>7, <1>8 DEF TrustedStep

\* the handler finds the struct that was allocated before the signal;
LEMMA SnapHandlerStep ==
  ASSUME ProtocolInv, RegisterInv, SnapInv, NEW t \in Threads, HandlerStep(t)
  PROVE  SnapInv'
<1>1. CASE FaultCount(t)
  BY <1>1, SnapFrame DEF FaultCount
<1>2. CASE FireDebugStubEvent(t)
  BY <1>2, SnapFrame DEF FireDebugStubEvent
<1>3. CASE FaultSigwait(t)
  BY <1>3, Bits, ConstantsDistinct DEF FaultSigwait, SnapInv, ProtocolInv, TypeOK,
     HandlerInv
<1>4. CASE FaultTest(t)
  BY <1>4, SnapFrame DEF FaultTest
<1>5. CASE DeliverSignal(t)
  BY <1>5, Bits, ConstantsDistinct DEF DeliverSignal, SnapInv, ProtocolInv, TypeOK,
     HandlerInv
<1>6. CASE HandlerCheck(t)
  BY <1>6, Bits, ConstantsDistinct DEF HandlerCheck, SnapInv
<1>7. CASE HandlerSave(t)
  <2>1. \A s \in Threads : suspended_registers[s] # Null => suspended_registers'[s] # Null
    BY <1>7, ConstantsDistinct DEF HandlerSave, RegisterInv, ContextIntact
  <2>2. \A s \in Threads : hpc[s] \notin {"check", "save", "read", "write"}
                            => hpc'[s] \notin {"check", "save", "read", "write"}
    BY <1>7 DEF HandlerSave
  <2>3. QED
    BY <1>7, <2>1, <2>2 DEF HandlerSave, SnapInv
<1>8. CASE HandlerRead(t)
  BY <1>8, Bits, ConstantsDistinct DEF HandlerRead, SnapInv
<1>9. CASE HandlerWrite(t)
  BY <1>9, Bits, ConstantsDistinct DEF HandlerWrite, SnapInv, ProtocolInv, ThreadInv,
     HandlerInv
<1>10. CASE HandlerWake(t)
  BY <1>10, Bits, ConstantsDistinct DEF HandlerWake, SnapInv
<1>11. CASE HandlerLoop(t)
  BY <1>11, Bits, ConstantsDistinct DEF HandlerLoop, SnapInv
<1>12. CASE HandlerWait(t)
  BY <1>12, Bits, ConstantsDistinct DEF HandlerWait, WaitPoint, SnapInv
<1>13. CASE HandlerWaitReturn(t)
  BY <1>13, Bits, ConstantsDistinct DEF HandlerWaitReturn, SnapInv
<1>14. CASE HandlerApply(t)
  BY <1>14, Bits, ConstantsDistinct DEF HandlerApply, SnapInv
<1>15. QED
BY <1>1, <1>2, <1>3, <1>4, <1>5, <1>6, <1>7, <1>8, <1>9, <1>10, <1>11, <1>12, <1>13,
   <1>14
    DEF HandlerStep

\* a new thread has no controller yet;
LEMMA SnapEnvironmentStep ==
  ASSUME ProtocolInv, SnapInv, NEW t \in Threads, EnvironmentStep(t)
  PROVE  SnapInv'
<1>1. CASE NaClAppThreadSpawn(t)
  BY <1>1, Bits, ConstantsDistinct DEF NaClAppThreadSpawn, SnapInv, ProtocolInv,
     ControlInv, ControlAt, ThreadInv, HandlerInv, Claimed, Suspending, InSyscallPCs,
     InUntrustedPCs
<1>2. CASE UserStep(t)
  BY <1>2, SnapFrame DEF UserStep
<1>3. CASE Syscall(t)
  BY <1>3, SnapFrame DEF Syscall
<1>4. CASE Fault(t)
  BY <1>4, SnapFrame DEF Fault
<1>5. CASE SyscallReturn(t)
  BY <1>5, SnapFrame DEF SyscallReturn
<1>6. CASE SyscallExit(t)
  BY <1>6, SnapFrame DEF SyscallExit
<1>7. QED
  BY <1>1, <1>2, <1>3, <1>4, <1>5, <1>6 DEF EnvironmentStep

\* the struct is allocated before pthread_kill(), and the thread counts as held
\* only once its handler has reported in;
LEMMA SnapSuspendStep ==
  ASSUME ProtocolInv, SnapInv, NEW c \in Controllers, SuspendStep(c)
  PROVE  SnapInv'
<1>1. CASE SuspendAllLoop(c)
  BY <1>1, Bits, ConstantsDistinct DEF SuspendAllLoop, Goto, SnapInv, Waiting,
     ProtocolInv, TypeOK
<1>2. CASE SuspendRead(c)
  BY <1>2, Bits, ConstantsDistinct DEF SuspendRead, Goto, SnapInv, Waiting
<1>3. CASE SuspendCas(c)
  <2>1. cur[c] \in Threads /\ threads_mu = c /\ cur[c] \notin held[c]
    BY <1>3 DEF SuspendCas, ProtocolInv, TypeOK, LockInv, ControlInv, ControlAt
  <2>2. cpc'[c] \in {"scheck", "sread"}
        /\ \A d \in Controllers \ {c} : cpc'[d] = "idle" /\ held'[d] = {}
    BY <1>3, <2>1 DEF SuspendCas, Goto, ProtocolInv, TypeOK, LockInv
  <2>3. \A s \in held[c] : suspend_state'[s] = suspend_state[s]
    BY <1>3, <2>1 DEF SuspendCas, ProtocolInv, TypeOK
  <2>4. QED
    BY <1>3, <2>1, <2>2, <2>3 DEF SuspendCas, SnapInv, Waiting
<1>4. CASE SuspendCheck(c)
  BY <1>4, Bits, ConstantsDistinct DEF SuspendCheck, Goto, SnapInv, Waiting,
     ProtocolInv, TypeOK, LockInv, ControlInv, ControlAt, Claimed, Awaited, Suspending,
     InUntrustedPCs
<1>5. CASE SuspendKill(c)
  BY <1>5, Bits, ConstantsDistinct DEF SuspendKill, Goto, SnapInv, Waiting,
     ProtocolInv, TypeOK, LockInv, ControlInv, ControlAt, HandlerInv, Awaited
<1>6. CASE WaitForUntrustedThreadToSuspend(c)
  BY <1>6, Bits, ConstantsDistinct DEF WaitForUntrustedThreadToSuspend, Goto, SnapInv,
     Waiting, ProtocolInv, TypeOK
<1>7. CASE SuspendWait(c)
  BY <1>7, Bits, ConstantsDistinct DEF SuspendWait, Goto, SnapInv, Waiting
<1>8. CASE SuspendWaitReturn(c)
  BY <1>8, Bits, ConstantsDistinct DEF SuspendWaitReturn, Goto, SnapInv, Waiting
<1>9. QED
  BY <1>1, <1>2, <1>3, <1>4, <1>5, <1>6, <1>7, <1>8 DEF SuspendStep

\* a resumed thread leaves the held set;
LEMMA SnapResumeStep ==
  ASSUME ProtocolInv, SnapInv, NEW c \in Controllers, ResumeStep(c)
  PROVE  SnapInv'
<1>1. CASE ResumeAllLoop(c)
  BY <1>1, Bits, ConstantsDistinct DEF ResumeAllLoop, Goto, SnapInv, Waiting,
     ProtocolInv, TypeOK
<1>2. CASE ResumeRead(c)
  BY <1>2, Bits, ConstantsDistinct DEF ResumeRead, Goto, SnapInv, Waiting
<1>3. CASE ResumeCas(c)
  BY <1>3, Bits, ConstantsDistinct DEF ResumeCas, Goto, SnapInv, Waiting, ProtocolInv,
     TypeOK, LockInv, Claimed, Suspending, InSyscallPCs
<1>4. CASE ResumeWake(c)
  BY <1>4, Bits, ConstantsDistinct DEF ResumeWake, Goto, SnapInv, Waiting
<1>5. QED
  BY <1>1, <1>2, <1>3, <1>4 DEF ResumeStep

\* and save_registers is fixed for as long as any thread is held.
LEMMA SnapCallerStep ==
  ASSUME ProtocolInv, SnapInv, NEW c \in Controllers, CallerStep(c)
  PROVE  SnapInv'
<1>1. CASE NaClUntrustedThreadsSuspendAll(c)
  BY <1>1, Bits, ConstantsDistinct DEF NaClUntrustedThreadsSuspendAll, Goto, SnapInv,
     Waiting, ProtocolInv, LockInv
<1>2. CASE NaClUntrustedThreadsResumeAll(c)
  BY <1>2, Bits, ConstantsDistinct DEF NaClUntrustedThreadsResumeAll, Goto, SnapInv,
     Waiting
<1>3. CASE DrainFaultEvents(c)
  BY <1>3, SnapFrame DEF DrainFaultEvents
<1>4. ASSUME NEW t \in Threads, NaClAppThreadUnblockIfFaulted(c, t) PROVE SnapInv'
  BY <1>4, Bits, ConstantsDistinct DEF NaClAppThreadUnblockIfFaulted, Goto, SnapInv,
     Waiting, ProtocolInv, TypeOK
<1>5. ASSUME NEW t \in Threads, SuspendThread(c, t) PROVE SnapInv'
  BY <1>5, Bits, ConstantsDistinct DEF SuspendThread, Goto, SnapInv, Waiting
<1>6. ASSUME NEW t \in Threads, NEW r \in Regs, ResumeThread(c, t, r) PROVE SnapInv'
  BY <1>6, Bits, ConstantsDistinct DEF ResumeThread, Goto, SnapInv, Waiting
<1>7. ASSUME NEW t \in Threads, NEW r \in Regs, NaClAppThreadSetSuspendedRegisters(c, t,
     r) PROVE SnapInv'
  BY <1>7, Bits, ConstantsDistinct DEF NaClAppThreadSetSuspendedRegisters, SnapInv
<1>8. QED
  BY <1>1, <1>2, <1>3, <1>4, <1>5, <1>6, <1>7 DEF CallerStep

\* Before the first suspension nobody has asked for registers.
LEMMA InitSnap == Init => SnapInv
BY DEF Init, SnapInv

\* Every step keeps SnapInv.
LEMMA NextSnap ==
  ASSUME ProtocolInv, RegisterInv, SnapInv, [Next]_vars
  PROVE  SnapInv'
<1>1. ASSUME NEW t \in Threads, TrustedStep(t) PROVE SnapInv'
  BY <1>1, SnapTrustedStep
<1>2. ASSUME NEW t \in Threads, HandlerStep(t) PROVE SnapInv'
  BY <1>2, SnapHandlerStep
<1>3. ASSUME NEW t \in Threads, EnvironmentStep(t) PROVE SnapInv'
  BY <1>3, SnapEnvironmentStep
<1>4. ASSUME NEW c \in Controllers, SuspendStep(c) PROVE SnapInv'
  BY <1>4, SnapSuspendStep
<1>5. ASSUME NEW c \in Controllers, ResumeStep(c) PROVE SnapInv'
  BY <1>5, SnapResumeStep
<1>6. ASSUME NEW c \in Controllers, CallerStep(c) PROVE SnapInv'
  BY <1>6, SnapCallerStep
<1>7. CASE UNCHANGED vars
  BY <1>7, SnapFrame DEF vars
<1>8. QED
  BY <1>1, <1>2, <1>3, <1>4, <1>5, <1>6, <1>7 DEF Next

\* RegisterInv and SnapInv hold in every reachable state.
LEMMA RegisterInvariance == Spec => [](RegisterInv /\ SnapInv)
<1>1. ProtocolInv /\ RegisterInv /\ SnapInv /\ [Next]_vars => RegisterInv' /\ SnapInv'
  BY NextRegister, NextSnap
<1>2. QED
  BY InitRegister, InitSnap, <1>1, ProtocolInvariance, PTL DEF Spec

\* Whatever a debugger writes into the saved registers, and whenever it does, a
\* thread in untrusted code runs on untrusted registers and a thread in the
\* runtime on its own.
THEOREM ContextKept == Spec => []ContextIntact
<1>1. RegisterInv => ContextIntact BY DEF RegisterInv
<1>2. QED BY <1>1, RegisterInvariance, PTL

\* After a suspension with save_registers the struct holds the registers of the
\* suspended code, not what malloc() left there, and the thread will load what
\* is stored there.
THEOREM SavedRegistersValid == Spec => []SavedRegistersUsable
<1>1. ProtocolInv /\ RegisterInv /\ SnapInv => SavedRegistersUsable
  <2> SUFFICES ASSUME ProtocolInv, RegisterInv, SnapInv,
                      NEW c \in Controllers, NEW t \in held[c],
                      save[c], Has(suspend_state[t], UNTRUSTED)
               PROVE  /\ snap[t]
                      /\ suspended_registers[t] \in Regs \cup {Trusted}
                      /\ suspended_registers[t] = Trusted <=> pc[t] # "user"
    BY DEF SavedRegistersUsable
  <2>1. t \in Threads /\ suspend_state[t] = SuspendedState
    BY Bits DEF ProtocolInv, TypeOK, ThreadInv
  <2>2. snap[t]
    BY <2>1 DEF SnapInv
  <2>3. hpc[t] \in SavedPCs
    BY <2>1 DEF ProtocolInv, HandlerInv, SavedPCs
  <2>4. IF pc[t] = "user" THEN suspended_registers[t] \in Regs
                          ELSE suspended_registers[t] = Trusted
    BY <2>1, <2>2, <2>3 DEF RegisterInv
  <2>5. QED
    BY <2>2, <2>4, ConstantsDistinct
<1>2. QED BY <1>1, ProtocolInvariance, RegisterInvariance, PTL

-----------------------------------------------------------------------------
(* No wakeup is lost.                                                      *)

\* What does not touch the word, its queue and the control points around them
\* keeps WakeInv.
LEMMA WakeFrame ==
  ASSUME WakeInv, UNCHANGED <<futex, hpc, fpc, pc, state, hstate, suspend_state, cpc,
         cur>>
  PROVE  WakeInv'
BY DEF WakeInv, HandlerNotStranded, EntryNotStranded, ControllerNotStranded,
   BeingWoken, WaitersKnown, WordKnown, QueuedAt, InOwnCode

\* The thread blocks only on a word that says SUSPENDING, and cannot change the
\* word while it is blocked;
LEMMA WakeTrustedStep ==
  ASSUME ProtocolInv, WakeInv, NEW t \in Threads, TrustedStep(t)
  PROVE  WakeInv'
<1>1. CASE NaClAppThreadLauncher(t)
  BY <1>1, Bits, ConstantsDistinct DEF NaClAppThreadLauncher, InOwnCode, WakeInv,
     HandlerNotStranded, EntryNotStranded, ControllerNotStranded, BeingWoken,
     WaitersKnown, WordKnown, QueuedAt
<1>2. CASE ToUntrusted(t)
  <2>0. /\ hpc[t] = "none" /\ pc[t] = "toU" /\ UNCHANGED <<hpc, fpc, futex, cvars>>
        /\ \A s \in Threads \ {t} : suspend_state'[s] = suspend_state[s] /\ pc'[s] = pc[s]
    BY <1>2 DEF ToUntrusted, NaClAppThreadSetSuspendState, InOwnCode, ProtocolInv,
       TypeOK
  <2>1. ASSUME NEW s \in Threads PROVE HandlerNotStranded(s)'
    BY <2>0 DEF WakeInv, HandlerNotStranded, BeingWoken
  <2>2. ASSUME NEW s \in Threads PROVE EntryNotStranded(s)'
    BY <1>2, <2>0, Bits, ConstantsDistinct DEF ToUntrusted,
       NaClAppThreadSetSuspendState, InOwnCode, WakeInv, EntryNotStranded, BeingWoken,
       WordKnown, ProtocolInv, TypeOK, Awaited, Suspending
  <2>3. ASSUME NEW s \in Threads PROVE WaitersKnown(s)'
    BY <2>0 DEF WakeInv, WaitersKnown, QueuedAt, InOwnCode
  <2>4. ASSUME NEW s \in Threads PROVE WordKnown(s)'
    BY <1>2, <2>0, Bits, ConstantsDistinct DEF ToUntrusted,
       NaClAppThreadSetSuspendState, InOwnCode, WakeInv, WordKnown, ProtocolInv, TypeOK
  <2>5. ASSUME NEW d \in Controllers PROVE ControllerNotStranded(d)'
    BY <1>2, <2>0, Bits, ConstantsDistinct DEF ToUntrusted,
       NaClAppThreadSetSuspendState, WakeInv, ControllerNotStranded, ProtocolInv, TypeOK
  <2>6. QED BY <2>1, <2>2, <2>3, <2>4, <2>5 DEF WakeInv
<1>3. CASE ToTrusted(t)
  <2>0. /\ hpc[t] = "none" /\ pc[t] = "toT" /\ UNCHANGED <<hpc, fpc, futex, cvars>>
        /\ \A s \in Threads \ {t} : suspend_state'[s] = suspend_state[s] /\ pc'[s] = pc[s]
    BY <1>3 DEF ToTrusted, NaClAppThreadSetSuspendState, InOwnCode, ProtocolInv, TypeOK
  <2>1. ASSUME NEW s \in Threads PROVE HandlerNotStranded(s)'
    BY <2>0 DEF WakeInv, HandlerNotStranded, BeingWoken
  <2>2. ASSUME NEW s \in Threads PROVE EntryNotStranded(s)'
    BY <1>3, <2>0, Bits, ConstantsDistinct DEF ToTrusted, NaClAppThreadSetSuspendState,
       InOwnCode, WakeInv, EntryNotStranded, BeingWoken, WordKnown, ProtocolInv,
       TypeOK, Awaited, Suspending
  <2>3. ASSUME NEW s \in Threads PROVE WaitersKnown(s)'
    BY <2>0 DEF WakeInv, WaitersKnown, QueuedAt, InOwnCode
  <2>4. ASSUME NEW s \in Threads PROVE WordKnown(s)'
    BY <1>3, <2>0, Bits, ConstantsDistinct DEF ToTrusted, NaClAppThreadSetSuspendState,
       InOwnCode, WakeInv, WordKnown, ProtocolInv, TypeOK
  <2>5. ASSUME NEW d \in Controllers PROVE ControllerNotStranded(d)'
    BY <1>3, <2>0, Bits, ConstantsDistinct DEF ToTrusted, NaClAppThreadSetSuspendState,
       WakeInv, ControllerNotStranded, ProtocolInv, TypeOK
  <2>6. QED BY <2>1, <2>2, <2>3, <2>4, <2>5 DEF WakeInv
<1>4. CASE StateWait(t)
  <2>0. pc[t] = "toTwait" /\ suspend_state[t] = state[t] => suspend_state[t] = kBaseState
    BY <1>4, Bits DEF StateWait, InOwnCode, WakeInv, WordKnown, ProtocolInv, ThreadInv,
       HandlerInv, InUntrustedPCs
  <2>1. ASSUME NEW s \in Threads PROVE HandlerNotStranded(s)'
    BY <1>4, <2>0, Bits, ConstantsDistinct DEF StateWait, FutexWait, InOwnCode,
       WakeInv, HandlerNotStranded, BeingWoken
  <2>2. ASSUME NEW s \in Threads PROVE EntryNotStranded(s)'
    BY <1>4, <2>0, Bits, ConstantsDistinct DEF StateWait, FutexWait, WaitPoint,
       InOwnCode, WakeInv, EntryNotStranded, BeingWoken, WordKnown, ProtocolInv, TypeOK
  <2>3. ASSUME NEW s \in Threads PROVE WaitersKnown(s)'
    BY <1>4, <2>0, Bits, ConstantsDistinct DEF StateWait, FutexWait, WaitPoint,
       InOwnCode, WakeInv, WaitersKnown, QueuedAt, ProtocolInv, TypeOK
  <2>4. ASSUME NEW s \in Threads PROVE WordKnown(s)'
    BY <1>4, <2>0, Bits, ConstantsDistinct DEF StateWait, FutexWait, WaitPoint,
       InOwnCode, WakeInv, WordKnown, ProtocolInv, TypeOK
  <2>5. ASSUME NEW d \in Controllers PROVE ControllerNotStranded(d)'
    BY <1>4, <2>0, Bits, ConstantsDistinct DEF StateWait, FutexWait, WakeInv,
       ControllerNotStranded
  <2>6. QED BY <2>1, <2>2, <2>3, <2>4, <2>5 DEF WakeInv
<1>5. CASE StateWaitReturn(t)
  BY <1>5, Bits, ConstantsDistinct DEF StateWaitReturn, InOwnCode, WakeInv,
     HandlerNotStranded, EntryNotStranded, ControllerNotStranded, BeingWoken,
     WaitersKnown, WordKnown, QueuedAt, ProtocolInv, TypeOK
<1>6. CASE EnterUntrusted(t)
  BY <1>6, Bits, ConstantsDistinct DEF EnterUntrusted, InOwnCode, WakeInv,
     HandlerNotStranded, EntryNotStranded, ControllerNotStranded, BeingWoken,
     WaitersKnown, WordKnown, QueuedAt
<1>7. CASE NaClAppThreadTeardown(t)
  BY <1>7, Bits, ConstantsDistinct DEF NaClAppThreadTeardown, InOwnCode, WakeInv,
     HandlerNotStranded, EntryNotStranded, ControllerNotStranded, BeingWoken,
     WaitersKnown, WordKnown, QueuedAt
<1>8. CASE NaClAppThreadDelete(t)
  BY <1>8, Bits, ConstantsDistinct DEF NaClAppThreadDelete, InOwnCode, WakeInv,
     HandlerNotStranded, EntryNotStranded, ControllerNotStranded, BeingWoken,
     WaitersKnown, WordKnown, QueuedAt
<1>9. QED
  BY <1>1, <1>2, <1>3, <1>4, <1>5, <1>6, <1>7, <1>8 DEF TrustedStep

\* the signal takes the thread off the queue before its handler queues it
\* again, and HandlerWake finds nobody but the controller there;
LEMMA WakeHandlerStep ==
  ASSUME ProtocolInv, FaultInv, WakeInv, NEW t \in Threads, HandlerStep(t)
  PROVE  WakeInv'
<1>1. CASE FaultCount(t)
  BY <1>1, Bits, ConstantsDistinct DEF FaultCount, WakeInv, HandlerNotStranded,
     EntryNotStranded, ControllerNotStranded, BeingWoken, WaitersKnown, WordKnown,
     QueuedAt, InOwnCode
<1>2. CASE FireDebugStubEvent(t)
  BY <1>2, Bits, ConstantsDistinct DEF FireDebugStubEvent, WakeInv, HandlerNotStranded,
     EntryNotStranded, ControllerNotStranded, BeingWoken, WaitersKnown, WordKnown,
     QueuedAt, InOwnCode
<1>3. CASE FaultSigwait(t)
  <2>0. hpc[t] = "none" /\ pc[t] = "user"
    BY <1>3 DEF FaultSigwait, FaultInv, ProtocolInv, HandlerInv
  <2>1. ASSUME NEW s \in Threads PROVE HandlerNotStranded(s)'
    BY <1>3, <2>0, Bits, ConstantsDistinct DEF FaultSigwait, WakeInv,
       HandlerNotStranded, BeingWoken
  <2>2. ASSUME NEW s \in Threads PROVE EntryNotStranded(s)'
    BY <1>3, <2>0, Bits, ConstantsDistinct DEF FaultSigwait, WakeInv, EntryNotStranded,
       BeingWoken, InOwnCode
  <2>3. ASSUME NEW s \in Threads PROVE WaitersKnown(s)'
    BY <1>3, <2>0, Bits, ConstantsDistinct DEF FaultSigwait, WakeInv, WaitersKnown,
       QueuedAt, InOwnCode
  <2>4. ASSUME NEW s \in Threads PROVE WordKnown(s)'
    BY <1>3, <2>0, Bits, ConstantsDistinct DEF FaultSigwait, WakeInv, WordKnown,
       InOwnCode
  <2>5. ASSUME NEW d \in Controllers PROVE ControllerNotStranded(d)'
    BY <1>3, <2>0, Bits, ConstantsDistinct DEF FaultSigwait, WakeInv,
       ControllerNotStranded
  <2>6. QED BY <2>1, <2>2, <2>3, <2>4, <2>5 DEF WakeInv
<1>4. CASE FaultTest(t)
  BY <1>4, Bits, ConstantsDistinct DEF FaultTest, WakeInv, HandlerNotStranded,
     EntryNotStranded, ControllerNotStranded, BeingWoken, WaitersKnown, WordKnown,
     QueuedAt, InOwnCode
<1>5. CASE DeliverSignal(t)
  BY <1>5, Bits, ConstantsDistinct DEF DeliverSignal, InOwnCode, WakeInv,
     HandlerNotStranded, EntryNotStranded, ControllerNotStranded, BeingWoken,
     WaitersKnown, WordKnown, QueuedAt, ProtocolInv, TypeOK
<1>6. CASE HandlerCheck(t)
  BY <1>6, Bits, ConstantsDistinct DEF HandlerCheck, WakeInv, HandlerNotStranded,
     EntryNotStranded, ControllerNotStranded, BeingWoken, WaitersKnown, WordKnown,
     QueuedAt, InOwnCode
<1>7. CASE HandlerSave(t)
  BY <1>7, Bits, ConstantsDistinct DEF HandlerSave, WakeInv, HandlerNotStranded,
     EntryNotStranded, ControllerNotStranded, BeingWoken, WaitersKnown, WordKnown,
     QueuedAt, InOwnCode
<1>8. CASE HandlerRead(t)
  BY <1>8, Bits, ConstantsDistinct DEF HandlerRead, WakeInv, HandlerNotStranded,
     EntryNotStranded, ControllerNotStranded, BeingWoken, WaitersKnown, WordKnown,
     QueuedAt, InOwnCode
<1>9. CASE HandlerWrite(t)
  BY <1>9, Bits, ConstantsDistinct DEF HandlerWrite, WakeInv, HandlerNotStranded,
     EntryNotStranded, ControllerNotStranded, BeingWoken, WaitersKnown, WordKnown,
     QueuedAt, InOwnCode, ProtocolInv, TypeOK
<1>10. CASE HandlerWake(t)
  <2>a. \A w \in futex[t] : w \in Controllers /\ cpc[w] = "wblk" /\ cur[w] = t
    BY <1>10 DEF HandlerWake, WakeInv, WaitersKnown, QueuedAt, InOwnCode
  <2>b. \A v, w \in futex[t] : v = w
    BY <2>a DEF ProtocolInv, LockInv
  <2>0. futex'[t] = {} /\ \A s \in Threads \ {t} : futex'[s] = futex[s]
    BY <1>10, <2>b DEF HandlerWake, FutexWake, ProtocolInv, TypeOK
  <2>1. ASSUME NEW s \in Threads PROVE HandlerNotStranded(s)'
    BY <1>10, <2>a, <2>0, Bits, ConstantsDistinct DEF HandlerWake, WakeInv,
       HandlerNotStranded, BeingWoken
  <2>2. ASSUME NEW s \in Threads PROVE EntryNotStranded(s)'
    BY <1>10, <2>a, <2>0, Bits, ConstantsDistinct DEF HandlerWake, WakeInv,
       EntryNotStranded, BeingWoken, InOwnCode
  <2>3. ASSUME NEW s \in Threads PROVE WaitersKnown(s)'
    BY <1>10, <2>a, <2>0, Bits, ConstantsDistinct DEF HandlerWake, WakeInv,
       WaitersKnown, QueuedAt, InOwnCode
  <2>4. ASSUME NEW s \in Threads PROVE WordKnown(s)'
    BY <1>10, <2>a, <2>0, Bits, ConstantsDistinct DEF HandlerWake, WakeInv, WordKnown,
       InOwnCode
  <2>5. ASSUME NEW d \in Controllers PROVE ControllerNotStranded(d)'
    BY <1>10, <2>a, <2>0, Bits, ConstantsDistinct DEF HandlerWake, WakeInv,
       ControllerNotStranded, ProtocolInv, TypeOK
  <2>6. QED BY <2>1, <2>2, <2>3, <2>4, <2>5 DEF WakeInv
<1>11. CASE HandlerLoop(t)
  BY <1>11, Bits, ConstantsDistinct DEF HandlerLoop, WakeInv, HandlerNotStranded,
     EntryNotStranded, ControllerNotStranded, BeingWoken, WaitersKnown, WordKnown,
     QueuedAt, InOwnCode, ProtocolInv, TypeOK
<1>12. CASE HandlerWait(t)
  BY <1>12, Bits, ConstantsDistinct DEF HandlerWait, FutexWait, WaitPoint, WakeInv,
     HandlerNotStranded, EntryNotStranded, ControllerNotStranded, BeingWoken,
     WaitersKnown, WordKnown, QueuedAt, InOwnCode, ProtocolInv, TypeOK
<1>13. CASE HandlerWaitReturn(t)
  BY <1>13, Bits, ConstantsDistinct DEF HandlerWaitReturn, WakeInv, HandlerNotStranded,
     EntryNotStranded, ControllerNotStranded, BeingWoken, WaitersKnown, WordKnown,
     QueuedAt, InOwnCode
<1>14. CASE HandlerApply(t)
  BY <1>14, Bits, ConstantsDistinct DEF HandlerApply, WakeInv, HandlerNotStranded,
     EntryNotStranded, ControllerNotStranded, BeingWoken, WaitersKnown, WordKnown,
     QueuedAt, InOwnCode
<1>15. QED
BY <1>1, <1>2, <1>3, <1>4, <1>5, <1>6, <1>7, <1>8, <1>9, <1>10, <1>11, <1>12, <1>13,
   <1>14
    DEF HandlerStep

\* untrusted code, which never blocks on the word, touches neither word nor
\* queue;
LEMMA WakeEnvironmentStep ==
  ASSUME ProtocolInv, WakeInv, NEW t \in Threads, EnvironmentStep(t)
  PROVE  WakeInv'
<1>1. CASE NaClAppThreadSpawn(t)
  <2>1. ASSUME NEW s \in Threads PROVE HandlerNotStranded(s)'
    BY <1>1, Bits, ConstantsDistinct DEF NaClAppThreadSpawn, WakeInv,
       HandlerNotStranded, BeingWoken, ProtocolInv, ThreadInv, InSyscallPCs
  <2>2. ASSUME NEW s \in Threads PROVE EntryNotStranded(s)'
    BY <1>1, Bits, ConstantsDistinct DEF NaClAppThreadSpawn, WakeInv, EntryNotStranded,
       BeingWoken, InOwnCode
  <2>3. ASSUME NEW s \in Threads PROVE WaitersKnown(s)'
    BY <1>1, Bits, ConstantsDistinct DEF NaClAppThreadSpawn, WakeInv, WaitersKnown,
       QueuedAt, InOwnCode
  <2>4. ASSUME NEW s \in Threads PROVE WordKnown(s)'
    BY <1>1, Bits, ConstantsDistinct DEF NaClAppThreadSpawn, WakeInv, WordKnown,
       InOwnCode
  <2>5. ASSUME NEW d \in Controllers PROVE ControllerNotStranded(d)'
    BY <1>1, Bits, ConstantsDistinct DEF NaClAppThreadSpawn, WakeInv,
       ControllerNotStranded, ProtocolInv, ThreadInv, HandlerInv, Suspending,
       InSyscallPCs, InUntrustedPCs
  <2>6. QED BY <2>1, <2>2, <2>3, <2>4, <2>5 DEF WakeInv
<1>2. CASE UserStep(t)
  BY <1>2, WakeFrame DEF UserStep
<1>3. CASE Syscall(t)
  BY <1>3, Bits, ConstantsDistinct DEF Syscall, InOwnCode, UserRunning, WakeInv,
     HandlerNotStranded, EntryNotStranded, ControllerNotStranded, BeingWoken,
     WaitersKnown, WordKnown, QueuedAt
<1>4. CASE Fault(t)
  BY <1>4, Bits, ConstantsDistinct DEF Fault, InOwnCode, UserRunning, WakeInv,
     HandlerNotStranded, EntryNotStranded, ControllerNotStranded, BeingWoken,
     WaitersKnown, WordKnown, QueuedAt, ProtocolInv, TypeOK
<1>5. CASE SyscallReturn(t)
  BY <1>5, Bits, ConstantsDistinct DEF SyscallReturn, InOwnCode, WakeInv,
     HandlerNotStranded, EntryNotStranded, ControllerNotStranded, BeingWoken,
     WaitersKnown, WordKnown, QueuedAt
<1>6. CASE SyscallExit(t)
  BY <1>6, Bits, ConstantsDistinct DEF SyscallExit, InOwnCode, WakeInv,
     HandlerNotStranded, EntryNotStranded, ControllerNotStranded, BeingWoken,
     WaitersKnown, WordKnown, QueuedAt
<1>7. QED
  BY <1>1, <1>2, <1>3, <1>4, <1>5, <1>6 DEF EnvironmentStep

\* the controller queues itself only while the thread has not reported, and
\* what it writes into the word wakes nobody's condition;
LEMMA WakeSuspendStep ==
  ASSUME ProtocolInv, WakeInv, NEW c \in Controllers, SuspendStep(c)
  PROVE  WakeInv'
<1>1. CASE SuspendAllLoop(c)
  <2>0. threads_mu = c /\ \A d \in Controllers \ {c} : cpc[d] = "idle"
    BY <1>1 DEF SuspendAllLoop, ProtocolInv, LockInv
  <2>1. ASSUME NEW s \in Threads PROVE HandlerNotStranded(s)'
    BY <1>1, <2>0, Bits, ConstantsDistinct DEF SuspendAllLoop, WakeInv,
       HandlerNotStranded, BeingWoken
  <2>2. ASSUME NEW s \in Threads PROVE EntryNotStranded(s)'
    BY <1>1, <2>0, Bits, ConstantsDistinct DEF SuspendAllLoop, WakeInv,
       EntryNotStranded, BeingWoken, InOwnCode
  <2>3. ASSUME NEW s \in Threads PROVE WaitersKnown(s)'
    BY <1>1, <2>0, Bits, ConstantsDistinct DEF SuspendAllLoop, WakeInv, WaitersKnown,
       QueuedAt, InOwnCode
  <2>4. ASSUME NEW s \in Threads PROVE WordKnown(s)'
    BY <1>1, <2>0, Bits, ConstantsDistinct DEF SuspendAllLoop, WakeInv, WordKnown,
       InOwnCode
  <2>5. ASSUME NEW d \in Controllers PROVE ControllerNotStranded(d)'
    BY <1>1, <2>0, Bits, ConstantsDistinct DEF SuspendAllLoop, Goto,
       ControllerNotStranded, WaitersKnown, QueuedAt, InOwnCode, ProtocolInv, TypeOK,
       LockInv, ControlInv, ControlAt, ThreadInv, HandlerInv, Claimed, Awaited,
       Suspending, Waiting, InSyscallPCs, InUntrustedPCs
  <2>6. QED BY <2>1, <2>2, <2>3, <2>4, <2>5 DEF WakeInv
<1>2. CASE SuspendRead(c)
  <2>0. threads_mu = c /\ \A d \in Controllers \ {c} : cpc[d] = "idle"
    BY <1>2 DEF SuspendRead, ProtocolInv, LockInv
  <2>1. ASSUME NEW s \in Threads PROVE HandlerNotStranded(s)'
    BY <1>2, <2>0, Bits, ConstantsDistinct DEF SuspendRead, WakeInv,
       HandlerNotStranded, BeingWoken
  <2>2. ASSUME NEW s \in Threads PROVE EntryNotStranded(s)'
    BY <1>2, <2>0, Bits, ConstantsDistinct DEF SuspendRead, WakeInv, EntryNotStranded,
       BeingWoken, InOwnCode
  <2>3. ASSUME NEW s \in Threads PROVE WaitersKnown(s)'
    BY <1>2, <2>0, Bits, ConstantsDistinct DEF SuspendRead, WakeInv, WaitersKnown,
       QueuedAt, InOwnCode
  <2>4. ASSUME NEW s \in Threads PROVE WordKnown(s)'
    BY <1>2, <2>0, Bits, ConstantsDistinct DEF SuspendRead, WakeInv, WordKnown,
       InOwnCode
  <2>5. ASSUME NEW d \in Controllers PROVE ControllerNotStranded(d)'
    BY <1>2, <2>0, Bits, ConstantsDistinct DEF SuspendRead, Goto, ControllerNotStranded
  <2>6. QED BY <2>1, <2>2, <2>3, <2>4, <2>5 DEF WakeInv
<1>3. CASE SuspendCas(c)
  <2>0. threads_mu = c /\ \A d \in Controllers \ {c} : cpc[d] = "idle"
    BY <1>3 DEF SuspendCas, ProtocolInv, LockInv
  <2>1. ASSUME NEW s \in Threads PROVE HandlerNotStranded(s)'
    <3>1. UNCHANGED <<hpc, futex, cur>> /\ \A d \in Controllers : cpc[d] # "rwake"
      BY <1>3, <2>0 DEF SuspendCas
    <3>2. hpc[s] = "blk" /\ s \in futex[s] => Has(suspend_state[s], SUSPENDED)
      BY <3>1 DEF WakeInv, HandlerNotStranded, BeingWoken
    <3>3. \/ suspend_state'[s] = suspend_state[s]
          \/ suspend_state[s] \in {UNTRUSTED, TRUSTED}
      BY <1>3 DEF SuspendCas, ProtocolInv, TypeOK, ControlInv, ControlAt
    <3>4. QED
      BY <3>1, <3>2, <3>3, Bits DEF HandlerNotStranded
  <2>2. ASSUME NEW s \in Threads PROVE EntryNotStranded(s)'
    BY <1>3, <2>0, Bits, ConstantsDistinct DEF SuspendCas, Goto, WakeInv,
       EntryNotStranded, BeingWoken, WordKnown, InOwnCode, ProtocolInv, TypeOK,
       LockInv, ControlInv, ControlAt, ThreadInv, HandlerInv, Claimed, Awaited,
       Waiting, InSyscallPCs, InUntrustedPCs
  <2>3. ASSUME NEW s \in Threads PROVE WaitersKnown(s)'
    BY <1>3, <2>0, Bits, ConstantsDistinct DEF SuspendCas, WakeInv, WaitersKnown,
       QueuedAt, InOwnCode
  <2>4. ASSUME NEW s \in Threads PROVE WordKnown(s)'
    BY <1>3, <2>0, Bits, ConstantsDistinct DEF SuspendCas, WakeInv, WordKnown,
       InOwnCode, ProtocolInv, LockInv, ControlInv, ControlAt, ThreadInv, HandlerInv,
       Claimed, Awaited, Suspending, InSyscallPCs, InUntrustedPCs
  <2>5. ASSUME NEW d \in Controllers PROVE ControllerNotStranded(d)'
    BY <1>3, <2>0, Bits, ConstantsDistinct DEF SuspendCas, Goto, ControllerNotStranded,
       WaitersKnown, InOwnCode, ProtocolInv, TypeOK, LockInv, ControlAt, ThreadInv,
       HandlerInv, Awaited, Waiting, InSyscallPCs, InUntrustedPCs
  <2>6. QED BY <2>1, <2>2, <2>3, <2>4, <2>5 DEF WakeInv
<1>4. CASE SuspendCheck(c)
  <2>0. threads_mu = c /\ \A d \in Controllers \ {c} : cpc[d] = "idle"
    BY <1>4 DEF SuspendCheck, ProtocolInv, LockInv
  <2>1. ASSUME NEW s \in Threads PROVE HandlerNotStranded(s)'
    BY <1>4, <2>0, Bits, ConstantsDistinct DEF SuspendCheck, WakeInv,
       HandlerNotStranded, BeingWoken
  <2>2. ASSUME NEW s \in Threads PROVE EntryNotStranded(s)'
    BY <1>4, <2>0, Bits, ConstantsDistinct DEF SuspendCheck, WakeInv, EntryNotStranded,
       BeingWoken, InOwnCode
  <2>3. ASSUME NEW s \in Threads PROVE WaitersKnown(s)'
    BY <1>4, <2>0, Bits, ConstantsDistinct DEF SuspendCheck, WakeInv, WaitersKnown,
       QueuedAt, InOwnCode
  <2>4. ASSUME NEW s \in Threads PROVE WordKnown(s)'
    BY <1>4, <2>0, Bits, ConstantsDistinct DEF SuspendCheck, WakeInv, WordKnown,
       InOwnCode
  <2>5. ASSUME NEW d \in Controllers PROVE ControllerNotStranded(d)'
    BY <1>4, <2>0, Bits, ConstantsDistinct DEF SuspendCheck, Goto,
       ControllerNotStranded, ProtocolInv, TypeOK
  <2>6. QED BY <2>1, <2>2, <2>3, <2>4, <2>5 DEF WakeInv
<1>5. CASE SuspendKill(c)
  BY <1>5, Bits, ConstantsDistinct DEF SuspendKill, Goto, WakeInv, HandlerNotStranded,
     EntryNotStranded, ControllerNotStranded, BeingWoken, WaitersKnown, WordKnown,
     QueuedAt, InOwnCode
<1>6. CASE WaitForUntrustedThreadToSuspend(c)
  <2>0. threads_mu = c /\ \A d \in Controllers \ {c} : cpc[d] = "idle"
    BY <1>6 DEF WaitForUntrustedThreadToSuspend, ProtocolInv, LockInv
  <2>1. ASSUME NEW s \in Threads PROVE HandlerNotStranded(s)'
    BY <1>6, <2>0, Bits, ConstantsDistinct DEF WaitForUntrustedThreadToSuspend,
       WakeInv, HandlerNotStranded, BeingWoken
  <2>2. ASSUME NEW s \in Threads PROVE EntryNotStranded(s)'
    BY <1>6, <2>0, Bits, ConstantsDistinct DEF WaitForUntrustedThreadToSuspend,
       WakeInv, EntryNotStranded, BeingWoken, InOwnCode
  <2>3. ASSUME NEW s \in Threads PROVE WaitersKnown(s)'
    BY <1>6, <2>0, Bits, ConstantsDistinct DEF WaitForUntrustedThreadToSuspend,
       WakeInv, WaitersKnown, QueuedAt, InOwnCode
  <2>4. ASSUME NEW s \in Threads PROVE WordKnown(s)'
    BY <1>6, <2>0, Bits, ConstantsDistinct DEF WaitForUntrustedThreadToSuspend,
       WakeInv, WordKnown, InOwnCode
  <2>5. ASSUME NEW d \in Controllers PROVE ControllerNotStranded(d)'
    BY <1>6, <2>0, Bits, ConstantsDistinct DEF WaitForUntrustedThreadToSuspend, Goto,
       ControllerNotStranded, ProtocolInv, TypeOK
  <2>6. QED BY <2>1, <2>2, <2>3, <2>4, <2>5 DEF WakeInv
<1>7. CASE SuspendWait(c)
  BY <1>7, Bits, ConstantsDistinct DEF SuspendWait, Goto, FutexWait, WaitPoint,
     WakeInv, HandlerNotStranded, EntryNotStranded, ControllerNotStranded, BeingWoken,
     WaitersKnown, WordKnown, QueuedAt, InOwnCode, ProtocolInv, TypeOK
<1>8. CASE SuspendWaitReturn(c)
  BY <1>8, Bits, ConstantsDistinct DEF SuspendWaitReturn, Goto, WakeInv,
     HandlerNotStranded, EntryNotStranded, ControllerNotStranded, BeingWoken,
     WaitersKnown, WordKnown, QueuedAt, InOwnCode
<1>9. QED
  BY <1>1, <1>2, <1>3, <1>4, <1>5, <1>6, <1>7, <1>8 DEF SuspendStep

\* the compare and swap that clears the flags is followed by a FutexWake(),
\* which finds nobody but the thread in the queue;
LEMMA WakeResumeStep ==
  ASSUME ProtocolInv, WakeInv, NEW c \in Controllers, ResumeStep(c)
  PROVE  WakeInv'
<1>1. CASE ResumeAllLoop(c)
  <2>0. threads_mu = c /\ \A d \in Controllers \ {c} : cpc[d] = "idle"
    BY <1>1 DEF ResumeAllLoop, ProtocolInv, LockInv
  <2>1. ASSUME NEW s \in Threads PROVE HandlerNotStranded(s)'
    BY <1>1, <2>0, Bits, ConstantsDistinct DEF ResumeAllLoop, WakeInv,
       HandlerNotStranded, BeingWoken
  <2>2. ASSUME NEW s \in Threads PROVE EntryNotStranded(s)'
    BY <1>1, <2>0, Bits, ConstantsDistinct DEF ResumeAllLoop, WakeInv,
       EntryNotStranded, BeingWoken, InOwnCode
  <2>3. ASSUME NEW s \in Threads PROVE WaitersKnown(s)'
    BY <1>1, <2>0, Bits, ConstantsDistinct DEF ResumeAllLoop, WakeInv, WaitersKnown,
       QueuedAt, InOwnCode
  <2>4. ASSUME NEW s \in Threads PROVE WordKnown(s)'
    BY <1>1, <2>0, Bits, ConstantsDistinct DEF ResumeAllLoop, WakeInv, WordKnown,
       InOwnCode
  <2>5. ASSUME NEW d \in Controllers PROVE ControllerNotStranded(d)'
    BY <1>1, <2>0, Bits, ConstantsDistinct DEF ResumeAllLoop, Goto,
       ControllerNotStranded, WaitersKnown, QueuedAt, InOwnCode, ProtocolInv, TypeOK,
       LockInv, ControlInv, ControlAt, ThreadInv, HandlerInv, Claimed, Awaited,
       Suspending, Waiting, InSyscallPCs, InUntrustedPCs
  <2>6. QED BY <2>1, <2>2, <2>3, <2>4, <2>5 DEF WakeInv
<1>2. CASE ResumeRead(c)
  BY <1>2, Bits, ConstantsDistinct DEF ResumeRead, Goto, WakeInv, HandlerNotStranded,
     EntryNotStranded, ControllerNotStranded, BeingWoken, WaitersKnown, WordKnown,
     QueuedAt, InOwnCode
<1>3. CASE ResumeCas(c)
  <2>0. threads_mu = c /\ \A d \in Controllers \ {c} : cpc[d] = "idle"
    BY <1>3 DEF ResumeCas, ProtocolInv, LockInv
  <2>1. ASSUME NEW s \in Threads PROVE HandlerNotStranded(s)'
    BY <1>3, <2>0, Bits, ConstantsDistinct DEF ResumeCas, Goto, WakeInv,
       HandlerNotStranded, BeingWoken, ProtocolInv, TypeOK
  <2>2. ASSUME NEW s \in Threads PROVE EntryNotStranded(s)'
    BY <1>3, <2>0, Bits, ConstantsDistinct DEF ResumeCas, Goto, WakeInv,
       EntryNotStranded, BeingWoken, InOwnCode, ProtocolInv, TypeOK
  <2>3. ASSUME NEW s \in Threads PROVE WaitersKnown(s)'
    BY <1>3, <2>0, Bits, ConstantsDistinct DEF ResumeCas, WakeInv, WaitersKnown,
       QueuedAt, InOwnCode
  <2>4. ASSUME NEW s \in Threads PROVE WordKnown(s)'
    <3>1. /\ UNCHANGED <<hpc, fpc, pc, futex, state, hstate>>
          /\ \/ suspend_state'[s] = suspend_state[s]
             \/ suspend_state[s] # kBaseState
      BY <1>3 DEF ResumeCas, ProtocolInv, TypeOK, ControlInv, ControlAt
    <3>2. QED
      BY <3>1 DEF WakeInv, WordKnown, InOwnCode
  <2>5. ASSUME NEW d \in Controllers PROVE ControllerNotStranded(d)'
    BY <1>3, <2>0, Bits, ConstantsDistinct DEF ResumeCas, Goto, WakeInv,
       ControllerNotStranded, WaitersKnown, QueuedAt, InOwnCode, ProtocolInv, TypeOK,
       ControlInv, ControlAt, Awaited, Suspending, Waiting
  <2>6. QED BY <2>1, <2>2, <2>3, <2>4, <2>5 DEF WakeInv
<1>4. CASE ResumeWake(c)
  <2>0. threads_mu = c /\ \A d \in Controllers \ {c} : cpc[d] = "idle"
    BY <1>4 DEF ResumeWake, ProtocolInv, LockInv
  <2>a. cur[c] \in Threads /\ \A w \in futex[cur[c]] : w = cur[c]
    BY <1>4, <2>0 DEF ResumeWake, WakeInv, WaitersKnown, QueuedAt, ProtocolInv, TypeOK
  <2>b. futex'[cur[c]] = {} /\ \A s \in Threads \ {cur[c]} : futex'[s] = futex[s]
    BY <1>4, <2>a DEF ResumeWake, FutexWake, ProtocolInv, TypeOK
  <2>1. ASSUME NEW s \in Threads PROVE HandlerNotStranded(s)'
    BY <1>4, <2>0, <2>b, Bits, ConstantsDistinct DEF ResumeWake, WakeInv,
       HandlerNotStranded, BeingWoken, ControlInv, ControlAt, Suspending
  <2>2. ASSUME NEW s \in Threads PROVE EntryNotStranded(s)'
    <3>1. UNCHANGED <<pc, hpc, fpc, suspend_state, cur>>
      BY <1>4 DEF ResumeWake
    <3>2. CASE s = cur[c]
      BY <2>b, <3>2 DEF EntryNotStranded
    <3>3. CASE s # cur[c]
      BY <2>0, <2>b, <3>1, <3>3 DEF WakeInv, EntryNotStranded, BeingWoken, InOwnCode
    <3>4. QED BY <3>2, <3>3
  <2>3. ASSUME NEW s \in Threads PROVE WaitersKnown(s)'
    BY <1>4, <2>0, <2>b, Bits, ConstantsDistinct DEF ResumeWake, WakeInv, WaitersKnown,
       QueuedAt, InOwnCode, Waiting
  <2>4. ASSUME NEW s \in Threads PROVE WordKnown(s)'
    BY <1>4, <2>0, <2>b, Bits, ConstantsDistinct DEF ResumeWake, WakeInv, WordKnown,
       InOwnCode
  <2>5. ASSUME NEW d \in Controllers PROVE ControllerNotStranded(d)'
    BY <1>4, <2>0, <2>b, Bits, ConstantsDistinct DEF ResumeWake, Goto,
       ControllerNotStranded
  <2>6. QED BY <2>1, <2>2, <2>3, <2>4, <2>5 DEF WakeInv
<1>5. QED
  BY <1>1, <1>2, <1>3, <1>4 DEF ResumeStep

\* and no call of the API leaves a resumption half done.
LEMMA WakeCallerStep ==
  ASSUME ProtocolInv, WakeInv, NEW c \in Controllers, CallerStep(c)
  PROVE  WakeInv'
<1>1. CASE NaClUntrustedThreadsSuspendAll(c)
  BY <1>1, Bits, ConstantsDistinct DEF NaClUntrustedThreadsSuspendAll, Goto, WakeInv,
     HandlerNotStranded, EntryNotStranded, ControllerNotStranded, BeingWoken,
     WaitersKnown, WordKnown, QueuedAt, InOwnCode
<1>2. CASE NaClUntrustedThreadsResumeAll(c)
  <2>0. threads_mu = c /\ \A d \in Controllers \ {c} : cpc[d] = "idle"
    BY <1>2 DEF NaClUntrustedThreadsResumeAll, ProtocolInv, LockInv
  <2>1. ASSUME NEW s \in Threads PROVE HandlerNotStranded(s)'
    BY <1>2, <2>0, Bits, ConstantsDistinct DEF NaClUntrustedThreadsResumeAll, WakeInv,
       HandlerNotStranded, BeingWoken
  <2>2. ASSUME NEW s \in Threads PROVE EntryNotStranded(s)'
    BY <1>2, <2>0, Bits, ConstantsDistinct DEF NaClUntrustedThreadsResumeAll, WakeInv,
       EntryNotStranded, BeingWoken, InOwnCode
  <2>3. ASSUME NEW s \in Threads PROVE WaitersKnown(s)'
    BY <1>2, <2>0, Bits, ConstantsDistinct DEF NaClUntrustedThreadsResumeAll, WakeInv,
       WaitersKnown, QueuedAt, InOwnCode
  <2>4. ASSUME NEW s \in Threads PROVE WordKnown(s)'
    BY <1>2, <2>0, Bits, ConstantsDistinct DEF NaClUntrustedThreadsResumeAll, WakeInv,
       WordKnown, InOwnCode
  <2>5. ASSUME NEW d \in Controllers PROVE ControllerNotStranded(d)'
    BY <1>2, <2>0, Bits, ConstantsDistinct DEF NaClUntrustedThreadsResumeAll, Goto,
       ControllerNotStranded
  <2>6. QED BY <2>1, <2>2, <2>3, <2>4, <2>5 DEF WakeInv
<1>3. CASE DrainFaultEvents(c)
  BY <1>3, WakeFrame DEF DrainFaultEvents
<1>4. ASSUME NEW t \in Threads, NaClAppThreadUnblockIfFaulted(c, t) PROVE WakeInv'
  BY <1>4, Bits, ConstantsDistinct DEF NaClAppThreadUnblockIfFaulted, Goto, WakeInv,
     HandlerNotStranded, EntryNotStranded, ControllerNotStranded, BeingWoken,
     WaitersKnown, WordKnown, QueuedAt, InOwnCode, ProtocolInv, TypeOK
<1>5. ASSUME NEW t \in Threads, SuspendThread(c, t) PROVE WakeInv'
  <2>0. threads_mu = c /\ \A d \in Controllers \ {c} : cpc[d] = "idle"
    BY <1>5 DEF SuspendThread, ProtocolInv, LockInv
  <2>1. ASSUME NEW s \in Threads PROVE HandlerNotStranded(s)'
    BY <1>5, <2>0, Bits, ConstantsDistinct DEF SuspendThread, WakeInv,
       HandlerNotStranded, BeingWoken
  <2>2. ASSUME NEW s \in Threads PROVE EntryNotStranded(s)'
    BY <1>5, <2>0, Bits, ConstantsDistinct DEF SuspendThread, WakeInv,
       EntryNotStranded, BeingWoken, InOwnCode
  <2>3. ASSUME NEW s \in Threads PROVE WaitersKnown(s)'
    BY <1>5, <2>0, Bits, ConstantsDistinct DEF SuspendThread, WakeInv, WaitersKnown,
       QueuedAt, InOwnCode
  <2>4. ASSUME NEW s \in Threads PROVE WordKnown(s)'
    BY <1>5, <2>0, Bits, ConstantsDistinct DEF SuspendThread, WakeInv, WordKnown,
       InOwnCode
  <2>5. ASSUME NEW d \in Controllers PROVE ControllerNotStranded(d)'
    BY <1>5, <2>0, Bits, ConstantsDistinct DEF SuspendThread, Goto,
       ControllerNotStranded
  <2>6. QED BY <2>1, <2>2, <2>3, <2>4, <2>5 DEF WakeInv
<1>6. ASSUME NEW t \in Threads, NEW r \in Regs, ResumeThread(c, t, r) PROVE WakeInv'
  BY <1>6, Bits, ConstantsDistinct DEF ResumeThread, Goto, WakeInv, HandlerNotStranded,
     EntryNotStranded, ControllerNotStranded, BeingWoken, WaitersKnown, WordKnown,
     QueuedAt, InOwnCode
<1>7. ASSUME NEW t \in Threads, NEW r \in Regs, NaClAppThreadSetSuspendedRegisters(c, t,
     r) PROVE WakeInv'
  BY <1>7, WakeFrame DEF NaClAppThreadSetSuspendedRegisters
<1>8. QED
  BY <1>1, <1>2, <1>3, <1>4, <1>5, <1>6, <1>7 DEF CallerStep

\* Nobody waits before the first thread is spawned.
LEMMA InitWake == Init => WakeInv
BY DEF Init, WakeInv, HandlerNotStranded, EntryNotStranded, WaitersKnown, WordKnown,
  ControllerNotStranded

\* Every step keeps WakeInv.
LEMMA NextWake ==
  ASSUME ProtocolInv, FaultInv, WakeInv, [Next]_vars
  PROVE  WakeInv'
<1>1. ASSUME NEW t \in Threads, TrustedStep(t) PROVE WakeInv'
  BY <1>1, WakeTrustedStep
<1>2. ASSUME NEW t \in Threads, HandlerStep(t) PROVE WakeInv'
  BY <1>2, WakeHandlerStep
<1>3. ASSUME NEW t \in Threads, EnvironmentStep(t) PROVE WakeInv'
  BY <1>3, WakeEnvironmentStep
<1>4. ASSUME NEW c \in Controllers, SuspendStep(c) PROVE WakeInv'
  BY <1>4, WakeSuspendStep
<1>5. ASSUME NEW c \in Controllers, ResumeStep(c) PROVE WakeInv'
  BY <1>5, WakeResumeStep
<1>6. ASSUME NEW c \in Controllers, CallerStep(c) PROVE WakeInv'
  BY <1>6, WakeCallerStep
<1>7. CASE UNCHANGED vars
  BY <1>7, WakeFrame DEF vars
<1>8. QED
  BY <1>1, <1>2, <1>3, <1>4, <1>5, <1>6, <1>7 DEF Next

\* WakeInv holds in every reachable state.
LEMMA WakeInvariance == Spec => []WakeInv
<1>1. ProtocolInv /\ FaultInv /\ WakeInv /\ [Next]_vars => WakeInv'
  BY NextWake
<1>2. QED
  BY InitWake, <1>1, ProtocolInvariance, FaultInvariance, PTL DEF Spec

\* A thread that waits to leave untrusted code waits on a word that says
\* kBaseState, so the owner of threads_mu is in the middle of suspending it.
LEMMA ExitKnown ==
  ASSUME ProtocolInv, NEW t \in Threads, WordKnown(t)
  PROVE  ExitNotStranded(t)
<1> SUFFICES ASSUME pc[t] = "toTblk", InOwnCode(t), t \in futex[t]
             PROVE  \E c \in Controllers : cur[c] = t /\ cpc[c] \in Suspending
  BY DEF ExitNotStranded, Suspending
<1>1. suspend_state[t] = kBaseState
  BY DEF WordKnown
<1>2. Claimed(t) /\ \A c \in Controllers : t \notin held[c]
  BY <1>1 DEF ProtocolInv, ThreadInv
<1>3. QED
  BY <1>2 DEF Claimed

\* Whoever sleeps on natp->suspend_state although what it waits for has happened
\* (the suspend handler, the thread on its way into or out of untrusted code, the
\* controller) is about to be woken, at every interleaving.
THEOREM WakeupsArrive == Spec => []NoLostWakeup
<1>1. ProtocolInv /\ WakeInv => NoLostWakeup
  BY ExitKnown DEF WakeInv, NoLostWakeup
<1>2. QED BY <1>1, ProtocolInvariance, WakeInvariance, PTL

\* The whole invariant of ThreadSuspension holds in every reachable state.
THEOREM Invariance == Spec => []IInv
<1>1. ProtocolInv /\ RegisterInv /\ SnapInv /\ FaultInv /\ WakeInv => IInv
  BY DEF IInv
<1>2. QED
  BY <1>1, ProtocolInvariance, RegisterInvariance, FaultInvariance, WakeInvariance, PTL
=============================================================================
