----------------------- MODULE ThreadSuspensionProofs -----------------------
(***************************************************************************)
(* Proofs about ThreadSuspension, for any number of threads, controllers   *)
(* and register values: type correctness, the inductive invariant          *)
(* ProtocolInv, and from it the safety of the suspension protocol and its  *)
(* refinement of UntrustedControl.                                         *)
(***************************************************************************)
EXTENDS ThreadSuspension, TLAPS

USE DEF UNTRUSTED, TRUSTED, SUSPENDING, SUSPENDED, kBaseState, SuspendedState,
        tvars, fvars, hvars, cvars, lvars, svars, xvars, world

\* The bit operations stay within the width of the state word.
LEMMA BitTypes ==
  /\ \A s \in SuspendStates : SetBit(s, SUSPENDING) \in SuspendStates
  /\ \A s \in SuspendStates : SetBit(s, SUSPENDED) \in SuspendStates
  /\ \A s \in SuspendStates : ClearBits(s) \in SuspendStates
  /\ {UNTRUSTED, TRUSTED} \subseteq SuspendStates
BY DEF SetBit, ClearBits, Has, SuspendStates

\* What the bit operations compute on the five states the protocol uses.
LEMMA Bits ==
  /\ \A s \in {1, 2, 5, 6, 13} :
       /\ Has(s, SUSPENDING) <=> s \in {5, 6, 13}
       /\ Has(s, SUSPENDED) <=> s = 13
       /\ Has(s, UNTRUSTED) <=> s \in {1, 5, 13}
  /\ SetBit(1, SUSPENDING) = 5 /\ SetBit(2, SUSPENDING) = 6
  /\ SetBit(5, SUSPENDED) = 13
  /\ ClearBits(13) = 1 /\ ClearBits(6) = 2
BY DEF SetBit, ClearBits, Has

-----------------------------------------------------------------------------

(* Type correctness: every action keeps every variable in its type.        *)

\* A step of the thread's own runtime code (launch, state changes, teardown)
\* keeps every variable's type.
LEMMA TrustedStepType ==
  ASSUME TypeOK, NEW t \in Threads, TrustedStep(t)
  PROVE  TypeOK'
<1>1. CASE NaClAppThreadLauncher(t)
  BY <1>1 DEF TypeOK, NaClAppThreadLauncher, ThreadPCs
<1>2. CASE ToUntrusted(t)
  BY <1>2, BitTypes DEF TypeOK, ToUntrusted, NaClAppThreadSetSuspendState, ThreadPCs
<1>3. CASE ToTrusted(t)
  BY <1>3, BitTypes DEF TypeOK, ToTrusted, NaClAppThreadSetSuspendState, ThreadPCs
<1>4. CASE StateWait(t)
  BY <1>4 DEF TypeOK, StateWait, FutexWait, WaitPoint, ThreadPCs
<1>5. CASE StateWaitReturn(t)
  <2>1. pc' \in [Threads -> ThreadPCs]
    BY <1>5 DEF TypeOK, StateWaitReturn, ThreadPCs
  <2>2. QED
    BY <1>5, <2>1, ZenonT(60) DEF TypeOK, StateWaitReturn
<1>6. CASE EnterUntrusted(t)
  BY <1>6 DEF TypeOK, EnterUntrusted, ThreadPCs
<1>7. CASE NaClAppThreadTeardown(t)
  BY <1>7 DEF TypeOK, NaClAppThreadTeardown, ThreadPCs
<1>8. CASE NaClAppThreadDelete(t)
  BY <1>8 DEF TypeOK, NaClAppThreadDelete, ThreadPCs, Contexts
<1>9. QED
  BY <1>1, <1>2, <1>3, <1>4, <1>5, <1>6, <1>7, <1>8 DEF TrustedStep

\* So does a step of the fault handler or of the suspend handler,
LEMMA HandlerStepType ==
  ASSUME TypeOK, NEW t \in Threads, HandlerStep(t)
  PROVE  TypeOK'
<1>1. CASE FaultCount(t)
  BY <1>1 DEF TypeOK, FaultCount, HandlerPCs, FaultPCs
<1>2. CASE FireDebugStubEvent(t)
  BY <1>2 DEF TypeOK, FireDebugStubEvent, HandlerPCs, FaultPCs
<1>3. CASE FaultSigwait(t)
  BY <1>3 DEF TypeOK, FaultSigwait, HandlerPCs, FaultPCs
<1>4. CASE FaultTest(t)
  BY <1>4 DEF TypeOK, FaultTest, HandlerPCs, FaultPCs
<1>5. CASE DeliverSignal(t)
  BY <1>5 DEF TypeOK, DeliverSignal, HandlerPCs, FaultPCs
<1>6. CASE HandlerCheck(t)
  BY <1>6 DEF TypeOK, HandlerCheck, HandlerPCs, FaultPCs
<1>7. CASE HandlerSave(t)
  BY <1>7 DEF TypeOK, HandlerSave, HandlerPCs, FaultPCs
<1>8. CASE HandlerRead(t)
  BY <1>8 DEF TypeOK, HandlerRead, HandlerPCs, FaultPCs
<1>9. CASE HandlerWrite(t)
  BY <1>9, BitTypes DEF TypeOK, HandlerWrite, HandlerPCs, FaultPCs
<1>10. CASE HandlerWake(t)
  BY <1>10, SMTT(60) DEF TypeOK, HandlerWake, FutexWake, HandlerPCs, FaultPCs
<1>11. CASE HandlerLoop(t)
  BY <1>11 DEF TypeOK, HandlerLoop, HandlerPCs, FaultPCs
<1>12. CASE HandlerWait(t)
  BY <1>12 DEF TypeOK, HandlerWait, FutexWait, WaitPoint, HandlerPCs, FaultPCs
<1>13. CASE HandlerWaitReturn(t)
  BY <1>13 DEF TypeOK, HandlerWaitReturn, HandlerPCs, FaultPCs
<1>14. CASE HandlerApply(t)
  <2>1. hpc' \in [Threads -> HandlerPCs]
    BY <1>14 DEF TypeOK, HandlerApply, HandlerPCs
  <2>2. fpc' \in [Threads -> FaultPCs]
    BY <1>14 DEF TypeOK, HandlerApply, FaultPCs
  <2>3. ctx' \in [Threads -> Contexts]
    BY <1>14 DEF TypeOK, HandlerApply
  <2>4. QED
    BY <1>14, <2>1, <2>2, <2>3 DEF TypeOK, HandlerApply
<1>15. QED
  BY <1>1, <1>2, <1>3, <1>4, <1>5, <1>6, <1>7, <1>8, <1>9, <1>10, <1>11, <1>12,
    <1>13, <1>14 DEF HandlerStep

\* a step the untrusted program or the spawner decides,
LEMMA EnvironmentStepType ==
  ASSUME TypeOK, NEW t \in Threads, EnvironmentStep(t)
  PROVE  TypeOK'
<1>1. CASE NaClAppThreadSpawn(t)
  BY <1>1, BitTypes DEF TypeOK, NaClAppThreadSpawn, ThreadPCs, Contexts
<1>2. CASE UserStep(t)
  BY <1>2 DEF TypeOK, UserStep, Contexts
<1>3. CASE Syscall(t)
  BY <1>3 DEF TypeOK, Syscall, ThreadPCs, Contexts
<1>4. CASE Fault(t)
  BY <1>4 DEF TypeOK, Fault, FaultPCs
<1>5. CASE SyscallReturn(t)
  BY <1>5 DEF TypeOK, SyscallReturn, ThreadPCs, Contexts
<1>6. CASE SyscallExit(t)
  BY <1>6 DEF TypeOK, SyscallExit, ThreadPCs
<1>7. QED
  BY <1>1, <1>2, <1>3, <1>4, <1>5, <1>6 DEF EnvironmentStep

\* a step of NaClUntrustedThreadSuspend() and the loop that calls it,
LEMMA SuspendStepType ==
  ASSUME TypeOK, NEW c \in Controllers, SuspendStep(c)
  PROVE  TypeOK'
<1>1. CASE SuspendAllLoop(c)
  <2>1. cpc' \in [Controllers -> ControlPCs]
    BY <1>1 DEF TypeOK, SuspendAllLoop, Goto, ControlPCs
  <2>2. cur' \in [Controllers -> Threads]
    BY <1>1, SMTT(60) DEF TypeOK, SuspendAllLoop, Goto
  <2>3. todo' \in [Controllers -> SUBSET Threads]
    BY <1>1 DEF TypeOK, SuspendAllLoop, Goto
  <2>4. QED
    BY <1>1, <2>1, <2>2, <2>3 DEF TypeOK, SuspendAllLoop, Goto
<1>2. CASE SuspendRead(c)
  BY <1>2 DEF TypeOK, SuspendRead, Goto, ControlPCs
<1>3. CASE SuspendCas(c)
  <2>1. suspend_state' \in [Threads -> SuspendStates]
    BY <1>3, BitTypes, SMTT(60) DEF TypeOK, SuspendCas, Goto
  <2>2. cpc' \in [Controllers -> ControlPCs]
    BY <1>3, SMTT(60) DEF TypeOK, SuspendCas, Goto, ControlPCs
  <2>3. QED
    BY <1>3, <2>1, <2>2 DEF TypeOK, SuspendCas, Goto
<1>4. CASE SuspendCheck(c)
  <2>1. suspended_registers' \in [Threads -> Contexts]
    BY <1>4 DEF TypeOK, SuspendCheck, Goto, Contexts
  <2>2. cpc' \in [Controllers -> ControlPCs]
    BY <1>4 DEF TypeOK, SuspendCheck, Goto, ControlPCs
  <2>3. held' \in [Controllers -> SUBSET Threads]
    BY <1>4 DEF TypeOK, SuspendCheck, Goto
  <2>4. QED
    BY <1>4, <2>1, <2>2, <2>3 DEF TypeOK, SuspendCheck, Goto
<1>5. CASE SuspendKill(c)
  BY <1>5 DEF TypeOK, SuspendKill, Goto, ControlPCs
<1>6. CASE WaitForUntrustedThreadToSuspend(c)
  BY <1>6, SMTT(60) DEF TypeOK, WaitForUntrustedThreadToSuspend, Goto, ControlPCs
<1>7. CASE SuspendWait(c)
  BY <1>7 DEF TypeOK, SuspendWait, FutexWait, WaitPoint, Goto, ControlPCs
<1>8. CASE SuspendWaitReturn(c)
  BY <1>8 DEF TypeOK, SuspendWaitReturn, Goto, ControlPCs
<1>9. QED
  BY <1>1, <1>2, <1>3, <1>4, <1>5, <1>6, <1>7, <1>8 DEF SuspendStep

\* a step of NaClUntrustedThreadResume() and the loop that calls it,
LEMMA ResumeStepType ==
  ASSUME TypeOK, NEW c \in Controllers, ResumeStep(c)
  PROVE  TypeOK'
<1>1. CASE ResumeAllLoop(c)
  <2>1. threads_mu' \in Controllers \cup {None}
    BY <1>1 DEF TypeOK, ResumeAllLoop, Goto
  <2>2. cpc' \in [Controllers -> ControlPCs]
    BY <1>1, SMTT(60) DEF TypeOK, ResumeAllLoop, Goto, ControlPCs
  <2>3. cur' \in [Controllers -> Threads]
    BY <1>1, SMTT(60) DEF TypeOK, ResumeAllLoop, Goto
  <2>4. todo' \in [Controllers -> SUBSET Threads]
    BY <1>1 DEF TypeOK, ResumeAllLoop, Goto
  <2>5. QED
    BY <1>1, <2>1, <2>2, <2>3, <2>4 DEF TypeOK, ResumeAllLoop, Goto
<1>2. CASE ResumeRead(c)
  BY <1>2 DEF TypeOK, ResumeRead, Goto, ControlPCs
<1>3. CASE ResumeCas(c)
  <2>1. suspend_state' \in [Threads -> SuspendStates]
    BY <1>3, BitTypes, SMTT(60) DEF TypeOK, ResumeCas, Goto
  <2>2. cpc' \in [Controllers -> ControlPCs]
    BY <1>3, SMTT(60) DEF TypeOK, ResumeCas, Goto, ControlPCs
  <2>3. held' \in [Controllers -> SUBSET Threads]
    <3>1. held' = held \/ held' = [held EXCEPT ![c] = @ \ {cur[c]}]
      BY <1>3 DEF ResumeCas
    <3>2. QED BY <3>1 DEF TypeOK
  <2>4. QED
    BY <1>3, <2>1, <2>2, <2>3 DEF TypeOK, ResumeCas, Goto
<1>4. CASE ResumeWake(c)
  <2>1. futex' \in [Threads -> SUBSET (Threads \cup Controllers)]
    BY <1>4 DEF TypeOK, ResumeWake, FutexWake
  <2>2. cpc' \in [Controllers -> ControlPCs]
    BY <1>4 DEF TypeOK, ResumeWake, Goto, ControlPCs
  <2>3. QED
    BY <1>4, <2>1, <2>2 DEF TypeOK, ResumeWake
<1>5. QED
  BY <1>1, <1>2, <1>3, <1>4 DEF ResumeStep

\* and a call that a controller makes on the suspension API.
LEMMA CallerStepType ==
  ASSUME TypeOK, NEW c \in Controllers, CallerStep(c)
  PROVE  TypeOK'
<1>1. CASE NaClUntrustedThreadsSuspendAll(c)
  BY <1>1 DEF TypeOK, NaClUntrustedThreadsSuspendAll, Goto, ControlPCs
<1>2. CASE NaClUntrustedThreadsResumeAll(c)
  BY <1>2 DEF TypeOK, NaClUntrustedThreadsResumeAll, Goto, ControlPCs
<1>3. CASE DrainFaultEvents(c)
  BY <1>3 DEF TypeOK, DrainFaultEvents
<1>4. ASSUME NEW t \in Threads, NaClAppThreadUnblockIfFaulted(c, t)
      PROVE  TypeOK'
  <2>1. fault_signal' \in [Threads -> BOOLEAN]
    BY <1>4 DEF TypeOK, NaClAppThreadUnblockIfFaulted, Goto
  <2>2. faulted_thread_count' \in Int
    BY <1>4 DEF TypeOK, NaClAppThreadUnblockIfFaulted, Goto
  <2>3. cpc' \in [Controllers -> ControlPCs]
    BY <1>4 DEF TypeOK, NaClAppThreadUnblockIfFaulted, Goto, ControlPCs
  <2>4. QED
    BY <1>4, <2>1, <2>2, <2>3 DEF TypeOK, NaClAppThreadUnblockIfFaulted, Goto
<1>5. ASSUME NEW t \in Threads, SuspendThread(c, t)
      PROVE  TypeOK'
  BY <1>5 DEF TypeOK, SuspendThread, Goto, ControlPCs
<1>6. ASSUME NEW t \in Threads, NEW r \in Regs, ResumeThread(c, t, r)
      PROVE  TypeOK'
  BY <1>6 DEF TypeOK, ResumeThread, Goto, ControlPCs, Contexts
<1>7. ASSUME NEW t \in Threads, NEW r \in Regs, NaClAppThreadSetSuspendedRegisters(c,
   t, r)
      PROVE  TypeOK'
  BY <1>7 DEF TypeOK, NaClAppThreadSetSuspendedRegisters, Contexts
<1>8. QED
  BY <1>1, <1>2, <1>3, <1>4, <1>5, <1>6, <1>7 DEF CallerStep

-----------------------------------------------------------------------------
(* The inductive invariant.                                                *)

\* The compare and swap of NaClUntrustedThreadResume() takes the thread out of
\* the held set at the very moment at which it clears SUSPENDING.
LEMMA ResumeCasInv ==
  ASSUME ProtocolInv, NEW c \in Controllers, ResumeCas(c)
  PROVE  ControlInv' /\ ThreadInv'
<1> DEFINE t == cur[c]
<1>0. t \in Threads /\ t \in held[c] /\ threads_mu = c /\ old_state[c] \in {6, 13}
  BY DEF ProtocolInv, TypeOK, LockInv, ControlInv, ControlAt, ResumeCas
<1>1. CASE suspend_state[t] # old_state[c]
  BY <1>0, <1>1 DEF ProtocolInv, TypeOK, LockInv, ControlInv, ControlAt, ThreadInv,
    Claimed, Suspending, Waiting, ResumeCas, Goto
<1>2. CASE suspend_state[t] = old_state[c]
  <2>1. /\ suspend_state' = [suspend_state EXCEPT ![t] = ClearBits(old_state[c])]
        /\ ClearBits(old_state[c]) = IF old_state[c] = 13 THEN 1 ELSE 2
        /\ held' = [held EXCEPT ![c] = @ \ {t}]
        /\ cpc' = [cpc EXCEPT ![c] = "rwake"]
        /\ UNCHANGED <<xvars, fvars, lvars, futex, svars, pc, state, cur, old_state, todo, save, one>>
    BY <1>0, <1>2, Bits DEF ResumeCas, Goto
  <2>2. \A d \in Controllers \ {c} : /\ cpc[d] = "idle" /\ cpc'[d] = "idle"
                                     /\ held[d] = {} /\ held'[d] = {} /\ todo'[d] = {}
    BY <1>0, <2>1 DEF ProtocolInv, LockInv, TypeOK
  <2>3. ControlInv'
    <3>1. IF one[c] THEN todo[c] = {} ELSE held'[c] = todo[c]
      BY <1>0, <2>1 DEF ProtocolInv, TypeOK, ControlInv, ControlAt, ResumeCas
    <3>2. held'[c] \subseteq threads /\ todo'[c] \subseteq threads /\ cur[c] \in threads
      BY <1>0, <2>1 DEF ProtocolInv, TypeOK, ControlInv, ControlAt, ResumeCas
    <3>3. cpc'[c] = "rwake"
      BY <2>1 DEF ProtocolInv, TypeOK
    <3>4. ASSUME NEW d \in Controllers \ {c} PROVE ControlAt(d)'
      BY <2>1, <2>2 DEF ControlAt, Suspending, Waiting
    <3>5. ControlAt(c)'
      BY <2>1, <3>1, <3>2, <3>3 DEF ControlAt, Suspending, Waiting
    <3>6. QED
      BY <3>4, <3>5 DEF ControlInv
  <2>4. ThreadInv'
    BY <1>0, <1>2, <2>1, <2>2 DEF ProtocolInv, TypeOK, LockInv, ControlInv, ControlAt,
      ThreadInv, Claimed, Suspending, InSyscallPCs, InUntrustedPCs
  <2>5. QED BY <2>3, <2>4
<1>3. QED BY <1>1, <1>2

\* A thread becomes held only when it has reported itself suspended.
LEMMA WaitInv ==
  ASSUME ProtocolInv, NEW c \in Controllers, WaitForUntrustedThreadToSuspend(c)
  PROVE  ThreadInv'
<1>0. cur[c] \in Threads /\ threads_mu = c /\ suspend_state[cur[c]] \in {5, 13}
  BY DEF ProtocolInv, TypeOK, LockInv, ControlInv, ControlAt,
    WaitForUntrustedThreadToSuspend, Waiting
<1>1. CASE suspend_state[cur[c]] = 5
  BY <1>0, <1>1 DEF ProtocolInv, TypeOK, LockInv, ControlInv, ControlAt, ThreadInv,
    Claimed, Suspending, Waiting, WaitForUntrustedThreadToSuspend, Goto
<1>2. CASE suspend_state[cur[c]] = 13
  <2>1. /\ held' = [held EXCEPT ![c] = @ \cup {cur[c]}]
        /\ cpc' = [cpc EXCEPT ![c] = "loop"]
        /\ UNCHANGED <<world, cur, old_state, todo, save, one>>
    BY <1>2 DEF WaitForUntrustedThreadToSuspend, Goto
  <2>2. held'[c] = held[c] \cup {cur[c]} /\ \A d \in Controllers \ {c} : held'[d] = held[d]
    BY <2>1 DEF ProtocolInv, TypeOK
  <2>3. \A t \in Threads : Claimed(t) => Claimed(t)'
    BY <1>0, <2>1, <2>2 DEF Claimed
  <2>4. QED
    BY <1>0, <1>2, <2>1, <2>2, <2>3 DEF ProtocolInv, ThreadInv
<1>3. QED BY <1>0, <1>1, <1>2

\* The thread's own runtime code keeps the invariant: it changes suspend_state
\* only from TRUSTED to UNTRUSTED or back, so never while it is claimed.
LEMMA TrustedStepInv ==
  ASSUME ProtocolInv, NEW t \in Threads, TrustedStep(t)
  PROVE  LockInv' /\ ControlInv' /\ ThreadInv' /\ HandlerInv'
<1>1. CASE NaClAppThreadLauncher(t)
  <2>1. LockInv'
    BY <1>1 DEF ProtocolInv, TypeOK, LockInv, NaClAppThreadLauncher, InOwnCode
  <2>2. ControlInv'
    BY <1>1, Bits DEF ProtocolInv, TypeOK, LockInv, ControlInv, ControlAt, ThreadInv,
      HandlerInv, Awaited, Claimed, Suspending, Waiting, NaClAppThreadLauncher,
      InOwnCode
  <2>3. ThreadInv'
    BY <1>1, Bits DEF ProtocolInv, TypeOK, LockInv, ControlInv, ControlAt, ThreadInv,
      HandlerInv, Awaited, Claimed, Suspending, Waiting, InSyscallPCs, InUntrustedPCs,
      NaClAppThreadLauncher, InOwnCode
  <2>4. HandlerInv'
    BY <1>1, Bits DEF ProtocolInv, TypeOK, LockInv, ControlInv, ControlAt, ThreadInv,
      HandlerInv, Awaited, Claimed, Suspending, Waiting, InSyscallPCs, InUntrustedPCs,
      ThreadPCs, NaClAppThreadLauncher, InOwnCode
  <2>5. QED BY <2>1, <2>2, <2>3, <2>4
<1>2. CASE ToUntrusted(t)
  <2>1. LockInv'
    BY <1>2 DEF ProtocolInv, TypeOK, LockInv, ToUntrusted, NaClAppThreadSetSuspendState,
      InOwnCode
  <2>2. ControlInv'
    BY <1>2, Bits DEF ProtocolInv, TypeOK, LockInv, ControlInv, ControlAt, ThreadInv,
      HandlerInv, Awaited, Claimed, Suspending, Waiting, ToUntrusted,
      NaClAppThreadSetSuspendState, InOwnCode
  <2>3. ThreadInv'
    BY <1>2, Bits, SMTT(60) DEF ProtocolInv, TypeOK, LockInv, ControlInv, ControlAt,
       ThreadInv,
      HandlerInv, Awaited, Claimed, Suspending, Waiting, InSyscallPCs, InUntrustedPCs,
      ToUntrusted, NaClAppThreadSetSuspendState, InOwnCode
  <2>4. HandlerInv'
    BY <1>2, Bits DEF ProtocolInv, TypeOK, LockInv, ControlInv, ControlAt, ThreadInv,
      HandlerInv, Awaited, Claimed, Suspending, Waiting, InSyscallPCs, InUntrustedPCs,
      ThreadPCs, ToUntrusted, NaClAppThreadSetSuspendState, InOwnCode
  <2>5. QED BY <2>1, <2>2, <2>3, <2>4
<1>3. CASE ToTrusted(t)
  <2>1. LockInv'
    BY <1>3 DEF ProtocolInv, TypeOK, LockInv, ToTrusted, NaClAppThreadSetSuspendState,
      InOwnCode
  <2>2. ControlInv'
    BY <1>3, Bits DEF ProtocolInv, TypeOK, LockInv, ControlInv, ControlAt, ThreadInv,
      HandlerInv, Awaited, Claimed, Suspending, Waiting, ToTrusted,
      NaClAppThreadSetSuspendState, InOwnCode
  <2>3. ThreadInv'
    BY <1>3, Bits, SMTT(60) DEF ProtocolInv, TypeOK, LockInv, ControlInv, ControlAt,
       ThreadInv,
      HandlerInv, Awaited, Claimed, Suspending, Waiting, InSyscallPCs, InUntrustedPCs,
      ToTrusted, NaClAppThreadSetSuspendState, InOwnCode
  <2>4. HandlerInv'
    BY <1>3, Bits DEF ProtocolInv, TypeOK, LockInv, ControlInv, ControlAt, ThreadInv,
      HandlerInv, Awaited, Claimed, Suspending, Waiting, InSyscallPCs, InUntrustedPCs,
      ThreadPCs, ToTrusted, NaClAppThreadSetSuspendState, InOwnCode
  <2>5. QED BY <2>1, <2>2, <2>3, <2>4
<1>4. CASE StateWait(t)
  <2>1. LockInv'
    BY <1>4 DEF ProtocolInv, TypeOK, LockInv, StateWait, FutexWait, WaitPoint, InOwnCode
  <2>2. ControlInv'
    BY <1>4, Bits DEF ProtocolInv, TypeOK, LockInv, ControlInv, ControlAt, ThreadInv,
      HandlerInv, Awaited, Claimed, Suspending, Waiting, StateWait, FutexWait,
      WaitPoint, InOwnCode
  <2>3. ThreadInv'
    BY <1>4, Bits DEF ProtocolInv, TypeOK, LockInv, ControlInv, ControlAt, ThreadInv,
      HandlerInv, Awaited, Claimed, Suspending, Waiting, InSyscallPCs, InUntrustedPCs,
      StateWait, FutexWait, WaitPoint, InOwnCode
  <2>4. HandlerInv'
    BY <1>4, Bits DEF ProtocolInv, TypeOK, LockInv, ControlInv, ControlAt, ThreadInv,
      HandlerInv, Awaited, Claimed, Suspending, Waiting, InSyscallPCs, InUntrustedPCs,
      ThreadPCs, StateWait, FutexWait, WaitPoint, InOwnCode
  <2>5. QED BY <2>1, <2>2, <2>3, <2>4
<1>5. CASE StateWaitReturn(t)
  <2>1. LockInv'
    BY <1>5 DEF ProtocolInv, TypeOK, LockInv, StateWaitReturn, InOwnCode
  <2>2. ControlInv'
    BY <1>5, Bits DEF ProtocolInv, TypeOK, LockInv, ControlInv, ControlAt, ThreadInv,
      HandlerInv, Awaited, Claimed, Suspending, Waiting, StateWaitReturn, InOwnCode
  <2>3. ThreadInv'
    BY <1>5, Bits DEF ProtocolInv, TypeOK, LockInv, ControlInv, ControlAt, ThreadInv,
      HandlerInv, Awaited, Claimed, Suspending, Waiting, InSyscallPCs, InUntrustedPCs,
      StateWaitReturn, InOwnCode
  <2>4. HandlerInv'
    BY <1>5, Bits DEF ProtocolInv, TypeOK, LockInv, ControlInv, ControlAt, ThreadInv,
      HandlerInv, Awaited, Claimed, Suspending, Waiting, InSyscallPCs, InUntrustedPCs,
      ThreadPCs, StateWaitReturn, InOwnCode
  <2>5. QED BY <2>1, <2>2, <2>3, <2>4
<1>6. CASE EnterUntrusted(t)
  <2>1. LockInv'
    BY <1>6 DEF ProtocolInv, TypeOK, LockInv, EnterUntrusted, InOwnCode
  <2>2. ControlInv'
    BY <1>6, Bits DEF ProtocolInv, TypeOK, LockInv, ControlInv, ControlAt, ThreadInv,
      HandlerInv, Awaited, Claimed, Suspending, Waiting, EnterUntrusted, InOwnCode
  <2>3. ThreadInv'
    BY <1>6, Bits DEF ProtocolInv, TypeOK, LockInv, ControlInv, ControlAt, ThreadInv,
      HandlerInv, Awaited, Claimed, Suspending, Waiting, InSyscallPCs, InUntrustedPCs,
      EnterUntrusted, InOwnCode
  <2>4. HandlerInv'
    BY <1>6, Bits DEF ProtocolInv, TypeOK, LockInv, ControlInv, ControlAt, ThreadInv,
      HandlerInv, Awaited, Claimed, Suspending, Waiting, InSyscallPCs, InUntrustedPCs,
      ThreadPCs, EnterUntrusted, InOwnCode
  <2>5. QED BY <2>1, <2>2, <2>3, <2>4
<1>7. CASE NaClAppThreadTeardown(t)
  <2>1. LockInv'
    BY <1>7 DEF ProtocolInv, TypeOK, LockInv, NaClAppThreadTeardown, InOwnCode
  <2>2. ControlInv'
    BY <1>7, Bits, ConstantsDistinct DEF ProtocolInv, TypeOK, LockInv, ControlInv,
      ControlAt, ThreadInv, HandlerInv, Awaited, Claimed, Suspending, Waiting,
      NaClAppThreadTeardown, InOwnCode
  <2>3. ThreadInv'
    BY <1>7, Bits DEF ProtocolInv, TypeOK, LockInv, ControlInv, ControlAt, ThreadInv,
      HandlerInv, Awaited, Claimed, Suspending, Waiting, InSyscallPCs, InUntrustedPCs,
      NaClAppThreadTeardown, InOwnCode
  <2>4. HandlerInv'
    BY <1>7, Bits DEF ProtocolInv, TypeOK, LockInv, ControlInv, ControlAt, ThreadInv,
      HandlerInv, Awaited, Claimed, Suspending, Waiting, InSyscallPCs, InUntrustedPCs,
      ThreadPCs, NaClAppThreadTeardown, InOwnCode
  <2>5. QED BY <2>1, <2>2, <2>3, <2>4
<1>8. CASE NaClAppThreadDelete(t)
  <2>1. LockInv'
    BY <1>8 DEF ProtocolInv, TypeOK, LockInv, NaClAppThreadDelete, InOwnCode
  <2>2. ControlInv'
    BY <1>8, Bits DEF ProtocolInv, TypeOK, LockInv, ControlInv, ControlAt, ThreadInv,
      HandlerInv, Awaited, Claimed, Suspending, Waiting, NaClAppThreadDelete,
      InOwnCode
  <2>3. ThreadInv'
    BY <1>8, Bits DEF ProtocolInv, TypeOK, LockInv, ControlInv, ControlAt, ThreadInv,
      HandlerInv, Awaited, Claimed, Suspending, Waiting, InSyscallPCs, InUntrustedPCs,
      NaClAppThreadDelete, InOwnCode
  <2>4. HandlerInv'
    BY <1>8, Bits DEF ProtocolInv, TypeOK, LockInv, ControlInv, ControlAt, ThreadInv,
      HandlerInv, Awaited, Claimed, Suspending, Waiting, InSyscallPCs, InUntrustedPCs,
      ThreadPCs, NaClAppThreadDelete, InOwnCode
  <2>5. QED BY <2>1, <2>2, <2>3, <2>4
<1>9. QED
  BY <1>1, <1>2, <1>3, <1>4, <1>5, <1>6, <1>7, <1>8 DEF TrustedStep

\* The signal handlers keep the invariant: the suspend handler sets SUSPENDED
\* only while the controller that sent the signal waits for it.
LEMMA HandlerStepInv ==
  ASSUME ProtocolInv, NEW t \in Threads, HandlerStep(t)
  PROVE  LockInv' /\ ControlInv' /\ ThreadInv' /\ HandlerInv'
<1>1. CASE FaultCount(t)
  <2>1. LockInv'
    BY <1>1 DEF ProtocolInv, TypeOK, LockInv, FaultCount
  <2>2. ControlInv'
    BY <1>1, Bits DEF ProtocolInv, TypeOK, LockInv, ControlInv, ControlAt, ThreadInv,
      HandlerInv, Awaited, Claimed, Suspending, Waiting, FaultCount
  <2>3. ThreadInv'
    BY <1>1, Bits DEF ProtocolInv, TypeOK, LockInv, ControlInv, ControlAt, ThreadInv,
      HandlerInv, Awaited, Claimed, Suspending, Waiting, InSyscallPCs, InUntrustedPCs,
      FaultCount
  <2>4. HandlerInv'
    BY <1>1, Bits DEF ProtocolInv, TypeOK, LockInv, ControlInv, ControlAt, ThreadInv,
      HandlerInv, Awaited, Claimed, Suspending, Waiting, InSyscallPCs, InUntrustedPCs,
      ThreadPCs, FaultCount
  <2>5. QED BY <2>1, <2>2, <2>3, <2>4
<1>2. CASE FireDebugStubEvent(t)
  <2>1. LockInv'
    BY <1>2 DEF ProtocolInv, TypeOK, LockInv, FireDebugStubEvent
  <2>2. ControlInv'
    BY <1>2, Bits DEF ProtocolInv, TypeOK, LockInv, ControlInv, ControlAt, ThreadInv,
      HandlerInv, Awaited, Claimed, Suspending, Waiting, FireDebugStubEvent
  <2>3. ThreadInv'
    BY <1>2, Bits DEF ProtocolInv, TypeOK, LockInv, ControlInv, ControlAt, ThreadInv,
      HandlerInv, Awaited, Claimed, Suspending, Waiting, InSyscallPCs, InUntrustedPCs,
      FireDebugStubEvent
  <2>4. HandlerInv'
    BY <1>2, Bits DEF ProtocolInv, TypeOK, LockInv, ControlInv, ControlAt, ThreadInv,
      HandlerInv, Awaited, Claimed, Suspending, Waiting, InSyscallPCs, InUntrustedPCs,
      ThreadPCs, FireDebugStubEvent
  <2>5. QED BY <2>1, <2>2, <2>3, <2>4
<1>3. CASE FaultSigwait(t)
  <2>1. LockInv'
    BY <1>3 DEF ProtocolInv, TypeOK, LockInv, FaultSigwait
  <2>2. ControlInv'
    BY <1>3, Bits DEF ProtocolInv, TypeOK, LockInv, ControlInv, ControlAt, ThreadInv,
      HandlerInv, Awaited, Claimed, Suspending, Waiting, FaultSigwait
  <2>3. ThreadInv'
    BY <1>3, Bits DEF ProtocolInv, TypeOK, LockInv, ControlInv, ControlAt, ThreadInv,
      HandlerInv, Awaited, Claimed, Suspending, Waiting, InSyscallPCs, InUntrustedPCs,
      FaultSigwait
  <2>4. HandlerInv'
    BY <1>3, Bits DEF ProtocolInv, TypeOK, LockInv, ControlInv, ControlAt, ThreadInv,
      HandlerInv, Awaited, Claimed, Suspending, Waiting, InSyscallPCs, InUntrustedPCs,
      ThreadPCs, FaultSigwait
  <2>5. QED BY <2>1, <2>2, <2>3, <2>4
<1>4. CASE FaultTest(t)
  <2>1. LockInv'
    BY <1>4 DEF ProtocolInv, TypeOK, LockInv, FaultTest
  <2>2. ControlInv'
    BY <1>4, Bits DEF ProtocolInv, TypeOK, LockInv, ControlInv, ControlAt, ThreadInv,
      HandlerInv, Awaited, Claimed, Suspending, Waiting, FaultTest
  <2>3. ThreadInv'
    BY <1>4, Bits DEF ProtocolInv, TypeOK, LockInv, ControlInv, ControlAt, ThreadInv,
      HandlerInv, Awaited, Claimed, Suspending, Waiting, InSyscallPCs, InUntrustedPCs,
      FaultTest
  <2>4. HandlerInv'
    BY <1>4, Bits DEF ProtocolInv, TypeOK, LockInv, ControlInv, ControlAt, ThreadInv,
      HandlerInv, Awaited, Claimed, Suspending, Waiting, InSyscallPCs, InUntrustedPCs,
      ThreadPCs, FaultTest
  <2>5. QED BY <2>1, <2>2, <2>3, <2>4
<1>5. CASE DeliverSignal(t)
  <2>1. LockInv'
    BY <1>5 DEF ProtocolInv, TypeOK, LockInv, DeliverSignal, InOwnCode
  <2>2. ControlInv'
    BY <1>5, Bits DEF ProtocolInv, TypeOK, LockInv, ControlInv, ControlAt, ThreadInv,
      HandlerInv, Awaited, Claimed, Suspending, Waiting, DeliverSignal, InOwnCode
  <2>3. ThreadInv'
    BY <1>5, Bits DEF ProtocolInv, TypeOK, LockInv, ControlInv, ControlAt, ThreadInv,
      HandlerInv, Awaited, Claimed, Suspending, Waiting, InSyscallPCs, InUntrustedPCs,
      DeliverSignal, InOwnCode
  <2>4. HandlerInv'
    <3>1. /\ UNCHANGED <<suspend_state, pc, fpc, hstate>>
          /\ \A x \in Threads : Awaited(x)' <=> Awaited(x)
      BY <1>5 DEF DeliverSignal, Awaited, tvars, lvars, cvars
    <3>2. /\ sig_pending[t] /\ ~sig_pending'[t] /\ hpc'[t] = "check"
          /\ \A x \in Threads \ {t} : hpc'[x] = hpc[x] /\ sig_pending'[x] = sig_pending[x]
      BY <1>5 DEF ProtocolInv, TypeOK, DeliverSignal
    <3>3. suspend_state[t] = kBaseState /\ Awaited(t)
      BY <3>2 DEF ProtocolInv, HandlerInv
    <3>4. pc[t] \in InUntrustedPCs
      <4>1. pc[t] \in ThreadPCs /\ pc[t] # "fatal"
        BY DEF ProtocolInv, TypeOK, ThreadInv
      <4>2. pc[t] \notin InSyscallPCs
        BY <3>3 DEF ProtocolInv, ThreadInv
      <4>3. QED BY <4>1, <4>2 DEF ThreadPCs, InSyscallPCs, InUntrustedPCs
    <3>5. kBaseState # SuspendedState
      BY Bits
    <3>6. QED BY <3>1, <3>2, <3>3, <3>4, <3>5 DEF ProtocolInv, HandlerInv
  <2>5. QED BY <2>1, <2>2, <2>3, <2>4
<1>6. CASE HandlerCheck(t)
  <2>1. LockInv'
    BY <1>6 DEF ProtocolInv, TypeOK, LockInv, HandlerCheck
  <2>2. ControlInv'
    BY <1>6, Bits DEF ProtocolInv, TypeOK, LockInv, ControlInv, ControlAt, ThreadInv,
      HandlerInv, Awaited, Claimed, Suspending, Waiting, HandlerCheck
  <2>3. ThreadInv'
    BY <1>6, Bits DEF ProtocolInv, TypeOK, LockInv, ControlInv, ControlAt, ThreadInv,
      HandlerInv, Awaited, Claimed, Suspending, Waiting, InSyscallPCs, InUntrustedPCs,
      HandlerCheck
  <2>4. HandlerInv'
    BY <1>6, Bits DEF ProtocolInv, TypeOK, LockInv, ControlInv, ControlAt, ThreadInv,
      HandlerInv, Awaited, Claimed, Suspending, Waiting, InSyscallPCs, InUntrustedPCs,
      ThreadPCs, HandlerCheck
  <2>5. QED BY <2>1, <2>2, <2>3, <2>4
<1>7. CASE HandlerSave(t)
  <2>1. LockInv'
    BY <1>7 DEF ProtocolInv, TypeOK, LockInv, HandlerSave
  <2>2. ControlInv'
    BY <1>7, Bits DEF ProtocolInv, TypeOK, LockInv, ControlInv, ControlAt, ThreadInv,
      HandlerInv, Awaited, Claimed, Suspending, Waiting, HandlerSave
  <2>3. ThreadInv'
    BY <1>7, Bits DEF ProtocolInv, TypeOK, LockInv, ControlInv, ControlAt, ThreadInv,
      HandlerInv, Awaited, Claimed, Suspending, Waiting, InSyscallPCs, InUntrustedPCs,
      HandlerSave
  <2>4. HandlerInv'
    BY <1>7, Bits DEF ProtocolInv, TypeOK, LockInv, ControlInv, ControlAt, ThreadInv,
      HandlerInv, Awaited, Claimed, Suspending, Waiting, InSyscallPCs, InUntrustedPCs,
      ThreadPCs, HandlerSave
  <2>5. QED BY <2>1, <2>2, <2>3, <2>4
<1>8. CASE HandlerRead(t)
  <2>1. LockInv'
    BY <1>8 DEF ProtocolInv, TypeOK, LockInv, HandlerRead
  <2>2. ControlInv'
    BY <1>8, Bits DEF ProtocolInv, TypeOK, LockInv, ControlInv, ControlAt, ThreadInv,
      HandlerInv, Awaited, Claimed, Suspending, Waiting, HandlerRead
  <2>3. ThreadInv'
    BY <1>8, Bits DEF ProtocolInv, TypeOK, LockInv, ControlInv, ControlAt, ThreadInv,
      HandlerInv, Awaited, Claimed, Suspending, Waiting, InSyscallPCs, InUntrustedPCs,
      HandlerRead
  <2>4. HandlerInv'
    BY <1>8, Bits DEF ProtocolInv, TypeOK, LockInv, ControlInv, ControlAt, ThreadInv,
      HandlerInv, Awaited, Claimed, Suspending, Waiting, InSyscallPCs, InUntrustedPCs,
      ThreadPCs, HandlerRead
  <2>5. QED BY <2>1, <2>2, <2>3, <2>4
<1>9. CASE HandlerWrite(t)
  <2>1. LockInv'
    BY <1>9 DEF ProtocolInv, TypeOK, LockInv, HandlerWrite
  <2>2. ControlInv'
    <3>1. /\ UNCHANGED <<cvars, lvars>>
          /\ suspend_state[t] = kBaseState /\ suspend_state'[t] = SuspendedState
          /\ \A x \in Threads \ {t} : suspend_state'[x] = suspend_state[x]
      BY <1>9, Bits DEF ProtocolInv, TypeOK, HandlerInv, HandlerWrite
    <3>2. threads_mu \in Controllers /\ cur[threads_mu] = t /\ cpc[threads_mu] \in Waiting
      BY <1>9 DEF ProtocolInv, HandlerInv, HandlerWrite, Awaited
    <3>3. ASSUME NEW c \in Controllers
          PROVE  ControlAt(c)'
      <4>1. ControlAt(c) /\ cur[c] \in Threads
        BY DEF ProtocolInv, TypeOK, ControlInv
      <4>2. CASE c = threads_mu
        BY <4>1, <4>2, <3>1, <3>2 DEF ControlAt, Suspending, Waiting, cvars, lvars
      <4>3. CASE c # threads_mu
        <5>1. cpc[c] = "idle"
          BY <4>3 DEF ProtocolInv, LockInv
        <5>2. QED
          BY <4>1, <5>1, <3>1 DEF ControlAt, Suspending, Waiting, cvars, lvars
      <4>4. QED BY <4>2, <4>3
    <3>4. QED BY <3>3 DEF ControlInv
  <2>3. ThreadInv'
    BY <1>9, Bits DEF ProtocolInv, TypeOK, LockInv, ControlInv, ControlAt, ThreadInv,
      HandlerInv, Awaited, Claimed, Suspending, Waiting, InSyscallPCs, InUntrustedPCs,
      HandlerWrite
  <2>4. HandlerInv'
    BY <1>9, Bits DEF ProtocolInv, TypeOK, LockInv, ControlInv, ControlAt, ThreadInv,
      HandlerInv, Awaited, Claimed, Suspending, Waiting, InSyscallPCs, InUntrustedPCs,
      ThreadPCs, HandlerWrite
  <2>5. QED BY <2>1, <2>2, <2>3, <2>4
<1>10. CASE HandlerWake(t)
  <2>1. LockInv'
    BY <1>10 DEF ProtocolInv, TypeOK, LockInv, HandlerWake, FutexWake
  <2>2. ControlInv'
    BY <1>10, Bits DEF ProtocolInv, TypeOK, LockInv, ControlInv, ControlAt, ThreadInv,
      HandlerInv, Awaited, Claimed, Suspending, Waiting, HandlerWake, FutexWake
  <2>3. ThreadInv'
    BY <1>10, Bits DEF ProtocolInv, TypeOK, LockInv, ControlInv, ControlAt, ThreadInv,
      HandlerInv, Awaited, Claimed, Suspending, Waiting, InSyscallPCs, InUntrustedPCs,
      HandlerWake, FutexWake
  <2>4. HandlerInv'
    BY <1>10, Bits DEF ProtocolInv, TypeOK, LockInv, ControlInv, ControlAt, ThreadInv,
      HandlerInv, Awaited, Claimed, Suspending, Waiting, InSyscallPCs, InUntrustedPCs,
      ThreadPCs, HandlerWake, FutexWake
  <2>5. QED BY <2>1, <2>2, <2>3, <2>4
<1>11. CASE HandlerLoop(t)
  <2>1. LockInv'
    BY <1>11 DEF ProtocolInv, TypeOK, LockInv, HandlerLoop
  <2>2. ControlInv'
    BY <1>11, Bits DEF ProtocolInv, TypeOK, LockInv, ControlInv, ControlAt, ThreadInv,
      HandlerInv, Awaited, Claimed, Suspending, Waiting, HandlerLoop
  <2>3. ThreadInv'
    BY <1>11, Bits DEF ProtocolInv, TypeOK, LockInv, ControlInv, ControlAt, ThreadInv,
      HandlerInv, Awaited, Claimed, Suspending, Waiting, InSyscallPCs, InUntrustedPCs,
      HandlerLoop
  <2>4. HandlerInv'
    BY <1>11, Bits DEF ProtocolInv, TypeOK, LockInv, ControlInv, ControlAt, ThreadInv,
      HandlerInv, Awaited, Claimed, Suspending, Waiting, InSyscallPCs, InUntrustedPCs,
      ThreadPCs, HandlerLoop
  <2>5. QED BY <2>1, <2>2, <2>3, <2>4
<1>12. CASE HandlerWait(t)
  <2>1. LockInv'
    BY <1>12 DEF ProtocolInv, TypeOK, LockInv, HandlerWait, FutexWait, WaitPoint
  <2>2. ControlInv'
    BY <1>12, Bits DEF ProtocolInv, TypeOK, LockInv, ControlInv, ControlAt, ThreadInv,
      HandlerInv, Awaited, Claimed, Suspending, Waiting, HandlerWait, FutexWait,
      WaitPoint
  <2>3. ThreadInv'
    BY <1>12, Bits DEF ProtocolInv, TypeOK, LockInv, ControlInv, ControlAt, ThreadInv,
      HandlerInv, Awaited, Claimed, Suspending, Waiting, InSyscallPCs, InUntrustedPCs,
      HandlerWait, FutexWait, WaitPoint
  <2>4. HandlerInv'
    BY <1>12, Bits DEF ProtocolInv, TypeOK, LockInv, ControlInv, ControlAt, ThreadInv,
      HandlerInv, Awaited, Claimed, Suspending, Waiting, InSyscallPCs, InUntrustedPCs,
      ThreadPCs, HandlerWait, FutexWait, WaitPoint
  <2>5. QED BY <2>1, <2>2, <2>3, <2>4
<1>13. CASE HandlerWaitReturn(t)
  <2>1. LockInv'
    BY <1>13 DEF ProtocolInv, TypeOK, LockInv, HandlerWaitReturn
  <2>2. ControlInv'
    BY <1>13, Bits DEF ProtocolInv, TypeOK, LockInv, ControlInv, ControlAt, ThreadInv,
      HandlerInv, Awaited, Claimed, Suspending, Waiting, HandlerWaitReturn
  <2>3. ThreadInv'
    BY <1>13, Bits DEF ProtocolInv, TypeOK, LockInv, ControlInv, ControlAt, ThreadInv,
      HandlerInv, Awaited, Claimed, Suspending, Waiting, InSyscallPCs, InUntrustedPCs,
      HandlerWaitReturn
  <2>4. HandlerInv'
    BY <1>13, Bits DEF ProtocolInv, TypeOK, LockInv, ControlInv, ControlAt, ThreadInv,
      HandlerInv, Awaited, Claimed, Suspending, Waiting, InSyscallPCs, InUntrustedPCs,
      ThreadPCs, HandlerWaitReturn
  <2>5. QED BY <2>1, <2>2, <2>3, <2>4
<1>14. CASE HandlerApply(t)
  <2>1. LockInv'
    BY <1>14 DEF ProtocolInv, TypeOK, LockInv, HandlerApply
  <2>2. ControlInv'
    BY <1>14, Bits DEF ProtocolInv, TypeOK, LockInv, ControlInv, ControlAt, ThreadInv,
      HandlerInv, Awaited, Claimed, Suspending, Waiting, HandlerApply
  <2>3. ThreadInv'
    BY <1>14, Bits DEF ProtocolInv, TypeOK, LockInv, ControlInv, ControlAt, ThreadInv,
      HandlerInv, Awaited, Claimed, Suspending, Waiting, InSyscallPCs, InUntrustedPCs,
      HandlerApply
  <2>4. HandlerInv'
    BY <1>14, Bits DEF ProtocolInv, TypeOK, LockInv, ControlInv, ControlAt, ThreadInv,
      HandlerInv, Awaited, Claimed, Suspending, Waiting, InSyscallPCs, InUntrustedPCs,
      ThreadPCs, HandlerApply
  <2>5. QED BY <2>1, <2>2, <2>3, <2>4
<1>15. QED
  BY <1>1, <1>2, <1>3, <1>4, <1>5, <1>6, <1>7, <1>8, <1>9, <1>10, <1>11, <1>12,
    <1>13, <1>14 DEF HandlerStep

\* Untrusted code, its syscalls and faults keep the invariant: none of them
\* touches suspend_state.
LEMMA EnvironmentStepInv ==
  ASSUME ProtocolInv, NEW t \in Threads, EnvironmentStep(t)
  PROVE  LockInv' /\ ControlInv' /\ ThreadInv' /\ HandlerInv'
<1>1. CASE NaClAppThreadSpawn(t)
  <2>1. LockInv'
    BY <1>1 DEF ProtocolInv, TypeOK, LockInv, NaClAppThreadSpawn, InOwnCode
  <2>2. ControlInv'
    BY <1>1, Bits DEF ProtocolInv, TypeOK, LockInv, ControlInv, ControlAt, ThreadInv,
      HandlerInv, Awaited, Claimed, Suspending, Waiting, NaClAppThreadSpawn, InOwnCode
  <2>3. ThreadInv'
    BY <1>1, Bits DEF ProtocolInv, TypeOK, LockInv, ControlInv, ControlAt, ThreadInv,
      HandlerInv, Awaited, Claimed, Suspending, Waiting, InSyscallPCs, InUntrustedPCs,
      NaClAppThreadSpawn, InOwnCode
  <2>4. HandlerInv'
    BY <1>1, Bits, SMTT(60) DEF ProtocolInv, TypeOK, LockInv, ControlInv, ControlAt,
       ThreadInv,
      HandlerInv, Awaited, Claimed, Suspending, Waiting, InSyscallPCs, InUntrustedPCs,
      ThreadPCs, NaClAppThreadSpawn, InOwnCode
  <2>5. QED BY <2>1, <2>2, <2>3, <2>4
<1>2. CASE UserStep(t)
  <2>1. LockInv'
    BY <1>2 DEF ProtocolInv, TypeOK, LockInv, UserStep, InOwnCode, UserRunning
  <2>2. ControlInv'
    BY <1>2, Bits DEF ProtocolInv, TypeOK, LockInv, ControlInv, ControlAt, ThreadInv,
      HandlerInv, Awaited, Claimed, Suspending, Waiting, UserStep, InOwnCode,
      UserRunning
  <2>3. ThreadInv'
    BY <1>2, Bits DEF ProtocolInv, TypeOK, LockInv, ControlInv, ControlAt, ThreadInv,
      HandlerInv, Awaited, Claimed, Suspending, Waiting, InSyscallPCs, InUntrustedPCs,
      UserStep, InOwnCode, UserRunning
  <2>4. HandlerInv'
    BY <1>2, Bits DEF ProtocolInv, TypeOK, LockInv, ControlInv, ControlAt, ThreadInv,
      HandlerInv, Awaited, Claimed, Suspending, Waiting, InSyscallPCs, InUntrustedPCs,
      ThreadPCs, UserStep, InOwnCode, UserRunning
  <2>5. QED BY <2>1, <2>2, <2>3, <2>4
<1>3. CASE Syscall(t)
  <2>1. LockInv'
    BY <1>3 DEF ProtocolInv, TypeOK, LockInv, Syscall, InOwnCode, UserRunning
  <2>2. ControlInv'
    BY <1>3, Bits DEF ProtocolInv, TypeOK, LockInv, ControlInv, ControlAt, ThreadInv,
      HandlerInv, Awaited, Claimed, Suspending, Waiting, Syscall, InOwnCode,
      UserRunning
  <2>3. ThreadInv'
    BY <1>3, Bits DEF ProtocolInv, TypeOK, LockInv, ControlInv, ControlAt, ThreadInv,
      HandlerInv, Awaited, Claimed, Suspending, Waiting, InSyscallPCs, InUntrustedPCs,
      Syscall, InOwnCode, UserRunning
  <2>4. HandlerInv'
    BY <1>3, Bits DEF ProtocolInv, TypeOK, LockInv, ControlInv, ControlAt, ThreadInv,
      HandlerInv, Awaited, Claimed, Suspending, Waiting, InSyscallPCs, InUntrustedPCs,
      ThreadPCs, Syscall, InOwnCode, UserRunning
  <2>5. QED BY <2>1, <2>2, <2>3, <2>4
<1>4. CASE Fault(t)
  <2>1. LockInv'
    BY <1>4 DEF ProtocolInv, TypeOK, LockInv, Fault, InOwnCode, UserRunning
  <2>2. ControlInv'
    BY <1>4, Bits DEF ProtocolInv, TypeOK, LockInv, ControlInv, ControlAt, ThreadInv,
      HandlerInv, Awaited, Claimed, Suspending, Waiting, Fault, InOwnCode, UserRunning
  <2>3. ThreadInv'
    BY <1>4, Bits DEF ProtocolInv, TypeOK, LockInv, ControlInv, ControlAt, ThreadInv,
      HandlerInv, Awaited, Claimed, Suspending, Waiting, InSyscallPCs, InUntrustedPCs,
      Fault, InOwnCode, UserRunning
  <2>4. HandlerInv'
    BY <1>4, Bits DEF ProtocolInv, TypeOK, LockInv, ControlInv, ControlAt, ThreadInv,
      HandlerInv, Awaited, Claimed, Suspending, Waiting, InSyscallPCs, InUntrustedPCs,
      ThreadPCs, Fault, InOwnCode, UserRunning
  <2>5. QED BY <2>1, <2>2, <2>3, <2>4
<1>5. CASE SyscallReturn(t)
  <2>1. LockInv'
    BY <1>5 DEF ProtocolInv, TypeOK, LockInv, SyscallReturn, InOwnCode
  <2>2. ControlInv'
    BY <1>5, Bits DEF ProtocolInv, TypeOK, LockInv, ControlInv, ControlAt, ThreadInv,
      HandlerInv, Awaited, Claimed, Suspending, Waiting, SyscallReturn, InOwnCode
  <2>3. ThreadInv'
    BY <1>5, Bits DEF ProtocolInv, TypeOK, LockInv, ControlInv, ControlAt, ThreadInv,
      HandlerInv, Awaited, Claimed, Suspending, Waiting, InSyscallPCs, InUntrustedPCs,
      SyscallReturn, InOwnCode
  <2>4. HandlerInv'
    BY <1>5, Bits DEF ProtocolInv, TypeOK, LockInv, ControlInv, ControlAt, ThreadInv,
      HandlerInv, Awaited, Claimed, Suspending, Waiting, InSyscallPCs, InUntrustedPCs,
      ThreadPCs, SyscallReturn, InOwnCode
  <2>5. QED BY <2>1, <2>2, <2>3, <2>4
<1>6. CASE SyscallExit(t)
  <2>1. LockInv'
    BY <1>6 DEF ProtocolInv, TypeOK, LockInv, SyscallExit, InOwnCode
  <2>2. ControlInv'
    BY <1>6, Bits DEF ProtocolInv, TypeOK, LockInv, ControlInv, ControlAt, ThreadInv,
      HandlerInv, Awaited, Claimed, Suspending, Waiting, SyscallExit, InOwnCode
  <2>3. ThreadInv'
    BY <1>6, Bits DEF ProtocolInv, TypeOK, LockInv, ControlInv, ControlAt, ThreadInv,
      HandlerInv, Awaited, Claimed, Suspending, Waiting, InSyscallPCs, InUntrustedPCs,
      SyscallExit, InOwnCode
  <2>4. HandlerInv'
    BY <1>6, Bits DEF ProtocolInv, TypeOK, LockInv, ControlInv, ControlAt, ThreadInv,
      HandlerInv, Awaited, Claimed, Suspending, Waiting, InSyscallPCs, InUntrustedPCs,
      ThreadPCs, SyscallExit, InOwnCode
  <2>5. QED BY <2>1, <2>2, <2>3, <2>4
<1>7. QED
  BY <1>1, <1>2, <1>3, <1>4, <1>5, <1>6 DEF EnvironmentStep

\* NaClUntrustedThreadSuspend() keeps the invariant: the state cannot change
\* between its compare and swap and its sanity check.
LEMMA SuspendStepInv ==
  ASSUME ProtocolInv, NEW c \in Controllers, SuspendStep(c)
  PROVE  LockInv' /\ ControlInv' /\ ThreadInv' /\ HandlerInv'
<1>1. CASE SuspendAllLoop(c)
  <2>1. LockInv'
    BY <1>1 DEF ProtocolInv, TypeOK, LockInv, SuspendAllLoop, Goto
  <2>2. ControlInv'
    BY <1>1, Bits DEF ProtocolInv, TypeOK, LockInv, ControlInv, ControlAt, ThreadInv,
      HandlerInv, Awaited, Claimed, Suspending, Waiting, SuspendAllLoop, Goto
  <2>3. ThreadInv'
    BY <1>1, Bits DEF ProtocolInv, TypeOK, LockInv, ControlInv, ControlAt, ThreadInv,
      HandlerInv, Awaited, Claimed, Suspending, Waiting, InSyscallPCs, InUntrustedPCs,
      SuspendAllLoop, Goto
  <2>4. HandlerInv'
    BY <1>1, Bits DEF ProtocolInv, TypeOK, LockInv, ControlInv, ControlAt, ThreadInv,
      HandlerInv, Awaited, Claimed, Suspending, Waiting, InSyscallPCs, InUntrustedPCs,
      ThreadPCs, SuspendAllLoop, Goto
  <2>5. QED BY <2>1, <2>2, <2>3, <2>4
<1>2. CASE SuspendRead(c)
  <2>1. LockInv'
    BY <1>2 DEF ProtocolInv, TypeOK, LockInv, SuspendRead, Goto
  <2>2. ControlInv'
    BY <1>2, Bits DEF ProtocolInv, TypeOK, LockInv, ControlInv, ControlAt, ThreadInv,
      HandlerInv, Awaited, Claimed, Suspending, Waiting, SuspendRead, Goto
  <2>3. ThreadInv'
    BY <1>2, Bits DEF ProtocolInv, TypeOK, LockInv, ControlInv, ControlAt, ThreadInv,
      HandlerInv, Awaited, Claimed, Suspending, Waiting, InSyscallPCs, InUntrustedPCs,
      SuspendRead, Goto
  <2>4. HandlerInv'
    BY <1>2, Bits DEF ProtocolInv, TypeOK, LockInv, ControlInv, ControlAt, ThreadInv,
      HandlerInv, Awaited, Claimed, Suspending, Waiting, InSyscallPCs, InUntrustedPCs,
      ThreadPCs, SuspendRead, Goto
  <2>5. QED BY <2>1, <2>2, <2>3, <2>4
<1>3. CASE SuspendCas(c)
  <2>1. LockInv'
    BY <1>3 DEF ProtocolInv, TypeOK, LockInv, SuspendCas, Goto
  <2>2. ControlInv'
    BY <1>3, Bits DEF ProtocolInv, TypeOK, LockInv, ControlInv, ControlAt, ThreadInv,
      HandlerInv, Awaited, Claimed, Suspending, Waiting, SuspendCas, Goto
  <2>3. ThreadInv'
    BY <1>3, Bits, SMTT(60) DEF ProtocolInv, TypeOK, LockInv, ControlInv, ControlAt,
       ThreadInv,
      HandlerInv, Awaited, Claimed, Suspending, Waiting, InSyscallPCs, InUntrustedPCs,
      SuspendCas, Goto
  <2>4. HandlerInv'
    BY <1>3, Bits, SMTT(60) DEF ProtocolInv, TypeOK, LockInv, ControlInv, ControlAt,
       ThreadInv,
      HandlerInv, Awaited, Claimed, Suspending, Waiting, InSyscallPCs, InUntrustedPCs,
      ThreadPCs, SuspendCas, Goto
  <2>5. QED BY <2>1, <2>2, <2>3, <2>4
<1>4. CASE SuspendCheck(c)
  <2>1. LockInv'
    BY <1>4 DEF ProtocolInv, TypeOK, LockInv, SuspendCheck, Goto
  <2>2. ControlInv'
    BY <1>4, Bits, SMTT(60) DEF ProtocolInv, TypeOK, LockInv, ControlInv, ControlAt,
       ThreadInv,
      HandlerInv, Awaited, Claimed, Suspending, Waiting, SuspendCheck, Goto
  <2>3. ThreadInv'
    <3> DEFINE u == cur[c]
    <3>1. threads_mu = c /\ cpc[c] = "scheck" /\ c \in Controllers
      BY <1>4 DEF ProtocolInv, LockInv, SuspendCheck
    <3>2. /\ old_state[c] \in {UNTRUSTED, TRUSTED}
          /\ suspend_state[u] = SetBit(old_state[c], SUSPENDING)
          /\ u \in Threads
      BY <3>1 DEF ProtocolInv, TypeOK, ControlInv, ControlAt
    <3>3. /\ UNCHANGED <<suspend_state, pc, threads, threads_mu, cur>>
          /\ \A d \in Controllers \ {c} : held'[d] = held[d]
          /\ \/ held'[c] = held[c] /\ cpc'[c] = "kill"
             \/ /\ held'[c] = held[c] \cup {u} /\ cpc'[c] = "loop"
                /\ suspend_state[u] = TRUSTED + SUSPENDING
      BY <1>4, <3>1, <3>2, Bits DEF ProtocolInv, TypeOK, SuspendCheck, Goto, lvars
    <3>4. ASSUME NEW x \in Threads, Claimed(x)
          PROVE  Claimed(x)'
      BY <3>1, <3>3, <3>4 DEF Claimed, Suspending
    <3>5. ASSUME NEW x \in Threads, NEW d \in Controllers, x \in held'[d]
          PROVE  suspend_state[x] \in {SuspendedState, TRUSTED + SUSPENDING}
      BY <3>1, <3>3, <3>5 DEF ProtocolInv, ThreadInv
    <3>6. QED BY <3>3, <3>4, <3>5 DEF ProtocolInv, ThreadInv
  <2>4. HandlerInv'
    BY <1>4, Bits DEF ProtocolInv, TypeOK, LockInv, ControlInv, ControlAt, ThreadInv,
      HandlerInv, Awaited, Claimed, Suspending, Waiting, InSyscallPCs, InUntrustedPCs,
      ThreadPCs, SuspendCheck, Goto
  <2>5. QED BY <2>1, <2>2, <2>3, <2>4
<1>5. CASE SuspendKill(c)
  <2>1. LockInv'
    BY <1>5 DEF ProtocolInv, TypeOK, LockInv, SuspendKill, Goto
  <2>2. ControlInv'
    BY <1>5, Bits DEF ProtocolInv, TypeOK, LockInv, ControlInv, ControlAt, ThreadInv,
      HandlerInv, Awaited, Claimed, Suspending, Waiting, SuspendKill, Goto
  <2>3. ThreadInv'
    BY <1>5, Bits DEF ProtocolInv, TypeOK, LockInv, ControlInv, ControlAt, ThreadInv,
      HandlerInv, Awaited, Claimed, Suspending, Waiting, InSyscallPCs, InUntrustedPCs,
      SuspendKill, Goto
  <2>4. HandlerInv'
    BY <1>5, Bits DEF ProtocolInv, TypeOK, LockInv, ControlInv, ControlAt, ThreadInv,
      HandlerInv, Awaited, Claimed, Suspending, Waiting, InSyscallPCs, InUntrustedPCs,
      ThreadPCs, SuspendKill, Goto
  <2>5. QED BY <2>1, <2>2, <2>3, <2>4
<1>6. CASE WaitForUntrustedThreadToSuspend(c)
  <2>1. LockInv'
    BY <1>6 DEF ProtocolInv, TypeOK, LockInv, WaitForUntrustedThreadToSuspend, Goto
  <2>2. ControlInv'
    BY <1>6, Bits DEF ProtocolInv, TypeOK, LockInv, ControlInv, ControlAt, ThreadInv,
      HandlerInv, Awaited, Claimed, Suspending, Waiting,
      WaitForUntrustedThreadToSuspend, Goto
  <2>3. ThreadInv'
    BY <1>6, WaitInv
  <2>4. HandlerInv'
    BY <1>6, Bits DEF ProtocolInv, TypeOK, LockInv, ControlInv, ControlAt, ThreadInv,
      HandlerInv, Awaited, Claimed, Suspending, Waiting, InSyscallPCs, InUntrustedPCs,
      ThreadPCs, WaitForUntrustedThreadToSuspend, Goto
  <2>5. QED BY <2>1, <2>2, <2>3, <2>4
<1>7. CASE SuspendWait(c)
  <2>1. LockInv'
    BY <1>7 DEF ProtocolInv, TypeOK, LockInv, SuspendWait, FutexWait, WaitPoint, Goto
  <2>2. ControlInv'
    BY <1>7, Bits DEF ProtocolInv, TypeOK, LockInv, ControlInv, ControlAt, ThreadInv,
      HandlerInv, Awaited, Claimed, Suspending, Waiting, SuspendWait, FutexWait,
      WaitPoint, Goto
  <2>3. ThreadInv'
    BY <1>7, Bits DEF ProtocolInv, TypeOK, LockInv, ControlInv, ControlAt, ThreadInv,
      HandlerInv, Awaited, Claimed, Suspending, Waiting, InSyscallPCs, InUntrustedPCs,
      SuspendWait, FutexWait, WaitPoint, Goto
  <2>4. HandlerInv'
    BY <1>7, Bits DEF ProtocolInv, TypeOK, LockInv, ControlInv, ControlAt, ThreadInv,
      HandlerInv, Awaited, Claimed, Suspending, Waiting, InSyscallPCs, InUntrustedPCs,
      ThreadPCs, SuspendWait, FutexWait, WaitPoint, Goto
  <2>5. QED BY <2>1, <2>2, <2>3, <2>4
<1>8. CASE SuspendWaitReturn(c)
  <2>1. LockInv'
    BY <1>8 DEF ProtocolInv, TypeOK, LockInv, SuspendWaitReturn, Goto
  <2>2. ControlInv'
    BY <1>8, Bits DEF ProtocolInv, TypeOK, LockInv, ControlInv, ControlAt, ThreadInv,
      HandlerInv, Awaited, Claimed, Suspending, Waiting, SuspendWaitReturn, Goto
  <2>3. ThreadInv'
    BY <1>8, Bits DEF ProtocolInv, TypeOK, LockInv, ControlInv, ControlAt, ThreadInv,
      HandlerInv, Awaited, Claimed, Suspending, Waiting, InSyscallPCs, InUntrustedPCs,
      SuspendWaitReturn, Goto
  <2>4. HandlerInv'
    BY <1>8, Bits DEF ProtocolInv, TypeOK, LockInv, ControlInv, ControlAt, ThreadInv,
      HandlerInv, Awaited, Claimed, Suspending, Waiting, InSyscallPCs, InUntrustedPCs,
      ThreadPCs, SuspendWaitReturn, Goto
  <2>5. QED BY <2>1, <2>2, <2>3, <2>4
<1>9. QED
  BY <1>1, <1>2, <1>3, <1>4, <1>5, <1>6, <1>7, <1>8 DEF SuspendStep

\* NaClUntrustedThreadResume() keeps the invariant: the thread is released at
\* the moment its flags are cleared.
LEMMA ResumeStepInv ==
  ASSUME ProtocolInv, NEW c \in Controllers, ResumeStep(c)
  PROVE  LockInv' /\ ControlInv' /\ ThreadInv' /\ HandlerInv'
<1>1. CASE ResumeAllLoop(c)
  <2>1. LockInv'
    BY <1>1, ConstantsDistinct, SMTT(60) DEF ProtocolInv, TypeOK, LockInv, ControlInv,
       ControlAt,
      ResumeAllLoop, Goto
  <2>2. ControlInv'
    BY <1>1, Bits, ConstantsDistinct DEF ProtocolInv, TypeOK, LockInv, ControlInv,
      ControlAt, ThreadInv, HandlerInv, Awaited, Claimed, Suspending, Waiting,
      ResumeAllLoop, Goto
  <2>3. ThreadInv'
    BY <1>1, Bits, ConstantsDistinct, SMTT(60) DEF ProtocolInv, TypeOK, LockInv,
       ControlInv,
      ControlAt, ThreadInv, HandlerInv, Awaited, Claimed, Suspending, Waiting,
      InSyscallPCs, InUntrustedPCs, ResumeAllLoop, Goto
  <2>4. HandlerInv'
    BY <1>1, Bits, ConstantsDistinct DEF ProtocolInv, TypeOK, LockInv, ControlInv,
      ControlAt, ThreadInv, HandlerInv, Awaited, Claimed, Suspending, Waiting,
      InSyscallPCs, InUntrustedPCs, ThreadPCs, ResumeAllLoop, Goto
  <2>5. QED BY <2>1, <2>2, <2>3, <2>4
<1>2. CASE ResumeRead(c)
  <2>1. LockInv'
    BY <1>2 DEF ProtocolInv, TypeOK, LockInv, ResumeRead, Goto
  <2>2. ControlInv'
    BY <1>2, Bits DEF ProtocolInv, TypeOK, LockInv, ControlInv, ControlAt, ThreadInv,
      HandlerInv, Awaited, Claimed, Suspending, Waiting, ResumeRead, Goto
  <2>3. ThreadInv'
    BY <1>2, Bits DEF ProtocolInv, TypeOK, LockInv, ControlInv, ControlAt, ThreadInv,
      HandlerInv, Awaited, Claimed, Suspending, Waiting, InSyscallPCs, InUntrustedPCs,
      ResumeRead, Goto
  <2>4. HandlerInv'
    BY <1>2, Bits DEF ProtocolInv, TypeOK, LockInv, ControlInv, ControlAt, ThreadInv,
      HandlerInv, Awaited, Claimed, Suspending, Waiting, InSyscallPCs, InUntrustedPCs,
      ThreadPCs, ResumeRead, Goto
  <2>5. QED BY <2>1, <2>2, <2>3, <2>4
<1>3. CASE ResumeCas(c)
  <2>1. LockInv'
    BY <1>3 DEF ProtocolInv, TypeOK, LockInv, ResumeCas, Goto
  <2>2. ControlInv'
    BY <1>3, ResumeCasInv
  <2>3. ThreadInv'
    BY <1>3, ResumeCasInv
  <2>4. HandlerInv'
    BY <1>3, Bits DEF ProtocolInv, TypeOK, LockInv, ControlInv, ControlAt, ThreadInv,
      HandlerInv, Awaited, Claimed, Suspending, Waiting, InSyscallPCs, InUntrustedPCs,
      ThreadPCs, ResumeCas, Goto
  <2>5. QED BY <2>1, <2>2, <2>3, <2>4
<1>4. CASE ResumeWake(c)
  <2>1. LockInv'
    BY <1>4 DEF ProtocolInv, TypeOK, LockInv, ResumeWake, FutexWake, Goto
  <2>2. ControlInv'
    BY <1>4, Bits DEF ProtocolInv, TypeOK, LockInv, ControlInv, ControlAt, ThreadInv,
      HandlerInv, Awaited, Claimed, Suspending, Waiting, ResumeWake, FutexWake, Goto
  <2>3. ThreadInv'
    BY <1>4, Bits DEF ProtocolInv, TypeOK, LockInv, ControlInv, ControlAt, ThreadInv,
      HandlerInv, Awaited, Claimed, Suspending, Waiting, InSyscallPCs, InUntrustedPCs,
      ResumeWake, FutexWake, Goto
  <2>4. HandlerInv'
    BY <1>4, Bits DEF ProtocolInv, TypeOK, LockInv, ControlInv, ControlAt, ThreadInv,
      HandlerInv, Awaited, Claimed, Suspending, Waiting, InSyscallPCs, InUntrustedPCs,
      ThreadPCs, ResumeWake, FutexWake, Goto
  <2>5. QED BY <2>1, <2>2, <2>3, <2>4
<1>5. QED
  BY <1>1, <1>2, <1>3, <1>4 DEF ResumeStep

\* The calls of a controller keep the invariant: each is made at a point where
\* it owns threads_mu, or takes it.
LEMMA CallerStepInv ==
  ASSUME ProtocolInv, NEW c \in Controllers, CallerStep(c)
  PROVE  LockInv' /\ ControlInv' /\ ThreadInv' /\ HandlerInv'
<1>1. CASE NaClUntrustedThreadsSuspendAll(c)
  <2>1. LockInv'
    BY <1>1, ConstantsDistinct DEF ProtocolInv, TypeOK, LockInv,
      NaClUntrustedThreadsSuspendAll, Goto
  <2>2. ControlInv'
    BY <1>1, Bits, ConstantsDistinct DEF ProtocolInv, TypeOK, LockInv, ControlInv,
      ControlAt, ThreadInv, HandlerInv, Awaited, Claimed, Suspending, Waiting,
      NaClUntrustedThreadsSuspendAll, Goto
  <2>3. ThreadInv'
    BY <1>1, Bits, ConstantsDistinct DEF ProtocolInv, TypeOK, LockInv, ControlInv,
      ControlAt, ThreadInv, HandlerInv, Awaited, Claimed, Suspending, Waiting,
      InSyscallPCs, InUntrustedPCs, NaClUntrustedThreadsSuspendAll, Goto
  <2>4. HandlerInv'
    BY <1>1, Bits, ConstantsDistinct DEF ProtocolInv, TypeOK, LockInv, ControlInv,
      ControlAt, ThreadInv, HandlerInv, Awaited, Claimed, Suspending, Waiting,
      InSyscallPCs, InUntrustedPCs, ThreadPCs, NaClUntrustedThreadsSuspendAll, Goto
  <2>5. QED BY <2>1, <2>2, <2>3, <2>4
<1>2. CASE NaClUntrustedThreadsResumeAll(c)
  <2>1. LockInv'
    BY <1>2 DEF ProtocolInv, TypeOK, LockInv, NaClUntrustedThreadsResumeAll, Goto
  <2>2. ControlInv'
    BY <1>2, Bits DEF ProtocolInv, TypeOK, LockInv, ControlInv, ControlAt, ThreadInv,
      HandlerInv, Awaited, Claimed, Suspending, Waiting,
      NaClUntrustedThreadsResumeAll, Goto
  <2>3. ThreadInv'
    BY <1>2, Bits DEF ProtocolInv, TypeOK, LockInv, ControlInv, ControlAt, ThreadInv,
      HandlerInv, Awaited, Claimed, Suspending, Waiting, InSyscallPCs, InUntrustedPCs,
      NaClUntrustedThreadsResumeAll, Goto
  <2>4. HandlerInv'
    BY <1>2, Bits DEF ProtocolInv, TypeOK, LockInv, ControlInv, ControlAt, ThreadInv,
      HandlerInv, Awaited, Claimed, Suspending, Waiting, InSyscallPCs, InUntrustedPCs,
      ThreadPCs, NaClUntrustedThreadsResumeAll, Goto
  <2>5. QED BY <2>1, <2>2, <2>3, <2>4
<1>3. CASE DrainFaultEvents(c)
  <2>1. LockInv'
    BY <1>3 DEF ProtocolInv, TypeOK, LockInv, DrainFaultEvents
  <2>2. ControlInv'
    BY <1>3, Bits DEF ProtocolInv, TypeOK, LockInv, ControlInv, ControlAt, ThreadInv,
      HandlerInv, Awaited, Claimed, Suspending, Waiting, DrainFaultEvents
  <2>3. ThreadInv'
    BY <1>3, Bits DEF ProtocolInv, TypeOK, LockInv, ControlInv, ControlAt, ThreadInv,
      HandlerInv, Awaited, Claimed, Suspending, Waiting, InSyscallPCs, InUntrustedPCs,
      DrainFaultEvents
  <2>4. HandlerInv'
    BY <1>3, Bits DEF ProtocolInv, TypeOK, LockInv, ControlInv, ControlAt, ThreadInv,
      HandlerInv, Awaited, Claimed, Suspending, Waiting, InSyscallPCs, InUntrustedPCs,
      ThreadPCs, DrainFaultEvents
  <2>5. QED BY <2>1, <2>2, <2>3, <2>4
<1>4. ASSUME NEW t \in Threads, NaClAppThreadUnblockIfFaulted(c, t)
      PROVE  LockInv' /\ ControlInv' /\ ThreadInv' /\ HandlerInv'
  <2>1. LockInv'
    BY <1>4 DEF ProtocolInv, TypeOK, LockInv, NaClAppThreadUnblockIfFaulted, Goto
  <2>2. ControlInv'
    BY <1>4, Bits DEF ProtocolInv, TypeOK, LockInv, ControlInv, ControlAt, ThreadInv,
      HandlerInv, Awaited, Claimed, Suspending, Waiting,
      NaClAppThreadUnblockIfFaulted, Goto
  <2>3. ThreadInv'
    BY <1>4, Bits DEF ProtocolInv, TypeOK, LockInv, ControlInv, ControlAt, ThreadInv,
      HandlerInv, Awaited, Claimed, Suspending, Waiting, InSyscallPCs, InUntrustedPCs,
      NaClAppThreadUnblockIfFaulted, Goto
  <2>4. HandlerInv'
    BY <1>4, Bits DEF ProtocolInv, TypeOK, LockInv, ControlInv, ControlAt, ThreadInv,
      HandlerInv, Awaited, Claimed, Suspending, Waiting, InSyscallPCs, InUntrustedPCs,
      ThreadPCs, NaClAppThreadUnblockIfFaulted, Goto
  <2>5. QED BY <2>1, <2>2, <2>3, <2>4
<1>5. ASSUME NEW t \in Threads, SuspendThread(c, t)
      PROVE  LockInv' /\ ControlInv' /\ ThreadInv' /\ HandlerInv'
  <2>1. LockInv'
    BY <1>5 DEF ProtocolInv, TypeOK, LockInv, SuspendThread, Goto
  <2>2. ControlInv'
    BY <1>5, Bits DEF ProtocolInv, TypeOK, LockInv, ControlInv, ControlAt, ThreadInv,
      HandlerInv, Awaited, Claimed, Suspending, Waiting, SuspendThread, Goto
  <2>3. ThreadInv'
    BY <1>5, Bits DEF ProtocolInv, TypeOK, LockInv, ControlInv, ControlAt, ThreadInv,
      HandlerInv, Awaited, Claimed, Suspending, Waiting, InSyscallPCs, InUntrustedPCs,
      SuspendThread, Goto
  <2>4. HandlerInv'
    BY <1>5, Bits DEF ProtocolInv, TypeOK, LockInv, ControlInv, ControlAt, ThreadInv,
      HandlerInv, Awaited, Claimed, Suspending, Waiting, InSyscallPCs, InUntrustedPCs,
      ThreadPCs, SuspendThread, Goto
  <2>5. QED BY <2>1, <2>2, <2>3, <2>4
<1>6. ASSUME NEW t \in Threads, NEW r \in Regs, ResumeThread(c, t, r)
      PROVE  LockInv' /\ ControlInv' /\ ThreadInv' /\ HandlerInv'
  <2>1. LockInv'
    BY <1>6 DEF ProtocolInv, TypeOK, LockInv, ResumeThread, Goto
  <2>2. ControlInv'
    BY <1>6, Bits DEF ProtocolInv, TypeOK, LockInv, ControlInv, ControlAt, ThreadInv,
      HandlerInv, Awaited, Claimed, Suspending, Waiting, ResumeThread, Goto
  <2>3. ThreadInv'
    BY <1>6, Bits DEF ProtocolInv, TypeOK, LockInv, ControlInv, ControlAt, ThreadInv,
      HandlerInv, Awaited, Claimed, Suspending, Waiting, InSyscallPCs, InUntrustedPCs,
      ResumeThread, Goto
  <2>4. HandlerInv'
    BY <1>6, Bits DEF ProtocolInv, TypeOK, LockInv, ControlInv, ControlAt, ThreadInv,
      HandlerInv, Awaited, Claimed, Suspending, Waiting, InSyscallPCs, InUntrustedPCs,
      ThreadPCs, ResumeThread, Goto
  <2>5. QED BY <2>1, <2>2, <2>3, <2>4
<1>7. ASSUME NEW t \in Threads, NEW r \in Regs, NaClAppThreadSetSuspendedRegisters(c,
   t, r)
      PROVE  LockInv' /\ ControlInv' /\ ThreadInv' /\ HandlerInv'
  <2>1. LockInv'
    BY <1>7 DEF ProtocolInv, TypeOK, LockInv, NaClAppThreadSetSuspendedRegisters
  <2>2. ControlInv'
    BY <1>7, Bits DEF ProtocolInv, TypeOK, LockInv, ControlInv, ControlAt, ThreadInv,
      HandlerInv, Awaited, Claimed, Suspending, Waiting,
      NaClAppThreadSetSuspendedRegisters
  <2>3. ThreadInv'
    BY <1>7, Bits DEF ProtocolInv, TypeOK, LockInv, ControlInv, ControlAt, ThreadInv,
      HandlerInv, Awaited, Claimed, Suspending, Waiting, InSyscallPCs, InUntrustedPCs,
      NaClAppThreadSetSuspendedRegisters
  <2>4. HandlerInv'
    BY <1>7, Bits DEF ProtocolInv, TypeOK, LockInv, ControlInv, ControlAt, ThreadInv,
      HandlerInv, Awaited, Claimed, Suspending, Waiting, InSyscallPCs, InUntrustedPCs,
      ThreadPCs, NaClAppThreadSetSuspendedRegisters
  <2>5. QED BY <2>1, <2>2, <2>3, <2>4
<1>8. QED
  BY <1>1, <1>2, <1>3, <1>4, <1>5, <1>6, <1>7 DEF CallerStep

\* A step that changes nothing keeps the invariant.
LEMMA StutterInv ==
  ASSUME ProtocolInv, UNCHANGED vars
  PROVE  ProtocolInv'
BY DEF ProtocolInv, TypeOK, LockInv, ControlInv, ControlAt, ThreadInv, HandlerInv,
   Awaited,
  Claimed, Suspending, Waiting, vars

\* The invariant holds before the first thread is spawned.
LEMMA InitProtocolInv == Init => ProtocolInv
<1> SUFFICES ASSUME Init PROVE ProtocolInv
  OBVIOUS
<1>1. TypeOK
  <2>1. (CHOOSE r \in Regs : TRUE) \in Regs
    BY ConstantsDistinct
  <2>2. user \in [Threads -> Contexts]
    BY <2>1 DEF Init, Contexts
  <2>3. /\ suspend_state \in [Threads -> SuspendStates]
        /\ state \in [Threads -> SuspendStates]
        /\ hstate \in [Threads -> SuspendStates]
        /\ old_state \in [Controllers -> SuspendStates]
    BY DEF Init, SuspendStates
  <2>4. /\ suspended_registers \in [Threads -> Contexts]
        /\ ctx \in [Threads -> Contexts]
    BY DEF Init, Contexts
  <2>5. /\ pc \in [Threads -> ThreadPCs]
        /\ fpc \in [Threads -> FaultPCs]
        /\ hpc \in [Threads -> HandlerPCs]
        /\ cpc \in [Controllers -> ControlPCs]
    BY DEF Init, ThreadPCs, FaultPCs, HandlerPCs, ControlPCs
  <2>6. /\ fault_signal \in [Threads -> BOOLEAN]
        /\ sig_pending \in [Threads -> BOOLEAN]
        /\ snap \in [Threads -> BOOLEAN]
        /\ save \in [Controllers -> BOOLEAN]
        /\ one \in [Controllers -> BOOLEAN]
        /\ fault_event \in BOOLEAN
    BY DEF Init
  <2>7. /\ futex \in [Threads -> SUBSET (Threads \cup Controllers)]
        /\ cur \in [Controllers -> Threads]
        /\ todo \in [Controllers -> SUBSET Threads]
        /\ held \in [Controllers -> SUBSET Threads]
        /\ faulted_thread_count \in Int
        /\ threads_mu \in Controllers \cup {None}
        /\ threads \in SUBSET Threads
    BY DEF Init
  <2>8. QED
    BY <2>2, <2>3, <2>4, <2>5, <2>6, <2>7 DEF TypeOK
<1>2. LockInv
  BY ConstantsDistinct DEF Init, LockInv
<1>3. ControlInv
  BY DEF Init, ControlInv, ControlAt, Suspending, Waiting
<1>4. ThreadInv /\ HandlerInv
  BY DEF Init, ThreadInv, HandlerInv, InSyscallPCs, InUntrustedPCs
<1>5. QED
  BY <1>1, <1>2, <1>3, <1>4 DEF ProtocolInv

\* Every step keeps the invariant.
LEMMA NextProtocolInv == ProtocolInv /\ [Next]_vars => ProtocolInv'
<1> SUFFICES ASSUME ProtocolInv, [Next]_vars PROVE ProtocolInv'
  OBVIOUS
<1>1. ASSUME NEW t \in Threads, TrustedStep(t) PROVE ProtocolInv'
  BY <1>1, TrustedStepType, TrustedStepInv DEF ProtocolInv
<1>2. ASSUME NEW t \in Threads, HandlerStep(t) PROVE ProtocolInv'
  BY <1>2, HandlerStepType, HandlerStepInv DEF ProtocolInv
<1>3. ASSUME NEW t \in Threads, EnvironmentStep(t) PROVE ProtocolInv'
  BY <1>3, EnvironmentStepType, EnvironmentStepInv DEF ProtocolInv
<1>4. ASSUME NEW c \in Controllers, SuspendStep(c) PROVE ProtocolInv'
  BY <1>4, SuspendStepType, SuspendStepInv DEF ProtocolInv
<1>5. ASSUME NEW c \in Controllers, ResumeStep(c) PROVE ProtocolInv'
  BY <1>5, ResumeStepType, ResumeStepInv DEF ProtocolInv
<1>6. ASSUME NEW c \in Controllers, CallerStep(c) PROVE ProtocolInv'
  BY <1>6, CallerStepType, CallerStepInv DEF ProtocolInv
<1>7. CASE UNCHANGED vars
  BY <1>7, StutterInv
<1>8. QED
  BY <1>1, <1>2, <1>3, <1>4, <1>5, <1>6, <1>7 DEF Next

\* ProtocolInv, with its type correctness, holds in every reachable state of the
\* protocol of linux/thread_suspension.c.
THEOREM ProtocolInvariance == Spec => []ProtocolInv
BY InitProtocolInv, NextProtocolInv, PTL DEF Spec

-----------------------------------------------------------------------------
(* What follows from the invariant.                                        *)

\* Every variable of the suspension protocol keeps its type.
THEOREM TypeCorrect == Spec => []TypeOK
<1>1. ProtocolInv => TypeOK BY DEF ProtocolInv
<1>2. QED BY <1>1, ProtocolInvariance, PTL

\* The invariant keeps every suspended thread out of untrusted code.
LEMMA HeldOut == ProtocolInv => HeldThreadsDoNotRun
<1> SUFFICES ASSUME ProtocolInv, NEW c \in Controllers, NEW t \in held[c]
             PROVE  ~UserRunning(t)
  BY DEF HeldThreadsDoNotRun
<1>1. t \in Threads /\ suspend_state[t] \in {6, 13}
  BY DEF ProtocolInv, TypeOK, ThreadInv
<1>2. CASE suspend_state[t] = 6
  BY <1>1, <1>2 DEF ProtocolInv, ThreadInv, UserRunning, InUntrustedPCs
<1>3. CASE suspend_state[t] = 13
  BY <1>1, <1>3 DEF ProtocolInv, HandlerInv, UserRunning, InOwnCode
<1>4. QED BY <1>1, <1>2, <1>3

\* A thread that NaClUntrustedThreadSuspend() has reported suspended executes
\* no untrusted code until NaClUntrustedThreadResume() releases it.
THEOREM SuspendedThreadsStayOut == Spec => []HeldThreadsDoNotRun
BY HeldOut, ProtocolInvariance, PTL

\* No LOG_FATAL, NaClAbort() or DCHECK of linux/thread_suspension.c is reached.
THEOREM SanityChecksHold == Spec => []NoSanityCheckFails
<1>1. ProtocolInv => NoSanityCheckFails
  BY DEF ProtocolInv, ThreadInv, HandlerInv, ControlInv, ControlAt, NoSanityCheckFails
<1>2. QED BY <1>1, ProtocolInvariance, PTL

\* The suspension API touches only registered threads, whose NaClAppThread
\* cannot be freed meanwhile.
THEOREM LiveThreadsOnly == Spec => []ControllerTouchesLiveThreads
<1>1. ProtocolInv => ControllerTouchesLiveThreads
  BY DEF ProtocolInv, TypeOK, ThreadInv, ControlInv, ControlAt,
     ControllerTouchesLiveThreads
<1>2. QED BY <1>1, ProtocolInvariance, PTL
-----------------------------------------------------------------------------
(* The refinement of UntrustedControl.                                     *)

\* A step of thread t that touches no other thread's control maps to Enter(t) or
\* Leave(t), or to no step: t is not stopped if it runs afterwards.
LEMMA ThreadMaps ==
  ASSUME HeldThreadsDoNotRun', NEW t \in Threads, UNCHANGED held,
         \A s \in Threads \ {t} : pc'[s] = pc[s] /\ fpc'[s] = fpc[s] /\ hpc'[s] = hpc[s]
  PROVE  UC!Next \/ UNCHANGED <<RunningThreads, StoppedThreads>>
<1>1. StoppedThreads' = StoppedThreads
  BY DEF StoppedThreads
<1>2. \A s \in Threads \ {t} : s \in RunningThreads' <=> s \in RunningThreads
  BY DEF RunningThreads, UserRunning, InOwnCode
<1>3. CASE t \in RunningThreads'
  <2>1. t \notin StoppedThreads
    BY <1>3 DEF HeldThreadsDoNotRun, RunningThreads, StoppedThreads
  <2>2. RunningThreads' = RunningThreads \cup {t}
    BY <1>2, <1>3 DEF RunningThreads
  <2>3. UC!Enter(t)
    BY <1>1, <2>1, <2>2 DEF UC!Enter
  <2>4. QED BY <2>3 DEF UC!Next
<1>4. CASE t \notin RunningThreads'
  <2>1. RunningThreads' = RunningThreads \ {t}
    BY <1>2, <1>4 DEF RunningThreads
  <2>2. UC!Leave(t)
    BY <1>1, <2>1 DEF UC!Leave
  <2>3. QED BY <2>2 DEF UC!Next
<1>5. QED BY <1>3, <1>4

\* A step of controller c, which owns threads_mu, maps to Stop(t) or Release(t)
\* of the thread it adds to or takes from its held set, or to no step.
LEMMA ControllerMaps ==
  ASSUME LockInv, HeldThreadsDoNotRun', NEW c \in Controllers,
         held \in [Controllers -> SUBSET Threads],
         UNCHANGED <<pc, fpc, hpc>>,
         \/ UNCHANGED held
         \/ \E t \in Threads : /\ cpc[c] # "idle"
                               /\ \/ held' = [held EXCEPT ![c] = @ \cup {t}]
                                  \/ held' = [held EXCEPT ![c] = @ \ {t}]
  PROVE  UC!Next \/ UNCHANGED <<RunningThreads, StoppedThreads>>
<1>1. RunningThreads' = RunningThreads
  BY DEF RunningThreads, UserRunning, InOwnCode
<1>2. CASE UNCHANGED held
  BY <1>1, <1>2 DEF StoppedThreads
<1>3. ASSUME NEW t \in Threads, cpc[c] # "idle", held' = [held EXCEPT ![c] = @ \cup {t}]
      PROVE  UC!Next
  <2>1. StoppedThreads' = StoppedThreads \cup {t}
    BY <1>3 DEF StoppedThreads
  <2>2. t \notin RunningThreads
    BY <1>1, <1>3 DEF HeldThreadsDoNotRun, RunningThreads
  <2>3. UC!Stop(t)
    BY <1>1, <2>1, <2>2 DEF UC!Stop
  <2>4. QED BY <2>3 DEF UC!Next
<1>4. ASSUME NEW t \in Threads, cpc[c] # "idle", held' = [held EXCEPT ![c] = @ \ {t}]
      PROVE  UC!Next
  <2>1. \A d \in Controllers \ {c} : held[d] = {}
    BY <1>4 DEF LockInv
  <2>2. StoppedThreads = held[c] /\ StoppedThreads' = held[c] \ {t}
    BY <1>4, <2>1 DEF StoppedThreads
  <2>3. UC!Release(t)
    BY <1>1, <2>2 DEF UC!Release
  <2>4. QED BY <2>3 DEF UC!Next
<1>5. QED BY <1>2, <1>3, <1>4

\* Entering and leaving untrusted code: EnterUntrusted is the step that matters.
LEMMA TrustedStepMaps ==
  ASSUME ProtocolInv, HeldThreadsDoNotRun', NEW t \in Threads, TrustedStep(t)
  PROVE  UC!Next \/ UNCHANGED <<RunningThreads, StoppedThreads>>
<1>1. CASE NaClAppThreadLauncher(t)
  BY <1>1, ThreadMaps DEF NaClAppThreadLauncher, ProtocolInv, TypeOK
<1>2. CASE ToUntrusted(t)
  BY <1>2, ThreadMaps DEF ToUntrusted, NaClAppThreadSetSuspendState, ProtocolInv, TypeOK
<1>3. CASE ToTrusted(t)
  BY <1>3, ThreadMaps DEF ToTrusted, NaClAppThreadSetSuspendState, ProtocolInv, TypeOK
<1>4. CASE StateWait(t)
  BY <1>4, ThreadMaps DEF StateWait, ProtocolInv, TypeOK
<1>5. CASE StateWaitReturn(t)
  BY <1>5, ThreadMaps DEF StateWaitReturn, ProtocolInv, TypeOK
<1>6. CASE EnterUntrusted(t)
  BY <1>6, ThreadMaps DEF EnterUntrusted, ProtocolInv, TypeOK
<1>7. CASE NaClAppThreadTeardown(t)
  BY <1>7, ThreadMaps DEF NaClAppThreadTeardown, ProtocolInv, TypeOK
<1>8. CASE NaClAppThreadDelete(t)
  BY <1>8, ThreadMaps DEF NaClAppThreadDelete, ProtocolInv, TypeOK
<1>9. QED
  BY <1>1, <1>2, <1>3, <1>4, <1>5, <1>6, <1>7, <1>8 DEF TrustedStep

\* The handlers: HandlerApply and FaultTest return to the interrupted code.
LEMMA HandlerStepMaps ==
  ASSUME ProtocolInv, HeldThreadsDoNotRun', NEW t \in Threads, HandlerStep(t)
  PROVE  UC!Next \/ UNCHANGED <<RunningThreads, StoppedThreads>>
<1>1. CASE FaultCount(t)
  BY <1>1, ThreadMaps DEF FaultCount, ProtocolInv, TypeOK
<1>2. CASE FireDebugStubEvent(t)
  BY <1>2, ThreadMaps DEF FireDebugStubEvent, ProtocolInv, TypeOK
<1>3. CASE FaultSigwait(t)
  BY <1>3, ThreadMaps DEF FaultSigwait, ProtocolInv, TypeOK
<1>4. CASE FaultTest(t)
  BY <1>4, ThreadMaps DEF FaultTest, ProtocolInv, TypeOK
<1>5. CASE DeliverSignal(t)
  BY <1>5, ThreadMaps DEF DeliverSignal, ProtocolInv, TypeOK
<1>6. CASE HandlerCheck(t)
  BY <1>6, ThreadMaps DEF HandlerCheck, ProtocolInv, TypeOK
<1>7. CASE HandlerSave(t)
  BY <1>7, ThreadMaps DEF HandlerSave, ProtocolInv, TypeOK
<1>8. CASE HandlerRead(t)
  BY <1>8, ThreadMaps DEF HandlerRead, ProtocolInv, TypeOK
<1>9. CASE HandlerWrite(t)
  BY <1>9, ThreadMaps DEF HandlerWrite, ProtocolInv, TypeOK
<1>10. CASE HandlerWake(t)
  BY <1>10, ThreadMaps DEF HandlerWake, ProtocolInv, TypeOK
<1>11. CASE HandlerLoop(t)
  BY <1>11, ThreadMaps DEF HandlerLoop, ProtocolInv, TypeOK
<1>12. CASE HandlerWait(t)
  BY <1>12, ThreadMaps DEF HandlerWait, ProtocolInv, TypeOK
<1>13. CASE HandlerWaitReturn(t)
  BY <1>13, ThreadMaps DEF HandlerWaitReturn, ProtocolInv, TypeOK
<1>14. CASE HandlerApply(t)
  BY <1>14, ThreadMaps DEF HandlerApply, ProtocolInv, TypeOK
<1>15. QED
BY <1>1, <1>2, <1>3, <1>4, <1>5, <1>6, <1>7, <1>8, <1>9, <1>10, <1>11, <1>12, <1>13,
   <1>14
    DEF HandlerStep

\* A syscall or a fault leaves untrusted code.
LEMMA EnvironmentStepMaps ==
  ASSUME ProtocolInv, HeldThreadsDoNotRun', NEW t \in Threads, EnvironmentStep(t)
  PROVE  UC!Next \/ UNCHANGED <<RunningThreads, StoppedThreads>>
<1>1. CASE NaClAppThreadSpawn(t)
  BY <1>1, ThreadMaps DEF NaClAppThreadSpawn, ProtocolInv, TypeOK
<1>2. CASE UserStep(t)
  BY <1>2, ThreadMaps DEF UserStep, ProtocolInv, TypeOK
<1>3. CASE Syscall(t)
  BY <1>3, ThreadMaps DEF Syscall, ProtocolInv, TypeOK
<1>4. CASE Fault(t)
  BY <1>4, ThreadMaps DEF Fault, ProtocolInv, TypeOK
<1>5. CASE SyscallReturn(t)
  BY <1>5, ThreadMaps DEF SyscallReturn, ProtocolInv, TypeOK
<1>6. CASE SyscallExit(t)
  BY <1>6, ThreadMaps DEF SyscallExit, ProtocolInv, TypeOK
<1>7. QED
  BY <1>1, <1>2, <1>3, <1>4, <1>5, <1>6 DEF EnvironmentStep

\* SuspendCheck and WaitForUntrustedThreadToSuspend stop a thread.
LEMMA SuspendStepMaps ==
  ASSUME ProtocolInv, HeldThreadsDoNotRun', NEW c \in Controllers, SuspendStep(c)
  PROVE  UC!Next \/ UNCHANGED <<RunningThreads, StoppedThreads>>
<1>1. CASE SuspendAllLoop(c)
  BY <1>1, ControllerMaps DEF SuspendAllLoop, Goto, ProtocolInv, TypeOK
<1>2. CASE SuspendRead(c)
  BY <1>2, ControllerMaps DEF SuspendRead, Goto, ProtocolInv, TypeOK
<1>3. CASE SuspendCas(c)
  BY <1>3, ControllerMaps DEF SuspendCas, Goto, ProtocolInv, TypeOK
<1>4. CASE SuspendCheck(c)
  BY <1>4, ControllerMaps DEF SuspendCheck, Goto, ProtocolInv, TypeOK
<1>5. CASE SuspendKill(c)
  BY <1>5, ControllerMaps DEF SuspendKill, Goto, ProtocolInv, TypeOK
<1>6. CASE WaitForUntrustedThreadToSuspend(c)
  BY <1>6, ControllerMaps DEF WaitForUntrustedThreadToSuspend, Goto, ProtocolInv, TypeOK
<1>7. CASE SuspendWait(c)
  BY <1>7, ControllerMaps DEF SuspendWait, Goto, ProtocolInv, TypeOK
<1>8. CASE SuspendWaitReturn(c)
  BY <1>8, ControllerMaps DEF SuspendWaitReturn, Goto, ProtocolInv, TypeOK
<1>9. QED
  BY <1>1, <1>2, <1>3, <1>4, <1>5, <1>6, <1>7, <1>8 DEF SuspendStep

\* The compare and swap of NaClUntrustedThreadResume() releases a thread.
LEMMA ResumeStepMaps ==
  ASSUME ProtocolInv, HeldThreadsDoNotRun', NEW c \in Controllers, ResumeStep(c)
  PROVE  UC!Next \/ UNCHANGED <<RunningThreads, StoppedThreads>>
<1>1. CASE ResumeAllLoop(c)
  BY <1>1, ControllerMaps DEF ResumeAllLoop, Goto, ProtocolInv, TypeOK
<1>2. CASE ResumeRead(c)
  BY <1>2, ControllerMaps DEF ResumeRead, Goto, ProtocolInv, TypeOK
<1>3. CASE ResumeCas(c)
  BY <1>3, ControllerMaps DEF ResumeCas, Goto, ProtocolInv, TypeOK
<1>4. CASE ResumeWake(c)
  BY <1>4, ControllerMaps DEF ResumeWake, Goto, ProtocolInv, TypeOK
<1>5. QED
  BY <1>1, <1>2, <1>3, <1>4 DEF ResumeStep

\* The calls themselves stop and release nobody.
LEMMA CallerStepMaps ==
  ASSUME ProtocolInv, HeldThreadsDoNotRun', NEW c \in Controllers, CallerStep(c)
  PROVE  UC!Next \/ UNCHANGED <<RunningThreads, StoppedThreads>>
<1>1. CASE NaClUntrustedThreadsSuspendAll(c)
  BY <1>1, ControllerMaps DEF NaClUntrustedThreadsSuspendAll, Goto, ProtocolInv, TypeOK
<1>2. CASE NaClUntrustedThreadsResumeAll(c)
  BY <1>2, ControllerMaps DEF NaClUntrustedThreadsResumeAll, Goto, ProtocolInv, TypeOK
<1>3. CASE DrainFaultEvents(c)
  BY <1>3, ControllerMaps DEF DrainFaultEvents, ProtocolInv, TypeOK
<1>4. ASSUME NEW t \in Threads, NaClAppThreadUnblockIfFaulted(c, t)
      PROVE  UC!Next \/ UNCHANGED <<RunningThreads, StoppedThreads>>
  BY <1>4, ControllerMaps DEF NaClAppThreadUnblockIfFaulted, Goto, ProtocolInv, TypeOK
<1>5. ASSUME NEW t \in Threads, SuspendThread(c, t)
      PROVE  UC!Next \/ UNCHANGED <<RunningThreads, StoppedThreads>>
  BY <1>5, ControllerMaps DEF SuspendThread, Goto, ProtocolInv, TypeOK
<1>6. ASSUME NEW t \in Threads, NEW r \in Regs, ResumeThread(c, t, r)
      PROVE  UC!Next \/ UNCHANGED <<RunningThreads, StoppedThreads>>
  BY <1>6, ControllerMaps DEF ResumeThread, Goto, ProtocolInv, TypeOK
<1>7. ASSUME NEW t \in Threads, NEW r \in Regs, NaClAppThreadSetSuspendedRegisters(c,
   t, r)
      PROVE  UC!Next \/ UNCHANGED <<RunningThreads, StoppedThreads>>
  BY <1>7, ControllerMaps DEF NaClAppThreadSetSuspendedRegisters, ProtocolInv, TypeOK
<1>8. QED
  BY <1>1, <1>2, <1>3, <1>4, <1>5, <1>6, <1>7 DEF CallerStep

\* Every step of the protocol is a step of the abstract specification or none.
LEMMA NextMaps ==
  ASSUME ProtocolInv, HeldThreadsDoNotRun', [Next]_vars
  PROVE  [UC!Next]_<<RunningThreads, StoppedThreads>>
<1>1. ASSUME NEW t \in Threads, TrustedStep(t) \/ HandlerStep(t) \/ EnvironmentStep(t)
      PROVE  UC!Next \/ UNCHANGED <<RunningThreads, StoppedThreads>>
  BY <1>1, TrustedStepMaps, HandlerStepMaps, EnvironmentStepMaps
<1>2. ASSUME NEW c \in Controllers, SuspendStep(c) \/ ResumeStep(c) \/ CallerStep(c)
      PROVE  UC!Next \/ UNCHANGED <<RunningThreads, StoppedThreads>>
  BY <1>2, SuspendStepMaps, ResumeStepMaps, CallerStepMaps
<1>3. CASE UNCHANGED vars
  BY <1>3 DEF vars, RunningThreads, StoppedThreads, UserRunning, InOwnCode
<1>4. QED BY <1>1, <1>2, <1>3 DEF Next

\* linux/thread_suspension.c implements the promise of thread_suspension.h: no
\* thread enters untrusted code while it is suspended, and none is reported
\* suspended while it executes untrusted code.
THEOREM Refinement == Spec => ImplementsUntrustedControl
<1>1. Init => UC!Init
  BY DEF Init, UC!Init, RunningThreads, StoppedThreads, UserRunning
<1>2. HeldThreadsDoNotRun' /\ ProtocolInv /\ [Next]_vars
        => [UC!Next]_<<RunningThreads, StoppedThreads>>
  BY NextMaps
<1>3. QED
  BY <1>1, <1>2, SuspendedThreadsStayOut, ProtocolInvariance, PTL
    DEF Spec, ImplementsUntrustedControl, UC!Spec
=============================================================================
