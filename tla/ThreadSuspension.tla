-------------------------- MODULE ThreadSuspension --------------------------
(***************************************************************************)
(* Thread suspension in the service runtime (linux/thread_suspension.c and *)
(* thread_suspension_common.c), with the thread life cycle of              *)
(* nacl_app_thread.c and the syscall entry and exit of                     *)
(* nacl_syscall_hook.c that drive it.                                      *)
(*                                                                         *)
(* Every access to shared memory (natp->suspend_state and the futex queue  *)
(* on it, natp->suspended_registers, natp->fault_signal, threads_mu) is a  *)
(* step of its own.  A thread has three nested levels of control: its      *)
(* ordinary code (pc), the fault handler (fpc) and the suspend handler     *)
(* (hpc); an outer level does not move while an inner one is active.       *)
(* A controller is a caller of the suspension API, e.g. the debug stub.    *)
(***************************************************************************)
EXTENDS Integers, FiniteSets

CONSTANTS
  Threads,       \* NaClAppThread objects (slots that may be reused)
  Controllers,   \* callers of the suspension API
  Regs,          \* values of the untrusted register file
  Trusted,       \* a register file captured while in trusted code
  Garbage,       \* the content of a freshly malloc()ed register struct
  Null,          \* the NULL suspended_registers pointer
  None           \* threads_mu is free

ASSUME ConstantsDistinct ==
  /\ IsFiniteSet(Threads) /\ Threads # {}
  /\ Regs # {}
  /\ Trusted \notin Regs /\ Garbage \notin Regs /\ Null \notin Regs
  /\ Trusted # Garbage /\ Trusted # Null /\ Garbage # Null
  /\ None \notin Controllers
  /\ Threads \cap Controllers = {}

VARIABLES
  suspend_state,        \* natp->suspend_state
  suspended_registers,  \* natp->suspended_registers: Null or the content
  fault_signal,         \* natp->fault_signal # 0
  user,                 \* natp->user: the registers saved at syscall entry
  faulted_thread_count, \* nap->faulted_thread_count
  fault_event,          \* the faulted-thread pipe is not empty
  threads_mu,           \* owner of nap->threads_mu, or None
  threads,              \* nap->threads: the registered threads
  futex,                \* kernel queue of waiters on &natp->suspend_state
  sig_pending,          \* NACL_THREAD_SUSPEND_SIGNAL is pending
  ctx,                  \* the machine registers of the thread's own code
  pc, state,            \* control point and local `state' of the thread's code
  fpc,                  \* control point in HandleUntrustedFault()
  hpc, hstate, snap,    \* HandleSuspendSignal(): control point, local `state',
                        \* and whether the pointer read at entry is not NULL
  cpc, cur, old_state,  \* controller: control point, natp, local old_state
  todo,                 \* threads its SuspendAll/ResumeAll loop has not reached
  held,                 \* threads it has suspended and not yet resumed
  save, one             \* save_registers; Resume() of one thread, not of all

tvars == <<suspend_state, suspended_registers, fault_signal, user, ctx>>
fvars == <<faulted_thread_count, fault_event>>
hvars == <<hpc, hstate, snap>>
cvars == <<cpc, cur, old_state, todo, held, save, one>>
lvars == <<threads_mu, threads>>
svars == <<sig_pending, fpc, hvars>>
xvars == <<suspended_registers, fault_signal, user, ctx>>
world == <<tvars, fvars, lvars, futex, svars, pc, state>>
vars  == <<tvars, fvars, lvars, futex, sig_pending, pc, state, fpc, hvars, cvars>>

-----------------------------------------------------------------------------
(* enum NaClSuspendState: a bit mask.                                      *)

UNTRUSTED  == 1
TRUSTED    == 2
SUSPENDING == 4
SUSPENDED  == 8

Has(s, bit)    == (s \div bit) % 2 = 1
SetBit(s, bit) == IF Has(s, bit) THEN s ELSE s + bit
\* Mutants: one flag is forgotten; both are subtracted whether set or not.
ClearSuspendedOnly(s) == IF Has(s, SUSPENDED) THEN s - SUSPENDED ELSE s
ClearBySubtraction(s) == s - (SUSPENDING + SUSPENDED)

ClearBits(s)   == LET r == IF Has(s, SUSPENDED) THEN s - SUSPENDED ELSE s
                  IN  IF Has(r, SUSPENDING) THEN r - SUSPENDING ELSE r

\* A thread that has been asked to suspend, and one that has done so.
kBaseState     == UNTRUSTED + SUSPENDING
SuspendedState == kBaseState + SUSPENDED

SuspendStates == 0 .. 15
Contexts      == Regs \cup {Trusted, Garbage, Null}

ThreadPCs  == {"none", "launch", "toU", "toUwait", "toUblk", "enter", "user",
               "toT", "toTwait", "toTblk", "sys", "exit", "del", "fatal"}
FaultPCs   == {"none", "count", "event", "sigwait", "suspend", "test", "fatal"}
HandlerPCs == {"none", "check", "save", "read", "write", "wake", "loop",
               "wait", "blk", "apply", "abort"}
ControlPCs == {"idle", "loop", "sread", "scas", "scheck", "kill", "wread",
               "wwait", "wblk", "stopped", "rloop", "rread", "rcas", "rwake",
               "fatal"}

Init ==
  /\ suspend_state = [t \in Threads |-> TRUSTED]
  /\ suspended_registers = [t \in Threads |-> Null]
  /\ fault_signal = [t \in Threads |-> FALSE]
  /\ user = [t \in Threads |-> CHOOSE r \in Regs : TRUE]
  /\ faulted_thread_count = 0
  /\ fault_event = FALSE
  /\ threads_mu = None
  /\ threads = {}
  /\ futex = [t \in Threads |-> {}]
  /\ sig_pending = [t \in Threads |-> FALSE]
  /\ ctx = [t \in Threads |-> Trusted]
  /\ pc = [t \in Threads |-> "none"]
  /\ state = [t \in Threads |-> TRUSTED]
  /\ fpc = [t \in Threads |-> "none"]
  /\ hpc = [t \in Threads |-> "none"]
  /\ hstate = [t \in Threads |-> TRUSTED]
  /\ snap = [t \in Threads |-> FALSE]
  /\ cpc = [c \in Controllers |-> "idle"]
  /\ cur \in [Controllers -> Threads]
  /\ old_state = [c \in Controllers |-> TRUSTED]
  /\ todo = [c \in Controllers |-> {}]
  /\ held = [c \in Controllers |-> {}]
  /\ save = [c \in Controllers |-> FALSE]
  /\ one = [c \in Controllers |-> FALSE]

-----------------------------------------------------------------------------
(* FutexWait(&natp->suspend_state, value) blocks only if the word still    *)
(* holds value, checked and queued atomically by the kernel.  FutexWake()  *)
(* takes at most one waiter off the queue; a waiter that is off the queue  *)
(* returns.                                                                *)

FutexWait(t, w, value) ==
  futex' = IF suspend_state[t] = value
           THEN [futex EXCEPT ![t] = @ \cup {w}]
           ELSE futex

\* Where the waiter is afterwards: blocked in the kernel, or back at once.
WaitPoint(t, value, blocked, returned) ==
  IF suspend_state[t] = value THEN blocked ELSE returned

\* Mutant: nobody is woken.
FutexWakeLost(t) == t \in Threads /\ UNCHANGED futex

FutexWake(t) ==
  IF futex[t] = {}
  THEN UNCHANGED futex
  ELSE \E w \in futex[t] : futex' = [futex EXCEPT ![t] = @ \ {w}]

-----------------------------------------------------------------------------
(* The thread's own code.                                                  *)

\* No signal handler is on top of the thread's own code.
InOwnCode(t) == hpc[t] = "none" /\ fpc[t] = "none"

UserRunning(t) == pc[t] = "user" /\ InOwnCode(t)

\* NaClAppThreadSpawn() and NaClAppThreadMake(): a fresh NaClAppThread whose
\* host thread starts in NaClAppThreadLauncher().
NaClAppThreadSpawn(t) ==
  /\ pc[t] = "none"
  /\ pc' = [pc EXCEPT ![t] = "launch"]
  /\ suspend_state' = [suspend_state EXCEPT ![t] = TRUSTED]
  /\ suspended_registers' = [suspended_registers EXCEPT ![t] = Null]
  /\ fault_signal' = [fault_signal EXCEPT ![t] = FALSE]
  /\ \E r \in Regs : user' = [user EXCEPT ![t] = r]
  /\ UNCHANGED <<ctx, fvars, lvars, futex, svars, state, cvars>>

\* NaClAppThreadLauncher() registers the thread, with threads_mu held, and
\* goes on to switch to untrusted code.
NaClAppThreadLauncher(t) ==
  /\ pc[t] = "launch" /\ InOwnCode(t)
  /\ threads_mu = None
  /\ threads' = threads \cup {t}
  /\ pc' = [pc EXCEPT ![t] = "toU"]
  /\ UNCHANGED <<tvars, fvars, threads_mu, futex, svars, state, cvars>>

\* Mutant: a plain store instead of the compare and swap.
SetSuspendStateByStore(t, at, from, to, wait, done) ==
  /\ pc[t] = at /\ InOwnCode(t)
  /\ suspend_state' = [suspend_state EXCEPT ![t] = to]
  /\ pc' = [pc EXCEPT ![t] = done]
  /\ UNCHANGED <<xvars, fvars, lvars, futex, svars, state, cvars>>

\* One iteration of NaClAppThreadSetSuspendState(natp, from, to): the compare
\* and swap succeeds, or a suspension is in progress and the thread waits, or
\* the state is one the code considers impossible.
NaClAppThreadSetSuspendState(t, at, from, to, wait, done) ==
  /\ pc[t] = at /\ InOwnCode(t)
  /\ state' = [state EXCEPT ![t] = suspend_state[t]]
  /\ IF suspend_state[t] = from
     THEN /\ suspend_state' = [suspend_state EXCEPT ![t] = to]
          /\ pc' = [pc EXCEPT ![t] = done]
     ELSE /\ pc' = [pc EXCEPT ![t] = IF Has(suspend_state[t], SUSPENDING)
                                     THEN wait ELSE "fatal"]
          /\ UNCHANGED suspend_state
  /\ UNCHANGED <<xvars, fvars, lvars, futex, svars, cvars>>

ToUntrusted(t) ==
  NaClAppThreadSetSuspendState(t, "toU", TRUSTED, UNTRUSTED, "toUwait", "enter")
ToTrusted(t) ==
  NaClAppThreadSetSuspendState(t, "toT", UNTRUSTED, TRUSTED, "toTwait", "sys")

\* The FutexWait() of that loop, and its return (woken, or EINTR after a
\* signal), which retries the compare and swap.
StateWait(t) ==
  /\ InOwnCode(t)
  /\ FutexWait(t, t, state[t])
  /\ \/ /\ pc[t] = "toUwait"
        /\ pc' = [pc EXCEPT ![t] = WaitPoint(t, state[t], "toUblk", "toU")]
     \/ /\ pc[t] = "toTwait"
        /\ pc' = [pc EXCEPT ![t] = WaitPoint(t, state[t], "toTblk", "toT")]
  /\ UNCHANGED <<tvars, fvars, lvars, svars, state, cvars>>

StateWaitReturn(t) ==
  /\ InOwnCode(t)
  /\ t \notin futex[t]
  /\ \/ pc[t] = "toUblk" /\ pc' = [pc EXCEPT ![t] = "toU"]
     \/ pc[t] = "toTblk" /\ pc' = [pc EXCEPT ![t] = "toT"]
  /\ UNCHANGED <<tvars, fvars, lvars, futex, svars, state, cvars>>

\* NaClStartThreadInApp() and NaClSwitch() load natp->user.
EnterUntrusted(t) ==
  /\ pc[t] = "enter" /\ InOwnCode(t)
  /\ pc' = [pc EXCEPT ![t] = "user"]
  /\ ctx' = [ctx EXCEPT ![t] = user[t]]
  /\ UNCHANGED <<suspend_state, suspended_registers, fault_signal, user, fvars, lvars,
                 futex, svars, state, cvars>>

\* Untrusted code runs.
UserStep(t) ==
  /\ UserRunning(t)
  /\ \E r \in Regs \ {ctx[t]} : ctx' = [ctx EXCEPT ![t] = r]
  /\ UNCHANGED <<suspend_state, suspended_registers, fault_signal, user, fvars, lvars,
                 futex, svars, pc, state, cvars>>

\* Untrusted code calls a trampoline, which saves its registers in natp->user
\* and enters NaClSyscallCSegHook().
Syscall(t) ==
  /\ UserRunning(t)
  /\ pc' = [pc EXCEPT ![t] = "toT"]
  /\ user' = [user EXCEPT ![t] = ctx[t]]
  /\ ctx' = [ctx EXCEPT ![t] = Trusted]
  /\ UNCHANGED <<suspend_state, suspended_registers, fault_signal, fvars, lvars,
                 futex, svars, state, cvars>>

\* The handler of the syscall returns; natp->user.sysret is its result.
SyscallReturn(t) ==
  /\ pc[t] = "sys" /\ InOwnCode(t)
  /\ pc' = [pc EXCEPT ![t] = "toU"]
  /\ \E r \in Regs : user' = [user EXCEPT ![t] = r]
  /\ UNCHANGED <<suspend_state, suspended_registers, fault_signal, ctx, fvars, lvars,
                 futex, svars, state, cvars>>

\* NaClSysThreadExit() and NaClSysExit() call NaClAppThreadTeardown().
SyscallExit(t) ==
  /\ pc[t] = "sys" /\ InOwnCode(t)
  /\ pc' = [pc EXCEPT ![t] = "exit"]
  /\ UNCHANGED <<tvars, fvars, lvars, futex, svars, state, cvars>>

\* Mutant: the thread table is changed without threads_mu.
TeardownWithoutLock(t) ==
  /\ pc[t] = "exit" /\ InOwnCode(t)
  /\ threads' = threads \ {t}
  /\ pc' = [pc EXCEPT ![t] = "del"]
  /\ UNCHANGED <<tvars, fvars, threads_mu, futex, svars, state, cvars>>

NaClAppThreadTeardown(t) ==
  /\ pc[t] = "exit" /\ InOwnCode(t)
  /\ threads_mu = None
  /\ threads' = threads \ {t}
  /\ pc' = [pc EXCEPT ![t] = "del"]
  /\ UNCHANGED <<tvars, fvars, threads_mu, futex, svars, state, cvars>>

\* The object is freed; the slot may be used for another thread.
NaClAppThreadDelete(t) ==
  /\ pc[t] = "del" /\ InOwnCode(t)
  /\ pc' = [pc EXCEPT ![t] = "none"]
  /\ suspended_registers' = [suspended_registers EXCEPT ![t] = Null]
  /\ UNCHANGED <<suspend_state, fault_signal, user, ctx, fvars, lvars, futex, svars,
                 state, cvars>>

-----------------------------------------------------------------------------
(* HandleUntrustedFault().  The suspend signal is blocked in it and in the *)
(* suspend handler (sa_mask), except for the sigwait().                    *)

\* Untrusted code faults: natp->fault_signal is set.
Fault(t) ==
  /\ UserRunning(t)
  /\ IF Has(suspend_state[t], UNTRUSTED)
     THEN /\ fpc' = [fpc EXCEPT ![t] = "count"]
          /\ fault_signal' = [fault_signal EXCEPT ![t] = TRUE]
     ELSE /\ fpc' = [fpc EXCEPT ![t] = "fatal"]
          /\ UNCHANGED fault_signal
  /\ UNCHANGED <<suspend_state, suspended_registers, user, ctx, fvars, lvars, futex,
                 sig_pending, pc, state, hvars, cvars>>

FaultCount(t) ==
  /\ fpc[t] = "count"
  /\ fpc' = [fpc EXCEPT ![t] = "event"]
  /\ faulted_thread_count' = faulted_thread_count + 1
  /\ UNCHANGED <<tvars, fault_event, lvars, futex, sig_pending, pc, state, hvars,
                 cvars>>

FireDebugStubEvent(t) ==
  /\ fpc[t] = "event"
  /\ fpc' = [fpc EXCEPT ![t] = "sigwait"]
  /\ fault_event' = TRUE
  /\ UNCHANGED <<tvars, faulted_thread_count, lvars, futex, sig_pending, pc, state,
                 hvars, cvars>>

\* sigwait() consumes the signal and HandleSuspendSignal() is called.
FaultSigwait(t) ==
  /\ fpc[t] = "sigwait"
  /\ sig_pending[t]
  /\ sig_pending' = [sig_pending EXCEPT ![t] = FALSE]
  /\ fpc' = [fpc EXCEPT ![t] = "suspend"]
  /\ hpc' = [hpc EXCEPT ![t] = "check"]
  /\ snap' = [snap EXCEPT ![t] = suspended_registers[t] # Null]
  /\ UNCHANGED <<tvars, fvars, lvars, futex, pc, state, hstate, cvars>>

\* The condition of the do ... while loop.
FaultTest(t) ==
  /\ fpc[t] = "test"
  /\ fpc' = [fpc EXCEPT ![t] = IF fault_signal[t] THEN "sigwait" ELSE "none"]
  /\ UNCHANGED <<tvars, fvars, lvars, futex, sig_pending, pc, state, hvars, cvars>>

-----------------------------------------------------------------------------
(* HandleSuspendSignal().                                                  *)

\* The signal is delivered and interrupts whatever the thread is doing, a
\* blocked futex() included; the register pointer is read at entry.
DeliverSignal(t) ==
  /\ sig_pending[t] /\ InOwnCode(t)
  /\ sig_pending' = [sig_pending EXCEPT ![t] = FALSE]
  /\ futex' = [futex EXCEPT ![t] = @ \ {t}]
  /\ hpc' = [hpc EXCEPT ![t] = "check"]
  /\ snap' = [snap EXCEPT ![t] = suspended_registers[t] # Null]
  /\ UNCHANGED <<tvars, fvars, lvars, pc, state, fpc, hstate, cvars>>

\* The sanity check on suspend_state.
HandlerCheck(t) ==
  /\ hpc[t] = "check"
  /\ hpc' = [hpc EXCEPT ![t] = IF suspend_state[t] = kBaseState THEN "save" ELSE "abort"]
  /\ UNCHANGED <<tvars, fvars, lvars, futex, sig_pending, pc, state, fpc, hstate,
                 snap, cvars>>

\* Mutant: the registers are not saved.
HandlerSaveSkipped(t) ==
  /\ hpc[t] = "save"
  /\ hpc' = [hpc EXCEPT ![t] = "read"]
  /\ UNCHANGED <<tvars, fvars, lvars, futex, sig_pending, pc, state, fpc, hstate, snap, cvars>>

HandlerSave(t) ==
  /\ hpc[t] = "save"
  /\ hpc' = [hpc EXCEPT ![t] = "read"]
  /\ suspended_registers' = IF snap[t]
                            THEN [suspended_registers EXCEPT ![t] = ctx[t]]
                            ELSE suspended_registers
  /\ UNCHANGED <<suspend_state, fault_signal, user, ctx, fvars, lvars, futex,
                 sig_pending, pc, state, fpc, hstate, snap, cvars>>

\* natp->suspend_state |= NACL_APP_THREAD_SUSPENDED is a read and a write.
HandlerRead(t) ==
  /\ hpc[t] = "read"
  /\ hpc' = [hpc EXCEPT ![t] = "write"]
  /\ hstate' = [hstate EXCEPT ![t] = suspend_state[t]]
  /\ UNCHANGED <<tvars, fvars, lvars, futex, sig_pending, pc, state, fpc, snap,
                 cvars>>

HandlerWrite(t) ==
  /\ hpc[t] = "write"
  /\ hpc' = [hpc EXCEPT ![t] = "wake"]
  /\ suspend_state' = [suspend_state EXCEPT ![t] = SetBit(hstate[t], SUSPENDED)]
  /\ UNCHANGED <<xvars, fvars, lvars, futex, sig_pending, pc, state, fpc, hstate,
                 snap, cvars>>

HandlerWake(t) ==
  /\ hpc[t] = "wake"
  /\ hpc' = [hpc EXCEPT ![t] = "loop"]
  /\ FutexWake(t)
  /\ UNCHANGED <<tvars, fvars, lvars, sig_pending, pc, state, fpc, hstate, snap,
                 cvars>>

\* Mutant: the handler waits for the wrong condition.
HandlerLoopOnBaseState(t) ==
  /\ hpc[t] = "loop"
  /\ hstate' = [hstate EXCEPT ![t] = suspend_state[t]]
  /\ hpc' = [hpc EXCEPT ![t] = IF suspend_state[t] = kBaseState THEN "wait" ELSE "apply"]
  /\ UNCHANGED <<tvars, fvars, lvars, futex, sig_pending, pc, state, fpc, snap, cvars>>

\* The loop that waits until the thread is asked to resume.
HandlerLoop(t) ==
  /\ hpc[t] = "loop"
  /\ hstate' = [hstate EXCEPT ![t] = suspend_state[t]]
  /\ hpc' = [hpc EXCEPT ![t] = IF Has(suspend_state[t], SUSPENDED)
                               THEN "wait" ELSE "apply"]
  /\ UNCHANGED <<tvars, fvars, lvars, futex, sig_pending, pc, state, fpc, snap,
                 cvars>>

HandlerWait(t) ==
  /\ hpc[t] = "wait"
  /\ FutexWait(t, t, hstate[t])
  /\ hpc' = [hpc EXCEPT ![t] = WaitPoint(t, hstate[t], "blk", "loop")]
  /\ UNCHANGED <<tvars, fvars, lvars, sig_pending, pc, state, fpc, hstate, snap,
                 cvars>>

HandlerWaitReturn(t) ==
  /\ hpc[t] = "blk" /\ t \notin futex[t]
  /\ hpc' = [hpc EXCEPT ![t] = "loop"]
  /\ UNCHANGED <<tvars, fvars, lvars, futex, sig_pending, pc, state, fpc, hstate,
                 snap, cvars>>

\* Mutant: the pointer is read again, after the thread was asked to resume.
HandlerApplyRereads(t) ==
  /\ hpc[t] = "apply"
  /\ hpc' = [hpc EXCEPT ![t] = "none"]
  /\ fpc' = [fpc EXCEPT ![t] = IF @ = "suspend" THEN "test" ELSE @]
  /\ ctx' = IF suspended_registers[t] # Null
            THEN [ctx EXCEPT ![t] = suspended_registers[t]] ELSE ctx
  /\ UNCHANGED <<suspend_state, suspended_registers, fault_signal, user, fvars, lvars,
                 futex, sig_pending, pc, state, hstate, snap, cvars>>

\* Register modifications are applied through the pointer read at entry and
\* the handler returns, to the fault handler or to the interrupted code.
HandlerApply(t) ==
  /\ hpc[t] = "apply"
  /\ hpc' = [hpc EXCEPT ![t] = "none"]
  /\ fpc' = [fpc EXCEPT ![t] = IF @ = "suspend" THEN "test" ELSE @]
  /\ ctx' = IF snap[t] THEN [ctx EXCEPT ![t] = suspended_registers[t]] ELSE ctx
  /\ UNCHANGED <<suspend_state, suspended_registers, fault_signal, user, fvars, lvars,
                 futex, sig_pending, pc, state, hstate, snap, cvars>>

-----------------------------------------------------------------------------
(* The suspension API, as a controller calls it.                           *)

Goto(c, point) == cpc' = [cpc EXCEPT ![c] = point]

\* NaClUntrustedThreadsSuspendAll(nap, save_registers) takes threads_mu and
\* loops over the registered threads.
NaClUntrustedThreadsSuspendAll(c) ==
  /\ cpc[c] = "idle" /\ threads_mu = None
  /\ threads_mu' = c
  /\ todo' = [todo EXCEPT ![c] = threads]
  /\ \E b \in BOOLEAN : save' = [save EXCEPT ![c] = b]
  /\ Goto(c, "loop")
  /\ UNCHANGED <<tvars, fvars, threads, futex, svars, pc, state, cur, old_state, held,
                 one>>

SuspendAllLoop(c) ==
  /\ cpc[c] = "loop"
  /\ \/ /\ todo[c] = {}
        /\ Goto(c, "stopped")
        /\ UNCHANGED <<cur, todo>>
     \/ \E t \in todo[c] :
          /\ cur' = [cur EXCEPT ![c] = t]
          /\ todo' = [todo EXCEPT ![c] = @ \ {t}]
          /\ Goto(c, "sread")
  /\ UNCHANGED <<world, old_state, held, save, one>>

\* NaClUntrustedThreadSuspend(): read the state, with the DCHECK that no
\* suspension is under way ...
SuspendRead(c) ==
  /\ cpc[c] = "sread"
  /\ old_state' = [old_state EXCEPT ![c] = suspend_state[cur[c]]]
  /\ Goto(c, IF Has(suspend_state[cur[c]], SUSPENDING) THEN "fatal" ELSE "scas")
  /\ UNCHANGED <<world, cur, todo, held, save, one>>

\* ... set NACL_APP_THREAD_SUSPENDING with a compare and swap, retrying when
\* the thread changed its state meanwhile ...
SuspendCas(c) ==
  LET t == cur[c] IN
  /\ cpc[c] = "scas"
  /\ IF suspend_state[t] = old_state[c]
     THEN /\ suspend_state' = [suspend_state EXCEPT
                                 ![t] = SetBit(old_state[c], SUSPENDING)]
          /\ Goto(c, "scheck")
     ELSE /\ Goto(c, "sread")
          /\ UNCHANGED suspend_state
  /\ UNCHANGED <<xvars, fvars, lvars, futex, svars, pc, state, cur, old_state, todo,
                 held, save, one>>

\* Mutant: a thread in untrusted code is not signalled.
SuspendCheckWithoutSignal(c) ==
  LET t == cur[c] IN
  /\ cpc[c] = "scheck"
  /\ held' = [held EXCEPT ![c] = @ \cup {t}]
  /\ Goto(c, "loop")
  /\ UNCHANGED <<world, cur, old_state, todo, save, one>>

\* ... check that the thread did not change the state since, and, if it was in
\* untrusted code, allocate the register struct.  A thread in a syscall needs
\* no more: it will not return to untrusted code.
SuspendCheck(c) ==
  LET t == cur[c] IN
  /\ cpc[c] = "scheck"
  /\ \/ /\ suspend_state[t] # SetBit(old_state[c], SUSPENDING)
        /\ Goto(c, "fatal")
        /\ UNCHANGED <<suspended_registers, held>>
     \/ /\ suspend_state[t] = SetBit(old_state[c], SUSPENDING)
        /\ old_state[c] = UNTRUSTED
        /\ suspended_registers' = [suspended_registers EXCEPT
                                     ![t] = IF save[c] /\ @ = Null THEN Garbage ELSE @]
        /\ Goto(c, "kill")
        /\ UNCHANGED held
     \/ /\ suspend_state[t] = SetBit(old_state[c], SUSPENDING)
        /\ old_state[c] # UNTRUSTED
        /\ held' = [held EXCEPT ![c] = @ \cup {t}]
        /\ Goto(c, "loop")
        /\ UNCHANGED suspended_registers
  /\ UNCHANGED <<suspend_state, fault_signal, user, ctx, fvars, lvars, futex, svars,
                 pc, state, cur, old_state, todo, save, one>>

\* pthread_kill(NACL_THREAD_SUSPEND_SIGNAL).
SuspendKill(c) ==
  /\ cpc[c] = "kill"
  /\ sig_pending' = [sig_pending EXCEPT ![cur[c]] = TRUE]
  /\ Goto(c, "wread")
  /\ UNCHANGED <<tvars, fvars, lvars, futex, pc, state, fpc, hvars, cur, old_state,
                 todo, held, save, one>>

\* WaitForUntrustedThreadToSuspend().
WaitForUntrustedThreadToSuspend(c) ==
  LET t == cur[c] IN
  /\ cpc[c] = "wread"
  /\ \/ /\ suspend_state[t] = kBaseState
        /\ Goto(c, "wwait")
        /\ UNCHANGED held
     \/ /\ suspend_state[t] = SuspendedState
        /\ Goto(c, "loop")
        /\ held' = [held EXCEPT ![c] = @ \cup {t}]
     \/ /\ suspend_state[t] \notin {kBaseState, SuspendedState}
        /\ Goto(c, "fatal")
        /\ UNCHANGED held
  /\ UNCHANGED <<world, cur, old_state, todo, save, one>>

SuspendWait(c) ==
  /\ cpc[c] = "wwait"
  /\ FutexWait(cur[c], c, kBaseState)
  /\ Goto(c, WaitPoint(cur[c], kBaseState, "wblk", "wread"))
  /\ UNCHANGED <<tvars, fvars, lvars, svars, pc, state, cur, old_state, todo, held,
                 save, one>>

SuspendWaitReturn(c) ==
  /\ cpc[c] = "wblk" /\ c \notin futex[cur[c]]
  /\ Goto(c, "wread")
  /\ UNCHANGED <<world, cur, old_state, todo, held, save, one>>

\* Only a thread suspended in untrusted code, not in a syscall nor while it
\* switches, has its registers changed.  Valid after a save_registers suspension.
RegistersWritable(c, t) ==
  save[c] /\ Has(suspend_state[t], UNTRUSTED) /\ suspended_registers[t] # Trusted

NaClAppThreadSetSuspendedRegisters(c, t, r) ==
  /\ cpc[c] = "stopped" /\ t \in held[c]
  /\ RegistersWritable(c, t)
  /\ suspended_registers' = [suspended_registers EXCEPT ![t] = r]
  /\ UNCHANGED <<suspend_state, fault_signal, user, ctx, fvars, lvars, futex, svars,
                 pc, state, cvars>>

\* Mutant: the counter is not decremented.
UnblockWithoutCount(c, t) ==
  /\ cpc[c] = "stopped" /\ t \in held[c]
  /\ fault_signal[t]
  /\ fault_signal' = [fault_signal EXCEPT ![t] = FALSE]
  /\ UNCHANGED <<suspend_state, suspended_registers, user, ctx, fvars, lvars, futex,
                 svars, pc, state, cvars>>

\* NaClAppThreadUnblockIfFaulted() on a suspended thread.
NaClAppThreadUnblockIfFaulted(c, t) ==
  /\ cpc[c] = "stopped" /\ t \in held[c]
  /\ IF suspend_state[t] \in {SuspendedState, TRUSTED + SUSPENDING}
     THEN /\ fault_signal[t]
          /\ fault_signal' = [fault_signal EXCEPT ![t] = FALSE]
          /\ faulted_thread_count' = faulted_thread_count - 1
          /\ UNCHANGED cpc
     ELSE /\ Goto(c, "fatal")
          /\ UNCHANGED <<fault_signal, faulted_thread_count>>
  /\ UNCHANGED <<suspend_state, suspended_registers, user, ctx, fault_event, lvars,
                 futex, svars, pc, state, cur, old_state, todo, held, save, one>>

\* A caller may suspend again the one thread it had let run (the debug stub,
\* stepping over a breakpoint).
SuspendThread(c, t) ==
  /\ cpc[c] = "stopped" /\ t \in threads \ held[c]
  /\ cur' = [cur EXCEPT ![c] = t]
  /\ Goto(c, "sread")
  /\ UNCHANGED <<world, old_state, todo, held, save, one>>

\* Thread::ResumeThread() of the debug stub writes the registers back, r, and
\* calls NaClUntrustedThreadResume().
ResumeThread(c, t, r) ==
  /\ cpc[c] = "stopped" /\ held[c] = threads /\ t \in held[c]
  /\ suspended_registers' = IF RegistersWritable(c, t)
                            THEN [suspended_registers EXCEPT ![t] = r]
                            ELSE suspended_registers
  /\ cur' = [cur EXCEPT ![c] = t]
  /\ one' = [one EXCEPT ![c] = TRUE]
  /\ Goto(c, "rread")
  /\ UNCHANGED <<suspend_state, fault_signal, user, ctx, fvars, lvars, futex, svars,
                 pc, state, old_state, todo, held, save>>

\* NaClUntrustedThreadsResumeAll(), called with every thread suspended.
NaClUntrustedThreadsResumeAll(c) ==
  /\ cpc[c] = "stopped" /\ held[c] = threads
  /\ todo' = [todo EXCEPT ![c] = threads]
  /\ one' = [one EXCEPT ![c] = FALSE]
  /\ Goto(c, "rloop")
  /\ UNCHANGED <<world, cur, old_state, held, save>>

\* Mutant: the last iteration keeps threads_mu.
ResumeAllLoopKeepsLock(c) ==
  /\ cpc[c] = "rloop"
  /\ \/ todo[c] = {} /\ Goto(c, "idle") /\ UNCHANGED <<cur, todo>>
     \/ \E t \in todo[c] :
          /\ cur' = [cur EXCEPT ![c] = t]
          /\ todo' = [todo EXCEPT ![c] = @ \ {t}]
          /\ Goto(c, "rread")
  /\ UNCHANGED <<world, old_state, held, save, one>>

ResumeAllLoop(c) ==
  /\ cpc[c] = "rloop"
  /\ \/ /\ todo[c] = {}
        /\ threads_mu' = None
        /\ Goto(c, "idle")
        /\ UNCHANGED <<cur, todo>>
     \/ \E t \in todo[c] :
          /\ cur' = [cur EXCEPT ![c] = t]
          /\ todo' = [todo EXCEPT ![c] = @ \ {t}]
          /\ Goto(c, "rread")
          /\ UNCHANGED threads_mu
  /\ UNCHANGED <<tvars, fvars, threads, futex, svars, pc, state, old_state, held,
                 save, one>>

\* NaClUntrustedThreadResume(): read (with its DCHECK), compare and swap, wake.
ResumeRead(c) ==
  /\ cpc[c] = "rread"
  /\ old_state' = [old_state EXCEPT ![c] = suspend_state[cur[c]]]
  /\ Goto(c, IF Has(suspend_state[cur[c]], SUSPENDING) THEN "rcas" ELSE "fatal")
  /\ UNCHANGED <<world, cur, todo, held, save, one>>

ResumeCas(c) ==
  LET t == cur[c] IN
  /\ cpc[c] = "rcas"
  /\ IF suspend_state[t] = old_state[c]
     THEN /\ suspend_state' = [suspend_state EXCEPT ![t] = ClearBits(old_state[c])]
          /\ held' = [held EXCEPT ![c] = @ \ {t}]
          /\ Goto(c, "rwake")
     ELSE /\ Goto(c, "rread")
          /\ UNCHANGED <<suspend_state, held>>
  /\ UNCHANGED <<xvars, fvars, lvars, futex, svars, pc, state, cur, old_state, todo,
                 save, one>>

ResumeWake(c) ==
  /\ cpc[c] = "rwake"
  /\ FutexWake(cur[c])
  /\ Goto(c, IF one[c] THEN "stopped" ELSE "rloop")
  /\ UNCHANGED <<tvars, fvars, lvars, svars, pc, state, cur, old_state, todo, held,
                 save, one>>

\* A controller reads the pipe that announces faulted threads.
DrainFaultEvents(c) ==
  /\ cpc[c] = "idle" /\ fault_event
  /\ fault_event' = FALSE
  /\ UNCHANGED <<tvars, faulted_thread_count, lvars, futex, svars, pc, state, cvars>>

-----------------------------------------------------------------------------
\* What a thread does on its own account once it has been created: its
\* trusted code and its signal handlers.
TrustedStep(t) ==
  \/ NaClAppThreadLauncher(t)
  \/ ToUntrusted(t) \/ ToTrusted(t) \/ StateWait(t) \/ StateWaitReturn(t)
  \/ EnterUntrusted(t)
  \/ NaClAppThreadTeardown(t) \/ NaClAppThreadDelete(t)

HandlerStep(t) ==
  \/ FaultCount(t) \/ FireDebugStubEvent(t) \/ FaultSigwait(t) \/ FaultTest(t)
  \/ DeliverSignal(t)
  \/ HandlerCheck(t) \/ HandlerSave(t) \/ HandlerRead(t) \/ HandlerWrite(t)
  \/ HandlerWake(t) \/ HandlerLoop(t) \/ HandlerWait(t) \/ HandlerWaitReturn(t)
  \/ HandlerApply(t)

\* What the untrusted program, or the outside world, decides.
EnvironmentStep(t) ==
  \/ NaClAppThreadSpawn(t)
  \/ UserStep(t) \/ Syscall(t) \/ Fault(t)
  \/ SyscallReturn(t) \/ SyscallExit(t)

SuspendStep(c) ==
  \/ SuspendAllLoop(c) \/ SuspendRead(c) \/ SuspendCas(c) \/ SuspendCheck(c)
  \/ SuspendKill(c) \/ WaitForUntrustedThreadToSuspend(c)
  \/ SuspendWait(c) \/ SuspendWaitReturn(c)

ResumeStep(c) ==
  \/ ResumeAllLoop(c) \/ ResumeRead(c) \/ ResumeCas(c) \/ ResumeWake(c)

CallerStep(c) ==
  \/ NaClUntrustedThreadsSuspendAll(c)
  \/ NaClUntrustedThreadsResumeAll(c)
  \/ DrainFaultEvents(c)
  \/ \E t \in Threads :
       \/ NaClAppThreadUnblockIfFaulted(c, t)
       \/ SuspendThread(c, t)
       \/ \E r \in Regs :
            NaClAppThreadSetSuspendedRegisters(c, t, r) \/ ResumeThread(c, t, r)

Next ==
  \/ \E t \in Threads : TrustedStep(t) \/ HandlerStep(t) \/ EnvironmentStep(t)
  \/ \E c \in Controllers : SuspendStep(c) \/ ResumeStep(c) \/ CallerStep(c)

Spec == Init /\ [][Next]_vars

\* Host threads that can run do run: the kernel schedules them, delivers the
\* pending signal, and a call of the suspension API that has begun goes on.
\* Nothing is assumed of the untrusted program or of the API's callers.
Fairness ==
  /\ \A t \in Threads : WF_vars(TrustedStep(t)) /\ WF_vars(HandlerStep(t))
  /\ \A c \in Controllers : WF_vars(SuspendStep(c)) /\ WF_vars(ResumeStep(c))

FairSpec == Spec /\ Fairness

-----------------------------------------------------------------------------
(* Properties.                                                             *)

\* Every variable keeps its type.
TypeOK ==
  /\ suspend_state \in [Threads -> SuspendStates]
  /\ suspended_registers \in [Threads -> Contexts]
  /\ fault_signal \in [Threads -> BOOLEAN]
  /\ user \in [Threads -> Contexts]
  /\ faulted_thread_count \in Int
  /\ fault_event \in BOOLEAN
  /\ threads_mu \in Controllers \cup {None}
  /\ threads \in SUBSET Threads
  /\ futex \in [Threads -> SUBSET (Threads \cup Controllers)]
  /\ sig_pending \in [Threads -> BOOLEAN]
  /\ ctx \in [Threads -> Contexts]
  /\ pc \in [Threads -> ThreadPCs]
  /\ state \in [Threads -> SuspendStates]
  /\ fpc \in [Threads -> FaultPCs]
  /\ hpc \in [Threads -> HandlerPCs]
  /\ hstate \in [Threads -> SuspendStates]
  /\ snap \in [Threads -> BOOLEAN]
  /\ cpc \in [Controllers -> ControlPCs]
  /\ cur \in [Controllers -> Threads]
  /\ old_state \in [Controllers -> SuspendStates]
  /\ todo \in [Controllers -> SUBSET Threads]
  /\ held \in [Controllers -> SUBSET Threads]
  /\ save \in [Controllers -> BOOLEAN]
  /\ one \in [Controllers -> BOOLEAN]

\* A thread that the suspension API has reported suspended executes no
\* untrusted code until it is resumed ("ensures that any untrusted code is
\* temporarily suspended", thread_suspension.h).
HeldThreadsDoNotRun ==
  \A c \in Controllers : \A t \in held[c] : ~UserRunning(t)

\* None of the sanity checks of the protocol (LOG_FATAL, NaClAbort, DCHECK) can
\* fail: a CAS loop sees no impossible state, the signal is only handled in a
\* requested suspension, no one else changes suspend_state in between.
NoSanityCheckFails ==
  /\ \A t \in Threads : pc[t] # "fatal" /\ fpc[t] # "fatal" /\ hpc[t] # "abort"
  /\ \A c \in Controllers : cpc[c] # "fatal"

\* A controller has cleared t's flags and is about to call FutexWake().
BeingWoken(t) == \E c \in Controllers : cpc[c] = "rwake" /\ cur[c] = t

\* The four who sleep on natp->suspend_state: the suspend handler, the thread on
\* its way into untrusted code, the thread on its way out of it, the controller.
HandlerNotStranded(t) ==
  hpc[t] = "blk" /\ t \in futex[t] /\ ~Has(suspend_state[t], SUSPENDED)
    => BeingWoken(t)

EntryNotStranded(t) ==
  pc[t] = "toUblk" /\ InOwnCode(t) /\ t \in futex[t] /\ ~Has(suspend_state[t], SUSPENDING)
    => BeingWoken(t)

ExitNotStranded(t) ==
  pc[t] = "toTblk" /\ InOwnCode(t) /\ t \in futex[t] =>
    \E c \in Controllers :
      cur[c] = t /\ cpc[c] \in {"scheck", "kill", "wread", "wwait", "wblk"}

ControllerNotStranded(c) ==
  cpc[c] = "wblk" /\ c \in futex[cur[c]] /\ suspend_state[cur[c]] # kBaseState
    => hpc[cur[c]] = "wake"

\* No wakeup is lost on the word that the thread and the controller share: who
\* sleeps although what it waits for has happened is about to be woken, and a
\* thread that waits to leave untrusted code is about to be signalled.
NoLostWakeup ==
  /\ \A t \in Threads : HandlerNotStranded(t) /\ EntryNotStranded(t) /\ ExitNotStranded(t)
  /\ \A c \in Controllers : ControllerNotStranded(c)

\* The registers a controller sees after a save_registers suspension are those
\* of the suspended code, never the uninitialised struct, and what it stores
\* there will be loaded by the thread (the handler's pointer is not NULL).
SavedRegistersUsable ==
  \A c \in Controllers : \A t \in held[c] :
    save[c] /\ Has(suspend_state[t], UNTRUSTED) =>
      /\ snap[t]
      /\ suspended_registers[t] \in Regs \cup {Trusted}
      /\ suspended_registers[t] = Trusted <=> pc[t] # "user"

\* Whatever a controller does to the saved registers, a thread in untrusted
\* code has an untrusted register file and a thread in the runtime its own.
ContextIntact ==
  \A t \in Threads : IF pc[t] = "user" THEN ctx[t] \in Regs ELSE ctx[t] = Trusted

\* The threads blocked on a fault, apart from the ones that have marked themselves
\* but not counted yet.
BlockedOnFault == {t \in Threads : fault_signal[t] /\ fpc[t] # "count"}

\* nap->faulted_thread_count is the number of threads blocked on a fault ("the
\* number of NaClAppThreads for which fault_signal is non-zero", sel_ldr.h).
FaultCountExact == faulted_thread_count = Cardinality(BlockedOnFault)

\* A controller only touches registered threads, which are therefore not freed.
ControllerTouchesLiveThreads ==
  \A c \in Controllers :
    cpc[c] \notin {"idle", "loop", "stopped", "rloop"} =>
      cur[c] \in threads /\ pc[cur[c]] \notin {"none", "launch", "del"}

\* Once a thread has been asked to suspend, its suspension completes.
SuspensionCompletes ==
  \A c \in Controllers :
    cpc[c] \in {"scheck", "kill", "wread", "wwait", "wblk"} ~> cpc[c] = "loop"

\* Once all threads have been resumed, each one leaves its suspend handler (or
\* is in it because it has been suspended again).
ResumedThreadLeavesHandler ==
  \A t \in Threads :
    hpc[t] \in {"loop", "wait", "blk"} /\ ~Has(suspend_state[t], SUSPENDED)
      ~> hpc[t] = "none"

\* ResumeAll() reaches its end and releases threads_mu.
ResumeAllReleasesLock ==
  \A c \in Controllers : cpc[c] = "rloop" ~> threads_mu # c

-----------------------------------------------------------------------------
(* The abstract specification this one implements.                         *)

RunningThreads == {t \in Threads : UserRunning(t)}
StoppedThreads == UNION {held[c] : c \in Controllers}

UC == INSTANCE UntrustedControl WITH running <- RunningThreads, stopped <- StoppedThreads

\* The suspension protocol implements the promise of the API: no thread enters
\* untrusted code while stopped, none is declared stopped while it runs.
ImplementsUntrustedControl == UC!Spec

-----------------------------------------------------------------------------
(* The inductive invariant behind the safety properties.                   *)

Suspending == {"scheck", "kill", "wread", "wwait", "wblk"}
Waiting    == {"wread", "wwait", "wblk"}

InSyscallPCs   == {"none", "launch", "toU", "toUwait", "toUblk", "sys", "exit", "del"}
InUntrustedPCs == {"enter", "user", "toT", "toTwait", "toTblk"}

\* t is being suspended by, or has been suspended by, the owner of threads_mu.
Claimed(t) ==
  /\ threads_mu \in Controllers
  /\ \/ t \in held[threads_mu]
     \/ cur[threads_mu] = t /\ cpc[threads_mu] \in Suspending

\* The owner of threads_mu waits for t to report that it has suspended.
Awaited(t) ==
  /\ threads_mu \in Controllers
  /\ cur[threads_mu] = t /\ cpc[threads_mu] \in Waiting

\* A controller works on threads only while it owns threads_mu.
LockInv ==
  \A c \in Controllers :
    /\ threads_mu = c <=> cpc[c] # "idle"
    /\ cpc[c] = "idle" => held[c] = {} /\ todo[c] = {}

\* What a controller knows of its loop at each of its control points.
ControlAt(c) ==
  /\ cpc[c] # "fatal"
  /\ held[c] \subseteq threads
  /\ todo[c] \subseteq threads
  /\ cpc[c] \notin {"idle", "loop", "stopped", "rloop"} => cur[c] \in threads
  /\ cpc[c] = "loop" => todo[c] \cap held[c] = {}
  /\ cpc[c] = "stopped" => todo[c] = {}
  /\ cpc[c] \in {"sread", "scas"} \cup Suspending =>
       cur[c] \notin held[c] /\ todo[c] \cap (held[c] \cup {cur[c]}) = {}
  /\ cpc[c] = "scas" => old_state[c] \in {UNTRUSTED, TRUSTED}
  /\ cpc[c] = "scheck" =>
       /\ old_state[c] \in {UNTRUSTED, TRUSTED}
       /\ suspend_state[cur[c]] = SetBit(old_state[c], SUSPENDING)
  /\ cpc[c] = "kill" => suspend_state[cur[c]] = kBaseState
  /\ cpc[c] \in Waiting => suspend_state[cur[c]] \in {kBaseState, SuspendedState}
  /\ cpc[c] = "rloop" => ~one[c] /\ held[c] = todo[c]
  /\ cpc[c] \in {"rread", "rcas"} =>
       /\ cur[c] \in held[c] /\ cur[c] \notin todo[c]
       /\ IF one[c] THEN todo[c] = {} ELSE held[c] = todo[c] \cup {cur[c]}
  /\ cpc[c] = "rcas" => old_state[c] \in {SuspendedState, TRUSTED + SUSPENDING}
  /\ cpc[c] = "rwake" => IF one[c] THEN todo[c] = {} ELSE held[c] = todo[c]

ControlInv == \A c \in Controllers : ControlAt(c)

\* What suspend_state says of the thread's own control.
ThreadInv ==
  \A t \in Threads :
    /\ pc[t] # "fatal"
    /\ pc[t] \in InSyscallPCs => suspend_state[t] \in {TRUSTED, TRUSTED + SUSPENDING}
    /\ pc[t] \in InUntrustedPCs =>
         suspend_state[t] \in {UNTRUSTED, kBaseState, SuspendedState}
    /\ t \in threads <=> pc[t] \notin {"none", "launch", "del"}
    /\ suspend_state[t] \notin {UNTRUSTED, TRUSTED} => Claimed(t)
    /\ \A c \in Controllers : t \in held[c] =>
         suspend_state[t] \in {SuspendedState, TRUSTED + SUSPENDING}

\* When the suspend signal is pending and where its handler is.
HandlerInv ==
  \A t \in Threads :
    /\ hpc[t] # "abort"
    /\ fpc[t] # "fatal"
    /\ hpc[t] # "none" => pc[t] \in InUntrustedPCs
    /\ fpc[t] # "none" => pc[t] = "user"
    /\ sig_pending[t] =>
         /\ suspend_state[t] = kBaseState /\ Awaited(t)
         /\ hpc[t] \notin {"check", "save", "read", "write"}
    /\ hpc[t] \in {"check", "save", "read", "write"} =>
         suspend_state[t] = kBaseState /\ Awaited(t)
    /\ hpc[t] = "write" => hstate[t] = kBaseState
    /\ suspend_state[t] = SuspendedState => hpc[t] \in {"wake", "loop", "wait", "blk"}

\* The control of the protocol: what keeps suspended threads out of untrusted
\* code and every sanity check true.
ProtocolInv == TypeOK /\ LockInv /\ ControlInv /\ ThreadInv /\ HandlerInv

\* The suspend handler has saved the thread's registers.
SavedPCs == {"read", "write", "wake", "loop", "wait", "blk", "apply"}

\* The file of saved registers holds what the thread's own code may be given
\* back, from the moment the handler has saved it until it has applied it.
RegisterInv ==
  /\ ContextIntact
  /\ \A t \in Threads :
       /\ user[t] \in Regs
       /\ hpc[t] \in SavedPCs /\ snap[t] =>
            IF pc[t] = "user" THEN suspended_registers[t] \in Regs
                              ELSE suspended_registers[t] = Trusted

\* A caller that asked for the registers has allocated the struct before it
\* signals the thread, so that the handler finds it.
SnapInv ==
  \A c \in Controllers : save[c] =>
    /\ cpc[c] \in {"kill"} \cup Waiting => suspended_registers[cur[c]] # Null
    /\ cpc[c] \in Waiting =>
         \/ snap[cur[c]]
         \/ /\ hpc[cur[c]] \notin {"check", "save", "read", "write"}
            /\ suspend_state[cur[c]] # SuspendedState
    /\ \A t \in held[c] : suspend_state[t] = SuspendedState => snap[t]

\* A thread is marked as faulted from its fault until a controller unblocks it,
\* which cannot happen before it has been counted.
FaultInv ==
  /\ FaultCountExact
  /\ \A t \in Threads :
       /\ fpc[t] = "none" => ~fault_signal[t]
       /\ fpc[t] = "count" => fault_signal[t]
       /\ fpc[t] \in {"count", "event", "sigwait", "test"} => hpc[t] = "none"

\* Who can be in the queue on natp->suspend_state: the thread itself where it
\* blocks, and the controller that waits for it.
QueuedAt(t, w) ==
  \/ w = t /\ hpc[t] = "blk"
  \/ w = t /\ InOwnCode(t) /\ pc[t] \in {"toUblk", "toTblk"}
  \/ w \in Controllers /\ cpc[w] = "wblk" /\ cur[w] = t

WaitersKnown(t) == \A w \in futex[t] : QueuedAt(t, w)

\* What a waiter knows of the word it waits on, before and after it blocks.
WordKnown(t) ==
  /\ pc[t] \in {"toUwait", "toTwait"} => Has(state[t], SUSPENDING)
  /\ hpc[t] = "wait" => Has(hstate[t], SUSPENDED)
  /\ pc[t] = "toTblk" /\ InOwnCode(t) /\ t \in futex[t] => suspend_state[t] = kBaseState

WakeInv ==
  /\ \A t \in Threads : /\ HandlerNotStranded(t) /\ EntryNotStranded(t)
                        /\ WaitersKnown(t) /\ WordKnown(t)
  /\ \A c \in Controllers : ControllerNotStranded(c)

\* The conjunction is inductive (ThreadSuspensionProofs and
\* SuspensionStateProofs) and implies every safety property above.
IInv == ProtocolInv /\ RegisterInv /\ SnapInv /\ FaultInv /\ WakeInv
=============================================================================
