# A TLA+ model of SandboxTEE

SandboxTEE runs a Native Client program inside an SGX enclave and traces the
program's file I/O, so that a data owner can later have every copy of the data
deleted.  It is a fork of Native Client with an SGX port.  The service runtime is
built three ways (`trusted/service_runtime/build.scons`): as the enclave (`sgx`,
one thread, system calls leave the enclave as *ocalls*), as the untrusted loader
of that enclave (`usgx`), and as the ordinary multi-threaded service runtime.
Paths below are relative to `src/native_client/src/` unless they start with `src/`.

## Inventory

| component | state it keeps | operations | what is hard | what makes it correct |
|---|---|---|---|---|
| thread suspension (`trusted/service_runtime/linux/thread_suspension.c`, `thread_suspension_common.c`) | `suspend_state` word per thread, `suspended_registers`, `fault_signal`, `faulted_thread_count`, event pipe | suspend/resume one or all threads, get/set registers, unblock a faulted thread; signal handlers | lock-free protocol between thread, signal handler and controller on one futex word; signals at any instruction | suspended threads do not run; no internal check fails; no lost wakeup; registers belong to the suspended code |
| thread life cycle (`nacl_app_thread.c`) | `nap->threads` under `threads_mu` | spawn, launch, teardown, delete | a thread exits while it is being suspended | no freed thread object is used |
| system call entry/exit (`nacl_syscall_hook.c`) | `natp->user` | save registers, run handler, return | suspension during the switch | the thread gets back its own registers |
| debug stub (`trusted/debug_stub`) | RSP session, breakpoints, stepping thread | suspend all, wait for faults, step, resume | races with fault events and thread exit | every fault is reported once |
| I/O agent (`shared/platform/sgx/nacl_host_desc.c`) | `NaClHostDesc`, `DescCTX` (key, iv) | open = status check, trace record, key fetch, host open; read, write, pread, pwrite, seek, truncate, ...| three remote servers, lost messages, withdrawal during an open; cipher restarted per call | data is announced to the trace before it is written, read-only descriptors add nothing, what is read is what was written |
| ocalls (`trusted/xcall`) | enclave/host transition buffers | forward each call to the host | arguments dropped on the way | the host does what the enclave asked for |
| dynamic code (`nacl_text.c`) | region list, delete generations of regions and threads | create, map, modify, delete, check in | a deleted region is reused while a thread is still in it | no reuse before every thread has passed the generation |
| descriptor table (`sel_ldr.c`, `dyn_array.c`, `sys_fdio.c`, `sys_imc.c`, `nacl_base/nacl_refcount.c`) | `desc_tbl`, the bitmap of open numbers and its search hint, reference counts | open, dup, dup2, close, calls on one or two descriptors, pairs, accept, send and receive | close, dup2 and reuse during another thread's call; calls that fail half way | the count of a descriptor is the number of its users; no use after free, no leak |
| memory map (`sel_mem.c`, `sys_memory.c`, `sel_addrspace.c`) | `NaClVmmap` (entries), `break_addr`, the host's pages | mmap, munmap, mprotect, brk | entries cut at every kind of boundary; two builds that do different things to the pages | the map agrees with the host; calls affect their range only |
| futex calls (`sys_futex.c`, `untrusted/irt/irt_futex.c`) | wait list under its mutex | wait (timed), wake | timeout racing a wake | no wake is lost or counted twice |
| untrusted thread library (`untrusted/pthread`) | words of mutexes, condition variables, semaphores, readers-writer locks | lock, unlock, wait, signal, post, ... with try and timed forms | lock-free words and futexes between any two instructions; timeouts | mutual exclusion, exact counts, no sleeper without a wake-up on its way |
| enclave loader (`sel_ldr_sgx.c`), enclave C library (`trusted/stdlib`), validators, wolfSSL, wolfMQTT | | | sequential, generated or third-party | |

The runtime calls the suspension code on every system call; the debug stub calls
the suspension API and is woken by the fault pipe.  The agent is called by the
file system calls (`sys_filename.c`, `sys_fdio.c`), and calls the trace server
(port 11111), the key server (port 6379) and the host (ocalls) in turn.  The
program's thread library is linked to the program, and reaches the runtime
only by the futex calls.  An entry of the memory map holds a reference to the
descriptor it maps, and deleted code is shielded from the program's threads by
their generations.

`PROJECT.json` lists the hazards, each at its line, with the properties that
would notice it going wrong.

## Modules

* `ThreadSuspension`: the suspension protocol with as much of the thread life
  cycle, the system call path and the debug stub as drives it.
* `UntrustedControl`: what the suspension API promises, in four actions.
* `ThreadSuspensionProofs`: the inductive invariant of the protocol, type correctness, three
  safety theorems, and the refinement of `UntrustedControl`.
* `SuspensionStateProofs`, on top of it: the count of faulted threads, the saved registers,
  and that no sleeper is forgotten.
* `HostDesc`: the I/O agent, the host file system and the servers.
* `HostDescProofs`: type correctness, that data is announced to the trace, that `Read()` returns
  what `Write()` wrote, and that read-only descriptors truncate at most.
* `Futex`: what the futex calls promise; the building block of the library.
* `UserFutex`: the wait queue of `sys_futex.c`, shown to implement `Futex`.
* `PthreadMutex`, `PthreadCondvar` (which extends it), `PthreadSemaphore`: the library
  on top of `Futex`, one action per access to shared memory that other threads can see
  the effect of.
* `PthreadMutexProofs`: that the mutex excludes, that its owner is the holder, that
  its sleepers are not forgotten, and that a signal or broadcast lets go whom it should.
* `PthreadRwlock`: the readers-writer lock on top of a mutex and condition variables,
  one action per hold of its mutex.
* `ThreadLibraryProofs`: the counts of the readers-writer lock and of the semaphore,
  their wake-ups, and the wait queue with its refinement of `Futex`.
* `DescTable`: the descriptor table and the reference counts.
* `DescriptorProofs`: that the counts are exact and the lowest free number is found.
* `AddressSpace`: the memory map and the host's pages; `PageMap`: what it promises,
  a map of single pages on which each call works on the range it is given.
* `MemoryProofs`: that the map agrees with the host, that the places found are free, and the
  refinement of `PageMap`.
* `DynCode`: dynamic code and the delete generations.
* `DynCodeProofs`: type correctness, and that the generations keep code from being
  replaced under a thread.
* `MCThreadSuspension`, `MCHostDesc`: symmetry sets for the TLC runs.  `MCPthread` puts the
  modules of the library side by side, `MCServices` those of the runtime's tables: a
  behaviour exercises one of them and leaves the others in their initial state.

### ThreadSuspension

A thread has three levels of control, as in the code: its own code (`pc`), the
fault handler (`fpc`) and the suspend handler (`hpc`).  A level moves only when no
inner one is active; `sa_mask` (`linux/nacl_signal.c`) keeps the suspend signal
out of both handlers.  A controller (`cpc`, `cur`, `todo`, ...) is any caller of the
suspension API.  Variables carry the names of the fields; `state`, `hstate` and
`old_state` are the locals that are read at one step and used at a later one,
`snap` is the handler's copy of the register pointer (null or not).

Each access to shared memory is one action.  `FutexWait` compares and enqueues in
one step, as the kernel does, and `FutexWake` takes one arbitrary waiter off the
queue; a signal takes the thread off the queue as well (EINTR).  The comment at
`thread_suspension.c:45` says that an interrupted wait is restarted; the code
below it accepts EINTR and its callers loop, and so does the model.
`natp->suspend_state |= ...` in the handler is two steps.  LOG_FATAL, `NaClAbort`,
CHECK and DCHECK lead to control points `fatal` and `abort`, which are then
shown unreachable.

Abstractions: a register file is one value, `Trusted` for the registers of runtime
code; a system call handler is one step without effect on the protocol; locks
other than `threads_mu` and the debug stub's create/exit hooks are left out; the event
pipe is empty or not; a thread slot is reused after its deletion.  A controller
resumes only what it has suspended, as `thread_suspension.h` demands of callers, and the
debug stub's single stepping (one thread runs, the others stay) is included.
Memory is sequentially consistent: the barrier at `thread_suspension.c:125` is
represented by the order of the steps.

### HostDesc

The enclave has a single thread, so a call of the agent is one action, except
`NaClHostDescOpen`, whose conversation with the servers is one action per server
because the data owner may withdraw a file in between (`Withdraw`) and because
messages may be lost (`Lossy`).  `pc` says how far that conversation is.

A unit of file content is the set of things XORed there: nothing (a hole), the
program's `Text`, a position of the key stream of an initialisation vector.
Reading decodes by XORing the stream position again, from position 0 at every call as in
`ReadFile` and `WriteFile`.  The initialisation vector is whatever `malloc` left,
since `desc_ctx->iv == NULL` compares an array; a key is absent, of a length other
than 64, or usable.  The host may transfer less than it is asked to.

Two history variables say what the trace is measured against: `lost` are the paths whose record
was sent and did not arrive, `writers` the paths under which a file was opened for writing.
`DataIsTraced` is about these paths.  A name that a file gets by `rename` or `link` later is not among
them, and the trace does not have it.

`check_file_status` returns a pointer into its own frame.  The model lets the
comparison with "A" fail whatever the server said; it does not let an
overwritten frame turn into the string "A", since nothing that runs between the return and
the comparison writes one.  A lost reply ends in a null pointer
or a freed connection and the outcome `crash`; a failed CHECK is `abort`.  Since
the enclave may end in these ways the runs of this module do not check deadlock.

Left out: directories, mapping, dup and inherited descriptors, `stat`, the
operations that leave file content and names alone, and the text of messages.

### Futex, UserFutex and the thread library

`sys_futex.c` has two implementations.  On Linux, and in the enclave by way of an
ocall, a futex call is a futex call of the host, which compares the word
and queues the thread in one step: that is `Futex`.  Elsewhere the runtime keeps
a list of waiting threads under `futex_wait_list_mu` and a condition variable per
thread: that is `UserFutex`.  Its actions are the holds of that mutex and the
steps between them: read the word, append to the list, block, come back from
the condition variable (signalled, timed out or for no reason), take the mutex
again, look whether one is still on the list.  The refinement mapping of
`ImplementsFutex` takes a thread as asleep from the moment it has found the word
unchanged; that this is right depends on the mutex being held from there to
the append.  A wake must be a wake of `Futex` even when it finds nobody.
The doubly linked list is a function from the threads on it to those ahead of
them: `ListAddNodeAtEnd` puts a thread behind all the others, `ListRemoveNode` takes
threads out and leaves the rest in order, and the loop of a wake takes those who
have fewer than `nwake` waiters of their address ahead.

In `PthreadMutex` the labels are the accesses to `mutex_state`, `owner_thread_id` and
`recursion_counter`.  The stores of the last two that follow each other, when the lock has been taken
and before it is released, are one step (`LockOwn`, `MutexUnlock`): their writer holds the mutex, the counter
is read by its holder alone, and others only ask whether the owner is themselves.  A thread's `op` says how it was called and where it returns to,
which is how `PthreadCondvar` uses the mutex (unlock, wait, lock again).  A mutex of
each of the three types is in the initial states.  `depth` counts what each thread
believes to hold.  The program keeps to the rules of the interface: it does not
lock a FAST mutex twice or unlock what it does not hold, unless the type
checks for it.  A timed wait may give up at any moment.  The sequence number of
the condition variable does not wrap within the bound on signals; the comment at
`nc_condvar.c:26` tells what happens after 2^32 of them.

`PthreadSemaphore` has the loads and the compare-and-swaps of `count` and the atomic
additions to `nwaiters` as steps.  `PthreadRwlock` relies on the mutex and
condition variables that the other modules check: a hold of `rwlock->mutex` is a step,
a waiter is let go by a signal, a broadcast, a spurious return or a timeout, and
then competes for the mutex.

### DescTable

One action is what a call does under one hold of `desc_mu`, or of the lock of the
address space.  `held` are the references that a call owns, in the order in which
it drops or stores them; a call that fails half way drops what it has.  Calls of
one shape are one action: `Use` stands for read, write, seek, stat, ioctl and the
others that look a descriptor up, work and drop it, `Make` for open and the
calls that create a mutex, semaphore or condition variable.  `bind`, `listen` and `connect`
are left out: the first two never drop the reference they gain and the
third drops one that it may not have found (`sys_socket.c:50`, `:140`), which one call
shows and no interleaving changes.  `dup2` grows the table in the code; here calls
wait for a free number (`Room`), so the search never runs off the bitmap.  A message
carries at most two descriptors, which with the one it is sent over are
the `MaxHeld` references that a call owns at most.

### AddressSpace

The array of entries is sorted before each use and is a set here; cutting,
extending and replacing entries are the functions of the code (`Remains`, `Changed`,
`FindMapSpace`, ...).  `NaClVmmapUpdate()` and `NaClVmmapChangeProt()` distinguish how an entry lies
to the range they are given; what they leave of it is the part `Before` the range, the
part `After` it, or all of it when it is `Outside`.  `enclave` chooses the build: outside the enclave a call changes
the host's pages and protections, inside it `mmap` and `mprotect` leave the pages as they
are and `munmap` fills them with zeros.  In the enclave only the contents are of
interest, so only there the program stores to its pages.  The heap, the
stack and the text are entries of the initial map.  The file that is mapped is
shared and read-only, of a size that ends inside or before the mapping.  Requests
that the code refuses change nothing and are not steps.  `mmap` and `munmap` refuse a length
of zero, `mprotect` does not: `MprotectEmpty` is that call, after which outside the enclave a CHECK
has failed (`check`) and the runtime has ended (finding 4).  `brk` after the page of
the break was unmapped ends it as well (`sys_memory.c:131`) and is left out.

The history variable `call` is the last call with the pages it named.  The abstract step of `PageMap`
reads its range from there, and so has to do just what that call promises on just these pages.  In the
run the state is viewed without `call` (`View` of `MCServices`), which no action reads: two states that
differ in it have the same steps, and a step's own `call'` is what the properties evaluate.

### DynCode

A bundle has a head, where it is entered, and a tail.  A thread that is in a
bundle (`at`) remembers which code it entered, and `NoMixedCode` compares that with
the tail it will run next.  Creation writes tails first and heads last, deletion
writes halts into the heads, takes a new generation and waits for all threads
of the table to have one at least as new.  A thread checks in by calling delete, with size
0 if it has nothing else to do; the generation is fetched under the load
mutex and recorded without it.  Threads are made, enter the table and leave it at any
time.  `mmap()` of validated code enters the region list under the load mutex and writes
the pages without it.  `nacl_dyncode_modify()` and validation are left out.

## Runs

| run | instance | distinct states | what it shows |
|---|---|---|---|
| `suspend_protocol` | 2 threads, 1 controller | 4.1 million | `HeldThreadsDoNotRun`, `NoSanityCheckFails`, `FaultCountExact`, `ControllerTouchesLiveThreads` |
| `suspend_registers` | 1 thread, 1 controller, 2 register values | 72 thousand | `SavedRegistersUsable`, `ContextIntact`, `NoLostWakeup`, refinement of `UntrustedControl`, `TypeOK` |
| `suspend_liveness` | 1 thread, 2 controllers | 272 thousand | `SuspensionCompletes`, `ResumedThreadLeavesHandler`, `ResumeAllReleasesLock`, and `IInv` |
| `agent_files` | 2 paths, 2 inodes, 1 descriptor; all calls that change files or names; lossy; size 1 | 2.3 million | `DataIsTraced`, the invariant `TraceInv` that proves it, `ReadersOnlyTruncate` |
| `agent_io` | 1 file of size 3, 2 vectors | 0.5 million | `ReadBackAfterWrite`, `TypeOK` |
| `thread_library` | 3 threads; a mutex of each type with its condition variable, a semaphore up to 2, 2 readers-writer locks, the wait queue with 4 calls | 1.1 million | `MutualExclusion`, `OwnerIsHolder`, `MutexWakePending`, `SemWakePending`, `CountsExact`, `WriterWakePending`, `CountedWaitsSucceed`, `PulseReleases`, refinement of `Futex`, types |
| `library_liveness` | the same, smaller | 241 thousand | `MutexHandedOver`, `SemDelivered`, `WokenThreadsReturn` |
| `service_tables` | descriptors: 2 threads, 2 descriptors, 3 numbers; memory: 5 pages, both builds; code: 3 threads, 2 bundles, 2 codes, 2 generations | 561 thousand | `RefsExact`, `LowestNumberFirst`, `PlacesAreFree`, `MapAgreesWithHost`, refinement of `PageMap`, `NoMixedCode`, `RemovedRegionsEmpty`, types |
| `agent_readback` | 1 file of size 1 | | `ReadReturnsWhatWasWritten` is violated |
| `rwlock_stranded` | 3 threads, 1 lock | | `ReadersMakeProgress` is violated |
| `mapping_past_file` | 5 pages | | `BeyondFileInaccessible` is violated |
| `mprotect_empty` | 5 pages | | `ChecksHold` is violated |

Why the bounds are enough.  The suspension protocol is played between a controller
and one thread at a time; a second thread is needed for the loops over the table
and for a thread that exits or registers while another is suspended, a second
controller for the competition for `threads_mu`, a second register value to tell
modified registers from saved ones.  Thread slots are reused, so lives and
suspensions are unbounded in number.  For the agent, two names and two inodes
give every way in which a file is replaced under a name or has two of them, and one descriptor that is closed and
opened again every order of modes for one file; three units and two vectors
allow a read that starts inside, at and before a write and a descriptor with
another stream.  The proofs below need none of these bounds.

In the thread library two threads make every race on a word and the third one
is the bystander whose wake-up can be lost or stolen; recursion to depth 2
distinguishes the inner unlock from the outer; two readers-writer locks are what
it takes for the count of read locks a thread holds, which is kept
per thread and not per lock, to be wrong about one of them.  In the descriptor table two
threads and three numbers allow a close and a reuse in the middle of the
longest call, two bits of the bitmap are in different words (`BitsPerWord` is 1) so that
the search hint matters, and any further descriptor would be one more name.  Five pages
give a range between the data and the stack in which an entry can be cut at its
start, its end and in its middle, next to others.  In the dynamic code two bundles
are two regions or one, and a region can be deleted, reused and deleted again
within two generations, after which the code refuses further deletions as it
does at INT32_MAX.

Deadlock is checked in the three suspension runs: the program and the
controllers can always go on.  In the other runs the counted calls may be used up, or
a fatal error, of which the code has some, ends the program.

**Fairness** (`FairSpec`).  Weak fairness of each thread's runtime code and signal
handlers and of each controller inside a call of the API: the host's scheduler
runs what is runnable and delivers a pending signal.  Nothing is assumed of the
untrusted program, of system calls that take arbitrarily long, nor of a
controller that has stopped the threads and does not resume them.

In the library (`LibraryFairSpec`, `FairSpec` of each module) each thread that is
inside a primitive is run by the host whenever it can go on, which is weak fairness of
its steps there.  A spurious return or a timeout never has to happen and the program need
not call anything.  For `rwlock_stranded` the program also gives back each lock it holds,
for without that no reader could be promised anything.

## Findings

1. *pwrite and read do not agree* (`agent_readback`).  `NaClHostDescPWrite` and
   `NaClHostDescPRead` pass data through, `NaClHostDescRead` and `NaClHostDescWrite`
   apply the cipher, so what `nacl_host_desc_pread_pwrite_test.c:326-347` expects ("re-read by
   seek/sequential read and check data", compared with what was written) for the descriptors it
   opens with O_RDWR (`:636-645`) fails as soon as the key is usable.  The key stream also restarts at
   every call: reading a file in other portions than it was written is garbled, too.
   What does hold is `ReadBackAfterWrite`.
2. *Readers are left asleep* (`rwlock_stranded`).  While a writer waits, readers
   wait behind it.  If the last waiting writer times out (or its wait ends
   after the lock was released) it only decrements `writers_waiting` (`nc_rwlock.c:182`),
   and the last unlock of a reader signals nobody when no writer waits: the readers
   sleep on although the lock is free.  The comment that waiting readers "should be able
   to make progress" (`nc_rwlock.c:240`) stands where a writer unlocks; nothing does the same for them
   when the writer they wait for never gets the lock.
3. *A mapping opens past the end of the file* (`mapping_past_file`).  `NaClVmmapChangeProt`
   gives the part it cuts out of an entry the offset
   `ent->offset + (page_num - ent->page_num)`, pages added to bytes (`sel_mem.c:514`, `:527`).
   `MprotectInternal` then takes the part for the first pages of the file and changes the
   protection of pages that `sys_memory.c:899` says are "also inaccessible (PROT_NONE)".
4. *mprotect of no bytes ends the runtime* (`mprotect_empty`).  `NaClSysMprotectInternal`
   (`sys_memory.c:1351-1405`) has no test of the length, and `NaClVmmapChangeProt` succeeds for an empty
   range inside or next to an entry.  `MprotectInternal` then looks for an entry that begins at the
   address (CHECK at `:1304`) and ends there (CHECK at `:1344`), which there cannot be.

Deviations that one call shows, for which there is no run:

* `sgx_ocall_open` (`trusted/xcall/ocall_file_u.c:11`) ignores the flags, so
  `CHECK(orig_flags & O_APPEND)` in `NaClHostDescPWrite` (`nacl_host_desc.c:1009`) fails on the
  first pwrite to a descriptor opened with O_APPEND.
* A trace record that got lost does not stop the open (`nacl_host_desc.c:446`), and
  `rename` and `link` are not traced (`:1128`); `src/README.md:6` wants tracing
  "to support complete data deletion".  `DataIsTraced` says what is left of that: some
  name the data was written under was announced.
* `NaClHostDescFtruncate` (`nacl_host_desc.c:1216`) does not ask how the descriptor was opened, and the host
  has every file open for writing: a read-only descriptor can erase a file.  `ReadersOnlyTruncate` says that
  this is all it can do.
* `bind` and `listen` keep a reference for ever, `connect` on a number that is not open
  drops the reference of a null pointer (`sys_socket.c:50`, `:140`).
* The timeout of a futex wait in the enclave mixes units (`sys_futex.c:81`).
* When code cannot be mapped after the region was entered in the list
  (`nacl_text.c:743`) the region stays there; it can still be deleted.

## Proofs

Checked by TLAPS for all values of the constants that satisfy the named assumptions of the
modules: `ConstantsDistinct`, `HostDescConstants`, `NoAddrAssumption`, `MutexAssumption`,
`CondAssumption`, `LibraryConstants` (of the semaphore, the readers-writer locks and the
wait queue), `ServicesConstants` (of the descriptor table, the memory map and the dynamic
code).  They say that the model values are distinct, that the threads, locks and
mappings are finite in number (where the proofs count them), that sizes are natural numbers and
positive where the code divides by them or needs one of them, that the code area is a range, that the two
words of a primitive have two addresses, that a request may be for reading and writing, and that
`Unmapped` is not what a mapped page looks like.

Every safety property and every refinement that a passing run checks is stated by a theorem.

*Thread suspension.*  `ProtocolInv` is inductive, for any number of threads
and controllers.  That suspended threads do not run is not inductive by itself:
one has to know that a thread with a flag in `suspend_state` is claimed by the one
controller that owns `threads_mu` (`LockInv`, `Claimed`), what the controller has
established at each control point (`ControlInv`), that the thread's control
agrees with its state word (`ThreadInv`), and that the signal is pending or being
handled only while that controller waits (`HandlerInv`).  From `ProtocolInvariance` follow
`TypeCorrect`, `SuspendedThreadsStayOut`, `SanityChecksHold`, `LiveThreadsOnly` and, step by step,
`Refinement`: a thread counts as stopped for `UntrustedControl` while a controller
holds it (`held`), and as running while it executes untrusted code.

Relative to `ProtocolInv` three more invariants are inductive.  `FaultInv`: the count of
faulted threads is the number of those that are marked and have counted themselves, for
which it matters that nobody can unblock a thread that has not counted yet.
`RegisterInv` and `SnapInv`: the struct of saved registers holds what the thread's own code may
be given back (untrusted registers for untrusted code, its own for the runtime) from the moment the handler saved them to the moment it loads them, whatever the debugger writes
meanwhile, and it has been allocated before the signal whose handler fills it.
`WakeInv`: who can be in the queue of the futex word, and what the word was when he joined;
whoever sleeps on a word that has changed since has a wake on the way.
With `Invariance` their conjunction `IInv`, which TLC checks, is proved as a whole.

*I/O agent.*  `AgentTypeCorrect` needs no more than the types.  `TraceComplete` states
`DataIsTraced` for every program and network, with `rename`, `link` and lost messages.  Its invariant
`TraceInv` adds that the record goes out before the call that opens the host's file, that
`writers` are paths whose record was sent, and that a descriptor that can write came by one of the
opens that `writers` remembers; and that without `Lossy` no record is lost, so that then the
path is in the trace.  `ReadersCutOnly` proves the action property `ReadersOnlyTruncate`.
`WritesReadBack` rests on `ReadBackInv`: as long as the last
`Write()` is remembered its descriptor is open with the key and vector it had, the file holds
the text under the key stream from position 0 on as far as the host took it (`WriteIntact`), and an
open under way is not of that descriptor.

*Dynamic code.*  That a thread runs the code it entered (`EnteredCodeStays`) is not
inductive: the runtime sees generations, not threads.  `InsideInv` ties the two: a
thread inside a bundle is in a region of the list that is not deleted or was
deleted after the thread last checked in.  `HeadInv` says that what can be entered
is complete and not deleted, `CreateInv`, `MmapInv` and `DeleteInv` what a load or
a deletion has established at each of its steps.  The scan of
the generations is the delicate part: while it runs (`count`), a thread inside
the region is yet to be read, or its generation is not below the minimum found so far,
because generations grow, threads check in outside the code area, and a
thread that starts later cannot enter a halted region.  There is one lemma for each
action; `RemovalIsSafe` follows from `RemovedIsVacant`.

*Mutex and condition variable.*  Exclusion is not inductive: `depth` is the history of who holds the mutex,
and the code decides by `mutex_state`, by the owner and by the recursion counter.
`HoldInv` ties the word to the holder, `DepthInv` says at which labels a thread holds the
mutex, `OwnerInv` when the owner is recorded, `ReturnInv` that only the unlock at the start of a
wait leads into the wait.  `SleepInv` says where sleepers and woken threads
are; with it `MutexWakePending` is inductive.  The steps are those of
`PthreadCondvar`, so the theorems (`MutexExcludes`, `OwnerHolds`, `SleeperIsRemembered`) cover the mutex
on its own and under a condition variable.  `PulseInv` is about signals and broadcasts:
the waits that a pulse found are still going on or were ended by somebody else, and once
the pulse has incremented the sequence number each of them has read an older one, so that it
cannot fall asleep any more; `PulsesRelease` follows from what the wake then does to those
asleep.  The bounds in the types (`MutexTyping`) need that a thread which asks whether it is the owner
could hold the mutex once more, and that a pulse has room for its increment from its beginning on.

*Semaphore and readers-writer lock.*  `SemInv` says that `nwaiters` counts the threads that
have announced themselves.  `SemWakePending` is not inductive: a waiter
who takes one of many units leaves the others behind.  `SemWakeInv` is the
stronger one: either there are no more units than threads on their way, or every sleeper has a post
that will wake him.  `RwInv` says that the reader counts of a lock and of a thread
are the numbers of the pairs that make them up, and that `writers_waiting` counts the threads that
wait to write, that a writer is alone, and that a thread waiting to read has room for another read lock; `CountsExact` and `WriterWakePending` follow.

*Wait queue of the futex calls.*  `QueueInv`: a thread that reads the word, joins the list or looks
at its node has the mutex (`QueueControl`); the list is a line of waiting threads, each
behind those who are behind those ahead of it (`QueueOrder`); the woken threads are no more than
those in flight and the waits that returned 0 (`QueueCounts`).  `FirstOfLine` is the fact about
lists that both the count and the refinement need: the number of those ahead is an injection
of the line into its positions, so a wake of *n* takes exactly *n*, or all.
`QueueImplementsFutex` goes action by action: each is one step of `Futex` or none, and that a wake finds all
who count as asleep is where the mutex comes in, since nobody can be between the comparison and the
append while a wake has it.  `LibraryTyping` states the types of the whole library.

*Descriptor table.*  `FdInv`: where each call is and how many references and numbers it owns there
(`FdControl`), the types of the tables (`FdTables`), that all numbers below the word of the
search hint are open (`HintInv`), and that the count of a descriptor is the number of its places in the
table, in the map of memory and in the calls (`CountInv`), each of which is the cardinality of a set that
changes by one place at a time.  `CountsOfDescriptors`, `LowestNumbers` and `DescriptorTyping` follow.

*Memory map.*  `MemInv` is `PagesInv` and `CallInv`.  The first: entries are well formed and apart (`GoodMap`), the text stays, and what
the host has at each page fits the entry that covers it (`PageInv`).  The last one is where
the strengthening is: in the ordinary build, a page where the host has the file is covered by an entry of the file
whose offset is not past the end there.  It is needed since `mprotect` protects
only as many pages of the host as the file has left, counted from an offset that may be too
small (finding 3) but never too large.  The proof is page by page: what each operator
makes of an entry (`Remains`, `Changed`) is stated as what it says of the pages in and outside the
range (`Keeps`), from there as what the call does on the range it names and outside it (`PageStep`, with
`Called` for the range), and this gives both `HostAsMapped` and the refinement `MapOfPages`.
`CallInv` is about the history: the call named pages of the program, and if a CHECK has failed, none.
`FoundPlacesAreFree` is about the search alone:
the hole before the entry it stops at is as large as it was looking for.

Only model-checked: the liveness properties (`SuspensionCompletes`, `ResumedThreadLeavesHandler`,
`ResumeAllReleasesLock`, `MutexHandedOver`, `SemDelivered`, `WokenThreadsReturn`), since liveness under
fairness is out of the prover's reach, and the four violations, which are
counterexamples.

## Not modelled

* The enclave loader and key provisioning (`sel_ldr_sgx.c`): straight-line start-up of one
  thread.  The page allocator of `trusted/stdlib` runs in that phase.
* The code validators (`trusted/validator*`): decoding tables, most of them
  generated.  They and the vendored TLS and MQTT libraries (`trusted/wolfssl`,
  `trusted/wolfMQTT`) are by far the largest part of the tree.
* The RSP session of the debug stub (`debug_stub/target.cc`) but for its use of the suspension
  API; breakpoints and single stepping.
* `nacl_dyncode_modify()`, thread creation and join of the library (`nc_thread.c`),
  `pthread_once`, thread-specific data.
* The socket calls, the wire format of transferred descriptors, directories.
* Windows and macOS variants.

## Plan

The modules are written, and the safety properties and refinements of their runs proved.
Left are parts of the system to add: `pthread_once` and
thread creation and join of the library, directories and `dup` in the agent, the session of the debug stub.
Each would be a module of its own next to those of its component, with its type invariant
and a run, and then its proofs.
