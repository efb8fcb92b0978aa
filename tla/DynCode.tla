------------------------------- MODULE DynCode -------------------------------
(***************************************************************************)
(* Dynamic code: creating, mapping and deleting code regions while the     *)
(* threads of the program execute them                                     *)
(* (trusted/service_runtime/nacl_text.c).                                  *)
(*                                                                         *)
(* Code is entered at the head of a bundle and runs through its tail, so a *)
(* bundle is its head, which is Halt while nobody may enter, and its tail. *)
(* A deleted region can be used again only when no thread can still be in  *)
(* the tail of one of its bundles.  The runtime cannot see where a thread  *)
(* is; it compares the generation of the deletion with the generation each *)
(* thread had when it last entered the runtime for this purpose.           *)
(***************************************************************************)
EXTENDS Integers, FiniteSets

CONSTANTS Threads,         \* thread slots
          Main,            \* the thread that runs first and does not exit
          Bundles,         \* the bundles of the dynamic code area, a range
          Code,            \* pieces of code that differ
          MaxGeneration,   \* INT32_MAX
          Halt,            \* NACL_HALT_WORD
          Nobody, Nowhere

\* What the constants must be.
DynCodeConstants ==
  /\ Main \in Threads
  /\ Nobody \notin Threads
  /\ Bundles \subseteq Int /\ \A x, y \in Bundles : x .. y \subseteq Bundles
  /\ Halt \notin Code
  /\ Nowhere \notin Bundles \X Code
  /\ MaxGeneration \in Nat

VARIABLES
  regions,             \* the extents in nap->dynamic_regions
  is_mmap,             \* those that were mapped from a file
  delete_generation,   \* region->delete_generation, -1 for other extents
  app_generation,      \* nap->dynamic_delete_generation
  load_mutex,          \* holder of nap->dynamic_load_mutex
  threads_mu,          \* holder of nap->threads_mu
  table,               \* the threads in nap->threads
  generation,          \* natp->dynamic_delete_generation
  head, tail,          \* contents of the bundles
  at,                  \* the bundle a thread is in and the code it entered
  pc,                  \* control of a thread
  region, code,        \* arguments of its call
  gen,                 \* generation it has fetched or found to be the minimum
  todo                 \* rest of the loop it is in

text == <<regions, is_mmap, delete_generation, app_generation>>
bundles == <<head, tail>>
locals == <<region, code, gen, todo>>
vars == <<text, load_mutex, threads_mu, table, generation, bundles, at, pc, locals>>

Extents == {x .. y : x, y \in Bundles} \ {{}}
Generation == 0 .. MaxGeneration

\* Controls of the runtime that hold the load mutex.
Loading == {"tails", "heads", "mmap", "halts", "stamp", "own", "scan", "count", "decide"}

Init ==
  /\ regions = {} /\ is_mmap = {}
  /\ delete_generation = [e \in Extents |-> -1]
  /\ app_generation = 0
  /\ load_mutex = Nobody /\ threads_mu = Nobody
  /\ table = {Main}
  /\ generation = [t \in Threads |-> 0]
  /\ head = [b \in Bundles |-> Halt] /\ tail = [b \in Bundles |-> Halt]
  /\ at = [t \in Threads |-> Nowhere]
  /\ pc = [t \in Threads |-> IF t = Main THEN "user" ELSE "none"]
  /\ region = [t \in Threads |-> {}]
  /\ code = [t \in Threads |-> Halt]
  /\ gen = [t \in Threads |-> 0]
  /\ todo = [t \in Threads |-> {}]

-----------------------------------------------------------------------------
(* The program.                                                            *)

\* The program jumps to the head of a bundle, from wherever it is.  A Halt
\* there would be its end.
Enter(t, b) ==
  /\ pc[t] = "user" /\ head[b] # Halt
  /\ at' = [at EXCEPT ![t] = <<b, head[b]>>]
  /\ UNCHANGED <<text, load_mutex, threads_mu, table, generation, bundles, pc, locals>>

\* It runs on into code that is never deleted.  From there it makes its
\* system calls: the return address of a call is the head of a bundle.
Leave(t) ==
  /\ pc[t] = "user" /\ at[t] # Nowhere
  /\ at' = [at EXCEPT ![t] = Nowhere]
  /\ UNCHANGED <<text, load_mutex, threads_mu, table, generation, bundles, pc, locals>>

Calling(t) == pc[t] = "user" /\ at[t] = Nowhere

\* A call returns and its locals are gone.
Return(t) ==
  /\ pc' = [pc EXCEPT ![t] = "user"]
  /\ region' = [region EXCEPT ![t] = {}]
  /\ code' = [code EXCEPT ![t] = Halt]
  /\ gen' = [gen EXCEPT ![t] = 0]
  /\ todo' = [todo EXCEPT ![t] = {}]

-----------------------------------------------------------------------------
(* Threads come and go.                                                    *)

\* A thread is made with generation 0, before it is in the table.
AppThreadMake(t) ==
  /\ pc[t] = "none"
  /\ generation' = [generation EXCEPT ![t] = 0]
  /\ pc' = [pc EXCEPT ![t] = "made"]
  /\ UNCHANGED <<text, load_mutex, threads_mu, table, bundles, at, locals>>

AddThread(t) ==
  /\ pc[t] = "made" /\ threads_mu = Nobody
  /\ table' = table \cup {t}
  /\ pc' = [pc EXCEPT ![t] = "user"]
  /\ UNCHANGED <<text, load_mutex, threads_mu, generation, bundles, at, locals>>

AppThreadTeardown(t) ==
  /\ t # Main /\ Calling(t) /\ threads_mu = Nobody
  /\ table' = table \ {t}
  /\ pc' = [pc EXCEPT ![t] = "none"]
  /\ UNCHANGED <<text, load_mutex, threads_mu, generation, bundles, at, locals>>

-----------------------------------------------------------------------------
(* The region list.                                                        *)

\* NaClDynamicRegionFind: the list is sorted and its extents are disjoint, so
\* the closest region at or below the end of e is the one that meets e.
DynamicRegionFind(e) == {r \in regions : r \cap e # {}}

\* NaClDynamicRegionCreate, when the range is free.
DynamicRegionCreate(e) ==
  /\ DynamicRegionFind(e) = {}
  /\ regions' = regions \cup {e}
  /\ delete_generation' = [delete_generation EXCEPT ![e] = -1]

-----------------------------------------------------------------------------
(* nacl_dyncode_create.  A call that is refused changes nothing.           *)

DyncodeCreate(t, e, c) ==
  /\ Calling(t) /\ load_mutex = Nobody
  /\ DynamicRegionCreate(e)
  /\ load_mutex' = t
  /\ region' = [region EXCEPT ![t] = e]
  /\ code' = [code EXCEPT ![t] = c]
  /\ pc' = [pc EXCEPT ![t] = "tails"]
  /\ UNCHANGED <<is_mmap, app_generation, threads_mu, table, generation, bundles, at, gen, todo>>

\* The writable mapping fails: ENOMEM, and the region stays in the list.
DyncodeCreateNoMap(t, e) ==
  /\ Calling(t) /\ load_mutex = Nobody
  /\ DynamicRegionCreate(e)
  /\ UNCHANGED <<is_mmap, app_generation, load_mutex, threads_mu, table, generation, bundles,
                 at, pc, locals>>

CopyBundleTails(t) ==
  /\ pc[t] = "tails"
  /\ tail' = [b \in Bundles |-> IF b \in region[t] THEN code[t] ELSE tail[b]]
  /\ todo' = [todo EXCEPT ![t] = region[t]]
  /\ pc' = [pc EXCEPT ![t] = "heads"]
  /\ UNCHANGED <<text, load_mutex, threads_mu, table, generation, head, at, region, code, gen>>

CopyBundleHeads(t, b) ==
  /\ pc[t] = "heads" /\ b \in todo[t]
  /\ head' = [head EXCEPT ![b] = code[t]]
  /\ IF todo[t] = {b}
     THEN load_mutex' = Nobody /\ Return(t)
     ELSE /\ todo' = [todo EXCEPT ![t] = @ \ {b}]
          /\ UNCHANGED <<load_mutex, pc, region, code, gen>>
  /\ UNCHANGED <<text, threads_mu, table, generation, tail, at>>

-----------------------------------------------------------------------------
(* mmap() of a validated file into the code area: the region is entered in *)
(* the list under the load mutex, the pages appear later, without it.      *)

MmapRegion(t, e, c) ==
  /\ Calling(t) /\ load_mutex = Nobody
  /\ DynamicRegionCreate(e)
  /\ is_mmap' = is_mmap \cup {e}
  /\ region' = [region EXCEPT ![t] = e]
  /\ code' = [code EXCEPT ![t] = c]
  /\ pc' = [pc EXCEPT ![t] = "map"]
  /\ UNCHANGED <<app_generation, load_mutex, threads_mu, table, generation, bundles, at, gen, todo>>

MmapPages(t) ==
  /\ pc[t] = "map"
  /\ head' = [b \in Bundles |-> IF b \in region[t] THEN code[t] ELSE head[b]]
  /\ tail' = [b \in Bundles |-> IF b \in region[t] THEN code[t] ELSE tail[b]]
  /\ Return(t)
  /\ UNCHANGED <<text, load_mutex, threads_mu, table, generation, at>>

-----------------------------------------------------------------------------
(* nacl_dyncode_delete.                                                    *)

\* The first request for a region that exists as a whole ...
DyncodeDelete(t, e) ==
  /\ Calling(t) /\ load_mutex = Nobody
  /\ e \in regions \ is_mmap
  /\ delete_generation[e] < 0 /\ app_generation # MaxGeneration
  /\ load_mutex' = t
  /\ region' = [region EXCEPT ![t] = e]
  /\ todo' = [todo EXCEPT ![t] = e]
  /\ pc' = [pc EXCEPT ![t] = "halts"]
  /\ UNCHANGED <<text, threads_mu, table, generation, bundles, at, code, gen>>

\* ... and a later one, after EAGAIN.
DyncodeDeleteAgain(t, e) ==
  /\ Calling(t) /\ load_mutex = Nobody
  /\ e \in regions \ is_mmap
  /\ delete_generation[e] >= 0
  /\ load_mutex' = t
  /\ region' = [region EXCEPT ![t] = e]
  /\ gen' = [gen EXCEPT ![t] = app_generation]
  /\ pc' = [pc EXCEPT ![t] = "own"]
  /\ UNCHANGED <<text, threads_mu, table, generation, bundles, at, code, todo>>

ReplaceBundleHeadsWithHalts(t, b) ==
  /\ pc[t] = "halts" /\ b \in todo[t]
  /\ head' = [head EXCEPT ![b] = Halt]
  /\ todo' = [todo EXCEPT ![t] = @ \ {b}]
  /\ pc' = [pc EXCEPT ![t] = IF todo[t] = {b} THEN "stamp" ELSE "halts"]
  /\ UNCHANGED <<text, load_mutex, threads_mu, table, generation, tail, at, region, code, gen>>

RecordGeneration(t) ==
  /\ pc[t] = "stamp"
  /\ app_generation' = app_generation + 1
  /\ delete_generation' = [delete_generation EXCEPT ![region[t]] = app_generation']
  /\ gen' = [gen EXCEPT ![t] = app_generation']
  /\ pc' = [pc EXCEPT ![t] = "own"]
  /\ UNCHANGED <<regions, is_mmap, load_mutex, threads_mu, table, generation, bundles, at,
                 region, code, todo>>

AfterSet(t) ==
  \/ pc[t] = "own" /\ pc' = [pc EXCEPT ![t] = "scan"] /\ UNCHANGED locals
  \/ pc[t] = "set" /\ Return(t)

\* Mutant of SetThreadGeneration.
SetEveryGeneration(t) ==
  /\ pc[t] \in {"own", "set"}
  /\ generation' = [u \in Threads |-> gen[t]]
  /\ AfterSet(t)
  /\ UNCHANGED <<text, load_mutex, threads_mu, table, bundles, at>>

\* NaClSetThreadGeneration; generations only grow, says its CHECK.
SetThreadGeneration(t) ==
  /\ pc[t] \in {"own", "set"}
  /\ IF generation[t] <= gen[t]
     THEN /\ generation' = [generation EXCEPT ![t] = gen[t]]
          /\ AfterSet(t)
     ELSE /\ pc' = [pc EXCEPT ![t] = "fatal"]
          /\ UNCHANGED <<generation, locals>>
  /\ UNCHANGED <<text, load_mutex, threads_mu, table, bundles, at>>

\* NaClMinimumThreadGeneration, one thread of the table after the other; a
\* thread that checks in meanwhile may be read before or after.
ScanThreads(t) ==
  /\ pc[t] = "scan" /\ threads_mu = Nobody
  /\ threads_mu' = t
  /\ gen' = [gen EXCEPT ![t] = MaxGeneration]
  /\ todo' = [todo EXCEPT ![t] = table]
  /\ pc' = [pc EXCEPT ![t] = "count"]
  /\ UNCHANGED <<text, load_mutex, table, generation, bundles, at, region, code>>

MinimumThreadGeneration(t, u) ==
  /\ pc[t] = "count" /\ u \in todo[t]
  /\ gen' = [gen EXCEPT ![t] = IF generation[u] < @ THEN generation[u] ELSE @]
  /\ todo' = [todo EXCEPT ![t] = @ \ {u}]
  /\ IF todo[t] = {u} THEN threads_mu' = Nobody /\ pc' = [pc EXCEPT ![t] = "decide"]
                      ELSE UNCHANGED <<threads_mu, pc>>
  /\ UNCHANGED <<text, load_mutex, table, generation, bundles, at, region, code>>

\* Mutant of RemoveRegion.
RemoveRegionEarly(t) ==
  /\ pc[t] = "decide"
  /\ IF delete_generation[region[t]] <= gen[t] + 1
     THEN /\ regions' = regions \ {region[t]}
          /\ delete_generation' = [delete_generation EXCEPT ![region[t]] = -1]
     ELSE UNCHANGED <<regions, delete_generation>>
  /\ load_mutex' = Nobody
  /\ Return(t)
  /\ UNCHANGED <<is_mmap, app_generation, threads_mu, table, generation, bundles, at>>

\* The region goes (NaClDynamicRegionDelete), or EAGAIN.
RemoveRegion(t) ==
  /\ pc[t] = "decide"
  /\ IF delete_generation[region[t]] <= gen[t]
     THEN /\ regions' = regions \ {region[t]}
          /\ delete_generation' = [delete_generation EXCEPT ![region[t]] = -1]
     ELSE UNCHANGED <<regions, delete_generation>>
  /\ load_mutex' = Nobody
  /\ Return(t)
  /\ UNCHANGED <<is_mmap, app_generation, threads_mu, table, generation, bundles, at>>

\* nacl_dyncode_delete() of size 0: the generation is fetched under the load
\* mutex and recorded without it.
CheckIn(t) ==
  /\ Calling(t) /\ load_mutex = Nobody
  /\ gen' = [gen EXCEPT ![t] = app_generation]
  /\ pc' = [pc EXCEPT ![t] = "set"]
  /\ UNCHANGED <<text, load_mutex, threads_mu, table, generation, bundles, at, region, code, todo>>

-----------------------------------------------------------------------------
Program(t) ==
  \/ \E b \in Bundles : Enter(t, b)
  \/ Leave(t)
  \/ AppThreadMake(t) \/ AddThread(t) \/ AppThreadTeardown(t)
  \/ \E e \in Extents, c \in Code : DyncodeCreate(t, e, c) \/ MmapRegion(t, e, c)
  \/ \E e \in Extents :
       DyncodeCreateNoMap(t, e) \/ DyncodeDelete(t, e) \/ DyncodeDeleteAgain(t, e)
  \/ CheckIn(t)

Runtime(t) ==
  \/ CopyBundleTails(t) \/ MmapPages(t)
  \/ \E b \in Bundles : CopyBundleHeads(t, b) \/ ReplaceBundleHeadsWithHalts(t, b)
  \/ RecordGeneration(t) \/ SetThreadGeneration(t)
  \/ ScanThreads(t) \/ RemoveRegion(t)
  \/ \E u \in Threads : MinimumThreadGeneration(t, u)

Next == \E t \in Threads : Program(t) \/ Runtime(t)

Spec == Init /\ [][Next]_vars

-----------------------------------------------------------------------------
(* The types of the variables.  No thread is at "fatal": the CHECK of        *)
(* NaClSetThreadGeneration() holds, although the generation a thread checks *)
(* in with may be out of date when it is recorded.                          *)
TypeOK ==
  /\ regions \subseteq Extents /\ is_mmap \subseteq Extents
  /\ delete_generation \in [Extents -> {-1} \cup Generation]
  /\ app_generation \in Generation
  /\ load_mutex \in Threads \cup {Nobody} /\ threads_mu \in Threads \cup {Nobody}
  /\ table \subseteq Threads
  /\ generation \in [Threads -> Generation]
  /\ head \in [Bundles -> Code \cup {Halt}] /\ tail \in [Bundles -> Code \cup {Halt}]
  /\ at \in [Threads -> (Bundles \X Code) \cup {Nowhere}]
  /\ pc \in [Threads -> Loading \cup {"none", "made", "user", "map", "set"}]
  /\ region \in [Threads -> Extents \cup {{}}]
  /\ code \in [Threads -> Code \cup {Halt}]
  /\ gen \in [Threads -> Generation]
  /\ todo \in [Threads -> SUBSET (Bundles \cup Threads)]

(* A thread that has entered a bundle runs the tail of the code it entered: *)
(* the delete generations keep new code (NaClTextDyncodeCreate) out of      *)
(* bundles a thread may still be in.                                        *)
NoMixedCode ==
  \A t \in Threads : at[t] # Nowhere => tail[at[t][1]] = at[t][2]

(* NaClDynamicRegionDelete() takes a region out of the list only when no    *)
(* thread is inside, wherever the threads were when the deletion began.     *)
RemovedRegionsEmpty ==
  [][\A r \in regions \ regions', t \in Threads :
       at[t] # Nowhere => at[t][1] \notin r]_vars
=============================================================================
