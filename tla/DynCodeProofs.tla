---------------------------- MODULE DynCodeProofs ----------------------------
(***************************************************************************)
(* Proofs about DynCode, for any number of threads, bundles, pieces of     *)
(* code and generations: the inductive invariant IInv, and from it that no *)
(* thread runs in code it did not enter and that a region is reused only   *)
(* when it is empty.  The constants are those DynCodeConstants allows.     *)
(***************************************************************************)
EXTENDS DynCode, TLAPS

\* Whether thread t is in a bundle of the extent e.
In(t, e) == at[t] # Nowhere /\ at[t][1] \in e

\* No bundle of the extent e can be entered, and no thread is in one.
Halted(e) == \A b \in e : head[b] = Halt
Vacant(e) == \A t \in Threads : ~In(t, e)

\* The load mutex is held where the code holds it.
LockInv == \A t \in Threads : pc[t] \in Loading => load_mutex = t

\* Threads in the code area are running, and in the table.
PlaceInv ==
  \A t \in Threads : /\ at[t] # Nowhere => pc[t] = "user"
                     /\ pc[t] \notin {"none", "made"} => t \in table

\* A thread's generation is not ahead of the application's, nor of the one it
\* is about to record, and a deletion that has begun has a generation to take.
GenerationInv ==
  \A t \in Threads :
    /\ generation[t] <= app_generation
    /\ pc[t] \in {"own", "set"} => generation[t] <= gen[t] /\ gen[t] <= app_generation
    /\ pc[t] \in {"halts", "stamp"} => app_generation # MaxGeneration

\* The regions of the list are disjoint.
RegionInv ==
  /\ is_mmap \subseteq regions
  /\ \A r, s \in regions : r \cap s # {} => r = s

\* A bundle that can be entered is in a region that is not deleted, and complete.
HeadInv ==
  \A b \in Bundles : head[b] # Halt =>
    /\ tail[b] = head[b]
    /\ \E r \in regions : b \in r /\ delete_generation[r] = -1

\* A thread is in a region that it keeps from being removed.
InsideInv ==
  \A t \in Threads : at[t] # Nowhere =>
    /\ tail[at[t][1]] = at[t][2]
    /\ \E r \in regions : /\ at[t][1] \in r
                          /\ \/ delete_generation[r] = -1
                             \/ generation[t] < delete_generation[r]

\* A region that is being created.
CreateInv ==
  \A t \in Threads :
    /\ pc[t] \in {"tails", "heads"} =>
         /\ region[t] \in regions \ is_mmap /\ code[t] \in Code
         /\ delete_generation[region[t]] = -1
    /\ pc[t] = "tails" => Halted(region[t]) /\ Vacant(region[t])
    /\ pc[t] = "heads" => /\ todo[t] \subseteq region[t]
                          /\ \A b \in region[t] : tail[b] = code[t]

\* A region that is being mapped.
MmapInv ==
  /\ \A t \in Threads : pc[t] = "map" =>
       /\ region[t] \in is_mmap /\ code[t] \in Code
       /\ delete_generation[region[t]] = -1
       /\ Halted(region[t]) /\ Vacant(region[t])
  /\ \A t, u \in Threads :
       pc[t] = "map" /\ pc[u] = "map" /\ t # u => region[t] \cap region[u] = {}

\* A region that is being deleted.
DeleteInv ==
  \A t \in Threads :
    /\ pc[t] \in {"halts", "stamp"} =>
         /\ region[t] \in regions \ is_mmap
         /\ delete_generation[region[t]] = -1
         /\ Halted(region[t] \ todo[t])
         /\ todo[t] \subseteq region[t]
    /\ pc[t] = "stamp" => todo[t] = {}
    /\ pc[t] \in {"own", "scan", "count", "decide"} =>
         /\ region[t] \in regions \ is_mmap
         /\ delete_generation[region[t]] >= 0
    /\ pc[t] = "count" =>
         /\ todo[t] \subseteq Threads
         /\ \A u \in Threads : In(u, region[t]) => u \in todo[t] \/ gen[t] <= generation[u]
    /\ pc[t] = "decide" => \A u \in Threads : In(u, region[t]) => gen[t] <= generation[u]

\* The inductive invariant.
IInv == /\ TypeOK /\ LockInv /\ PlaceInv /\ GenerationInv
        /\ RegionInv /\ HeadInv /\ InsideInv
        /\ CreateInv /\ MmapInv /\ DeleteInv

-----------------------------------------------------------------------------

\* An extent is a range of bundles, and not empty.
LEMMA ExtentsInBundles ==
  ASSUME DynCodeConstants, NEW e \in Extents
  PROVE  e \subseteq Bundles /\ e # {}
  BY DEF Extents, DynCodeConstants

\* A region with a delete generation cannot be entered: nacl_dyncode_delete()
\* writes the halts before the generation.
LEMMA DeletedIsHalted ==
  ASSUME DynCodeConstants, TypeOK, RegionInv, HeadInv, NEW r \in regions,
         delete_generation[r] >= 0
  PROVE  Halted(r)
<1> SUFFICES ASSUME NEW b \in r, head[b] # Halt PROVE FALSE
  BY DEF Halted
<1>1. b \in Bundles
  BY ExtentsInBundles DEF TypeOK
<1>2. PICK s \in regions : b \in s /\ delete_generation[s] = -1
  BY <1>1 DEF HeadInv
<1>3. s = r
  BY <1>2 DEF RegionInv
<1> QED BY <1>2, <1>3

\* A range that NaClDynamicRegionFind() reports free can be neither entered nor
\* occupied: its regions were removed when they were empty.
LEMMA FreeIsUnused ==
  ASSUME DynCodeConstants, TypeOK, HeadInv, InsideInv, NEW e \in Extents,
         DynamicRegionFind(e) = {}
  PROVE  Halted(e) /\ Vacant(e)
<1>1. \A r \in regions : r \cap e = {}
  BY DEF DynamicRegionFind
<1>2. Halted(e)
  BY <1>1, ExtentsInBundles DEF HeadInv, Halted
<1>3. Vacant(e)
  BY <1>1 DEF InsideInv, Vacant, In
<1> QED BY <1>2, <1>3

\* A mapped region and one that was created do not meet.
LEMMA Disjoint ==
  ASSUME RegionInv, NEW r \in regions \ is_mmap, NEW s \in is_mmap
  PROVE  r \cap s = {}
  BY DEF RegionInv

\* When the minimum of the generations has reached the delete generation of the
\* region (the test before NaClDynamicRegionDelete), nobody is in the region.
LEMMA RemovedIsVacant ==
  ASSUME DynCodeConstants, IInv, NEW t \in Threads, pc[t] = "decide",
         delete_generation[region[t]] <= gen[t]
  PROVE  Vacant(region[t])
<1> SUFFICES ASSUME NEW u \in Threads, In(u, region[t]) PROVE FALSE
  BY DEF Vacant
<1>1. region[t] \in regions /\ delete_generation[region[t]] >= 0 /\ gen[t] <= generation[u]
  BY DEF IInv, DeleteInv
<1>2. PICK r \in regions : /\ at[u][1] \in r
                           /\ \/ delete_generation[r] = -1
                              \/ generation[u] < delete_generation[r]
  BY DEF IInv, InsideInv, In
<1>3. r = region[t]
  BY <1>1, <1>2 DEF IInv, RegionInv, In
<1>4. delete_generation[region[t]] \in Int /\ gen[t] \in Int /\ generation[u] \in Int
  BY <1>1 DEF IInv, TypeOK, Generation
<1> QED BY <1>1, <1>2, <1>3, <1>4

-----------------------------------------------------------------------------

(* One lemma for each action: it preserves the inductive invariant.        *)

\* A thread that enters a bundle enters complete code of a region that is not
\* deleted.
LEMMA EnterStep ==
  ASSUME DynCodeConstants, IInv, NEW t \in Threads, NEW b \in Bundles, Enter(t, b)
  PROVE  IInv'
<1> USE DEF IInv, text, bundles, locals
<1>1. TypeOK'
  BY ExtentsInBundles DEF Enter, TypeOK
<1>2. LockInv'
  BY DEF Enter, LockInv
<1>3. GenerationInv'
  BY DEF Enter, GenerationInv
<1>4. RegionInv'
  BY DEF Enter, RegionInv
<1>5. HeadInv'
  BY DEF Enter, HeadInv
<1>6. PlaceInv'
  BY DEF Enter, PlaceInv
<1>7. InsideInv'
  BY DEF Enter, InsideInv, HeadInv
<1>8. CreateInv'
  BY DEF Enter, CreateInv, Halted, Vacant, In
<1>9. MmapInv'
  BY DEF Enter, MmapInv, Halted, Vacant, In
<1>10. DeleteInv'
  <2>1. ASSUME NEW u \in Threads, pc[u] \in {"own", "scan", "count", "decide"}
      PROVE  b \notin region[u]
    <3>1. Halted(region[u])
      BY <2>1, DeletedIsHalted DEF DeleteInv
    <3> QED BY <3>1 DEF Enter, Halted
  <2> QED BY <2>1 DEF Enter, DeleteInv, In, Halted
<1> QED BY <1>1, <1>2, <1>3, <1>4, <1>5, <1>6, <1>7, <1>8, <1>9, <1>10

\* A thread that leaves the code area keeps no region from being removed.
LEMMA LeaveStep ==
  ASSUME DynCodeConstants, IInv, NEW t \in Threads, Leave(t)
  PROVE  IInv'
<1> USE DEF IInv, text, bundles, locals
<1>1. TypeOK'
  BY ExtentsInBundles DEF Leave, TypeOK
<1>2. LockInv'
  BY DEF Leave, LockInv
<1>3. GenerationInv'
  BY DEF Leave, GenerationInv
<1>4. RegionInv'
  BY DEF Leave, RegionInv
<1>5. HeadInv'
  BY DEF Leave, HeadInv
<1>6. PlaceInv'
  BY DEF Leave, PlaceInv
<1>7. InsideInv'
  BY DEF Leave, InsideInv
<1>8. CreateInv'
  BY DEF Leave, CreateInv, Halted, Vacant, In
<1>9. MmapInv'
  BY DEF Leave, MmapInv, Halted, Vacant, In
<1>10. DeleteInv'
  BY DEF Leave, DeleteInv, Halted, In
<1> QED BY <1>1, <1>2, <1>3, <1>4, <1>5, <1>6, <1>7, <1>8, <1>9, <1>10

\* A new thread starts with generation 0 and outside the code area.
LEMMA AppThreadMakeStep ==
  ASSUME DynCodeConstants, IInv, NEW t \in Threads, AppThreadMake(t)
  PROVE  IInv'
<1> USE DEF IInv, text, bundles, locals
<1>1. TypeOK'
  BY ExtentsInBundles DEF AppThreadMake, TypeOK, Generation, DynCodeConstants
<1>2. RegionInv'
  BY DEF AppThreadMake, RegionInv
<1>3. HeadInv'
  BY DEF AppThreadMake, HeadInv
<1>4. LockInv'
  BY DEF AppThreadMake, LockInv, Loading
<1>5. PlaceInv'
  BY DEF AppThreadMake, PlaceInv
<1>6. GenerationInv'
  BY DEF AppThreadMake, TypeOK, GenerationInv, Generation
<1>7. InsideInv'
  BY DEF AppThreadMake, InsideInv, PlaceInv
<1>8. CreateInv'
  BY DEF AppThreadMake, CreateInv, Halted, Vacant, In
<1>9. MmapInv'
  BY DEF AppThreadMake, MmapInv, Halted, Vacant, In
<1>10. DeleteInv'
  BY DEF AppThreadMake, DeleteInv, Halted, In, PlaceInv
<1> QED BY <1>1, <1>2, <1>3, <1>4, <1>5, <1>6, <1>7, <1>8, <1>9, <1>10

\* A thread is in the table before it can enter code.
LEMMA AddThreadStep ==
  ASSUME DynCodeConstants, IInv, NEW t \in Threads, AddThread(t)
  PROVE  IInv'
<1> USE DEF IInv, text, bundles, locals
<1>1. TypeOK'
  BY ExtentsInBundles DEF AddThread, TypeOK
<1>2. RegionInv'
  BY DEF AddThread, RegionInv
<1>3. HeadInv'
  BY DEF AddThread, HeadInv
<1>4. InsideInv'
  BY DEF AddThread, InsideInv
<1>5. LockInv'
  BY DEF AddThread, LockInv, Loading
<1>6. PlaceInv'
  BY DEF AddThread, PlaceInv
<1>7. GenerationInv'
  BY DEF AddThread, GenerationInv
<1>8. CreateInv'
  BY DEF AddThread, CreateInv, Halted, Vacant, In
<1>9. MmapInv'
  BY DEF AddThread, MmapInv, Halted, Vacant, In
<1>10. DeleteInv'
  BY DEF AddThread, DeleteInv, Halted, In
<1> QED BY <1>1, <1>2, <1>3, <1>4, <1>5, <1>6, <1>7, <1>8, <1>9, <1>10

\* A thread that leaves the table is outside the code area.
LEMMA AppThreadTeardownStep ==
  ASSUME DynCodeConstants, IInv, NEW t \in Threads, AppThreadTeardown(t)
  PROVE  IInv'
<1> USE DEF IInv, text, bundles, locals
<1>1. TypeOK'
  BY ExtentsInBundles DEF AppThreadTeardown, TypeOK
<1>2. RegionInv'
  BY DEF AppThreadTeardown, RegionInv
<1>3. HeadInv'
  BY DEF AppThreadTeardown, HeadInv
<1>4. InsideInv'
  BY DEF AppThreadTeardown, InsideInv
<1>5. LockInv'
  BY DEF AppThreadTeardown, LockInv, Loading
<1>6. PlaceInv'
  BY DEF AppThreadTeardown, Calling, TypeOK, PlaceInv
<1>7. GenerationInv'
  BY DEF AppThreadTeardown, GenerationInv
<1>8. CreateInv'
  BY DEF AppThreadTeardown, CreateInv, Halted, Vacant, In
<1>9. MmapInv'
  BY DEF AppThreadTeardown, MmapInv, Halted, Vacant, In
<1>10. DeleteInv'
  BY DEF AppThreadTeardown, DeleteInv, Halted, In
<1> QED BY <1>1, <1>2, <1>3, <1>4, <1>5, <1>6, <1>7, <1>8, <1>9, <1>10

\* A new region is entered in a range that is free.
LEMMA DyncodeCreateStep ==
  ASSUME DynCodeConstants, IInv, NEW t \in Threads, NEW e \in Extents, NEW c \in Code,
         DyncodeCreate(t, e, c)
  PROVE  IInv'
<1> USE DEF IInv, text, bundles, locals
<1>1. TypeOK'
  BY ExtentsInBundles DEF DyncodeCreate, DynamicRegionCreate, TypeOK, Loading
<1>2. LockInv'
  BY DEF DyncodeCreate, LockInv, DynCodeConstants
<1>3. PlaceInv'
  BY DEF DyncodeCreate, Calling, PlaceInv
<1>4. GenerationInv'
  BY DEF DyncodeCreate, GenerationInv
<1>5. RegionInv'
  BY DEF DyncodeCreate, DynamicRegionCreate, RegionInv, DynamicRegionFind
<1>6. HeadInv'
  BY DEF DyncodeCreate, DynamicRegionCreate, HeadInv
<1>7. InsideInv'
  BY DEF DyncodeCreate, DynamicRegionCreate, InsideInv
<1>8. CreateInv'
  <2>1. \A u \in Threads : pc[u] \notin Loading
    BY DEF DyncodeCreate, LockInv, DynCodeConstants
  <2>2. Halted(e) /\ Vacant(e)
    BY FreeIsUnused DEF DyncodeCreate, DynamicRegionCreate
  <2>3. e \notin is_mmap
    BY ExtentsInBundles DEF DyncodeCreate, DynamicRegionCreate, DynamicRegionFind,
       RegionInv
  <2> QED BY <2>1, <2>2, <2>3
          DEF DyncodeCreate, DynamicRegionCreate, CreateInv, TypeOK, Loading, Halted, Vacant, In
<1>9. MmapInv'
  BY DEF DyncodeCreate, Calling, DynamicRegionCreate, MmapInv, Halted, Vacant, In
<1>10. DeleteInv'
  <2>1. \A u \in Threads : pc[u] \notin Loading
    BY DEF DyncodeCreate, LockInv, DynCodeConstants
  <2>2. \A u \in Threads : pc'[u] \in {pc[u], "tails", "map"}
    BY DEF DyncodeCreate
  <2> QED BY <2>1, <2>2 DEF DeleteInv, Loading
<1> QED BY <1>1, <1>2, <1>3, <1>4, <1>5, <1>6, <1>7, <1>8, <1>9, <1>10

\* A region whose mapping fails stays in the list, halted.
LEMMA DyncodeCreateNoMapStep ==
  ASSUME DynCodeConstants, IInv, NEW t \in Threads, NEW e \in Extents,
         DyncodeCreateNoMap(t, e)
  PROVE  IInv'
<1> USE DEF IInv, text, bundles, locals
<1>1. TypeOK'
  BY ExtentsInBundles DEF DyncodeCreateNoMap, DynamicRegionCreate, TypeOK
<1>2. LockInv'
  BY DEF DyncodeCreateNoMap, LockInv
<1>3. PlaceInv'
  BY DEF DyncodeCreateNoMap, PlaceInv
<1>4. GenerationInv'
  BY DEF DyncodeCreateNoMap, GenerationInv
<1>5. RegionInv'
  BY DEF DyncodeCreateNoMap, DynamicRegionCreate, RegionInv, DynamicRegionFind
<1>6. HeadInv'
  BY DEF DyncodeCreateNoMap, DynamicRegionCreate, HeadInv
<1>7. InsideInv'
  BY DEF DyncodeCreateNoMap, DynamicRegionCreate, InsideInv
<1>8. CreateInv'
  BY DEF DyncodeCreateNoMap, DynamicRegionCreate, CreateInv, Halted, Vacant, In
<1>9. MmapInv'
  BY DEF DyncodeCreateNoMap, DynamicRegionCreate, MmapInv, Halted, Vacant, In
<1>10. DeleteInv'
  <2>1. \A u \in Threads : pc[u] \notin Loading
    BY DEF DyncodeCreateNoMap, LockInv, DynCodeConstants
  <2>2. \A u \in Threads : pc'[u] \in {pc[u], "tails", "map"}
    BY DEF DyncodeCreateNoMap
  <2> QED BY <2>1, <2>2 DEF DeleteInv, Loading
<1> QED BY <1>1, <1>2, <1>3, <1>4, <1>5, <1>6, <1>7, <1>8, <1>9, <1>10

\* The tails are written while the region is halted and vacant.
LEMMA CopyBundleTailsStep ==
  ASSUME DynCodeConstants, IInv, NEW t \in Threads, CopyBundleTails(t)
  PROVE  IInv'
<1> USE DEF IInv, text, bundles, locals
<1>1. TypeOK'
  BY ExtentsInBundles DEF CopyBundleTails, TypeOK, Loading
<1>2. RegionInv'
  BY DEF CopyBundleTails, RegionInv
<1>3. LockInv'
  BY DEF CopyBundleTails, TypeOK, LockInv
<1>4. PlaceInv'
  BY DEF CopyBundleTails, PlaceInv
<1>5. GenerationInv'
  BY DEF CopyBundleTails, GenerationInv
<1>6. HeadInv'
  BY DEF CopyBundleTails, HeadInv, CreateInv, Halted
<1>7. InsideInv'
  BY DEF CopyBundleTails, TypeOK, InsideInv, CreateInv, Vacant, In
<1>8. CreateInv'
  <2>1. \A u \in Threads : u # t => pc[u] \notin Loading
    BY DEF CopyBundleTails, LockInv, Loading
  <2>2. region[t] \subseteq Bundles
    BY ExtentsInBundles DEF TypeOK
  <2> QED BY <2>1, <2>2 DEF CopyBundleTails, CreateInv, TypeOK
<1>9. MmapInv'
  BY DEF CopyBundleTails, MmapInv, Halted, Vacant, In
<1>10. DeleteInv'
  BY DEF CopyBundleTails, TypeOK, DeleteInv, LockInv
<1> QED BY <1>1, <1>2, <1>3, <1>4, <1>5, <1>6, <1>7, <1>8, <1>9, <1>10

\* A head is written when its tail is complete.
LEMMA CopyBundleHeadsStep ==
  ASSUME DynCodeConstants, IInv, NEW t \in Threads, NEW b \in Bundles,
         CopyBundleHeads(t, b)
  PROVE  IInv'
<1> USE DEF IInv, text, bundles, locals
<1>1. TypeOK'
  BY ExtentsInBundles DEF CopyBundleHeads, Return, TypeOK, Loading, Generation,
     DynCodeConstants
<1>2. RegionInv'
  BY DEF CopyBundleHeads, RegionInv
<1>3. InsideInv'
  BY DEF CopyBundleHeads, InsideInv
<1>4. LockInv'
  BY DEF CopyBundleHeads, Return, TypeOK, LockInv, Loading
<1>5. PlaceInv'
  BY DEF CopyBundleHeads, Return, TypeOK, PlaceInv
<1>6. GenerationInv'
  BY DEF CopyBundleHeads, Return, TypeOK, GenerationInv
<1>7. HeadInv'
  BY DEF CopyBundleHeads, HeadInv, CreateInv
<1>8. CreateInv'
  BY DEF CopyBundleHeads, Return, TypeOK, CreateInv, LockInv
<1>9. MmapInv'
  BY DEF CopyBundleHeads, Return, TypeOK, MmapInv, RegionInv, CreateInv, DeleteInv,
     Halted, Vacant, In, InsideInv, HeadInv
<1>10. DeleteInv'
  BY DEF CopyBundleHeads, Return, TypeOK, DeleteInv, LockInv
<1> QED BY <1>1, <1>2, <1>3, <1>4, <1>5, <1>6, <1>7, <1>8, <1>9, <1>10

\* A mapped region is entered in a range that is free.
LEMMA MmapRegionStep ==
  ASSUME DynCodeConstants, IInv, NEW t \in Threads, NEW e \in Extents, NEW c \in Code,
         MmapRegion(t, e, c)
  PROVE  IInv'
<1> USE DEF IInv, text, bundles, locals
<1>1. TypeOK'
  BY ExtentsInBundles DEF MmapRegion, DynamicRegionCreate, TypeOK
<1>2. LockInv'
  BY DEF MmapRegion, LockInv, Loading
<1>3. PlaceInv'
  BY DEF MmapRegion, Calling, PlaceInv
<1>4. GenerationInv'
  BY DEF MmapRegion, GenerationInv
<1>5. RegionInv'
  BY DEF MmapRegion, DynamicRegionCreate, RegionInv, DynamicRegionFind
<1>6. HeadInv'
  BY DEF MmapRegion, DynamicRegionCreate, HeadInv
<1>7. InsideInv'
  BY DEF MmapRegion, DynamicRegionCreate, InsideInv
<1>8. CreateInv'
  <2>1. \A u \in Threads : pc[u] \notin Loading
    BY DEF MmapRegion, LockInv, DynCodeConstants
  <2> QED BY <2>1 DEF MmapRegion, CreateInv, TypeOK
<1>9. MmapInv'
  <2>1. Halted(e) /\ Vacant(e)
    BY FreeIsUnused DEF MmapRegion, DynamicRegionCreate
  <2>2. \A r \in is_mmap : r \cap e = {}
    BY DEF MmapRegion, DynamicRegionCreate, DynamicRegionFind, RegionInv
  <2> QED BY <2>1, <2>2
          DEF MmapRegion, DynamicRegionCreate, MmapInv, TypeOK, Halted, Vacant, In
<1>10. DeleteInv'
  <2>1. \A u \in Threads : pc[u] \notin Loading
    BY DEF MmapRegion, LockInv, DynCodeConstants
  <2>2. \A u \in Threads : pc'[u] \in {pc[u], "tails", "map"}
    BY DEF MmapRegion
  <2> QED BY <2>1, <2>2 DEF DeleteInv, Loading
<1> QED BY <1>1, <1>2, <1>3, <1>4, <1>5, <1>6, <1>7, <1>8, <1>9, <1>10

\* The pages of a mapped region appear while nobody can be in it.
LEMMA MmapPagesStep ==
  ASSUME DynCodeConstants, IInv, NEW t \in Threads, MmapPages(t)
  PROVE  IInv'
<1> USE DEF IInv, text, bundles, locals
<1>1. TypeOK'
  BY ExtentsInBundles DEF MmapPages, Return, TypeOK, Generation, DynCodeConstants
<1>2. RegionInv'
  BY DEF MmapPages, RegionInv
<1>3. LockInv'
  BY DEF MmapPages, Return, LockInv, Loading
<1>4. PlaceInv'
  BY DEF MmapPages, Return, PlaceInv
<1>5. GenerationInv'
  BY DEF MmapPages, Return, GenerationInv
<1>6. HeadInv'
  BY DEF MmapPages, HeadInv, MmapInv, RegionInv
<1>7. InsideInv'
  BY DEF MmapPages, TypeOK, InsideInv, MmapInv, Vacant, In
<1>8. CreateInv'
  <2>1. ASSUME NEW u \in Threads, pc[u] \in {"tails", "heads"}
      PROVE  region[u] \cap region[t] = {} /\ region[u] \subseteq Bundles
    BY <2>1, Disjoint, ExtentsInBundles DEF MmapPages, CreateInv, MmapInv, TypeOK
  <2> QED BY <2>1 DEF MmapPages, Return, CreateInv, Halted, Vacant, In
<1>9. MmapInv'
  <2>1. ASSUME NEW u \in Threads, u # t, pc[u] = "map"
      PROVE  region[u] \cap region[t] = {} /\ region[u] \subseteq Bundles
    BY <2>1, ExtentsInBundles DEF MmapPages, MmapInv, TypeOK
  <2> QED BY <2>1 DEF MmapPages, Return, MmapInv, TypeOK, Halted, Vacant, In
<1>10. DeleteInv'
  <2>1. ASSUME NEW u \in Threads, pc[u] \in {"halts", "stamp"}
      PROVE  region[u] \cap region[t] = {} /\ region[u] \subseteq Bundles
    <3>1. region[u] \in regions \ is_mmap /\ region[t] \in is_mmap
      BY <2>1 DEF MmapPages, DeleteInv, MmapInv
    <3>2. region[u] \in Extents
      BY <3>1 DEF TypeOK
    <3> QED BY <3>1, <3>2, Disjoint, ExtentsInBundles
  <2> QED BY <2>1 DEF MmapPages, Return, DeleteInv, Halted, In
<1> QED BY <1>1, <1>2, <1>3, <1>4, <1>5, <1>6, <1>7, <1>8, <1>9, <1>10

\* The first delete of a region leaves it as it is but for the lock.
LEMMA DyncodeDeleteStep ==
  ASSUME DynCodeConstants, IInv, NEW t \in Threads, NEW e \in Extents, DyncodeDelete(t,
         e)
  PROVE  IInv'
<1> USE DEF IInv, text, bundles, locals
<1>1. TypeOK'
  BY ExtentsInBundles DEF DyncodeDelete, TypeOK, Loading
<1>2. RegionInv'
  BY DEF DyncodeDelete, RegionInv
<1>3. HeadInv'
  BY DEF DyncodeDelete, HeadInv
<1>4. InsideInv'
  BY DEF DyncodeDelete, InsideInv
<1>5. LockInv'
  BY DEF DyncodeDelete, LockInv, DynCodeConstants
<1>6. PlaceInv'
  BY DEF DyncodeDelete, Calling, PlaceInv
<1>7. GenerationInv'
  BY DEF DyncodeDelete, GenerationInv
<1>8. CreateInv'
  BY DEF DyncodeDelete, Calling, CreateInv, Halted, Vacant, In
<1>9. MmapInv'
  BY DEF DyncodeDelete, Calling, MmapInv, Halted, Vacant, In
<1>10. DeleteInv'
  <2>1. \A u \in Threads : pc[u] \notin Loading
    BY DEF DyncodeDelete, LockInv, DynCodeConstants
  <2>2. delete_generation[e] = -1
    BY DEF DyncodeDelete, TypeOK, Generation
  <2> QED BY <2>1, <2>2 DEF DyncodeDelete, DeleteInv, TypeOK, Halted
<1> QED BY <1>1, <1>2, <1>3, <1>4, <1>5, <1>6, <1>7, <1>8, <1>9, <1>10

\* A later delete fetches the generation under the load mutex.
LEMMA DyncodeDeleteAgainStep ==
  ASSUME DynCodeConstants, IInv, NEW t \in Threads, NEW e \in Extents,
         DyncodeDeleteAgain(t, e)
  PROVE  IInv'
<1> USE DEF IInv, text, bundles, locals
<1>1. TypeOK'
  BY ExtentsInBundles DEF DyncodeDeleteAgain, TypeOK, Loading
<1>2. RegionInv'
  BY DEF DyncodeDeleteAgain, RegionInv
<1>3. HeadInv'
  BY DEF DyncodeDeleteAgain, HeadInv
<1>4. InsideInv'
  BY DEF DyncodeDeleteAgain, InsideInv
<1>5. LockInv'
  BY DEF DyncodeDeleteAgain, LockInv, DynCodeConstants
<1>6. PlaceInv'
  BY DEF DyncodeDeleteAgain, Calling, PlaceInv
<1>7. GenerationInv'
  BY DEF DyncodeDeleteAgain, TypeOK, GenerationInv, Generation
<1>8. CreateInv'
  BY DEF DyncodeDeleteAgain, Calling, CreateInv, Halted, Vacant, In
<1>9. MmapInv'
  BY DEF DyncodeDeleteAgain, Calling, MmapInv, Halted, Vacant, In
<1>10. DeleteInv'
  BY DEF DyncodeDeleteAgain, TypeOK, DeleteInv, Halted, In
<1> QED BY <1>1, <1>2, <1>3, <1>4, <1>5, <1>6, <1>7, <1>8, <1>9, <1>10

\* The heads of a deleted region are closed one by one; threads stay inside.
LEMMA ReplaceBundleHeadsWithHaltsStep ==
  ASSUME DynCodeConstants, IInv, NEW t \in Threads, NEW b \in Bundles,
         ReplaceBundleHeadsWithHalts(t, b)
  PROVE  IInv'
<1> USE DEF IInv, text, bundles, locals
<1>1. TypeOK'
  BY ExtentsInBundles DEF ReplaceBundleHeadsWithHalts, TypeOK, Loading
<1>2. RegionInv'
  BY DEF ReplaceBundleHeadsWithHalts, RegionInv
<1>3. InsideInv'
  BY DEF ReplaceBundleHeadsWithHalts, InsideInv
<1>4. LockInv'
  BY DEF ReplaceBundleHeadsWithHalts, TypeOK, LockInv
<1>5. PlaceInv'
  BY DEF ReplaceBundleHeadsWithHalts, PlaceInv
<1>6. GenerationInv'
  BY DEF ReplaceBundleHeadsWithHalts, GenerationInv
<1>7. HeadInv'
  BY DEF ReplaceBundleHeadsWithHalts, HeadInv
<1>8. CreateInv'
  BY DEF ReplaceBundleHeadsWithHalts, TypeOK, CreateInv, LockInv
<1>9. MmapInv'
  BY DEF ReplaceBundleHeadsWithHalts, MmapInv, Halted, Vacant, In
<1>10. DeleteInv'
  BY DEF ReplaceBundleHeadsWithHalts, TypeOK, DeleteInv, LockInv, Halted
<1> QED BY <1>1, <1>2, <1>3, <1>4, <1>5, <1>6, <1>7, <1>8, <1>9, <1>10

\* The region's delete generation is newer than that of every thread inside.
LEMMA RecordGenerationStep ==
  ASSUME DynCodeConstants, IInv, NEW t \in Threads, RecordGeneration(t)
  PROVE  IInv'
<1> USE DEF IInv, text, bundles, locals
<1>a. /\ app_generation' = app_generation + 1
      /\ app_generation' \in Generation /\ app_generation' > app_generation
  <2>1. app_generation # MaxGeneration
    BY DEF RecordGeneration, GenerationInv
  <2>2. app_generation \in 0 .. MaxGeneration /\ MaxGeneration \in Nat
    BY DEF TypeOK, Generation, DynCodeConstants
  <2>3. app_generation' = app_generation + 1
    BY DEF RecordGeneration
  <2> QED BY <2>1, <2>2, <2>3 DEF Generation
<1>b. region[t] \in Extents
  BY DEF RecordGeneration, DeleteInv, TypeOK
<1>1. TypeOK'
  BY <1>a, <1>b DEF RecordGeneration, TypeOK, Loading
<1>2. RegionInv'
  BY DEF RecordGeneration, RegionInv
<1>3. LockInv'
  BY DEF RecordGeneration, TypeOK, LockInv
<1>4. PlaceInv'
  BY DEF RecordGeneration, PlaceInv
<1>5. GenerationInv'
  <2>1. \A u \in Threads : u # t => pc[u] \notin Loading
    BY DEF RecordGeneration, LockInv, Loading
  <2> QED BY <1>a, <2>1
          DEF RecordGeneration, GenerationInv, TypeOK, Generation, Loading, DynCodeConstants
<1>6. HeadInv'
  BY DEF RecordGeneration, HeadInv, DeleteInv, Halted
<1>7. InsideInv'
  <2>1. \A u \in Threads : generation[u] < app_generation'
    BY <1>a DEF GenerationInv, TypeOK, Generation
  <2> QED BY <1>b, <2>1 DEF RecordGeneration, InsideInv
<1>8. CreateInv'
  BY DEF RecordGeneration, TypeOK, CreateInv, LockInv
<1>9. MmapInv'
  BY DEF RecordGeneration, MmapInv, DeleteInv, Halted, Vacant, In
<1>10. DeleteInv'
  <2>1. \A u \in Threads : u # t => pc[u] \notin Loading
    BY DEF RecordGeneration, LockInv, Loading
  <2>2. app_generation' >= 0
    BY <1>a DEF Generation
  <2> QED BY <1>b, <2>1, <2>2 DEF RecordGeneration, DeleteInv, TypeOK
<1> QED BY <1>1, <1>2, <1>3, <1>4, <1>5, <1>6, <1>7, <1>8, <1>9, <1>10

\* A thread checks in outside the code area, with a generation not older than
\* its last one: the CHECK holds.
LEMMA SetThreadGenerationStep ==
  ASSUME DynCodeConstants, IInv, NEW t \in Threads, SetThreadGeneration(t)
  PROVE  IInv'
<1> USE DEF IInv, text, bundles, locals
<1>a. /\ generation' = [generation EXCEPT ![t] = gen[t]]
      /\ generation[t] <= gen[t] /\ gen[t] <= app_generation
      /\ AfterSet(t)
      /\ UNCHANGED <<text, load_mutex, threads_mu, table, bundles, at>>
  BY DEF SetThreadGeneration, GenerationInv
<1>1. TypeOK'
  BY <1>a DEF AfterSet, Return, TypeOK, Generation, Loading, DynCodeConstants
<1>2. RegionInv'
  BY DEF SetThreadGeneration, RegionInv
<1>3. HeadInv'
  BY DEF SetThreadGeneration, HeadInv
<1>4. LockInv'
  BY <1>a DEF AfterSet, Return, LockInv, Loading, TypeOK
<1>5. PlaceInv'
  BY <1>a DEF AfterSet, Return, PlaceInv, TypeOK
<1>6. GenerationInv'
  BY <1>a DEF AfterSet, Return, GenerationInv, TypeOK
<1>7. InsideInv'
  BY DEF SetThreadGeneration, TypeOK, InsideInv, PlaceInv
<1>8. CreateInv'
  BY <1>a DEF AfterSet, Return, CreateInv, TypeOK, Halted, Vacant, In
<1>9. MmapInv'
  BY <1>a DEF AfterSet, Return, MmapInv, TypeOK, Halted, Vacant, In
<1>10. DeleteInv'
  <2>1. \A u \in Threads : generation[u] <= generation'[u]
    BY <1>a DEF TypeOK, Generation
  <2>2. \A u \in Threads : \/ u # t /\ pc'[u] = pc[u] /\ region'[u] = region[u]
                              /\ todo'[u] = todo[u] /\ gen'[u] = gen[u]
                           \/ u = t /\ pc[u] = "own" /\ pc'[u] = "scan" /\ region'[u] = region[u]
                           \/ u = t /\ pc'[u] = "user"
    BY <1>a DEF AfterSet, Return, TypeOK
  <2> QED BY <1>a, <2>1, <2>2 DEF DeleteInv, Halted, In, TypeOK, Generation
<1> QED BY <1>1, <1>2, <1>3, <1>4, <1>5, <1>6, <1>7, <1>8, <1>9, <1>10

\* The scan starts from the table, which holds every thread that can be inside.
LEMMA ScanThreadsStep ==
  ASSUME DynCodeConstants, IInv, NEW t \in Threads, ScanThreads(t)
  PROVE  IInv'
<1> USE DEF IInv, text, bundles, locals
<1>1. TypeOK'
  BY ExtentsInBundles DEF ScanThreads, TypeOK, Loading, Generation, DynCodeConstants
<1>2. RegionInv'
  BY DEF ScanThreads, RegionInv
<1>3. HeadInv'
  BY DEF ScanThreads, HeadInv
<1>4. InsideInv'
  BY DEF ScanThreads, InsideInv
<1>5. LockInv'
  BY DEF ScanThreads, TypeOK, LockInv
<1>6. PlaceInv'
  BY DEF ScanThreads, PlaceInv
<1>7. GenerationInv'
  BY DEF ScanThreads, GenerationInv
<1>8. CreateInv'
  BY DEF ScanThreads, TypeOK, CreateInv, LockInv
<1>9. MmapInv'
  BY DEF ScanThreads, MmapInv, Halted, Vacant, In
<1>10. DeleteInv'
  BY DEF ScanThreads, TypeOK, DeleteInv, Halted, In, PlaceInv
<1> QED BY <1>1, <1>2, <1>3, <1>4, <1>5, <1>6, <1>7, <1>8, <1>9, <1>10

\* After the scan the minimum bounds the generation of every thread inside,
\* although threads check in, and enter code, meanwhile.
LEMMA MinimumThreadGenerationStep ==
  ASSUME DynCodeConstants, IInv, NEW t \in Threads, NEW u \in Threads,
         MinimumThreadGeneration(t, u)
  PROVE  IInv'
<1> USE DEF IInv, text, bundles, locals
<1>1. TypeOK'
  BY ExtentsInBundles DEF MinimumThreadGeneration, TypeOK, Loading
<1>2. RegionInv'
  BY DEF MinimumThreadGeneration, RegionInv
<1>3. HeadInv'
  BY DEF MinimumThreadGeneration, HeadInv
<1>4. InsideInv'
  BY DEF MinimumThreadGeneration, InsideInv
<1>5. LockInv'
  BY DEF MinimumThreadGeneration, TypeOK, LockInv
<1>6. PlaceInv'
  BY DEF MinimumThreadGeneration, TypeOK, PlaceInv
<1>7. GenerationInv'
  BY DEF MinimumThreadGeneration, TypeOK, GenerationInv
<1>8. CreateInv'
  BY DEF MinimumThreadGeneration, TypeOK, CreateInv, LockInv
<1>9. MmapInv'
  BY DEF MinimumThreadGeneration, TypeOK, MmapInv, Halted, Vacant, In
<1>10. DeleteInv'
  <2>1. \A v \in Threads : v # t => pc[v] \notin Loading
    BY DEF MinimumThreadGeneration, LockInv, Loading
  <2>2. gen'[t] <= gen[t] /\ gen'[t] <= generation[u]
    BY DEF MinimumThreadGeneration, TypeOK, Generation
  <2>3. \A v \in Threads : generation[v] \in Int /\ gen[v] \in Int /\ gen'[v] \in Int
    BY DEF MinimumThreadGeneration, TypeOK, Generation
  <2>4. /\ todo'[t] = todo[t] \ {u} /\ region' = region
        /\ pc'[t] = IF todo[t] = {u} THEN "decide" ELSE "count"
    BY DEF MinimumThreadGeneration, TypeOK
  <2>5. region[t] \in regions \ is_mmap /\ delete_generation[region[t]] >= 0 /\ todo[t] \subseteq Threads
    BY DEF MinimumThreadGeneration, DeleteInv
  <2>6. ASSUME NEW v \in Threads, In(v, region[t])
        PROVE  v \in todo'[t] \/ gen'[t] <= generation[v]
    <3>1. v \in todo[t] \/ gen[t] <= generation[v]
      BY <2>6 DEF MinimumThreadGeneration, DeleteInv
    <3> QED BY <2>2, <2>3, <2>4, <3>1
  <2>7. \A v \in Threads : v # t => pc'[v] = pc[v]
    BY DEF MinimumThreadGeneration, TypeOK
  <2>8. UNCHANGED <<regions, is_mmap, delete_generation, at, generation, head>>
    BY DEF MinimumThreadGeneration
  <2> QED BY <2>1, <2>4, <2>5, <2>6, <2>7, <2>8 DEF DeleteInv, Loading, In
<1> QED BY <1>1, <1>2, <1>3, <1>4, <1>5, <1>6, <1>7, <1>8, <1>9, <1>10

\* A region is removed when nobody is inside, or stays for EAGAIN.
LEMMA RemoveRegionStep ==
  ASSUME DynCodeConstants, IInv, NEW t \in Threads, RemoveRegion(t)
  PROVE  IInv'
<1> USE DEF IInv, text, bundles, locals
<1>1. TypeOK'
  <2>1. regions' \subseteq Extents /\ delete_generation' \in [Extents -> {-1} \cup Generation]
    BY DEF RemoveRegion, TypeOK
  <2> QED BY <2>1 DEF RemoveRegion, Return, TypeOK, Generation, DynCodeConstants
<1>2. LockInv'
  BY DEF RemoveRegion, Return, TypeOK, LockInv, Loading
<1>3. PlaceInv'
  BY DEF RemoveRegion, Return, PlaceInv
<1>4. GenerationInv'
  BY DEF RemoveRegion, Return, GenerationInv
<1>5. RegionInv'
  <2>1. region[t] \notin is_mmap
    BY DEF RemoveRegion, DeleteInv
  <2>2. is_mmap' = is_mmap /\ regions' \in {regions, regions \ {region[t]}}
    BY DEF RemoveRegion
  <2> QED BY <2>1, <2>2 DEF RegionInv
<1>6. HeadInv'
  BY DEF RemoveRegion, TypeOK, HeadInv, DeleteInv, Halted
<1>7. InsideInv'
  <2>1. CASE delete_generation[region[t]] > gen[t]
    BY <2>1 DEF RemoveRegion, InsideInv, TypeOK, Generation
  <2>2. CASE delete_generation[region[t]] <= gen[t]
    <3>1. Vacant(region[t])
      BY <2>2, RemovedIsVacant DEF RemoveRegion
    <3>2. region[t] \in regions /\ region[t] \in Extents
      BY DEF RemoveRegion, DeleteInv, TypeOK
    <3>3. regions' = regions \ {region[t]}
          /\ delete_generation' = [delete_generation EXCEPT ![region[t]] = -1]
          /\ UNCHANGED <<at, tail, generation>>
      BY <2>2 DEF RemoveRegion
    <3> QED BY <3>1, <3>2, <3>3 DEF InsideInv, Vacant, In
  <2>3. delete_generation[region[t]] \in Int /\ gen[t] \in Int
    <3>1. region[t] \in Extents
      BY DEF RemoveRegion, DeleteInv, TypeOK
    <3> QED BY <3>1 DEF TypeOK, Generation
  <2> QED BY <2>1, <2>2, <2>3
<1>8. CreateInv'
  BY DEF RemoveRegion, Return, TypeOK, CreateInv, LockInv
<1>9. MmapInv'
  BY DEF RemoveRegion, Return, TypeOK, MmapInv, Halted, Vacant, In
<1>10. DeleteInv'
  BY DEF RemoveRegion, Return, TypeOK, DeleteInv, LockInv
<1> QED BY <1>1, <1>2, <1>3, <1>4, <1>5, <1>6, <1>7, <1>8, <1>9, <1>10

\* A check-in fetches a generation that is not older than the thread's own.
LEMMA CheckInStep ==
  ASSUME DynCodeConstants, IInv, NEW t \in Threads, CheckIn(t)
  PROVE  IInv'
<1> USE DEF IInv, text, bundles, locals
<1>1. TypeOK'
  BY ExtentsInBundles DEF CheckIn, TypeOK
<1>2. RegionInv'
  BY DEF CheckIn, RegionInv
<1>3. HeadInv'
  BY DEF CheckIn, HeadInv
<1>4. InsideInv'
  BY DEF CheckIn, InsideInv
<1>5. LockInv'
  BY DEF CheckIn, LockInv, Loading
<1>6. PlaceInv'
  BY DEF CheckIn, Calling, PlaceInv
<1>7. GenerationInv'
  BY DEF CheckIn, TypeOK, GenerationInv, Generation
<1>8. CreateInv'
  BY DEF CheckIn, CreateInv, Halted, Vacant, In
<1>9. MmapInv'
  BY DEF CheckIn, MmapInv, Halted, Vacant, In
<1>10. DeleteInv'
  BY DEF CheckIn, Calling, DeleteInv, Halted, In
<1> QED BY <1>1, <1>2, <1>3, <1>4, <1>5, <1>6, <1>7, <1>8, <1>9, <1>10

-----------------------------------------------------------------------------

\* The initial states satisfy the inductive invariant: nothing is loaded and
\* only the main thread runs.
LEMMA InitIInv ==
  ASSUME DynCodeConstants, Init
  PROVE  IInv
<1> USE DEF Init
<1>1. TypeOK
  BY DEF TypeOK, Generation, DynCodeConstants
<1>2. LockInv /\ PlaceInv /\ GenerationInv
  BY DEF LockInv, PlaceInv, GenerationInv, Loading
<1>3. RegionInv /\ HeadInv /\ InsideInv
  BY DEF RegionInv, HeadInv, InsideInv
<1>4. CreateInv /\ MmapInv /\ DeleteInv
  BY DEF CreateInv, MmapInv, DeleteInv
<1> QED BY <1>1, <1>2, <1>3, <1>4 DEF IInv

\* A step that leaves the variables alone preserves the inductive invariant.
LEMMA StutterStep ==
  ASSUME IInv, UNCHANGED vars
  PROVE  IInv'
<1> USE DEF IInv, vars, text, bundles, locals
<1>1. TypeOK'
  BY DEF TypeOK
<1>2. LockInv' /\ PlaceInv' /\ GenerationInv'
  BY DEF LockInv, PlaceInv, GenerationInv
<1>3. RegionInv' /\ HeadInv' /\ InsideInv'
  BY DEF RegionInv, HeadInv, InsideInv
<1>4. CreateInv'
  BY DEF CreateInv, Halted, Vacant, In
<1>5. MmapInv'
  BY DEF MmapInv, Halted, Vacant, In
<1>6. DeleteInv'
  BY DEF DeleteInv, Halted, In
<1> QED BY <1>1, <1>2, <1>3, <1>4, <1>5, <1>6

\* Every step of the specification preserves the inductive invariant.
LEMMA NextStep ==
  ASSUME DynCodeConstants, IInv, [Next]_vars
  PROVE  IInv'
<1>1. CASE UNCHANGED vars
  BY <1>1, StutterStep
<1>2. ASSUME NEW t \in Threads, Program(t) PROVE IInv'
  BY <1>2, EnterStep, LeaveStep, AppThreadMakeStep, AddThreadStep,
     AppThreadTeardownStep,
     DyncodeCreateStep, DyncodeCreateNoMapStep, MmapRegionStep, DyncodeDeleteStep,
     DyncodeDeleteAgainStep, CheckInStep DEF Program
<1>3. ASSUME NEW t \in Threads, Runtime(t) PROVE IInv'
  BY <1>3, CopyBundleTailsStep, CopyBundleHeadsStep, MmapPagesStep,
     ReplaceBundleHeadsWithHaltsStep, RecordGenerationStep, SetThreadGenerationStep,
     ScanThreadsStep, MinimumThreadGenerationStep, RemoveRegionStep DEF Runtime
<1> QED BY <1>1, <1>2, <1>3 DEF Next

\* The inductive invariant holds in every reachable state, for any number of
\* threads, bundles, pieces of code and generations.
THEOREM Invariance ==
  ASSUME DynCodeConstants
  PROVE  Spec => []IInv
<1>1. Init => IInv
  BY InitIInv
<1>2. IInv /\ [Next]_vars => IInv'
  BY NextStep
<1> QED BY <1>1, <1>2, PTL DEF Spec

\* The variables keep their types; in particular the CHECK that generations
\* only grow (NaClSetThreadGeneration) never fails.
THEOREM Typing ==
  ASSUME DynCodeConstants
  PROVE  Spec => []TypeOK
<1>1. IInv => TypeOK
  BY DEF IInv
<1> QED BY <1>1, Invariance, PTL

\* A thread that has entered a bundle of dynamic code finds in its tail the
\* code it entered, although NaClTextDyncodeCreate() may load other code into
\* the range of a deleted region while threads run.
THEOREM EnteredCodeStays ==
  ASSUME DynCodeConstants
  PROVE  Spec => []NoMixedCode
<1>1. IInv => NoMixedCode
  BY DEF IInv, InsideInv, NoMixedCode
<1> QED BY <1>1, Invariance, PTL

\* A step that shortens the region list is the end of a deletion, and nobody
\* is in the region that goes.
LEMMA OnlyRemoveRegion ==
  ASSUME DynCodeConstants, IInv, Next, NEW r \in regions \ regions'
  PROVE  Vacant(r)
<1>1. PICK t \in Threads : Program(t) \/ Runtime(t)
  BY DEF Next
<1>2. CASE Program(t)
  BY <1>2 DEF Program, text, Enter, Leave, AppThreadMake, AddThread, AppThreadTeardown,
     DyncodeCreate, DyncodeCreateNoMap, DynamicRegionCreate, MmapRegion, DyncodeDelete,
     DyncodeDeleteAgain, CheckIn
<1>3. CASE RemoveRegion(t)
  <2>1. delete_generation[region[t]] <= gen[t] /\ r = region[t] /\ pc[t] = "decide"
    BY <1>3 DEF RemoveRegion
  <2> QED BY <2>1, RemovedIsVacant
<1>4. CASE Runtime(t) /\ ~RemoveRegion(t)
  BY <1>4 DEF Runtime, text, CopyBundleTails, CopyBundleHeads, MmapPages,
     ReplaceBundleHeadsWithHalts, RecordGeneration, SetThreadGeneration, ScanThreads,
     MinimumThreadGeneration
<1> QED BY <1>1, <1>2, <1>3, <1>4

\* A region is taken out of the list (NaClDynamicRegionDelete) only when no
\* thread is inside: the minimum of the generations decides rightly, although
\* threads check in, start, exit and enter code during the scan.
THEOREM RemovalIsSafe ==
  ASSUME DynCodeConstants
  PROVE  Spec => RemovedRegionsEmpty
<1>1. IInv /\ [Next]_vars =>
        [\A r \in regions \ regions', t \in Threads : at[t] # Nowhere => at[t][1] \notin r]_vars
  BY OnlyRemoveRegion DEF Vacant, In
<1> QED BY <1>1, Invariance, PTL DEF Spec, RemovedRegionsEmpty

=============================================================================
