---------------------------- MODULE AddressSpace ----------------------------
(***************************************************************************)
(* The memory map of the program (NaClVmmap, trusted/service_runtime/      *)
(* sel_mem.c) and the system calls that change it together with the host's *)
(* pages: mmap, munmap, mprotect and brk (sys_memory.c), each under one    *)
(* hold of nap->mu.                                                        *)
(*                                                                         *)
(* In the build for an enclave (NACL_SGX == 1) no call changes a mapping   *)
(* of the host: all pages stay as the enclave was built, mmap() returns the*)
(* memory as it is, and munmap() fills it with zeros.  There the contents  *)
(* of a page are what matters, so there the program stores to it.          *)
(*                                                                         *)
(* The map is an array of entries that are cut, extended and merged with   *)
(* new ones as the calls overlap them.  The runtime sorts it before each   *)
(* use, so here it is the set of its entries.  A page is the unit of       *)
(* allocation, and PageSize its bytes, of which few are enough.            *)
(***************************************************************************)
EXTENDS Integers, FiniteSets, FiniteSetsExt

CONSTANTS NumPages,        \* pages of the program; the first is its text, ...
          HeapStart,       \* ... this one its data, and the last its stack
          PageSize,
          FileSize,        \* bytes of the file that is mapped
          FilePages,       \* page offsets at which it is mapped
          Hints,           \* addresses mmap is given as hints
          Prots,           \* protections the program asks for
          Limit,           \* its calls name pages below this one
          Lengths,         \* and ranges of these lengths, mprotect() also of none
          MaxEntries,      \* calls that would leave more entries are not made
          Unmapped

\* What the constants must be.
AddressSpaceConstants ==
  /\ NumPages \in Nat /\ HeapStart \in 1 .. NumPages - 2
  /\ PageSize \in Nat \ {0} /\ FileSize \in Nat
  /\ FilePages \subseteq Nat /\ Lengths \subseteq Nat \ {0}
  /\ Limit \in 0 .. NumPages
  /\ Hints \subseteq 1 .. NumPages - 1
  /\ Prots \subseteq SUBSET {"r", "w"} /\ {"r", "w"} \in Prots
  /\ Unmapped \notin [prot : SUBSET {"r", "w", "x"}, desc : {"anon", "file", "text"}]

VARIABLES
  enclave,      \* NACL_SGX == 1; never changes
  mem_map,      \* nap->mem_map
  break_page,   \* nap->break_addr: the page after the break's
  host,         \* what is at each page; "none" are zeros
  host_prot,    \* and its protection at the host
  check,        \* the CHECKs of mprotect have held
  call          \* history: the last system call, and the pages it was for

vars == <<enclave, mem_map, break_page, host, host_prot, check, call>>

Operations == {"none", "mmap", "mmap_fixed", "munmap", "mprotect", "brk"}
Pages == 0 .. NumPages - 1
None == {}  Read == {"r"}  ReadWrite == {"r", "w"}

\* What can be behind an entry, with the protections NaClVmmapEntryMaxProt
\* allows it: anonymous memory, and a file opened for reading and shared.
Contents == [anon |-> Prots, file |-> Prots \cap SUBSET Read, text |-> {{"x"}}]
Allows(ent, prot) == prot \in Contents[ent.desc]

Entry(page_num, npages, prot, desc, offset) ==
  [page_num |-> page_num, npages |-> npages, prot |-> prot,
   desc |-> desc, offset |-> offset]
End(ent) == ent.page_num + ent.npages
Covers(ent, p) == ent.page_num <= p /\ p < End(ent)
PageRange(first, n) == first .. first + n - 1

Init ==
  /\ enclave \in BOOLEAN
  /\ mem_map = {Entry(0, 1, {"x"}, "text", 0), Entry(HeapStart, 1, ReadWrite, "anon", 0),
                Entry(NumPages - 1, 1, ReadWrite, "anon", 0)}
  /\ break_page = HeapStart + 1
  /\ host = [p \in Pages |-> CASE p = 0 -> "text"
                               [] p \in {HeapStart, NumPages - 1} -> "heap"
                               [] OTHER -> "none"]
  /\ host_prot = [p \in Pages |-> CASE p = 0 -> {"x"}
                                    [] p \in {HeapStart, NumPages - 1} -> ReadWrite
                                    [] OTHER -> None]
  /\ check = TRUE
  /\ call = [op |-> "none", first |-> 0, n |-> 0]

-----------------------------------------------------------------------------
(* The map: what NaClVmmapUpdate leaves of an entry when [first, end) is   *)
(* mapped or unmapped.                                                     *)

Later(ent, end) == [ent EXCEPT !.page_num = end, !.npages = End(ent) - end,
                               !.offset = @ + (end - ent.page_num) * PageSize]
Earlier(ent, first) == [ent EXCEPT !.npages = first - ent.page_num]

\* Whether the entry has nothing in [first, end), and what it has on either side.
Outside(ent, first, end) == End(ent) <= first \/ end <= ent.page_num
Before(ent, first) == IF ent.page_num < first THEN {Earlier(ent, first)} ELSE {}
After(ent, end) == IF end < End(ent) THEN {Later(ent, end)} ELSE {}

\* Mutant of Remains: an entry around the range is cut off at its start.
RemainsBefore(ent, first, end) ==
  IF Outside(ent, first, end) THEN {ent}
  ELSE IF ent.page_num < first THEN Before(ent, first) ELSE After(ent, end)

Remains(ent, first, end) ==
  IF Outside(ent, first, end) THEN {ent} ELSE Before(ent, first) \cup After(ent, end)

\* Mutant of VmmapRemove: the range ends one page later.
RemoveOneMore(first, n) == UNION {Remains(ent, first, first + n + 1) : ent \in mem_map}

VmmapRemove(first, n) == UNION {Remains(ent, first, first + n) : ent \in mem_map}
VmmapAddWithOverwrite(ent) == VmmapRemove(ent.page_num, ent.npages) \cup {ent}

FindPage(p) == {ent \in mem_map : Covers(ent, p)}

\* NaClVmmapCheckExistingMapping: going up through the entries, the range is
\* mapped without a hole, and each allows the protection.
CheckExistingMapping(first, n, prot) ==
  \A p \in PageRange(first, n) : \E ent \in FindPage(p) : Allows(ent, prot)

\* The part that NaClVmmapChangeProt cuts out of an entry.  Its offset counts
\* the pages before it where bytes are meant.
Part(ent, first, n, prot) ==
  Entry(first, n, prot, ent.desc, ent.offset + (first - ent.page_num))

\* Mutant of Changed: the part of an entry that begins before the range is as
\* long as the range.
ChangedTooLong(ent, first, end, prot) ==
  LET start == Max({ent.page_num, first})
      n == IF ent.page_num < first THEN end - first ELSE Min({End(ent), end}) - start
  IN  IF Outside(ent, first, end) THEN {ent}
      ELSE Before(ent, first) \cup After(ent, end) \cup {Part(ent, start, n, prot)}

\* What becomes of an entry when [first, end) gets a new protection.  The loop
\* carries the start of what is left of the range from entry to entry, and as
\* there is no hole that is where the next entry begins.  An entry within the
\* range is a part of itself.
Changed(ent, first, end, prot) ==
  LET start == Max({ent.page_num, first})
      n == Min({End(ent), end}) - start
  IN  IF Outside(ent, first, end) THEN {ent}
      ELSE Before(ent, first) \cup After(ent, end) \cup {Part(ent, start, n, prot)}

\* NaClVmmapChangeProt, when the mapping exists.
ChangeProt(first, n, prot) ==
  UNION {Changed(ent, first, first + n, prot) : ent \in mem_map}

\* The holes between two entries that follow each other.
Holes ==
  LET after(ent) == {e.page_num : e \in {f \in mem_map : f.page_num >= End(ent)}}
  IN  {<<End(ent), Min(after(ent))>> : ent \in {e \in mem_map : after(e) # {}}}

\* Mutant of FindMapSpace: the hole may be one page short.
FindShortSpace(n) ==
  LET fits == {hole \in Holes : hole[1] < hole[2] /\ hole[2] - hole[1] >= n - 1}
  IN  IF fits = {} THEN 0 ELSE Max({hole[2] : hole \in fits}) - n

\* NaClVmmapFindMapSpace: the end of the highest hole that is large enough.
FindMapSpace(n) ==
  LET fits == {hole \in Holes : hole[1] < hole[2] /\ hole[2] - hole[1] >= n}
  IN  IF fits = {} THEN 0 ELSE Max({hole[2] : hole \in fits}) - n

\* NaClVmmapFindMapSpaceAboveHint: the start of the lowest one at or above the
\* hint, or the hint when it is in a hole with that much left.
FindMapSpaceAboveHint(hint, n) ==
  LET above(hole) == IF hole[1] <= hint /\ hint < hole[2] THEN hint ELSE hole[1]
      fits == {hole \in Holes : hint <= above(hole) /\ hole[2] - above(hole) >= n
                                /\ hole[1] < hole[2]}
  IN  IF fits = {} THEN 0 ELSE Min({above(hole) : hole \in fits})

-----------------------------------------------------------------------------
(* The system calls.                                                       *)

Called(op, first, n) == call' = [op |-> op, first |-> first, n |-> n]

\* Map of a descriptor, or of none: NaClHostDescMap() of the enclave returns the
\* address it is given.
SetHost(range, what, prot) ==
  IF enclave THEN UNCHANGED <<host, host_prot>>
  ELSE /\ host' = [p \in Pages |-> IF p \in range THEN what ELSE host[p]]
       /\ host_prot' = [p \in Pages |-> IF p \in range THEN prot ELSE host_prot[p]]

\* The memory is filled with zeros, which in the enclave is all that happens.
Clear(range) ==
  /\ host' = [p \in Pages |-> IF p \in range THEN "none" ELSE host[p]]
  /\ host_prot' = [p \in Pages |-> IF p \in range /\ ~enclave THEN None ELSE host_prot[p]]

\* NaClSysCommonAddrRangeContainsExecutablePages, and the end of the space,
\* which is Limit.
Allowed(first, n) == first >= 1 /\ first + n <= Limit

\* mmap of anonymous memory at a page that has been chosen.
MapAnon(first, n, prot) ==
  /\ Allowed(first, n)
  /\ SetHost(PageRange(first, n), "anon", prot)
  /\ mem_map' = VmmapAddWithOverwrite(Entry(first, n, prot, "anon", 0))
  /\ UNCHANGED <<enclave, break_page, check>>

\* mmap of the file.  Pages past its end become inaccessible.
MapFile(first, n, prot, at) ==
  LET offset == at * PageSize
      InFile(p) == offset + (p - first) * PageSize < FileSize
  IN  /\ Allowed(first, n) /\ offset <= FileSize
      /\ \/ /\ ~enclave
            /\ host' = [p \in Pages |-> IF p \notin PageRange(first, n) THEN host[p]
                                        ELSE IF InFile(p) THEN "file" ELSE "beyond"]
            /\ host_prot' = [p \in Pages |-> IF p \notin PageRange(first, n) THEN host_prot[p]
                                             ELSE IF InFile(p) THEN prot ELSE None]
         \/ enclave /\ Clear({p \in PageRange(first, n) : ~InFile(p)})
      /\ mem_map' = VmmapAddWithOverwrite(Entry(first, n, prot, "file", offset))
      /\ UNCHANGED <<enclave, break_page, check>>

MapAt(first, n) ==
  \/ \E prot \in Prots : MapAnon(first, n, prot)
  \/ \E prot \in Contents.file, at \in FilePages : MapFile(first, n, prot, at)

\* MAP_FIXED, which replaces what was there.
MmapFixed(first, n) == MapAt(first, n) /\ Called("mmap_fixed", first, n)

\* NaClSysMmapIntern looks for room itself, near the hint if there is one.
MmapAnywhere(n) ==
  LET first == FindMapSpace(n) IN
  first # 0 /\ MapAt(first, n) /\ Called("mmap", first, n)

MmapAbove(hint, n) ==
  LET near == FindMapSpaceAboveHint(hint, n)
      first == IF near # 0 THEN near ELSE FindMapSpace(n)
  IN  first # 0 /\ MapAt(first, n) /\ Called("mmap", first, n)

\* NaClSysMunmap does not ask whether the pages were mapped.
Munmap(first, n) ==
  /\ Allowed(first, n)
  /\ Clear(PageRange(first, n))
  /\ mem_map' = VmmapRemove(first, n)
  /\ Called("munmap", first, n)
  /\ UNCHANGED <<enclave, break_page, check>>

\* The pages of an entry that MprotectInternal protects: no more of a file than
\* is left of it after the offset.
Protected(ent) ==
  LET left == (FileSize - ent.offset + PageSize - 1) \div PageSize IN
  CASE ent.desc # "file" -> PageRange(ent.page_num, ent.npages)
    [] ent.desc = "file" /\ ent.offset < FileSize ->
         PageRange(ent.page_num, Min({left, ent.npages}))
    [] OTHER -> {}

\* NaClSysMprotect changes the map and then protects what it reads back from
\* it: the entries from the one at its start on, which by the CHECKs begins
\* there, as the last one ends at its end.
Mprotect(first, n, prot) ==
  LET map == ChangeProt(first, n, prot)
      start == {ent \in map : Covers(ent, first)}
      visited == {ent \in map : first <= ent.page_num /\ ent.page_num < first + n}
      last == IF visited = {} THEN start
              ELSE {ent \in visited : \A e \in visited : e.page_num <= ent.page_num}
  IN  /\ Allowed(first, n)
      /\ CheckExistingMapping(first, n, prot)
      /\ mem_map' = map
      /\ host_prot' = [p \in Pages |-> IF ~enclave /\ \E ent \in visited : p \in Protected(ent)
                                       THEN prot ELSE host_prot[p]]
      /\ check' = \/ enclave
                  \/ /\ \E ent \in start : ent.page_num = first
                     /\ \E ent \in last : End(ent) = first + n
      /\ Called("mprotect", first, n)
      /\ UNCHANGED <<enclave, break_page, host>>

\* The same of no bytes, which NaClSysMprotect does not refuse.
\* CheckExistingMapping asks the first entry that begins at the page or before
\* it and ends there or later; then MprotectInternal finds no entry that both
\* begins and ends at the page (or, where nothing is mapped, reads one past the
\* last), and one of its CHECKs fails.
MprotectEmpty(first, prot) ==
  LET touching == {ent \in mem_map : ent.page_num <= first /\ first <= End(ent)} IN
  /\ Allowed(first, 0)
  /\ \E ent \in touching :
       /\ \A e \in touching : ent.page_num <= e.page_num
       /\ ent.desc = "file" => prot \in Contents.file
  /\ check' = enclave
  /\ Called("mprotect", first, 0)
  /\ UNCHANGED <<enclave, mem_map, break_page, host, host_prot>>

\* The program stores to memory it has mapped for writing.  What it stores
\* matters in the enclave only.
Store(p) ==
  /\ enclave /\ host[p] = "none"
  /\ \E ent \in FindPage(p) : "w" \in ent.prot
  /\ host' = [host EXCEPT ![p] = "data"]
  /\ UNCHANGED <<enclave, mem_map, break_page, host_prot, check, call>>

\* NaClSysBrk zeroes what is between the old break and the new one.
ZeroBreak(new) == enclave /\ Clear(break_page .. new - 1)

\* Below the break it frees nothing.
BrkDown(new) ==
  /\ HeapStart < new /\ new <= break_page
  /\ break_page' = new
  /\ Called("brk", new, 0)
  /\ UNCHANGED <<enclave, mem_map, host, host_prot, check>>

\* Above it, the entry with the last page of the break either has the pages
\* or grows over them, if the next entry leaves room.  When the program has
\* unmapped that page the runtime ends with an error: the call is not made.
BrkWithinEntry(new) ==
  /\ break_page < new
  /\ \E ent \in FindPage(break_page - 1) : new <= End(ent)
  /\ \/ ZeroBreak(new)
     \/ ~enclave /\ UNCHANGED <<host, host_prot>>
  /\ break_page' = new
  /\ Called("brk", break_page, new - break_page)
  /\ UNCHANGED <<enclave, mem_map, check>>

BrkExtend(new) ==
  /\ break_page < new /\ new <= Limit
  /\ \E ent \in FindPage(break_page - 1) :
       /\ End(ent) < new
       /\ \A next \in mem_map : next.page_num > ent.page_num => next.page_num >= new
       /\ mem_map' = (mem_map \ {ent}) \cup {[ent EXCEPT !.npages = new - ent.page_num]}
       /\ \/ ZeroBreak(new)
          \/ ~enclave /\ SetHost(PageRange(End(ent), new - End(ent)), "heap", ReadWrite)
  /\ break_page' = new
  /\ Called("brk", break_page, new - break_page)
  /\ UNCHANGED <<enclave, check>>

Mmap(n) == \/ MmapAnywhere(n)
           \/ \E hint \in Hints : MmapAbove(hint, n)
           \/ \E first \in Pages : MmapFixed(first, n)

\* A CHECK that fails ends the program.
Next == /\ check
        /\ \/ \E n \in Lengths : Mmap(n) \/ \E first \in Pages : Munmap(first, n)
           \/ \E first \in Pages, prot \in Prots :
                (\E n \in Lengths : Mprotect(first, n, prot)) \/ MprotectEmpty(first, prot)
           \/ \E new \in Pages \cup {NumPages} :
                BrkDown(new) \/ BrkWithinEntry(new) \/ BrkExtend(new)
           \/ \E p \in Pages : Store(p)
        /\ Cardinality(mem_map') <= MaxEntries

Spec == Init /\ [][Next]_vars

-----------------------------------------------------------------------------
(* Properties.                                                             *)

\* The types of the variables, entries that do not overlap ("must not overlap",
\* sel_mem.h), and when the CHECKs of MprotectInternal hold: for a range that is
\* not empty ChangeProt() has left entries that begin and end where the call does.
TypeOK ==
  /\ enclave \in BOOLEAN
  /\ check \in BOOLEAN
  /\ call \in [op : Operations, first : 0 .. NumPages, n : 0 .. NumPages]
  /\ check \/ (call.op = "mprotect" /\ call.n = 0)
  /\ \A ent \in mem_map :
       /\ ent.page_num \in Pages /\ ent.npages \in 1 .. NumPages - ent.page_num
       /\ ent.desc \in DOMAIN Contents /\ Allows(ent, ent.prot)
       /\ ent.offset \in Nat
  /\ \A p \in Pages : Cardinality(FindPage(p)) <= 1
  /\ break_page \in HeapStart + 1 .. NumPages
  /\ host \in [Pages -> {"none", "data", "text", "heap", "anon", "file", "beyond"}]
  /\ host_prot \in [Pages -> Prots \cup {{"x"}, None, ReadWrite}]

\* The map and the host agree: what the program can touch is in the map, and a
\* mapped page has at the host the protection the map records, whatever calls
\* its mapping was cut from.  Pages that came with brk() keep the protection
\* of brk() while the map records that of the entry they were added to, so for
\* them, and for pages past the end of a file, only the first half is said.
\* In the enclave the memory of a page that is not mapped is filled with zeros,
\* which is what the next anonymous mapping of it shows to the program.
MapAgreesWithHost ==
  \A p \in Pages :
    \/ /\ enclave
       /\ FindPage(p) = {} => host[p] = "none"
    \/ /\ ~enclave
       /\ FindPage(p) = {} => host_prot[p] = None
       /\ \A ent \in FindPage(p) :
            host[p] \in {"anon", "file"} => host_prot[p] = ent.prot

\* What the map says of every page, which with the last call is the state of
\* PageMap.  That cutting and joining entries implements a map of single pages, so
\* that no call affects a page outside the range it was given, and mprotect() all
\* of it or nothing, is the property ImplementsPageMap of MCServices.
PageOf(p) ==
  LET here == FindPage(p) IN
  IF here = {} THEN Unmapped
  ELSE LET ent == CHOOSE e \in here : TRUE IN [prot |-> ent.prot, desc |-> ent.desc]

page == [p \in Pages |-> PageOf(p)]

\* What mmap() finds without MAP_FIXED is free, so that the mapping replaces
\* nothing.  Above a hint it is the lowest such place between two entries.
\* When it finds none there is none below an entry.
PlacesAreFree ==
  LET Free(first, n) == \A p \in PageRange(first, n) : p \in Pages /\ FindPage(p) = {}
      Below(first) == \E ent \in mem_map : ent.page_num > first
  IN  \A n \in Lengths :
        /\ FindMapSpace(n) # 0 => Free(FindMapSpace(n), n)
        /\ FindMapSpace(n) = 0 => \A p \in Pages : Below(p) => ~Free(p, n)
        /\ \A hint \in Hints :
             LET near == FindMapSpaceAboveHint(hint, n) IN
             /\ near # 0 => near >= hint /\ Free(near, n)
             /\ \A p \in hint .. (IF near = 0 THEN NumPages ELSE near) - 1 :
                  Below(p) => ~Free(p, n)

\* The comment in NaClSysMmapIntern() on mappings beyond the end of a file:
\* "Further 64k pages are also inaccessible (PROT_NONE)".
BeyondFileInaccessible == \A p \in Pages : host[p] = "beyond" => host_prot[p] = None

\* The CHECKs in MprotectInternal(), that an entry begins where the call does and
\* one ends where it does.  They do not hold when the call is for no bytes.
ChecksHold == check
=============================================================================
