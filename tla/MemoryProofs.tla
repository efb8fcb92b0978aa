------------------------------ MODULE MemoryProofs ------------------------------
(***************************************************************************)
(* Proofs about the memory map (AddressSpace, as part of MCServices), for  *)
(* any number of pages and any sizes of pages and files.                   *)
(*                                                                         *)
(* First what the operators of the map do with one entry: the pieces it is *)
(* cut into are well formed, are apart and cover what they should.  From   *)
(* this follows what each of them makes of the whole map, stated page by   *)
(* page: GoodMap, that entries are well formed and do not overlap, is      *)
(* kept, and outside its range a call leaves to each page what it had      *)
(* (Keeps).  With that the invariant MemInv is shown, that the places      *)
(* mmap() finds are free, and that the map implements PageMap.  The module *)
(* ends with the type invariant of all tables of the service runtime.      *)
(***************************************************************************)
EXTENDS DescriptorProofs, DynCodeProofs

\* What the constants of the memory map must be.
LEMMA MemConstants ==
  /\ NumPages \in Nat /\ HeapStart \in Nat /\ 1 <= HeapStart /\ HeapStart <= NumPages - 2
  /\ PageSize \in Nat \ {0} /\ FileSize \in Nat /\ FilePages \subseteq Nat
  /\ Lengths \subseteq Nat \ {0} /\ Limit \in Nat /\ Limit <= NumPages
  /\ Hints \subseteq 1 .. NumPages - 1
  /\ Prots \subseteq SUBSET {"r", "w"} /\ {"r", "w"} \in Prots
BY ServicesConstants DEF Memory!AddressSpaceConstants

\* Pages counted in bytes.
LEMMA Bytes ==
  /\ \A i \in Int : i * PageSize \in Int
  /\ \A i \in Nat : i * PageSize \in Nat /\ i <= i * PageSize
  /\ \A i, j \in Int : (i + j) * PageSize = i * PageSize + j * PageSize
<1>1. \A i, j \in Nat : i * j \in Nat
  OBVIOUS
<1>2. ASSUME NEW i \in Nat PROVE i <= i * PageSize
  <2>1. PICK k \in Nat : PageSize = k + 1
    <3>1. PageSize - 1 \in Nat
      BY MemConstants
    <3> QED BY <3>1, MemConstants
  <2>2. i * (k + 1) = i * k + i
    BY <2>1
  <2> QED BY <1>1, <2>1, <2>2
<1>3. \A i, j, k \in Int : (i + j) * k = i * k + j * k
  OBVIOUS
<1> QED BY <1>1, <1>2, <1>3, MemConstants

-----------------------------------------------------------------------------
(* Least and greatest numbers.                                             *)

LEMMA LeastNumber ==
  ASSUME NEW S, S \subseteq Nat, S # {}
  PROVE  Memory!Min(S) \in S /\ \A y \in S : Memory!Min(S) <= y
<1>1. PICK x \in S : \A y \in S : ~(<<y, x>> \in OpToRel(<, Nat))
  BY NatLessThanWellFounded, WFMin
<1>2. \A y \in S : ~(y < x)
  BY <1>1 DEF OpToRel
<1>3. \A y \in S : x <= y
  BY <1>2
<1> QED BY <1>3 DEF Memory!Min

LEMMA GreatestNumber ==
  ASSUME NEW S, NEW b \in Nat, S \subseteq 0 .. b, S # {}
  PROVE  Memory!Max(S) \in S /\ \A y \in S : y <= Memory!Max(S)
<1> DEFINE T == {b - x : x \in S}
<1>0. \A x \in S : x \in Nat /\ b - x \in Nat
  OBVIOUS
<1>1. T \subseteq Nat /\ T # {}
  BY <1>0
<1>2. PICK m \in T : \A y \in T : m <= y
  BY <1>1, LeastNumber
<1>3. PICK x \in S : m = b - x
  BY <1>2
<1>4. \A y \in S : y <= x
  <2> SUFFICES ASSUME NEW y \in S PROVE y <= x
    OBVIOUS
  <2>1. b - y \in T
    OBVIOUS
  <2>2. b - x <= b - y
    BY <1>2, <1>3, <2>1
  <2> QED BY <1>0, <2>2
<1> QED BY <1>4 DEF Memory!Max

-----------------------------------------------------------------------------
(* Entries of the map, and the pieces they are cut into.                   *)

\* The protections of pages, and what can be behind an entry.
PageProts == Prots \cup {{"x"}}
ContentNames == {"anon", "file", "text"}

LEMMA ContentsAre ==
  /\ DOMAIN Memory!Contents = ContentNames
  /\ Memory!Contents["anon"] = Prots
  /\ Memory!Contents["file"] = Prots \cap SUBSET {"r"}
  /\ Memory!Contents["text"] = {{"x"}}
  /\ \A d \in ContentNames : Memory!Contents[d] \subseteq PageProts
BY DEF Memory!Contents, Memory!Read, ContentNames, PageProts

\* The byte of the file that is at the start of a page.
FileAt(ent, p) == ent.offset + (p - ent.page_num) * PageSize

Entries ==
  [page_num : Nat, npages : Nat \ {0}, prot : PageProts, desc : ContentNames, offset : Nat]

IsEntry(ent) ==
  /\ ent \in Entries
  /\ Memory!End(ent) <= NumPages
  /\ Memory!Allows(ent, ent.prot)

Apart(e, f) == Memory!End(e) <= f.page_num \/ Memory!End(f) <= e.page_num

\* The entries are well formed and do not overlap; the text stays.
MapInv ==
  /\ \A ent \in vm_map : IsEntry(ent)
  /\ \A e, f \in vm_map : e = f \/ Apart(e, f)
  /\ \E ent \in vm_map : Memory!Covers(ent, 0)

\* What a piece has of the entry it was cut from.
PieceOf(r, ent) ==
  /\ IsEntry(r)
  /\ ent.page_num <= r.page_num /\ Memory!End(r) <= Memory!End(ent)
  /\ r.desc = ent.desc
  /\ \A p \in Nat : FileAt(r, p) <= FileAt(ent, p)

\* What Later leaves: a well-formed entry.
LEMMA LaterIs ==
  ASSUME NEW ent \in Entries, NEW q \in Nat, NEW n \in Nat \ {0}, NEW o \in Nat,
         n = Memory!End(ent) - q, o = ent.offset + (q - ent.page_num) * PageSize
  PROVE  /\ Memory!Later(ent, q) \in Entries
         /\ Memory!Later(ent, q).page_num = q /\ Memory!Later(ent, q).npages = n
         /\ Memory!Later(ent, q).prot = ent.prot /\ Memory!Later(ent, q).desc = ent.desc
         /\ Memory!Later(ent, q).offset = o
<1>1. Memory!Later(ent, q) = [ent EXCEPT !.page_num = q, !.npages = n, !.offset = o]
  BY DEF Memory!Later, Entries
<1>2. PICK l : l = Memory!Later(ent, q)
  OBVIOUS
<1>3. /\ l \in Entries /\ l.page_num = q /\ l.npages = n
      /\ l.prot = ent.prot /\ l.desc = ent.desc /\ l.offset = o
  BY <1>1, <1>2 DEF Entries
<1> QED BY <1>2, <1>3

\* An entry that is cut off at the page of another.
LEMMA CutEntries ==
  ASSUME NEW ent, IsEntry(ent), NEW q \in Nat, ent.page_num < q, q < Memory!End(ent)
  PROVE  /\ PieceOf(Memory!Earlier(ent, q), ent) /\ Memory!Earlier(ent, q).prot = ent.prot
         /\ Memory!Earlier(ent, q).page_num = ent.page_num
         /\ Memory!End(Memory!Earlier(ent, q)) = q
         /\ PieceOf(Memory!Later(ent, q), ent) /\ Memory!Later(ent, q).prot = ent.prot
         /\ Memory!Later(ent, q).page_num = q
         /\ Memory!End(Memory!Later(ent, q)) = Memory!End(ent)
<1> DEFINE e == Memory!Earlier(ent, q)
           l == Memory!Later(ent, q)
           pn == ent.page_num
           skip == (q - pn) * PageSize
<1>1a. ent \in Entries
  BY DEF IsEntry
<1>1. /\ ent \in Entries /\ pn \in Nat /\ ent.npages \in Nat \ {0} /\ ent.offset \in Nat
      /\ pn + ent.npages <= NumPages /\ pn < q /\ q < pn + ent.npages
      /\ Memory!Allows(ent, ent.prot) /\ NumPages \in Nat
  BY MemConstants DEF IsEntry, Memory!End, Entries
<1>2. PICK s \in Nat : s = skip
  <2>1. q - pn \in Nat
    BY <1>1
  <2> QED BY <2>1, Bytes
<1>3. /\ e \in Entries
      /\ e.page_num = pn /\ e.npages = q - pn /\ e.offset = ent.offset
      /\ e.prot = ent.prot /\ e.desc = ent.desc
  BY <1>1 DEF Memory!Earlier, Entries
<1>4. /\ l \in Entries
      /\ l.page_num = q /\ l.npages = pn + ent.npages - q /\ l.offset = ent.offset + s
      /\ l.prot = ent.prot /\ l.desc = ent.desc
  <2>1. PICK n \in Nat \ {0} : n = pn + ent.npages - q
    <3>1. pn + ent.npages - q \in Nat \ {0}
      BY <1>1
    <3> QED BY <3>1
  <2>2. PICK o \in Nat : o = ent.offset + (q - ent.page_num) * PageSize
    BY <1>1, <1>2
  <2>3. n = Memory!End(ent) - q
    BY <1>1, <2>1 DEF Memory!End
  <2>4. /\ l \in Entries /\ l.page_num = q /\ l.npages = n
        /\ l.prot = ent.prot /\ l.desc = ent.desc /\ l.offset = o
    BY <1>1, <2>2, <2>3, LaterIs
  <2> QED BY <1>1, <1>2, <2>1, <2>2, <2>4
<1>5. Memory!End(e) = q /\ Memory!End(l) = Memory!End(ent) /\ Memory!End(ent) = pn + ent.npages
  BY <1>1, <1>3, <1>4 DEF Memory!End
<1>6. Memory!Allows(e, e.prot) /\ Memory!Allows(l, l.prot)
  BY <1>1, <1>3, <1>4 DEF Memory!Allows
<1>7. \A p \in Nat : FileAt(e, p) = FileAt(ent, p)
  BY <1>3 DEF FileAt
<1>8. ASSUME NEW p \in Nat PROVE FileAt(l, p) = FileAt(ent, p)
  <2>1. p - q \in Int /\ q - pn \in Int /\ p - pn = (q - pn) + (p - q)
    BY <1>1
  <2>2. (p - pn) * PageSize = skip + (p - q) * PageSize
    BY <2>1, Bytes
  <2>3. (p - q) * PageSize \in Int
    BY <2>1, Bytes
  <2> QED BY <1>1, <1>2, <1>4, <2>2, <2>3 DEF FileAt
<1>9. ASSUME NEW p \in Nat PROVE FileAt(ent, p) \in Int
  <2>1. p - pn \in Int
    BY <1>1
  <2>2. (p - pn) * PageSize \in Int
    BY <2>1, Bytes
  <2> QED BY <1>1, <2>2 DEF FileAt, Entries
<1>10. IsEntry(e)
  BY <1>1, <1>3, <1>5, <1>6 DEF IsEntry
<1>11. IsEntry(l)
  BY <1>1, <1>4, <1>5, <1>6 DEF IsEntry
<1> HIDE DEF e, l
<1>12. PieceOf(e, ent)
  BY <1>1, <1>3, <1>5, <1>7, <1>9, <1>10 DEF PieceOf
<1>13. PieceOf(l, ent)
  BY <1>1, <1>4, <1>5, <1>8, <1>9, <1>11 DEF PieceOf
<1>14. QED
  BY <1>3, <1>4, <1>5, <1>12, <1>13 DEF e, l

LEMMA EntryFacts ==
  ASSUME NEW ent, IsEntry(ent)
  PROVE  /\ ent.page_num \in Nat /\ Memory!End(ent) \in Nat
         /\ ent.page_num < Memory!End(ent) /\ Memory!End(ent) <= NumPages
         /\ ent.prot \in PageProts /\ ent.desc \in ContentNames
         /\ \A p \in Nat : FileAt(ent, p) \in Int
         /\ PieceOf(ent, ent)
<1>1. /\ ent.page_num \in Nat /\ ent.npages \in Nat \ {0} /\ ent.offset \in Nat
      /\ ent.prot \in PageProts /\ ent.desc \in ContentNames
  BY DEF IsEntry, Entries
<1>2. Memory!End(ent) \in Nat /\ ent.page_num < Memory!End(ent) /\ Memory!End(ent) <= NumPages
  BY <1>1 DEF IsEntry, Memory!End
<1>3. ASSUME NEW p \in Nat PROVE FileAt(ent, p) \in Int
  <2>1. p - ent.page_num \in Int
    BY <1>1
  <2>2. (p - ent.page_num) * PageSize \in Int
    BY <2>1, Bytes
  <2> QED BY <1>1, <2>2 DEF FileAt
<1> QED BY <1>1, <1>2, <1>3 DEF PieceOf

\* Pieces of entries that are apart are apart.
LEMMA PiecesApart ==
  ASSUME NEW e, NEW f, IsEntry(e), IsEntry(f), Apart(e, f),
         NEW r, NEW s, PieceOf(r, e), PieceOf(s, f)
  PROVE  Apart(r, s)
<1>1. /\ e.page_num \in Nat /\ Memory!End(e) \in Nat /\ f.page_num \in Nat
      /\ Memory!End(f) \in Nat
      /\ r.page_num \in Nat /\ Memory!End(r) \in Nat /\ s.page_num \in Nat
      /\ Memory!End(s) \in Nat
  BY EntryFacts DEF PieceOf
<1> QED BY <1>1 DEF PieceOf, Apart

\* What a call leaves of an entry lies outside its range,
LEMMA RemainsAre ==
  ASSUME NEW ent, IsEntry(ent), NEW first \in Nat, NEW end \in Nat, first < end,
         NEW r \in Memory!Remains(ent, first, end)
  PROVE  /\ PieceOf(r, ent) /\ r.prot = ent.prot
         /\ Memory!End(r) <= first \/ end <= r.page_num
<1>1. /\ ent.page_num \in Nat /\ Memory!End(ent) \in Nat /\ ent.page_num < Memory!End(ent)
      /\ PieceOf(ent, ent)
  BY EntryFacts
<1>2. CASE Memory!Outside(ent, first, end)
  BY <1>1, <1>2 DEF Memory!Remains, Memory!Outside
<1>3. CASE ~Memory!Outside(ent, first, end)
  <2>1. first < Memory!End(ent) /\ ent.page_num < end
    BY <1>1, <1>3 DEF Memory!Outside
  <2>2. \/ ent.page_num < first /\ r = Memory!Earlier(ent, first)
        \/ end < Memory!End(ent) /\ r = Memory!Later(ent, end)
    BY <1>3 DEF Memory!Remains, Memory!Before, Memory!After
  <2>3. CASE ent.page_num < first /\ r = Memory!Earlier(ent, first)
    BY <2>1, <2>3, CutEntries
  <2>4. CASE end < Memory!End(ent) /\ r = Memory!Later(ent, end)
    BY <2>1, <2>4, CutEntries
  <2> QED BY <2>2, <2>3, <2>4
<1> QED BY <1>2, <1>3

\* and it is all of the entry that does.
LEMMA RemainsCover ==
  ASSUME NEW ent, IsEntry(ent), NEW first \in Nat, NEW end \in Nat, first < end,
         NEW p \in Nat, Memory!Covers(ent, p), p < first \/ end <= p
  PROVE  \E r \in Memory!Remains(ent, first, end) : Memory!Covers(r, p)
<1>1. /\ ent.page_num \in Nat /\ Memory!End(ent) \in Nat /\ ent.page_num < Memory!End(ent)
      /\ ent.page_num <= p /\ p < Memory!End(ent)
  BY EntryFacts DEF Memory!Covers
<1>2. CASE Memory!Outside(ent, first, end)
  BY <1>2 DEF Memory!Remains
<1>3. CASE ~Memory!Outside(ent, first, end)
  <2>1. first < Memory!End(ent) /\ ent.page_num < end
    BY <1>1, <1>3 DEF Memory!Outside
  <2>2. CASE p < first
    <3>1. Memory!Earlier(ent, first) \in Memory!Remains(ent, first, end)
      BY <1>1, <1>3, <2>2 DEF Memory!Remains, Memory!Before
    <3>2. Memory!Covers(Memory!Earlier(ent, first), p)
      BY <1>1, <2>1, <2>2, CutEntries DEF Memory!Covers
    <3> QED BY <3>1, <3>2
  <2>3. CASE end <= p
    <3>1. Memory!Later(ent, end) \in Memory!Remains(ent, first, end)
      BY <1>1, <1>3, <2>3 DEF Memory!Remains, Memory!After
    <3>2. Memory!Covers(Memory!Later(ent, end), p)
      BY <1>1, <2>1, <2>3, CutEntries DEF Memory!Covers
    <3> QED BY <3>1, <3>2
  <2> QED BY <2>2, <2>3
<1> QED BY <1>2, <1>3

LEMMA RemainsApart ==
  ASSUME NEW ent, IsEntry(ent), NEW first \in Nat, NEW end \in Nat, first < end,
         NEW r \in Memory!Remains(ent, first, end),
         NEW s \in Memory!Remains(ent, first, end), r # s
  PROVE  Apart(r, s)
<1>1. /\ ent.page_num \in Nat /\ Memory!End(ent) \in Nat /\ ent.page_num < Memory!End(ent)
  BY EntryFacts
<1>2. /\ ~Memory!Outside(ent, first, end) /\ ent.page_num < first /\ end < Memory!End(ent)
      /\ {r, s} = {Memory!Earlier(ent, first), Memory!Later(ent, end)}
  BY DEF Memory!Remains, Memory!Before, Memory!After
<1>3. /\ first < Memory!End(ent) /\ ent.page_num < end
  BY <1>1, <1>2 DEF Memory!Outside
<1>4. Memory!End(Memory!Earlier(ent, first)) = first /\ Memory!Later(ent, end).page_num = end
  BY <1>1, <1>2, <1>3, CutEntries
<1> QED BY <1>2, <1>4 DEF Apart

\* An entry, or a part of it, with a new protection.
LEMMA PartIs ==
  ASSUME NEW ent, IsEntry(ent), NEW prot, Memory!Allows(ent, prot),
         NEW q \in Nat, NEW e \in Nat, ent.page_num <= q, q < e, e <= Memory!End(ent)
  PROVE  /\ PieceOf(Memory!Part(ent, q, e - q, prot), ent)
         /\ Memory!Part(ent, q, e - q, prot).prot = prot
         /\ Memory!Part(ent, q, e - q, prot).page_num = q
         /\ Memory!End(Memory!Part(ent, q, e - q, prot)) = e
<1> DEFINE pn == ent.page_num
<1>1. /\ pn \in Nat /\ ent.npages \in Nat \ {0} /\ ent.offset \in Nat
      /\ ent.desc \in ContentNames /\ NumPages \in Nat
  BY MemConstants DEF IsEntry, Entries
<1>2. Memory!End(ent) \in Nat /\ Memory!End(ent) <= NumPages /\ prot \in PageProts
  BY <1>1, EntryFacts, ContentsAre DEF Memory!Allows
<1>3. PICK n \in Nat \ {0} : n = e - q
  <2>1. e - q \in Nat \ {0}
    BY <1>1
  <2> QED BY <2>1
<1>4. PICK o \in Nat : o = ent.offset + (q - pn)
  <2>1. ent.offset + (q - pn) \in Nat
    BY <1>1
  <2> QED BY <2>1
<1>5. PICK r : r = Memory!Part(ent, q, n, prot)
  OBVIOUS
<1>6. /\ r \in Entries
      /\ r.page_num = q /\ r.npages = n /\ r.prot = prot /\ r.desc = ent.desc /\ r.offset = o
  BY <1>1, <1>2, <1>4, <1>5 DEF Memory!Part, Memory!Entry, Entries
<1>7. Memory!End(r) = e
  BY <1>3, <1>6 DEF Memory!End
<1>8. IsEntry(r)
  BY <1>1, <1>2, <1>6, <1>7 DEF IsEntry, Memory!Allows
<1>9. ASSUME NEW p \in Nat PROVE FileAt(r, p) <= FileAt(ent, p)
  <2>1. p - q \in Int /\ q - pn \in Nat /\ p - pn = (q - pn) + (p - q)
    BY <1>1
  <2>2. /\ (p - pn) * PageSize = (q - pn) * PageSize + (p - q) * PageSize
        /\ (p - q) * PageSize \in Int /\ (q - pn) * PageSize \in Nat
        /\ q - pn <= (q - pn) * PageSize
    <3>1. PICK i \in Nat, j \in Int : i = q - pn /\ j = p - q /\ p - pn = i + j
      BY <2>1
    <3>2. i \in Int /\ j \in Int
      BY <3>1
    <3>3. (i + j) * PageSize = i * PageSize + j * PageSize
      BY <3>2, Bytes, Zenon
    <3>4. j * PageSize \in Int
      BY <3>2, Bytes, Zenon
    <3>5. i * PageSize \in Nat /\ i <= i * PageSize
      BY Bytes, Zenon
    <3> QED BY <3>1, <3>3, <3>4, <3>5
  <2>3. PICK a, b \in Int : a = (p - q) * PageSize /\ b = (q - pn) * PageSize
    BY <2>2
  <2>4. FileAt(r, p) = o + a
    BY <1>6, <2>3 DEF FileAt
  <2>5. FileAt(ent, p) = ent.offset + (b + a)
    BY <2>2, <2>3 DEF FileAt
  <2>6. q - pn <= b
    BY <2>2, <2>3
  <2> QED BY <1>1, <1>4, <2>4, <2>5, <2>6
<1>10. PieceOf(r, ent)
  BY <1>1, <1>2, <1>6, <1>7, <1>8, <1>9 DEF PieceOf
<1> QED BY <1>3, <1>5, <1>6, <1>7, <1>10

LEMMA OfTwo ==
  ASSUME NEW a \in Int, NEW b \in Int
  PROVE  /\ Memory!Max({a, b}) = IF a >= b THEN a ELSE b
         /\ Memory!Min({a, b}) = IF a <= b THEN a ELSE b
BY DEF Memory!Max, Memory!Min

\* The part of an entry that gets a new protection.
LEMMA NewPart ==
  ASSUME NEW ent, IsEntry(ent), NEW first \in Nat, NEW end \in Nat, first < end,
         ~Memory!Outside(ent, first, end), NEW prot, Memory!Allows(ent, prot)
  PROVE  \E part_ :
           /\ Memory!Changed(ent, first, end, prot) = Memory!Remains(ent, first, end)
                \cup {part_}
           /\ PieceOf(part_, ent) /\ part_.prot = prot
           /\ first <= part_.page_num /\ Memory!End(part_) <= end
           /\ \A p \in Nat :
                Memory!Covers(ent, p) /\ first <= p /\ p < end => Memory!Covers(part_, p)
<1>1. /\ ent.page_num \in Nat /\ Memory!End(ent) \in Nat /\ ent.page_num < Memory!End(ent)
      /\ first < Memory!End(ent) /\ ent.page_num < end
  BY EntryFacts DEF Memory!Outside
<1>2. PICK q \in Nat : q = Memory!Max({ent.page_num, first})
  BY <1>1, OfTwo
<1>3. PICK e \in Nat : e = Memory!Min({Memory!End(ent), end})
  BY <1>1, OfTwo
<1>4. /\ ent.page_num <= q /\ first <= q /\ q < e /\ e <= Memory!End(ent) /\ e <= end
      /\ \A p \in Nat : /\ ent.page_num <= p /\ first <= p => q <= p
                        /\ p < Memory!End(ent) /\ p < end => p < e
  <2>1. Memory!Max({ent.page_num, first}) = IF ent.page_num >= first THEN ent.page_num
                                            ELSE first
    <3>1. ent.page_num \in Int /\ first \in Int
      BY <1>1
    <3> QED BY <3>1, OfTwo, Zenon
  <2>2. Memory!Min({Memory!End(ent), end}) = IF Memory!End(ent) <= end THEN Memory!End(ent)
                                             ELSE end
    <3>1. Memory!End(ent) \in Int /\ end \in Int
      BY <1>1
    <3> QED BY <3>1, OfTwo, Zenon
  <2>3. q = IF ent.page_num >= first THEN ent.page_num ELSE first
    BY <1>2, <2>1
  <2>4. e = IF Memory!End(ent) <= end THEN Memory!End(ent) ELSE end
    BY <1>3, <2>2
  <2> QED BY <1>1, <2>3, <2>4
<1>5. PICK r : r = Memory!Part(ent, q, e - q, prot)
  OBVIOUS
<1>6. PieceOf(r, ent) /\ r.prot = prot /\ r.page_num = q /\ Memory!End(r) = e
  BY <1>4, <1>5, PartIs
<1>7. Memory!Changed(ent, first, end, prot) = Memory!Remains(ent, first, end) \cup {r}
  BY <1>2, <1>3, <1>5 DEF Memory!Changed, Memory!Remains
<1>8. \A p \in Nat : Memory!Covers(ent, p) /\ first <= p /\ p < end => Memory!Covers(r, p)
  BY <1>4, <1>6 DEF Memory!Covers
<1> QED BY <1>4, <1>6, <1>7, <1>8

-----------------------------------------------------------------------------
(* What the calls make of the map, page by page.                           *)

\* The entries are well formed and do not overlap.
GoodMap(map) ==
  /\ \A ent \in map : IsEntry(ent)
  /\ \A e, f \in map : e = f \/ Apart(e, f)

\* An entry says of a page what another said: what the file has at the page may
\* only be nearer to the start of the file.
SaysAs(r, ent, p) == r.desc = ent.desc /\ FileAt(r, p) <= FileAt(ent, p)

\* A map says of a page what the current one says.
Keeps(map, p) ==
  /\ (\E ent \in vm_map : Memory!Covers(ent, p)) => \E r \in map : Memory!Covers(r, p)
  /\ \A r \in map : Memory!Covers(r, p) =>
       \E ent \in vm_map : Memory!Covers(ent, p) /\ r.prot = ent.prot /\ SaysAs(r, ent, p)

LEMMA PieceSays ==
  ASSUME NEW ent, NEW r, IsEntry(ent), PieceOf(r, ent), NEW p \in Nat, Memory!Covers(r, p)
  PROVE  Memory!Covers(ent, p) /\ SaysAs(r, ent, p)
<1>1. /\ ent.page_num \in Nat /\ Memory!End(ent) \in Nat /\ r.page_num \in Nat
      /\ Memory!End(r) \in Nat
  BY EntryFacts DEF PieceOf
<1> QED BY <1>1 DEF PieceOf, Memory!Covers, SaysAs

\* At most one entry has a page.
LEMMA OneEntry ==
  ASSUME NEW map, GoodMap(map), NEW p \in Nat, NEW e \in map, NEW f \in map,
         Memory!Covers(e, p), Memory!Covers(f, p)
  PROVE  e = f
<1>1. /\ e.page_num \in Nat /\ Memory!End(e) \in Nat /\ f.page_num \in Nat
      /\ Memory!End(f) \in Nat
  BY EntryFacts DEF GoodMap
<1> QED BY <1>1 DEF GoodMap, Apart, Memory!Covers

\* The map without a range.
LEMMA RemoveMap ==
  ASSUME GoodMap(vm_map), NEW first \in Nat, NEW n \in Nat \ {0}
  PROVE  /\ GoodMap(Memory!VmmapRemove(first, n))
         /\ \A r \in Memory!VmmapRemove(first, n) :
              Memory!End(r) <= first \/ first + n <= r.page_num
         /\ \A p \in Nat : p < first \/ first + n <= p => Keeps(Memory!VmmapRemove(first, n), p)
<1> DEFINE M == Memory!VmmapRemove(first, n)
           end == first + n
<1>1. end \in Nat /\ first < end
  OBVIOUS
<1>2. ASSUME NEW r \in M
      PROVE  \E ent \in vm_map : r \in Memory!Remains(ent, first, end)
  BY DEF Memory!VmmapRemove
<1>3. ASSUME NEW ent \in vm_map, NEW r \in Memory!Remains(ent, first, end)
      PROVE  r \in M
  BY DEF Memory!VmmapRemove
<1> HIDE DEF M, end
<1>4. ASSUME NEW r \in M, NEW ent \in vm_map, r \in Memory!Remains(ent, first, end)
      PROVE  /\ IsEntry(ent) /\ IsEntry(r)
             /\ PieceOf(r, ent) /\ r.prot = ent.prot
             /\ Memory!End(r) <= first \/ end <= r.page_num
  <2>1. IsEntry(ent)
    BY DEF GoodMap
  <2>2. PieceOf(r, ent) /\ r.prot = ent.prot /\ (Memory!End(r) <= first \/ end <= r.page_num)
    BY <1>1, <1>4, <2>1, RemainsAre
  <2> QED BY <2>1, <2>2 DEF PieceOf
<1>5. GoodMap(M)
  <2>1. \A r \in M : IsEntry(r)
    BY <1>2, <1>4
  <2>2. ASSUME NEW r \in M, NEW s \in M PROVE r = s \/ Apart(r, s)
    <3>1. PICK e \in vm_map : r \in Memory!Remains(e, first, end)
      BY <1>2
    <3>2. PICK f \in vm_map : s \in Memory!Remains(f, first, end)
      BY <1>2
    <3>3. IsEntry(e) /\ IsEntry(f) /\ PieceOf(r, e) /\ PieceOf(s, f)
      BY <1>4, <3>1, <3>2
    <3>4. CASE e = f
      BY <1>1, <3>1, <3>2, <3>3, <3>4, RemainsApart
    <3>5. CASE e # f
      <4>1. Apart(e, f)
        BY <3>5 DEF GoodMap
      <4> QED BY <3>3, <4>1, PiecesApart
    <3> QED BY <3>4, <3>5
  <2> QED BY <2>1, <2>2 DEF GoodMap
<1>6. ASSUME NEW p \in Nat, p < first \/ end <= p PROVE Keeps(M, p)
  <2>1. ASSUME NEW ent \in vm_map, Memory!Covers(ent, p) PROVE \E r \in M : Memory!Covers(r, p)
    <3>1. IsEntry(ent)
      BY DEF GoodMap
    <3>2. PICK r \in Memory!Remains(ent, first, end) : Memory!Covers(r, p)
      BY <1>1, <1>6, <2>1, <3>1, RemainsCover
    <3> QED BY <1>3, <3>2
  <2>2. ASSUME NEW r \in M, Memory!Covers(r, p)
        PROVE  \E ent \in vm_map :
                 Memory!Covers(ent, p) /\ r.prot = ent.prot /\ SaysAs(r, ent, p)
    <3>1. PICK ent \in vm_map : r \in Memory!Remains(ent, first, end)
      BY <1>2
    <3>2. IsEntry(ent) /\ PieceOf(r, ent) /\ r.prot = ent.prot
      BY <1>4, <3>1
    <3>3. Memory!Covers(ent, p) /\ SaysAs(r, ent, p)
      BY <2>2, <3>2, PieceSays
    <3> QED BY <3>2, <3>3
  <2> QED BY <2>1, <2>2 DEF Keeps
<1>7. \A r \in M : Memory!End(r) <= first \/ end <= r.page_num
  BY <1>2, <1>4
<1> QED BY <1>5, <1>6, <1>7 DEF M, end

\* The map with a new entry over what was there.
LEMMA OverwriteMap ==
  ASSUME GoodMap(vm_map), NEW ent, IsEntry(ent)
  PROVE  /\ GoodMap(Memory!VmmapAddWithOverwrite(ent))
         /\ ent \in Memory!VmmapAddWithOverwrite(ent)
         /\ \A p \in Nat : p < ent.page_num \/ Memory!End(ent) <= p
                           => Keeps(Memory!VmmapAddWithOverwrite(ent), p)
         /\ \A p \in Nat, r \in Memory!VmmapAddWithOverwrite(ent) :
              Memory!Covers(ent, p) /\ Memory!Covers(r, p) => r = ent
<1> DEFINE M == Memory!VmmapAddWithOverwrite(ent)
           L == Memory!VmmapRemove(ent.page_num, ent.npages)
<1>1. /\ ent.page_num \in Nat /\ ent.npages \in Nat \ {0}
      /\ ent.page_num + ent.npages = Memory!End(ent) /\ Memory!End(ent) \in Nat
  BY EntryFacts DEF IsEntry, Entries, Memory!End
<1>2. /\ GoodMap(L)
      /\ \A r \in L : Memory!End(r) <= ent.page_num \/ Memory!End(ent) <= r.page_num
      /\ \A p \in Nat : p < ent.page_num \/ Memory!End(ent) <= p => Keeps(L, p)
  BY <1>1, RemoveMap
<1>3. M = L \cup {ent}
  BY DEF Memory!VmmapAddWithOverwrite
<1> HIDE DEF M, L
<1>4. \A r \in L : Apart(r, ent) /\ Apart(ent, r)
  BY <1>2 DEF Apart
<1>5. GoodMap(M)
  BY <1>2, <1>3, <1>4 DEF GoodMap
<1>6. ASSUME NEW p \in Nat, p < ent.page_num \/ Memory!End(ent) <= p PROVE Keeps(M, p)
  <2>1. ~Memory!Covers(ent, p)
    BY <1>1, <1>6 DEF Memory!Covers
  <2>2. Keeps(L, p)
    BY <1>2, <1>6
  <2> QED BY <1>3, <2>1, <2>2 DEF Keeps
<1>7. ASSUME NEW p \in Nat, NEW r \in M, Memory!Covers(ent, p), Memory!Covers(r, p)
      PROVE r = ent
  BY <1>3, <1>5, <1>7, OneEntry
<1> QED BY <1>3, <1>5, <1>6, <1>7 DEF M

\* A range has an entry for each of its pages, and each of them allows prot.
LEMMA MappedRange ==
  ASSUME GoodMap(vm_map), NEW first \in Nat, NEW n \in Nat \ {0}, NEW prot,
         Memory!CheckExistingMapping(first, n, prot)
  PROVE  /\ \A p \in Nat : first <= p /\ p < first + n => \E ent \in vm_map :
              Memory!Covers(ent, p)
         /\ \A ent \in vm_map :
              ~Memory!Outside(ent, first, first + n) => Memory!Allows(ent, prot)
<1>1. \A p \in Nat : first <= p /\ p < first + n => 
        \E ent \in vm_map : Memory!Covers(ent, p) /\ Memory!Allows(ent, prot)
  BY DEF Memory!CheckExistingMapping, Memory!PageRange, Memory!FindPage
<1>2. ASSUME NEW ent \in vm_map, ~Memory!Outside(ent, first, first + n)
      PROVE Memory!Allows(ent, prot)
  <2>1. /\ ent.page_num \in Nat /\ Memory!End(ent) \in Nat /\ ent.page_num < Memory!End(ent)
        /\ first < Memory!End(ent) /\ ent.page_num < first + n
    BY <1>2, EntryFacts DEF GoodMap, Memory!Outside
  <2>2. PICK p \in Nat : /\ first <= p /\ p < first + n
                         /\ ent.page_num <= p /\ p < Memory!End(ent)
    <3>1. CASE ent.page_num <= first
      BY <2>1, <3>1
    <3>2. CASE first < ent.page_num
      BY <2>1, <3>2
    <3> QED BY <2>1, <3>1, <3>2
  <2>3. Memory!Covers(ent, p)
    BY <2>2 DEF Memory!Covers
  <2>4. PICK f \in vm_map : Memory!Covers(f, p) /\ Memory!Allows(f, prot)
    BY <1>1, <2>2
  <2>5. f = ent
    BY <2>3, <2>4, OneEntry
  <2> QED BY <2>4, <2>5
<1> QED BY <1>1, <1>2

\* Each entry is cut at the ends of a range that gets a new protection.
LEMMA ChangedAre ==
  ASSUME NEW ent, IsEntry(ent), NEW first \in Nat, NEW end \in Nat, first < end,
         NEW prot, ~Memory!Outside(ent, first, end) => Memory!Allows(ent, prot)
  PROVE  /\ \A r \in Memory!Changed(ent, first, end, prot) :
              /\ PieceOf(r, ent)
              /\ \/ r.prot = ent.prot /\ (Memory!End(r) <= first \/ end <= r.page_num)
                 \/ r.prot = prot /\ first <= r.page_num /\ Memory!End(r) <= end
         /\ \A r, s \in Memory!Changed(ent, first, end, prot) : r = s \/ Apart(r, s)
         /\ \A p \in Nat : Memory!Covers(ent, p) =>
              \E r \in Memory!Changed(ent, first, end, prot) : Memory!Covers(r, p)
<1>1. CASE Memory!Outside(ent, first, end)
  <2>1. Memory!Changed(ent, first, end, prot) = {ent}
    BY <1>1 DEF Memory!Changed
  <2>2. PieceOf(ent, ent)
    BY EntryFacts
  <2> QED BY <1>1, <2>1, <2>2 DEF Memory!Outside
<1>2. CASE ~Memory!Outside(ent, first, end)
  <2> DEFINE R == Memory!Remains(ent, first, end)
             C == Memory!Changed(ent, first, end, prot)
  <2>1. PICK new :
          /\ C = R \cup {new}
          /\ PieceOf(new, ent) /\ new.prot = prot
          /\ first <= new.page_num /\ Memory!End(new) <= end
          /\ \A p \in Nat :
               Memory!Covers(ent, p) /\ first <= p /\ p < end => Memory!Covers(new, p)
    BY <1>2, NewPart
  <2>2. \A r \in R : /\ PieceOf(r, ent) /\ r.prot = ent.prot
                     /\ Memory!End(r) <= first \/ end <= r.page_num
    BY RemainsAre
  <2>3. \A p \in Nat : Memory!Covers(ent, p) /\ (p < first \/ end <= p) => \E r \in R :
          Memory!Covers(r, p)
    BY RemainsCover
  <2>4. \A r, s \in R : r = s \/ Apart(r, s)
    BY RemainsApart
  <2> HIDE DEF R, C
  <2>5. ASSUME NEW r \in R PROVE Apart(r, new) /\ Apart(new, r)
    <3>1. /\ r.page_num \in Nat /\ Memory!End(r) \in Nat /\ new.page_num \in Nat
          /\ Memory!End(new) \in Nat
      BY <2>1, <2>2, EntryFacts DEF PieceOf
    <3> QED BY <2>1, <2>2, <3>1 DEF Apart
  <2>6. \A r, s \in C : r = s \/ Apart(r, s)
    BY <2>1, <2>4, <2>5
  <2>7. ASSUME NEW p \in Nat, Memory!Covers(ent, p) PROVE \E r \in C : Memory!Covers(r, p)
    <3>1. CASE p < first \/ end <= p
      BY <2>1, <2>3, <2>7, <3>1
    <3>2. CASE first <= p /\ p < end
      BY <2>1, <2>7, <3>2
    <3> QED BY <3>1, <3>2
  <2>8. ASSUME NEW r \in C
        PROVE  /\ PieceOf(r, ent)
               /\ \/ r.prot = ent.prot /\ (Memory!End(r) <= first \/ end <= r.page_num)
                  \/ r.prot = prot /\ first <= r.page_num /\ Memory!End(r) <= end
    BY <2>1, <2>2
  <2> QED BY <2>6, <2>7, <2>8 DEF C
<1> QED BY <1>1, <1>2

\* The map after mprotect(): entries end at both ends of the range, and those
\* within it have the protection.
LEMMA ChangeMap ==
  ASSUME GoodMap(vm_map), NEW first \in Nat, NEW n \in Nat \ {0}, NEW prot,
         Memory!CheckExistingMapping(first, n, prot)
  PROVE  /\ GoodMap(Memory!ChangeProt(first, n, prot))
         /\ \A r \in Memory!ChangeProt(first, n, prot) :
              \/ Memory!End(r) <= first \/ first + n <= r.page_num
              \/ r.prot = prot /\ first <= r.page_num /\ Memory!End(r) <= first + n
         /\ \A p \in Nat : p < first \/ first + n <= p
                           => Keeps(Memory!ChangeProt(first, n, prot), p)
         /\ \A p \in Nat : first <= p /\ p < first + n =>
              /\ \E r \in Memory!ChangeProt(first, n, prot) : Memory!Covers(r, p)
              /\ \A r \in Memory!ChangeProt(first, n, prot) : Memory!Covers(r, p) =>
                   /\ r.prot = prot
                   /\ \E ent \in vm_map :
                        Memory!Covers(ent, p) /\ SaysAs(r, ent, p) /\ Memory!Allows(ent, prot)
<1> DEFINE M == Memory!ChangeProt(first, n, prot)
           end == first + n
           C(ent) == Memory!Changed(ent, first, end, prot)
<1>1. end \in Nat /\ first < end
  OBVIOUS
<1>2. ASSUME NEW r \in M
      PROVE  \E ent \in vm_map : r \in C(ent)
  BY DEF Memory!ChangeProt
<1>3. ASSUME NEW ent \in vm_map, NEW r \in C(ent)
      PROVE  r \in M
  BY DEF Memory!ChangeProt
<1>4. /\ \A p \in Nat : first <= p /\ p < end => \E ent \in vm_map : Memory!Covers(ent, p)
      /\ \A ent \in vm_map : ~Memory!Outside(ent, first, end) => Memory!Allows(ent, prot)
  BY MappedRange
<1> HIDE DEF M, end
<1>5. ASSUME NEW ent \in vm_map
      PROVE  /\ IsEntry(ent)
             /\ \A r \in C(ent) :
                  /\ PieceOf(r, ent)
                  /\ \/ r.prot = ent.prot /\ (Memory!End(r) <= first \/ end <= r.page_num)
                     \/ r.prot = prot /\ first <= r.page_num /\ Memory!End(r) <= end
             /\ \A r, s \in C(ent) : r = s \/ Apart(r, s)
             /\ \A p \in Nat : Memory!Covers(ent, p) => \E r \in C(ent) : Memory!Covers(r, p)
  <2>1. IsEntry(ent) /\ (~Memory!Outside(ent, first, end) => Memory!Allows(ent, prot))
    BY <1>4 DEF GoodMap
  <2> QED BY <1>1, <2>1, ChangedAre
<1> HIDE DEF C
<1>6. GoodMap(M)
  <2>1. \A r \in M : IsEntry(r)
    BY <1>2, <1>5 DEF PieceOf
  <2>2. ASSUME NEW r \in M, NEW s \in M PROVE r = s \/ Apart(r, s)
    <3>1. PICK e \in vm_map : r \in C(e)
      BY <1>2
    <3>2. PICK f \in vm_map : s \in C(f)
      BY <1>2
    <3>3. IsEntry(e) /\ IsEntry(f) /\ PieceOf(r, e) /\ PieceOf(s, f)
      BY <1>5, <3>1, <3>2
    <3>4. CASE e = f
      BY <1>5, <3>1, <3>2, <3>4
    <3>5. CASE e # f
      <4>1. Apart(e, f)
        BY <3>5 DEF GoodMap
      <4> QED BY <3>3, <4>1, PiecesApart
    <3> QED BY <3>4, <3>5
  <2> QED BY <2>1, <2>2 DEF GoodMap
<1>7. ASSUME NEW p \in Nat, NEW ent \in vm_map, Memory!Covers(ent, p)
      PROVE  \E r \in M : Memory!Covers(r, p)
  BY <1>3, <1>5, <1>7
<1>8. ASSUME NEW r \in M
      PROVE  \E ent \in vm_map :
               /\ PieceOf(r, ent) /\ IsEntry(ent)
               /\ \/ r.prot = ent.prot /\ (Memory!End(r) <= first \/ end <= r.page_num)
                  \/ r.prot = prot /\ first <= r.page_num /\ Memory!End(r) <= end
  BY <1>2, <1>5
<1>9. ASSUME NEW r \in M, NEW p \in Nat, Memory!Covers(r, p)
      PROVE  \E ent \in vm_map :
               /\ Memory!Covers(ent, p) /\ SaysAs(r, ent, p)
               /\ p < first \/ end <= p => r.prot = ent.prot
               /\ first <= p /\ p < end => r.prot = prot /\ Memory!Allows(ent, prot)
  <2>1. PICK ent \in vm_map :
               /\ PieceOf(r, ent) /\ IsEntry(ent)
               /\ \/ r.prot = ent.prot /\ (Memory!End(r) <= first \/ end <= r.page_num)
                  \/ r.prot = prot /\ first <= r.page_num /\ Memory!End(r) <= end
    BY <1>8
  <2>2. Memory!Covers(ent, p) /\ SaysAs(r, ent, p)
    BY <1>9, <2>1, PieceSays
  <2>3. /\ r.page_num \in Nat /\ Memory!End(r) \in Nat /\ r.page_num <= p /\ p < Memory!End(r)
        /\ ent.page_num \in Nat /\ Memory!End(ent) \in Nat /\ ent.page_num <= p
        /\ p < Memory!End(ent)
    BY <1>9, <2>1, <2>2, EntryFacts DEF PieceOf, Memory!Covers
  <2>4. ASSUME p < first \/ end <= p PROVE r.prot = ent.prot
    BY <1>1, <2>1, <2>3, <2>4
  <2>5. ASSUME first <= p, p < end PROVE r.prot = prot /\ Memory!Allows(ent, prot)
    <3>1. ~Memory!Outside(ent, first, end)
      BY <1>1, <2>3, <2>5 DEF Memory!Outside
    <3> QED BY <1>1, <1>4, <2>1, <2>3, <2>5, <3>1
  <2> QED BY <2>2, <2>4, <2>5
<1>10. ASSUME NEW p \in Nat, p < first \/ end <= p PROVE Keeps(M, p)
  BY <1>7, <1>9, <1>10 DEF Keeps
<1>11. ASSUME NEW p \in Nat, first <= p, p < end
       PROVE  /\ \E r \in M : Memory!Covers(r, p)
              /\ \A r \in M : Memory!Covers(r, p) =>
                   /\ r.prot = prot
                   /\ \E ent \in vm_map :
                        Memory!Covers(ent, p) /\ SaysAs(r, ent, p) /\ Memory!Allows(ent, prot)
  BY <1>4, <1>7, <1>9, <1>11
<1>12. ASSUME NEW r \in M
       PROVE  \/ Memory!End(r) <= first \/ end <= r.page_num
              \/ r.prot = prot /\ first <= r.page_num /\ Memory!End(r) <= end
  BY <1>8
<1> QED BY <1>6, <1>10, <1>11, <1>12 DEF M, end

-----------------------------------------------------------------------------
(* The invariant of the memory map.                                        *)

HostContents == {"none", "data", "text", "heap", "anon", "file", "beyond"}
HostProts == Prots \cup {{"x"}, Memory!None, Memory!ReadWrite}

\* What the map and the host have at a page.  Where the host has the file, the
\* entry is one of the file and its offset is not past the end: mprotect()
\* protects as many pages of an entry as the file has after its offset.
PageInv(p) ==
  /\ enclave /\ (~ \E ent \in vm_map : Memory!Covers(ent, p)) => host[p] = "none"
  /\ ~enclave =>
       /\ (~ \E ent \in vm_map : Memory!Covers(ent, p)) => host_prot[p] = {}
       /\ \A ent \in vm_map : Memory!Covers(ent, p) =>
            /\ host[p] \in {"anon", "file"} => host_prot[p] = ent.prot
            /\ host[p] = "anon" => ent.desc # "file"
            /\ host[p] = "file" => ent.desc = "file" /\ FileAt(ent, p) < FileSize

MemTypes ==
  /\ enclave \in BOOLEAN
  /\ break_page \in HeapStart + 1 .. NumPages
  /\ host \in [Memory!Pages -> HostContents] /\ host_prot \in [Memory!Pages -> HostProts]

TextStays == \E ent \in vm_map : Memory!Covers(ent, 0)

PagesInv ==
  /\ GoodMap(vm_map)
  /\ TextStays
  /\ MemTypes
  /\ \A p \in Memory!Pages : PageInv(p)

\* A CHECK fails only in a call of mprotect() for no bytes.
CallInv ==
  /\ check \in BOOLEAN
  /\ call \in [op : Memory!Operations, first : 0 .. NumPages, n : 0 .. NumPages]
  /\ check \/ (call.op = "mprotect" /\ call.n = 0)

MemInv == PagesInv /\ CallInv

LEMMA PagesAre ==
  Memory!Pages \subseteq Nat /\ \A p \in Nat : p < NumPages => p \in Memory!Pages
BY MemConstants DEF Memory!Pages

LEMMA ProtsAre ==
  /\ PageProts \subseteq HostProts /\ Prots \subseteq PageProts
  /\ {} \in HostProts /\ {"r", "w"} \in Prots /\ {"r", "w"} \in HostProts
BY MemConstants DEF HostProts, PageProts, Memory!None, Memory!ReadWrite

\* A page of which neither the map nor the host says anything new.
LEMMA PageKept ==
  ASSUME GoodMap(vm_map), GoodMap(vm_map'), NEW p \in Memory!Pages, PageInv(p),
         Keeps(vm_map', p), enclave' = enclave, host'[p] = host[p],
         host_prot'[p] = host_prot[p]
  PROVE  PageInv(p)'
<1>0. p \in Nat
  BY PagesAre
<1>1. ASSUME NEW r \in vm_map', Memory!Covers(r, p)
      PROVE  \E ent \in vm_map :
               /\ Memory!Covers(ent, p) /\ r.prot = ent.prot /\ r.desc = ent.desc
               /\ FileAt(ent, p) < FileSize => FileAt(r, p) < FileSize
  <2>1. PICK ent \in vm_map : /\ Memory!Covers(ent, p) /\ r.prot = ent.prot
                               /\ r.desc = ent.desc /\ FileAt(r, p) <= FileAt(ent, p)
    BY <1>1 DEF Keeps, SaysAs
  <2>2. IsEntry(ent) /\ IsEntry(r)
    BY DEF GoodMap
  <2>3. FileAt(ent, p) \in Int /\ FileAt(r, p) \in Int /\ FileSize \in Int
    BY <1>0, <2>2, EntryFacts, MemConstants
  <2> QED BY <2>1, <2>3
<1>2. (\E ent \in vm_map : Memory!Covers(ent, p)) => \E r \in vm_map' : Memory!Covers(r, p)
  BY DEF Keeps
<1>3. CASE enclave
  <2>1. ASSUME ~ \E r \in vm_map' : Memory!Covers(r, p) PROVE host'[p] = "none"
    BY <1>2, <1>3, <2>1 DEF PageInv
  <2> QED BY <1>3, <2>1 DEF PageInv
<1>4. CASE ~enclave
  <2>1. ASSUME ~ \E r \in vm_map' : Memory!Covers(r, p) PROVE host_prot'[p] = {}
    BY <1>2, <1>4, <2>1 DEF PageInv
  <2>2. ASSUME NEW r \in vm_map', Memory!Covers(r, p)
        PROVE  /\ host'[p] \in {"anon", "file"} => host_prot'[p] = r.prot
               /\ host'[p] = "anon" => r.desc # "file"
               /\ host'[p] = "file" => r.desc = "file" /\ FileAt(r, p) < FileSize
    <3>1. PICK ent \in vm_map :
               /\ Memory!Covers(ent, p) /\ r.prot = ent.prot /\ r.desc = ent.desc
               /\ FileAt(ent, p) < FileSize => FileAt(r, p) < FileSize
      BY <1>1, <2>2
    <3>2. /\ host[p] \in {"anon", "file"} => host_prot[p] = ent.prot
          /\ host[p] = "anon" => ent.desc # "file"
          /\ host[p] = "file" => ent.desc = "file" /\ FileAt(ent, p) < FileSize
      BY <1>4, <3>1 DEF PageInv
    <3> QED BY <3>1, <3>2
  <2> QED BY <1>4, <2>1, <2>2 DEF PageInv
<1> QED BY <1>3, <1>4

\* The entry of a mapping.
LEMMA NewEntry ==
  ASSUME NEW first \in Nat, NEW n \in Nat \ {0}, first + n <= NumPages,
         NEW desc \in ContentNames, NEW prot \in Memory!Contents[desc], NEW offset \in Nat
  PROVE  LET ent == Memory!Entry(first, n, prot, desc, offset) IN
         /\ IsEntry(ent) /\ ent.page_num = first /\ ent.npages = n
         /\ Memory!End(ent) = first + n
         /\ ent.prot = prot /\ ent.desc = desc
         /\ \A p \in Nat : FileAt(ent, p) = offset + (p - first) * PageSize
<1>1. PICK ent : ent = Memory!Entry(first, n, prot, desc, offset)
  OBVIOUS
<1>2. /\ ent \in Entries /\ ent.page_num = first /\ ent.npages = n
      /\ ent.prot = prot /\ ent.desc = desc /\ ent.offset = offset
  BY <1>1, ContentsAre DEF Memory!Entry, Entries
<1>3. Memory!End(ent) = first + n
  BY <1>2 DEF Memory!End
<1>4. IsEntry(ent)
  BY <1>2, <1>3 DEF IsEntry, Memory!Allows
<1> QED BY <1>1, <1>2, <1>3, <1>4 DEF FileAt

\* Pages of a range, and those that are not.
LEMMA RangeIs ==
  ASSUME NEW first \in Nat, NEW n \in Nat \ {0}, first + n <= NumPages
  PROVE  /\ Memory!PageRange(first, n) \subseteq Memory!Pages
         /\ \A p \in Memory!Pages :
              p \in Memory!PageRange(first, n) <=> first <= p /\ p < first + n
         /\ \A p \in Memory!Pages :
              p \notin Memory!PageRange(first, n) <=> p < first \/ first + n <= p
BY PagesAre, MemConstants DEF Memory!PageRange, Memory!Pages

\* What a mapping does to the map, for the steps below.
LEMMA MappedEntry ==
  ASSUME PagesInv, NEW first \in Nat \ {0}, NEW n \in Nat \ {0}, first + n <= NumPages,
         NEW ent, IsEntry(ent), ent.page_num = first, Memory!End(ent) = first + n,
         vm_map' = Memory!VmmapAddWithOverwrite(ent)
  PROVE  /\ GoodMap(vm_map') /\ TextStays'
         /\ \A p \in Memory!Pages : p \notin Memory!PageRange(first, n) => Keeps(vm_map', p)
         /\ \A p \in Memory!Pages : p \in Memory!PageRange(first, n) =>
              /\ \E r \in vm_map' : Memory!Covers(r, p)
              /\ \A r \in vm_map' : Memory!Covers(r, p) => r = ent
<1>1. /\ GoodMap(vm_map') /\ ent \in vm_map'
      /\ \A p \in Nat : p < first \/ first + n <= p => Keeps(vm_map', p)
      /\ \A p \in Nat, r \in vm_map' : Memory!Covers(ent, p) /\ Memory!Covers(r, p) => r = ent
  BY OverwriteMap DEF PagesInv
<1>2. TextStays'
  BY <1>1 DEF PagesInv, TextStays, Keeps
<1>3. ASSUME NEW p \in Memory!Pages, p \in Memory!PageRange(first, n)
      PROVE  /\ \E r \in vm_map' : Memory!Covers(r, p)
             /\ \A r \in vm_map' : Memory!Covers(r, p) => r = ent
  <2>1. p \in Nat /\ first <= p /\ p < first + n
    BY <1>3, RangeIs, PagesAre
  <2>2. Memory!Covers(ent, p)
    BY <2>1 DEF Memory!Covers
  <2> QED BY <1>1, <2>1, <2>2
<1>4. ASSUME NEW p \in Memory!Pages, p \notin Memory!PageRange(first, n) PROVE Keeps(vm_map', p)
  BY <1>1, <1>4, RangeIs, PagesAre
<1> QED BY <1>1, <1>2, <1>3, <1>4

-----------------------------------------------------------------------------
(* The calls preserve it.                                                  *)

LEMMA MapAnonStep ==
  ASSUME PagesInv, NEW first \in Nat, NEW n \in Nat \ {0}, NEW prot \in Prots,
         Memory!MapAnon(first, n, prot)
  PROVE  PagesInv'
<1>1. /\ first \in Nat \ {0} /\ first + n <= NumPages
      /\ vm_map' = Memory!VmmapAddWithOverwrite(Memory!Entry(first, n, prot, "anon", 0))
      /\ enclave' = enclave /\ break_page' = break_page
  BY MemConstants DEF Memory!MapAnon, Memory!Allowed
<1>2. PICK ent : ent = Memory!Entry(first, n, prot, "anon", 0)
  OBVIOUS
<1>3. /\ IsEntry(ent) /\ ent.page_num = first /\ Memory!End(ent) = first + n
      /\ ent.prot = prot /\ ent.desc = "anon"
  BY <1>1, <1>2, NewEntry, ContentsAre DEF ContentNames
<1>4. /\ GoodMap(vm_map') /\ TextStays'
      /\ \A p \in Memory!Pages : p \notin Memory!PageRange(first, n) => Keeps(vm_map', p)
      /\ \A p \in Memory!Pages : p \in Memory!PageRange(first, n) =>
           /\ \E r \in vm_map' : Memory!Covers(r, p)
           /\ \A r \in vm_map' : Memory!Covers(r, p) => r = ent
  BY <1>1, <1>2, <1>3, MappedEntry
<1>5. \/ enclave /\ host' = host /\ host_prot' = host_prot
      \/ /\ ~enclave
         /\ host' = [p \in Memory!Pages |-> IF p \in Memory!PageRange(first, n) THEN "anon"
                                            ELSE host[p]]
         /\ host_prot' = [p \in Memory!Pages |-> IF p \in Memory!PageRange(first, n) THEN prot
                                          ELSE host_prot[p]]
  BY DEF Memory!MapAnon, Memory!SetHost
<1>6. MemTypes'
  BY <1>1, <1>5, ProtsAre DEF PagesInv, MemTypes, HostContents
<1>7. ASSUME NEW p \in Memory!Pages PROVE PageInv(p)'
  <2>1. CASE p \notin Memory!PageRange(first, n)
    <3>1. host'[p] = host[p] /\ host_prot'[p] = host_prot[p]
      BY <1>5, <2>1
    <3> QED BY <1>1, <1>4, <2>1, <3>1, PageKept DEF PagesInv
  <2>2. CASE p \in Memory!PageRange(first, n)
    <3>1. /\ \E r \in vm_map' : Memory!Covers(r, p)
          /\ \A r \in vm_map' : Memory!Covers(r, p) => r.prot = prot /\ r.desc = "anon"
      BY <1>3, <1>4, <2>2
    <3>2. ~enclave => host'[p] = "anon" /\ host_prot'[p] = prot
      BY <1>5, <2>2
    <3> QED BY <1>1, <3>1, <3>2 DEF PageInv
  <2> QED BY <2>1, <2>2
<1> QED BY <1>4, <1>6, <1>7, PagesAre DEF PagesInv, Memory!Pages

LEMMA MapFileStep ==
  ASSUME PagesInv, NEW first \in Nat, NEW n \in Nat \ {0}, NEW prot \in Memory!Contents["file"],
         NEW ofs \in FilePages, Memory!MapFile(first, n, prot, ofs)
  PROVE  PagesInv'
<1> DEFINE offset == ofs * PageSize
           InFile(p) == offset + (p - first) * PageSize < FileSize
<1>0. /\ first \in Nat \ {0} /\ first + n <= NumPages
      /\ vm_map' = Memory!VmmapAddWithOverwrite(Memory!Entry(first, n, prot, "file", offset))
      /\ enclave' = enclave /\ break_page' = break_page
  BY MemConstants DEF Memory!MapFile, Memory!Allowed
<1>1. PICK o \in Nat : o = offset
  BY MemConstants, Bytes
<1>2. PICK ent : ent = Memory!Entry(first, n, prot, "file", o)
  OBVIOUS
<1>3. /\ IsEntry(ent) /\ ent.page_num = first /\ Memory!End(ent) = first + n
      /\ ent.prot = prot /\ ent.desc = "file"
      /\ \A p \in Nat : FileAt(ent, p) = o + (p - first) * PageSize
  BY <1>0, <1>2, NewEntry DEF ContentNames
<1>4. /\ GoodMap(vm_map') /\ TextStays'
      /\ \A p \in Memory!Pages : p \notin Memory!PageRange(first, n) => Keeps(vm_map', p)
      /\ \A p \in Memory!Pages : p \in Memory!PageRange(first, n) =>
           /\ \E r \in vm_map' : Memory!Covers(r, p)
           /\ \A r \in vm_map' : Memory!Covers(r, p) => r = ent
  BY <1>0, <1>1, <1>2, <1>3, MappedEntry
<1>5. \/ /\ enclave
         /\ host'
              = [p \in Memory!Pages |-> IF p \in {q \in Memory!PageRange(first, n) : ~InFile(q)}
                                     THEN "none" ELSE host[p]]
         /\ host_prot' = [p \in Memory!Pages |-> host_prot[p]]
      \/ /\ ~enclave
         /\ host' = [p \in Memory!Pages |-> IF p \notin Memory!PageRange(first, n) THEN host[p]
                                     ELSE IF InFile(p) THEN "file" ELSE "beyond"]
         /\ host_prot'
              = [p \in Memory!Pages |-> IF p \notin Memory!PageRange(first, n) THEN host_prot[p]
                                          ELSE IF InFile(p) THEN prot ELSE {}]
  BY DEF Memory!MapFile, Memory!Clear, Memory!None
<1>5a. \A p \in Memory!Pages : InFile(p) <=> FileAt(ent, p) < FileSize
  BY <1>1, <1>3, PagesAre
<1> HIDE DEF InFile
<1>5b. prot \in HostProts
  BY ContentsAre, ProtsAre DEF ContentNames
<1>6. MemTypes'
  BY <1>0, <1>5, <1>5b, ProtsAre DEF PagesInv, MemTypes, HostContents
<1>7. ASSUME NEW p \in Memory!Pages PROVE PageInv(p)'
  <2>1. CASE p \notin Memory!PageRange(first, n)
    <3>1. host'[p] = host[p] /\ host_prot'[p] = host_prot[p]
      BY <1>5, <2>1
    <3> QED BY <1>0, <1>4, <2>1, <3>1, PageKept DEF PagesInv
  <2>2. CASE p \in Memory!PageRange(first, n)
    <3>1. /\ \E r \in vm_map' : Memory!Covers(r, p)
          /\ \A r \in vm_map' : Memory!Covers(r, p) => r = ent
      BY <1>4, <2>2
    <3>2. ~enclave => \/ InFile(p) /\ host'[p] = "file" /\ host_prot'[p] = prot
                      \/ host'[p] = "beyond" /\ host_prot'[p] = {}
      BY <1>5, <2>2
    <3> QED BY <1>0, <1>3, <1>5a, <3>1, <3>2 DEF PageInv
  <2> QED BY <2>1, <2>2
<1> QED BY <1>4, <1>6, <1>7, PagesAre DEF PagesInv, Memory!Pages

LEMMA MunmapStep ==
  ASSUME PagesInv, NEW first \in Nat, NEW n \in Nat \ {0}, Memory!Munmap(first, n)
  PROVE  PagesInv'
<1>1. /\ first \in Nat \ {0} /\ first + n <= NumPages
      /\ vm_map' = Memory!VmmapRemove(first, n)
      /\ enclave' = enclave /\ break_page' = break_page
  BY MemConstants DEF Memory!Munmap, Memory!Allowed
<1>2. /\ GoodMap(vm_map')
      /\ \A r \in vm_map' : Memory!End(r) <= first \/ first + n <= r.page_num
      /\ \A p \in Nat : p < first \/ first + n <= p => Keeps(vm_map', p)
  BY <1>1, RemoveMap DEF PagesInv
<1>3. TextStays'
  BY <1>1, <1>2 DEF PagesInv, TextStays, Keeps
<1>4. /\ host' = [p \in Memory!Pages |-> IF p \in Memory!PageRange(first, n) THEN "none"
                                         ELSE host[p]]
      /\ host_prot'
           = [p \in Memory!Pages |-> IF p \in Memory!PageRange(first, n) /\ ~enclave THEN {}
                                       ELSE host_prot[p]]
  BY DEF Memory!Munmap, Memory!Clear, Memory!None
<1>5. MemTypes'
  BY <1>1, <1>4, ProtsAre DEF PagesInv, MemTypes, HostContents
<1>6. ASSUME NEW p \in Memory!Pages PROVE PageInv(p)'
  <2>1. CASE p \notin Memory!PageRange(first, n)
    <3>1. host'[p] = host[p] /\ host_prot'[p] = host_prot[p]
      BY <1>4, <2>1
    <3>2. Keeps(vm_map', p)
      BY <1>1, <1>2, <2>1, RangeIs, PagesAre
    <3> QED BY <1>1, <1>2, <3>1, <3>2, PageKept DEF PagesInv
  <2>2. CASE p \in Memory!PageRange(first, n)
    <3>1. p \in Nat /\ first <= p /\ p < first + n
      BY <1>1, <2>2, RangeIs, PagesAre
    <3>2. \A r \in vm_map' : ~Memory!Covers(r, p)
      <4> SUFFICES ASSUME NEW r \in vm_map', Memory!Covers(r, p) PROVE FALSE
        OBVIOUS
      <4>1. r.page_num \in Nat /\ Memory!End(r) \in Nat
        BY <1>2, EntryFacts DEF GoodMap
      <4> QED BY <1>1, <1>2, <3>1, <4>1 DEF Memory!Covers
    <3>3. host'[p] = "none" /\ (~enclave => host_prot'[p] = {})
      BY <1>4, <2>2
    <3> QED BY <1>1, <3>2, <3>3 DEF PageInv
  <2> QED BY <2>1, <2>2
<1> QED BY <1>2, <1>3, <1>5, <1>6, PagesAre DEF PagesInv, Memory!Pages

LEMMA StoreStep ==
  ASSUME PagesInv, NEW p \in Memory!Pages, Memory!Store(p)
  PROVE  PagesInv'
<1>1. /\ enclave /\ vm_map' = vm_map /\ enclave' = enclave
      /\ break_page' = break_page /\ host_prot' = host_prot
      /\ host' = [host EXCEPT ![p] = "data"]
      /\ \E ent \in vm_map : Memory!Covers(ent, p)
  BY DEF Memory!Store, Memory!FindPage
<1>2. MemTypes'
  BY <1>1 DEF PagesInv, MemTypes, HostContents
<1>3. \A q \in Memory!Pages : PageInv(q)'
  BY <1>1 DEF PagesInv, MemTypes, PageInv
<1> QED BY <1>1, <1>2, <1>3, PagesAre DEF PagesInv, GoodMap, TextStays, Memory!Pages

LEMMA BrkDownStep ==
  ASSUME PagesInv, NEW new \in Nat, new <= NumPages, Memory!BrkDown(new)
  PROVE  PagesInv'
<1>1. /\ HeapStart < new /\ break_page' = new
      /\ UNCHANGED <<enclave, vm_map, host, host_prot>>
  BY DEF Memory!BrkDown
<1>2. MemTypes'
  BY <1>1, MemConstants DEF PagesInv, MemTypes
<1> QED BY <1>1, <1>2, PagesAre DEF PagesInv, GoodMap, TextStays, Memory!Pages, PageInv

LEMMA BrkWithinEntryStep ==
  ASSUME PagesInv, NEW new \in Nat, new <= NumPages, Memory!BrkWithinEntry(new)
  PROVE  PagesInv'
<1>1. /\ break_page < new /\ break_page' = new
      /\ UNCHANGED <<enclave, vm_map>>
  BY DEF Memory!BrkWithinEntry
<1>2. \/ ~enclave /\ UNCHANGED <<host, host_prot>>
      \/ /\ enclave
         /\ host' = [p \in Memory!Pages |-> IF p \in break_page .. new - 1 THEN "none"
                                            ELSE host[p]]
         /\ host_prot' = [p \in Memory!Pages |-> host_prot[p]]
  BY DEF Memory!BrkWithinEntry, Memory!ZeroBreak, Memory!Clear
<1>3. MemTypes'
  BY <1>1, <1>2, MemConstants DEF PagesInv, MemTypes, HostContents
<1>4. \A p \in Memory!Pages : PageInv(p)'
  BY <1>1, <1>2 DEF PagesInv, MemTypes, PageInv
<1> QED BY <1>1, <1>3, <1>4, PagesAre DEF PagesInv, GoodMap, TextStays, Memory!Pages

\* The map with an entry that has grown over the pages after it.
Grown(ent, new) == [ent EXCEPT !.npages = new - ent.page_num]

\* No entry after ent starts before the page new.
FreeUpTo(ent, new) == \A next \in vm_map : next.page_num > ent.page_num => next.page_num >= new

LEMMA GrowMap ==
  ASSUME GoodMap(vm_map), NEW ent \in vm_map, NEW new \in Nat, Memory!End(ent) < new,
         new <= NumPages, FreeUpTo(ent, new),
         NEW map, map = (vm_map \ {ent}) \cup {Grown(ent, new)}
  PROVE  /\ GoodMap(map)
         /\ \A p \in Nat : p < Memory!End(ent) \/ new <= p => Keeps(map, p)
         /\ \A p \in Nat : Memory!End(ent) <= p /\ p < new =>
              /\ ~ \E e \in vm_map : Memory!Covers(e, p)
              /\ \E r \in map : Memory!Covers(r, p)
              /\ \A r \in map : Memory!Covers(r, p) => r.prot = ent.prot /\ r.desc = ent.desc
<1>1. /\ IsEntry(ent) /\ ent.page_num \in Nat /\ Memory!End(ent) \in Nat
      /\ ent.page_num < Memory!End(ent)
  BY EntryFacts DEF GoodMap
<1>2. PICK n \in Nat \ {0} : n = new - ent.page_num
  <2>1. new - ent.page_num \in Nat \ {0}
    BY <1>1
  <2> QED BY <2>1
<1>3. PICK r : r = [ent EXCEPT !.npages = n]
  OBVIOUS
<1>4. /\ r \in Entries /\ r.page_num = ent.page_num /\ r.npages = n /\ r.prot = ent.prot
      /\ r.desc = ent.desc /\ r.offset = ent.offset
  BY <1>1, <1>3 DEF IsEntry, Entries
<1>5. Memory!End(r) = new /\ \A p \in Nat : FileAt(r, p) = FileAt(ent, p)
  BY <1>1, <1>2, <1>4 DEF Memory!End, FileAt
<1>6. IsEntry(r)
  BY <1>1, <1>4, <1>5 DEF IsEntry, Memory!Allows
<1>7. map = (vm_map \ {ent}) \cup {r}
  BY <1>2, <1>3 DEF Grown
<1>8. ASSUME NEW f \in vm_map \ {ent}
      PROVE  /\ f.page_num \in Nat /\ Memory!End(f) \in Nat /\ f.page_num < Memory!End(f)
             /\ Memory!End(f) <= ent.page_num \/ new <= f.page_num
  <2>1. f.page_num \in Nat /\ Memory!End(f) \in Nat /\ f.page_num < Memory!End(f)
    BY EntryFacts DEF GoodMap
  <2>2. Memory!End(f) <= ent.page_num \/ Memory!End(ent) <= f.page_num
    BY DEF GoodMap, Apart
  <2> QED BY <1>1, <2>1, <2>2 DEF FreeUpTo
<1>9. \A f \in vm_map \ {ent} : Apart(f, r) /\ Apart(r, f)
  BY <1>4, <1>5, <1>8 DEF Apart
<1>10. GoodMap(map)
  BY <1>6, <1>7, <1>9 DEF GoodMap
<1>11. \A p \in Nat : Memory!Covers(r, p) <=> ent.page_num <= p /\ p < new
  BY <1>4, <1>5 DEF Memory!Covers
<1>12. \A p \in Nat : Memory!Covers(ent, p) <=> ent.page_num <= p /\ p < Memory!End(ent)
  BY DEF Memory!Covers
<1>13. ASSUME NEW p \in Nat, p < Memory!End(ent) \/ new <= p PROVE Keeps(map, p)
  <2>1. Memory!Covers(r, p) <=> Memory!Covers(ent, p)
    BY <1>1, <1>11, <1>12, <1>13
  <2>2. \A e \in vm_map : SaysAs(e, e, p)
    BY EntryFacts DEF GoodMap, SaysAs
  <2>3. SaysAs(r, ent, p)
    BY <1>4, <1>5, <2>2 DEF SaysAs
  <2> QED BY <1>4, <1>7, <2>1, <2>2, <2>3 DEF Keeps
<1>14. ASSUME NEW p \in Nat, Memory!End(ent) <= p, p < new
       PROVE  /\ ~ \E e \in vm_map : Memory!Covers(e, p)
              /\ \E s \in map : Memory!Covers(s, p)
              /\ \A s \in map : Memory!Covers(s, p) => s.prot = ent.prot /\ s.desc = ent.desc
  <2>1. Memory!Covers(r, p) /\ ~Memory!Covers(ent, p)
    BY <1>1, <1>11, <1>12, <1>14
  <2>2. ASSUME NEW f \in vm_map \ {ent} PROVE ~Memory!Covers(f, p)
    BY <1>1, <1>8, <1>14 DEF Memory!Covers
  <2> QED BY <1>4, <1>7, <2>1, <2>2
<1> QED BY <1>10, <1>13, <1>14

LEMMA BrkExtendStep ==
  ASSUME PagesInv, NEW new \in Nat, Memory!BrkExtend(new)
  PROVE  PagesInv'
<1>1. /\ break_page < new /\ new <= NumPages
      /\ enclave' = enclave /\ break_page' = new
  BY MemConstants DEF Memory!BrkExtend, PagesInv, MemTypes
<1>2. PICK ent \in vm_map :
        /\ Memory!Covers(ent, break_page - 1) /\ Memory!End(ent) < new
        /\ \A next \in vm_map : next.page_num > ent.page_num => next.page_num >= new
        /\ vm_map' = (vm_map \ {ent}) \cup {Grown(ent, new)}
        /\ \/ Memory!ZeroBreak(new)
           \/ ~enclave
                /\ Memory!SetHost(Memory!PageRange(Memory!End(ent), new - Memory!End(ent)),
                   "heap", Memory!ReadWrite)
  BY DEF Memory!BrkExtend, Memory!FindPage, Grown
<1>3. /\ GoodMap(vm_map')
      /\ \A p \in Nat : p < Memory!End(ent) \/ new <= p => Keeps(vm_map', p)
      /\ \A p \in Nat : Memory!End(ent) <= p /\ p < new =>
           /\ ~ \E e \in vm_map : Memory!Covers(e, p)
           /\ \E r \in vm_map' : Memory!Covers(r, p)
           /\ \A r \in vm_map' : Memory!Covers(r, p) => r.prot = ent.prot /\ r.desc = ent.desc
  <2>1. GoodMap(vm_map) /\ Memory!End(ent) < new /\ FreeUpTo(ent, new) /\ new <= NumPages
    BY <1>1, <1>2 DEF PagesInv, FreeUpTo
  <2>2. PICK map : map = vm_map' /\ map = (vm_map \ {ent}) \cup {Grown(ent, new)}
    BY <1>2
  <2>3. /\ GoodMap(map)
        /\ \A p \in Nat : p < Memory!End(ent) \/ new <= p => Keeps(map, p)
        /\ \A p \in Nat : Memory!End(ent) <= p /\ p < new =>
             /\ ~ \E e \in vm_map : Memory!Covers(e, p)
             /\ \E r \in map : Memory!Covers(r, p)
             /\ \A r \in map : Memory!Covers(r, p) => r.prot = ent.prot /\ r.desc = ent.desc
    BY <2>1, <2>2, GrowMap
  <2> QED BY <2>2, <2>3
<1>4. /\ Memory!End(ent) \in Nat /\ ent.page_num \in Nat /\ ent.page_num < Memory!End(ent)
      /\ break_page \in Nat /\ break_page <= Memory!End(ent)
  <2>1. /\ Memory!End(ent) \in Nat /\ ent.page_num \in Nat /\ ent.page_num < Memory!End(ent)
    BY EntryFacts DEF PagesInv, GoodMap
  <2>2. break_page \in Nat /\ break_page - 1 < Memory!End(ent)
    BY <1>2, MemConstants DEF PagesInv, MemTypes, Memory!Covers
  <2> QED BY <2>1, <2>2
<1>5. TextStays'
  <2>1. 0 \in Nat /\ 0 < Memory!End(ent)
    BY <1>4
  <2> QED BY <1>3, <2>1 DEF PagesInv, TextStays, Keeps
<1>6. \/ /\ enclave
         /\ host' = [p \in Memory!Pages |-> IF p \in break_page .. new - 1 THEN "none"
                                            ELSE host[p]]
         /\ host_prot' = [p \in Memory!Pages |-> host_prot[p]]
      \/ /\ ~enclave
         /\ host' = [p \in Memory!Pages |-> IF Memory!End(ent) <= p /\ p < new THEN "heap"
                                            ELSE host[p]]
         /\ host_prot'
              = [p \in Memory!Pages |-> IF Memory!End(ent) <= p /\ p < new THEN {"r", "w"}
                                          ELSE host_prot[p]]
  <2>1. \A p \in Memory!Pages :
          p \in Memory!PageRange(Memory!End(ent), new - Memory!End(ent))
            <=> Memory!End(ent) <= p /\ p < new
    BY <1>4, PagesAre DEF Memory!PageRange
  <2>2. CASE Memory!ZeroBreak(new)
    BY <2>2 DEF Memory!ZeroBreak, Memory!Clear
  <2>3. CASE ~enclave
               /\ Memory!SetHost(Memory!PageRange(Memory!End(ent), new - Memory!End(ent)),
                  "heap", Memory!ReadWrite)
    BY <2>1, <2>3 DEF Memory!SetHost, Memory!ReadWrite
  <2> QED BY <1>2, <2>2, <2>3
<1>7. MemTypes'
  <2>1. break_page' \in HeapStart + 1 .. NumPages
    BY <1>1, <1>4, MemConstants DEF PagesInv, MemTypes
  <2>2. host' \in [Memory!Pages -> HostContents] /\ host_prot' \in [Memory!Pages -> HostProts]
    BY <1>6, ProtsAre DEF PagesInv, MemTypes, HostContents
  <2> QED BY <1>1, <2>1, <2>2 DEF PagesInv, MemTypes, Memory!Pages, HostContents, HostProts,
      Memory!None, Memory!ReadWrite
<1>8. ASSUME NEW p \in Memory!Pages PROVE PageInv(p)'
  <2>0. p \in Nat
    BY PagesAre
  <2>1. CASE Memory!End(ent) <= p /\ p < new
    <3>1. CASE enclave
      BY <1>1, <1>3, <2>0, <2>1, <3>1 DEF PageInv
    <3>2. CASE ~enclave
      <4>1. host'[p] = "heap"
        BY <1>6, <2>1, <3>2
      <4>2. \E r \in vm_map' : Memory!Covers(r, p)
        BY <1>3, <2>0, <2>1
      <4> QED BY <1>1, <3>2, <4>1, <4>2 DEF PageInv
    <3> QED BY <3>1, <3>2
  <2>2. CASE p < Memory!End(ent) \/ new <= p
    <3>1. Keeps(vm_map', p)
      BY <1>3, <2>0, <2>2
    <3>2. CASE host'[p] = host[p]
      <4>1. host_prot'[p] = host_prot[p]
        BY <1>1, <1>4, <1>6, <2>0, <2>2
      <4> QED BY <1>1, <1>3, <3>1, <3>2, <4>1, PageKept DEF PagesInv
    <3>3. CASE host'[p] # host[p]
      <4>1. enclave /\ host'[p] = "none"
        BY <1>1, <1>4, <1>6, <2>0, <2>2, <3>3
      <4> QED BY <1>1, <4>1 DEF PageInv
    <3> QED BY <3>2, <3>3
  <2> QED BY <1>1, <1>4, <2>0, <2>1, <2>2
<1> QED BY <1>3, <1>5, <1>7, <1>8, PagesAre DEF PagesInv, Memory!Pages

\* Counted in pages, what is left of the file after an offset has the page of
\* every byte of the file that follows it.
LEMMA PagesLeft ==
  ASSUME NEW left \in Nat, NEW k \in Nat, k * PageSize < left
  PROVE  k < (left + PageSize - 1) \div PageSize
<1>1. PICK d \in Nat \ {0} : d = PageSize
  BY MemConstants
<1>2. PICK m \in Nat : m = left + d - 1
  <2>1. left + d - 1 \in Nat
    BY <1>1
  <2> QED BY <2>1
<1>3. PICK x \in Nat : x = k * d /\ x < left
  <2>1. k * d \in Nat
    BY <1>1, Bytes
  <2> QED BY <1>1, <2>1
<1>4. PICK q \in Int : q = m \div d
  BY <1>1, <1>2
<1>5. m < (q + 1) * d
  BY <1>1, <1>2, <1>4
<1>6. (k + 1) * d = x + d
  <2>1. (k + 1) * d = k * d + d
    BY <1>1
  <2> QED BY <1>3, <2>1
<1>7. (k + 1) * d <= m
  BY <1>1, <1>2, <1>3, <1>6
<1>8. (k + 1) * d < (q + 1) * d
  <2>1. PICK a, b \in Int : a = (k + 1) * d /\ b = (q + 1) * d
    BY <1>1, <1>4
  <2> QED BY <1>2, <1>5, <1>7, <2>1
<1>9. \A i, j \in Int : i * d < j * d => i < j
  <2> SUFFICES ASSUME NEW i \in Int, NEW j \in Int, j <= i PROVE j * d <= i * d
    BY <1>1
  <2>1. PICK c \in Nat : i = j + c
    <3>1. i - j \in Nat
      OBVIOUS
    <3> QED BY <3>1
  <2>2. (j + c) * d = j * d + c * d
    BY <1>1, <2>1
  <2>3. c * d \in Nat
    BY <1>1, <2>1
  <2>4. PICK y \in Int : y = j * d
    BY <1>1
  <2> QED BY <2>1, <2>2, <2>3, <2>4
<1>10. k + 1 < q + 1
  BY <1>4, <1>8, <1>9
<1> QED BY <1>1, <1>2, <1>4, <1>10

LEMMA ProtectedIs ==
  ASSUME NEW ent, IsEntry(ent), NEW p \in Nat
  PROVE  /\ p \in Memory!Protected(ent) => Memory!Covers(ent, p)
         /\ Memory!Covers(ent, p) /\ ent.desc # "file" => p \in Memory!Protected(ent)
         /\ Memory!Covers(ent, p) /\ ent.desc = "file" /\ FileAt(ent, p) < FileSize
              => p \in Memory!Protected(ent)
<1>1. /\ ent.page_num \in Nat /\ ent.npages \in Nat \ {0} /\ ent.offset \in Nat
      /\ Memory!End(ent) = ent.page_num + ent.npages
  BY DEF IsEntry, Entries, Memory!End
<1>2. Memory!Covers(ent, p) <=> p \in Memory!PageRange(ent.page_num, ent.npages)
  BY <1>1 DEF Memory!Covers, Memory!PageRange
<1>3. CASE ent.desc # "file"
  BY <1>2, <1>3 DEF Memory!Protected
<1>4. CASE ent.desc = "file" /\ ~(ent.offset < FileSize)
  <2>1. Memory!Protected(ent) = {}
    BY <1>4 DEF Memory!Protected
  <2>2. ASSUME Memory!Covers(ent, p), FileAt(ent, p) < FileSize PROVE FALSE
    <3>1. p - ent.page_num \in Nat
      BY <1>1, <2>2 DEF Memory!Covers
    <3>2. (p - ent.page_num) * PageSize \in Nat
      BY <3>1, Bytes
    <3> QED BY <1>1, <1>4, <2>2, <3>2, MemConstants DEF FileAt
  <2> QED BY <1>4, <2>1, <2>2
<1>5. CASE ent.desc = "file" /\ ent.offset < FileSize
  <2>1. PICK left \in Int : left = (FileSize - ent.offset + PageSize - 1) \div PageSize
    <3>1. FileSize - ent.offset + PageSize - 1 \in Int
      BY <1>1, MemConstants
    <3> QED BY <3>1, MemConstants
  <2>2. Memory!Protected(ent) = Memory!PageRange(ent.page_num, Memory!Min({left, ent.npages}))
    BY <1>5, <2>1 DEF Memory!Protected
  <2>3. Memory!Min({left, ent.npages}) = IF left <= ent.npages THEN left ELSE ent.npages
    <3>1. left \in Int /\ ent.npages \in Int
      BY <1>1
    <3> QED BY <3>1, OfTwo, Zenon
  <2>4. p \in Memory!Protected(ent) => Memory!Covers(ent, p)
    BY <1>1, <1>2, <2>2, <2>3 DEF Memory!PageRange
  <2>5. ASSUME Memory!Covers(ent, p), FileAt(ent, p) < FileSize
        PROVE p \in Memory!Protected(ent)
    <3>1. PICK k \in Nat : k = p - ent.page_num
      <4>1. p - ent.page_num \in Nat
        BY <1>1, <2>5 DEF Memory!Covers
      <4> QED BY <4>1
    <3>2. PICK b \in Nat : b = k * PageSize
      BY Bytes
    <3>3. PICK rest \in Nat : rest = FileSize - ent.offset
      <4>1. FileSize - ent.offset \in Nat
        BY <1>1, <1>5, MemConstants
      <4> QED BY <4>1
    <3>4. b < rest
      BY <1>1, <2>5, <3>1, <3>2, <3>3, MemConstants DEF FileAt
    <3>5. k < left
      BY <2>1, <3>2, <3>3, <3>4, PagesLeft
    <3>6. k < ent.npages
      BY <1>1, <2>5, <3>1 DEF Memory!Covers
    <3> QED BY <1>1, <2>2, <2>3, <3>1, <3>5, <3>6 DEF Memory!PageRange
  <2> QED BY <1>5, <2>4, <2>5
<1> QED BY <1>3, <1>4, <1>5

LEMMA MprotectStep ==
  ASSUME PagesInv, NEW first \in Nat, NEW n \in Nat \ {0}, NEW prot \in Prots,
         Memory!Mprotect(first, n, prot)
  PROVE  PagesInv' /\ check' = TRUE
<1> DEFINE map == Memory!ChangeProt(first, n, prot)
           start == {ent \in map : Memory!Covers(ent, first)}
           visited == {ent \in map : first <= ent.page_num /\ ent.page_num < first + n}
           last == IF visited = {} THEN start
                   ELSE {ent \in visited : \A e \in visited : e.page_num <= ent.page_num}
<1>1. /\ first \in Nat \ {0} /\ first + n <= NumPages
      /\ Memory!CheckExistingMapping(first, n, prot)
      /\ vm_map' = map
      /\ host_prot'
           = [p \in Memory!Pages |-> IF ~enclave /\ \E ent \in visited :
             p \in Memory!Protected(ent)
                                       THEN prot ELSE host_prot[p]]
      /\ check' = \/ enclave
                  \/ /\ \E ent \in start : ent.page_num = first
                     /\ \E ent \in last : Memory!End(ent) = first + n
      /\ enclave' = enclave /\ break_page' = break_page /\ host' = host
  BY MemConstants DEF Memory!Mprotect, Memory!Allowed
<1>2. /\ GoodMap(map)
      /\ \A r \in map :
           \/ Memory!End(r) <= first \/ first + n <= r.page_num
           \/ r.prot = prot /\ first <= r.page_num /\ Memory!End(r) <= first + n
      /\ \A p \in Nat : p < first \/ first + n <= p => Keeps(map, p)
      /\ \A p \in Nat : first <= p /\ p < first + n =>
           /\ \E r \in map : Memory!Covers(r, p)
           /\ \A r \in map : Memory!Covers(r, p) =>
                /\ r.prot = prot
                /\ \E ent \in vm_map :
                     Memory!Covers(ent, p) /\ SaysAs(r, ent, p) /\ Memory!Allows(ent, prot)
  BY <1>1, ChangeMap DEF PagesInv
<1> HIDE DEF map
<1>3. TextStays'
  BY <1>1, <1>2 DEF PagesInv, TextStays, Keeps
<1>4. \A r \in map : /\ IsEntry(r) /\ r.page_num \in Nat /\ Memory!End(r) \in Nat
                     /\ r.page_num < Memory!End(r)
  BY <1>2, EntryFacts DEF GoodMap
<1>5. ASSUME NEW r \in map, NEW p \in Nat, first <= p, p < first + n, Memory!Covers(r, p)
      PROVE  /\ first <= r.page_num /\ r.page_num < first + n /\ Memory!End(r) <= first + n
             /\ r \in visited
  BY <1>2, <1>4, <1>5 DEF Memory!Covers
<1>6. check' = TRUE
  <2>1. \E ent \in start : ent.page_num = first
    <3>1. PICK r \in map : Memory!Covers(r, first)
      BY <1>2
    <3>2. first <= r.page_num
      BY <1>5, <3>1
    <3> QED BY <1>4, <3>1, <3>2 DEF Memory!Covers
  <2>2. \E ent \in last : Memory!End(ent) = first + n
    <3>1. PICK p \in Nat : p = first + n - 1
      <4>1. first + n - 1 \in Nat
        OBVIOUS
      <4> QED BY <4>1
    <3>2. PICK r \in map : Memory!Covers(r, p)
      BY <1>2, <3>1
    <3>3. r \in visited /\ Memory!End(r) = first + n
      BY <1>4, <1>5, <3>1, <3>2 DEF Memory!Covers
    <3>4. ASSUME NEW e \in visited PROVE e.page_num <= r.page_num
      <4>1. e = r \/ Memory!End(e) <= r.page_num \/ Memory!End(r) <= e.page_num
        BY <1>2 DEF GoodMap, Apart
      <4> QED BY <1>4, <3>3, <4>1
    <3>5. r \in last
      BY <3>3, <3>4
    <3> QED BY <3>3, <3>5
  <2> HIDE DEF start, last
  <2> QED BY <1>1, <2>1, <2>2
<1> HIDE DEF start, last
<1>7. MemTypes'
  BY <1>1, ProtsAre DEF PagesInv, MemTypes, HostContents
<1>8. ASSUME NEW p \in Memory!Pages PROVE PageInv(p)'
  <2>0. p \in Nat
    BY PagesAre
  <2>1. CASE p < first \/ first + n <= p
    <3>1. ASSUME NEW ent \in visited PROVE p \notin Memory!Protected(ent)
      <4>1. ent \in map /\ Memory!End(ent) <= first + n /\ first <= ent.page_num
        BY <1>2, <1>4
      <4>2. ~Memory!Covers(ent, p)
        BY <1>4, <2>0, <2>1, <4>1 DEF Memory!Covers
      <4> QED BY <1>4, <2>0, <4>1, <4>2, ProtectedIs
    <3>2. host_prot'[p] = host_prot[p] /\ host'[p] = host[p]
      BY <1>1, <3>1
    <3>3. Keeps(map, p)
      BY <1>2, <2>0, <2>1
    <3> QED BY <1>1, <1>2, <3>2, <3>3, PageKept DEF PagesInv
  <2>2. CASE first <= p /\ p < first + n
    <3>1. \E r \in map : Memory!Covers(r, p)
      BY <1>2, <2>0, <2>2
    <3>2. CASE enclave
      BY <1>1, <3>1, <3>2 DEF PageInv
    <3>3. ASSUME ~enclave, NEW r \in map, Memory!Covers(r, p)
          PROVE  /\ host'[p] \in {"anon", "file"} => host_prot'[p] = r.prot
                 /\ host'[p] = "anon" => r.desc # "file"
                 /\ host'[p] = "file" => r.desc = "file" /\ FileAt(r, p) < FileSize
      <4>1. PICK ent \in vm_map : Memory!Covers(ent, p) /\ SaysAs(r, ent, p)
        BY <1>2, <2>0, <2>2, <3>3
      <4>2. /\ host[p] = "anon" => ent.desc # "file"
            /\ host[p] = "file" => ent.desc = "file" /\ FileAt(ent, p) < FileSize
        BY <3>3, <4>1 DEF PagesInv, PageInv
      <4>3. /\ host[p] = "anon" => r.desc # "file"
            /\ host[p] = "file" => r.desc = "file" /\ FileAt(r, p) < FileSize
        <5>1. IsEntry(ent) /\ IsEntry(r)
          BY <1>4 DEF PagesInv, GoodMap
        <5>2. FileAt(ent, p) \in Int /\ FileAt(r, p) \in Int /\ FileSize \in Int
          BY <2>0, <5>1, EntryFacts, MemConstants
        <5> QED BY <4>1, <4>2, <5>2 DEF SaysAs
      <4>4. ASSUME host[p] \in {"anon", "file"} PROVE host_prot'[p] = r.prot
        <5>1. p \in Memory!Protected(r)
          BY <1>4, <2>0, <3>3, <4>3, <4>4, ProtectedIs
        <5>2. r \in visited
          BY <1>5, <2>0, <2>2, <3>3
        <5>3. host_prot'[p] = prot
          BY <1>1, <3>3, <5>1, <5>2
        <5>4. r.prot = prot
          BY <1>2, <2>0, <2>2, <3>3
        <5> QED BY <5>3, <5>4
      <4> QED BY <1>1, <4>3, <4>4
    <3>4. CASE ~enclave
      BY <1>1, <3>1, <3>3, <3>4 DEF PageInv
    <3> QED BY <3>2, <3>4
  <2> QED BY <2>0, <2>1, <2>2
<1> QED BY <1>1, <1>2, <1>3, <1>6, <1>7, <1>8, PagesAre DEF PagesInv, Memory!Pages

-----------------------------------------------------------------------------
(* The places that mmap() finds.                                           *)

Free(p) == ~ \E ent \in vm_map : Memory!Covers(ent, p)
RangeFree(first, n) == \A p \in Nat : first <= p /\ p < first + n => Free(p)

\* The holes have pages between 0 and the last, and no entry has one of them.
LEMMA HoleIs ==
  ASSUME GoodMap(vm_map), NEW hole \in Memory!Holes
  PROVE  /\ hole[1] \in Nat \ {0} /\ hole[2] \in Nat
         /\ hole[1] <= hole[2] /\ hole[2] < NumPages
         /\ \A p \in Nat : hole[1] <= p /\ p < hole[2] => Free(p)
<1> DEFINE after(ent) == {e.page_num : e \in {f \in vm_map : f.page_num >= Memory!End(ent)}}
<1>1. PICK ent \in vm_map :
             after(ent) # {} /\ hole = <<Memory!End(ent), Memory!Min(after(ent))>>
  BY DEF Memory!Holes
<1>2. \A e \in vm_map :
        /\ e.page_num \in Nat /\ Memory!End(e) \in Nat /\ e.page_num < Memory!End(e)
                         /\ Memory!End(e) <= NumPages
  BY EntryFacts DEF GoodMap
<1>3. /\ Memory!Min(after(ent)) \in after(ent)
      /\ \A e \in vm_map : e.page_num >= Memory!End(ent) => Memory!Min(after(ent)) <= e.page_num
  <2>1. after(ent) \subseteq Nat
    BY <1>2
  <2>2. Memory!Min(after(ent)) \in after(ent) /\ \A y \in after(ent) :
          Memory!Min(after(ent)) <= y
    BY <1>1, <2>1, LeastNumber
  <2>3. \A e \in vm_map : e.page_num >= Memory!End(ent) => e.page_num \in after(ent)
    OBVIOUS
  <2> QED BY <2>2, <2>3
<1>4. PICK f \in vm_map : f.page_num >= Memory!End(ent) /\ Memory!Min(after(ent)) = f.page_num
  BY <1>3
<1>5. hole[1] = Memory!End(ent) /\ hole[2] = f.page_num
  BY <1>1, <1>4
<1>6. ASSUME NEW p \in Nat, Memory!End(ent) <= p, p < f.page_num PROVE Free(p)
  <2> SUFFICES ASSUME NEW e \in vm_map, e.page_num <= p, p < Memory!End(e) PROVE FALSE
    BY DEF Free, Memory!Covers
  <2>1. e.page_num < Memory!End(ent)
    BY <1>2, <1>3, <1>4, <1>6
  <2>2. e = ent \/ Memory!End(e) <= ent.page_num \/ Memory!End(ent) <= e.page_num
    BY DEF GoodMap, Apart
  <2> QED BY <1>2, <1>6, <2>1, <2>2
<1>7. f.page_num < NumPages
  <2>1. f.page_num \in Nat /\ Memory!End(f) \in Nat /\ f.page_num < Memory!End(f)
          /\ Memory!End(f) <= NumPages
    BY <1>2
  <2> QED BY <2>1, MemConstants
<1>8. Memory!End(ent) \in Nat \ {0}
  BY <1>2
<1> HIDE DEF after
<1> QED BY <1>2, <1>4, <1>5, <1>6, <1>7, <1>8

\* A free place that has an entry after it lies in a hole.
LEMMA InHole ==
  ASSUME GoodMap(vm_map), TextStays, NEW first \in Nat, NEW n \in Nat \ {0},
         RangeFree(first, n), NEW above \in vm_map, above.page_num > first
  PROVE  \E hole \in Memory!Holes : hole[1] <= first /\ first + n <= hole[2]
<1> DEFINE after(ent) == {e.page_num : e \in {f \in vm_map : f.page_num >= Memory!End(ent)}}
           below == {e \in vm_map : Memory!End(e) <= first}
<1>1. \A e \in vm_map :
        /\ e.page_num \in Nat /\ Memory!End(e) \in Nat /\ e.page_num < Memory!End(e)
                         /\ Memory!End(e) <= NumPages
  BY EntryFacts DEF GoodMap
<1>2. \A e \in vm_map : e.page_num <= first => Memory!End(e) <= first
  <2> SUFFICES ASSUME NEW e \in vm_map, e.page_num <= first, first < Memory!End(e) PROVE FALSE
    BY <1>1
  <2>1. first < first + n
    OBVIOUS
  <2> QED BY <2>1 DEF RangeFree, Free, Memory!Covers
<1>3. PICK bottom \in vm_map : Memory!End(bottom) <= first
  <2>1. PICK bottom \in vm_map : bottom.page_num <= 0
    BY DEF TextStays, Memory!Covers
  <2> QED BY <1>1, <1>2, <2>1
<1>4. PICK ent \in vm_map : /\ Memory!End(ent) <= first
                             /\ \A e \in vm_map :
                                  Memory!End(e) <= first => Memory!End(e) <= Memory!End(ent)
  <2> DEFINE ends == {Memory!End(e) : e \in below}
  <2>1. ends \subseteq 0 .. first /\ ends # {}
    BY <1>1, <1>3
  <2>2. Memory!Max(ends) \in ends /\ \A y \in ends : y <= Memory!Max(ends)
    BY <2>1, GreatestNumber
  <2>3. PICK ent \in below : Memory!Max(ends) = Memory!End(ent)
    BY <2>2
  <2>4. \A e \in vm_map : Memory!End(e) <= first => Memory!End(e) \in ends
    OBVIOUS
  <2> QED BY <2>2, <2>3, <2>4
<1>5. above.page_num \in after(ent)
  BY <1>1, <1>4
<1>6. PICK hole \in Memory!Holes : hole = <<Memory!End(ent), Memory!Min(after(ent))>>
  BY <1>5 DEF Memory!Holes
<1>7. Memory!Min(after(ent)) \in after(ent)
  <2>1. after(ent) \subseteq Nat /\ after(ent) # {}
    BY <1>1, <1>5
  <2> QED BY <2>1, LeastNumber
<1>8. PICK f \in vm_map : f.page_num >= Memory!End(ent) /\ Memory!Min(after(ent)) = f.page_num
  BY <1>7
<1>9. first + n <= f.page_num
  <2> SUFFICES ASSUME f.page_num < first + n PROVE FALSE
    BY <1>1
  <2>1. CASE f.page_num <= first
    <3>1. Memory!End(f) <= Memory!End(ent)
      BY <1>2, <1>4, <2>1
    <3> QED BY <1>1, <1>8, <3>1
  <2>2. CASE first < f.page_num
    <3>1. f.page_num \in Nat /\ Memory!Covers(f, f.page_num)
      BY <1>1 DEF Memory!Covers
    <3> QED BY <2>2, <3>1 DEF RangeFree, Free
  <2> QED BY <1>1, <2>1, <2>2
<1> QED BY <1>4, <1>6, <1>8, <1>9

\* NaClVmmapFindMapSpace().
LEMMA SpaceFound ==
  ASSUME GoodMap(vm_map), TextStays, NEW n \in Nat \ {0}
  PROVE  /\ Memory!FindMapSpace(n) \in Nat
         /\ Memory!FindMapSpace(n) # 0 =>
              RangeFree(Memory!FindMapSpace(n), n) /\ Memory!FindMapSpace(n) + n <= NumPages
         /\ Memory!FindMapSpace(n) = 0 =>
              \A p \in Nat, above \in vm_map : above.page_num > p => ~RangeFree(p, n)
<1> DEFINE fits == {hole \in Memory!Holes : hole[1] < hole[2] /\ hole[2] - hole[1] >= n}
           ends == {hole[2] : hole \in fits}
<1>1. \A hole \in Memory!Holes :
        /\ hole[1] \in Nat \ {0} /\ hole[2] \in Nat
        /\ hole[1] <= hole[2] /\ hole[2] < NumPages
        /\ \A p \in Nat : hole[1] <= p /\ p < hole[2] => Free(p)
  BY HoleIs
<1>2. CASE fits = {}
  <2>1. Memory!FindMapSpace(n) = 0
    BY <1>2 DEF Memory!FindMapSpace
  <2>2. ASSUME NEW p \in Nat, NEW above \in vm_map, above.page_num > p, RangeFree(p, n)
        PROVE  FALSE
    <3>1. PICK hole \in Memory!Holes : hole[1] <= p /\ p + n <= hole[2]
      BY <2>2, InHole
    <3>2. hole[1] \in Nat /\ hole[2] \in Nat
      BY <1>1
    <3>3. hole \in fits
      BY <3>1, <3>2
    <3> QED BY <1>2, <3>3
  <2> QED BY <2>1, <2>2
<1>3. CASE fits # {}
  <2>1. Memory!FindMapSpace(n) = Memory!Max(ends) - n
    BY <1>3 DEF Memory!FindMapSpace
  <2>2. ends \subseteq 0 .. NumPages /\ ends # {}
    BY <1>1, <1>3, MemConstants
  <2>3. Memory!Max(ends) \in ends
    BY <2>2, GreatestNumber, MemConstants
  <2>4. PICK hole \in fits : Memory!Max(ends) = hole[2]
    BY <2>3
  <2> HIDE DEF ends
  <2>5. /\ hole[1] \in Nat \ {0} /\ hole[2] \in Nat /\ hole[2] < NumPages
        /\ hole[2] - hole[1] >= n
        /\ \A p \in Nat : hole[1] <= p /\ p < hole[2] => Free(p)
    BY <1>1
  <2>6. PICK s \in Nat \ {0} : s = hole[2] - n /\ hole[1] <= s
    <3>1. hole[2] - n \in Nat \ {0} /\ hole[1] <= hole[2] - n
      BY <2>5
    <3> QED BY <3>1
  <2>7. Memory!FindMapSpace(n) = s
    BY <2>1, <2>4, <2>6
  <2>8. s + n <= NumPages
    BY <2>5, <2>6, MemConstants
  <2>9. RangeFree(s, n)
    BY <2>5, <2>6 DEF RangeFree
  <2> QED BY <2>7, <2>8, <2>9
<1> QED BY <1>2, <1>3

\* NaClVmmapFindMapSpaceAboveHint().
LEMMA SpaceFoundAbove ==
  ASSUME GoodMap(vm_map), TextStays, NEW n \in Nat \ {0}, NEW hint \in Nat \ {0}
  PROVE  LET near == Memory!FindMapSpaceAboveHint(hint, n) IN
         /\ near \in Nat
         /\ near # 0 => near >= hint /\ RangeFree(near, n) /\ near + n <= NumPages
         /\ \A p \in Nat, ent \in vm_map :
              hint <= p /\ (near # 0 => p < near) /\ ent.page_num > p => ~RangeFree(p, n)
<1> DEFINE above(hole) == IF hole[1] <= hint /\ hint < hole[2] THEN hint ELSE hole[1]
           fits == {hole \in Memory!Holes : hint <= above(hole) /\ hole[2] - above(hole) >= n
                                     /\ hole[1] < hole[2]}
           starts == {above(hole) : hole \in fits}
<1>1. \A hole \in Memory!Holes :
        /\ hole[1] \in Nat \ {0} /\ hole[2] \in Nat
        /\ hole[1] <= hole[2] /\ hole[2] < NumPages
        /\ \A p \in Nat : hole[1] <= p /\ p < hole[2] => Free(p)
  BY HoleIs
<1>2. \A hole \in Memory!Holes : above(hole) \in Nat
  BY <1>1
<1>3. ASSUME NEW p \in Nat, NEW ent \in vm_map, hint <= p, ent.page_num > p, RangeFree(p, n)
      PROVE  \E hole \in fits : above(hole) <= p
  <2>1. PICK hole \in Memory!Holes : hole[1] <= p /\ p + n <= hole[2]
    BY <1>3, InHole
  <2>2. hole[1] \in Nat /\ hole[2] \in Nat
    BY <1>1
  <2>3. CASE hole[1] <= hint
    BY <1>3, <2>1, <2>2, <2>3
  <2>4. CASE hint < hole[1]
    BY <1>3, <2>1, <2>2, <2>4
  <2> QED BY <2>2, <2>3, <2>4
<1>4. CASE fits = {}
  <2>1. Memory!FindMapSpaceAboveHint(hint, n) = 0
    BY <1>4 DEF Memory!FindMapSpaceAboveHint
  <2> QED BY <1>3, <1>4, <2>1
<1>5. CASE fits # {}
  <2>1. Memory!FindMapSpaceAboveHint(hint, n) = Memory!Min(starts)
    BY <1>5 DEF Memory!FindMapSpaceAboveHint
  <2>2. starts \subseteq Nat /\ starts # {}
    BY <1>2, <1>5
  <2>3. Memory!Min(starts) \in starts /\ \A y \in starts : Memory!Min(starts) <= y
    BY <2>2, LeastNumber
  <2>4. PICK hole \in fits : Memory!Min(starts) = above(hole)
    BY <2>3
  <2>5. \A h \in fits : Memory!Min(starts) <= above(h)
    BY <2>3
  <2> HIDE DEF starts
  <2>6. PICK s \in Nat : s = above(hole)
    BY <1>2
  <2>7. /\ hole[1] \in Nat \ {0} /\ hole[2] \in Nat /\ hole[2] < NumPages
        /\ hint <= s /\ hole[2] - s >= n /\ hole[1] <= s
        /\ \A p \in Nat : hole[1] <= p /\ p < hole[2] => Free(p)
    BY <1>1, <2>6
  <2>8. RangeFree(s, n) /\ s + n <= NumPages
    BY <2>7, MemConstants DEF RangeFree
  <2>9. ASSUME NEW p \in Nat, NEW ent \in vm_map, hint <= p, p < s, ent.page_num > p,
               RangeFree(p, n)
        PROVE  FALSE
    <3>1. PICK h \in fits : above(h) <= p
      BY <1>3, <2>9
    <3>2. s <= above(h) /\ above(h) \in Nat
      BY <1>2, <2>4, <2>5, <2>6
    <3> QED BY <2>9, <3>1, <3>2
  <2>10. Memory!FindMapSpaceAboveHint(hint, n) = s /\ s # 0
    BY <2>1, <2>4, <2>6, <2>7
  <2> QED BY <2>7, <2>8, <2>9, <2>10
<1> QED BY <1>4, <1>5

LEMMA PlacesInv ==
  ASSUME PagesInv
  PROVE  Memory!PlacesAreFree
<1>1. GoodMap(vm_map) /\ TextStays
  BY DEF PagesInv
<1>2. ASSUME NEW first \in Nat, NEW n \in Nat \ {0}, first + n <= NumPages
      PROVE  RangeFree(first, n) <=> \A p \in Memory!PageRange(first, n) :
               p \in Memory!Pages /\ Memory!FindPage(p) = {}
  <2>1. \A p \in Nat : Free(p) <=> Memory!FindPage(p) = {}
    BY DEF Free, Memory!FindPage
  <2>2. \A p \in Nat : first <= p /\ p < first + n <=> p \in Memory!PageRange(first, n)
    BY DEF Memory!PageRange
  <2>3. Memory!PageRange(first, n) \subseteq Memory!Pages
          /\ Memory!PageRange(first, n) \subseteq Nat
    BY <1>2, RangeIs, PagesAre
  <2> QED BY <2>1, <2>2, <2>3 DEF RangeFree
<1>3. ASSUME NEW p \in Nat, NEW n \in Nat \ {0},
             \A q \in Memory!PageRange(p, n) : q \in Memory!Pages /\ Memory!FindPage(q) = {}
      PROVE  RangeFree(p, n)
  BY <1>3 DEF RangeFree, Free, Memory!FindPage, Memory!PageRange
<1>4. ASSUME NEW n \in Lengths
      PROVE  /\ Memory!FindMapSpace(n) # 0 =>
                  \A p \in Memory!PageRange(Memory!FindMapSpace(n), n) :
                    p \in Memory!Pages /\ Memory!FindPage(p) = {}
             /\ Memory!FindMapSpace(n) = 0 =>
                  \A p \in Memory!Pages : (\E ent \in vm_map : ent.page_num > p) =>
                    ~ \A q \in Memory!PageRange(p, n) :
                      q \in Memory!Pages /\ Memory!FindPage(q) = {}
  <2>1. n \in Nat \ {0}
    BY MemConstants
  <2>2. /\ Memory!FindMapSpace(n) \in Nat
        /\ Memory!FindMapSpace(n) # 0 =>
             RangeFree(Memory!FindMapSpace(n), n) /\ Memory!FindMapSpace(n) + n <= NumPages
        /\ Memory!FindMapSpace(n) = 0 =>
             \A p \in Nat, above \in vm_map : above.page_num > p => ~RangeFree(p, n)
    BY <1>1, <2>1, SpaceFound
  <2> QED BY <1>2, <1>3, <2>1, <2>2, PagesAre
<1>5. ASSUME NEW n \in Lengths, NEW hint \in Hints
      PROVE  LET near == Memory!FindMapSpaceAboveHint(hint, n) IN
             /\ near # 0 =>
                  /\ near >= hint
                  /\ \A p \in Memory!PageRange(near, n) :
                       p \in Memory!Pages /\ Memory!FindPage(p) = {}
             /\ \A p \in hint .. (IF near = 0 THEN NumPages ELSE near) - 1 :
                  (\E ent \in vm_map : ent.page_num > p) =>
                    ~ \A q \in Memory!PageRange(p, n) :
                      q \in Memory!Pages /\ Memory!FindPage(q) = {}
  <2>1. n \in Nat \ {0} /\ hint \in Nat \ {0}
    BY MemConstants
  <2>2. PICK near : near = Memory!FindMapSpaceAboveHint(hint, n)
    OBVIOUS
  <2>3. /\ near \in Nat
        /\ near # 0 => near >= hint /\ RangeFree(near, n) /\ near + n <= NumPages
        /\ \A p \in Nat, ent \in vm_map :
             hint <= p /\ (near # 0 => p < near) /\ ent.page_num > p => ~RangeFree(p, n)
    BY <1>1, <2>1, <2>2, SpaceFoundAbove
  <2>4. near # 0 => \A p \in Memory!PageRange(near, n) :
          p \in Memory!Pages /\ Memory!FindPage(p) = {}
    BY <1>2, <2>1, <2>3
  <2>5. ASSUME NEW p \in hint .. (IF near = 0 THEN NumPages ELSE near) - 1,
               NEW ent \in vm_map, ent.page_num > p,
               \A q \in Memory!PageRange(p, n) : q \in Memory!Pages /\ Memory!FindPage(q) = {}
        PROVE  FALSE
    <3>1. p \in Nat /\ hint <= p /\ (near # 0 => p < near)
      BY <2>1, <2>3
    <3> QED BY <1>3, <2>1, <2>3, <2>5, <3>1
  <2> QED BY <2>2, <2>3, <2>4, <2>5
<1> QED BY <1>4, <1>5 DEF Memory!PlacesAreFree

-----------------------------------------------------------------------------
(* The invariant holds initially and in every step.                        *)

LEMMA MemInitInv ==
  ASSUME Memory!Init
  PROVE  MemInv
<1> DEFINE stack == NumPages - 1
<1>1. /\ stack \in Nat /\ HeapStart \in Nat /\ 1 <= HeapStart /\ HeapStart + 1 <= stack
      /\ stack + 1 <= NumPages /\ NumPages \in Nat
  BY MemConstants
<1>2. PICK bottom, heap, top :
        /\ vm_map = {bottom, heap, top}
        /\ bottom = Memory!Entry(0, 1, {"x"}, "text", 0)
        /\ heap = Memory!Entry(HeapStart, 1, Memory!ReadWrite, "anon", 0)
        /\ top = Memory!Entry(stack, 1, Memory!ReadWrite, "anon", 0)
  BY DEF Memory!Init
<1>3. IsEntry(bottom) /\ bottom.page_num = 0 /\ Memory!End(bottom) = 1 /\ bottom.prot = {"x"}
      /\ bottom.desc = "text"
  <2>0. PICK x : x = {"x"}
    OBVIOUS
  <2>1. x \in Memory!Contents["text"] /\ "text" \in ContentNames
    BY <2>0, ContentsAre DEF ContentNames
  <2>2. 0 \in Nat /\ 1 \in Nat \ {0} /\ 0 + 1 <= NumPages
    BY <1>1
  <2>3. bottom = Memory!Entry(0, 1, x, "text", 0)
    BY <1>2, <2>0
  <2>4. IsEntry(bottom) /\ bottom.page_num = 0 /\ Memory!End(bottom) = 0 + 1 /\ bottom.prot = x
        /\ bottom.desc = "text"
    BY <2>1, <2>2, <2>3, NewEntry
  <2> QED BY <2>0, <2>4
<1>4. /\ IsEntry(heap) /\ heap.page_num = HeapStart /\ Memory!End(heap) = HeapStart + 1
      /\ heap.desc = "anon"
      /\ IsEntry(top) /\ top.page_num = stack /\ Memory!End(top) = stack + 1
      /\ top.desc = "anon"
  <2>1. Memory!ReadWrite \in Memory!Contents["anon"] /\ "anon" \in ContentNames
    BY ContentsAre, ProtsAre DEF ContentNames, Memory!ReadWrite
  <2>2. /\ IsEntry(heap) /\ heap.page_num = HeapStart /\ Memory!End(heap) = HeapStart + 1
        /\ heap.desc = "anon"
    BY <1>1, <1>2, <2>1, NewEntry
  <2>3. /\ IsEntry(top) /\ top.page_num = stack /\ Memory!End(top) = stack + 1
        /\ top.desc = "anon"
    BY <1>1, <1>2, <2>1, NewEntry
  <2> QED BY <2>2, <2>3
<1> HIDE DEF stack
<1>5. GoodMap(vm_map)
  <2>1. Apart(bottom, heap) /\ Apart(heap, bottom) /\ Apart(bottom, top) /\ Apart(top, bottom)
        /\ Apart(heap, top) /\ Apart(top, heap)
    BY <1>1, <1>3, <1>4 DEF Apart
  <2> QED BY <1>2, <1>3, <1>4, <2>1 DEF GoodMap
<1>6. TextStays
  BY <1>2, <1>3 DEF TextStays, Memory!Covers
<1>7. /\ enclave \in BOOLEAN /\ break_page = HeapStart + 1
      /\ host = [p \in Memory!Pages |-> CASE p = 0 -> "text"
                                   [] p \in {HeapStart, stack} -> "heap"
                                   [] OTHER -> "none"]
      /\ host_prot = [p \in Memory!Pages |-> CASE p = 0 -> {"x"}
                                        [] p \in {HeapStart, stack} -> {"r", "w"}
                                        [] OTHER -> {}]
  BY DEF Memory!Init, Memory!None, Memory!ReadWrite, stack
<1>8. ASSUME NEW p \in Memory!Pages
      PROVE  \/ p = 0 /\ host[p] = "text" /\ host_prot[p] = {"x"}
             \/ p \in {HeapStart, stack} /\ host[p] = "heap" /\ host_prot[p] = {"r", "w"}
             \/ p \notin {0, HeapStart, stack} /\ host[p] = "none" /\ host_prot[p] = {}
  <2>1. 0 \notin {HeapStart, stack}
    BY <1>1
  <2>2. CASE p = 0
    BY <1>7, <2>1, <2>2
  <2>3. CASE p \in {HeapStart, stack}
    BY <1>7, <2>1, <2>3
  <2>4. CASE p \notin {0, HeapStart, stack}
    BY <1>7, <2>4
  <2> QED BY <2>2, <2>3, <2>4
<1>9. MemTypes
  <2>1. host \in [Memory!Pages -> HostContents]
    <3>1. \A p \in Memory!Pages : host[p] \in HostContents
      BY <1>8 DEF HostContents
    <3> QED BY <1>7, <3>1
  <2>2. host_prot \in [Memory!Pages -> HostProts]
    <3>1. \A p \in Memory!Pages : host_prot[p] \in HostProts
      BY <1>8, ProtsAre DEF HostProts
    <3> QED BY <1>7, <3>1
  <2>3. break_page \in HeapStart + 1 .. NumPages
    BY <1>1, <1>7
  <2> QED BY <1>7, <2>1, <2>2, <2>3 DEF MemTypes
<1>10. ASSUME NEW p \in Memory!Pages PROVE PageInv(p)
  <2>1. p \in {0, HeapStart, stack} => \E ent \in vm_map : Memory!Covers(ent, p)
    BY <1>1, <1>2, <1>3, <1>4 DEF Memory!Covers
  <2>2. host[p] \notin {"anon", "file"}
    BY <1>8
  <2>3. p \notin {0, HeapStart, stack} => host[p] = "none" /\ host_prot[p] = {}
    BY <1>8
  <2> QED BY <2>1, <2>2, <2>3 DEF PageInv
<1>11. CallInv
  BY MemConstants DEF Memory!Init, CallInv, Memory!Operations
<1> QED BY <1>5, <1>6, <1>9, <1>10, <1>11 DEF MemInv, PagesInv

LEMMA MapAtAllowed ==
  ASSUME NEW first \in Nat, NEW n \in Nat, Memory!MapAt(first, n)
  PROVE  Memory!Allowed(first, n) /\ check' = check
<1>1. CASE \E prot \in Prots : Memory!MapAnon(first, n, prot)
  BY <1>1 DEF Memory!MapAnon
<1>2. CASE \E prot \in Memory!Contents["file"], ofs \in FilePages :
             Memory!MapFile(first, n, prot, ofs)
  BY <1>2 DEF Memory!MapFile
<1> QED BY <1>1, <1>2 DEF Memory!MapAt

LEMMA MapAtStep ==
  ASSUME PagesInv, NEW first \in Nat, NEW n \in Nat \ {0}, Memory!MapAt(first, n)
  PROVE  PagesInv'
<1>1. CASE \E prot \in Prots : Memory!MapAnon(first, n, prot)
  BY <1>1, MapAnonStep
<1>2. CASE \E prot \in Memory!Contents["file"], ofs \in FilePages :
             Memory!MapFile(first, n, prot, ofs)
  BY <1>2, MapFileStep
<1> QED BY <1>1, <1>2 DEF Memory!MapAt

\* Each call that maps has a page to map at, and it is free unless the program
\* has chosen it.
LEMMA MmapAt ==
  ASSUME PagesInv, NEW n \in Nat \ {0}, Memory!Mmap(n)
  PROVE  \E first \in Nat, op \in {"mmap", "mmap_fixed"} :
           /\ Memory!MapAt(first, n) /\ Memory!Called(op, first, n)
           /\ op = "mmap" => RangeFree(first, n)
<1>1. GoodMap(vm_map) /\ TextStays
  BY DEF PagesInv
<1>2. /\ Memory!FindMapSpace(n) \in Nat
      /\ Memory!FindMapSpace(n) # 0 => RangeFree(Memory!FindMapSpace(n), n)
  BY <1>1, SpaceFound
<1>3. CASE Memory!MmapAnywhere(n)
  BY <1>2, <1>3 DEF Memory!MmapAnywhere
<1>4. ASSUME NEW hint \in Hints, Memory!MmapAbove(hint, n)
      PROVE  \E first \in Nat, op \in {"mmap", "mmap_fixed"} :
               /\ Memory!MapAt(first, n) /\ Memory!Called(op, first, n)
               /\ op = "mmap" => RangeFree(first, n)
  <2>1. hint \in Nat \ {0}
    BY MemConstants
  <2>2. /\ Memory!FindMapSpaceAboveHint(hint, n) \in Nat
        /\ Memory!FindMapSpaceAboveHint(hint, n) # 0
             => RangeFree(Memory!FindMapSpaceAboveHint(hint, n), n)
    BY <1>1, <2>1, SpaceFoundAbove
  <2> QED BY <1>2, <1>4, <2>2 DEF Memory!MmapAbove
<1>5. CASE \E first \in Memory!Pages : Memory!MmapFixed(first, n)
  BY <1>5, PagesAre DEF Memory!MmapFixed
<1> QED BY <1>3, <1>4, <1>5 DEF Memory!Mmap

\* A call of mprotect() for no bytes leaves the pages alone.
LEMMA MprotectEmptyStep ==
  ASSUME PagesInv, NEW first, NEW prot, Memory!MprotectEmpty(first, prot)
  PROVE  PagesInv'
<1>1. UNCHANGED <<enclave, vm_map, break_page, host, host_prot>>
  BY DEF Memory!MprotectEmpty
<1> QED BY <1>1, PagesAre DEF PagesInv, GoodMap, TextStays, MemTypes, PageInv, Memory!Pages

\* What a call does, for the case distinctions below.
LEMMA MemCalls ==
  ASSUME Memory!Next
  PROVE  /\ check
         /\ \/ \E n \in Lengths : Memory!Mmap(n)
            \/ \E n \in Lengths, first \in Memory!Pages : Memory!Munmap(first, n)
            \/ \E first \in Memory!Pages, n \in Lengths, prot \in Prots :
                 Memory!Mprotect(first, n, prot)
            \/ \E first \in Memory!Pages, prot \in Prots : Memory!MprotectEmpty(first, prot)
            \/ \E new \in Memory!Pages \cup {NumPages} :
                 Memory!BrkDown(new) \/ Memory!BrkWithinEntry(new) \/ Memory!BrkExtend(new)
            \/ \E p \in Memory!Pages : Memory!Store(p)
BY DEF Memory!Next

\* The call that is recorded names pages of the program.
LEMMA CallIs ==
  ASSUME NEW op \in Memory!Operations, NEW first \in Nat, NEW n \in Nat,
         first + n <= NumPages, Memory!Called(op, first, n),
         check' = TRUE \/ (check' \in BOOLEAN /\ op = "mprotect" /\ n = 0)
  PROVE  CallInv'
<1>1. first \in 0 .. NumPages /\ n \in 0 .. NumPages
  BY MemConstants
<1> QED BY <1>1 DEF CallInv, Memory!Called

LEMMA MemStep ==
  ASSUME MemInv, Memory!Next \/ UNCHANGED Memory!vars
  PROVE  MemInv'
<1>0. PagesInv /\ CallInv
  BY DEF MemInv
<1>a. {"mmap", "mmap_fixed", "munmap", "mprotect", "brk"} \subseteq Memory!Operations
  BY DEF Memory!Operations
<1>1. CASE UNCHANGED Memory!vars
  BY <1>1, PagesAre
  DEF Memory!vars, MemInv, PagesInv, CallInv, GoodMap, TextStays, MemTypes, PageInv,
      Memory!Pages, Memory!Operations
<1>2. ASSUME NEW n \in Lengths, Memory!Mmap(n), check PROVE MemInv'
  <2>1. n \in Nat \ {0}
    BY MemConstants
  <2>2. PICK first \in Nat, op \in {"mmap", "mmap_fixed"} :
          Memory!MapAt(first, n) /\ Memory!Called(op, first, n)
    BY <1>0, <1>2, <2>1, MmapAt
  <2>3. first + n <= NumPages /\ check' = check
    BY <2>1, <2>2, MapAtAllowed, MemConstants DEF Memory!Allowed
  <2>4. CallInv'
    BY <1>0, <1>2, <1>a, <2>1, <2>2, <2>3, CallIs DEF CallInv
  <2> QED BY <1>0, <2>1, <2>2, <2>4, MapAtStep DEF MemInv
<1>3. ASSUME NEW n \in Lengths, NEW first \in Memory!Pages, Memory!Munmap(first, n), check
      PROVE MemInv'
  <2>1. n \in Nat \ {0} /\ first \in Nat
    BY PagesAre, MemConstants
  <2>2. first + n <= NumPages /\ Memory!Called("munmap", first, n) /\ check' = check
    BY <1>3, <2>1, MemConstants DEF Memory!Munmap, Memory!Allowed
  <2>3. CallInv'
    BY <1>0, <1>3, <1>a, <2>1, <2>2, CallIs DEF CallInv
  <2> QED BY <1>0, <1>3, <2>1, <2>3, MunmapStep DEF MemInv
<1>4. ASSUME NEW first \in Memory!Pages, NEW n \in Lengths, NEW prot \in Prots,
             Memory!Mprotect(first, n, prot)
      PROVE  MemInv'
  <2>1. n \in Nat \ {0} /\ first \in Nat
    BY PagesAre, MemConstants
  <2>2. first + n <= NumPages /\ Memory!Called("mprotect", first, n)
    BY <1>4, <2>1, MemConstants DEF Memory!Mprotect, Memory!Allowed
  <2>3. PagesInv' /\ check' = TRUE
    BY <1>0, <1>4, <2>1, MprotectStep
  <2>4. CallInv'
    BY <1>a, <2>1, <2>2, <2>3, CallIs
  <2> QED BY <2>3, <2>4 DEF MemInv
<1>5. ASSUME NEW first \in Memory!Pages, NEW prot \in Prots, Memory!MprotectEmpty(first, prot)
      PROVE  MemInv'
  <2>1. /\ first \in Nat /\ first + 0 <= NumPages /\ check' = enclave
        /\ Memory!Called("mprotect", first, 0)
    BY <1>5, PagesAre, MemConstants DEF Memory!MprotectEmpty, Memory!Allowed
  <2>2. CallInv'
    BY <1>0, <1>a, <2>1, CallIs DEF PagesInv, MemTypes
  <2> QED BY <1>0, <1>5, <2>2, MprotectEmptyStep DEF MemInv
<1>6. ASSUME NEW new \in Memory!Pages \cup {NumPages}, check,
             Memory!BrkDown(new) \/ Memory!BrkWithinEntry(new) \/ Memory!BrkExtend(new)
      PROVE  MemInv'
  <2>1. new \in Nat /\ new <= NumPages /\ break_page \in Nat
    BY <1>0, MemConstants DEF Memory!Pages, PagesInv, MemTypes
  <2>2. PagesInv'
    BY <1>0, <1>6, <2>1, BrkDownStep, BrkWithinEntryStep, BrkExtendStep
  <2>3. check' = TRUE
    BY <1>0, <1>6 DEF CallInv, Memory!BrkDown, Memory!BrkWithinEntry, Memory!BrkExtend
  <2>4. CASE Memory!BrkDown(new)
    <3>1. Memory!Called("brk", new, 0)
      BY <2>4 DEF Memory!BrkDown
    <3>2. new + 0 <= NumPages
      BY <2>1
    <3>3. CallInv'
      BY <1>a, <2>1, <2>3, <3>1, <3>2, CallIs
    <3> QED BY <2>2, <3>3 DEF MemInv
  <2>5. CASE Memory!BrkWithinEntry(new) \/ Memory!BrkExtend(new)
    <3>1. PICK n \in Nat : n = new - break_page
      BY <2>1, <2>5 DEF Memory!BrkWithinEntry, Memory!BrkExtend
    <3>2. Memory!Called("brk", break_page, n)
      BY <2>5, <3>1 DEF Memory!BrkWithinEntry, Memory!BrkExtend
    <3>3. break_page + n <= NumPages
      BY <2>1, <3>1
    <3>4. CallInv'
      BY <1>a, <2>1, <2>3, <3>2, <3>3, CallIs
    <3> QED BY <2>2, <3>4 DEF MemInv
  <2> QED BY <1>6, <2>4, <2>5
<1>7. ASSUME NEW p \in Memory!Pages, Memory!Store(p) PROVE MemInv'
  <2>1. CallInv'
    BY <1>0, <1>7 DEF Memory!Store, CallInv, Memory!Operations
  <2> QED BY <1>0, <1>7, <2>1, StoreStep DEF MemInv
<1>8. CASE Memory!Next
  <2>1. check
    BY <1>8, MemCalls
  <2> QED BY <1>8, <2>1, <1>2, <1>3, <1>4, <1>5, <1>6, <1>7, MemCalls
<1> QED BY <1>1, <1>8

\* The types that a run checks, and that the map agrees with the host.
LEMMA MemTyping ==
  ASSUME MemInv
  PROVE  Memory!TypeOK
<1>1. ASSUME NEW ent \in vm_map
      PROVE  /\ ent.page_num \in Memory!Pages /\ ent.npages \in 1 .. NumPages - ent.page_num
             /\ ent.desc \in DOMAIN Memory!Contents /\ Memory!Allows(ent, ent.prot)
             /\ ent.offset \in Nat
  <2>1. IsEntry(ent)
    BY DEF MemInv, PagesInv, GoodMap
  <2>2. /\ ent.page_num \in Nat /\ ent.npages \in Nat \ {0} /\ ent.offset \in Nat
        /\ ent.desc \in ContentNames /\ ent.page_num + ent.npages <= NumPages
        /\ Memory!Allows(ent, ent.prot)
    BY <2>1 DEF IsEntry, Entries, Memory!End
  <2> QED BY <2>2, ContentsAre, MemConstants DEF Memory!Pages
<1>2. ASSUME NEW p \in Memory!Pages PROVE Memory!Cardinality(Memory!FindPage(p)) <= 1
  <2>0. \A S : Memory!Cardinality(S) = Cardinality(S)
    BY DEF Memory!Cardinality, Cardinality
  <2>1. p \in Nat
    BY PagesAre
  <2>2. CASE Memory!FindPage(p) = {}
    BY <2>0, <2>2, FS_EmptySet
  <2>3. CASE Memory!FindPage(p) # {}
    <3>1. PICK ent \in vm_map : Memory!Covers(ent, p)
      BY <2>3 DEF Memory!FindPage
    <3>2. \A f \in vm_map : Memory!Covers(f, p) => f = ent
      BY <2>1, <3>1, OneEntry DEF MemInv, PagesInv
    <3>3. Memory!FindPage(p) = {ent}
      BY <3>1, <3>2 DEF Memory!FindPage
    <3> QED BY <2>0, <3>3, FS_Singleton
  <2> QED BY <2>2, <2>3
<1> QED BY <1>1, <1>2, PagesAre 
    DEF Memory!TypeOK, MemInv, PagesInv, CallInv, MemTypes, HostContents, HostProts

LEMMA MemAgrees ==
  ASSUME MemInv
  PROVE  Memory!MapAgreesWithHost
<1> SUFFICES ASSUME NEW p \in Memory!Pages
             PROVE  \/ /\ enclave
                       /\ Memory!FindPage(p) = {} => host[p] = "none"
                    \/ /\ ~enclave
                       /\ Memory!FindPage(p) = {} => host_prot[p] = Memory!None
                       /\ \A ent \in Memory!FindPage(p) :
                            host[p] \in {"anon", "file"} => host_prot[p] = ent.prot
  BY DEF Memory!MapAgreesWithHost
<1>1. PageInv(p) /\ enclave \in BOOLEAN
  BY DEF MemInv, PagesInv, MemTypes
<1> QED BY <1>1 DEF PageInv, Memory!FindPage, Memory!None

-----------------------------------------------------------------------------
(* The map of single pages.                                                *)

\* What a map says of a page.
Says(map, p) ==
  LET here == {e \in map : Memory!Covers(e, p)} IN
  IF here = {} THEN Unmapped
  ELSE LET ent == CHOOSE e \in here : TRUE IN [prot |-> ent.prot, desc |-> ent.desc]

LEMMA PagesSay ==
  /\ Memory!page = [p \in Memory!Pages |-> Says(vm_map, p)]
  /\ Memory!page' = [p \in Memory!Pages |-> Says(vm_map', p)]
BY DEF Memory!page, Memory!PageOf, Memory!FindPage, Says, Memory!Pages, Memory!Covers,
   Memory!End

LEMMA SaysIs ==
  ASSUME NEW map, GoodMap(map), NEW p \in Nat
  PROVE  /\ (~ \E e \in map : Memory!Covers(e, p)) => Says(map, p) = Unmapped
         /\ \A ent \in map : Memory!Covers(ent, p) =>
              Says(map, p) = [prot |-> ent.prot, desc |-> ent.desc]
<1>1. (~ \E e \in map : Memory!Covers(e, p)) => {e \in map : Memory!Covers(e, p)} = {}
  OBVIOUS
<1>2. ASSUME NEW ent \in map, Memory!Covers(ent, p)
      PROVE  Says(map, p) = [prot |-> ent.prot, desc |-> ent.desc]
  <2>1. \A e \in map : Memory!Covers(e, p) => e = ent
    BY <1>2, OneEntry
  <2>2. {e \in map : Memory!Covers(e, p)} = {ent}
    BY <1>2, <2>1
  <2>3. (CHOOSE e \in {ent} : TRUE) = ent
    OBVIOUS
  <2> QED BY <2>2, <2>3 DEF Says
<1> QED BY <1>1, <1>2 DEF Says

\* What an entry can say, which is of a page that is mapped.
LEMMA SaysMapped ==
  ASSUME NEW ent, IsEntry(ent)
  PROVE  /\ [prot |-> ent.prot, desc |-> ent.desc]
              \in [prot : PageProts, desc : ContentNames]
         /\ [prot |-> ent.prot, desc |-> ent.desc] # Unmapped
<1>1. ent.prot \in PageProts /\ ent.desc \in ContentNames
  BY EntryFacts
<1>2. PageProts \subseteq SUBSET {"r", "w", "x"}
  BY MemConstants DEF PageProts
<1>3. Unmapped \notin [prot : SUBSET {"r", "w", "x"}, desc : ContentNames]
  BY ServicesConstants DEF Memory!AddressSpaceConstants, ContentNames
<1>4. PICK v : v = [prot |-> ent.prot, desc |-> ent.desc]
  OBVIOUS
<1>5. v \in [prot : PageProts, desc : ContentNames]
  BY <1>1, <1>4
<1>6. v \in [prot : SUBSET {"r", "w", "x"}, desc : ContentNames]
  BY <1>1, <1>2, <1>4
<1>7. v # Unmapped
  BY <1>3, <1>6
<1> QED BY <1>4, <1>5, <1>7

\* A page that the new map keeps.
LEMMA KeptSays ==
  ASSUME GoodMap(vm_map), GoodMap(vm_map'), NEW p \in Nat, Keeps(vm_map', p)
  PROVE  Says(vm_map', p) = Says(vm_map, p)
<1>1. CASE \E r \in vm_map' : Memory!Covers(r, p)
  <2>1. PICK r \in vm_map' : Memory!Covers(r, p)
    BY <1>1
  <2>2. PICK ent \in vm_map : Memory!Covers(ent, p) /\ r.prot = ent.prot /\ r.desc = ent.desc
    BY <2>1 DEF Keeps, SaysAs
  <2>3. Says(vm_map', p) = [prot |-> r.prot, desc |-> r.desc]
    BY <2>1, SaysIs
  <2>4. Says(vm_map, p) = [prot |-> ent.prot, desc |-> ent.desc]
    BY <2>2, SaysIs
  <2> QED BY <2>2, <2>3, <2>4
<1>2. CASE ~ \E r \in vm_map' : Memory!Covers(r, p)
  <2>1. ~ \E ent \in vm_map : Memory!Covers(ent, p)
    BY <1>2 DEF Keeps
  <2>2. Says(vm_map', p) = Unmapped
    BY <1>2, SaysIs
  <2>3. Says(vm_map, p) = Unmapped
    BY <2>1, SaysIs
  <2> QED BY <2>2, <2>3
<1> QED BY <1>1, <1>2

\* What a call does to the pages of its range, and that it leaves the others.
Kept(first, end) ==
  \A p \in Nat : p < first \/ end <= p => Says(vm_map', p) = Says(vm_map, p)
Maps(first, end) ==
  \E desc \in ContentNames : \E prot \in Memory!Contents[desc] :
    \A p \in Nat : first <= p /\ p < end => Says(vm_map', p) = [prot |-> prot, desc |-> desc]
Places(first, end) ==
  Maps(first, end) /\ \A p \in Nat : first <= p /\ p < end => Says(vm_map, p) = Unmapped
Unmaps(first, end) ==
  \A p \in Nat : first <= p /\ p < end => Says(vm_map', p) = Unmapped
Protects(first, end) ==
  \E prot \in Prots : \A p \in Nat : first <= p /\ p < end =>
    \E desc \in ContentNames, old \in PageProts :
      /\ Says(vm_map, p) = [prot |-> old, desc |-> desc]
      /\ Says(vm_map, p) # Unmapped
      /\ prot \in Memory!Contents[desc]
      /\ Says(vm_map', p) = [prot |-> prot, desc |-> desc]
Grows(first, end) ==
  \A p \in Nat : first <= p /\ p < end =>
    Says(vm_map', p) = IF Says(vm_map, p) # Unmapped THEN Says(vm_map, p)
                       ELSE Says(vm_map, first - 1)

\* A call does so on the pages that it was for.
PageStep(first, n) ==
  /\ first + n <= NumPages /\ Kept(first, first + n)
  /\ \/ Memory!Called("mmap", first, n) /\ Places(first, first + n)
     \/ Memory!Called("mmap_fixed", first, n) /\ Maps(first, first + n)
     \/ Memory!Called("munmap", first, n) /\ Unmaps(first, first + n)
     \/ Memory!Called("mprotect", first, n) /\ Protects(first, first + n)
     \/ Memory!Called("brk", first, n) /\ Grows(first, first + n)

\* Such a call is a step of PageMap.
LEMMA PageStepRefines ==
  ASSUME part = "memory", part' = part, NEW first \in Nat \ {0}, NEW n \in Nat,
         PageStep(first, n)
  PROVE  PageMap!Next
<1>1. /\ Memory!page = [p \in Memory!Pages |-> Says(vm_map, p)]
      /\ Memory!page' = [p \in Memory!Pages |-> Says(vm_map', p)]
  BY PagesSay
<1>2. PICK range : range = first .. first + n - 1
  OBVIOUS
<1>3. /\ first + n \in Nat /\ first + n <= NumPages
      /\ \A p \in range : p \in Nat /\ first <= p /\ p < first + n /\ p \in Memory!Pages
  <2>1. first + n <= NumPages
    BY DEF PageStep
  <2>2. \A p \in range : p \in Nat /\ first <= p /\ p < first + n
    BY <1>2
  <2>3. \A p \in range : p < NumPages
    BY <2>1, <2>2, MemConstants
  <2> QED BY <2>1, <2>2, <2>3, PagesAre
<1>4. \A p \in Nat : p \notin range => p < first \/ first + n <= p
  BY <1>2
<1>5. Memory!page' = [p \in Memory!Pages |-> IF p \in range THEN Memory!page'[p]
                                             ELSE Memory!page[p]]
  <2>1. ASSUME NEW p \in Memory!Pages, p \notin range
        PROVE  Says(vm_map', p) = Says(vm_map, p)
    BY <1>4, <2>1, PagesAre DEF PageStep, Kept
  <2> QED BY <1>1, <2>1
<1>6. ASSUME NEW op, Memory!Called(op, first, n)
      PROVE  call'.op = op /\ range = call'.first .. call'.first + call'.n - 1
             /\ call'.first = first
  BY <1>2, <1>6 DEF Memory!Called
<1>7. ASSUME Maps(first, first + n)
      PROVE  PageMap!Map(range)
  <2>1. PICK desc \in ContentNames : \E prot \in Memory!Contents[desc] :
          \A p \in Nat : first <= p /\ p < first + n
            => Says(vm_map', p) = [prot |-> prot, desc |-> desc]
    BY <1>7 DEF Maps
  <2>2. PICK prot \in Memory!Contents[desc] :
          \A p \in Nat : first <= p /\ p < first + n
            => Says(vm_map', p) = [prot |-> prot, desc |-> desc]
    BY <2>1
  <2>3. \A p \in range : Memory!page'[p] = [prot |-> prot, desc |-> desc]
    BY <1>1, <1>3, <2>2
  <2>4. desc \in DOMAIN Memory!Contents
    BY ContentsAre DEF ContentNames
  <2> QED BY <2>3, <2>4 DEF PageMap!Map
<1>8. CASE Memory!Called("mmap", first, n) /\ Places(first, first + n)
  <2>1. PageMap!Map(range)
    BY <1>7, <1>8 DEF Places
  <2>2. \A p \in range : Memory!page[p] = Unmapped
    BY <1>1, <1>3, <1>8 DEF Places
  <2>3. PageMap!Place(range)
    BY <2>1, <2>2 DEF PageMap!Place, PageMap!Mapped
  <2> QED BY <1>5, <1>6, <1>8, <2>3 DEF PageMap!Next
<1>9. CASE Memory!Called("mmap_fixed", first, n) /\ Maps(first, first + n)
  <2>1. PageMap!Map(range)
    BY <1>7, <1>9
  <2> QED BY <1>5, <1>6, <1>9, <2>1 DEF PageMap!Next
<1>10. CASE Memory!Called("munmap", first, n) /\ Unmaps(first, first + n)
  <2>1. \A p \in range : Memory!page'[p] = Unmapped
    BY <1>1, <1>3, <1>10 DEF Unmaps
  <2>2. PageMap!Unmap(range)
    BY <2>1 DEF PageMap!Unmap
  <2> QED BY <1>5, <1>6, <1>10, <2>2 DEF PageMap!Next
<1>11. CASE Memory!Called("mprotect", first, n) /\ Protects(first, first + n)
  <2>1. PICK prot \in Prots : \A p \in Nat : first <= p /\ p < first + n =>
          \E desc \in ContentNames, old \in PageProts :
            /\ Says(vm_map, p) = [prot |-> old, desc |-> desc]
            /\ Says(vm_map, p) # Unmapped
            /\ prot \in Memory!Contents[desc]
            /\ Says(vm_map', p) = [prot |-> prot, desc |-> desc]
    BY <1>11 DEF Protects
  <2>2. ASSUME NEW p \in range
        PROVE  /\ Memory!page[p] # Unmapped /\ prot \in Memory!Contents[Memory!page[p].desc]
               /\ Memory!page'[p] = [Memory!page[p] EXCEPT !.prot = prot]
    <3>1. PICK desc \in ContentNames, old \in PageProts :
            /\ Says(vm_map, p) = [prot |-> old, desc |-> desc]
            /\ Says(vm_map, p) # Unmapped
            /\ prot \in Memory!Contents[desc]
            /\ Says(vm_map', p) = [prot |-> prot, desc |-> desc]
      BY <1>3, <2>1
    <3>2. Memory!page[p] = [prot |-> old, desc |-> desc]
            /\ Memory!page'[p] = [prot |-> prot, desc |-> desc]
      BY <1>1, <1>3, <3>1
    <3>3. [Memory!page[p] EXCEPT !.prot = prot] = [prot |-> prot, desc |-> desc]
      BY <3>2
    <3> QED BY <1>1, <1>3, <3>1, <3>2, <3>3
  <2>3. prot \in PageMap!Protections
    BY ContentsAre DEF PageMap!Protections, ContentNames
  <2>4. PageMap!Protect(range)
    BY <2>2, <2>3 DEF PageMap!Protect, PageMap!Mapped
  <2> QED BY <1>5, <1>6, <1>11, <2>4 DEF PageMap!Next
<1>12. CASE Memory!Called("brk", first, n) /\ Grows(first, first + n)
  <2>1. PICK before : before = first - 1
    OBVIOUS
  <2>2. ASSUME NEW p \in range
        PROVE  Memory!page'[p] = IF Memory!page[p] # Unmapped THEN Memory!page[p]
                                 ELSE Memory!page[before]
    <3>1. before \in Memory!Pages
      <4>1. before \in Nat /\ before < p
        BY <1>3, <2>1, <2>2
      <4>2. p < first + n /\ p \in Nat
        BY <1>3, <2>2
      <4>3. p < NumPages
        BY <1>3, <4>2, MemConstants
      <4> QED BY <4>1, <4>2, <4>3, PagesAre, MemConstants
    <3>2. Says(vm_map', p) = IF Says(vm_map, p) # Unmapped THEN Says(vm_map, p)
                             ELSE Says(vm_map, before)
      BY <1>3, <1>12, <2>1 DEF Grows
    <3> QED BY <1>1, <1>3, <3>1, <3>2
  <2>3. PageMap!Grow(range, before)
    BY <2>2 DEF PageMap!Grow, PageMap!Mapped
  <2>4. before = call'.first - 1
    BY <1>6, <1>12, <2>1
  <2> QED BY <1>5, <1>6, <1>12, <2>3, <2>4 DEF PageMap!Next
<1> QED BY <1>8, <1>9, <1>10, <1>11, <1>12 DEF PageStep

LEMMA OverwriteSays ==
  ASSUME PagesInv, NEW first \in Nat, NEW n \in Nat \ {0}, NEW ent, IsEntry(ent),
         ent.page_num = first, Memory!End(ent) = first + n,
         vm_map' = Memory!VmmapAddWithOverwrite(ent)
  PROVE  Kept(first, first + n) /\ Maps(first, first + n)
<1>1. /\ GoodMap(vm_map') /\ ent \in vm_map'
      /\ \A p \in Nat : p < first \/ first + n <= p => Keeps(vm_map', p)
      /\ \A p \in Nat, r \in vm_map' : Memory!Covers(ent, p) /\ Memory!Covers(r, p) => r = ent
  BY OverwriteMap DEF PagesInv
<1>2. ASSUME NEW p \in Nat, p < first \/ first + n <= p
      PROVE  Says(vm_map', p) = Says(vm_map, p)
  BY <1>1, <1>2, KeptSays DEF PagesInv
<1>3. ASSUME NEW p \in Nat, first <= p, p < first + n
      PROVE  Says(vm_map', p) = [prot |-> ent.prot, desc |-> ent.desc]
  <2>1. Memory!Covers(ent, p)
    BY <1>3 DEF Memory!Covers
  <2> QED BY <1>1, <2>1, SaysIs
<1>4. ent.desc \in ContentNames /\ ent.prot \in Memory!Contents[ent.desc]
  BY DEF IsEntry, Entries, Memory!Allows
<1>5. Maps(first, first + n)
  BY <1>3, <1>4 DEF Maps
<1> QED BY <1>2, <1>5 DEF Kept

LEMMA MapAtSays ==
  ASSUME PagesInv, NEW first \in Nat, NEW n \in Nat \ {0}, Memory!MapAt(first, n)
  PROVE  /\ first # 0 /\ first + n <= NumPages
         /\ Kept(first, first + n) /\ Maps(first, first + n)
<1>1. ASSUME NEW prot \in Prots, Memory!MapAnon(first, n, prot)
      PROVE  /\ first # 0 /\ first + n <= NumPages
             /\ Kept(first, first + n) /\ Maps(first, first + n)
  <2>1. /\ first # 0 /\ first + n <= NumPages
        /\ vm_map' = Memory!VmmapAddWithOverwrite(Memory!Entry(first, n, prot, "anon", 0))
    BY <1>1, MemConstants DEF Memory!MapAnon, Memory!Allowed
  <2>2. PICK ent : ent = Memory!Entry(first, n, prot, "anon", 0)
    OBVIOUS
  <2>3. IsEntry(ent) /\ ent.page_num = first /\ Memory!End(ent) = first + n
    BY <2>1, <2>2, NewEntry, ContentsAre DEF ContentNames
  <2> QED BY <2>1, <2>2, <2>3, OverwriteSays
<1>2. ASSUME NEW prot \in Memory!Contents["file"], NEW ofs \in FilePages,
             Memory!MapFile(first, n, prot, ofs)
      PROVE  /\ first # 0 /\ first + n <= NumPages
             /\ Kept(first, first + n) /\ Maps(first, first + n)
  <2>1. /\ first # 0 /\ first + n <= NumPages
        /\ vm_map'
             = Memory!VmmapAddWithOverwrite(Memory!Entry(first, n, prot, "file",
             ofs * PageSize))
    BY <1>2, MemConstants DEF Memory!MapFile, Memory!Allowed
  <2>2. PICK o \in Nat : o = ofs * PageSize
    BY MemConstants, Bytes
  <2>3. PICK ent : ent = Memory!Entry(first, n, prot, "file", o)
    OBVIOUS
  <2>4. IsEntry(ent) /\ ent.page_num = first /\ Memory!End(ent) = first + n
    BY <2>1, <2>3, NewEntry DEF ContentNames
  <2> QED BY <2>1, <2>2, <2>3, <2>4, OverwriteSays
<1> QED BY <1>1, <1>2 DEF Memory!MapAt

\* Where mmap() chooses the place it is free.
LEMMA MmapSays ==
  ASSUME PagesInv, NEW n \in Nat \ {0}, Memory!Mmap(n)
  PROVE  \E first \in Nat \ {0} : PageStep(first, n)
<1>1. PICK first \in Nat, op \in {"mmap", "mmap_fixed"} :
        /\ Memory!MapAt(first, n) /\ Memory!Called(op, first, n)
        /\ op = "mmap" => RangeFree(first, n)
  BY MmapAt
<1>2. /\ first # 0 /\ first + n <= NumPages
      /\ Kept(first, first + n) /\ Maps(first, first + n)
  BY <1>1, MapAtSays
<1>3. CASE op = "mmap"
  <2>1. ASSUME NEW p \in Nat, first <= p, p < first + n PROVE Says(vm_map, p) = Unmapped
    <3>1. GoodMap(vm_map) /\ ~ \E ent \in vm_map : Memory!Covers(ent, p)
      BY <1>1, <1>3, <2>1 DEF RangeFree, Free, PagesInv
    <3> QED BY <3>1, SaysIs
  <2>2. Places(first, first + n)
    BY <1>2, <2>1 DEF Places
  <2> QED BY <1>1, <1>2, <1>3, <2>2 DEF PageStep
<1>4. CASE op = "mmap_fixed"
  BY <1>1, <1>2, <1>4 DEF PageStep
<1> QED BY <1>3, <1>4

LEMMA MunmapSays ==
  ASSUME PagesInv, NEW first \in Nat, NEW n \in Nat \ {0}, Memory!Munmap(first, n)
  PROVE  first # 0 /\ PageStep(first, n)
<1>1. /\ first # 0 /\ first + n <= NumPages /\ vm_map' = Memory!VmmapRemove(first, n)
      /\ Memory!Called("munmap", first, n)
  BY MemConstants DEF Memory!Munmap, Memory!Allowed
<1>2. /\ GoodMap(vm_map')
      /\ \A r \in vm_map' : Memory!End(r) <= first \/ first + n <= r.page_num
      /\ \A p \in Nat : p < first \/ first + n <= p => Keeps(vm_map', p)
  BY <1>1, RemoveMap DEF PagesInv
<1>3. ASSUME NEW p \in Nat, p < first \/ first + n <= p
      PROVE  Says(vm_map', p) = Says(vm_map, p)
  BY <1>2, <1>3, KeptSays DEF PagesInv
<1>4. ASSUME NEW p \in Nat, first <= p, p < first + n PROVE Says(vm_map', p) = Unmapped
  <2>1. \A r \in vm_map' : r.page_num \in Nat /\ Memory!End(r) \in Nat
    BY <1>2, EntryFacts DEF GoodMap
  <2>2. ~ \E r \in vm_map' : Memory!Covers(r, p)
    BY <1>2, <1>4, <2>1 DEF Memory!Covers
  <2> QED BY <1>2, <2>2, SaysIs
<1>5. Kept(first, first + n) /\ Unmaps(first, first + n)
  BY <1>3, <1>4 DEF Kept, Unmaps
<1> QED BY <1>1, <1>5 DEF PageStep

LEMMA MprotectSays ==
  ASSUME PagesInv, NEW first \in Nat, NEW n \in Nat \ {0}, NEW prot \in Prots,
         Memory!Mprotect(first, n, prot)
  PROVE  first # 0 /\ PageStep(first, n)
<1>1. /\ first # 0 /\ first + n <= NumPages
      /\ Memory!CheckExistingMapping(first, n, prot)
      /\ vm_map' = Memory!ChangeProt(first, n, prot)
      /\ Memory!Called("mprotect", first, n)
  BY MemConstants DEF Memory!Mprotect, Memory!Allowed
<1>2. /\ GoodMap(vm_map')
      /\ \A p \in Nat : p < first \/ first + n <= p => Keeps(vm_map', p)
      /\ \A p \in Nat : first <= p /\ p < first + n =>
           /\ \E r \in vm_map' : Memory!Covers(r, p)
           /\ \A r \in vm_map' : Memory!Covers(r, p) =>
                /\ r.prot = prot
                /\ \E ent \in vm_map :
                     Memory!Covers(ent, p) /\ SaysAs(r, ent, p) /\ Memory!Allows(ent, prot)
  BY <1>1, ChangeMap DEF PagesInv
<1>3. ASSUME NEW p \in Nat, p < first \/ first + n <= p
      PROVE  Says(vm_map', p) = Says(vm_map, p)
  BY <1>2, <1>3, KeptSays DEF PagesInv
<1>4. ASSUME NEW p \in Nat, first <= p, p < first + n
      PROVE  \E desc \in ContentNames, old \in PageProts :
               /\ Says(vm_map, p) = [prot |-> old, desc |-> desc]
               /\ Says(vm_map, p) # Unmapped
               /\ prot \in Memory!Contents[desc]
               /\ Says(vm_map', p) = [prot |-> prot, desc |-> desc]
  <2>1. PICK r \in vm_map' : Memory!Covers(r, p)
    BY <1>2, <1>4
  <2>2. PICK ent \in vm_map : /\ r.prot = prot /\ Memory!Covers(ent, p) /\ r.desc = ent.desc
                               /\ prot \in Memory!Contents[ent.desc]
    BY <1>2, <1>4, <2>1 DEF SaysAs, Memory!Allows
  <2>3. IsEntry(ent)
    BY DEF PagesInv, GoodMap
  <2>4. ent.prot \in PageProts /\ ent.desc \in ContentNames
    BY <2>3, EntryFacts
  <2>5. Says(vm_map, p) = [prot |-> ent.prot, desc |-> ent.desc]
    BY <2>2, SaysIs DEF PagesInv
  <2>6. Says(vm_map', p) = [prot |-> r.prot, desc |-> r.desc]
    BY <1>2, <2>1, SaysIs
  <2>7. Says(vm_map, p) # Unmapped
    BY <2>3, <2>5, SaysMapped
  <2>8. Says(vm_map', p) = [prot |-> prot, desc |-> ent.desc]
    BY <2>2, <2>6
  <2> QED BY <2>2, <2>4, <2>5, <2>7, <2>8
<1>5. Kept(first, first + n) /\ Protects(first, first + n)
  BY <1>3, <1>4 DEF Kept, Protects
<1> QED BY <1>1, <1>5 DEF PageStep

\* A call of mprotect() for no bytes is for no page.
LEMMA MprotectEmptySays ==
  ASSUME NEW first \in Nat, NEW prot \in Prots, Memory!MprotectEmpty(first, prot)
  PROVE  first # 0 /\ PageStep(first, 0)
<1>1. /\ first # 0 /\ first + 0 <= NumPages /\ first + 0 = first /\ vm_map' = vm_map
      /\ Memory!Called("mprotect", first, 0)
  BY MemConstants DEF Memory!MprotectEmpty, Memory!Allowed
<1>2. Kept(first, first)
  BY <1>1 DEF Kept
<1>3. Protects(first, first)
  <2>1. \A p \in Nat : ~(first <= p /\ p < first)
    OBVIOUS
  <2> QED BY <2>1 DEF Protects
<1> QED BY <1>1, <1>2, <1>3 DEF PageStep

\* Pages that brk() adds are like the one before the old break, which is of the
\* entry that has grown over them.
LEMMA BrkExtendSays ==
  ASSUME PagesInv, NEW new \in Nat, Memory!BrkExtend(new)
  PROVE  \E first \in Nat \ {0}, n \in Nat : PageStep(first, n)
<1>1. /\ new <= NumPages /\ break_page < new
      /\ Memory!Called("brk", break_page, new - break_page)
  BY MemConstants DEF Memory!BrkExtend
<1>2. PICK ent \in vm_map :
        /\ Memory!Covers(ent, break_page - 1) /\ Memory!End(ent) < new
        /\ \A next \in vm_map : next.page_num > ent.page_num => next.page_num >= new
        /\ vm_map' = (vm_map \ {ent}) \cup {Grown(ent, new)}
  BY DEF Memory!BrkExtend, Memory!FindPage, Grown
<1>3. /\ GoodMap(vm_map')
      /\ \A p \in Nat : p < Memory!End(ent) \/ new <= p => Keeps(vm_map', p)
      /\ \A p \in Nat : Memory!End(ent) <= p /\ p < new =>
           /\ ~ \E e \in vm_map : Memory!Covers(e, p)
           /\ \E r \in vm_map' : Memory!Covers(r, p)
           /\ \A r \in vm_map' : Memory!Covers(r, p) => r.prot = ent.prot /\ r.desc = ent.desc
  <2>1. GoodMap(vm_map) /\ Memory!End(ent) < new /\ FreeUpTo(ent, new) /\ new <= NumPages
    BY <1>1, <1>2 DEF PagesInv, FreeUpTo
  <2>2. PICK map : map = vm_map' /\ map = (vm_map \ {ent}) \cup {Grown(ent, new)}
    BY <1>2
  <2>3. /\ GoodMap(map)
        /\ \A p \in Nat : p < Memory!End(ent) \/ new <= p => Keeps(map, p)
        /\ \A p \in Nat : Memory!End(ent) <= p /\ p < new =>
             /\ ~ \E e \in vm_map : Memory!Covers(e, p)
             /\ \E r \in map : Memory!Covers(r, p)
             /\ \A r \in map : Memory!Covers(r, p) => r.prot = ent.prot /\ r.desc = ent.desc
    BY <2>1, <2>2, GrowMap
  <2> QED BY <2>2, <2>3
<1>4. /\ IsEntry(ent) /\ Memory!End(ent) \in Nat /\ ent.page_num \in Nat
      /\ GoodMap(vm_map) /\ break_page \in Nat \ {0} /\ break_page - 1 \in Nat
      /\ break_page <= Memory!End(ent)
  <2>1. IsEntry(ent) /\ Memory!End(ent) \in Nat /\ ent.page_num \in Nat /\ GoodMap(vm_map)
    BY EntryFacts DEF PagesInv, GoodMap
  <2>2. break_page \in Nat \ {0} /\ break_page - 1 < Memory!End(ent)
    BY <1>2, MemConstants DEF PagesInv, MemTypes, Memory!Covers
  <2> QED BY <2>1, <2>2
<1>5. ASSUME NEW p \in Nat, p < Memory!End(ent) \/ new <= p
      PROVE  Says(vm_map', p) = Says(vm_map, p)
  BY <1>3, <1>4, <1>5, KeptSays
<1>6. Says(vm_map, break_page - 1) = [prot |-> ent.prot, desc |-> ent.desc]
  BY <1>2, <1>4, SaysIs
<1>7. ASSUME NEW p \in Nat, Memory!End(ent) <= p, p < new
      PROVE  /\ Says(vm_map, p) = Unmapped
             /\ Says(vm_map', p) = Says(vm_map, break_page - 1)
  <2>1. PICK r \in vm_map' : Memory!Covers(r, p) /\ r.prot = ent.prot /\ r.desc = ent.desc
    BY <1>3, <1>7
  <2>2. Says(vm_map', p) = [prot |-> r.prot, desc |-> r.desc]
    BY <1>3, <2>1, SaysIs
  <2>3. Says(vm_map, p) = Unmapped
    BY <1>3, <1>4, <1>7, SaysIs
  <2> QED BY <1>6, <2>1, <2>2, <2>3
<1>8. ASSUME NEW p \in Nat, break_page <= p, p < Memory!End(ent)
      PROVE  Says(vm_map, p) # Unmapped
  <2>1. Memory!Covers(ent, p)
    BY <1>2, <1>4, <1>8 DEF Memory!Covers
  <2> QED BY <1>4, <2>1, SaysIs, SaysMapped
<1>9. PICK n \in Nat : n = new - break_page
  BY <1>1, <1>4
<1>10. break_page + n = new
  BY <1>4, <1>9
<1>11. Kept(break_page, new)
  <2>1. \A p \in Nat : p < break_page \/ new <= p => p < Memory!End(ent) \/ new <= p
    BY <1>4
  <2> QED BY <1>5, <2>1 DEF Kept
<1>12. Grows(break_page, new)
  <2>1. \A p \in Nat : p < Memory!End(ent) \/ Memory!End(ent) <= p
    BY <1>4
  <2> QED BY <1>5, <1>7, <1>8, <2>1 DEF Grows
<1> QED BY <1>1, <1>4, <1>9, <1>10, <1>11, <1>12 DEF PageStep

\* The other brk() calls leave the map as it is.
LEMMA BrkSays ==
  ASSUME PagesInv, NEW new \in Nat, new <= NumPages,
         Memory!BrkDown(new) \/ Memory!BrkWithinEntry(new)
  PROVE  \E first \in Nat \ {0}, n \in Nat : PageStep(first, n)
<1>0. vm_map' = vm_map /\ break_page \in Nat \ {0} /\ break_page - 1 \in Nat
  BY MemConstants DEF Memory!BrkDown, Memory!BrkWithinEntry, PagesInv, MemTypes
<1>1. CASE Memory!BrkDown(new)
  <2>1. new # 0 /\ new + 0 = new /\ Memory!Called("brk", new, 0)
    BY <1>1, MemConstants DEF Memory!BrkDown
  <2>2. \A p \in Nat : ~(new <= p /\ p < new)
    OBVIOUS
  <2>3. Kept(new, new) /\ Grows(new, new)
    BY <1>0, <2>2 DEF Kept, Grows
  <2>4. PageStep(new, 0)
    BY <2>1, <2>3 DEF PageStep
  <2> QED BY <2>1, <2>4
<1>2. CASE Memory!BrkWithinEntry(new)
  <2>1. PICK ent \in vm_map : Memory!Covers(ent, break_page - 1) /\ new <= Memory!End(ent)
    BY <1>2 DEF Memory!BrkWithinEntry, Memory!FindPage
  <2>2. /\ IsEntry(ent) /\ Memory!End(ent) \in Nat /\ ent.page_num \in Nat
        /\ GoodMap(vm_map)
    BY EntryFacts DEF PagesInv, GoodMap
  <2>3. PICK n \in Nat : n = new - break_page
    BY <1>0, <1>2 DEF Memory!BrkWithinEntry
  <2>4. break_page + n = new /\ Memory!Called("brk", break_page, n)
    BY <1>0, <1>2, <2>3 DEF Memory!BrkWithinEntry
  <2>5. ASSUME NEW p \in Nat, break_page <= p, p < new PROVE Says(vm_map, p) # Unmapped
    <3>1. Memory!Covers(ent, p)
      BY <1>0, <2>1, <2>2, <2>5 DEF Memory!Covers
    <3> QED BY <2>2, <3>1, SaysIs, SaysMapped
  <2>6. Kept(break_page, new) /\ Grows(break_page, new)
    BY <1>0, <2>5 DEF Kept, Grows
  <2>7. PageStep(break_page, n)
    BY <2>4, <2>6 DEF PageStep
  <2> QED BY <1>0, <2>7
<1> QED BY <1>1, <1>2

\* A call works on the pages of its range; a store to memory is no call.
SomePageStep ==
  \/ vm_map' = vm_map /\ call' = call
  \/ \E first \in Nat \ {0}, n \in Nat : PageStep(first, n)

LEMMA NextSays ==
  ASSUME MemInv, Memory!Next
  PROVE  SomePageStep
<1>0. PagesInv
  BY DEF MemInv
<1>1. ASSUME NEW n \in Lengths, Memory!Mmap(n) PROVE SomePageStep
  BY <1>0, <1>1, MmapSays, MemConstants DEF SomePageStep
<1>2. ASSUME NEW n \in Lengths, NEW first \in Memory!Pages, Memory!Munmap(first, n)
      PROVE SomePageStep
  BY <1>0, <1>2, MunmapSays, MemConstants, PagesAre DEF SomePageStep
<1>3. ASSUME NEW first \in Memory!Pages, NEW n \in Lengths, NEW prot \in Prots,
             Memory!Mprotect(first, n, prot)
      PROVE  SomePageStep
  BY <1>0, <1>3, MprotectSays, MemConstants, PagesAre DEF SomePageStep
<1>4. ASSUME NEW first \in Memory!Pages, NEW prot \in Prots,
             Memory!MprotectEmpty(first, prot)
      PROVE  SomePageStep
  BY <1>4, MprotectEmptySays, PagesAre DEF SomePageStep
<1>5. ASSUME NEW new \in Memory!Pages \cup {NumPages},
             Memory!BrkDown(new) \/ Memory!BrkWithinEntry(new) \/ Memory!BrkExtend(new)
      PROVE  SomePageStep
  <2>1. new \in Nat /\ new <= NumPages
    BY MemConstants DEF Memory!Pages
  <2> QED BY <1>0, <1>5, <2>1, BrkSays, BrkExtendSays DEF SomePageStep
<1>6. ASSUME NEW p \in Memory!Pages, Memory!Store(p) PROVE SomePageStep
  BY <1>6 DEF Memory!Store, SomePageStep
<1> QED BY <1>1, <1>2, <1>3, <1>4, <1>5, <1>6, MemCalls

-----------------------------------------------------------------------------
(* Theorems.                                                               *)

LEMMA MemUnchanged ==
  ASSUME MemInv, UNCHANGED memVars
  PROVE  MemInv'
<1>1. UNCHANGED Memory!vars
  BY DEF memVars, Memory!vars
<1> QED BY <1>1, MemStep

\* What the memory map and the host have at each page, in every sequence of
\* mmap(), munmap(), mprotect() and brk() calls on any number of pages.
THEOREM MemInvariance == ServicesSpec => []MemInv
<1>1. ServicesInit => MemInv
  BY MemInitInv DEF ServicesInit
<1>2. MemInv /\ [ServicesNext]_servicesVars => MemInv'
  BY MemStep, MemUnchanged DEF ServicesNext, servicesVars
<1> QED BY <1>1, <1>2, PTL DEF ServicesSpec

\* Without an enclave a page has at the host the protection that the map
\* records, and none when it is not mapped; in an enclave a page that is not
\* mapped is filled with zeros: what NaClSysMmapIntern(), NaClSysMunmap(),
\* NaClSysMprotectInternal() and NaClSysBrk() do to the pages and to the map.
THEOREM HostAsMapped == ServicesSpec => []MapAgreesWithHost
<1>1. MemInv => MapAgreesWithHost
  BY MemAgrees DEF MapAgreesWithHost
<1> QED BY <1>1, MemInvariance, PTL

\* The place that NaClVmmapFindMapSpace() or NaClVmmapFindMapSpaceAboveHint()
\* picks is free, and they fail only when there is none below an entry.
THEOREM FoundPlacesAreFree == ServicesSpec => []PlacesAreFree
<1>1. MemInv => PlacesAreFree
  BY PlacesInv DEF PlacesAreFree, MemInv
<1> QED BY <1>1, MemInvariance, PTL

\* The tables of the service runtime have their types: entries of the map do
\* not overlap; the CHECKs of mprotect() on what NaClVmmapChangeProt() leaves
\* hold for every range that is not empty, so that only a call for no bytes can
\* fail one; and the CHECK that the generations of threads only grow holds.
THEOREM ServicesTyping == ServicesSpec => []ServicesTypeOK
<1>1. ServicesSpec => Spec
  <2>1. ServicesInit => Init
    BY DEF ServicesInit
  <2>2. [ServicesNext]_servicesVars => [Next]_vars
    BY DEF ServicesNext, servicesVars
  <2> QED BY <2>1, <2>2, PTL DEF ServicesSpec, Spec
<1>2. Spec => []TypeOK
  BY ServicesConstants, Typing
<1>3. MemInv => Memory!TypeOK
  BY MemTyping
<1>4. TypeOK /\ Memory!TypeOK /\ Descriptors!TypeOK => ServicesTypeOK
  BY DEF ServicesTypeOK
<1> QED BY <1>1, <1>2, <1>3, <1>4, MemInvariance, DescriptorTyping, PTL

LEMMA PageMapInit ==
  ASSUME ServicesInit
  PROVE  PageMap!Init
<1>1. MemInv
  BY MemInitInv DEF ServicesInit
<1>2. /\ PageProts \subseteq PageMap!Protections
      /\ DOMAIN Memory!Contents = ContentNames
  BY ContentsAre DEF PageMap!Protections, ContentNames, PageProts
<1>3. ASSUME NEW p \in Memory!Pages
      PROVE  Says(vm_map, p) \in [prot : PageMap!Protections, desc : ContentNames]
                                    \cup {Unmapped}
  <2>1. p \in Nat /\ GoodMap(vm_map)
    BY <1>1, PagesAre DEF MemInv, PagesInv
  <2>2. CASE \E ent \in vm_map : Memory!Covers(ent, p)
    <3>1. PICK ent \in vm_map : Memory!Covers(ent, p)
      BY <2>2
    <3>2. PICK v : v = [prot |-> ent.prot, desc |-> ent.desc]
      OBVIOUS
    <3>3. v \in [prot : PageProts, desc : ContentNames]
      BY <2>1, <3>2, SaysMapped DEF GoodMap
    <3>4. Says(vm_map, p) = v
      BY <2>1, <3>1, <3>2, SaysIs
    <3> QED BY <1>2, <3>3, <3>4
  <2>3. CASE ~ \E ent \in vm_map : Memory!Covers(ent, p)
    BY <2>1, <2>3, SaysIs
  <2> QED BY <2>2, <2>3
<1>4. Memory!page \in [Memory!Pages -> [prot : PageMap!Protections, desc : ContentNames]
                                         \cup {Unmapped}]
  BY <1>3, PagesSay
<1>5. call = [op |-> "none", first |-> 0, n |-> 0]
  BY DEF ServicesInit, Memory!Init
<1> QED BY <1>2, <1>4, <1>5 DEF PageMap!Init

\* NaClVmmapUpdate() and NaClVmmapChangeProt(), which cut and join entries,
\* implement a map of single pages.  A call changes no page outside the range it
\* was given or, by mmap(), has been given, which was free then; munmap()
\* unmaps all of that range, and mprotect() changes all of it, keeping what is
\* behind it, or nothing.
THEOREM MapOfPages == ServicesSpec => ImplementsPageMap
<1> DEFINE pages == IF part = "memory" THEN Memory!page
                    ELSE [p \in Memory!Pages |-> Unmapped]
<1>1. ServicesInit => PageMap!Init
  BY PageMapInit
<1>2. MemInv /\ [ServicesNext]_servicesVars => [PageMap!Next]_<<pages, call>>
  <2> SUFFICES ASSUME MemInv, [ServicesNext]_servicesVars
               PROVE  PageMap!Next \/ (pages' = pages /\ call' = call)
    BY DEF pages
  <2>1. part' = part
    BY DEF ServicesNext, servicesVars
  <2>2. CASE part # "memory"
    <3>1. call' = call
      BY <2>2 DEF ServicesNext, servicesVars, memVars
    <3> QED BY <2>1, <2>2, <3>1 DEF Memory!Pages
  <2>3. CASE part = "memory" /\ vm_map' = vm_map /\ call' = call
    <3>1. Memory!page' = Memory!page
      BY <2>3, PagesSay
    <3> QED BY <2>1, <3>1, <2>3
  <2>4. CASE part = "memory" /\ ~(vm_map' = vm_map /\ call' = call)
    <3>1. Memory!Next
      BY <2>4 DEF ServicesNext, servicesVars, memVars
    <3>2. PICK first \in Nat \ {0}, n \in Nat : PageStep(first, n)
      BY <2>4, <3>1, NextSays DEF SomePageStep
    <3> QED BY <2>1, <2>4, <3>2, PageStepRefines
  <2> QED BY <2>2, <2>3, <2>4
<1> QED BY <1>1, <1>2, MemInvariance, PTL DEF ServicesSpec, ImplementsPageMap, PageMap!Spec
=============================================================================
