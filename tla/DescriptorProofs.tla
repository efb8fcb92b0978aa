--------------------------- MODULE DescriptorProofs ---------------------------
(***************************************************************************)
(* Proofs about the descriptor table (DescTable, as MCServices has it):    *)
(* for any number of threads, descriptors, numbers and mappings the count  *)
(* of every descriptor is exact, and open() and dup() return the lowest    *)
(* free number.                                                            *)
(***************************************************************************)
EXTENDS MCServices, FiniteSetTheorems, SequenceTheorems, WellFoundedInduction, TLAPS

\* The threads that make calls, and the constants of the table.
Users == Threads \ {Main}
Fds == Descriptors!Fds

\* What the constants must be.
LEMMA FdConstants ==
  /\ IsFiniteSet(Users) /\ IsFiniteSet(Mappings)
  /\ NumFds \in Nat \ {0} /\ BitsPerWord \in Nat \ {0} /\ Null \notin Descs
<1>1. \A S : Descriptors!IsFiniteSet(S) <=> IsFiniteSet(S)
  BY DEF Descriptors!IsFiniteSet, IsFiniteSet
<1> QED BY <1>1, ServicesConstants DEF Descriptors!DescTableConstants, Users

-----------------------------------------------------------------------------
(* Least numbers, and words of the bitmap.                                 *)

\* A set of numbers has a least one, and it is what Min chooses.
LEMMA MinIsLeast ==
  ASSUME NEW S, S \subseteq Nat, S # {}
  PROVE  Descriptors!Min(S) \in S /\ \A y \in S : Descriptors!Min(S) <= y
<1>1. PICK x \in S : \A y \in S : ~(<<y, x>> \in OpToRel(<, Nat))
  BY NatLessThanWellFounded, WFMin
<1>2. \A y \in S : ~(y < x)
  BY <1>1 DEF OpToRel
<1>3. \A y \in S : x <= y
  BY <1>2
<1> QED BY <1>3 DEF Descriptors!Min

\* The word of a number grows with it.
LEMMA WordOrder ==
  ASSUME NEW m \in Nat, NEW n \in Nat
  PROVE  Descriptors!WordOf(m) \in Nat
              /\ (m <= n => Descriptors!WordOf(m) <= Descriptors!WordOf(n))
<1>1. \A i, j \in Nat, b \in Nat \ {0} : i \div b \in Nat
            /\ (i <= j => i \div b <= j \div b)
  OBVIOUS
<1> QED BY <1>1, FdConstants DEF Descriptors!WordOf

-----------------------------------------------------------------------------
(* How often a descriptor is among the references a call owns.             *)

Is(x, d) == IF x = d THEN 1 ELSE 0
IsAt(s, i, d) == IF i <= Len(s) /\ s[i] = d THEN 1 ELSE 0
Times(s, d) == IsAt(s, 1, d) + IsAt(s, 2, d) + IsAt(s, 3, d)

\* Sequences with none, one or two members.
LEMMA TimesShort ==
  ASSUME NEW d, NEW x, NEW y
  PROVE  /\ Times(<<>>, d) = 0 /\ Times(<<x>>, d) = Is(x, d)
         /\ Times(<<x, y>>, d) = Is(x, d) + Is(y, d)
<1>1. Times(<<>>, d) = 0
  BY DEF Times, IsAt
<1>2. Times(<<x>>, d) = Is(x, d)
  BY DEF Times, IsAt, Is
<1>3. Times(<<x, y>>, d) = Is(x, d) + Is(y, d)
  BY DEF Times, IsAt, Is
<1> QED BY <1>1, <1>2, <1>3

\* The first reference is given up.
LEMMA TimesTail ==
  ASSUME NEW S, NEW s \in Seq(S), NEW d, Len(s) \in 1 .. 3
  PROVE  /\ Times(Tail(s), d) = Times(s, d) - Is(Head(s), d)
         /\ Tail(s) \in Seq(S) /\ Len(Tail(s)) = Len(s) - 1 /\ Head(s) \in S
         /\ Len(s) = 1 => Times(s, d) = Is(Head(s), d)
<1>1. PICK r : r = Tail(s)
  OBVIOUS
<1>2. r \in Seq(S) /\ Len(r) = Len(s) - 1 /\ Head(s) \in S /\ Head(s) = s[1]
  BY <1>1
<1>3. \A i \in 1 .. Len(r) : r[i] = s[i + 1]
  BY <1>1, <1>2
<1>4. CASE Len(s) = 1
  BY <1>1, <1>2, <1>4 DEF Times, IsAt, Is
<1>5. CASE Len(s) = 2
  <2>1. r[1] = s[2]
    BY <1>2, <1>3, <1>5
  <2>2. Times(r, d) = Times(s, d) - Is(s[1], d)
    BY <1>2, <1>5, <2>1 DEF Times, IsAt, Is
  <2> QED BY <1>1, <1>2, <1>5, <2>2
<1>6. CASE Len(s) = 3
  <2>1. r[1] = s[2] /\ r[2] = s[3]
    BY <1>2, <1>3, <1>6
  <2>2. Times(r, d) = Times(s, d) - Is(s[1], d)
    BY <1>2, <1>6, <2>1 DEF Times, IsAt, Is
  <2> QED BY <1>1, <1>2, <1>6, <2>2
<1> QED BY <1>4, <1>5, <1>6

\* Another one comes first.
LEMMA TimesAdd ==
  ASSUME NEW S, NEW s \in Seq(S), NEW d, NEW x \in S, Len(s) < 3
  PROVE  /\ Times(<<x>> \o s, d) = Times(s, d) + Is(x, d)
         /\ <<x>> \o s \in Seq(S) /\ Len(<<x>> \o s) = Len(s) + 1
BY DEF Times, IsAt, Is

-----------------------------------------------------------------------------
(* The inductive invariant.                                                *)

\* How many references a call owns, and how many numbers it has in hand, at
\* each point of its control.
Fits(control, descs, numbers) ==
  /\ control \in {"user", "copyout", "retract"} => descs = <<>>
  /\ control \in {"replace", "second", "map", "pair", "receive"} => Len(descs) = 1
  /\ control = "publish" => Len(descs) \in 1 .. 2
  /\ control = "first" => Len(descs) = 2
  /\ control = "store" => Len(descs) \in 2 .. 3
  /\ control \in {"send", "unref"} => Len(descs) \in 1 .. 3
  /\ control = "user" => numbers = <<>>
  /\ control \in {"replace", "copyout", "retract"} => Len(numbers) >= 1

FdControl ==
  /\ fd_pc \in [Users -> Descriptors!Controls]
  /\ held \in [Users -> Seq(Descs)] /\ number \in [Users -> Seq(Fds)]
  /\ \A t \in Users : Fits(fd_pc[t], held[t], number[t])

FdTables ==
  /\ desc_tbl \in [Fds -> Descs \cup {Null}]
  /\ mem_map \in [Mappings -> Descs \cup {Null}]
  /\ ref_count \in [Descs -> Nat]

\* The search for a free number starts at a word below which all are open.
HintInv ==
  /\ avail_ix \in 0 .. Descriptors!WordOf(NumFds - 1)
  /\ \A m \in Fds : Descriptors!WordOf(m) < avail_ix => desc_tbl[m] # Null

\* The places that refer to a descriptor.
TableRefs(d) == Cardinality(Descriptors!Numbers(d))
MapRefs(d) == Cardinality(Descriptors!Mapped(d))
CallRefs(d) == Cardinality(Descriptors!HeldAs(d))

CountInv ==
  /\ fatal = FALSE
  /\ \A d \in Descs : ref_count[d] = TableRefs(d) + MapRefs(d) + CallRefs(d)

FdInv == FdControl /\ FdTables /\ HintInv /\ CountInv

-----------------------------------------------------------------------------
(* How the counts follow the tables.                                       *)

\* What one member more or less makes.
LEMMA Exchange ==
  ASSUME NEW S, IsFiniteSet(S), NEW T, NEW x, S \ {x} = T \ {x}
  PROVE  Cardinality(T)
              = Cardinality(S) + (IF x \in T THEN 1 ELSE 0) - (IF x \in S THEN 1 ELSE 0)
<1>1. IsFiniteSet(S \ {x}) /\ Cardinality(S) \in Nat /\ Cardinality(S \ {x}) \in Nat
  BY FS_RemoveElement, FS_CardinalityType
<1>2. IsFiniteSet(T)
  <2>1. CASE x \in T
    <3>1. T = (S \ {x}) \cup {x}
      BY <2>1
    <3> QED BY <1>1, <3>1, FS_AddElement
  <2>2. CASE x \notin T
    <3>1. T = S \ {x}
      BY <2>2
    <3> QED BY <1>1, <3>1
  <2> QED BY <2>1, <2>2
<1>3. Cardinality(T) \in Nat
  BY <1>2, FS_CardinalityType
<1>4. Cardinality(S \ {x}) = Cardinality(S) - (IF x \in S THEN 1 ELSE 0)
  BY <1>1, FS_RemoveElement
<1>5. Cardinality(T \ {x}) = Cardinality(T) - (IF x \in T THEN 1 ELSE 0)
  BY <1>2, <1>3, FS_RemoveElement
<1> QED BY <1>1, <1>3, <1>4, <1>5

\* The places that refer to a descriptor can be counted, before and after a step.
LEMMA RefsFinite ==
  ASSUME NEW d
  PROVE  /\ IsFiniteSet(Descriptors!Numbers(d)) /\ IsFiniteSet(Descriptors!Mapped(d))
         /\ IsFiniteSet(Descriptors!HeldAs(d))
         /\ TableRefs(d) \in Nat /\ MapRefs(d) \in Nat /\ CallRefs(d) \in Nat
         /\ TableRefs(d)' \in Nat /\ MapRefs(d)' \in Nat /\ CallRefs(d)' \in Nat
<1>1. IsFiniteSet(Fds)
  BY FdConstants, FS_Interval DEF Fds, Descriptors!Fds
<1>2. IsFiniteSet(Users \X (1 .. Descriptors!MaxHeld))
  <2>1. \A k \in Nat : IsFiniteSet(1 .. k)
    BY FS_Interval
  <2> QED BY <2>1, FdConstants, FS_Product DEF Descriptors!MaxHeld
<1>3. /\ Descriptors!Numbers(d) \subseteq Fds /\ Descriptors!Mapped(d) \subseteq Mappings
      /\ Descriptors!HeldAs(d) \subseteq Users \X (1 .. Descriptors!MaxHeld)
      /\ Descriptors!Numbers(d)' \subseteq Fds /\ Descriptors!Mapped(d)' \subseteq Mappings
      /\ Descriptors!HeldAs(d)' \subseteq Users \X (1 .. Descriptors!MaxHeld)
  BY DEF Descriptors!Numbers, Descriptors!Mapped, Descriptors!HeldAs, Fds, Users
<1>4. /\ IsFiniteSet(Descriptors!Numbers(d)) /\ IsFiniteSet(Descriptors!Mapped(d))
      /\ IsFiniteSet(Descriptors!HeldAs(d))
      /\ IsFiniteSet(Descriptors!Numbers(d)') /\ IsFiniteSet(Descriptors!Mapped(d)')
      /\ IsFiniteSet(Descriptors!HeldAs(d)')
  BY <1>1, <1>2, <1>3, FdConstants, FS_Subset
<1>5. /\ Cardinality(Descriptors!Numbers(d)) \in Nat
            /\ Cardinality(Descriptors!Mapped(d)) \in Nat
      /\ Cardinality(Descriptors!HeldAs(d)) \in Nat
      /\ Cardinality(Descriptors!Numbers(d)') \in Nat
                  /\ Cardinality(Descriptors!Mapped(d)') \in Nat
      /\ Cardinality(Descriptors!HeldAs(d)') \in Nat
  BY <1>4, FS_CardinalityType
<1> QED BY <1>4, <1>5 DEF TableRefs, MapRefs, CallRefs

\* An entry of the table is replaced.
LEMMA TableRefsSet ==
  ASSUME FdTables, NEW n \in Fds, NEW x, desc_tbl' = [desc_tbl EXCEPT ![n] = x], NEW d
  PROVE  TableRefs(d)' = TableRefs(d) + Is(x, d) - Is(desc_tbl[n], d)
<1>1. Descriptors!Numbers(d) \ {n} = Descriptors!Numbers(d)' \ {n}
  BY DEF FdTables, Descriptors!Numbers, Fds
<1>2. (n \in Descriptors!Numbers(d)' <=> x = d)
            /\ (n \in Descriptors!Numbers(d) <=> desc_tbl[n] = d)
  BY DEF FdTables, Descriptors!Numbers, Fds
<1>3. Cardinality(Descriptors!Numbers(d)') = Cardinality(Descriptors!Numbers(d))
        + (IF n \in Descriptors!Numbers(d)' THEN 1 ELSE 0)
        - (IF n \in Descriptors!Numbers(d) THEN 1 ELSE 0)
  BY <1>1, RefsFinite, Exchange
<1> QED BY <1>2, <1>3, RefsFinite DEF TableRefs, Is

\* An entry of the memory map is replaced.
LEMMA MapRefsSet ==
  ASSUME FdTables, NEW p \in Mappings, NEW x, mem_map' = [mem_map EXCEPT ![p] = x],
         NEW d
  PROVE  MapRefs(d)' = MapRefs(d) + Is(x, d) - Is(mem_map[p], d)
<1>1. Descriptors!Mapped(d) \ {p} = Descriptors!Mapped(d)' \ {p}
  BY DEF FdTables, Descriptors!Mapped
<1>2. (p \in Descriptors!Mapped(d)' <=> x = d)
            /\ (p \in Descriptors!Mapped(d) <=> mem_map[p] = d)
  BY DEF FdTables, Descriptors!Mapped
<1>3. Cardinality(Descriptors!Mapped(d)') = Cardinality(Descriptors!Mapped(d))
        + (IF p \in Descriptors!Mapped(d)' THEN 1 ELSE 0)
        - (IF p \in Descriptors!Mapped(d) THEN 1 ELSE 0)
  BY <1>1, RefsFinite, Exchange
<1> QED BY <1>2, <1>3, RefsFinite DEF MapRefs, Is

\* A set that has one member more on a condition.
LEMMA AddIf ==
  ASSUME NEW S, IsFiniteSet(S), NEW x, x \notin S, NEW b \in BOOLEAN,
         NEW T, T = IF b THEN S \cup {x} ELSE S
  PROVE  IsFiniteSet(T) /\ Cardinality(T) = Cardinality(S) + (IF b THEN 1 ELSE 0)
<1>1. CASE b
  BY <1>1, FS_AddElement
<1>2. CASE ~b
  BY <1>2, FS_CardinalityType
<1> QED BY <1>1, <1>2

\* The places of thread t's references to d, when s are its references.
Owned(t, s, d) == {h \in {t} \X (1 .. 3) : h[2] <= Len(s) /\ s[h[2]] = d}

\* There are as many of them as the descriptor is among the references.
LEMMA OwnedCount ==
  ASSUME NEW t, NEW S, NEW s \in Seq(S), NEW d
  PROVE  /\ IsFiniteSet(Owned(t, s, d)) /\ Cardinality(Owned(t, s, d)) = Times(s, d)
         /\ Times(s, d) \in Nat
<1> DEFINE In(i) == i <= Len(s) /\ s[i] = d
<1>0. PICK M0 : M0 = {}
  OBVIOUS
<1>1. PICK M1 : M1 = IF In(1) THEN M0 \cup {<<t, 1>>} ELSE M0
  OBVIOUS
<1>2. PICK M2 : M2 = IF In(2) THEN M1 \cup {<<t, 2>>} ELSE M1
  OBVIOUS
<1>3. PICK M3 : M3 = IF In(3) THEN M2 \cup {<<t, 3>>} ELSE M2
  OBVIOUS
<1>4. Owned(t, s, d) = M3
  BY <1>0, <1>1, <1>2, <1>3 DEF Owned
<1>5. <<t, 1>> \notin M0 /\ <<t, 2>> \notin M1 /\ <<t, 3>> \notin M2
  BY <1>0, <1>1, <1>2
<1>6. In(1) \in BOOLEAN /\ In(2) \in BOOLEAN /\ In(3) \in BOOLEAN
  OBVIOUS
<1>7. /\ IsAt(s, 1, d) = IF In(1) THEN 1 ELSE 0
      /\ IsAt(s, 2, d) = IF In(2) THEN 1 ELSE 0
      /\ IsAt(s, 3, d) = IF In(3) THEN 1 ELSE 0
  BY DEF IsAt
<1> HIDE DEF In
<1>8. IsFiniteSet(M1) /\ Cardinality(M1) = IF In(1) THEN 1 ELSE 0
  <2>1. IsFiniteSet(M0) /\ Cardinality(M0) = 0
    BY <1>0, FS_EmptySet
  <2>2. IsFiniteSet(M1) /\ Cardinality(M1) = Cardinality(M0) + (IF In(1) THEN 1 ELSE 0)
    BY <1>1, <1>5, <1>6, <2>1, AddIf
  <2> QED BY <2>1, <2>2
<1>9. IsFiniteSet(M2) /\ Cardinality(M2) = Cardinality(M1) + (IF In(2) THEN 1 ELSE 0)
  BY <1>2, <1>5, <1>6, <1>8, AddIf
<1>10. IsFiniteSet(M3) /\ Cardinality(M3) = Cardinality(M2) + (IF In(3) THEN 1 ELSE 0)
  BY <1>3, <1>5, <1>6, <1>9, AddIf
<1> QED BY <1>4, <1>7, <1>8, <1>9, <1>10 DEF Times

\* A thread's references are replaced.
LEMMA CallRefsSet ==
  ASSUME FdControl, NEW t \in Users, NEW s \in Seq(Descs),
         held' = [held EXCEPT ![t] = s], NEW d
  PROVE  CallRefs(d)' = CallRefs(d) + Times(s, d) - Times(held[t], d)
<1>1. PICK R : R = {h \in Descriptors!HeldAs(d) : h[1] # t}
  OBVIOUS
<1>2. Descriptors!HeldAs(d) = R \cup Owned(t, held[t], d) /\ held[t] \in Seq(Descs)
  BY <1>1 DEF FdControl, Descriptors!HeldAs, Descriptors!MaxHeld, Owned, Users
<1>3. Descriptors!HeldAs(d)' = R \cup Owned(t, s, d)
  BY <1>1 DEF FdControl, Descriptors!HeldAs, Descriptors!MaxHeld, Owned, Users
<1>4. IsFiniteSet(R)
  BY <1>1, RefsFinite, FS_Subset
<1>5. ASSUME NEW r \in Seq(Descs)
      PROVE  Cardinality(R \cup Owned(t, r, d)) = Cardinality(R) + Times(r, d)
  <2>1. R \cap Owned(t, r, d) = {}
    BY <1>1 DEF Owned
  <2>2. /\ IsFiniteSet(Owned(t, r, d)) /\ Cardinality(Owned(t, r, d)) = Times(r, d)
        /\ Times(r, d) \in Nat
    BY OwnedCount
  <2>3. Cardinality(R \cup Owned(t, r, d))
          = Cardinality(R) + Cardinality(Owned(t, r, d)) - Cardinality(R \cap Owned(t, r, d))
    BY <1>4, <2>2, FS_Union
  <2>4. Cardinality(R \cap Owned(t, r, d)) = 0 /\ Cardinality(R) \in Nat
    BY <1>4, <2>1, FS_EmptySet, FS_CardinalityType
  <2> QED BY <2>2, <2>3, <2>4
<1>6. Cardinality(R) \in Nat /\ Times(s, d) \in Nat /\ Times(held[t], d) \in Nat
  BY <1>2, <1>4, FS_CardinalityType, OwnedCount
<1>7. /\ Cardinality(R \cup Owned(t, held[t], d)) = Cardinality(R) + Times(held[t], d)
      /\ Cardinality(R \cup Owned(t, s, d)) = Cardinality(R) + Times(s, d)
  BY <1>2, <1>5
<1>8. /\ CallRefs(d) = Cardinality(R) + Times(held[t], d)
      /\ CallRefs(d)' = Cardinality(R) + Times(s, d)
  BY <1>2, <1>3, <1>7 DEF CallRefs
<1> QED BY <1>6, <1>8

\* What refers to a descriptor keeps its count above zero.
LEMMA CountPositive ==
  ASSUME FdControl, FdTables, CountInv, NEW d \in Descs
  PROVE  /\ \A n \in Fds : ref_count[d] >= Is(desc_tbl[n], d)
         /\ \A p \in Mappings : ref_count[d] >= Is(mem_map[p], d)
         /\ \A t \in Users : ref_count[d] >= Times(held[t], d) /\ Times(held[t], d) \in Nat
<1>0. ref_count[d] = TableRefs(d) + MapRefs(d) + CallRefs(d)
  BY DEF CountInv
<1>1. ASSUME NEW n \in Fds, desc_tbl[n] = d
      PROVE  TableRefs(d) >= 1
  <2>1. n \in Descriptors!Numbers(d)
    BY <1>1 DEF Descriptors!Numbers, Fds
  <2>2. TableRefs(d) # 0
    BY <2>1, RefsFinite, FS_EmptySet DEF TableRefs
  <2> QED BY <2>2, RefsFinite
<1>2. ASSUME NEW p \in Mappings, mem_map[p] = d
      PROVE  MapRefs(d) >= 1
  <2>1. p \in Descriptors!Mapped(d)
    BY <1>2 DEF Descriptors!Mapped
  <2>2. MapRefs(d) # 0
    BY <2>1, RefsFinite, FS_EmptySet DEF MapRefs
  <2> QED BY <2>2, RefsFinite
<1>3. ASSUME NEW t \in Users
      PROVE  CallRefs(d) >= Times(held[t], d) /\ Times(held[t], d) \in Nat
  <2>1. held[t] \in Seq(Descs)
    BY DEF FdControl
  <2>2. Owned(t, held[t], d) \subseteq Descriptors!HeldAs(d)
    BY DEF Owned, Descriptors!HeldAs, Descriptors!MaxHeld, Users
  <2>3. Cardinality(Owned(t, held[t], d)) <= Cardinality(Descriptors!HeldAs(d))
    BY <2>2, RefsFinite, FS_Subset
  <2> QED BY <2>1, <2>3, OwnedCount DEF CallRefs
<1> QED BY <1>0, <1>1, <1>2, <1>3, RefsFinite DEF Is

-----------------------------------------------------------------------------
(* What the parts of the calls do to the invariant.                        *)

\* A call moves on with the references s and the numbers ns.
LEMMA GotoKeeps ==
  ASSUME FdControl, NEW t \in Users, NEW c \in Descriptors!Controls,
         NEW s \in Seq(Descs),
         NEW ns \in Seq(Fds), Fits(c, s, ns), Descriptors!Goto(t, c, s, ns)
  PROVE  /\ FdControl'
         /\ \A d : CallRefs(d)' = CallRefs(d) + Times(s, d) - Times(held[t], d)
<1>1. held' = [held EXCEPT ![t] = s]
  BY DEF Descriptors!Goto
<1>2. FdControl'
  BY DEF FdControl, Descriptors!Goto
<1> QED BY <1>1, <1>2, CallRefsSet

Gains(n, i, j, k, m, u, v, w) == m + i + j + k = n + u + v + w

\* What the count of a descriptor gains is what refers to it more than before.
Balanced(d) == Gains(ref_count[d], TableRefs(d), MapRefs(d), CallRefs(d),
                     ref_count'[d], TableRefs(d)', MapRefs(d)', CallRefs(d)')

\* What the count of a descriptor gains, the tables and the calls have gained.
LEMMA Balance ==
  ASSUME FdInv, FdControl', FdTables', HintInv', fatal' = FALSE,
         \A d \in Descs : Balanced(d)
  PROVE  FdInv'
<1> SUFFICES ASSUME NEW d \in Descs
             PROVE  ref_count'[d] = TableRefs(d)' + MapRefs(d)' + CallRefs(d)'
  BY DEF FdInv, CountInv
<1>1. ref_count[d] \in Nat /\ ref_count'[d] \in Nat
  BY DEF FdInv, FdTables
<1>2. ref_count[d] = TableRefs(d) + MapRefs(d) + CallRefs(d)
  BY DEF FdInv, CountInv
<1>3. TableRefs(d) \in Nat /\ MapRefs(d) \in Nat /\ CallRefs(d) \in Nat
  BY RefsFinite
<1>4. TableRefs(d)' \in Nat /\ MapRefs(d)' \in Nat /\ CallRefs(d)' \in Nat
  BY RefsFinite
<1>5. Gains(ref_count[d], TableRefs(d), MapRefs(d), CallRefs(d),
            ref_count'[d], TableRefs(d)', MapRefs(d)', CallRefs(d)')
  BY DEF Balanced
<1> QED BY <1>1, <1>2, <1>3, <1>4, <1>5 DEF Gains

\* The tables that a step leaves alone.
LEMMA Untouched ==
  /\ UNCHANGED desc_tbl => \A d : TableRefs(d)' = TableRefs(d)
  /\ UNCHANGED mem_map => \A d : MapRefs(d)' = MapRefs(d)
  /\ UNCHANGED held => \A d : CallRefs(d)' = CallRefs(d)
  /\ HintInv /\ UNCHANGED <<desc_tbl, avail_ix>> => HintInv'
BY DEF TableRefs, MapRefs, CallRefs, HintInv, Descriptors!Numbers, Descriptors!Mapped,
       Descriptors!HeldAs

\* A call gains and drops references: the count of each follows.
LEMMA OwnKeeps ==
  ASSUME FdInv, NEW t \in Users, NEW c \in Descriptors!Controls, NEW s \in Seq(Descs),
         NEW ns \in Seq(Fds), Fits(c, s, ns), Descriptors!Goto(t, c, s, ns),
         ref_count' \in [Descs -> Nat], fatal' = FALSE,
         \A d \in Descs : ref_count'[d] + Times(held[t], d) = ref_count[d] + Times(s, d),
         UNCHANGED <<desc_tbl, avail_ix, mem_map>>
  PROVE  FdInv'
<1>1. /\ FdControl'
      /\ \A d : CallRefs(d)' = CallRefs(d) + Times(s, d) - Times(held[t], d)
  BY GotoKeeps DEF FdInv
<1>2. FdTables' /\ HintInv' /\ \A d : TableRefs(d)' = TableRefs(d)
            /\ MapRefs(d)' = MapRefs(d)
  BY Untouched DEF FdInv, FdTables
<1>3. ASSUME NEW d \in Descs
      PROVE  Balanced(d)
  <2>1. PICK n \in Nat, m \in Nat : n = ref_count[d] /\ m = ref_count'[d]
    BY DEF FdInv, FdTables
  <2>2. PICK i \in Nat, k \in Nat : i = Times(held[t], d) /\ k = Times(s, d)
    BY CountPositive, OwnedCount DEF FdInv
  <2>3. /\ TableRefs(d) \in Nat /\ MapRefs(d) \in Nat /\ CallRefs(d) \in Nat
              /\ CallRefs(d)' \in Nat
    BY RefsFinite
  <2>4. /\ m + i = n + k /\ CallRefs(d)' = CallRefs(d) + k - i
        /\ TableRefs(d)' = TableRefs(d) /\ MapRefs(d)' = MapRefs(d)
    BY <1>1, <1>2, <2>1, <2>2
  <2>5. m = n + (k - i) /\ CallRefs(d)' = CallRefs(d) + (k - i)
    BY <2>3, <2>4
  <2>6. Gains(n, TableRefs(d), MapRefs(d), CallRefs(d),
              m, TableRefs(d)', MapRefs(d)', CallRefs(d)')
    <3>1. PICK x \in Int : x = k - i
      OBVIOUS
    <3>2. /\ m = n + x /\ CallRefs(d)' = CallRefs(d) + x
          /\ TableRefs(d)' = TableRefs(d) /\ MapRefs(d)' = MapRefs(d)
      BY <2>4, <2>5, <3>1
    <3> QED BY <2>3, <3>2 DEF Gains
  <2> QED BY <2>1, <2>6 DEF Balanced
<1> QED BY <1>1, <1>2, <1>3, Balance

\* A call looks up a descriptor: the first one it owns, ...
LEMMA LookupKeeps ==
  ASSUME FdInv, NEW t \in Users, NEW fd \in Fds, fd_pc[t] = "user",
         NEW c \in {"publish", "replace", "unref", "second", "map", "send", "receive"},
         NEW ns \in Seq(Fds), c = "replace" => Len(ns) >= 1,
         Descriptors!GetDesc(fd), Descriptors!Goto(t, c, <<desc_tbl[fd]>>, ns),
         UNCHANGED <<desc_tbl, avail_ix, mem_map, fatal>>
  PROVE  FdInv'
<1>1. PICK x \in Descs : x = desc_tbl[fd] /\ ref_count' = [ref_count EXCEPT ![x] = @ + 1]
  BY DEF FdInv, FdTables, Descriptors!GetDesc, Descriptors!Ref
<1>2. held[t] = <<>> /\ ref_count \in [Descs -> Nat]
  BY DEF FdInv, FdControl, FdTables, Fits
<1>3. PICK s : s = <<x>>
  OBVIOUS
<1>4. s \in Seq(Descs) /\ Fits(c, s, ns) /\ c \in Descriptors!Controls
  BY <1>3 DEF Fits, Descriptors!Controls
<1>5. \A d \in Descs : ref_count'[d] + Times(held[t], d) = ref_count[d] + Times(s, d)
  <2>1. \A d : Times(s, d) = Is(x, d) /\ Times(held[t], d) = 0
    BY <1>2, <1>3, TimesShort
  <2> QED BY <1>1, <1>2, <2>1 DEF Is
<1>6. Descriptors!Goto(t, c, s, ns)
  BY <1>1, <1>3
<1>7. ref_count' \in [Descs -> Nat] /\ fatal' = FALSE
  BY <1>1, <1>2 DEF FdInv, CountInv
<1> QED BY <1>4, <1>5, <1>6, <1>7, OwnKeeps

\* ... or one more.
LEMMA LookupMore ==
  ASSUME FdInv, NEW t \in Users, NEW fd \in Fds, NEW c \in {"unref", "send"},
         NEW s \in Seq(Descs), Len(s) \in 1 .. 3,
         \A d : Times(s, d) = Times(held[t], d) + Is(desc_tbl[fd], d),
         Descriptors!GetDesc(fd), Descriptors!Goto(t, c, s, <<>>),
         UNCHANGED <<desc_tbl, avail_ix, mem_map, fatal>>
  PROVE  FdInv'
<1>1. PICK x \in Descs : x = desc_tbl[fd] /\ ref_count' = [ref_count EXCEPT ![x] = @ + 1]
  BY DEF FdInv, FdTables, Descriptors!GetDesc, Descriptors!Ref
<1>2. Fits(c, s, <<>>) /\ c \in Descriptors!Controls /\ <<>> \in Seq(Fds)
  BY DEF Fits, Descriptors!Controls
<1>3. ref_count \in [Descs -> Nat] /\ ref_count' \in [Descs -> Nat] /\ fatal' = FALSE
  BY <1>1 DEF FdInv, FdTables, CountInv
<1>4. ASSUME NEW d \in Descs
      PROVE  ref_count'[d] + Times(held[t], d) = ref_count[d] + Times(s, d)
  <2>1. Times(held[t], d) \in Nat /\ Times(s, d) = Times(held[t], d) + Is(x, d)
    BY <1>1, CountPositive DEF FdInv
  <2> QED BY <1>1, <1>3, <2>1 DEF Is
<1> QED BY <1>2, <1>3, <1>4, OwnKeeps

\* A call makes descriptors that nobody refers to.
LEMMA NewIsUnused ==
  ASSUME NEW S, S # {}
  PROVE  Descriptors!New(S) \in S
BY DEF Descriptors!New

\* One of them is the call's, ...
LEMMA NewKeeps ==
  ASSUME FdInv, NEW t \in Users, NEW c \in Descriptors!Controls, NEW s \in Seq(Descs),
         NEW ns \in Seq(Fds), Fits(c, s, ns), Descriptors!Goto(t, c, s, ns),
         NEW x \in Descs, ref_count[x] = 0, ref_count' = [ref_count EXCEPT ![x] = 1],
         \A d \in Descs : Times(s, d) = Times(held[t], d) + Is(x, d),
         UNCHANGED <<desc_tbl, avail_ix, mem_map, fatal>>
  PROVE  FdInv'
<1>1. ref_count \in [Descs -> Nat] /\ ref_count' \in [Descs -> Nat] /\ fatal' = FALSE
  BY DEF FdInv, FdTables, CountInv
<1>2. ASSUME NEW d \in Descs
      PROVE  ref_count'[d] + Times(held[t], d) = ref_count[d] + Times(s, d)
  <2>1. Times(held[t], d) \in Nat
    BY CountPositive DEF FdInv
  <2> QED BY <1>1, <2>1 DEF Is
<1> QED BY <1>1, <1>2, OwnKeeps

\* ... or two are.
LEMMA NewPairKeeps ==
  ASSUME FdInv, NEW t \in Users, NEW c \in Descriptors!Controls, NEW s \in Seq(Descs),
         NEW ns \in Seq(Fds), Fits(c, s, ns), Descriptors!Goto(t, c, s, ns),
         NEW x \in Descs, ref_count[x] = 0, NEW y \in Descs, ref_count[y] = 0, x # y,
         ref_count' = [ref_count EXCEPT ![x] = 1, ![y] = 1],
         \A d \in Descs : Times(s, d) = Times(held[t], d) + Is(x, d) + Is(y, d),
         UNCHANGED <<desc_tbl, avail_ix, mem_map, fatal>>
  PROVE  FdInv'
<1>1. ref_count \in [Descs -> Nat] /\ ref_count' \in [Descs -> Nat] /\ fatal' = FALSE
  BY DEF FdInv, FdTables, CountInv
<1>2. ASSUME NEW d \in Descs
      PROVE  ref_count'[d] + Times(held[t], d) = ref_count[d] + Times(s, d)
  <2>1. Times(held[t], d) \in Nat
    BY CountPositive DEF FdInv
  <2>2. ref_count'[d] = ref_count[d] + Is(x, d) + Is(y, d) /\ ref_count[d] \in Nat
    BY <1>1 DEF Is
  <2>3. Is(x, d) \in Nat /\ Is(y, d) \in Nat
    BY DEF Is
  <2> QED BY <2>1, <2>2, <2>3
<1> QED BY <1>1, <1>2, OwnKeeps

\* A call moves on with what it has.
LEMMA MoveKeeps ==
  ASSUME FdInv, NEW t \in Users, NEW c \in Descriptors!Controls, NEW ns \in Seq(Fds),
         Fits(c, held[t], ns), Descriptors!Goto(t, c, held[t], ns),
         UNCHANGED <<desc_tbl, avail_ix, mem_map, ref_count, fatal>>
  PROVE  FdInv'
<1>1. held[t] \in Seq(Descs)
  BY DEF FdInv, FdControl
<1>2. FdControl'
  BY <1>1, GotoKeeps DEF FdInv
<1>3. UNCHANGED held
  BY DEF FdInv, FdControl, Descriptors!Goto
<1>4. FdTables'
  BY DEF FdInv, FdTables
<1> QED BY <1>2, <1>3, <1>4, Untouched DEF FdInv, CountInv

-----------------------------------------------------------------------------
(* Storing at numbers.                                                     *)

\* The first free number is the least one that is not open.
LEMMA FirstAvailIsLeast ==
  ASSUME FdInv, NEW n \in Fds, Descriptors!WordOf(n) >= avail_ix, ~Descriptors!Open(n)
  PROVE  /\ Descriptors!FirstAvail \in Fds /\ desc_tbl[Descriptors!FirstAvail] = Null
         /\ \A m \in 0 .. Descriptors!FirstAvail - 1 : m \in Fds /\ desc_tbl[m] # Null
         /\ Descriptors!WordOf(Descriptors!FirstAvail)
                     \in 0 .. Descriptors!WordOf(NumFds - 1)
<1>1. PICK S : S = {k \in Fds : Descriptors!WordOf(k) >= avail_ix /\ ~Descriptors!Open(k)}
  OBVIOUS
<1>2. PICK f : f = Descriptors!FirstAvail
  OBVIOUS
<1>3. f = Descriptors!Min(S)
  BY <1>1, <1>2 DEF Descriptors!FirstAvail, Fds
<1>4. S \subseteq Nat /\ S # {}
  BY <1>1 DEF Fds, Descriptors!Fds
<1>5. f \in S /\ \A k \in S : f <= k
  BY <1>3, <1>4, MinIsLeast
<1>6. f \in Fds /\ f \in Nat /\ f <= NumFds - 1 /\ NumFds - 1 \in Nat /\ desc_tbl[f] = Null
  BY <1>1, <1>5, FdConstants DEF Fds, Descriptors!Fds, Descriptors!Open
<1>7. Descriptors!WordOf(f) \in 0 .. Descriptors!WordOf(NumFds - 1)
  BY <1>6, WordOrder
<1>8. ASSUME NEW m \in 0 .. f - 1
      PROVE  m \in Fds /\ desc_tbl[m] # Null
  <2>1. m \in Fds /\ m \in Nat /\ m \notin S
    BY <1>5, <1>6, FdConstants DEF Fds, Descriptors!Fds
  <2>2. Descriptors!WordOf(m) \in Nat /\ avail_ix \in Nat
    BY <2>1, WordOrder, FdConstants DEF FdInv, HintInv
  <2>3. Descriptors!WordOf(m) < avail_ix \/ Descriptors!Open(m)
    BY <1>1, <2>1, <2>2
  <2> QED BY <2>1, <2>3 DEF FdInv, HintInv, Descriptors!Open
<1> QED BY <1>2, <1>6, <1>7, <1>8

\* NaClAppSetDescAvail: the reference that the call gives up is the table's.
LEMMA SetDescAvailKeeps ==
  ASSUME FdInv, NEW t \in Users, NEW x \in Descs, Descriptors!SetDescAvail(x),
         NEW c \in Descriptors!Controls, NEW s \in Seq(Descs), NEW ns \in Seq(Fds),
         Fits(c, s, ns), Descriptors!Goto(t, c, s, ns),
         \A d : Times(s, d) = Times(held[t], d) - Is(x, d), UNCHANGED mem_map
  PROVE  FdInv'
<1>1. PICK f : f = Descriptors!FirstAvail
  OBVIOUS
<1>2. /\ f \in Fds /\ desc_tbl[f] = Null /\ \A m \in 0 .. f - 1 : m \in Fds
            /\ desc_tbl[m] # Null
      /\ Descriptors!WordOf(f) \in 0 .. Descriptors!WordOf(NumFds - 1)
  BY <1>1, FirstAvailIsLeast DEF Descriptors!SetDescAvail, Fds
<1>3. /\ desc_tbl' = [desc_tbl EXCEPT ![f] = x] /\ avail_ix' = Descriptors!WordOf(f)
      /\ UNCHANGED <<ref_count, fatal>>
  BY <1>1 DEF Descriptors!SetDescAvail
<1>4. FdTables'
  BY <1>2, <1>3 DEF FdInv, FdTables
<1>5. HintInv'
  <2>1. ASSUME NEW m \in Fds, Descriptors!WordOf(m) < Descriptors!WordOf(f)
        PROVE  desc_tbl'[m] # Null
    <3>1. m \in Nat /\ f \in Nat
      BY <1>2, FdConstants DEF Fds, Descriptors!Fds
    <3>2. m < f
      BY <2>1, <3>1, WordOrder
    <3> QED BY <1>2, <1>3, <3>1, <3>2, FdConstants DEF FdInv, FdTables
  <2> QED BY <1>2, <1>3, <2>1 DEF HintInv
<1>6. /\ FdControl'
      /\ \A d : CallRefs(d)' = CallRefs(d) + Times(s, d) - Times(held[t], d)
  BY GotoKeeps DEF FdInv
<1>7. \A d \in Descs : TableRefs(d)' = TableRefs(d) + Is(x, d)
  <2>1. \A d : TableRefs(d)' = TableRefs(d) + Is(x, d) - Is(desc_tbl[f], d)
    BY <1>2, <1>3, TableRefsSet DEF FdInv
  <2>2. \A d \in Descs : Is(desc_tbl[f], d) = 0
    BY <1>2, FdConstants DEF Is
  <2> QED BY <2>1, <2>2, RefsFinite DEF Is
<1>8. \A d \in Descs : CallRefs(d)' = CallRefs(d) - Is(x, d)
  <2>1. \A d \in Descs : Times(held[t], d) \in Nat /\ CallRefs(d) \in Nat
              /\ Is(x, d) \in {0, 1}
    BY CountPositive, RefsFinite DEF FdInv, Is
  <2>2. \A i, j \in Nat, k \in {0, 1} : i + (j - k) - j = i - k
    OBVIOUS
  <2>3. \A d \in Descs : CallRefs(d)'
              = CallRefs(d) + (Times(held[t], d) - Is(x, d)) - Times(held[t], d)
    BY <1>6
  <2> QED BY <2>1, <2>2, <2>3
<1>9. \A d \in Descs : ref_count'[d] = ref_count[d] /\ ref_count[d] \in Nat
  BY <1>3 DEF FdInv, FdTables
<1>10. fatal' = FALSE /\ \A d : MapRefs(d)' = MapRefs(d)
  BY <1>3, Untouched DEF FdInv, CountInv
<1>11. ASSUME NEW d \in Descs
      PROVE  Balanced(d)
  <2>1. PICK n \in Nat, m \in Nat : n = ref_count[d] /\ m = ref_count'[d]
    BY <1>4 DEF FdInv, FdTables
  <2>2. /\ TableRefs(d) \in Nat /\ MapRefs(d) \in Nat /\ CallRefs(d) \in Nat
        /\ CallRefs(d)' \in Nat /\ Is(x, d) \in {0, 1}
    BY RefsFinite DEF Is
  <2>3. /\ m = n /\ TableRefs(d)' = TableRefs(d) + Is(x, d)
        /\ MapRefs(d)' = MapRefs(d) /\ CallRefs(d)' = CallRefs(d) - Is(x, d)
    BY <1>7, <1>8, <1>9, <1>10, <2>1
  <2>4. Gains(n, TableRefs(d), MapRefs(d), CallRefs(d),
              m, TableRefs(d)', MapRefs(d)', CallRefs(d)')
    <3>1. CASE Is(x, d) = 0
      BY <2>2, <2>3, <3>1 DEF Gains
    <3>2. CASE Is(x, d) = 1
      BY <2>2, <2>3, <3>2 DEF Gains
    <3> QED BY <2>2, <3>1, <3>2
  <2> QED BY <2>1, <2>4 DEF Balanced
<1> QED BY <1>4, <1>5, <1>6, <1>10, <1>11, Balance

\* DynArraySet() keeps the hint below every free number.
LEMMA DynArraySetKeeps ==
  ASSUME FdInv, NEW n \in Fds, NEW x \in Descs \cup {Null}, Descriptors!DynArraySet(n,
         x)
  PROVE  HintInv' /\ desc_tbl' = [desc_tbl EXCEPT ![n] = x]
<1>1. n \in Nat /\ n <= NumFds - 1 /\ NumFds - 1 \in Nat
  BY FdConstants DEF Fds, Descriptors!Fds
<1>2. Descriptors!WordOf(n) \in 0 .. Descriptors!WordOf(NumFds - 1)
  BY <1>1, WordOrder
<1>3. \A m \in Fds : Descriptors!WordOf(m) \in Nat
  BY WordOrder, FdConstants DEF Fds, Descriptors!Fds
<1>4. /\ avail_ix' = IF x = Null /\ Descriptors!WordOf(n) < avail_ix
                     THEN Descriptors!WordOf(n) ELSE avail_ix
      /\ desc_tbl' = [desc_tbl EXCEPT ![n] = x]
  BY DEF Descriptors!DynArraySet
<1>5. avail_ix \in 0 .. Descriptors!WordOf(NumFds - 1)
  BY DEF FdInv, HintInv
<1>6. avail_ix' \in 0 .. Descriptors!WordOf(NumFds - 1) /\ avail_ix' <= avail_ix
  BY <1>2, <1>4, <1>5
<1>7. ASSUME NEW m \in Fds, Descriptors!WordOf(m) < avail_ix'
      PROVE  desc_tbl'[m] # Null
  <2>1. desc_tbl[m] # Null
    BY <1>3, <1>5, <1>6, <1>7 DEF FdInv, HintInv
  <2>2. m = n => x # Null
    BY <1>2, <1>3, <1>4, <1>5, <1>7
  <2> QED BY <1>4, <2>1, <2>2 DEF FdInv, FdTables
<1> QED BY <1>4, <1>6, <1>7 DEF HintInv

\* NaClAppSetDesc: the reference that the call gives up is the table's, which
\* gives up the one it had.
LEMMA SetDescKeeps ==
  ASSUME FdInv, NEW t \in Users, NEW n \in Fds, NEW x \in Descs \cup {Null},
         Descriptors!SetDesc(n, x),
         NEW c \in Descriptors!Controls, NEW s \in Seq(Descs), NEW ns \in Seq(Fds),
         Fits(c, s, ns), Descriptors!Goto(t, c, s, ns),
         \A d \in Descs : Times(s, d) = Times(held[t], d) - Is(x, d), UNCHANGED mem_map
  PROVE  FdInv'
<1>1. HintInv' /\ desc_tbl' = [desc_tbl EXCEPT ![n] = x]
  BY DynArraySetKeeps DEF Descriptors!SetDesc
<1>2. PICK e \in Descs \cup {Null} : e = desc_tbl[n]
  BY DEF FdInv, FdTables
<1>3. e # Null => ref_count[e] >= 1
  BY <1>2, CountPositive, FdConstants DEF FdInv, Is
<1>4. /\ ref_count' = IF e = Null THEN ref_count ELSE [ref_count EXCEPT ![e] = @ - 1]
      /\ fatal' = FALSE
  <2>1. fatal = FALSE /\ ref_count' = Descriptors!Unref(ref_count, e)
        /\ fatal' = (fatal \/ Descriptors!Fatal(ref_count, e))
    BY <1>2 DEF Descriptors!SetDesc, FdInv, CountInv
  <2>2. CASE e = Null
    BY <2>1, <2>2 DEF Descriptors!Unref, Descriptors!Fatal
  <2>3. CASE e # Null
    <3>1. ref_count[e] # 0
      BY <1>2, <1>3, <2>3 DEF FdInv, FdTables
    <3> QED BY <2>1, <2>3, <3>1 DEF Descriptors!Unref, Descriptors!Fatal
  <2> QED BY <2>2, <2>3
<1>5. FdTables'
  BY <1>1, <1>2, <1>3, <1>4 DEF FdInv, FdTables
<1>6. /\ FdControl'
      /\ \A d : CallRefs(d)' = CallRefs(d) + Times(s, d) - Times(held[t], d)
  BY GotoKeeps DEF FdInv
<1>7. \A d \in Descs : TableRefs(d)' = TableRefs(d) + Is(x, d) - Is(e, d)
  BY <1>1, <1>2, TableRefsSet DEF FdInv
<1>8. \A d \in Descs : CallRefs(d)' = CallRefs(d) - Is(x, d)
  <2>1. \A d \in Descs : Times(held[t], d) \in Nat /\ CallRefs(d) \in Nat
              /\ Is(x, d) \in {0, 1}
    BY CountPositive, RefsFinite DEF FdInv, Is
  <2>2. \A i, j \in Nat, k \in {0, 1} : i + (j - k) - j = i - k
    OBVIOUS
  <2>3. \A d \in Descs : CallRefs(d)'
              = CallRefs(d) + (Times(held[t], d) - Is(x, d)) - Times(held[t], d)
    BY <1>6
  <2> QED BY <2>1, <2>2, <2>3
<1>9. \A d \in Descs : ref_count'[d] = ref_count[d] - Is(e, d) /\ ref_count[d] \in Nat
  BY <1>2, <1>4, FdConstants DEF FdInv, FdTables, Is
<1>10. \A d \in Descs : MapRefs(d)' = MapRefs(d)
  BY Untouched
<1>11. ASSUME NEW d \in Descs
      PROVE  Balanced(d)
  <2>1. PICK r \in Nat, m \in Nat : r = ref_count[d] /\ m = ref_count'[d]
    BY <1>5 DEF FdInv, FdTables
  <2>2. /\ TableRefs(d) \in Nat /\ MapRefs(d) \in Nat /\ CallRefs(d) \in Nat
        /\ CallRefs(d)' \in Nat /\ Is(x, d) \in {0, 1} /\ Is(e, d) \in {0, 1}
    BY RefsFinite DEF Is
  <2>3. /\ m = r - Is(e, d) /\ TableRefs(d)' = TableRefs(d) + Is(x, d) - Is(e, d)
        /\ MapRefs(d)' = MapRefs(d) /\ CallRefs(d)' = CallRefs(d) - Is(x, d)
    BY <1>7, <1>8, <1>9, <1>10, <2>1
  <2>4. Gains(r, TableRefs(d), MapRefs(d), CallRefs(d),
              m, TableRefs(d)', MapRefs(d)', CallRefs(d)')
    <3>1. CASE Is(x, d) = 0 /\ Is(e, d) = 0
      BY <2>2, <2>3, <3>1 DEF Gains
    <3>2. CASE Is(x, d) = 0 /\ Is(e, d) = 1
      BY <2>2, <2>3, <3>2 DEF Gains
    <3>3. CASE Is(x, d) = 1 /\ Is(e, d) = 0
      BY <2>2, <2>3, <3>3 DEF Gains
    <3>4. CASE Is(x, d) = 1 /\ Is(e, d) = 1
      BY <2>2, <2>3, <3>4 DEF Gains
    <3> QED BY <2>2, <3>1, <3>2, <3>3, <3>4
  <2> QED BY <2>1, <2>4 DEF Balanced
<1> QED BY <1>1, <1>4, <1>5, <1>6, <1>11, Balance

-----------------------------------------------------------------------------
(* The actions.                                                            *)

\* NaClDescUnref() of the first descriptor that the call owns.
LEMMA UnrefHeldKeeps ==
  ASSUME FdInv, NEW t \in Users, Descriptors!UnrefHeld(t)
  PROVE  FdInv'
<1>1. held[t] \in Seq(Descs) /\ Len(held[t]) \in 1 .. 3 /\ ref_count \in [Descs -> Nat]
  BY DEF FdInv, FdControl, FdTables, Fits, Descriptors!UnrefHeld
<1>2. PICK x, r : x = Head(held[t]) /\ r = Tail(held[t])
  OBVIOUS
<1>3. /\ x \in Descs /\ r \in Seq(Descs) /\ Len(r) = Len(held[t]) - 1
      /\ \A d : Times(r, d) = Times(held[t], d) - Is(x, d)
      /\ Len(held[t]) = 1 => \A d : Times(held[t], d) = Is(x, d)
  BY <1>1, <1>2, TimesTail
<1>4. ref_count[x] >= 1
  <2>1. Times(r, x) \in Nat /\ Times(held[t], x) \in Nat /\ Is(x, x) = 1
    BY <1>1, <1>3, OwnedCount DEF Is
  <2>2. Times(held[t], x) >= 1 /\ ref_count[x] >= Times(held[t], x)
    BY <1>3, <2>1, CountPositive DEF FdInv
  <2> QED BY <1>1, <1>3, <2>1, <2>2
<1>5. ref_count' = [ref_count EXCEPT ![x] = @ - 1] /\ fatal' = FALSE
  <2>1. /\ ref_count' = Descriptors!Unref(ref_count, x)
        /\ fatal' = (fatal \/ Descriptors!Fatal(ref_count, x)) /\ fatal = FALSE
    BY <1>2 DEF Descriptors!UnrefHeld, FdInv, CountInv
  <2>2. ref_count[x] # 0 /\ x # Null
    BY <1>1, <1>3, <1>4, FdConstants
  <2> QED BY <2>1, <2>2 DEF Descriptors!Unref, Descriptors!Fatal
<1>6. ref_count' \in [Descs -> Nat]
  BY <1>1, <1>3, <1>4, <1>5
<1>7. \A d \in Descs : ref_count'[d] = ref_count[d] - Is(x, d)
  BY <1>1, <1>5 DEF Is
<1>8. UNCHANGED <<desc_tbl, avail_ix, mem_map>>
  BY DEF Descriptors!UnrefHeld
<1>9. CASE Len(held[t]) = 1
  <2>1. PICK s : s = <<>>
    OBVIOUS
  <2>2. Descriptors!Goto(t, "user", s, <<>>)
    BY <1>9, <2>1 DEF Descriptors!UnrefHeld, Descriptors!Return
  <2>3. /\ "user" \in Descriptors!Controls /\ s \in Seq(Descs) /\ <<>> \in Seq(Fds)
        /\ Fits("user", s, <<>>)
    BY <2>1 DEF Fits, Descriptors!Controls
  <2>4. ASSUME NEW d \in Descs
        PROVE  ref_count'[d] + Times(held[t], d) = ref_count[d] + Times(s, d)
    <3>1. Times(s, d) = 0 /\ Times(held[t], d) = Is(x, d)
      BY <1>3, <1>9, <2>1, TimesShort
    <3> QED BY <1>1, <1>7, <3>1 DEF Is
  <2> QED BY <1>5, <1>6, <1>8, <2>2, <2>3, <2>4, OwnKeeps
<1>10. CASE Len(held[t]) # 1
  <2>1. Descriptors!Goto(t, "unref", r, <<>>)
    BY <1>2, <1>10 DEF Descriptors!UnrefHeld
  <2>2. "unref" \in Descriptors!Controls /\ <<>> \in Seq(Fds) /\ Fits("unref", r, <<>>)
    <3>1. Len(r) \in 1 .. 3
      BY <1>1, <1>3, <1>10
    <3> QED BY <3>1 DEF Fits, Descriptors!Controls
  <2>3. ASSUME NEW d \in Descs
        PROVE  ref_count'[d] + Times(held[t], d) = ref_count[d] + Times(r, d)
    <3>1. Times(held[t], d) \in Nat /\ Times(r, d) = Times(held[t], d) - Is(x, d)
      BY <1>1, <1>3, OwnedCount
    <3>2. ref_count'[d] = ref_count[d] - Is(x, d) /\ ref_count[d] \in Nat
                /\ Is(x, d) \in {0, 1}
      BY <1>1, <1>7 DEF Is
    <3> QED BY <3>1, <3>2
  <2> QED BY <1>3, <1>5, <1>6, <1>8, <2>1, <2>2, <2>3, OwnKeeps
<1> QED BY <1>9, <1>10

\* An entry of the memory map has a reference of its own, and the entry it
\* replaces gives up its one.
LEMMA MapKeeps ==
  ASSUME FdInv, FdControl', UNCHANGED <<held, desc_tbl, avail_ix>>,
         NEW p \in Mappings, NEW x \in Descs \cup {Null}, mem_map'
                     = [mem_map EXCEPT ![p] = x],
         NEW count \in [Descs -> Nat], \A d \in Descs : count[d] = ref_count[d] + Is(x, d),
         ref_count' = Descriptors!Unref(count, mem_map[p]),
         fatal' = (fatal \/ Descriptors!Fatal(count, mem_map[p]))
  PROVE  FdInv'
<1>1. ref_count \in [Descs -> Nat] /\ fatal = FALSE
  BY DEF FdInv, FdTables, CountInv
<1>2. PICK e \in Descs \cup {Null} : e = mem_map[p]
  BY DEF FdInv, FdTables
<1>3. e # Null => count[e] >= 1
  <2>1. e # Null => ref_count[e] >= Is(e, e)
    BY <1>2, CountPositive DEF FdInv
  <2>2. e # Null => Is(x, e) \in Nat /\ ref_count[e] \in Nat /\ Is(e, e) = 1
    BY <1>1, <1>2 DEF Is
  <2> QED BY <1>2, <2>1, <2>2
<1>4. /\ ref_count' = IF e = Null THEN count ELSE [count EXCEPT ![e] = @ - 1]
      /\ fatal' = FALSE
  <2>1. e # Null => count[e] # 0
    BY <1>2, <1>3
  <2> QED BY <1>1, <1>2, <2>1 DEF Descriptors!Unref, Descriptors!Fatal
<1>5. FdTables' /\ HintInv'
  <2>1. ref_count' \in [Descs -> Nat]
    BY <1>2, <1>3, <1>4
  <2> QED BY <2>1, Untouched DEF FdInv, FdTables
<1>6. \A d : /\ TableRefs(d)' = TableRefs(d) /\ CallRefs(d)' = CallRefs(d)
             /\ MapRefs(d)' = MapRefs(d) + Is(x, d) - Is(e, d)
  BY <1>2, Untouched, MapRefsSet DEF FdInv
<1>7. \A d \in Descs : ref_count'[d] = ref_count[d] + Is(x, d) - Is(e, d)
  <2>1. \A d \in Descs : ref_count'[d] = count[d] - Is(e, d)
    BY <1>2, <1>4, FdConstants DEF Is
  <2>2. \A d \in Descs : count[d] = ref_count[d] + Is(x, d)
    OBVIOUS
  <2>3. \A d \in Descs : ref_count[d] \in Nat /\ Is(x, d) \in Nat /\ Is(e, d) \in Nat
    BY <1>1 DEF Is
  <2> QED BY <2>1, <2>2, <2>3
<1>8. ASSUME NEW d \in Descs
      PROVE  Balanced(d)
  <2>1. PICK n \in Nat, m \in Nat : n = ref_count[d] /\ m = ref_count'[d]
    BY <1>1, <1>5 DEF FdTables
  <2>2. /\ TableRefs(d) \in Nat /\ MapRefs(d) \in Nat /\ CallRefs(d) \in Nat
        /\ MapRefs(d)' \in Nat
    BY RefsFinite
  <2>3. PICK k \in Int : k = Is(x, d) - Is(e, d)
    BY DEF Is
  <2>4. Is(x, d) \in {0, 1} /\ Is(e, d) \in {0, 1}
    BY DEF Is
  <2>5. m = n + k /\ MapRefs(d)' = MapRefs(d) + k
    <3>1. m = n + Is(x, d) - Is(e, d) /\ MapRefs(d)' = MapRefs(d) + Is(x, d) - Is(e, d)
      BY <1>6, <1>7, <2>1
    <3> QED BY <2>2, <2>3, <2>4, <3>1
  <2>6. TableRefs(d)' = TableRefs(d) /\ CallRefs(d)' = CallRefs(d)
    BY <1>6
  <2>7. Gains(n, TableRefs(d), MapRefs(d), CallRefs(d),
              m, TableRefs(d)', MapRefs(d)', CallRefs(d)')
    BY <2>2, <2>5, <2>6 DEF Gains
  <2> QED BY <2>1, <2>7 DEF Balanced
<1> QED BY <1>4, <1>5, <1>8, Balance

\* NaClSysMmap() adds an entry, ...
LEMMA MapEntryKeeps ==
  ASSUME FdInv, NEW t \in Users, NEW p \in Mappings, Descriptors!MapEntry(t, p)
  PROVE  FdInv'
<1>1. held[t] \in Seq(Descs) /\ Len(held[t]) = 1 /\ ref_count \in [Descs -> Nat]
  BY DEF FdInv, FdControl, FdTables, Fits, Descriptors!MapEntry
<1>2. PICK x : x = Head(held[t])
  OBVIOUS
<1>3. x \in Descs
  BY <1>1, <1>2
<1>4. "unref" \in Descriptors!Controls /\ <<>> \in Seq(Fds) /\ Fits("unref", held[t], <<>>)
  BY <1>1 DEF Fits, Descriptors!Controls
<1>5. Descriptors!Goto(t, "unref", held[t], <<>>) /\ UNCHANGED <<desc_tbl, avail_ix>>
  BY DEF Descriptors!MapEntry
<1>6. CASE UNCHANGED <<mem_map, ref_count, fatal>>
  BY <1>4, <1>5, <1>6, MoveKeeps
<1>7. CASE ~UNCHANGED <<mem_map, ref_count, fatal>>
  <2>1. FdControl'
    BY <1>1, <1>4, <1>5, GotoKeeps DEF FdInv
  <2>2. UNCHANGED held
    BY <1>5 DEF FdInv, FdControl, Descriptors!Goto
  <2>3. PICK count : count = [ref_count EXCEPT ![x] = @ + 1]
    OBVIOUS
  <2>4. count \in [Descs -> Nat] /\ \A d \in Descs : count[d] = ref_count[d] + Is(x, d)
    BY <1>1, <1>3, <2>3 DEF Is
  <2>5. /\ mem_map' = [mem_map EXCEPT ![p] = x]
        /\ ref_count' = Descriptors!Unref(count, mem_map[p])
        /\ fatal' = (fatal \/ Descriptors!Fatal(count, mem_map[p]))
    BY <1>2, <1>7, <2>3 DEF Descriptors!MapEntry, Descriptors!Ref
  <2> QED BY <1>3, <1>5, <2>1, <2>2, <2>4, <2>5, MapKeeps
<1> QED BY <1>6, <1>7

\* ... and NaClSysMunmap() removes one.
LEMMA MunmapKeeps ==
  ASSUME FdInv, NEW t \in Users, NEW p \in Mappings, Descriptors!Munmap(t, p)
  PROVE  FdInv'
<1>1. ref_count \in [Descs -> Nat]
            /\ \A d \in Descs : ref_count[d] = ref_count[d] + Is(Null, d)
  BY FdConstants DEF FdInv, FdTables, Is
<1>2. FdControl' /\ UNCHANGED <<held, desc_tbl, avail_ix>>
  BY DEF FdInv, FdControl, Descriptors!Munmap
<1>3. /\ mem_map' = [mem_map EXCEPT ![p] = Null]
      /\ ref_count' = Descriptors!Unref(ref_count, mem_map[p])
      /\ fatal' = (fatal \/ Descriptors!Fatal(ref_count, mem_map[p]))
  BY DEF Descriptors!Munmap
<1> QED BY <1>1, <1>2, <1>3, MapKeeps

\* NaClSysOpen() and the like make a descriptor, ...
LEMMA MakeKeeps ==
  ASSUME FdInv, NEW t \in Users, Descriptors!Make(t)
  PROVE  FdInv'
<1>1. PICK x : x = Descriptors!New(Descriptors!Unused)
  OBVIOUS
<1>2. x \in Descs /\ ref_count[x] = 0
  BY <1>1, NewIsUnused DEF Descriptors!Make, Descriptors!Unused
<1>3. held[t] = <<>>
  BY DEF FdInv, FdControl, Fits, Descriptors!Make, Descriptors!Calling
<1>4. PICK s : s = <<x>>
  OBVIOUS
<1>5. /\ s \in Seq(Descs) /\ <<>> \in Seq(Fds) /\ "publish" \in Descriptors!Controls
      /\ Fits("publish", s, <<>>)
  BY <1>2, <1>4 DEF Fits, Descriptors!Controls
<1>6. \A d \in Descs : Times(s, d) = Times(held[t], d) + Is(x, d)
  <2>1. \A d : Times(s, d) = Is(x, d) /\ Times(held[t], d) = 0
    BY <1>3, <1>4, TimesShort
  <2> QED BY <2>1 DEF Is
<1>7. Descriptors!Goto(t, "publish", s, <<>>) /\ ref_count' = [ref_count EXCEPT ![x] = 1]
  BY <1>1, <1>4 DEF Descriptors!Make
<1>8. UNCHANGED <<desc_tbl, avail_ix, mem_map, fatal>>
  BY DEF Descriptors!Make
<1> QED BY <1>2, <1>5, <1>6, <1>7, <1>8, NewKeeps

\* ... accept() makes one while it uses another, ...
LEMMA AcceptKeeps ==
  ASSUME FdInv, NEW t \in Users, NEW fd \in Fds, Descriptors!Accept(t, fd)
  PROVE  FdInv'
<1>1. fd_pc[t] = "user" /\ UNCHANGED <<desc_tbl, avail_ix, mem_map, fatal>>
  BY DEF Descriptors!Accept, Descriptors!Calling
<1>2. CASE Descriptors!GetDesc(fd) /\ Descriptors!Goto(t, "unref", <<desc_tbl[fd]>>, <<>>)
  <2>1. <<>> \in Seq(Fds) /\ "unref" # "replace"
    OBVIOUS
  <2> QED BY <1>1, <1>2, <2>1, LookupKeeps
<1>3. CASE /\ Descriptors!Unused # {}
           /\ ref_count' = [Descriptors!Ref(ref_count, desc_tbl[fd])
                             EXCEPT ![Descriptors!New(Descriptors!Unused)] = 1]
           /\ Descriptors!Goto(t, "publish",
                <<Descriptors!New(Descriptors!Unused), desc_tbl[fd]>>, <<>>)
  <2>1. PICK x : x = Descriptors!New(Descriptors!Unused)
    OBVIOUS
  <2>2. x \in Descs /\ ref_count[x] = 0
    BY <1>3, <2>1, NewIsUnused DEF Descriptors!Unused
  <2>3. PICK y \in Descs : y = desc_tbl[fd]
    BY DEF FdInv, FdTables, Descriptors!Accept, Descriptors!Open
  <2>4. ref_count[y] >= 1 /\ ref_count \in [Descs -> Nat]
    BY <2>3, CountPositive DEF FdInv, FdTables, Is
  <2>5. ref_count' = [[ref_count EXCEPT ![y] = @ + 1] EXCEPT ![x] = 1]
    BY <1>3, <2>1, <2>3 DEF Descriptors!Ref
  <2>6. x # y
    BY <2>2, <2>4
  <2>7. PICK s : s = <<x, y>>
    OBVIOUS
  <2>8. /\ s \in Seq(Descs) /\ <<>> \in Seq(Fds) /\ "publish" \in Descriptors!Controls
        /\ Fits("publish", s, <<>>) /\ Descriptors!Goto(t, "publish", s, <<>>)
    BY <1>3, <2>1, <2>2, <2>3, <2>7 DEF Fits, Descriptors!Controls
  <2>9. ref_count' \in [Descs -> Nat] /\ fatal' = FALSE
    BY <1>1, <2>2, <2>4, <2>5 DEF FdInv, CountInv
  <2>10. \A d \in Descs : ref_count'[d] + Times(held[t], d) = ref_count[d] + Times(s, d)
    <3>1. held[t] = <<>>
      BY <1>1 DEF FdInv, FdControl, Fits
    <3>2. \A d : Times(s, d) = Is(x, d) + Is(y, d) /\ Times(held[t], d) = 0
      BY <2>7, <3>1, TimesShort
    <3>3. \A d \in Descs : ref_count'[d] = ref_count[d] + Is(x, d) + Is(y, d)
      BY <2>2, <2>4, <2>5, <2>6 DEF Is
    <3>4. \A d \in Descs : ref_count[d] \in Nat /\ Is(x, d) \in Nat /\ Is(y, d) \in Nat
      BY <2>4 DEF Is
    <3> QED BY <3>2, <3>3, <3>4
  <2> QED BY <1>1, <2>8, <2>9, <2>10, OwnKeeps
<1> QED BY <1>2, <1>3 DEF Descriptors!Accept

\* ... and pairs come in two.
LEMMA TwoUnused ==
  ASSUME NEW x, x = Descriptors!New(Descriptors!Unused), Descriptors!Unused # {},
         NEW y, y = Descriptors!New(Descriptors!Unused \ {x}), Descriptors!Unused \ {x} # {}
  PROVE  x \in Descs /\ ref_count[x] = 0 /\ y \in Descs /\ ref_count[y] = 0 /\ x # y
<1>1. x \in Descriptors!Unused /\ y \in Descriptors!Unused \ {x}
  BY NewIsUnused
<1> QED BY <1>1 DEF Descriptors!Unused

\* NaClSysImcMakeBoundSock() and NaClSysImcSocketPair() make the two ends.
LEMMA MakePairKeeps ==
  ASSUME FdInv, NEW t \in Users, Descriptors!MakePair(t)
  PROVE  FdInv'
<1>1. PICK x : x = Descriptors!New(Descriptors!Unused)
  OBVIOUS
<1>2. PICK y : y = Descriptors!New(Descriptors!Unused \ {x})
  OBVIOUS
<1>3. x \in Descs /\ ref_count[x] = 0 /\ y \in Descs /\ ref_count[y] = 0 /\ x # y
  BY <1>1, <1>2, TwoUnused DEF Descriptors!MakePair
<1>4. held[t] = <<>>
  BY DEF FdInv, FdControl, Fits, Descriptors!MakePair, Descriptors!Calling
<1>5. PICK s : s = <<x, y>>
  OBVIOUS
<1>6. /\ s \in Seq(Descs) /\ <<>> \in Seq(Fds) /\ "first" \in Descriptors!Controls
      /\ Fits("first", s, <<>>)
  BY <1>3, <1>5 DEF Fits, Descriptors!Controls
<1>7. \A d \in Descs : Times(s, d) = Times(held[t], d) + Is(x, d) + Is(y, d)
  <2>1. \A d : Times(s, d) = Is(x, d) + Is(y, d) /\ Times(held[t], d) = 0
    BY <1>4, <1>5, TimesShort
  <2> QED BY <2>1 DEF Is
<1>8. /\ Descriptors!Goto(t, "first", s, <<>>)
      /\ ref_count' = [ref_count EXCEPT ![x] = 1, ![y] = 1]
  BY <1>1, <1>2, <1>5 DEF Descriptors!MakePair
<1>9. UNCHANGED <<desc_tbl, avail_ix, mem_map, fatal>>
  BY DEF Descriptors!MakePair
<1> QED BY <1>3, <1>6, <1>7, <1>8, <1>9, NewPairKeeps

\* A message comes with none, one or two.
LEMMA ReceiveMessageKeeps ==
  ASSUME FdInv, NEW t \in Users, Descriptors!ReceiveMessage(t)
  PROVE  FdInv'
<1>1. /\ held[t] \in Seq(Descs) /\ Len(held[t]) = 1 /\ <<>> \in Seq(Fds)
      /\ UNCHANGED <<desc_tbl, avail_ix, mem_map, fatal>>
  BY DEF FdInv, FdControl, Fits, Descriptors!ReceiveMessage
<1>2. PICK x : x = Descriptors!New(Descriptors!Unused)
  OBVIOUS
<1>3. PICK y : y = Descriptors!New(Descriptors!Unused \ {x})
  OBVIOUS
<1>4. CASE Descriptors!Goto(t, "unref", held[t], <<>>) /\ UNCHANGED ref_count
  <2>1. "unref" \in Descriptors!Controls /\ Fits("unref", held[t], <<>>)
    BY <1>1 DEF Fits, Descriptors!Controls
  <2> QED BY <1>1, <1>4, <2>1, MoveKeeps
<1>5. CASE /\ Descriptors!Unused # {} /\ ref_count' = [ref_count EXCEPT ![x] = 1]
           /\ Descriptors!Goto(t, "store", <<x>> \o held[t], <<>>)
  <2>1. x \in Descs /\ ref_count[x] = 0
    BY <1>2, <1>5, NewIsUnused DEF Descriptors!Unused
  <2>2. PICK s : s = <<x>> \o held[t]
    OBVIOUS
  <2>3. s \in Seq(Descs) /\ Len(s) = 2 /\ \A d : Times(s, d) = Times(held[t], d) + Is(x, d)
    BY <1>1, <2>1, <2>2, TimesAdd
  <2>4. "store" \in Descriptors!Controls /\ Fits("store", s, <<>>)
    BY <2>3 DEF Fits, Descriptors!Controls
  <2> QED BY <1>1, <1>5, <2>1, <2>2, <2>3, <2>4, NewKeeps
<1>6. CASE /\ Descriptors!Unused # {} /\ Descriptors!Unused \ {x} # {}
           /\ ref_count' = [ref_count EXCEPT ![x] = 1, ![y] = 1]
           /\ Descriptors!Goto(t, "store", <<x>> \o (<<y>> \o held[t]), <<>>)
  <2>1. x \in Descs /\ ref_count[x] = 0 /\ y \in Descs /\ ref_count[y] = 0 /\ x # y
    BY <1>2, <1>3, <1>6, TwoUnused
  <2>2. PICK r : r = <<y>> \o held[t]
    OBVIOUS
  <2>9. PICK s : s = <<x>> \o r
    OBVIOUS
  <2>3. /\ s \in Seq(Descs) /\ Len(s) = 3
        /\ \A d : Times(s, d) = Times(r, d) + Is(x, d)
                    /\ Times(r, d) = Times(held[t], d) + Is(y, d)
    <3>1. r \in Seq(Descs) /\ Len(r) < 3 /\ Len(r) + 1 = 3
                /\ \A d : Times(r, d) = Times(held[t], d) + Is(y, d)
      BY <1>1, <2>1, <2>2, TimesAdd
    <3>2. s \in Seq(Descs) /\ Len(s) = Len(r) + 1
                /\ \A d : Times(s, d) = Times(r, d) + Is(x, d)
      BY <2>1, <2>9, <3>1, TimesAdd
    <3> QED BY <3>1, <3>2
  <2>4. "store" \in Descriptors!Controls /\ Fits("store", s, <<>>)
    BY <2>3 DEF Fits, Descriptors!Controls
  <2>5. /\ ref_count' = [ref_count EXCEPT ![x] = 1, ![y] = 1]
        /\ Descriptors!Goto(t, "store", s, <<>>)
    BY <1>6, <2>2, <2>9
  <2>6. ASSUME NEW d \in Descs
        PROVE  Times(s, d) = Times(held[t], d) + Is(x, d) + Is(y, d)
    <3>1. Times(held[t], d) \in Nat /\ Is(x, d) \in Nat /\ Is(y, d) \in Nat
      BY <1>1, OwnedCount DEF Is
    <3> QED BY <2>3, <3>1
  <2> QED BY <1>1, <2>1, <2>3, <2>4, <2>5, <2>6, NewPairKeeps
<1> QED BY <1>2, <1>3, <1>4, <1>5, <1>6 DEF Descriptors!ReceiveMessage

\* The first reference of a call goes into the table.
LEMMA StoreHeadKeeps ==
  ASSUME FdInv, NEW t \in Users, Len(held[t]) \in 1 .. 3,
         Descriptors!SetDescAvail(Head(held[t])),
         NEW c \in Descriptors!Controls, NEW ns \in Seq(Fds), Fits(c, Tail(held[t]), ns),
         Descriptors!Goto(t, c, Tail(held[t]), ns), UNCHANGED mem_map
  PROVE  FdInv'
<1>1. held[t] \in Seq(Descs)
  BY DEF FdInv, FdControl
<1>2. PICK x, r : x = Head(held[t]) /\ r = Tail(held[t])
  OBVIOUS
<1>3. x \in Descs /\ r \in Seq(Descs) /\ \A d : Times(r, d) = Times(held[t], d) - Is(x, d)
  BY <1>1, <1>2, TimesTail
<1>4. Descriptors!SetDescAvail(x) /\ Fits(c, r, ns) /\ Descriptors!Goto(t, c, r, ns)
  BY <1>2
<1> QED BY <1>3, <1>4, SetDescAvailKeeps

\* The last one does.
LEMMA NoneLeft ==
  ASSUME NEW s \in Seq(Descs), Len(s) = 1
  PROVE  Tail(s) = <<>>
<1>1. PICK r : r = Tail(s)
  OBVIOUS
<1>2. r \in Seq(Descs) /\ Len(r) = Len(s) - 1
  BY <1>1
<1>3. Len(r) = 0
  BY <1>2
<1> QED BY <1>1, <1>2, <1>3, EmptySeq, Zenon

\* open(), dup() and accept() store their descriptor, ...
LEMMA PublishKeeps ==
  ASSUME FdInv, NEW t \in Users, Descriptors!Publish(t)
  PROVE  FdInv'
<1>1. /\ held[t] \in Seq(Descs) /\ Len(held[t]) \in 1 .. 2 /\ UNCHANGED mem_map
      /\ Descriptors!SetDescAvail(Head(held[t]))
  BY DEF FdInv, FdControl, Fits, Descriptors!Publish
<1>2. <<>> \in Seq(Fds) /\ Len(held[t]) \in 1 .. 3
  BY <1>1
<1>3. CASE Len(held[t]) = 1
  <2>1. Descriptors!Goto(t, "user", Tail(held[t]), <<>>)
    BY <1>1, <1>3, NoneLeft DEF Descriptors!Publish, Descriptors!Return
  <2>2. "user" \in Descriptors!Controls /\ Fits("user", Tail(held[t]), <<>>)
    BY <1>1, <1>3, NoneLeft DEF Fits, Descriptors!Controls
  <2> QED BY <1>1, <1>2, <2>1, <2>2, StoreHeadKeeps
<1>4. CASE Len(held[t]) # 1
  <2>1. Descriptors!Goto(t, "unref", Tail(held[t]), <<>>)
    BY <1>4 DEF Descriptors!Publish
  <2>2. PICK r : r = Tail(held[t])
    OBVIOUS
  <2>3. Len(r) = Len(held[t]) - 1
    BY <1>1, <2>2
  <2>4. "unref" \in Descriptors!Controls /\ Fits("unref", Tail(held[t]), <<>>)
    BY <1>1, <1>4, <2>2, <2>3 DEF Fits, Descriptors!Controls
  <2> QED BY <1>1, <1>2, <2>1, <2>4, StoreHeadKeeps
<1> QED BY <1>3, <1>4

\* ... a pair stores both of its own, one after the other, ...
LEMMA PublishPairKeeps ==
  ASSUME FdInv, NEW t \in Users,
         Descriptors!PublishFirst(t) \/ Descriptors!PublishSecond(t)
  PROVE  FdInv'
<1>1. held[t] \in Seq(Descs) /\ number[t] \in Seq(Fds) /\ Fits(fd_pc[t], held[t], number[t])
  BY DEF FdInv, FdControl
<1>2. Descriptors!FirstAvail \in Fds
  BY FirstAvailIsLeast DEF Descriptors!PublishFirst, Descriptors!PublishSecond,
                           Descriptors!SetDescAvail, Fds
<1>3. CASE Descriptors!PublishFirst(t)
  <2>1. Len(held[t]) = 2 /\ UNCHANGED mem_map /\ Descriptors!SetDescAvail(Head(held[t]))
    BY <1>1, <1>3 DEF Fits, Descriptors!PublishFirst
  <2>2. PICK r, ns : r = Tail(held[t]) /\ ns = <<Descriptors!FirstAvail>>
    OBVIOUS
  <2>3. Len(r) = 1 /\ Len(held[t]) \in 1 .. 3 /\ ns \in Seq(Fds)
    BY <1>1, <1>2, <2>1, <2>2
  <2>4. "pair" \in Descriptors!Controls /\ Fits("pair", r, ns)
    BY <2>3 DEF Fits, Descriptors!Controls
  <2>5. Descriptors!Goto(t, "pair", r, ns)
    BY <1>3, <2>2 DEF Descriptors!PublishFirst
  <2> QED BY <2>1, <2>2, <2>3, <2>4, <2>5, StoreHeadKeeps
<1>4. CASE Descriptors!PublishSecond(t)
  <2>1. Len(held[t]) = 1 /\ UNCHANGED mem_map /\ Descriptors!SetDescAvail(Head(held[t]))
    BY <1>1, <1>4 DEF Fits, Descriptors!PublishSecond
  <2>2. PICK r, ns : r = Tail(held[t]) /\ ns = Append(number[t], Descriptors!FirstAvail)
    OBVIOUS
  <2>3. r = <<>> /\ Len(held[t]) \in 1 .. 3
    BY <1>1, <2>1, <2>2, NoneLeft
  <2>4. ns \in Seq(Fds) /\ Len(ns) >= 1
    BY <1>1, <1>2, <2>2
  <2>5. "copyout" \in Descriptors!Controls /\ Fits("copyout", r, ns)
    BY <2>3, <2>4 DEF Fits, Descriptors!Controls
  <2>6. Descriptors!Goto(t, "copyout", r, ns)
    BY <1>4, <2>2, <2>3 DEF Descriptors!PublishSecond
  <2> QED BY <2>1, <2>2, <2>3, <2>4, <2>5, <2>6, StoreHeadKeeps
<1> QED BY <1>3, <1>4

\* ... and recvmsg() those of the message.
LEMMA StoreReceivedKeeps ==
  ASSUME FdInv, NEW t \in Users, Descriptors!StoreReceived(t)
  PROVE  FdInv'
<1>1. /\ held[t] \in Seq(Descs) /\ Len(held[t]) \in 2 .. 3 /\ UNCHANGED mem_map
      /\ Descriptors!SetDescAvail(Head(held[t]))
  BY DEF FdInv, FdControl, Fits, Descriptors!StoreReceived
<1>2. PICK c : c = IF Len(held[t]) = 2 THEN "unref" ELSE "store"
  OBVIOUS
<1>3. PICK r : r = Tail(held[t])
  OBVIOUS
<1>4. Len(r) = Len(held[t]) - 1 /\ Len(held[t]) \in 1 .. 3 /\ <<>> \in Seq(Fds)
  BY <1>1, <1>3
<1>5. c \in Descriptors!Controls /\ Fits(c, r, <<>>)
  BY <1>1, <1>2, <1>4 DEF Fits, Descriptors!Controls
<1>6. Descriptors!Goto(t, c, r, <<>>)
  BY <1>2, <1>3 DEF Descriptors!StoreReceived
<1> QED BY <1>1, <1>3, <1>4, <1>5, <1>6, StoreHeadKeeps

\* dup2() stores its descriptor at a number, and a pair that could not be
\* copied out stores nothing at its numbers.
LEMMA ReplaceKeeps ==
  ASSUME FdInv, NEW t \in Users, Descriptors!Replace(t)
  PROVE  FdInv'
<1>1. /\ held[t] \in Seq(Descs) /\ Len(held[t]) = 1 /\ number[t] \in Seq(Fds)
      /\ Len(number[t]) >= 1
  BY DEF FdInv, FdControl, Fits, Descriptors!Replace
<1>2. PICK x, n : x = Head(held[t]) /\ n = Head(number[t])
  OBVIOUS
<1>3. x \in Descs /\ n \in Fds
  BY <1>1, <1>2
<1>4. PICK s : s = <<>>
  OBVIOUS
<1>5. /\ "user" \in Descriptors!Controls /\ s \in Seq(Descs) /\ <<>> \in Seq(Fds)
      /\ Fits("user", s, <<>>)
  BY <1>4 DEF Fits, Descriptors!Controls
<1>6. \A d \in Descs : Times(s, d) = Times(held[t], d) - Is(x, d)
  <2>1. Len(held[t]) \in 1 .. 3
    BY <1>1
  <2>2. \A d : Times(held[t], d) = Is(x, d) /\ Times(s, d) = 0
    BY <1>1, <1>2, <1>4, <2>1, TimesTail, TimesShort
  <2> QED BY <2>2 DEF Is
<1>7. /\ Descriptors!SetDesc(n, x) /\ Descriptors!Goto(t, "user", s, <<>>)
      /\ UNCHANGED mem_map
  BY <1>2, <1>4 DEF Descriptors!Replace, Descriptors!Return
<1> QED BY <1>3, <1>5, <1>6, <1>7, SetDescKeeps

\* A descriptor that has taken the number meanwhile loses its reference.
LEMMA RetractKeeps ==
  ASSUME FdInv, NEW t \in Users, Descriptors!Retract(t)
  PROVE  FdInv'
<1>1. held[t] = <<>> /\ number[t] \in Seq(Fds) /\ Len(number[t]) >= 1
  BY DEF FdInv, FdControl, Fits, Descriptors!Retract
<1>2. PICK n, r : n = Head(number[t]) /\ r = Tail(number[t])
  OBVIOUS
<1>3. n \in Fds /\ r \in Seq(Fds) /\ Len(r) = Len(number[t]) - 1
  BY <1>1, <1>2
<1>4. PICK s : s = <<>>
  OBVIOUS
<1>5. s \in Seq(Descs) /\ \A d \in Descs : Times(s, d) = Times(held[t], d) - Is(Null, d)
  <2>1. \A d \in Descs : Times(s, d) = 0 /\ Times(held[t], d) = 0 /\ Is(Null, d) = 0
    BY <1>1, <1>4, TimesShort, FdConstants DEF Is
  <2> QED BY <1>4, <2>1
<1>6. Descriptors!SetDesc(n, Null) /\ UNCHANGED mem_map
  BY <1>2 DEF Descriptors!Retract
<1>7. PICK k \in Nat : k = Len(number[t])
  BY <1>1
<1>8. k >= 1
  BY <1>1, <1>7
<1>9. CASE k = 1
  <2>1. "user" \in Descriptors!Controls /\ <<>> \in Seq(Fds) /\ Fits("user", s, <<>>)
    BY <1>4 DEF Fits, Descriptors!Controls
  <2>2. Descriptors!Goto(t, "user", s, <<>>)
    BY <1>4, <1>9, <1>7 DEF Descriptors!Retract, Descriptors!Return
  <2> QED BY <1>3, <1>5, <1>6, <2>1, <2>2, SetDescKeeps
<1>10. CASE k # 1
  <2>1. "retract" \in Descriptors!Controls /\ Fits("retract", s, r)
    <3>1. Len(r) >= 1
      <4>1. Len(r) = k - 1
        BY <1>3, <1>7
      <4>2. k - 1 >= 1
        BY <1>8, <1>10
      <4> QED BY <4>1, <4>2
    <3> QED BY <1>4, <3>1 DEF Fits, Descriptors!Controls
  <2>2. Descriptors!Goto(t, "retract", s, r)
    BY <1>2, <1>4, <1>10, <1>7 DEF Descriptors!Retract
  <2> QED BY <1>3, <1>5, <1>6, <2>1, <2>2, SetDescKeeps
<1> QED BY <1>9, <1>10

\* The reference that close() finds is the one the table loses.
LEMMA CloseKeeps ==
  ASSUME FdInv, NEW t \in Users, NEW fd \in Fds, Descriptors!Close(t, fd)
  PROVE  FdInv'
<1>1. HintInv' /\ desc_tbl' = [desc_tbl EXCEPT ![fd] = Null]
  BY DynArraySetKeeps DEF Descriptors!Close
<1>2. PICK x \in Descs : x = desc_tbl[fd]
  BY DEF FdInv, FdTables, Descriptors!Close, Descriptors!Open
<1>3. PICK s : s = <<x>>
  OBVIOUS
<1>4. /\ s \in Seq(Descs) /\ <<>> \in Seq(Fds) /\ "unref" \in Descriptors!Controls
      /\ Fits("unref", s, <<>>)
  BY <1>3 DEF Fits, Descriptors!Controls
<1>5. Descriptors!Goto(t, "unref", s, <<>>) /\ UNCHANGED <<mem_map, ref_count, fatal>>
  BY <1>2, <1>3 DEF Descriptors!Close
<1>6. /\ FdControl'
      /\ \A d : CallRefs(d)' = CallRefs(d) + Times(s, d) - Times(held[t], d)
  BY <1>4, <1>5, GotoKeeps DEF FdInv
<1>7. FdTables' /\ fatal' = FALSE /\ \A d : MapRefs(d)' = MapRefs(d)
  BY <1>1, <1>5, Untouched DEF FdInv, FdTables, CountInv
<1>8. ASSUME NEW d \in Descs
      PROVE  Balanced(d)
  <2>1. PICK n \in Nat : n = ref_count[d] /\ n = ref_count'[d]
    BY <1>5 DEF FdInv, FdTables
  <2>2. /\ TableRefs(d) \in Nat /\ MapRefs(d) \in Nat /\ CallRefs(d) \in Nat
        /\ TableRefs(d)' \in Nat
    BY RefsFinite
  <2>3. PICK k \in {0, 1} : k = Is(x, d)
    BY DEF Is
  <2>4. CallRefs(d)' = CallRefs(d) + k
    <3>1. held[t] = <<>>
      BY DEF FdInv, FdControl, Fits, Descriptors!Close, Descriptors!Calling
    <3>2. Times(s, d) = k /\ Times(held[t], d) = 0
      BY <1>3, <2>3, <3>1, TimesShort
    <3>3. CallRefs(d)' = CallRefs(d) + Times(s, d) - Times(held[t], d)
      BY <1>6
    <3> QED BY <2>2, <2>3, <3>2, <3>3
  <2>5. TableRefs(d)' = TableRefs(d) - k
    <3>1. TableRefs(d)' = TableRefs(d) + Is(Null, d) - Is(desc_tbl[fd], d)
      BY <1>1, TableRefsSet DEF FdInv
    <3>2. Is(Null, d) = 0 /\ Is(desc_tbl[fd], d) = k
      BY <1>2, <2>3, FdConstants DEF Is
    <3> QED BY <2>2, <3>1, <3>2
  <2>6. MapRefs(d)' = MapRefs(d)
    BY <1>7
  <2>7. Gains(n, TableRefs(d), MapRefs(d), CallRefs(d),
              n, TableRefs(d)', MapRefs(d)', CallRefs(d)')
    BY <2>2, <2>4, <2>5, <2>6 DEF Gains
  <2> QED BY <2>1, <2>7 DEF Balanced
<1> QED BY <1>1, <1>6, <1>7, <1>8, Balance

\* What a call has found stays with it.
LEMMA CopyOutKeeps ==
  ASSUME FdInv, NEW t \in Users, Descriptors!CopyOut(t)
  PROVE  FdInv'
<1>1. /\ held[t] = <<>> /\ number[t] \in Seq(Fds) /\ <<>> \in Seq(Fds)
            /\ Len(number[t]) >= 1
      /\ UNCHANGED <<desc_tbl, avail_ix, mem_map, ref_count, fatal>>
  BY DEF FdInv, FdControl, Fits, Descriptors!CopyOut
<1>2. PICK s : s = held[t]
  OBVIOUS
<1>3. CASE Descriptors!Return(t)
  <2>1. "user" \in Descriptors!Controls /\ Fits("user", held[t], <<>>)
    BY <1>1 DEF Fits, Descriptors!Controls
  <2>2. Descriptors!Goto(t, "user", held[t], <<>>)
    BY <1>1, <1>3 DEF Descriptors!Return
  <2> QED BY <1>1, <2>1, <2>2, MoveKeeps
<1>4. CASE Descriptors!Goto(t, "retract", <<>>, number[t])
  <2>1. "retract" \in Descriptors!Controls /\ Fits("retract", held[t], number[t])
    BY <1>1 DEF Fits, Descriptors!Controls
  <2>2. Descriptors!Goto(t, "retract", held[t], number[t])
    BY <1>1, <1>4
  <2> QED BY <1>1, <2>1, <2>2, MoveKeeps
<1> QED BY <1>3, <1>4 DEF Descriptors!CopyOut

\* The message is gone and the descriptors are still to be dropped.
LEMMA SendMessageKeeps ==
  ASSUME FdInv, NEW t \in Users, Descriptors!SendMessage(t)
  PROVE  FdInv'
<1>1. /\ Len(held[t]) \in 1 .. 3 /\ <<>> \in Seq(Fds)
            /\ Descriptors!Goto(t, "unref", held[t], <<>>)
      /\ UNCHANGED <<desc_tbl, avail_ix, mem_map, ref_count, fatal>>
  BY DEF FdInv, FdControl, Fits, Descriptors!SendMessage
<1>2. "unref" \in Descriptors!Controls /\ Fits("unref", held[t], <<>>)
  BY <1>1 DEF Fits, Descriptors!Controls
<1> QED BY <1>1, <1>2, MoveKeeps

\* The condition variable is found, and the mutex or nothing.
LEMMA CondWaitSecondKeeps ==
  ASSUME FdInv, NEW t \in Users, NEW fd \in Fds, Descriptors!CondWaitSecond(t, fd)
  PROVE  FdInv'
<1>1. /\ held[t] \in Seq(Descs) /\ Len(held[t]) = 1 /\ <<>> \in Seq(Fds)
      /\ UNCHANGED <<desc_tbl, avail_ix, mem_map, fatal>>
  BY DEF FdInv, FdControl, Fits, Descriptors!CondWaitSecond
<1>2. held[t] \in Seq(Descs) /\ Len(held[t]) < 3 /\ Len(held[t]) + 1 \in 1 .. 3
  BY <1>1
<1>3. CASE Descriptors!GetDesc(fd)
            /\ Descriptors!Goto(t, "unref", Append(held[t], desc_tbl[fd]), <<>>)
  <2>1. PICK x \in Descs : x = desc_tbl[fd]
    BY <1>3 DEF FdInv, FdTables, Descriptors!GetDesc
  <2>2. PICK s : s = Append(held[t], x)
    OBVIOUS
  <2>3. /\ s \in Seq(Descs) /\ Len(s) = Len(held[t]) + 1
        /\ \A d : Times(s, d) = Times(held[t], d) + Is(x, d)
    <3>1. PICK h \in Seq(Descs) : h = held[t] /\ Len(h) < 3
      BY <1>2
    <3>2. s = Append(h, x)
      BY <2>2, <3>1
    <3>3. s \in Seq(Descs) /\ Len(s) = Len(h) + 1
      BY <2>1, <3>2
    <3>4. ASSUME NEW d
          PROVE  Times(s, d) = Times(h, d) + Is(x, d)
      <4>1. h \in Seq(Descs) /\ Len(h) < 3
        BY <3>1
      <4> QED BY <2>1, <3>2, <4>1 DEF Times, IsAt, Is
    <3> QED BY <3>1, <3>3, <3>4
  <2>4. Len(s) \in 1 .. 3
    BY <1>2, <2>3
  <2>5. Descriptors!Goto(t, "unref", s, <<>>)
    BY <1>3, <2>1, <2>2
  <2>6. \A d : Times(s, d) = Times(held[t], d) + Is(desc_tbl[fd], d)
    BY <2>1, <2>3
  <2> QED BY <1>1, <1>3, <2>3, <2>4, <2>5, <2>6, LookupMore
<1>4. CASE Descriptors!Goto(t, "unref", held[t], <<>>) /\ UNCHANGED ref_count
  <2>1. "unref" \in Descriptors!Controls /\ Fits("unref", held[t], <<>>)
    BY <1>1 DEF Fits, Descriptors!Controls
  <2> QED BY <1>1, <1>4, <2>1, MoveKeeps
<1> QED BY <1>3, <1>4 DEF Descriptors!CondWaitSecond

\* One more descriptor of the message is found, or none.
LEMMA SendDescKeeps ==
  ASSUME FdInv, NEW t \in Users, NEW fd \in Fds, Descriptors!SendDesc(t, fd)
  PROVE  FdInv'
<1>1. /\ held[t] \in Seq(Descs) /\ Len(held[t]) \in 1 .. 3 /\ Len(held[t]) < 3
            /\ <<>> \in Seq(Fds)
      /\ UNCHANGED <<desc_tbl, avail_ix, mem_map, fatal>>
  BY DEF FdInv, FdControl, Fits, Descriptors!SendDesc, Descriptors!MaxHeld
<1>2. CASE Descriptors!GetDesc(fd)
            /\ Descriptors!Goto(t, "send", <<desc_tbl[fd]>> \o held[t], <<>>)
  <2>1. PICK x \in Descs : x = desc_tbl[fd]
    BY <1>2 DEF FdInv, FdTables, Descriptors!GetDesc
  <2>2. PICK s : s = <<x>> \o held[t]
    OBVIOUS
  <2>3. /\ s \in Seq(Descs) /\ Len(s) = Len(held[t]) + 1
        /\ \A d : Times(s, d) = Times(held[t], d) + Is(x, d)
    BY <1>1, <2>1, <2>2, TimesAdd
  <2>4. Len(s) \in 1 .. 3
    BY <1>1, <2>3
  <2>5. Descriptors!Goto(t, "send", s, <<>>)
    BY <1>2, <2>1, <2>2
  <2>6. \A d : Times(s, d) = Times(held[t], d) + Is(desc_tbl[fd], d)
    BY <2>1, <2>3
  <2> QED BY <1>1, <1>2, <2>3, <2>4, <2>5, <2>6, LookupMore
<1>3. CASE Descriptors!Goto(t, "unref", held[t], <<>>) /\ UNCHANGED ref_count
  <2>1. "unref" \in Descriptors!Controls /\ Fits("unref", held[t], <<>>)
    BY <1>1 DEF Fits, Descriptors!Controls
  <2> QED BY <1>1, <1>3, <2>1, MoveKeeps
<1> QED BY <1>2, <1>3 DEF Descriptors!SendDesc

\* The calls that begin with a number.
LEMMA FirstLookupKeeps ==
  ASSUME FdInv, NEW t \in Users, NEW fd \in Fds,
         \/ Descriptors!Dup(t, fd) \/ Descriptors!Use(t, fd) \/ Descriptors!Mmap(t, fd)
         \/ Descriptors!CondWaitFirst(t, fd) \/ Descriptors!Sendmsg(t, fd)
         \/ Descriptors!Recvmsg(t, fd) \/ \E newfd \in Fds : Descriptors!Dup2(t, fd, newfd)
  PROVE  FdInv'
<1>1. PICK c \in {"publish", "replace", "unref", "second", "map", "send", "receive"},
           ns \in Seq(Fds) :
        (c = "replace" => Len(ns) >= 1) /\ Descriptors!Goto(t, c, <<desc_tbl[fd]>>, ns)
  <2>1. \A n \in Fds : <<n>> \in Seq(Fds) /\ Len(<<n>>) >= 1
    OBVIOUS
  <2>2. <<>> \in Seq(Fds)
    OBVIOUS
  <2> QED BY <2>1, <2>2 DEF Descriptors!Dup, Descriptors!Use, Descriptors!Mmap,
          Descriptors!CondWaitFirst, Descriptors!Sendmsg, Descriptors!Recvmsg, Descriptors!Dup2
<1>2. /\ fd_pc[t] = "user" /\ Descriptors!GetDesc(fd)
      /\ UNCHANGED <<desc_tbl, avail_ix, mem_map, fatal>>
  BY DEF Descriptors!Dup, Descriptors!Use, Descriptors!Mmap, Descriptors!CondWaitFirst,
         Descriptors!Sendmsg, Descriptors!Recvmsg, Descriptors!Dup2, Descriptors!Calling
<1> QED BY <1>1, <1>2, LookupKeeps

-----------------------------------------------------------------------------
(* The invariant.                                                          *)

\* Every call keeps the invariant, ...
LEMMA FdNext ==
  ASSUME FdInv, Descriptors!Next
  PROVE  FdInv'
<1>1. PICK t \in Users : Descriptors!OfThread(t)
            \/ \E fd \in Fds : Descriptors!OnNumber(t, fd)
  BY DEF Descriptors!Next, Users, Fds
<1>2. CASE Descriptors!OfThread(t)
  BY <1>2, MakeKeeps, PublishKeeps, ReplaceKeeps, UnrefHeldKeeps, MakePairKeeps,
     PublishPairKeeps,
     CopyOutKeeps, RetractKeeps, SendMessageKeeps, ReceiveMessageKeeps, StoreReceivedKeeps,
     MapEntryKeeps, MunmapKeeps
     DEF Descriptors!OfThread
<1>3. ASSUME NEW fd \in Fds, Descriptors!OnNumber(t, fd)
      PROVE  FdInv'
  BY <1>3, CloseKeeps, AcceptKeeps, CondWaitSecondKeeps, SendDescKeeps, FirstLookupKeeps
     DEF Descriptors!OnNumber, Fds
<1> QED BY <1>1, <1>2, <1>3

\* ... so does a step of the other parts, ...
LEMMA FdUnchanged ==
  ASSUME FdInv, UNCHANGED fdVars
  PROVE  FdInv'
<1>1. UNCHANGED <<desc_tbl, avail_ix, mem_map, ref_count, fatal, fd_pc, held, number>>
  BY DEF fdVars
<1>2. FdControl' /\ FdTables' /\ HintInv'
  BY <1>1, Untouched DEF FdInv, FdControl, FdTables
<1> QED BY <1>1, <1>2, Untouched DEF FdInv, CountInv

\* ... and it holds when the program starts.
LEMMA FdInitial ==
  ASSUME Descriptors!Init
  PROVE  FdInv
<1>1. FdControl
  BY DEF Descriptors!Init, FdControl, Fits, Users, Descriptors!Controls
<1>2. FdTables
  BY DEF Descriptors!Init, FdTables, Fds
<1>3. HintInv
  <2>1. Descriptors!WordOf(NumFds - 1) \in Nat
    BY FdConstants, WordOrder
  <2>2. \A m \in Fds : Descriptors!WordOf(m) \in Nat
    BY FdConstants, WordOrder DEF Fds, Descriptors!Fds
  <2> QED BY <2>1, <2>2 DEF Descriptors!Init, HintInv
<1>4. ASSUME NEW d \in Descs
      PROVE  ref_count[d] = TableRefs(d) + MapRefs(d) + CallRefs(d)
  <2>1. Descriptors!Numbers(d) = {} /\ Descriptors!Mapped(d) = {}
              /\ Descriptors!HeldAs(d) = {}
    BY FdConstants DEF Descriptors!Init, Descriptors!Numbers, Descriptors!Mapped,
                       Descriptors!HeldAs, Descriptors!MaxHeld
  <2>2. TableRefs(d) = 0 /\ MapRefs(d) = 0 /\ CallRefs(d) = 0
    BY <2>1, FS_EmptySet DEF TableRefs, MapRefs, CallRefs
  <2> QED BY <2>2 DEF Descriptors!Init
<1> QED BY <1>1, <1>2, <1>3, <1>4 DEF FdInv, CountInv, Descriptors!Init

\* The counts of descriptors and the start of the search stay right, in every
\* interleaving of the system calls of any number of threads.
THEOREM DescriptorInvariance == ServicesSpec => []FdInv
<1>1. ServicesInit => FdInv
  BY FdInitial DEF ServicesInit
<1>2. FdInv /\ [ServicesNext]_servicesVars => FdInv'
  BY FdNext, FdUnchanged DEF ServicesNext, servicesVars
<1> QED BY <1>1, <1>2, PTL DEF ServicesSpec

\* The count of every descriptor is the number of table entries, mappings and
\* calls that refer to it, and no unreference finds a count of zero: what
\* NaClAppGetDesc(), NaClAppSetDesc() and NaClDescUnref() owe each other.
THEOREM CountsOfDescriptors == ServicesSpec => []RefsExact
<1>1. \A S : Descriptors!Cardinality(S) = Cardinality(S)
  BY DEF Descriptors!Cardinality, Cardinality
<1>2. FdInv => RefsExact
  BY <1>1 DEF FdInv, CountInv, RefsExact, Descriptors!RefsExact, Descriptors!References,
              TableRefs, MapRefs, CallRefs
<1> QED BY <1>2, DescriptorInvariance, PTL

\* The table, the counts and the calls have their types, and no call owns more
\* descriptors than NaClSysImcSendmsg() and NaClSysImcRecvmsg() can.
THEOREM DescriptorTyping == ServicesSpec => []Descriptors!TypeOK
<1>1. FdInv => Descriptors!TypeOK
  <2> SUFFICES ASSUME FdInv
               PROVE  Descriptors!TypeOK
    OBVIOUS
  <2>1. ASSUME NEW t \in Users
        PROVE  /\ held[t] \in Seq(Descs) /\ number[t] \in Seq(Descriptors!Fds)
               /\ Len(held[t]) <= Descriptors!MaxHeld
               /\ fd_pc[t] = "user" => held[t] = <<>> /\ number[t] = <<>>
    <3>1. held[t] \in Seq(Descs) /\ number[t] \in Seq(Fds)
                /\ fd_pc[t] \in Descriptors!Controls
      BY DEF FdInv, FdControl
    <3>2. held[t] = <<>> \/ Len(held[t]) \in 1 .. 3
      BY <3>1 DEF FdInv, FdControl, Fits, Descriptors!Controls
    <3>3. Len(held[t]) <= 3
      <4>1. CASE held[t] = <<>>
        BY <4>1
      <4>2. CASE Len(held[t]) \in 1 .. 3
        <5>1. \A k \in 1 .. 3 : k <= 3
          OBVIOUS
        <5> QED BY <4>2, <5>1, Zenon
      <4> QED BY <3>2, <4>1, <4>2
    <3> QED BY <3>1, <3>3 DEF FdInv, FdControl, Fits, Fds, Descriptors!MaxHeld
  <2> QED BY <2>1 DEF FdInv, FdControl, FdTables, HintInv, CountInv,
     Descriptors!TypeOK, Users, Fds
<1> QED BY <1>1, DescriptorInvariance, PTL

\* The ways in which a step changes the table.
LEMMA TableSteps ==
  ASSUME FdInv, NEW t \in Users,
         Descriptors!OfThread(t) \/ \E fd \in Fds : Descriptors!OnNumber(t, fd)
  PROVE  \/ UNCHANGED desc_tbl \/ \E x : Descriptors!SetDescAvail(x)
         \/ \E n \in Fds : desc_tbl' = [desc_tbl EXCEPT ![n] = Null]
         \/ Descriptors!Replace(t)
<1>1. CASE \E fd \in Fds : Descriptors!OnNumber(t, fd)
  BY <1>1 DEF Descriptors!OnNumber, Descriptors!Dup, Descriptors!Close, Descriptors!Use,
       Descriptors!Mmap, Descriptors!Accept, Descriptors!CondWaitFirst, Descriptors!CondWaitSecond,
       Descriptors!Sendmsg, Descriptors!SendDesc, Descriptors!Recvmsg, Descriptors!Dup2,
       Descriptors!DynArraySet
<1>2. CASE Descriptors!Retract(t)
  <2>1. Head(number[t]) \in Fds
    BY <1>2 DEF FdInv, FdControl, Fits, Descriptors!Retract
  <2> QED BY <1>2, <2>1 DEF Descriptors!Retract, Descriptors!SetDesc,
     Descriptors!DynArraySet
<1>3. CASE Descriptors!OfThread(t) /\ ~Descriptors!Retract(t)
  BY <1>3 DEF Descriptors!OfThread, Descriptors!Make, Descriptors!Publish,
     Descriptors!UnrefHeld,
       Descriptors!MakePair, Descriptors!PublishFirst, Descriptors!PublishSecond,
       Descriptors!CopyOut, Descriptors!SendMessage, Descriptors!ReceiveMessage,
       Descriptors!StoreReceived, Descriptors!MapEntry, Descriptors!Munmap
<1> QED BY <1>1, <1>2, <1>3

\* Unless dup2() names it, a number that becomes open is the lowest free one:
\* what DynArrayFirstAvail() finds, however its hint was moved by NaClSysClose().
THEOREM LowestNumbers == ServicesSpec => LowestNumberFirst
<1> DEFINE Opens(n) == /\ ~Descriptors!Open(n) /\ desc_tbl'[n] # Null
                       /\ \A t \in Users : fd_pc[t] = "replace" => fd_pc'[t] = "replace"
<1>1. ASSUME FdInv, [ServicesNext]_servicesVars, NEW n \in Fds, Opens(n)
      PROVE  \A m \in 0 .. n - 1 : Descriptors!Open(m)
  <2>1. desc_tbl[n] = Null /\ desc_tbl'[n] # Null
    BY <1>1 DEF Descriptors!Open
  <2>2. PICK t \in Users :
          Descriptors!OfThread(t) \/ \E fd \in Fds : Descriptors!OnNumber(t, fd)
    BY <1>1, <2>1 DEF ServicesNext, servicesVars, fdVars, Descriptors!Next, Users, Fds
  <2>3. ~Descriptors!Replace(t)
    <3>1. SUFFICES ASSUME Descriptors!Replace(t)
                   PROVE  FALSE
      OBVIOUS
    <3>2. fd_pc[t] = "replace" /\ fd_pc' = [fd_pc EXCEPT ![t] = "user"]
      BY <3>1 DEF Descriptors!Replace, Descriptors!Return, Descriptors!Goto
    <3>3. fd_pc'[t] = "user"
      BY <1>1, <3>2 DEF FdInv, FdControl
    <3> QED BY <1>1, <3>2, <3>3
  <2>4. PICK x : Descriptors!SetDescAvail(x)
    <3>1. ~UNCHANGED desc_tbl
      BY <2>1
    <3>2. \A k \in Fds : desc_tbl' # [desc_tbl EXCEPT ![k] = Null]
      BY <1>1, <2>1 DEF FdInv, FdTables
    <3> QED BY <1>1, <2>2, <2>3, <3>1, <3>2, TableSteps
  <2>5. PICK f : f = Descriptors!FirstAvail
    OBVIOUS
  <2>6. /\ f \in Fds /\ desc_tbl[f] = Null /\ \A m \in 0 .. f - 1 : desc_tbl[m] # Null
        /\ desc_tbl' = [desc_tbl EXCEPT ![f] = x]
    BY <1>1, <2>4, <2>5, FirstAvailIsLeast DEF Descriptors!SetDescAvail, Fds
  <2>7. n = f
    BY <1>1, <2>1, <2>6 DEF FdInv, FdTables
  <2> QED BY <2>6, <2>7 DEF Descriptors!Open
<1>2. FdInv /\ [ServicesNext]_servicesVars =>
        [\A n \in Fds : Opens(n)
                    => \A m \in 0 .. n - 1 : Descriptors!Open(m)]_Descriptors!vars
  BY <1>1
<1>3. LowestNumberFirst <=>
        [][\A n \in Fds : Opens(n)
                    => \A m \in 0 .. n - 1 : Descriptors!Open(m)]_Descriptors!vars
  BY DEF LowestNumberFirst, Descriptors!LowestNumberFirst, Users, Fds
<1> HIDE DEF Opens
<1> QED BY <1>2, <1>3, DescriptorInvariance, PTL DEF ServicesSpec

=============================================================================
