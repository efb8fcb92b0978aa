--------------------------- MODULE HostDescProofs ---------------------------
(***************************************************************************)
(* Type correctness of HostDesc; that the trace is complete, whatever is   *)
(* lost, renamed and linked: the path under which a host file with text of *)
(* the program was opened for writing has been sent to the trace server;   *)
(* that a Read() returns what the Write() at its position wrote; and that  *)
(* read-only descriptors can cut a file but not otherwise change it.       *)
(***************************************************************************)
EXTENDS HostDesc, TLAPS

\* A unit that Write() stores is built from the text and the key stream.
LEMMA EncodedType ==
  ASSUME NEW c \in DescRecords, NEW i \in Pos
  PROVE  Encoded(c, i) \in SUBSET Residues
  BY DEF Encoded, Xor, Mask, Residues, DescRecords, Pos

\* An open descriptor is a complete record; a request has all its fields.
LEMMA OpenDesc ==
  ASSUME TypeOK, NEW d \in Descs, desc[d].open
  PROVE  desc[d] \in DescRecords
  BY DEF TypeOK, FreeDesc

\* Storing k units within the bound keeps the types of content and size.
LEMMA StoreType ==
  ASSUME TypeOK, NEW n \in Inodes, NEW s \in Nat, NEW k \in Nat, s + k <= MaxLen,
         NEW content \in [Pos -> SUBSET Residues], HostStore(n, s, k, content)
  PROVE  /\ data' \in [Inodes -> [Pos -> SUBSET Residues]]
         /\ size' \in [Inodes -> 0 .. MaxLen]
<1>1. \A j \in Pos : j \in s .. s + k - 1 => j - s \in Pos
  BY HostDescConstants DEF Pos
<1>2. data' \in [Inodes -> [Pos -> SUBSET Residues]]
  BY <1>1 DEF HostStore, TypeOK
<1>3. size' \in [Inodes -> 0 .. MaxLen]
  BY HostDescConstants DEF HostStore, TypeOK
<1> QED BY <1>2, <1>3

\* The calls NaClHostDescOpen() makes keep the types.
LEMMA OpenStepType == TypeOK /\ OpenStep => TypeOK'
<1> SUFFICES ASSUME TypeOK, OpenStep PROVE TypeOK'
  OBVIOUS
<1> USE DEF server, names, host, hist
<1>1. CASE check_file_status
  BY <1>1 DEF check_file_status, OpenFails, TypeOK
<1>2. CASE send_tracelog
  BY <1>2 DEF send_tracelog, OpenFails, TypeOK, Requests
<1>3. CASE redis_get_key
  BY <1>3 DEF redis_get_key, TypeOK, Requests
<1>4. CASE NaClHostDescOpen
  <2>0. /\ req \in Requests /\ pc' = "run" /\ req' = None
        /\ UNCHANGED <<status, log, lost, lastw, lastr>>
    BY <1>4 DEF NaClHostDescOpen, OpenFails, TypeOK
  <2>1. CASE UNCHANGED <<host, desc>>
    BY <2>0, <2>1 DEF TypeOK
  <2>2. CASE ~UNCHANGED <<host, desc>>
    <3>1. PICK n \in Inodes :
            /\ req.acc \in Accesses
            /\ sgx_ocall_open(req.path, n)
            /\ writers' = [writers EXCEPT ![n] =
                 (IF dir[req.path] = None THEN {} ELSE @)
                 \cup (IF req.acc = "RDONLY" THEN {} ELSE {req.path})]
            /\ desc' = [desc EXCEPT ![req.d] =
                 [open |-> TRUE, path |-> req.path, ino |-> n, acc |-> req.acc,
                  append |-> req.append, key |-> req.key, iv |-> req.iv, pos |-> 0]]
      BY <1>4, <2>2 DEF NaClHostDescOpen
    <3>w. writers' \in [Inodes -> SUBSET Paths]
      BY <2>0, <3>1 DEF TypeOK, Requests
    <3>2. dir' \in [Paths -> Inodes \cup {None}] /\ size' \in [Inodes -> 0 .. MaxLen]
          /\ data' \in [Inodes -> [Pos -> SUBSET Residues]]
      <4>1. CASE dir[req.path] # None
        BY <4>1, <3>1 DEF sgx_ocall_open, TypeOK
      <4>2. CASE dir[req.path] = None
        <5>1. /\ dir' = [dir EXCEPT ![req.path] = n]
              /\ data' = [data EXCEPT ![n] = [j \in Pos |-> {}]]
              /\ size' = [size EXCEPT ![n] = 0]
          BY <4>2, <3>1 DEF sgx_ocall_open
        <5>2. size' \in [Inodes -> 0 .. MaxLen]
          BY <5>1, HostDescConstants DEF TypeOK
        <5>3. data' \in [Inodes -> [Pos -> SUBSET Residues]]
          BY <5>1 DEF TypeOK
        <5> QED BY <2>0, <5>1, <5>2, <5>3 DEF TypeOK, Requests
      <4> QED BY <4>1, <4>2
    <3>3. desc' \in [Descs -> {FreeDesc} \cup DescRecords]
      <4> DEFINE new == [open |-> TRUE, path |-> req.path, ino |-> n, acc |-> req.acc,
                         append |-> req.append, key |-> req.key, iv |-> req.iv, pos |-> 0]
      <4>1. new \in DescRecords
        BY <2>0, <3>1, HostDescConstants DEF Requests, DescRecords
      <4>2. desc' = [desc EXCEPT ![req.d] = new]
        BY <3>1
      <4> HIDE DEF new
      <4> QED BY <4>1, <4>2 DEF TypeOK
    <3> QED BY <2>0, <3>w, <3>2, <3>3 DEF TypeOK
  <2> QED BY <2>1, <2>2
<1> QED BY <1>1, <1>2, <1>3, <1>4 DEF OpenStep

\* An operation that only moves a descriptor's position within the bound.
LEMMA MoveType ==
  ASSUME TypeOK, NEW d \in Descs, desc[d].open, NEW x \in 0 .. MaxLen,
         desc' = [desc EXCEPT ![d].pos = x]
  PROVE  desc' \in [Descs -> {FreeDesc} \cup DescRecords]
<1> DEFINE new == [desc[d] EXCEPT !.pos = x]
<1>1. new \in DescRecords
  BY OpenDesc DEF DescRecords
<1>2. desc' = [desc EXCEPT ![d] = new]
  OBVIOUS
<1> HIDE DEF new
<1> QED BY <1>1, <1>2 DEF TypeOK

\* Truncation keeps the types of content and size.
LEMMA TruncateType ==
  ASSUME TypeOK, NEW n \in Inodes, NEW len \in 0 .. MaxLen, HostTruncate(n, len)
  PROVE  /\ data' \in [Inodes -> [Pos -> SUBSET Residues]]
         /\ size' \in [Inodes -> 0 .. MaxLen]
  BY DEF TypeOK, HostTruncate, Pos

\* The operations on descriptors keep the types.
LEMMA DescStepType ==
  ASSUME TypeOK, NEW d \in Descs, DescStep(d)
  PROVE  TypeOK'
<1> USE DEF server, names, host, hist, Uses
<1>1. ASSUME NEW p \in Paths, NEW acc \in Accesses \cup {"bad"}, NEW append \in BOOLEAN,
             NaClSysOpen(d, p, acc, append)
      PROVE  TypeOK'
  <2>1. req' \in Requests /\ pc' = "check"
    BY <1>1 DEF NaClSysOpen, Requests, KeyStates
  <2> QED BY <1>1, <2>1 DEF NaClSysOpen, TypeOK
<1>2. ASSUME NEW len \in 1 .. MaxLen, NaClHostDescRead(d, len)
      PROVE  TypeOK'
  <2>1. PICK k \in 0 .. len :
          /\ desc[d].pos + k <= size[desc[d].ino] \/ k = 0
          /\ desc' = [desc EXCEPT ![d].pos = @ + k]
    BY <1>2 DEF NaClHostDescRead
  <2>2. desc[d].open /\ UNCHANGED <<server, names, data, size, pc, req>>
    BY <1>2 DEF NaClHostDescRead
  <2>3. desc[d].pos \in 0 .. MaxLen /\ size[desc[d].ino] \in 0 .. MaxLen
    BY <2>2, OpenDesc DEF DescRecords, TypeOK
  <2>4. desc[d].pos + k \in 0 .. MaxLen
    BY <2>1, <2>3, HostDescConstants
  <2>5. desc' = [desc EXCEPT ![d].pos = desc[d].pos + k]
    BY <2>1
  <2>6. desc' \in [Descs -> {FreeDesc} \cup DescRecords]
    BY <2>2, <2>4, <2>5, MoveType
  <2> QED BY <2>2, <2>6 DEF TypeOK
<1>3. ASSUME NEW len \in 1 .. MaxLen, NaClHostDescWrite(d, len)
      PROVE  TypeOK'
  <2>1. PICK k \in 0 .. len :
          /\ HostStore(desc[d].ino, desc[d].pos, k, [i \in Pos |-> Encoded(desc[d], i)])
          /\ desc' = [desc EXCEPT ![d].pos = @ + k]
    BY <1>3 DEF NaClHostDescWrite
  <2>2. desc[d].open /\ desc[d].pos + len <= MaxLen /\ UNCHANGED <<server, names, pc, req>>
    BY <1>3 DEF NaClHostDescWrite
  <2>3. desc[d] \in DescRecords /\ desc[d].pos \in 0 .. MaxLen /\ desc[d].ino \in Inodes
    BY <2>2, OpenDesc DEF DescRecords
  <2>4. desc[d].pos + k \in 0 .. MaxLen
    BY <2>2, <2>3, HostDescConstants
  <2>5. desc' = [desc EXCEPT ![d].pos = desc[d].pos + k]
    BY <2>1
  <2>6. desc' \in [Descs -> {FreeDesc} \cup DescRecords]
    BY <2>2, <2>4, <2>5, MoveType
  <2>7. \A i \in Pos : Encoded(desc[d], i) \in SUBSET Residues
    BY <2>3, EncodedType
  <2>8. [i \in Pos |-> Encoded(desc[d], i)] \in [Pos -> SUBSET Residues]
    BY <2>7
  <2>9. data' \in [Inodes -> [Pos -> SUBSET Residues]] /\ size' \in [Inodes -> 0 .. MaxLen]
    BY <2>1, <2>2, <2>3, <2>4, <2>8, StoreType, HostDescConstants
  <2> QED BY <2>2, <2>6, <2>9 DEF TypeOK
<1>4. ASSUME NEW off \in Pos, NEW len \in 1 .. MaxLen, NaClHostDescPRead(d, off, len)
      PROVE  TypeOK'
  BY <1>4 DEF NaClHostDescPRead, TypeOK
<1>5. ASSUME NEW off \in Pos, NEW len \in 1 .. MaxLen, NaClHostDescPWrite(d, off, len)
      PROVE  TypeOK'
  <2>1. /\ desc[d].open /\ off + len <= MaxLen /\ pc = "run"
        /\ UNCHANGED <<server, names, desc, req>>
    BY <1>5 DEF NaClHostDescPWrite
  <2>2. CASE desc[d].append
    BY <1>5, <2>1, <2>2 DEF NaClHostDescPWrite, TypeOK
  <2>3. CASE ~desc[d].append
    <3>1. PICK k \in 0 .. len : HostStore(desc[d].ino, off, k, [i \in Pos |-> {Text}])
      BY <1>5, <2>3 DEF NaClHostDescPWrite
    <3>2. UNCHANGED pc
      BY <1>5, <2>3 DEF NaClHostDescPWrite
    <3>3. desc[d].ino \in Inodes
      BY <2>1, OpenDesc DEF DescRecords
    <3>4. [i \in Pos |-> {Text}] \in [Pos -> SUBSET Residues]
      BY DEF Residues
    <3>5. data' \in [Inodes -> [Pos -> SUBSET Residues]] /\ size' \in [Inodes -> 0 .. MaxLen]
      BY <2>1, <3>1, <3>3, <3>4, StoreType, HostDescConstants DEF Pos
    <3> QED BY <2>1, <3>2, <3>5 DEF TypeOK
  <2> QED BY <2>2, <2>3
<1>6. ASSUME NEW off \in 0 .. MaxLen, NaClHostDescSeek(d, off)
      PROVE  TypeOK'
  <2>1. desc' \in [Descs -> {FreeDesc} \cup DescRecords]
    BY <1>6, MoveType DEF NaClHostDescSeek
  <2> QED BY <1>6, <2>1 DEF NaClHostDescSeek, TypeOK
<1>7. ASSUME NEW off \in 0 .. MaxLen, NaClHostDescFtruncate(d, off)
      PROVE  TypeOK'
  <2>1. desc[d].ino \in Inodes
    BY <1>7, OpenDesc DEF NaClHostDescFtruncate, DescRecords
  <2>2. data' \in [Inodes -> [Pos -> SUBSET Residues]] /\ size' \in [Inodes -> 0 .. MaxLen]
    BY <1>7, <2>1, TruncateType DEF NaClHostDescFtruncate
  <2> QED BY <1>7, <2>2 DEF NaClHostDescFtruncate, TypeOK
<1>8. CASE NaClHostDescClose(d)
  BY <1>8 DEF NaClHostDescClose, TypeOK
<1> QED BY <1>1, <1>2, <1>3, <1>4, <1>5, <1>6, <1>7, <1>8 DEF DescStep

\* The operations on paths, and a withdrawal, keep the types.
LEMMA PathStepType ==
  ASSUME TypeOK, NEW p \in Paths, PathStep(p)
  PROVE  TypeOK'
<1> USE DEF server, names, host, hist, Uses
<1>1. ASSUME NEW len \in 0 .. MaxLen, NaClHostDescTruncate(p, len)
      PROVE  TypeOK'
  <2>1. dir[p] \in Inodes
    BY <1>1 DEF NaClHostDescTruncate, TypeOK
  <2>2. data' \in [Inodes -> [Pos -> SUBSET Residues]] /\ size' \in [Inodes -> 0 .. MaxLen]
    BY <1>1, <2>1, TruncateType DEF NaClHostDescTruncate
  <2> QED BY <1>1, <2>2 DEF NaClHostDescTruncate, TypeOK
<1>2. CASE NaClHostDescUnlink(p)
  BY <1>2 DEF NaClHostDescUnlink, TypeOK
<1>3. ASSUME NEW q \in Paths, NaClHostDescRename(p, q)
      PROVE  TypeOK'
  BY <1>3 DEF NaClHostDescRename, TypeOK
<1>4. ASSUME NEW q \in Paths, NaClHostDescLink(p, q)
      PROVE  TypeOK'
  BY <1>4 DEF NaClHostDescLink, TypeOK
<1>5. CASE Withdraw(p)
  BY <1>5 DEF Withdraw, TypeOK
<1> QED BY <1>1, <1>2, <1>3, <1>4, <1>5 DEF PathStep

\* The initial state is well typed.
LEMMA InitType == Init => TypeOK
  BY HostDescConstants DEF Init, TypeOK, FreeDesc

\* Every step keeps the types.
LEMMA NextType == TypeOK /\ [Next]_vars => TypeOK'
<1> SUFFICES ASSUME TypeOK, [Next]_vars PROVE TypeOK'
  OBVIOUS
<1>1. CASE OpenStep
  BY <1>1, OpenStepType
<1>2. CASE \E d \in Descs : DescStep(d)
  BY <1>2, DescStepType
<1>3. CASE \E p \in Paths : PathStep(p)
  BY <1>3, PathStepType
<1>4. CASE UNCHANGED vars
  BY <1>4 DEF vars, server, names, host, hist, TypeOK
<1> QED BY <1>1, <1>2, <1>3, <1>4 DEF Next

\* Whatever the program calls and whatever is lost, the agent's state is well
\* typed: positions and sizes stay within MaxLen, and a request lives just as
\* long as its open.
THEOREM AgentTypeCorrect == Spec => []TypeOK
<1>1. Init => TypeOK
  BY InitType
<1>2. TypeOK /\ [Next]_vars => TypeOK'
  BY NextType
<1> QED BY <1>1, <1>2, PTL DEF Spec


-----------------------------------------------------------------------------
(* The trace is complete.  A step that stores text does so through a       *)
(* descriptor that writes, whose path is among the writers of the file, or *)
(* the step is the open that puts it there, two steps after its record was *)
(* sent.                                                                   *)

\* The paths whose record was sent.
Sent == log \cup lost

\* Descriptors keep what they were opened with, or are closed.
DescsKept ==
  \A d \in Descs : desc'[d].open =>
    /\ desc[d].open /\ desc'[d].ino = desc[d].ino
    /\ desc'[d].path = desc[d].path /\ desc'[d].acc = desc[d].acc

\* A descriptor through which inode n is written.
HasWriter(n) == \E d \in Descs : desc[d].open /\ desc[d].ino = n /\ desc[d].acc # "RDONLY"

\* Text gets into a file only through such a descriptor.
WritersStore == \A n \in Inodes : HoldsText(n)' => HoldsText(n) \/ HasWriter(n)

\* Moving the position of an open descriptor keeps what it was opened with.
LEMMA MoveKeeps ==
  ASSUME TypeOK, NEW d \in Descs, desc[d].open, NEW x,
         desc' = [desc EXCEPT ![d].pos = x]
  PROVE  DescsKept
<1>1. \A e \in Descs : e # d => desc'[e] = desc[e]
  BY DEF TypeOK
<1>2. desc[d] \in DescRecords
  BY OpenDesc
<1>3. desc'[d] = [desc[d] EXCEPT !.pos = x]
  BY DEF TypeOK
<1>4. /\ desc'[d].ino = desc[d].ino /\ desc'[d].path = desc[d].path
      /\ desc'[d].acc = desc[d].acc
  BY <1>2, <1>3 DEF DescRecords
<1> QED BY <1>1, <1>4 DEF DescsKept

\* A step that opens no host file and stores through writing descriptors only
\* keeps the invariant.
LEMMA KeepsTrace ==
  ASSUME TraceInv, TypeOK', DescsKept, WritersStore, UNCHANGED writers,
         Sent \subseteq Sent', Lossy \/ lost' = {},
         pc' \in {"key", "open"} => req'.path \in Sent'
  PROVE  TraceInv'
<1>1. \A n \in Inodes : writers'[n] \subseteq Sent'
  BY DEF TraceInv, Sent
<1>2. ASSUME NEW d \in Descs, desc'[d].open, desc'[d].acc # "RDONLY"
      PROVE  desc'[d].path \in writers'[desc'[d].ino]
  BY <1>2 DEF TraceInv, DescsKept
<1>3. ASSUME NEW n \in Inodes, HoldsText(n)'
      PROVE  writers'[n] \cap Sent' # {}
  <2>1. CASE HoldsText(n)
    BY <2>1 DEF TraceInv, DataIsTraced, Sent
  <2>2. CASE HasWriter(n)
    BY <1>1, <2>2 DEF HasWriter, TraceInv
  <2> QED BY <1>3, <2>1, <2>2 DEF WritersStore
<1> QED BY <1>1, <1>2, <1>3 DEF TraceInv, DataIsTraced, Sent

\* Truncation adds no text.
LEMMA TruncateKeeps ==
  ASSUME TypeOK, NEW n \in Inodes, NEW len \in 0 .. MaxLen, HostTruncate(n, len)
  PROVE  WritersStore
  BY DEF TypeOK, HostTruncate, WritersStore, HoldsText

\* The host opens the file: its path, which was sent, joins the writers of the
\* file if the descriptor writes.  A file that is created is empty, and nobody
\* has it open.
LEMMA HostOpenTrace ==
  ASSUME TraceInv, TypeOK', req \in Requests, req.path \in Sent, NEW n \in Inodes,
         sgx_ocall_open(req.path, n), UNCHANGED server, pc' = "run",
         writers' = [writers EXCEPT ![n] =
           (IF dir[req.path] = None THEN {} ELSE @)
           \cup (IF req.acc = "RDONLY" THEN {} ELSE {req.path})],
         desc' = [desc EXCEPT ![req.d] =
           [open |-> TRUE, path |-> req.path, ino |-> n, acc |-> req.acc,
            append |-> req.append, key |-> req.key, iv |-> req.iv, pos |-> 0]]
  PROVE  TraceInv'
<1>0. TypeOK /\ UNCHANGED <<log, lost>>
  BY DEF TraceInv, server
<1>1. \A m \in Inodes : m # n => writers'[m] = writers[m]
  BY <1>0 DEF TypeOK
<1>2. writers'[n] = (IF dir[req.path] = None THEN {} ELSE writers[n])
                    \cup (IF req.acc = "RDONLY" THEN {} ELSE {req.path})
  BY <1>0 DEF TypeOK
<1>3. \A m \in Inodes : writers'[m] \subseteq Sent
  BY <1>1, <1>2 DEF TraceInv, Sent
<1>4. /\ \A e \in Descs : e # req.d => desc'[e] = desc[e]
      /\ desc'[req.d].path = req.path /\ desc'[req.d].ino = n /\ desc'[req.d].acc = req.acc
  BY <1>0 DEF TypeOK, Requests
<1>5. CASE dir[req.path] # None
  <2>1. n = dir[req.path] /\ UNCHANGED data
    BY <1>5 DEF sgx_ocall_open
  <2>2. \A m \in Inodes : writers[m] \subseteq writers'[m]
    BY <1>1, <1>2, <1>5
  <2>3. ASSUME NEW d \in Descs, desc'[d].open, desc'[d].acc # "RDONLY"
        PROVE  desc'[d].path \in writers'[desc'[d].ino]
    <3>1. CASE d = req.d
      BY <1>2, <1>4, <2>3, <3>1
    <3>2. CASE d # req.d
      <4>1. desc[d].open /\ desc[d].ino \in Inodes
        BY <1>0, <1>4, <2>3, <3>2, OpenDesc DEF DescRecords
      <4> QED BY <1>4, <2>2, <2>3, <3>2, <4>1 DEF TraceInv
    <3> QED BY <3>1, <3>2
  <2>4. \A m \in Inodes : HoldsText(m)' => writers'[m] \cap Sent # {}
    BY <2>1, <2>2 DEF TraceInv, DataIsTraced, HoldsText, Sent
  <2> QED BY <1>0, <1>3, <2>3, <2>4 DEF TraceInv, DataIsTraced, Sent
<1>6. CASE dir[req.path] = None
  <2>1. ~InUse(n) /\ data' = [data EXCEPT ![n] = [j \in Pos |-> {}]]
    BY <1>6 DEF sgx_ocall_open
  <2>2. ASSUME NEW d \in Descs, desc'[d].open, desc'[d].acc # "RDONLY"
        PROVE  desc'[d].path \in writers'[desc'[d].ino]
    <3>1. CASE d = req.d
      BY <1>2, <1>4, <2>2, <3>1
    <3>2. CASE d # req.d
      <4>1. desc[d].open /\ desc[d].ino \in Inodes /\ desc[d].ino # n
        BY <1>0, <1>4, <2>1, <2>2, <3>2, OpenDesc DEF DescRecords, InUse
      <4> QED BY <1>1, <1>4, <2>2, <3>2, <4>1 DEF TraceInv
    <3> QED BY <3>1, <3>2
  <2>3. ASSUME NEW m \in Inodes, HoldsText(m)'
        PROVE  writers'[m] \cap Sent # {}
    <3>1. m # n
      BY <1>0, <2>1, <2>3 DEF HoldsText, TypeOK
    <3>2. HoldsText(m)
      BY <1>0, <2>1, <2>3, <3>1 DEF HoldsText, TypeOK
    <3> QED BY <1>1, <3>1, <3>2 DEF TraceInv, DataIsTraced, Sent
  <2> QED BY <1>0, <1>3, <2>2, <2>3 DEF TraceInv, DataIsTraced, Sent
<1> QED BY <1>5, <1>6

\* The calls of an open keep the trace complete: the descriptor appears only
\* after send_tracelog() has sent its path.
LEMMA OpenStepTrace ==
  ASSUME TraceInv, OpenStep
  PROVE  TraceInv'
<1> USE DEF server, names, host, hist
<1>0. TypeOK /\ TypeOK' /\ (Lossy \/ lost = {})
  BY OpenStepType DEF TraceInv
<1>1. CASE check_file_status
  <2>1. UNCHANGED <<log, lost, data, writers, desc>> /\ pc' \notin {"key", "open"}
    BY <1>1 DEF check_file_status, OpenFails
  <2> QED BY <1>0, <2>1, KeepsTrace DEF DescsKept, WritersStore, HoldsText, Sent
<1>2. CASE send_tracelog
  <2>1. UNCHANGED <<data, writers, desc>> /\ Sent \subseteq Sent' /\ (Lossy \/ lost' = {})
    BY <1>0, <1>2 DEF send_tracelog, OpenFails, Sent
  <2>2. pc' \in {"key", "open"} => req'.path \in Sent'
    BY <1>2 DEF send_tracelog, OpenFails, Sent
  <2> QED BY <1>0, <2>1, <2>2, KeepsTrace DEF DescsKept, WritersStore, HoldsText
<1>3. CASE redis_get_key
  <2>1. req \in Requests /\ req.path \in Sent
    BY <1>0, <1>3 DEF redis_get_key, TypeOK, TraceInv, Sent
  <2>2. req'.path = req.path /\ UNCHANGED <<log, lost, data, writers, desc>>
    BY <1>3, <2>1 DEF redis_get_key, Requests
  <2> QED BY <1>0, <2>1, <2>2, KeepsTrace DEF DescsKept, WritersStore, HoldsText, Sent
<1>4. CASE NaClHostDescOpen
  <2>1. /\ req \in Requests /\ req.path \in Sent
        /\ pc' = "run" /\ UNCHANGED <<status, log, lost>>
    BY <1>0, <1>4 DEF NaClHostDescOpen, OpenFails, TypeOK, TraceInv, Sent
  <2>2. CASE UNCHANGED <<host, desc>>
    BY <1>0, <2>1, <2>2, KeepsTrace DEF DescsKept, WritersStore, HoldsText, Sent
  <2>3. CASE ~UNCHANGED <<host, desc>>
    BY <1>0, <1>4, <2>1, <2>3, HostOpenTrace DEF NaClHostDescOpen
  <2> QED BY <2>2, <2>3
<1> QED BY <1>1, <1>2, <1>3, <1>4 DEF OpenStep

\* The operations on descriptors keep the trace complete.
LEMMA DescStepTrace ==
  ASSUME TraceInv, NEW d \in Descs, DescStep(d)
  PROVE  TraceInv'
<1> USE DEF server, names, host, hist, Uses
<1>0. TypeOK /\ TypeOK' /\ (Lossy \/ lost = {})
  BY DescStepType DEF TraceInv
\* A step outside an open, after which descriptors are what they were.
<1>a. ASSUME UNCHANGED <<log, lost, writers>>, pc' \notin {"key", "open"}, DescsKept,
             WritersStore
      PROVE  TraceInv'
  BY <1>0, <1>a, KeepsTrace DEF Sent
\* One that stores into the file of a descriptor that writes.
<1>b. ASSUME desc[d].open, desc[d].acc # "RDONLY",
             \A n \in Inodes : n # desc[d].ino => data'[n] = data[n]
      PROVE  WritersStore
  BY <1>b DEF WritersStore, HoldsText, HasWriter
<1>1. ASSUME NEW p \in Paths, NEW acc \in Accesses \cup {"bad"}, NEW append \in BOOLEAN,
             NaClSysOpen(d, p, acc, append)
      PROVE  TraceInv'
  <2>1. pc' = "check" /\ UNCHANGED <<log, lost, writers, data, desc>>
    BY <1>1 DEF NaClSysOpen
  <2> QED BY <1>a, <2>1 DEF DescsKept, WritersStore, HoldsText
<1>2. ASSUME NEW len \in 1 .. MaxLen, NaClHostDescRead(d, len)
      PROVE  TraceInv'
  <2>1. desc[d].open /\ pc' = "run" /\ UNCHANGED <<log, lost, writers, data>>
    BY <1>2 DEF NaClHostDescRead
  <2>2. PICK k \in 0 .. len : desc' = [desc EXCEPT ![d].pos = desc[d].pos + k]
    BY <1>2 DEF NaClHostDescRead
  <2>3. DescsKept
    BY <1>0, <2>1, <2>2, MoveKeeps
  <2> QED BY <1>a, <2>1, <2>3 DEF WritersStore, HoldsText
<1>3. ASSUME NEW len \in 1 .. MaxLen, NaClHostDescWrite(d, len)
      PROVE  TraceInv'
  <2>1. /\ desc[d].open /\ desc[d].acc # "RDONLY" /\ pc' = "run"
        /\ UNCHANGED <<log, lost, writers>>
    BY <1>3 DEF NaClHostDescWrite
  <2>2. PICK k \in 0 .. len :
          /\ HostStore(desc[d].ino, desc[d].pos, k, [i \in Pos |-> Encoded(desc[d], i)])
          /\ desc' = [desc EXCEPT ![d].pos = desc[d].pos + k]
    BY <1>3 DEF NaClHostDescWrite
  <2>3. DescsKept
    BY <1>0, <2>1, <2>2, MoveKeeps
  <2>4. \A n \in Inodes : n # desc[d].ino => data'[n] = data[n]
    BY <1>0, <2>2 DEF HostStore, TypeOK
  <2> QED BY <1>a, <1>b, <2>1, <2>3, <2>4
<1>4. ASSUME NEW off \in Pos, NEW len \in 1 .. MaxLen, NaClHostDescPRead(d, off, len)
      PROVE  TraceInv'
  <2>1. pc' = "run" /\ UNCHANGED <<log, lost, writers, data, desc>>
    BY <1>4 DEF NaClHostDescPRead
  <2> QED BY <1>a, <2>1 DEF DescsKept, WritersStore, HoldsText
<1>5. ASSUME NEW off \in Pos, NEW len \in 1 .. MaxLen, NaClHostDescPWrite(d, off, len)
      PROVE  TraceInv'
  <2>1. /\ desc[d].open /\ desc[d].acc # "RDONLY" /\ pc' \in {"run", "abort"}
        /\ UNCHANGED <<log, lost, writers, desc>>
    BY <1>5 DEF NaClHostDescPWrite
  <2>2. \A n \in Inodes : n # desc[d].ino => data'[n] = data[n]
    <3>1. CASE desc[d].append
      BY <1>5, <3>1 DEF NaClHostDescPWrite
    <3>2. CASE ~desc[d].append
      <4>1. PICK k \in 0 .. len : HostStore(desc[d].ino, off, k, [i \in Pos |-> {Text}])
        BY <1>5, <3>2 DEF NaClHostDescPWrite
      <4> QED BY <1>0, <4>1 DEF HostStore, TypeOK
    <3> QED BY <3>1, <3>2
  <2> QED BY <1>a, <1>b, <2>1, <2>2 DEF DescsKept
<1>6. ASSUME NEW off \in 0 .. MaxLen, NaClHostDescSeek(d, off)
      PROVE  TraceInv'
  <2>1. desc[d].open /\ pc' = "run" /\ UNCHANGED <<log, lost, writers, data>>
    BY <1>6 DEF NaClHostDescSeek
  <2>2. DescsKept
    BY <1>0, <1>6, MoveKeeps DEF NaClHostDescSeek
  <2> QED BY <1>a, <2>1, <2>2 DEF WritersStore, HoldsText
<1>7. ASSUME NEW off \in 0 .. MaxLen, NaClHostDescFtruncate(d, off)
      PROVE  TraceInv'
  <2>1. desc[d].ino \in Inodes /\ pc' = "run" /\ UNCHANGED <<log, lost, writers, desc>>
    BY <1>0, <1>7, OpenDesc DEF NaClHostDescFtruncate, DescRecords
  <2>2. WritersStore
    BY <1>0, <1>7, <2>1, TruncateKeeps DEF NaClHostDescFtruncate
  <2> QED BY <1>a, <2>1, <2>2 DEF DescsKept
<1>8. CASE NaClHostDescClose(d)
  <2>1. desc' = [desc EXCEPT ![d] = FreeDesc] /\ pc' = "run"
        /\ UNCHANGED <<log, lost, writers, data>>
    BY <1>8 DEF NaClHostDescClose
  <2>2. DescsKept
    BY <1>0, <2>1 DEF DescsKept, TypeOK, FreeDesc
  <2> QED BY <1>a, <2>1, <2>2 DEF WritersStore, HoldsText
<1> QED BY <1>1, <1>2, <1>3, <1>4, <1>5, <1>6, <1>7, <1>8 DEF DescStep

\* So do the operations on paths, whatever they call a file: writers remembers
\* the path it was opened under.
LEMMA PathStepTrace ==
  ASSUME TraceInv, NEW p \in Paths, PathStep(p)
  PROVE  TraceInv'
<1> USE DEF server, names, host, hist, Uses
<1>0. TypeOK /\ TypeOK' /\ (Lossy \/ lost = {})
  BY PathStepType DEF TraceInv
<1>1. UNCHANGED <<log, lost, writers, desc, pc, req>>
  BY DEF PathStep, NaClHostDescTruncate, NaClHostDescUnlink, NaClHostDescRename,
         NaClHostDescLink, Withdraw
<1>2. WritersStore
  <2>1. ASSUME NEW len \in 0 .. MaxLen, NaClHostDescTruncate(p, len)
        PROVE  WritersStore
    <3>1. dir[p] \in Inodes
      BY <1>0, <2>1 DEF NaClHostDescTruncate, TypeOK
    <3> QED BY <1>0, <2>1, <3>1, TruncateKeeps DEF NaClHostDescTruncate
  <2>2. CASE UNCHANGED data
    BY <2>2 DEF WritersStore, HoldsText
  <2> QED
    BY <2>1, <2>2
    DEF PathStep, NaClHostDescUnlink, NaClHostDescRename, NaClHostDescLink, Withdraw
<1> QED BY <1>0, <1>1, <1>2, KeepsTrace DEF DescsKept, TraceInv, Sent

\* The trace stays ahead of the descriptors, with any messages lost and any
\* names given and taken: every path under which a file was opened for writing
\* is one whose record was sent, and while no message is lost it has arrived.
THEOREM TraceInvariance == Spec => []TraceInv
<1>1. Init => TraceInv
  BY InitType DEF Init, TraceInv, DataIsTraced, HoldsText, FreeDesc
<1>2. TraceInv /\ [Next]_vars => TraceInv'
  <2> SUFFICES ASSUME TraceInv, [Next]_vars PROVE TraceInv'
    OBVIOUS
  <2>1. CASE OpenStep
    BY <2>1, OpenStepTrace
  <2>2. CASE \E d \in Descs : DescStep(d)
    BY <2>2, DescStepTrace
  <2>3. CASE \E p \in Paths : PathStep(p)
    BY <2>3, PathStepTrace
  <2>4. CASE UNCHANGED vars
    <3>1. UNCHANGED <<status, log, lost, dir, writers, data, size, desc, pc, req>>
      BY <2>4 DEF vars, server, names, host
    <3> QED BY <3>1 DEF TraceInv, TypeOK, DataIsTraced, HoldsText
  <2> QED BY <2>1, <2>2, <2>3, <2>4 DEF Next
<1> QED BY <1>1, <1>2, PTL DEF Spec

\* The trace is complete: a host file that holds text of the program was opened
\* for writing under a path whose record was sent, and has arrived unless it got
\* lost.
THEOREM TraceComplete == Spec => []DataIsTraced
<1>1. TraceInv => DataIsTraced
  BY DEF TraceInv
<1> QED BY <1>1, TraceInvariance, PTL

-----------------------------------------------------------------------------
(* What the program reads back.                                            *)

\* Applying the key stream twice gives the text back: the counter of a Read()
\* runs over the same positions as that of the Write().
LEMMA DecodeEncoded ==
  ASSUME NEW c, NEW i
  PROVE  Decoded(c, i, Encoded(c, i)) = {Text}
  BY DEF Decoded, Encoded, Xor

\* The key stream depends on the descriptor's key and iv only.
LEMMA EncodedSame ==
  ASSUME NEW c, NEW e, NEW i, e.key = c.key, e.iv = c.iv
  PROVE  Encoded(e, i) = Encoded(c, i)
  BY DEF Encoded, Mask, Usable

\* What descriptor x was opened with; its position may move.
SameOpening(x, y) ==
  y.open /\ y.ino = x.ino /\ y.key = x.key /\ y.iv = x.iv

\* A step that leaves the last write's file and descriptor alone, or forgets the
\* write, keeps it intact.
LEMMA IntactKept ==
  ASSUME WriteIntact,
         lastw' = None \/ /\ lastw' = lastw
                          /\ lastw # None =>
                               /\ SameOpening(desc[lastw.d], desc'[lastw.d])
                               /\ data'[lastw.ino] = data[lastw.ino]
  PROVE  WriteIntact'
<1>1. CASE lastw' = None
  BY <1>1 DEF WriteIntact
<1>2. CASE lastw' = lastw /\ lastw # None
  <2>1. \A i \in Pos : Encoded(desc'[lastw.d], i) = Encoded(desc[lastw.d], i)
    BY <1>2, EncodedSame DEF SameOpening
  <2>2. SameOpening(desc[lastw.d], desc'[lastw.d]) /\ data'[lastw.ino] = data[lastw.ino]
    BY <1>2
  <2> QED BY <1>2, <2>1, <2>2 DEF WriteIntact, SameOpening
<1> QED BY <1>1, <1>2 DEF WriteIntact

\* Moving the position of a descriptor keeps every opening.
LEMMA MoveSame ==
  ASSUME TypeOK, NEW d \in Descs, desc[d].open, NEW x,
         desc' = [desc EXCEPT ![d].pos = x],
         NEW e \in Descs, desc[e].open
  PROVE  SameOpening(desc[e], desc'[e])
<1>1. desc[d] \in DescRecords /\ desc[e] \in DescRecords
  BY OpenDesc
<1>2. desc'[e] = IF e = d THEN [desc[d] EXCEPT !.pos = x] ELSE desc[e]
  BY DEF TypeOK
<1> QED BY <1>1, <1>2 DEF SameOpening, DescRecords

\* The calls of an open complete a descriptor that was not open, and a file that
\* is created for it was not in use.
LEMMA OpenStepReadBack ==
  ASSUME ReadBackInv, OpenStep
  PROVE  ReadBackInv'
<1> USE DEF server, names, host, hist
<1>0. TypeOK /\ TypeOK'
  BY OpenStepType DEF ReadBackInv
<1>1. UNCHANGED <<lastw, lastr>>
  BY DEF OpenStep, check_file_status, send_tracelog, redis_get_key, NaClHostDescOpen
<1>2. CASE check_file_status \/ send_tracelog \/ redis_get_key
  <2>1. UNCHANGED <<desc, data>>
    BY <1>2 DEF check_file_status, send_tracelog, redis_get_key
  <2>2. WriteIntact'
    BY <1>1, <2>1, IntactKept DEF ReadBackInv, WriteIntact, SameOpening
  <2>3. pc' \in {"check", "trace", "key", "open"}
          => req'.d = req.d /\ pc \in {"check", "trace", "key"}
    BY <1>0, <1>2 DEF check_file_status, send_tracelog, redis_get_key, OpenFails,
       TypeOK, Requests
  <2> QED BY <1>0, <1>1, <2>1, <2>2, <2>3 DEF ReadBackInv, ReadBackAfterWrite
<1>3. CASE NaClHostDescOpen
  <2>1. pc = "open" /\ pc' = "run" /\ req \in Requests /\ ~desc[req.d].open
    BY <1>0, <1>3 DEF NaClHostDescOpen, OpenFails, TypeOK, ReadBackInv
  <2>2. ASSUME lastw # None
        PROVE  desc'[lastw.d] = desc[lastw.d] /\ data'[lastw.ino] = data[lastw.ino]
    <3>1. lastw.d # req.d /\ lastw.d \in Descs /\ lastw.ino \in Inodes /\ InUse(lastw.ino)
      BY <2>1, <2>2 DEF ReadBackInv, WriteIntact, InUse
    <3>2. desc'[lastw.d] = desc[lastw.d]
      BY <1>0, <1>3, <2>1, <3>1 DEF NaClHostDescOpen, TypeOK
    <3>3. \/ data' = data
          \/ \E n \in Inodes : ~InUse(n) /\ data' = [data EXCEPT ![n] = [j \in Pos |-> {}]]
      BY <1>3 DEF NaClHostDescOpen, sgx_ocall_open
    <3>4. data'[lastw.ino] = data[lastw.ino]
      BY <1>0, <3>1, <3>3 DEF TypeOK
    <3> QED BY <3>2, <3>4
  <2>3. WriteIntact'
    BY <1>1, <2>2, IntactKept DEF ReadBackInv, WriteIntact, SameOpening
  <2> QED BY <1>0, <1>1, <2>1, <2>3 DEF ReadBackInv, ReadBackAfterWrite
<1> QED BY <1>2, <1>3 DEF OpenStep

\* The operations on descriptors: a Write() replaces the last write, everything
\* else that touches its file or its descriptor makes the program forget it.
LEMMA DescStepReadBack ==
  ASSUME ReadBackInv, NEW d \in Descs, DescStep(d)
  PROVE  ReadBackInv'
<1> USE DEF server, names, host, hist, Uses
<1>0. TypeOK /\ TypeOK'
  BY DescStepType DEF ReadBackInv
<1>1. ASSUME NEW p \in Paths, NEW acc \in Accesses \cup {"bad"}, NEW append \in BOOLEAN,
             NaClSysOpen(d, p, acc, append)
      PROVE  ReadBackInv'
  <2>1. UNCHANGED <<desc, data, lastw, lastr>> /\ ~desc[d].open /\ req'.d = d
    BY <1>1 DEF NaClSysOpen
  <2>2. WriteIntact'
    BY <2>1, IntactKept DEF ReadBackInv, WriteIntact, SameOpening
  <2> QED BY <1>0, <2>1, <2>2 DEF ReadBackInv, ReadBackAfterWrite
<1>2. ASSUME NEW len \in 1 .. MaxLen, NaClHostDescRead(d, len)
      PROVE  ReadBackInv'
  <2>1. desc[d].open /\ pc' = "run" /\ UNCHANGED <<data, lastw>>
    BY <1>2 DEF NaClHostDescRead
  <2>2. PICK k \in 0 .. len :
          /\ desc[d].pos + k <= size[desc[d].ino] \/ k = 0
          /\ lastr' = [call |-> "read", d |-> d, start |-> desc[d].pos,
                       buf |-> [i \in 0 .. k - 1 |->
                                 Decoded(desc[d], i, data[desc[d].ino][desc[d].pos + i])]]
          /\ desc' = [desc EXCEPT ![d].pos = desc[d].pos + k]
    BY <1>2 DEF NaClHostDescRead
  <2>3. WriteIntact'
    BY <1>0, <2>1, <2>2, MoveSame, IntactKept DEF ReadBackInv, WriteIntact
  <2>4. ReadBackAfterWrite'
    <3> SUFFICES ASSUME lastw # None, lastw.d = d, lastw.start = desc[d].pos,
                        NEW i \in 0 .. k - 1, i < lastw.len
                 PROVE  Decoded(desc[d], i, data[desc[d].ino][desc[d].pos + i]) = {Text}
      BY <2>1, <2>2 DEF ReadBackAfterWrite
    <3>1. lastw.len \in 0 .. MaxLen /\ desc[d].ino = lastw.ino
      BY DEF ReadBackInv, WriteIntact
    <3>2. i \in Pos
      BY <3>1, HostDescConstants DEF Pos
    <3>3. data[lastw.ino][lastw.start + i] = Encoded(desc[d], i)
      BY <3>2 DEF ReadBackInv, WriteIntact
    <3> QED BY <3>1, <3>3, DecodeEncoded
  <2> QED BY <1>0, <2>1, <2>3, <2>4 DEF ReadBackInv
<1>3. ASSUME NEW len \in 1 .. MaxLen, NaClHostDescWrite(d, len)
      PROVE  ReadBackInv'
  <2>1. desc[d].open /\ pc' = "run" /\ lastr' = None /\ desc[d].pos + len <= MaxLen
    BY <1>3 DEF NaClHostDescWrite
  <2>2. PICK k \in 0 .. len :
          /\ HostStore(desc[d].ino, desc[d].pos, k, [i \in Pos |-> Encoded(desc[d], i)])
          /\ desc' = [desc EXCEPT ![d].pos = desc[d].pos + k]
          /\ lastw' = [d |-> d, ino |-> desc[d].ino, start |-> desc[d].pos, len |-> k]
    BY <1>3 DEF NaClHostDescWrite
  <2>3. desc[d] \in DescRecords /\ SameOpening(desc[d], desc'[d])
    BY <1>0, <2>1, <2>2, OpenDesc, MoveSame
  <2>4. desc[d].pos \in 0 .. MaxLen /\ desc[d].ino \in Inodes
        /\ k \in 0 .. MaxLen /\ desc[d].pos + k <= MaxLen
    <3>1. desc[d].pos \in 0 .. MaxLen /\ desc[d].ino \in Inodes
      BY <2>3 DEF DescRecords
    <3>2. \A x \in 0 .. MaxLen : x + len <= MaxLen => x + k <= MaxLen /\ k <= MaxLen
      BY HostDescConstants
    <3> QED BY <2>1, <3>1, <3>2, HostDescConstants
  <2>5. \A i \in Pos : i < k => data'[desc[d].ino][desc[d].pos + i] = Encoded(desc[d], i)
    <3> SUFFICES ASSUME NEW i \in Pos, i < k
                 PROVE  data'[desc[d].ino][desc[d].pos + i] = Encoded(desc[d], i)
      OBVIOUS
    <3>1. /\ desc[d].pos + i \in Pos
          /\ desc[d].pos + i \in desc[d].pos .. desc[d].pos + k - 1
          /\ (desc[d].pos + i) - desc[d].pos = i
      BY <2>4, HostDescConstants DEF Pos
    <3>2. data'[desc[d].ino] = [j \in Pos |->
             IF j \in desc[d].pos .. desc[d].pos + k - 1
             THEN [n \in Pos |-> Encoded(desc[d], n)][j - desc[d].pos]
             ELSE data[desc[d].ino][j]]
      BY <1>0, <2>2, <2>4 DEF HostStore, TypeOK
    <3> QED BY <3>1, <3>2
  <2>6. \A i \in Pos : Encoded(desc'[d], i) = Encoded(desc[d], i)
    BY <2>3, EncodedSame DEF SameOpening
  <2>7. WriteIntact'
    BY <2>2, <2>3, <2>4, <2>5, <2>6 DEF WriteIntact, SameOpening
  <2> QED BY <1>0, <2>1, <2>7 DEF ReadBackInv, ReadBackAfterWrite
<1>4. ASSUME NEW off \in Pos, NEW len \in 1 .. MaxLen, NaClHostDescPRead(d, off, len)
      PROVE  ReadBackInv'
  <2>1. UNCHANGED <<data, desc, lastw, pc>> /\ pc = "run"
    BY <1>4 DEF NaClHostDescPRead
  <2>2. lastr'.call = "pread"
    BY <1>4 DEF NaClHostDescPRead
  <2>3. WriteIntact'
    BY <2>1, IntactKept DEF ReadBackInv, WriteIntact, SameOpening
  <2> QED BY <1>0, <2>1, <2>2, <2>3 DEF ReadBackInv, ReadBackAfterWrite
<1>5. ASSUME NEW off \in Pos, NEW len \in 1 .. MaxLen, NaClHostDescPWrite(d, off, len)
      PROVE  ReadBackInv'
  <2>0. desc[d].ino \in Inodes /\ UNCHANGED desc
    BY <1>0, <1>5, OpenDesc DEF NaClHostDescPWrite, DescRecords
  <2>1. CASE desc[d].append
    <3>1. UNCHANGED <<data, lastw, lastr>> /\ pc' = "abort"
      BY <1>5, <2>1 DEF NaClHostDescPWrite
    <3>2. WriteIntact'
      BY <2>0, <3>1, IntactKept DEF ReadBackInv, WriteIntact, SameOpening
    <3> QED BY <1>0, <2>0, <3>1, <3>2 DEF ReadBackInv, ReadBackAfterWrite
  <2>2. CASE ~desc[d].append
    <3>1. lastr' = None /\ Forget(desc[d].ino) /\ pc' = "run"
      BY <1>5, <2>2 DEF NaClHostDescPWrite
    <3>2. \A n \in Inodes : n # desc[d].ino => data'[n] = data[n]
      BY <1>0, <1>5, <2>2 DEF NaClHostDescPWrite, HostStore, TypeOK
    <3>3. WriteIntact'
      BY <2>0, <3>1, <3>2, IntactKept DEF ReadBackInv, WriteIntact, SameOpening, Forget
    <3> QED BY <1>0, <3>1, <3>3 DEF ReadBackInv, ReadBackAfterWrite
  <2> QED BY <2>1, <2>2
<1>6. ASSUME NEW off \in 0 .. MaxLen, NaClHostDescSeek(d, off)
      PROVE  ReadBackInv'
  <2>1. /\ desc[d].open /\ pc' = "run" /\ UNCHANGED <<data, lastw, lastr>>
        /\ desc' = [desc EXCEPT ![d].pos = off]
    BY <1>6 DEF NaClHostDescSeek
  <2>2. WriteIntact'
    BY <1>0, <2>1, MoveSame, IntactKept DEF ReadBackInv, WriteIntact
  <2> QED BY <1>0, <2>1, <2>2 DEF ReadBackInv, ReadBackAfterWrite
<1>7. ASSUME NEW off \in 0 .. MaxLen, NaClHostDescFtruncate(d, off)
      PROVE  ReadBackInv'
  <2>1. lastr' = None /\ Forget(desc[d].ino) /\ pc' = "run" /\ UNCHANGED desc
    BY <1>7 DEF NaClHostDescFtruncate
  <2>2. \A n \in Inodes : n # desc[d].ino => data'[n] = data[n]
    BY <1>0, <1>7 DEF NaClHostDescFtruncate, HostTruncate, TypeOK
  <2>3. WriteIntact'
    BY <2>1, <2>2, IntactKept DEF ReadBackInv, WriteIntact, SameOpening, Forget
  <2> QED BY <1>0, <2>1, <2>3 DEF ReadBackInv, ReadBackAfterWrite
<1>8. CASE NaClHostDescClose(d)
  <2>1. /\ desc' = [desc EXCEPT ![d] = FreeDesc] /\ UNCHANGED data
        /\ lastr' = None /\ pc' = "run"
        /\ lastw' = IF lastw # None /\ lastw.d = d THEN None ELSE lastw
    BY <1>8 DEF NaClHostDescClose
  <2>2. \A e \in Descs \ {d} : desc'[e] = desc[e]
    BY <1>0, <2>1 DEF TypeOK
  <2>3. WriteIntact'
    BY <2>1, <2>2, IntactKept DEF ReadBackInv, WriteIntact, SameOpening
  <2> QED BY <1>0, <2>1, <2>3 DEF ReadBackInv, ReadBackAfterWrite
<1> QED BY <1>1, <1>2, <1>3, <1>4, <1>5, <1>6, <1>7, <1>8 DEF DescStep

\* The operations on paths: truncate() makes the program forget the write to the
\* file, the others change names only.
LEMMA PathStepReadBack ==
  ASSUME ReadBackInv, NEW p \in Paths, PathStep(p)
  PROVE  ReadBackInv'
<1> USE DEF server, names, host, hist, Uses
<1>0. TypeOK /\ TypeOK'
  BY PathStepType DEF ReadBackInv
<1>1. ASSUME NEW len \in 0 .. MaxLen, NaClHostDescTruncate(p, len)
      PROVE  ReadBackInv'
  <2>1. lastr' = None /\ Forget(dir[p]) /\ pc' = "run" /\ UNCHANGED desc
    BY <1>1 DEF NaClHostDescTruncate
  <2>2. \A n \in Inodes : n # dir[p] => data'[n] = data[n]
    BY <1>0, <1>1 DEF NaClHostDescTruncate, HostTruncate, TypeOK
  <2>3. WriteIntact'
    BY <2>1, <2>2, IntactKept DEF ReadBackInv, WriteIntact, SameOpening, Forget
  <2> QED BY <1>0, <2>1, <2>3 DEF ReadBackInv, ReadBackAfterWrite
<1>2. ASSUME UNCHANGED <<data, desc, pc, req, lastw, lastr>>
      PROVE  ReadBackInv'
  <2>1. WriteIntact'
    BY <1>2, IntactKept DEF ReadBackInv, WriteIntact, SameOpening
  <2> QED BY <1>0, <1>2, <2>1 DEF ReadBackInv, ReadBackAfterWrite
<1>3. CASE NaClHostDescUnlink(p)
  BY <1>2, <1>3 DEF NaClHostDescUnlink
<1>4. ASSUME NEW q \in Paths, NaClHostDescRename(p, q) \/ NaClHostDescLink(p, q)
      PROVE  ReadBackInv'
  BY <1>2, <1>4 DEF NaClHostDescRename, NaClHostDescLink
<1>5. CASE Withdraw(p)
  BY <1>2, <1>5 DEF Withdraw
<1> QED BY <1>1, <1>3, <1>4, <1>5 DEF PathStep

\* Whatever key the key server gave out, however short the host's transfers are
\* and whatever the program does in between, a Read() that starts where the
\* descriptor's last Write() started returns the text.
THEOREM WritesReadBack == Spec => []ReadBackAfterWrite
<1>1. Init => ReadBackInv
  BY InitType DEF Init, ReadBackInv, WriteIntact, ReadBackAfterWrite
<1>2. ReadBackInv /\ [Next]_vars => ReadBackInv'
  <2> SUFFICES ASSUME ReadBackInv, [Next]_vars PROVE ReadBackInv'
    OBVIOUS
  <2>1. CASE OpenStep
    BY <2>1, OpenStepReadBack
  <2>2. CASE \E d \in Descs : DescStep(d)
    BY <2>2, DescStepReadBack
  <2>3. CASE \E p \in Paths : PathStep(p)
    BY <2>3, PathStepReadBack
  <2>4. CASE UNCHANGED vars
    <3>1. UNCHANGED <<server, names, data, size, desc, pc, req, lastw, lastr>>
      BY <2>4 DEF vars, server, names, host, hist
    <3> QED BY <3>1 DEF server, names, ReadBackInv, TypeOK, WriteIntact, ReadBackAfterWrite
  <2> QED BY <2>1, <2>2, <2>3, <2>4 DEF Next
<1>3. ReadBackInv => ReadBackAfterWrite
  BY DEF ReadBackInv
<1> QED BY <1>1, <1>2, <1>3, PTL DEF Spec

-----------------------------------------------------------------------------
(* Read-only descriptors.                                                  *)

\* All that happens to inode n is that it is cut, or extended with zeros.
Cut(n) ==
  /\ size'[n] \in 0 .. MaxLen
  /\ \A j \in Pos : data'[n][j] = IF j < size'[n] THEN data[n][j] ELSE {}

\* A store touches its own inode only.
LEMMA StoreElsewhere ==
  ASSUME TypeOK, NEW m \in Inodes, NEW s, NEW k, NEW content, HostStore(m, s, k, content),
         NEW n \in Inodes, n # m
  PROVE  UNCHANGED <<data[n], size[n]>>
  BY DEF HostStore, TypeOK

\* Truncation of one inode cuts it and leaves the others alone.
LEMMA TruncateCuts ==
  ASSUME TypeOK, NEW m \in Inodes, NEW len \in 0 .. MaxLen, HostTruncate(m, len),
         NEW n \in Inodes
  PROVE  UNCHANGED <<data[n], size[n]>> \/ Cut(n)
<1>1. CASE n # m
  BY <1>1 DEF HostTruncate, TypeOK
<1>2. CASE n = m
  <2>1. size'[n] = len /\ data'[n] = [j \in Pos |-> IF j < len THEN data[n][j] ELSE {}]
    BY <1>2 DEF HostTruncate, TypeOK
  <2> QED BY <2>1 DEF Cut
<1> QED BY <1>1, <1>2

\* The host empties a file only when it creates it, on an inode not in use.
LEMMA OpenStepKeepsFile ==
  ASSUME TypeOK, OpenStep, NEW n \in Inodes, InUse(n)
  PROVE  UNCHANGED <<data[n], size[n]>>
<1>1. CASE UNCHANGED <<data, size>>
  BY <1>1
<1>2. CASE ~UNCHANGED <<data, size>>
  <2>1. PICK m \in Inodes : sgx_ocall_open(req.path, m)
    BY <1>2 DEF OpenStep, check_file_status, send_tracelog, redis_get_key,
       NaClHostDescOpen, host
  <2>2. /\ m # n /\ data' = [data EXCEPT ![m] = [j \in Pos |-> {}]]
        /\ size' = [size EXCEPT ![m] = 0]
    BY <1>2, <2>1 DEF sgx_ocall_open
  <2> QED
    BY <2>2 DEF TypeOK
<1> QED
  BY <1>1, <1>2

\* An operation on a descriptor that stores asks for a mode that allows it.
LEMMA DescStepCuts ==
  ASSUME TypeOK, NEW d \in Descs, DescStep(d), NEW n \in Inodes, ~HasWriter(n)
  PROVE  UNCHANGED <<data[n], size[n]>> \/ Cut(n)
<1>1. CASE UNCHANGED <<data, size>>
  BY <1>1
<1>2. ASSUME NEW len \in 1 .. MaxLen, NaClHostDescWrite(d, len)
      PROVE  UNCHANGED <<data[n], size[n]>>
  <2>1. desc[d].open /\ desc[d].acc # "RDONLY" /\ desc[d].ino \in Inodes
    BY <1>2, OpenDesc DEF NaClHostDescWrite, DescRecords
  <2>2. n # desc[d].ino
    BY <2>1 DEF HasWriter
  <2> QED
    BY <1>2, <2>1, <2>2, StoreElsewhere DEF NaClHostDescWrite
<1>3. ASSUME NEW off \in Pos, NEW len \in 1 .. MaxLen, NaClHostDescPWrite(d, off, len),
             ~UNCHANGED <<data, size>>
      PROVE  UNCHANGED <<data[n], size[n]>>
  <2>1. desc[d].open /\ desc[d].acc # "RDONLY" /\ desc[d].ino \in Inodes
    BY <1>3, OpenDesc DEF NaClHostDescPWrite, DescRecords
  <2>2. n # desc[d].ino
    BY <2>1 DEF HasWriter
  <2>3. PICK k \in 0 .. len : HostStore(desc[d].ino, off, k, [i \in Pos |-> {Text}])
    BY <1>3 DEF NaClHostDescPWrite
  <2> QED
    BY <2>1, <2>2, <2>3, StoreElsewhere
<1>4. ASSUME NEW len \in 0 .. MaxLen, NaClHostDescFtruncate(d, len)
      PROVE  UNCHANGED <<data[n], size[n]>> \/ Cut(n)
  <2>1. desc[d].ino \in Inodes
    BY <1>4, OpenDesc DEF NaClHostDescFtruncate, DescRecords
  <2> QED
    BY <1>4, <2>1, TruncateCuts DEF NaClHostDescFtruncate
<1> QED
  BY <1>1, <1>2, <1>3, <1>4
  DEF DescStep, NaClSysOpen, NaClHostDescRead, NaClHostDescPRead, NaClHostDescSeek,
      NaClHostDescClose, host

\* The operations on paths store nothing.
LEMMA PathStepCuts ==
  ASSUME TypeOK, NEW p \in Paths, PathStep(p), NEW n \in Inodes
  PROVE  UNCHANGED <<data[n], size[n]>> \/ Cut(n)
<1>1. CASE UNCHANGED <<data, size>>
  BY <1>1
<1>2. ASSUME NEW len \in 0 .. MaxLen, NaClHostDescTruncate(p, len)
      PROVE  UNCHANGED <<data[n], size[n]>> \/ Cut(n)
  <2>1. dir[p] \in Inodes
    BY <1>2 DEF NaClHostDescTruncate, TypeOK
  <2> QED
    BY <1>2, <2>1, TruncateCuts DEF NaClHostDescTruncate
<1> QED
  BY <1>1, <1>2
  DEF PathStep, NaClHostDescUnlink, NaClHostDescRename, NaClHostDescLink, Withdraw, host

\* While all descriptors of a file in use are read-only, a call of the program
\* leaves the file as it is or truncates it: Write() and PWrite() are the only
\* operations that store, both ask for a mode other than RDONLY, and
\* sgx_ocall_open(), which gives the host descriptor every right, empties only
\* what it creates.  That ftruncate() on a read-only descriptor is among the
\* calls that truncate is how the code is.
THEOREM ReadersCutOnly == Spec => ReadersOnlyTruncate
<1>1. ASSUME TypeOK, [Next]_vars, NEW n \in Inodes, InUse(n),
             \A d \in Descs : desc[d].open /\ desc[d].ino = n => desc[d].acc = "RDONLY"
      PROVE  UNCHANGED <<data[n], size[n]>> \/ Cut(n)
  <2>1. ~HasWriter(n)
    BY <1>1 DEF HasWriter
  <2>2. CASE OpenStep
    BY <1>1, <2>2, OpenStepKeepsFile
  <2>3. CASE \E d \in Descs : DescStep(d)
    BY <1>1, <2>1, <2>3, DescStepCuts
  <2>4. CASE \E p \in Paths : PathStep(p)
    BY <1>1, <2>4, PathStepCuts
  <2>5. CASE UNCHANGED vars
    BY <2>5 DEF vars, host
  <2> QED
    BY <1>1, <2>2, <2>3, <2>4, <2>5 DEF Next
<1>2. TypeOK /\ [Next]_vars =>
        [\A n \in Inodes :
           InUse(n) /\ (\A d \in Descs :
                          desc[d].open /\ desc[d].ino = n => desc[d].acc = "RDONLY")
             => \/ UNCHANGED <<data[n], size[n]>>
                \/ /\ size'[n] \in 0 .. MaxLen
                   /\ \A j \in Pos :
                        data'[n][j] = IF j < size'[n] THEN data[n][j] ELSE {}]_vars
  BY <1>1 DEF Cut
<1> QED
  BY <1>2, AgentTypeCorrect, PTL DEF Spec, ReadersOnlyTruncate
=============================================================================
