------------------------------ MODULE HostDesc ------------------------------
(***************************************************************************)
(* The I/O agent of the enclave (shared/platform/sgx/nacl_host_desc.c):    *)
(* opening a file asks the trace server whether the file is available,     *)
(* sends it a trace record, fetches a key from the key server and only     *)
(* then opens the host file; reads and writes apply AES-CTR when the       *)
(* descriptor has a usable key.  The untrusted half of each call is        *)
(* trusted/xcall/ocall_*_u.c; the enclave is single-threaded, the servers  *)
(* and the host run beside it.                                             *)
(*                                                                         *)
(* A file position holds the set of values that have been XORed there: {}  *)
(* is a zero, {Text} the program's text, {Text, <<iv, i>>} that text under *)
(* the i-th position of the key stream for iv.  All descriptors have the   *)
(* same key (redis_get_key() asks for a fixed name).                       *)
(***************************************************************************)
EXTENDS Integers

CONSTANTS
  Paths,    \* host path names
  Inodes,   \* host files
  Descs,    \* NaClHostDesc objects
  Ivs,      \* possible initial contents of the malloc()ed DescCTX.iv
  MaxLen,   \* bound: the largest file size
  Calls,    \* the system calls, and open flags, that the program uses
  Lossy,    \* messages to and from the servers may be lost
  Text,     \* data written by the program
  None      \* no inode, no write

ASSUME HostDescConstants ==
  /\ MaxLen \in Nat \ {0}
  /\ Lossy \in BOOLEAN
  /\ Ivs # {}
  /\ None \notin Inodes
  /\ Text \notin Ivs \X (0 .. MaxLen - 1)

VARIABLES
  status,   \* trace server: the file is available
  log,      \* trace server: paths whose trace record has arrived
  lost,     \* history: paths whose record was sent and has not arrived
  dir,      \* host: the inode of a path, or None
  data,     \* host: the content of an inode
  size,     \* host: its size
  writers,  \* history: the paths under which an inode was opened for writing
  desc,     \* the NaClHostDesc objects
  pc,       \* control point in NaClHostDescOpen(), or how the enclave ended
  req,      \* the arguments and the DescCTX of that call
  lastw,    \* history: the most recent write through Write(), if intact
  lastr     \* history: the most recent read: what the program got

server == <<status, log, lost>>
names  == <<dir, writers>>
host   == <<names, data, size>>
hist   == <<lastw, lastr>>
vars   == <<server, host, desc, pc, req, hist>>

Pos      == 0 .. MaxLen - 1
Accesses == {"RDONLY", "WRONLY", "RDWR"}
\* What redis_get_key() leaves in DescCTX: no key, a key whose length is not
\* 64, or a key that Read() and Write() use.
KeyStates == {"null", "odd", "usable"}
Residues == {Text} \cup (Ivs \X Pos)

FreeDesc == [open |-> FALSE]

Init ==
  /\ status = [p \in Paths |-> TRUE]
  /\ log = {}
  /\ lost = {}
  /\ dir = [p \in Paths |-> None]
  /\ data = [n \in Inodes |-> [j \in Pos |-> {}]]
  /\ size = [n \in Inodes |-> 0]
  /\ writers = [n \in Inodes |-> {}]
  /\ desc = [d \in Descs |-> FreeDesc]
  /\ pc = "run"
  /\ req = None
  /\ lastw = None
  /\ lastr = None

-----------------------------------------------------------------------------
(* AES in counter mode, as ReadFile() and WriteFile() use it: each call    *)
(* sets the key anew and so starts at the first position of the stream.    *)

Xor(a, b) == (a \ b) \cup (b \ a)

Usable(c) == c.key = "usable"

Mask(c, i) == IF Usable(c) THEN {<<c.iv, i>>} ELSE {}

\* Mutant: the writer carries the counter on from call to call.
EncodedAtOffset(c, i) == Xor({Text}, Mask(c, c.pos + i))

\* What WriteFile(), or the plain path of NaClHostDescWrite(), hands to the
\* host as the i-th unit, and what ReadFile() makes of a unit it got.
Encoded(c, i) == Xor({Text}, Mask(c, i))
Decoded(c, i, cell) == Xor(cell, Mask(c, i))

-----------------------------------------------------------------------------
(* The host.                                                               *)

\* The first k units of content are stored at position s of inode n.
HostStore(n, s, k, content) ==
  /\ data' = [data EXCEPT ![n] =
                [j \in Pos |-> IF j \in s .. s + k - 1 THEN content[j - s] ELSE @[j]]]
  /\ size' = [size EXCEPT ![n] = IF k > 0 /\ s + k > @ THEN s + k ELSE @]

HostTruncate(n, len) ==
  /\ data' = [data EXCEPT ![n] = [j \in Pos |-> IF j < len THEN @[j] ELSE {}]]
  /\ size' = [size EXCEPT ![n] = len]

InUse(n) == (\E p \in Paths : dir[p] = n) \/ (\E d \in Descs : desc[d].open /\ desc[d].ino = n)

\* sgx_ocall_open() opens every file O_RDWR|O_CREAT, whatever the flags say:
\* an existing file is kept as it is, a missing one is created.
sgx_ocall_open(p, n) ==
  IF dir[p] # None
  THEN n = dir[p] /\ UNCHANGED <<dir, data, size>>
  ELSE /\ ~InUse(n)
       /\ dir' = [dir EXCEPT ![p] = n]
       /\ data' = [data EXCEPT ![n] = [j \in Pos |-> {}]]
       /\ size' = [size EXCEPT ![n] = 0]

-----------------------------------------------------------------------------
(* NaClSysOpen() and NaClHostDescOpen().                                   *)

Uses(call) == pc = "run" /\ call \in Calls

\* NaClSysOpen() allocates the NaClHostDesc and its DescCTX, with no key and
\* an uninitialised iv.  "bad" stands for an invalid access mode.
NaClSysOpen(d, p, acc, append) ==
  /\ pc = "run" /\ ~desc[d].open
  /\ append => "append" \in Calls
  /\ \E v \in Ivs :
       req' = [d |-> d, path |-> p, acc |-> acc, append |-> append, key |-> "null", iv |-> v]
  /\ pc' = "check"
  /\ UNCHANGED <<server, host, desc, hist>>

OpenFails == pc' = "run" /\ req' = None

\* Mutant: no trace record is sent.
CheckSkipsTrace ==
  /\ pc = "check"
  /\ \/ status[req.path] /\ pc' = "key" /\ UNCHANGED req
     \/ OpenFails
  /\ UNCHANGED <<server, host, desc, hist>>

\* check_file_status(): the reply is a pointer into a dead stack frame, so an
\* "A" may be read as something else; nothing that runs before the comparison
\* writes an "A" over another answer.  A lost reply is a NULL passed to strcmp.
check_file_status ==
  /\ pc = "check"
  /\ \/ status[req.path] /\ pc' = "trace" /\ UNCHANGED req
     \/ OpenFails
     \/ Lossy /\ pc' = "crash" /\ UNCHANGED req
  /\ UNCHANGED <<server, host, desc, hist>>

\* Mutant: the record is sent only when the file is opened for writing.
TraceWritersOnly ==
  /\ pc = "trace"
  /\ log' = IF req.acc = "WRONLY" THEN log \cup {req.path} ELSE log
  /\ pc' = "key"
  /\ UNCHANGED <<status, lost, host, desc, req, hist>>

\* NaClGetTimeOfDay() may fail the call; send_tracelog() returns 0 whether or
\* not the record got through (its "try again" looks at a buffer that no reply
\* is read into), and after a failed write reads from a connection it has freed.
send_tracelog ==
  /\ pc = "trace"
  /\ \/ /\ pc' = "key" /\ UNCHANGED req
        /\ log' = log \cup {req.path}
        /\ lost' = lost \ {req.path}
     \/ /\ pc' \in {"key", "crash"} /\ Lossy /\ UNCHANGED <<log, req>>
        /\ lost' = (lost \cup {req.path}) \ log
     \/ OpenFails /\ UNCHANGED <<log, lost>>
  /\ UNCHANGED <<status, host, desc, hist>>

\* redis_get_key(); NaClHostDescOpen() ignores its result.
redis_get_key ==
  /\ pc = "key"
  /\ \/ /\ pc' = "open"
        /\ \E k \in KeyStates : req' = [req EXCEPT !.key = k]
     \/ Lossy /\ pc' = "crash" /\ UNCHANGED req
  /\ UNCHANGED <<server, host, desc, hist>>

\* The rest of NaClHostDescOpen(): the access mode is checked, the host file
\* opened, and NaClHostDescCtor() completes the descriptor.
NaClHostDescOpen ==
  /\ pc = "open"
  /\ OpenFails
  /\ \/ UNCHANGED <<host, desc>>
     \/ /\ req.acc \in Accesses
        /\ \E n \in Inodes :
             /\ sgx_ocall_open(req.path, n)
             /\ writers' = [writers EXCEPT ![n] =
                  (IF dir[req.path] = None THEN {} ELSE @)
                  \cup (IF req.acc = "RDONLY" THEN {} ELSE {req.path})]
             /\ desc' = [desc EXCEPT ![req.d] =
                  [open |-> TRUE, path |-> req.path, ino |-> n, acc |-> req.acc,
                   append |-> req.append, key |-> req.key, iv |-> req.iv, pos |-> 0]]
  /\ UNCHANGED <<server, hist>>

-----------------------------------------------------------------------------
(* Operations on an open descriptor.  The host may transfer less than it   *)
(* is asked to.                                                            *)

\* The last write is no longer intact once its inode, or its descriptor, has
\* been touched in another way.
Forget(n) == lastw' = IF lastw # None /\ lastw.ino = n THEN None ELSE lastw

\* Mutant: the position moves by what was asked for.
ReadMovesByRequest(d, len) ==
  LET c == desc[d] IN
  /\ Uses("read") /\ c.open
  /\ c.acc # "WRONLY"
  /\ desc' = [desc EXCEPT ![d].pos = @ + len]
  /\ UNCHANGED <<server, host, pc, req, hist>>

NaClHostDescRead(d, len) ==
  LET c == desc[d] IN
  /\ Uses("read") /\ c.open
  /\ c.acc # "WRONLY"
  /\ \E k \in 0 .. len :
       /\ c.pos + k <= size[c.ino] \/ k = 0
       /\ lastr' = [call |-> "read", d |-> d, start |-> c.pos,
                    buf |-> [i \in 0 .. k - 1 |-> Decoded(c, i, data[c.ino][c.pos + i])]]
       /\ desc' = [desc EXCEPT ![d].pos = @ + k]
  /\ UNCHANGED <<server, host, pc, req, lastw>>

\* Mutant: the access mode is not checked.
WriteAnyMode(d, len) ==
  LET c == desc[d] IN
  /\ Uses("write") /\ c.open
  /\ c.pos + len <= MaxLen
  /\ HostStore(c.ino, c.pos, len, [i \in Pos |-> Encoded(c, i)])
  /\ desc' = [desc EXCEPT ![d].pos = @ + len]
  /\ lastr' = None
  /\ UNCHANGED <<server, names, pc, req, lastw>>

NaClHostDescWrite(d, len) ==
  LET c == desc[d] IN
  /\ Uses("write") /\ c.open
  /\ c.acc # "RDONLY"
  /\ c.pos + len <= MaxLen
  /\ \E k \in 0 .. len :
       /\ HostStore(c.ino, c.pos, k, [i \in Pos |-> Encoded(c, i)])
       /\ desc' = [desc EXCEPT ![d].pos = @ + k]
       /\ lastw' = [d |-> d, ino |-> c.ino, start |-> c.pos, len |-> k]
  /\ lastr' = None
  /\ UNCHANGED <<server, names, pc, req>>

\* pread() and pwrite() go to the host as they are.
NaClHostDescPRead(d, off, len) ==
  LET c == desc[d] IN
  /\ Uses("pread") /\ c.open
  /\ c.acc # "WRONLY"
  /\ \E k \in 0 .. len :
       /\ off + k <= size[c.ino] \/ k = 0
       /\ lastr' = [call |-> "pread", d |-> d, start |-> off,
                    buf |-> [i \in 0 .. k - 1 |-> data[c.ino][off + i]]]
  /\ UNCHANGED <<server, host, desc, pc, req, lastw>>

\* With O_APPEND the host descriptor's flag is CHECKed and lifted around the
\* pwrite(); sgx_ocall_open() has not set it, so the CHECK fails.
NaClHostDescPWrite(d, off, len) ==
  LET c == desc[d] IN
  /\ Uses("pwrite") /\ c.open
  /\ c.acc # "RDONLY"
  /\ off + len <= MaxLen
  /\ IF c.append
     THEN pc' = "abort" /\ UNCHANGED <<data, size, hist>>
     ELSE /\ \E k \in 0 .. len : HostStore(c.ino, off, k, [i \in Pos |-> {Text}])
          /\ Forget(c.ino)
          /\ lastr' = None
          /\ UNCHANGED pc
  /\ UNCHANGED <<server, names, desc, req>>

NaClHostDescSeek(d, off) ==
  /\ Uses("seek") /\ desc[d].open
  /\ desc' = [desc EXCEPT ![d].pos = off]
  /\ UNCHANGED <<server, host, pc, req, hist>>

\* No access mode is asked for.
NaClHostDescFtruncate(d, len) ==
  /\ Uses("truncate") /\ desc[d].open
  /\ HostTruncate(desc[d].ino, len)
  /\ Forget(desc[d].ino)
  /\ lastr' = None
  /\ UNCHANGED <<server, names, desc, pc, req>>

\* The last reference goes: the host descriptor is closed, the object freed.
NaClHostDescClose(d) ==
  /\ pc = "run" /\ desc[d].open
  /\ desc' = [desc EXCEPT ![d] = FreeDesc]
  /\ lastw' = IF lastw # None /\ lastw.d = d THEN None ELSE lastw
  /\ lastr' = None
  /\ UNCHANGED <<server, host, pc, req>>

-----------------------------------------------------------------------------
(* Operations on paths go to the host with neither check nor trace.        *)

NaClHostDescTruncate(p, len) ==
  /\ Uses("truncate") /\ dir[p] # None
  /\ HostTruncate(dir[p], len)
  /\ Forget(dir[p])
  /\ lastr' = None
  /\ UNCHANGED <<server, names, desc, pc, req>>

NaClHostDescUnlink(p) ==
  /\ Uses("unlink") /\ dir[p] # None
  /\ dir' = [dir EXCEPT ![p] = None]
  /\ UNCHANGED <<server, data, size, writers, desc, pc, req, hist>>

NaClHostDescRename(p, q) ==
  /\ Uses("rename") /\ dir[p] # None
  /\ dir' = IF dir[p] = dir[q] THEN dir ELSE [dir EXCEPT ![q] = dir[p], ![p] = None]
  /\ UNCHANGED <<server, data, size, writers, desc, pc, req, hist>>

NaClHostDescLink(p, q) ==
  /\ Uses("link") /\ dir[p] # None /\ dir[q] = None
  /\ dir' = [dir EXCEPT ![q] = dir[p]]
  /\ UNCHANGED <<server, data, size, writers, desc, pc, req, hist>>

-----------------------------------------------------------------------------
\* The data owner has a file deleted: the trace server withdraws it.
Withdraw(p) ==
  /\ status[p]
  /\ status' = [status EXCEPT ![p] = FALSE]
  /\ UNCHANGED <<log, lost, host, desc, pc, req, hist>>

OpenStep == check_file_status \/ send_tracelog \/ redis_get_key \/ NaClHostDescOpen

DescStep(d) ==
  \/ \E p \in Paths, acc \in Accesses \cup {"bad"}, append \in BOOLEAN :
       NaClSysOpen(d, p, acc, append)
  \/ \E len \in 1 .. MaxLen : NaClHostDescRead(d, len) \/ NaClHostDescWrite(d, len)
  \/ \E off \in Pos, len \in 1 .. MaxLen :
       NaClHostDescPRead(d, off, len) \/ NaClHostDescPWrite(d, off, len)
  \/ \E off \in 0 .. MaxLen : NaClHostDescSeek(d, off) \/ NaClHostDescFtruncate(d, off)
  \/ NaClHostDescClose(d)

PathStep(p) ==
  \/ \E len \in 0 .. MaxLen : NaClHostDescTruncate(p, len)
  \/ NaClHostDescUnlink(p)
  \/ \E q \in Paths : NaClHostDescRename(p, q) \/ NaClHostDescLink(p, q)
  \/ Withdraw(p)

Next ==
  \/ OpenStep
  \/ \E d \in Descs : DescStep(d)
  \/ \E p \in Paths : PathStep(p)

Spec == Init /\ [][Next]_vars

-----------------------------------------------------------------------------
(* Properties.                                                             *)

DescRecords ==
  [open : {TRUE}, path : Paths, ino : Inodes, acc : Accesses, append : BOOLEAN,
   key : KeyStates, iv : Ivs, pos : 0 .. MaxLen]
Requests ==
  [d : Descs, path : Paths, acc : Accesses \cup {"bad"}, append : BOOLEAN,
   key : KeyStates, iv : Ivs]

\* Every variable keeps its type, and a request exists just while a call of
\* NaClHostDescOpen() is under way.
TypeOK ==
  /\ status \in [Paths -> BOOLEAN]
  /\ log \in SUBSET Paths /\ lost \in SUBSET Paths
  /\ dir \in [Paths -> Inodes \cup {None}]
  /\ data \in [Inodes -> [Pos -> SUBSET Residues]]
  /\ size \in [Inodes -> 0 .. MaxLen]
  /\ writers \in [Inodes -> SUBSET Paths]
  /\ desc \in [Descs -> {FreeDesc} \cup DescRecords]
  /\ pc \in {"run", "check", "trace", "key", "open", "abort", "crash"}
  /\ pc \in {"check", "trace", "key", "open"} => req \in Requests
  /\ pc \in {"run", "abort"} => req = None

HoldsText(n) == \E j \in Pos : Text \in data[n][j]

\* A host file with text of the program has been opened for writing under a path
\* whose record was sent, and has arrived unless it got lost on the way.  This
\* is what the open and the access tests give, whatever names the file gets by
\* rename() and link(), or loses.
DataIsTraced ==
  \A n \in Inodes : HoldsText(n) => writers[n] \cap (log \cup lost) # {}

\* The inductive invariant behind DataIsTraced (HostDescProofs): the record goes
\* ahead of the open, a descriptor that writes came by one of the opens that
\* writers remembers, and without Lossy no record gets lost.
TraceInv ==
  /\ TypeOK /\ DataIsTraced
  /\ Lossy \/ lost = {}
  /\ pc \in {"key", "open"} => req.path \in log \cup lost
  /\ \A n \in Inodes : writers[n] \subseteq log \cup lost
  /\ \A d \in Descs :
       desc[d].open /\ desc[d].acc # "RDONLY" => desc[d].path \in writers[desc[d].ino]

\* A Read() that starts where the descriptor's last Write() started returns
\* what was written, however short either fell and whatever the key.
ReadBackAfterWrite ==
  lastr # None /\ lastw # None
    /\ lastr.call = "read" /\ lastr.d = lastw.d /\ lastr.start = lastw.start
    => \A i \in DOMAIN lastr.buf : i < lastw.len => lastr.buf[i] = {Text}

\* The last write is intact in the file and its descriptor still has the key and
\* the iv it was written with.
WriteIntact ==
  lastw # None =>
    /\ lastw \in [d : Descs, ino : Inodes, start : 0 .. MaxLen, len : 0 .. MaxLen]
    /\ lastw.start + lastw.len <= MaxLen
    /\ desc[lastw.d].open /\ desc[lastw.d].ino = lastw.ino
    /\ \A i \in Pos : i < lastw.len =>
         data[lastw.ino][lastw.start + i] = Encoded(desc[lastw.d], i)

\* The inductive invariant behind ReadBackAfterWrite (HostDescProofs); an open
\* under way has not reached the descriptor it will complete.
ReadBackInv ==
  /\ TypeOK /\ WriteIntact /\ ReadBackAfterWrite
  /\ pc \in {"check", "trace", "key", "open"} => ~desc[req.d].open

\* The host opens every file for reading and writing, so only the agent's own
\* tests of the access mode keep the text of a file whose descriptors are all
\* read-only.  ftruncate() has no such test: a read-only descriptor can cut the
\* file, as a call on its name can, and that is all that happens to it.
ReadersOnlyTruncate ==
  [][\A n \in Inodes :
       InUse(n) /\ (\A d \in Descs : desc[d].open /\ desc[d].ino = n => desc[d].acc = "RDONLY")
         => \/ UNCHANGED <<data[n], size[n]>>
            \/ /\ size'[n] \in 0 .. MaxLen
               /\ \A j \in Pos : data'[n][j] = IF j < size'[n] THEN data[n][j] ELSE {}]_vars

\* What the program reads is what it wrote, or a zero of a hole: the
\* expectation of nacl_host_desc_pread_pwrite_test.c ("pwrites show up w/
\* seek/read").
ReadReturnsWhatWasWritten ==
  lastr # None => \A i \in DOMAIN lastr.buf : lastr.buf[i] \subseteq {Text}
=============================================================================
