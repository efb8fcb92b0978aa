------------------------------ MODULE DescTable ------------------------------
(***************************************************************************)
(* The descriptor table of the program and the references to descriptors  *)
(* (NaClAppGetDesc and NaClAppSetDesc in trusted/service_runtime/          *)
(* sel_ldr.c, dyn_array.c, the calls of sys_fdio.c, sys_imc.c,             *)
(* sys_memory.c, nacl_syscall_common.c and sys_socket.c, and              *)
(* nacl_base/nacl_refcount.c).                                             *)
(*                                                                         *)
(* A descriptor is shared by the numbers of the table, by the mappings of  *)
(* the address space and by the calls that are using it, and it is         *)
(* destroyed by whoever drops the last reference.  One step is what a call *)
(* does under one hold of desc_mu (or of the lock of the address space);   *)
(* between its steps another thread may close, replace or reuse the number.*)
(***************************************************************************)
EXTENDS Integers, Sequences, FiniteSets, SequencesExt, FiniteSetsExt

CONSTANTS Threads,
          Descs,         \* descriptors that can exist at a time
          NumFds,        \* size of the table; calls that could fill it wait
          BitsPerWord,   \* kBitsPerWord of the bitmap of open numbers
          Mappings,      \* mappings the address space has room for
          Calls,         \* the system calls the program makes
          Null

\* What the constants must be.
DescTableConstants ==
  /\ IsFiniteSet(Threads) /\ IsFiniteSet(Mappings)
  /\ NumFds \in Nat \ {0} /\ BitsPerWord \in Nat \ {0}
  /\ Null \notin Descs

VARIABLES
  desc_tbl,    \* nap->desc_tbl
  avail_ix,    \* the word of the bitmap at which the search for a free number starts
  mem_map,     \* the descriptors of the entries of nap->mem_map
  ref_count,   \* of each descriptor; 0 when it does not exist
  fatal,       \* an unreference found no reference, or no descriptor
  pc,          \* control of a call
  held,        \* the references a call owns, in the order it drops or stores them
  number       \* numbers the call was given or has published

vars == <<desc_tbl, avail_ix, mem_map, ref_count, fatal, pc, held, number>>

Fds == 0 .. NumFds - 1
MaxHeld == 3   \* no call owns more references
Controls == {"user", "publish", "replace", "second", "map",
             "first", "pair", "copyout", "retract", "send", "receive", "store", "unref"}

Init ==
  /\ desc_tbl = [n \in Fds |-> Null]
  /\ avail_ix = 0
  /\ mem_map = [p \in Mappings |-> Null]
  /\ ref_count = [d \in Descs |-> 0]
  /\ fatal = FALSE
  /\ pc = [t \in Threads |-> "user"]
  /\ held = [t \in Threads |-> <<>>]
  /\ number = [t \in Threads |-> <<>>]

-----------------------------------------------------------------------------
(* The parts a call is made of.                                            *)

Calling(t, call) == pc[t] = "user" /\ call \in Calls

Goto(t, control, descs, numbers) ==
  /\ pc' = [pc EXCEPT ![t] = control]
  /\ held' = [held EXCEPT ![t] = descs]
  /\ number' = [number EXCEPT ![t] = numbers]

Return(t) == Goto(t, "user", <<>>, <<>>)

\* NaClDescSafeUnref(d) of a count: Null is left alone, and so is a count of
\* zero, of which the caller reports Fatal.
Unref(count, d) == IF d = Null \/ count[d] = 0 THEN count ELSE [count EXCEPT ![d] = @ - 1]
Fatal(count, d) == d # Null /\ count[d] = 0

Ref(count, d) == [count EXCEPT ![d] = @ + 1]

\* NaClAppGetDesc: the caller owns a reference to what it finds.
GetDesc(fd) ==
  /\ desc_tbl[fd] # Null
  /\ ref_count' = Ref(ref_count, desc_tbl[fd])

WordOf(n) == n \div BitsPerWord
Open(n) == desc_tbl[n] # Null

\* Mutant of DynArraySet: closing a number leaves the search where it was.
SetKeepsHint(n, d) ==
  /\ desc_tbl' = [desc_tbl EXCEPT ![n] = d]
  /\ UNCHANGED avail_ix

\* DynArraySet: the bit of the number follows the entry, and freeing a number
\* moves the start of the search down to it.
DynArraySet(n, d) ==
  /\ desc_tbl' = [desc_tbl EXCEPT ![n] = d]
  /\ avail_ix' = IF d = Null /\ WordOf(n) < avail_ix THEN WordOf(n) ELSE avail_ix

\* Mutant of SetDesc: the entry that is replaced keeps its reference.
SetDescKeepsOld(n, d) == DynArraySet(n, d) /\ UNCHANGED <<ref_count, fatal>>

\* NaClAppSetDesc: the table takes over a reference of the caller, and drops
\* the one it had.
SetDesc(n, d) ==
  /\ DynArraySet(n, d)
  /\ ref_count' = Unref(ref_count, desc_tbl[n])
  /\ fatal' = (fatal \/ Fatal(ref_count, desc_tbl[n]))

\* DynArrayFirstAvail: words that are full are skipped, and the search starts
\* there the next time.  The bound of the table keeps a number free.
FirstAvail == Min({n \in Fds : WordOf(n) >= avail_ix /\ ~Open(n)})

\* NaClAppSetDescAvail.  The entry is free, so nothing is dropped.
SetDescAvail(d) ==
  /\ \E n \in Fds : WordOf(n) >= avail_ix /\ ~Open(n)
  /\ desc_tbl' = [desc_tbl EXCEPT ![FirstAvail] = d]
  /\ avail_ix' = WordOf(FirstAvail)
  /\ UNCHANGED <<ref_count, fatal>>

\* How many numbers the calls in progress may still open.
Pending(t) == CASE pc[t] \in {"publish", "pair"} -> 1
                [] pc[t] \in {"first", "receive"} -> 2
                [] pc[t] = "store" -> Len(held[t]) - 1
                [] OTHER -> 0
Room(k) == Cardinality({n \in Fds : Open(n)})
             + MapThenSumSet(Pending, Threads) + k <= NumFds

\* A new descriptor.  Which one makes no difference.
Unused == {d \in Descs : ref_count[d] = 0}
New(descs) == CHOOSE d \in descs : TRUE

-----------------------------------------------------------------------------
(* Opening, duplicating and closing numbers (sys_filename.c, sys_fdio.c).  *)

\* NaClSysOpen, NaClSysMutexCreate and the like make a descriptor, ...
Make(t) ==
  /\ Calling(t, "open") /\ Room(1)
  /\ Unused # {}
  /\ ref_count' = [ref_count EXCEPT ![New(Unused)] = 1]
  /\ Goto(t, "publish", <<New(Unused)>>, <<>>)
  /\ UNCHANGED <<desc_tbl, avail_ix, mem_map, fatal>>

\* ... NaClSysDup looks one up, ...
Dup(t, fd) ==
  /\ Calling(t, "dup") /\ Room(1)
  /\ GetDesc(fd)
  /\ Goto(t, "publish", <<desc_tbl[fd]>>, <<>>)
  /\ UNCHANGED <<desc_tbl, avail_ix, mem_map, fatal>>

\* ... NaClSysImcAccept and NaClSysSocketAccept look one up and make another
\* from it, or fail, ...
Accept(t, fd) ==
  /\ Calling(t, "accept") /\ Room(1) /\ Open(fd)
  /\ \/ /\ Unused # {}
        /\ ref_count' = [Ref(ref_count, desc_tbl[fd]) EXCEPT ![New(Unused)] = 1]
        /\ Goto(t, "publish", <<New(Unused), desc_tbl[fd]>>, <<>>)
     \/ GetDesc(fd) /\ Goto(t, "unref", <<desc_tbl[fd]>>, <<>>)
  /\ UNCHANGED <<desc_tbl, avail_ix, mem_map, fatal>>

\* ... and they store it at the first free number.
Publish(t) ==
  /\ pc[t] = "publish"
  /\ SetDescAvail(Head(held[t]))
  /\ IF Len(held[t]) = 1 THEN Return(t) ELSE Goto(t, "unref", Tail(held[t]), <<>>)
  /\ UNCHANGED mem_map

\* NaClSysDup2 stores it at a number of the caller's choice.
Dup2(t, fd, newfd) ==
  /\ Calling(t, "dup2") /\ (Open(newfd) \/ Room(1))
  /\ GetDesc(fd)
  /\ Goto(t, "replace", <<desc_tbl[fd]>>, <<newfd>>)
  /\ UNCHANGED <<desc_tbl, avail_ix, mem_map, fatal>>

Replace(t) ==
  /\ pc[t] = "replace" /\ (Open(Head(number[t])) \/ Room(1))
  /\ SetDesc(Head(number[t]), Head(held[t]))
  /\ Return(t)
  /\ UNCHANGED mem_map

\* NaClSysClose finds the descriptor and clears the entry under one hold of
\* desc_mu: the reference it gained stands for the one the table lost.
Close(t, fd) ==
  /\ Calling(t, "close") /\ Open(fd)
  /\ DynArraySet(fd, Null)
  /\ Goto(t, "unref", <<desc_tbl[fd]>>, <<>>)
  /\ UNCHANGED <<mem_map, ref_count, fatal>>

-----------------------------------------------------------------------------
(* Using descriptors.                                                      *)

\* NaClSysRead, NaClSysWrite and every call that looks one descriptor up,
\* works on it and drops it.
Use(t, fd) ==
  /\ Calling(t, "use") /\ GetDesc(fd)
  /\ Goto(t, "unref", <<desc_tbl[fd]>>, <<>>)
  /\ UNCHANGED <<desc_tbl, avail_ix, mem_map, fatal>>

\* The work is done: NaClDescUnref of each descriptor the call holds.
UnrefHeld(t) ==
  /\ pc[t] = "unref"
  /\ ref_count' = Unref(ref_count, Head(held[t]))
  /\ fatal' = (fatal \/ Fatal(ref_count, Head(held[t])))
  /\ IF Len(held[t]) = 1 THEN Return(t) ELSE Goto(t, "unref", Tail(held[t]), <<>>)
  /\ UNCHANGED <<desc_tbl, avail_ix, mem_map>>

\* NaClSysCondWait and NaClSysCondTimedWaitAbs look up two, one at a time.
\* When the second number is not open the first descriptor is dropped.
CondWaitFirst(t, fd) ==
  /\ Calling(t, "cond_wait") /\ GetDesc(fd)
  /\ Goto(t, "second", <<desc_tbl[fd]>>, <<>>)
  /\ UNCHANGED <<desc_tbl, avail_ix, mem_map, fatal>>

CondWaitSecond(t, fd) ==
  /\ pc[t] = "second"
  /\ \/ GetDesc(fd) /\ Goto(t, "unref", Append(held[t], desc_tbl[fd]), <<>>)
     \/ ~Open(fd) /\ Goto(t, "unref", held[t], <<>>) /\ UNCHANGED ref_count
  /\ UNCHANGED <<desc_tbl, avail_ix, mem_map, fatal>>

\* NaClSysMmap of a descriptor: the entry of the memory map has a reference of
\* its own, and what was mapped there loses its entry.  Or the mapping fails.
Mmap(t, fd) ==
  /\ Calling(t, "mmap") /\ GetDesc(fd)
  /\ Goto(t, "map", <<desc_tbl[fd]>>, <<>>)
  /\ UNCHANGED <<desc_tbl, avail_ix, mem_map, fatal>>

MapEntry(t, p) ==
  /\ pc[t] = "map"
  /\ \/ LET added == Ref(ref_count, Head(held[t])) IN
        /\ mem_map' = [mem_map EXCEPT ![p] = Head(held[t])]
        /\ ref_count' = Unref(added, mem_map[p])
        /\ fatal' = (fatal \/ Fatal(added, mem_map[p]))
     \/ UNCHANGED <<mem_map, ref_count, fatal>>
  /\ Goto(t, "unref", held[t], <<>>)
  /\ UNCHANGED <<desc_tbl, avail_ix>>

\* NaClSysMunmap, or a mapping over it without a descriptor.
Munmap(t, p) ==
  /\ Calling(t, "mmap") /\ mem_map[p] # Null
  /\ mem_map' = [mem_map EXCEPT ![p] = Null]
  /\ ref_count' = Unref(ref_count, mem_map[p])
  /\ fatal' = (fatal \/ Fatal(ref_count, mem_map[p]))
  /\ UNCHANGED <<desc_tbl, avail_ix, pc, held, number>>

-----------------------------------------------------------------------------
(* Pairs (NaClSysImcMakeBoundSock and NaClSysImcSocketPair).               *)

MakePair(t) ==
  /\ Calling(t, "pair") /\ Room(2)
  /\ Unused # {} /\ Unused \ {New(Unused)} # {}
  /\ LET d == New(Unused)
         e == New(Unused \ {d})
     IN  /\ ref_count' = [ref_count EXCEPT ![d] = 1, ![e] = 1]
         /\ Goto(t, "first", <<d, e>>, <<>>)
  /\ UNCHANGED <<desc_tbl, avail_ix, mem_map, fatal>>

PublishFirst(t) ==
  /\ pc[t] = "first"
  /\ SetDescAvail(Head(held[t]))
  /\ Goto(t, "pair", Tail(held[t]), <<FirstAvail>>)
  /\ UNCHANGED mem_map

PublishSecond(t) ==
  /\ pc[t] = "pair"
  /\ SetDescAvail(Head(held[t]))
  /\ Goto(t, "copyout", <<>>, Append(number[t], FirstAvail))
  /\ UNCHANGED mem_map

\* NaClCopyOutToUser succeeds, or the call takes its numbers back, whatever
\* they are the numbers of by then.
CopyOut(t) ==
  /\ pc[t] = "copyout"
  /\ \/ Return(t)
     \/ Goto(t, "retract", <<>>, number[t])
  /\ UNCHANGED <<desc_tbl, avail_ix, mem_map, ref_count, fatal>>

Retract(t) ==
  /\ pc[t] = "retract"
  /\ SetDesc(Head(number[t]), Null)
  /\ IF Len(number[t]) = 1 THEN Return(t) ELSE Goto(t, "retract", <<>>, Tail(number[t]))
  /\ UNCHANGED mem_map

-----------------------------------------------------------------------------
(* Descriptors in messages (NaClSysImcSendmsg and NaClSysImcRecvmsg).      *)

Sendmsg(t, fd) ==
  /\ Calling(t, "sendmsg") /\ GetDesc(fd)
  /\ Goto(t, "send", <<desc_tbl[fd]>>, <<>>)
  /\ UNCHANGED <<desc_tbl, avail_ix, mem_map, fatal>>

\* The descriptors of the message are looked up one at a time, of which two are
\* enough, until one is missing ...
SendDesc(t, fd) ==
  /\ pc[t] = "send" /\ Len(held[t]) < MaxHeld
  /\ \/ GetDesc(fd) /\ Goto(t, "send", <<desc_tbl[fd]>> \o held[t], <<>>)
     \/ ~Open(fd) /\ Goto(t, "unref", held[t], <<>>) /\ UNCHANGED ref_count
  /\ UNCHANGED <<desc_tbl, avail_ix, mem_map, fatal>>

\* ... or the message is sent, or refused: its receiver gets descriptors of its
\* own, and all of these are dropped.
SendMessage(t) ==
  /\ pc[t] = "send"
  /\ Goto(t, "unref", held[t], <<>>)
  /\ UNCHANGED <<desc_tbl, avail_ix, mem_map, ref_count, fatal>>

Recvmsg(t, fd) ==
  /\ Calling(t, "recvmsg") /\ Room(2) /\ GetDesc(fd)
  /\ Goto(t, "receive", <<desc_tbl[fd]>>, <<>>)
  /\ UNCHANGED <<desc_tbl, avail_ix, mem_map, fatal>>

\* A message has none, one or two descriptors, which are made for it.  Those the
\* caller has left no room for are destroyed before anybody has seen them.
ReceiveMessage(t) ==
  /\ pc[t] = "receive"
  /\ \/ Goto(t, "unref", held[t], <<>>) /\ UNCHANGED ref_count
     \/ LET d == New(Unused) IN
        /\ Unused # {}
        /\ ref_count' = [ref_count EXCEPT ![d] = 1]
        /\ Goto(t, "store", <<d>> \o held[t], <<>>)
     \/ LET d == New(Unused)
            e == New(Unused \ {d})
        IN  /\ Unused # {} /\ Unused \ {d} # {}
            /\ ref_count' = [ref_count EXCEPT ![d] = 1, ![e] = 1]
            /\ Goto(t, "store", <<d>> \o (<<e>> \o held[t]), <<>>)
  /\ UNCHANGED <<desc_tbl, avail_ix, mem_map, fatal>>

StoreReceived(t) ==
  /\ pc[t] = "store"
  /\ SetDescAvail(Head(held[t]))
  /\ Goto(t, IF Len(held[t]) = 2 THEN "unref" ELSE "store", Tail(held[t]), <<>>)
  /\ UNCHANGED mem_map

-----------------------------------------------------------------------------
OnNumber(t, fd) == \/ Dup(t, fd) \/ Close(t, fd) \/ Use(t, fd) \/ Mmap(t, fd) \/ Accept(t, fd)
                   \/ CondWaitFirst(t, fd) \/ CondWaitSecond(t, fd)
                   \/ Sendmsg(t, fd) \/ SendDesc(t, fd) \/ Recvmsg(t, fd)
                   \/ \E newfd \in Fds : Dup2(t, fd, newfd)

OfThread(t) == \/ Make(t) \/ Publish(t) \/ Replace(t) \/ UnrefHeld(t)
               \/ MakePair(t) \/ PublishFirst(t) \/ PublishSecond(t)
               \/ CopyOut(t) \/ Retract(t)
               \/ SendMessage(t) \/ ReceiveMessage(t) \/ StoreReceived(t)
               \/ \E p \in Mappings : MapEntry(t, p) \/ Munmap(t, p)

\* A fatal error ends the program.
Next == /\ ~fatal
        /\ \E t \in Threads : OfThread(t) \/ \E fd \in Fds : OnNumber(t, fd)

Spec == Init /\ [][Next]_vars

-----------------------------------------------------------------------------
(* Properties.                                                             *)

\* The types of the variables; a call in progress holds what its control says.
TypeOK ==
  /\ desc_tbl \in [Fds -> Descs \cup {Null}]
  /\ avail_ix \in 0 .. WordOf(NumFds - 1)
  /\ mem_map \in [Mappings -> Descs \cup {Null}]
  /\ ref_count \in [Descs -> Nat]
  /\ fatal \in BOOLEAN
  /\ pc \in [Threads -> Controls]
  /\ \A t \in Threads : /\ held[t] \in Seq(Descs) /\ number[t] \in Seq(Fds)
                        /\ Len(held[t]) <= MaxHeld
                        /\ pc[t] = "user" => held[t] = <<>> /\ number[t] = <<>>

\* The places that refer to a descriptor: numbers, mappings and what calls own.
Numbers(d) == {n \in Fds : desc_tbl[n] = d}
Mapped(d) == {p \in Mappings : mem_map[p] = d}
HeldAs(d) ==
  {h \in Threads \X (1 .. MaxHeld) : h[2] <= Len(held[h[1]]) /\ held[h[1]][h[2]] = d}

References(d) == Cardinality(Numbers(d)) + Cardinality(Mapped(d)) + Cardinality(HeldAs(d))

\* The count of every descriptor is the number of places that refer to it: of
\* table entries, of mappings and of calls in progress.  So nobody uses a
\* descriptor that has been destroyed, however the numbers were closed,
\* replaced and reused meanwhile, and none is kept alive by nobody (sys_fdio.c).
\* Nor does an unreference ever find a count of zero, the fatal error of
\* nacl_refcount.c.
RefsExact == ~fatal /\ \A d \in Descs : ref_count[d] = References(d)

\* Unless dup2 names it, a number that becomes open is the lowest one that was
\* free: what the program expects of open() and dup(), and what lets the search
\* of dyn_array.c start at its hint.
LowestNumberFirst ==
  [][\A n \in Fds :
       /\ ~Open(n) /\ desc_tbl'[n] # Null
       /\ \A t \in Threads : pc[t] = "replace" => pc'[t] = "replace"
       => \A m \in 0 .. n - 1 : Open(m)]_vars
=============================================================================
