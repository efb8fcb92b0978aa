------------------------------- MODULE PageMap -------------------------------
(***************************************************************************)
(* What the memory map of the service runtime promises: it says of every   *)
(* page whether the program has it, with what protection, and what is      *)
(* behind it.  A call of the program works on the range of pages that it   *)
(* was given, whatever calls the mappings in the range stem from.          *)
(***************************************************************************)
EXTENDS Integers

CONSTANTS Pages,        \* the pages of the program, 0 .. n
          Contents,     \* what can be behind a page, each with the protections it allows
          Unmapped

VARIABLES page,         \* [prot, desc] of every page, or Unmapped
          call          \* the last call: [op, first, n], for n pages from first on

Protections == UNION {Contents[d] : d \in DOMAIN Contents}
Mapped(p) == page[p] # Unmapped

Init == /\ page \in [Pages -> [prot : Protections, desc : DOMAIN Contents] \cup {Unmapped}]
        /\ call = [op |-> "none", first |-> 0, n |-> 0]

\* mmap() with MAP_FIXED replaces what was there, ...
Map(range) ==
  \E desc \in DOMAIN Contents : \E prot \in Contents[desc] :
    \A p \in range : page'[p] = [prot |-> prot, desc |-> desc]

\* ... and without it takes free pages, which are those of the call then.
Place(range) == Map(range) /\ \A p \in range : ~Mapped(p)

\* munmap(), of a range where something may be mapped.
Unmap(range) == \A p \in range : page'[p] = Unmapped

\* mprotect(): all or nothing, and every page keeps what is behind it.
Protect(range) ==
  \E prot \in Protections : \A p \in range :
    /\ Mapped(p) /\ prot \in Contents[page[p].desc]
    /\ page'[p] = [page[p] EXCEPT !.prot = prot]

\* brk(), of the pages between the old break and the new: those that are free
\* become like the one before.
Grow(range, before) == \A p \in range : page'[p] = IF Mapped(p) THEN page[p] ELSE page[before]

\* A call does its work on the pages it names, and to no other.
Next ==
  LET range == call'.first .. call'.first + call'.n - 1 IN
  /\ page' = [p \in Pages |-> IF p \in range THEN page'[p] ELSE page[p]]
  /\ \/ call'.op = "mmap" /\ Place(range)
     \/ call'.op = "mmap_fixed" /\ Map(range)
     \/ call'.op = "munmap" /\ Unmap(range)
     \/ call'.op = "mprotect" /\ Protect(range)
     \/ call'.op = "brk" /\ Grow(range, call'.first - 1)

Spec == Init /\ [][Next]_<<page, call>>
=============================================================================
