------------------------------ MODULE MCServices ------------------------------
(***************************************************************************)
(* The tables the service runtime keeps for a program, for TLC: the        *)
(* dynamic code (DynCode, whose state and properties are taken as they     *)
(* are), the descriptor table (DescTable) and the memory map               *)
(* (AddressSpace).  A behaviour exercises the one that "part" names, and   *)
(* the others stay in their initial state.                                 *)
(***************************************************************************)
EXTENDS DynCode, TLC

CONSTANTS
    Descs, NumFds, BitsPerWord, Mappings, Calls, Null,                     \* DescTable
    NumPages, HeapStart, PageSize, FileSize, FilePages, Hints, Limit,      \* AddressSpace
    Prots, Lengths, MaxEntries, Unmapped

VARIABLES
    part,
    enclave, vm_map, break_page, host, host_prot, check, call,
    desc_tbl, avail_ix, mem_map, ref_count, fatal, fd_pc, held, number

memVars == <<enclave, vm_map, break_page, host, host_prot, check, call>>
fdVars == <<desc_tbl, avail_ix, mem_map, ref_count, fatal, fd_pc, held, number>>
servicesVars == <<part, vars, memVars, fdVars>>

Memory == INSTANCE AddressSpace WITH mem_map <- vm_map

Descriptors == INSTANCE DescTable WITH Threads <- Threads \ {Main}, pc <- fd_pc

ASSUME ServicesConstants ==
    Descriptors!DescTableConstants /\ Memory!AddressSpaceConstants /\ DynCodeConstants

ServicesInit ==
    /\ part \in {"descriptors", "memory", "text"}
    /\ Init /\ Memory!Init /\ Descriptors!Init
    /\ part # "memory" => ~enclave

ServicesNext ==
    /\ UNCHANGED part
    /\ \/ part = "descriptors" /\ Descriptors!Next /\ UNCHANGED <<vars, memVars>>
       \/ part = "memory" /\ Memory!Next /\ UNCHANGED <<vars, fdVars>>
       \/ part = "text" /\ Next /\ UNCHANGED <<memVars, fdVars>>

ServicesSpec == ServicesInit /\ [][ServicesNext]_servicesVars

(* Pieces of code are interchangeable, and so are the threads but Main.     *)
Symmetric == Permutations(Code) \cup Permutations(Threads \ {Main})

(* No step reads the last call, so states that differ in it only are one    *)
(* state; TLC checks the steps, on which the call matters, all the same.    *)
(* When a CHECK has failed the call says for which range.                   *)
View == <<part, vars, fdVars, enclave, vm_map, break_page, host, host_prot,
          IF check THEN {} ELSE {call}>>

-----------------------------------------------------------------------------
(* What a part that is not exercised could say holds in its initial state.  *)

(* The variables of the parts have their types; entries of the memory map   *)
(* do not overlap, the CHECKs of mprotect() hold for all ranges but the     *)
(* empty one, and those of the generations always.                          *)
ServicesTypeOK ==
    /\ TypeOK
    /\ part = "memory" => Memory!TypeOK
    /\ part = "descriptors" => Descriptors!TypeOK

(* What mmap() picks without MAP_FIXED is free: see AddressSpace.           *)
PlacesAreFree == part = "memory" => Memory!PlacesAreFree

(* The memory map tells what the host has: see AddressSpace.                *)
MapAgreesWithHost == part = "memory" => Memory!MapAgreesWithHost

(* Entries that are cut and joined implement a map of single pages: no call *)
(* affects a page outside the range that it was given or has been given by  *)
(* mmap(), mprotect() affects all of that range or nothing, and what mmap() *)
(* takes of its own choice was free.                                        *)
PageMap == INSTANCE PageMap
           WITH Pages <- Memory!Pages, Contents <- Memory!Contents,
                page <- IF part = "memory" THEN Memory!page
                        ELSE [p \in Memory!Pages |-> Unmapped]
ImplementsPageMap == PageMap!Spec

(* A descriptor has one reference for each of its users: see DescTable.     *)
RefsExact == Descriptors!RefsExact

(* open() and dup() return the lowest free number: see DescTable.           *)
LowestNumberFirst == Descriptors!LowestNumberFirst
=============================================================================
