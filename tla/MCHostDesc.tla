----------------------------- MODULE MCHostDesc -----------------------------
(***************************************************************************)
(* Model checking of HostDesc.                                             *)
(***************************************************************************)
EXTENDS HostDesc, TLC

\* Names, inodes and initialisation vectors are interchangeable.
Symmetric == Permutations(Paths) \cup Permutations(Inodes) \cup Permutations(Ivs)
=============================================================================
