------------------------- MODULE MCThreadSuspension -------------------------
(***************************************************************************)
(* Small instances of ThreadSuspension.                                    *)
(***************************************************************************)
EXTENDS ThreadSuspension, TLC

Symmetric == Permutations(Threads)
=============================================================================
