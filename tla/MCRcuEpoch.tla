----------------------------- MODULE MCRcuEpoch ----------------------------
(***************************************************************************)
(* RcuEpoch for TLC: objects, readers and writers are interchangeable.     *)
(***************************************************************************)
EXTENDS RcuEpoch, TLC

Symmetry == Permutations(Objs) \cup Permutations(Readers) \cup Permutations(Writers)
============================================================================
