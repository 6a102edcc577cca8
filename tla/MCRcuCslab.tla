----------------------------- MODULE MCRcuCslab -----------------------------
(* Instances of RcuCslab for TLC: items and handles are interchangeable. *)
EXTENDS RcuCslab, TLC

RcuSymmetry == Permutations(Items) \cup Permutations(Handles)
============================================================================
