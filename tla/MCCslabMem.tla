---------------------------- MODULE MCCslabMem ----------------------------
(* Instance of CslabMem for TLC: the readers are interchangeable. *)
EXTENDS CslabMem, TLC

ReaderSymmetry == Permutations(Readers)
============================================================================
