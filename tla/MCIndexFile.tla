---------------------------- MODULE MCIndexFile ----------------------------
(* Small instances of IndexFile for TLC. *)
EXTENDS IndexFile, TLC

MCSymmetry == Permutations(Psids)
=============================================================================
