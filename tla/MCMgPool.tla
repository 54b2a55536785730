----------------------------- MODULE MCMgPool -----------------------------
(* Small instances of MgPool for TLC. *)
EXTENDS MgPool, TLC

MCSymmetry == Permutations(Workers) \cup Permutations(Sockets)
=============================================================================
