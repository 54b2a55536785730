-------------------------- MODULE MCSharedMemory --------------------------
(* Small instances of SharedMemory for TLC. *)
EXTENDS SharedMemory, TLC

\* Enough rewrites of the index for a late request to see its slot loaded again.
MCMaxGen == [index |-> 3, param |-> 1]
\* For liveness, with both files missing at first: the index is written twice and
\* the parameters once, so that both can change while a request runs.
MCFewGen == [index |-> 2, param |-> 1]

MCMissing == Kinds

MCSymmetry == Permutations(Workers)
=============================================================================
