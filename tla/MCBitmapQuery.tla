--------------------------- MODULE MCBitmapQuery ---------------------------
(* Small instances of BitmapQuery for TLC. *)
EXTENDS BitmapQuery, TLC, SequencesExt

\* Zero bids, equal bids and different ones.
MCBidLists == {[s \in Samples |-> s], [s \in Samples |-> 1]}

\* Up to two conditions of one to three targets.
MCQueries == BoundedSeq(BoundedSeq(Targets, 3) \ {<<>>}, 2)

MCSymmetry == Permutations(Targets)
=============================================================================
