--------------------------- MODULE SnapshotStore ---------------------------
(***************************************************************************)
(* What the request threads may rely on when they read the index and the   *)
(* parameters of the service: a store of one current snapshot per kind of  *)
(* data.  A snapshot is replaced in one step, never by an older one; a     *)
(* reader keeps the snapshot it took, unchanged, until it releases it or   *)
(* its lease lapses; the death of the process empties everything.          *)
(*                                                                         *)
(* This is the abstract specification that SharedMemory implements.        *)
(***************************************************************************)
EXTENDS Naturals

CONSTANTS Readers,  \* the threads that take snapshots
          Kinds     \* the kinds of data the store keeps

VARIABLES current,  \* current[k]: the snapshot of kind k given to new readers
          held      \* held[r][k]: what reader r holds of kind k

vars == <<current, held>>

\* A snapshot: its state and the version of the file it was made from.
Snapshots == [state : {"empty", "whole", "torn"}, gen : Nat]

Blank   == [state |-> "empty",  gen |-> 0]  \* nothing was ever loaded
Nothing == [state |-> "none",   gen |-> 0]  \* the reader holds nothing
Lapsed  == [state |-> "lapsed", gen |-> 0]  \* the reader held on too long

Init == /\ current = [k \in Kinds |-> Blank]
        /\ held = [r \in Readers |-> [k \in Kinds |-> Nothing]]

\* A complete load becomes current; versions never go back.
Install(k) == /\ current' = [current EXCEPT ![k] = current'[k]]
              /\ current'[k] \in Snapshots
              /\ current'[k].state \in {"whole", "torn"}
              /\ current'[k].gen >= current[k].gen
              /\ UNCHANGED held

\* A reader takes the snapshot that is current now.
Take(r, k) == /\ held[r][k] = Nothing
              /\ held' = [held EXCEPT ![r][k] = current[k]]
              /\ UNCHANGED current

Release(r) == /\ held' = [held EXCEPT ![r] = [k \in Kinds |-> Nothing]]
              /\ UNCHANGED current

\* Time passes: the leases of the readers in R end together.
Lapse(R) == /\ held' = [r \in Readers |-> IF r \in R THEN [k \in Kinds |-> Lapsed]
                                                     ELSE held[r]]
            /\ UNCHANGED current

Crash == /\ current' = [k \in Kinds |-> Blank]
         /\ held' = [r \in Readers |-> [k \in Kinds |-> Nothing]]

Next == \/ \E k \in Kinds : Install(k)
        \/ \E r \in Readers : Release(r) \/ (\E k \in Kinds : Take(r, k))
        \/ \E R \in SUBSET Readers : Lapse(R)
        \/ Crash

Spec == Init /\ [][Next]_vars
=============================================================================
