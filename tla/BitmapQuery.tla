---------------------------- MODULE BitmapQuery ----------------------------
(***************************************************************************)
(* A query on a bitmap: RequestHandler::GetTarget and the Count of a bid   *)
(* bitmap, and the Union and Count of the uv merge bitmap, one operation   *)
(* on the compute buffer after the other.                                  *)
(*                                                                         *)
(* A bitmap has a row for every target and a column for every sample.  A   *)
(* row of bits is the set of its cells that are 1; a cell is the number of *)
(* a byte and the number of a bit in it, the lowest being 0.  Rows are     *)
(* padded to whole words.                                                  *)
(***************************************************************************)
EXTENDS Integers, Sequences, FiniteSets, FiniteSetsExt

CONSTANTS Targets,    \* the rows (targets, or the ad positions of the merge bitmap)
          Size,       \* the number of samples
          WordBytes,  \* bytes of a word (8)
          BidLists,   \* the bids that the samples may have
          Prices,     \* the prices asked for
          Queries     \* targetings_: sequences of sequences of rows

Samples == 0..Size-1

ASSUME BitmapQueryAssumption ==
         /\ Size \in Nat \ {0} /\ WordBytes \in Nat \ {0}
         /\ BidLists \subseteq [Samples -> Nat] /\ Prices \subseteq Nat
         /\ \A q \in Queries : /\ q \in Seq(Seq(Targets))
                               /\ \A g \in 1..Len(q) : q[g] # <<>>

VARIABLES
  cols, bids,       \* the bitmap: the targets of each sample, and its bid
  targetings, price,    \* the query; for Union one group, the row_ids, or none
  merge,            \* Union and Count of the merge bitmap?
  pc, i, j,         \* where it is, the next group, the next row of a group
  ptr1, ptr2,       \* the halves of compute_buf_
  result

inputs == <<cols, bids, targetings, price, merge>>
vars   == <<inputs, pc, i, j, ptr1, ptr2, result>>

-----------------------------------------------------------------------------
(* Bitmap *)

\* Mutant of Width: the last word is forgotten unless it is full.
WidthDown == WordBytes * (Size \div (8 * WordBytes))

\* The bytes of a row, in whole words.
Width == WordBytes * ((Size + 8 * WordBytes - 1) \div (8 * WordBytes))

Cells == (0..Width-1) \X (0..7)

\* SetBit, and which bid Count takes for a bit.
Cell(col) == <<col \div 8, 7 - (col % 8)>>
Col(cell) == 8 * cell[1] + 7 - cell[2]

\* A row, as Generate leaves it.
Row(t) == {Cell(c) : c \in {s \in Samples : t \in cols[s]}}

NoResult == [bid_sum |-> 0, target_num |-> 0, win_num |-> 0, zero_num |-> 0, bid_num |-> 0]

Init == /\ cols \in [Samples -> SUBSET Targets] /\ bids \in BidLists
        /\ targetings \in Queries /\ price \in Prices
        /\ merge \in BOOLEAN /\ (merge => Len(targetings) <= 1)
        /\ pc = "first" /\ i = 1 /\ j = 1
        /\ ptr1 = {} /\ ptr2 = {} /\ result = NoResult

Goto(to) == pc' = to

-----------------------------------------------------------------------------
(* GetTarget, Union *)

\* memset of a whole row: to 0xff if there is no condition, to 0 if no position.
NoCondition == /\ pc = "first" /\ targetings = <<>>
               /\ ptr1' = IF merge THEN {} ELSE Cells
               /\ Goto("count")
               /\ UNCHANGED <<inputs, i, j, ptr2, result>>

\* The rows a two-row Or starts a group with: the only row twice.
Pair(group) == Row(group[1]) \cup Row(group[IF Len(group) < 2 THEN 1 ELSE 2])

FirstGroup == /\ pc = "first" /\ targetings # <<>>
              /\ ptr1' = Pair(targetings[1])
              /\ j' = 3
              /\ Goto("first rows")
              /\ UNCHANGED <<inputs, i, ptr2, result>>

OrFirst == /\ pc = "first rows" /\ j <= Len(targetings[1])
           /\ ptr1' = ptr1 \cup Row(targetings[1][j])
           /\ j' = j + 1
           /\ UNCHANGED <<inputs, pc, i, ptr2, result>>

FirstDone == /\ pc = "first rows" /\ j > Len(targetings[1])
             /\ i' = 2
             /\ Goto("groups")
             /\ UNCHANGED <<inputs, j, ptr1, ptr2, result>>

\* A group of one row needs no second buffer.
AndRow == /\ pc = "groups" /\ i <= Len(targetings)
          /\ Len(targetings[i]) < 2
          /\ ptr1' = Row(targetings[i][1]) \cap ptr1
          /\ i' = i + 1
          /\ UNCHANGED <<inputs, pc, j, ptr2, result>>

NextGroup == /\ pc = "groups" /\ i <= Len(targetings)
             /\ Len(targetings[i]) >= 2
             /\ ptr2' = Pair(targetings[i])
             /\ j' = 3
             /\ Goto("rows")
             /\ UNCHANGED <<inputs, i, ptr1, result>>

\* Mutant of OrNext: the row goes into the buffer of the result.
OrNextWrong == /\ pc = "rows" /\ j <= Len(targetings[i])
               /\ ptr1' = ptr1 \cup Row(targetings[i][j])
               /\ j' = j + 1
               /\ UNCHANGED <<inputs, pc, i, ptr2, result>>

OrNext == /\ pc = "rows" /\ j <= Len(targetings[i])
          /\ ptr2' = ptr2 \cup Row(targetings[i][j])
          /\ j' = j + 1
          /\ UNCHANGED <<inputs, pc, i, ptr1, result>>

AndGroup == /\ pc = "rows" /\ j > Len(targetings[i])
            /\ ptr1' = ptr1 \cap ptr2
            /\ i' = i + 1
            /\ Goto("groups")
            /\ UNCHANGED <<inputs, j, ptr2, result>>

GroupsDone == /\ pc = "groups" /\ i > Len(targetings)
              /\ Goto("count")
              /\ UNCHANGED <<inputs, i, j, ptr1, ptr2, result>>

-----------------------------------------------------------------------------
(* Count *)

\* Mutant of Wins: bid > _bid.
WinsMore(bid) == price > bid

\* A sample is won by a price that is not below its bid, zero bids included.
Wins(bid) == price >= bid

Sum(f, S) == MapThenSumSet(LAMBDA s : f[s], S)

\* The counters over the cells that are 1.  Behind the last sample there are no
\* bids: what is read there can be anything, so that any number of the cells of the
\* padding may count as zero bids and any number as won ones (a bid read there that
\* is not 0 adds 1 to the sum, for whatever it adds).
Count == /\ pc = "count"
         /\ LET S       == {Col(c) : c \in ptr1} \cap Samples
                padding == Cardinality(ptr1) - Cardinality(S)
                wins    == Cardinality({s \in S : Wins(bids[s])})
                zeros   == Cardinality({s \in S : bids[s] = 0})
            IN \E z \in 0..padding, w \in 0..padding :
                 /\ z <= w
                 /\ result' = [bid_sum    |-> Sum(bids, S) + (padding - z),
                               target_num |-> Cardinality(ptr1),
                               win_num    |-> wins + w,
                               zero_num   |-> zeros + z,
                               bid_num    |-> Cardinality(ptr1) - zeros - z]
         /\ Goto("done")
         /\ UNCHANGED <<inputs, i, j, ptr1, ptr2>>

\* Process goes on; the model stops here.
Next == \/ NoCondition \/ FirstGroup \/ OrFirst \/ FirstDone
        \/ AndRow \/ NextGroup \/ OrNext \/ AndGroup \/ GroupsDone
        \/ Count

Spec == Init /\ [][Next]_vars

-----------------------------------------------------------------------------
(* Properties *)

\* The types of the variables; the buffer never holds a bit outside a row.
TypeOK ==
  /\ cols \in [Samples -> SUBSET Targets] /\ bids \in BidLists
  /\ targetings \in Queries /\ price \in Prices /\ merge \in BOOLEAN
  /\ pc \in {"first", "first rows", "groups", "rows", "count", "done"}
  /\ i \in 1..Len(targetings) + 2 /\ j \in Nat
  /\ ptr1 \subseteq Cells /\ ptr2 \subseteq Cells
  /\ result \in [DOMAIN NoResult -> Nat]

\* What the query asks for: the samples that meet every condition, a condition
\* being met by any of its targets; the users who saw any of the positions.
Meets(s, group) == \E k \in 1..Len(group) : group[k] \in cols[s]
Asked == {s \in Samples : \A g \in 1..Len(targetings) : Meets(s, targetings[g])}

Answered == pc \in {"count", "done"}

\* However many conditions with however many targets, in whatever order and with
\* whatever repetitions: the mask is that of the samples asked for, in the place
\* and in the bit order in which their bids will be looked up.
MaskIsAsked == Answered /\ targetings # <<>> =>
                 /\ {Col(c) : c \in ptr1} = Asked
                 /\ Cardinality(ptr1) = Cardinality(Asked)

\* The unsigned differences that Accumulate takes (win_num - zero_num, target_num -
\* zero_num) never wrap round, whatever the price.
NoUnsignedWrap == /\ result.zero_num <= result.win_num
                  /\ result.win_num <= result.target_num
=============================================================================
