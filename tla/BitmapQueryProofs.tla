------------------------- MODULE BitmapQueryProofs -------------------------
(***************************************************************************)
(* Theorems about BitmapQuery: for any number of samples and targets, any  *)
(* size of a word and any query.                                           *)
(***************************************************************************)
EXTENDS BitmapQuery, FiniteSetTheorems, WellFoundedInduction, TLAPS

-----------------------------------------------------------------------------
(* The bit of a sample *)

LEMMA CellFacts ==
  ASSUME NEW c \in Nat
  PROVE  /\ Col(Cell(c)) = c
         /\ c \div 8 \in Nat /\ 8 * (c \div 8) <= c /\ 7 - (c % 8) \in 0..7
<1>1. c = 8 * (c \div 8) + (c % 8) /\ c \div 8 \in Nat /\ c % 8 \in 0..7
  OBVIOUS
<1>2. Cell(c)[1] = c \div 8 /\ Cell(c)[2] = 7 - (c % 8)
  BY DEF Cell
<1>3. Col(Cell(c)) = 8 * (c \div 8) + 7 - (7 - (c % 8))
  BY <1>2 DEF Col
<1> QED BY <1>1, <1>3

\* Padded to whole words, a row has a bit for every sample.
LEMMA WidthFits == Width \in Nat /\ Size <= 8 * Width
<1> DEFINE bits == 8 * WordBytes
           all  == Size + bits - 1
<1>1. /\ Size \in Nat \ {0} /\ WordBytes \in Nat \ {0} /\ bits \in Nat \ {0} /\ all \in Nat
  BY BitmapQueryAssumption
<1> DEFINE q == all \div bits
<1>2. \A a \in Nat, d \in Nat \ {0} : d * (a \div d) > a - d /\ a \div d \in Nat
  OBVIOUS
<1>3. bits * q > all - bits /\ q \in Nat
  <2> HIDE DEF bits, all
  <2> QED BY <1>1, <1>2
<1>4. Width = WordBytes * q
  BY DEF Width
<1> HIDE DEF q
<1>5. Size <= 8 * WordBytes * q
  BY <1>1, <1>3
<1>6. WordBytes * q \in Nat /\ 8 * WordBytes * q = 8 * (WordBytes * q)
  BY <1>1, <1>3
<1> QED BY <1>4, <1>5, <1>6

LEMMA CellInRow == ASSUME NEW s \in Samples PROVE Cell(s) \in Cells
<1>1. Size \in Nat /\ s \in Nat /\ s < Size
  BY BitmapQueryAssumption DEF Samples
<1>2. s \div 8 \in 0..Width - 1
  BY <1>1, CellFacts, WidthFits
<1> QED BY <1>1, <1>2, CellFacts DEF Cell, Cells

\* The bits of a set of samples.
CellsOf(A) == {Cell(s) : s \in A}

LEMMA SampleOf == ASSUME NEW s \in Samples PROVE Col(Cell(s)) = s
  BY CellFacts, BitmapQueryAssumption DEF Samples

\* A row of bits says as much as the set of its samples, union for Or and intersection
\* for And.
LEMMA OrCells == ASSUME NEW A, NEW B PROVE CellsOf(A) \cup CellsOf(B) = CellsOf(A \cup B)
  BY DEF CellsOf

LEMMA AndCells ==
  ASSUME NEW A \in SUBSET Samples, NEW B \in SUBSET Samples
  PROVE  CellsOf(A) \cap CellsOf(B) = CellsOf(A \cap B)
<1>1. ASSUME NEW a \in A, NEW b \in B, Cell(a) = Cell(b) PROVE a = b
  BY <1>1, SampleOf
<1> QED BY <1>1 DEF CellsOf

LEMMA ColsOfCells == ASSUME NEW A \in SUBSET Samples PROVE {Col(c) : c \in CellsOf(A)} = A
  BY SampleOf DEF CellsOf

LEMMA RowIsCells == ASSUME NEW t PROVE Row(t) = CellsOf({s \in Samples : t \in cols[s]})
  BY DEF Row, CellsOf

LEMMA CellsInRow == ASSUME NEW A \in SUBSET Samples PROVE CellsOf(A) \subseteq Cells
  BY CellInRow DEF CellsOf

LEMMA FiniteCells == IsFiniteSet(Samples) /\ IsFiniteSet(Cells)
<1>1. IsFiniteSet(Samples)
  BY FS_Interval, BitmapQueryAssumption DEF Samples
<1>2. IsFiniteSet(0..Width - 1) /\ IsFiniteSet(0..7)
  <2>1. 0 \in Int /\ 7 \in Int /\ Width - 1 \in Int
    BY WidthFits
  <2> HIDE DEF Width
  <2> QED BY <2>1, FS_Interval
<1> QED BY <1>1, <1>2, FS_Product DEF Cells

LEMMA CountCells ==
  ASSUME NEW A \in SUBSET Samples PROVE Cardinality(CellsOf(A)) = Cardinality(A)
<1> DEFINE f == [s \in A |-> Cell(s)]
<1>1. f \in Injection(A, CellsOf(A))
  BY SampleOf DEF CellsOf, Injection, IsInjective
<1>2. f \in Surjection(A, CellsOf(A))
  BY DEF CellsOf, Surjection
<1>3. f \in Bijection(A, CellsOf(A))
  BY <1>1, <1>2 DEF Bijection
<1>4. ExistsBijection(A, CellsOf(A))
  BY <1>3 DEF ExistsBijection
<1>5. IsFiniteSet(A)
  BY FiniteCells, FS_Subset
<1> QED BY <1>4, <1>5, FS_Bijection

-----------------------------------------------------------------------------
(* The mask *)

\* The samples that meet the first k targets of a group, and the first n groups.
MeetTargets(group, k) == {s \in Samples : \E r \in 1..Len(group) : r <= k /\ group[r] \in cols[s]}
MeetGroups(n) ==
  {s \in Samples : \A g \in 1..Len(targetings) : g <= n => Meets(s, targetings[g])}

TypesInv ==
  /\ cols \in [Samples -> SUBSET Targets] /\ bids \in BidLists
  /\ targetings \in Queries /\ price \in Prices /\ merge \in BOOLEAN
  /\ pc \in {"first", "first rows", "groups", "rows", "count", "done"}
  /\ i \in 1..Len(targetings) + 1 /\ j \in Nat
  /\ ptr1 \subseteq Cells /\ ptr2 \subseteq Cells

\* What the buffers hold: before the mask of the groups that are done, of the group at
\* hand the rows before the next one.
MaskInv ==
  /\ pc = "first" => i = 1
  /\ pc \in {"first rows", "groups", "rows"} => targetings # <<>>
  /\ pc \in {"first rows", "rows"} => j >= 3
  /\ pc = "first rows" => i = 1 /\ ptr1 = CellsOf(MeetTargets(targetings[1], j - 1))
  /\ pc \in {"groups", "rows"} => i >= 2 /\ ptr1 = CellsOf(MeetGroups(i - 1))
  /\ pc = "rows" => /\ i <= Len(targetings)
                    /\ ptr2 = CellsOf(MeetTargets(targetings[i], j - 1))
  /\ Answered /\ targetings # <<>> => ptr1 = CellsOf(Asked)

LEMMA QueryFacts ==
  ASSUME TypesInv
  PROVE  /\ targetings \in Seq(Seq(Targets)) /\ Len(targetings) \in Nat
         /\ targetings # <<>> => 1 \in 1..Len(targetings)
         /\ i \in Nat /\ j \in Nat /\ 1 <= i /\ i <= Len(targetings) + 1
         /\ \A g \in 1..Len(targetings) :
              targetings[g] \in Seq(Targets) /\ targetings[g] # <<>> /\ Len(targetings[g]) \in Nat \ {0}
<1>1. targetings \in Seq(Seq(Targets)) /\ \A g \in 1..Len(targetings) : targetings[g] # <<>>
  BY BitmapQueryAssumption DEF TypesInv
<1>2. Len(targetings) \in Nat /\ (targetings # <<>> => 1 \in 1..Len(targetings))
  BY <1>1
<1>3. i \in 1..Len(targetings) + 1 /\ j \in Nat
  BY DEF TypesInv
<1>4. i \in Nat /\ 1 <= i /\ i <= Len(targetings) + 1
  BY <1>2, <1>3
<1>5. ASSUME NEW g \in 1..Len(targetings)
      PROVE  /\ targetings[g] \in Seq(Targets) /\ targetings[g] # <<>>
             /\ Len(targetings[g]) \in Nat \ {0}
  <2>1. targetings[g] \in Seq(Targets) /\ targetings[g] # <<>>
    BY <1>1
  <2> QED BY <2>1
<1> QED BY <1>1, <1>2, <1>3, <1>4, <1>5

\* The two rows with which a group begins are its first one or two.
LEMMA PairMeets ==
  ASSUME NEW group \in Seq(Targets), group # <<>>
  PROVE  Pair(group) = CellsOf(MeetTargets(group, 2))
<1> DEFINE second == IF Len(group) < 2 THEN 1 ELSE 2
           A == {s \in Samples : group[1] \in cols[s]}
           B == {s \in Samples : group[second] \in cols[s]}
<1>1. Pair(group) = CellsOf(A \cup B)
  <2>1. Row(group[1]) = CellsOf(A) /\ Row(group[second]) = CellsOf(B)
    BY RowIsCells
  <2> QED BY <2>1, OrCells DEF Pair
<1>2. Len(group) \in Nat \ {0}
  OBVIOUS
<1>3. A \cup B = MeetTargets(group, 2)
  BY <1>2 DEF MeetTargets
<1> QED BY <1>1, <1>3

\* The next row of a group adds the samples of the next target.
LEMMA RowMeets ==
  ASSUME NEW group \in Seq(Targets), NEW k \in 1..Len(group)
  PROVE  CellsOf(MeetTargets(group, k - 1)) \cup Row(group[k]) = CellsOf(MeetTargets(group, k))
<1> DEFINE A == MeetTargets(group, k - 1)
           B == {s \in Samples : group[k] \in cols[s]}
<1>1. A \cup B = MeetTargets(group, k)
  <2>1. \A r \in 1..Len(group) : r <= k <=> r <= k - 1 \/ r = k
    OBVIOUS
  <2> QED BY <2>1 DEF MeetTargets
<1>2. Row(group[k]) = CellsOf(B)
  BY RowIsCells
<1> HIDE DEF A, B
<1> QED BY <1>1, <1>2, OrCells DEF A

\* When no row is left, these are the samples that meet the group.
LEMMA GroupMeets ==
  ASSUME NEW group \in Seq(Targets), NEW k \in Nat, k >= Len(group)
  PROVE  MeetTargets(group, k) = {s \in Samples : Meets(s, group)}
  BY DEF MeetTargets, Meets

LEMMA NextGroupMeets ==
  ASSUME TypesInv, NEW n \in 1..Len(targetings)
  PROVE  MeetGroups(n - 1) \cap {s \in Samples : Meets(s, targetings[n])} = MeetGroups(n)
<1>1. Len(targetings) \in Nat
  BY QueryFacts
<1> QED BY <1>1 DEF MeetGroups

LEMMA MeetsInSamples ==
  /\ \A group, k : MeetTargets(group, k) \in SUBSET Samples
  /\ \A n : MeetGroups(n) \in SUBSET Samples
  BY DEF MeetTargets, MeetGroups

LEMMA QueryInit == Init => TypesInv /\ MaskInv
<1> SUFFICES ASSUME Init PROVE TypesInv /\ MaskInv
  OBVIOUS
<1>1. Len(targetings) \in Nat
  BY BitmapQueryAssumption DEF Init
<1>2. TypesInv
  BY <1>1 DEF Init, TypesInv
<1>3. MaskInv
  BY DEF Init, MaskInv, Answered
<1> QED BY <1>2, <1>3

LEMMA TypesNext == TypesInv /\ MaskInv /\ [Next]_vars => TypesInv'
<1> SUFFICES ASSUME TypesInv, MaskInv, [Next]_vars PROVE TypesInv'
  OBVIOUS
<1>1. UNCHANGED inputs
  BY DEF vars, Next, NoCondition, FirstGroup, OrFirst, FirstDone, AndRow, NextGroup, OrNext,
         AndGroup, GroupsDone, Count
<1>2. pc' \in {"first", "first rows", "groups", "rows", "count", "done"}
  BY DEF TypesInv, Goto, vars, Next, NoCondition, FirstGroup, OrFirst, FirstDone, AndRow,
         NextGroup, OrNext, AndGroup, GroupsDone, Count
<1>3. /\ Len(targetings) \in Nat /\ i \in Nat /\ 1 <= i /\ i <= Len(targetings) + 1 /\ j \in Nat
      /\ targetings # <<>> => Len(targetings) >= 1
  BY QueryFacts
<1>4. i' \in 1..Len(targetings) + 1 /\ j' \in Nat
  <2>1. CASE FirstDone
    <3>1. targetings # <<>> /\ i' = 2 /\ j' = j
      BY <2>1 DEF FirstDone, MaskInv
    <3> QED BY <3>1, <1>3
  <2>2. CASE AndRow \/ AndGroup
    <3>1. i' = i + 1 /\ UNCHANGED j /\ i <= Len(targetings)
      BY <2>2 DEF AndRow, AndGroup, MaskInv
    <3> QED BY <3>1, <1>3
  <2>3. CASE ~(FirstDone \/ AndRow \/ AndGroup)
    <3>1. UNCHANGED i /\ j' \in {j, j + 1, 3}
      BY <2>3 DEF vars, inputs, Next, NoCondition, FirstGroup, OrFirst, NextGroup, OrNext,
                  GroupsDone, Count
    <3> QED BY <3>1, <1>3
  <2> QED BY <2>1, <2>2, <2>3
<1>5. \A t : Row(t) \subseteq Cells
  BY CellInRow DEF Row
<1>6. \A group : Pair(group) \subseteq Cells
  BY <1>5 DEF Pair
<1>7. ptr1' \subseteq Cells /\ ptr2' \subseteq Cells
  BY <1>5, <1>6 DEF TypesInv, vars, Next, NoCondition, FirstGroup, OrFirst, FirstDone, AndRow,
                    NextGroup, OrNext, AndGroup, GroupsDone, Count
<1> QED BY <1>1, <1>2, <1>4, <1>7 DEF TypesInv, inputs

LEMMA MaskNext == TypesInv /\ MaskInv /\ [Next]_vars => MaskInv'
<1> SUFFICES ASSUME TypesInv, MaskInv, [Next]_vars PROVE MaskInv'
  OBVIOUS
<1>1. /\ UNCHANGED <<cols, targetings>>
      /\ \A group, k : MeetTargets(group, k)' = MeetTargets(group, k)
      /\ \A n : MeetGroups(n)' = MeetGroups(n)
      /\ Asked' = Asked
  <2>1. UNCHANGED inputs
    BY DEF vars, Next, NoCondition, FirstGroup, OrFirst, FirstDone, AndRow, NextGroup, OrNext,
           AndGroup, GroupsDone, Count
  <2> QED BY <2>1 DEF inputs, MeetTargets, MeetGroups, Asked, Meets
<1>2. /\ Len(targetings) \in Nat /\ i \in Nat /\ 1 <= i /\ i <= Len(targetings) + 1 /\ j \in Nat
      /\ targetings # <<>> => 1 \in 1..Len(targetings)
  BY QueryFacts
<1>3. CASE NoCondition
  BY <1>3, <1>1 DEF NoCondition, Goto, MaskInv, Answered
<1>4. CASE FirstGroup
  <2>1. targetings # <<>> /\ pc = "first" /\ i = 1
    BY <1>4 DEF FirstGroup, MaskInv
  <2>2. Pair(targetings[1]) = CellsOf(MeetTargets(targetings[1], 2))
    BY <1>2, <2>1, QueryFacts, PairMeets
  <2>3. ptr1' = CellsOf(MeetTargets(targetings[1], 2)) /\ j' = 3 /\ UNCHANGED i
        /\ pc' = "first rows"
    BY <1>4, <2>2 DEF FirstGroup, Goto
  <2>4. j' >= 3 /\ j' - 1 = 2 /\ i' = 1
    <3>1. j' = 3 /\ i' = i
      BY <2>3
    <3> QED BY <3>1, <2>1
  <2>5. ptr1' = CellsOf(MeetTargets(targetings[1], j' - 1))
    BY <2>3, <2>4
  <2> QED BY <1>1, <2>1, <2>3, <2>4, <2>5 DEF MaskInv, Answered
<1>5. CASE OrFirst
  <2> DEFINE group == targetings[1]
  <2>1. /\ pc = "first rows" /\ targetings # <<>> /\ i = 1 /\ j >= 3
        /\ ptr1 = CellsOf(MeetTargets(group, j - 1))
    BY <1>5 DEF OrFirst, MaskInv
  <2>2. ptr1' = ptr1 \cup Row(group[j]) /\ j' = j + 1 /\ UNCHANGED <<pc, i>> /\ j <= Len(group)
    BY <1>5 DEF OrFirst
  <2>3. group \in Seq(Targets) /\ Len(group) \in Nat
    BY <1>2, <2>1, QueryFacts
  <2>4. j \in 1..Len(group) /\ j' - 1 = j /\ j' >= 3
    <3>1. j >= 3 /\ j' = j + 1 /\ j <= Len(group)
      BY <2>1, <2>2
    <3> HIDE DEF group
    <3> QED BY <1>2, <2>3, <3>1
  <2>5. ptr1' = CellsOf(MeetTargets(group, j' - 1))
    BY <2>1, <2>2, <2>3, <2>4, RowMeets
  <2> QED BY <1>1, <2>1, <2>2, <2>4, <2>5 DEF MaskInv, Answered
<1>6. CASE FirstDone
  <2> DEFINE group == targetings[1]
  <2>1. /\ pc = "first rows" /\ targetings # <<>> /\ j >= 3
        /\ ptr1 = CellsOf(MeetTargets(group, j - 1))
        /\ j > Len(group) /\ i' = 2 /\ pc' = "groups" /\ UNCHANGED ptr1
    BY <1>6 DEF FirstDone, MaskInv, Goto
  <2>2. group \in Seq(Targets) /\ Len(group) \in Nat
    BY <1>2, <2>1, QueryFacts
  <2>3. MeetTargets(group, j - 1) = {s \in Samples : Meets(s, group)}
    <3>1. j >= 3 /\ j > Len(group)
      BY <2>1
    <3>2. j - 1 \in Nat /\ j - 1 >= Len(group)
      <4> HIDE DEF group
      <4> QED BY <1>2, <2>2, <3>1
    <3> QED BY <2>2, <3>2, GroupMeets
  <2>4. MeetGroups(1) = {s \in Samples : Meets(s, group)}
    <3>1. \A g \in 1..Len(targetings) : g <= 1 <=> g = 1
      OBVIOUS
    <3> QED BY <1>2, <2>1, <3>1 DEF MeetGroups
  <2>5. i' - 1 = 1 /\ i' >= 2
    <3>1. i' = 2
      BY <2>1
    <3> QED BY <3>1
  <2> QED BY <1>1, <2>1, <2>3, <2>4, <2>5 DEF MaskInv, Answered
<1>7. CASE AndRow \/ AndGroup
  <2> DEFINE group == targetings[i]
             B     == {s \in Samples : Meets(s, group)}
  <2>1. /\ pc \in {"groups", "rows"} /\ i <= Len(targetings) /\ i >= 2 /\ targetings # <<>>
        /\ ptr1 = CellsOf(MeetGroups(i - 1)) /\ i' = i + 1 /\ pc' = "groups"
    BY <1>7 DEF AndRow, AndGroup, MaskInv, Goto
  <2>2. i \in 1..Len(targetings)
    BY <1>2, <2>1
  <2>3. group \in Seq(Targets) /\ Len(group) \in Nat \ {0}
    BY <2>2, QueryFacts
  <2>4. ptr1' = ptr1 \cap CellsOf(B)
    <3>1. CASE AndRow
      <4>1. ptr1' = Row(group[1]) \cap ptr1 /\ Len(group) < 2
        BY <3>1 DEF AndRow
      <4>2. 1..Len(group) = {1}
        BY <2>3, <4>1
      <4>3. B = {s \in Samples : group[1] \in cols[s]}
        BY <4>2 DEF Meets
      <4> QED BY <4>1, <4>3, RowIsCells
    <3>2. CASE AndGroup
      <4>1. /\ pc = "rows" /\ j > Len(group) /\ j >= 3
            /\ ptr1' = ptr1 \cap ptr2 /\ ptr2 = CellsOf(MeetTargets(group, j - 1))
        BY <3>2 DEF AndGroup, MaskInv
      <4>2. j - 1 \in Nat /\ j - 1 >= Len(group)
        BY <1>2, <2>3, <4>1
      <4>3. MeetTargets(group, j - 1) = B
        BY <2>3, <4>2, GroupMeets
      <4> QED BY <4>1, <4>3
    <3> QED BY <1>7, <3>1, <3>2
  <2>5. ptr1' = CellsOf(MeetGroups(i))
    <3>1. MeetGroups(i - 1) \in SUBSET Samples /\ B \in SUBSET Samples
      BY MeetsInSamples
    <3>2. MeetGroups(i - 1) \cap B = MeetGroups(i)
      BY <2>2, NextGroupMeets
    <3> HIDE DEF B
    <3> QED BY <2>1, <2>4, <3>1, <3>2, AndCells
  <2>6. i' - 1 = i /\ i' >= 2
    BY <1>2, <2>1
  <2> QED BY <1>1, <2>1, <2>5, <2>6 DEF MaskInv, Answered
<1>8. CASE NextGroup
  <2> DEFINE group == targetings[i]
  <2>1. /\ pc = "groups" /\ i <= Len(targetings) /\ i >= 2 /\ targetings # <<>>
        /\ ptr1 = CellsOf(MeetGroups(i - 1)) /\ ptr2' = Pair(group)
        /\ j' = 3 /\ pc' = "rows" /\ UNCHANGED <<i, ptr1>>
    BY <1>8 DEF NextGroup, MaskInv, Goto
  <2>2. group \in Seq(Targets) /\ group # <<>>
    BY <1>2, <2>1, QueryFacts
  <2>3. ptr2' = CellsOf(MeetTargets(group, j' - 1))
    BY <2>1, <2>2, PairMeets
  <2> QED BY <1>1, <2>1, <2>3 DEF MaskInv, Answered
<1>9. CASE OrNext
  <2> DEFINE group == targetings[i]
  <2>1. /\ pc = "rows" /\ targetings # <<>> /\ i <= Len(targetings) /\ i >= 2 /\ j >= 3
        /\ ptr1 = CellsOf(MeetGroups(i - 1)) /\ ptr2 = CellsOf(MeetTargets(group, j - 1))
    BY <1>9 DEF OrNext, MaskInv
  <2>2. /\ ptr2' = ptr2 \cup Row(group[j]) /\ j' = j + 1 /\ UNCHANGED <<pc, i, ptr1>>
        /\ j <= Len(group)
    BY <1>9 DEF OrNext
  <2>3. group \in Seq(Targets) /\ Len(group) \in Nat
    BY <1>2, <2>1, QueryFacts
  <2>4. j \in 1..Len(group) /\ j' - 1 = j /\ j' >= 3
    BY <1>2, <2>1, <2>2, <2>3
  <2>5. ptr2' = CellsOf(MeetTargets(group, j' - 1))
    BY <2>1, <2>2, <2>3, <2>4, RowMeets
  <2> QED BY <1>1, <2>1, <2>2, <2>4, <2>5 DEF MaskInv, Answered
<1>10. CASE GroupsDone
  <2>1. /\ targetings # <<>> /\ ptr1 = CellsOf(MeetGroups(i - 1)) /\ i > Len(targetings)
        /\ pc' = "count" /\ UNCHANGED ptr1
    BY <1>10 DEF GroupsDone, MaskInv, Goto
  <2>2. MeetGroups(i - 1) = Asked
    <3>1. \A g \in 1..Len(targetings) : g <= i - 1
      BY <1>2, <2>1
    <3> QED BY <3>1 DEF MeetGroups, Asked
  <2> QED BY <1>1, <2>1, <2>2 DEF MaskInv, Answered
<1>11. CASE Count
  <2>1. pc = "count" /\ pc' = "done" /\ UNCHANGED <<ptr1, i>>
    BY <1>11 DEF Count, Goto
  <2> QED BY <1>1, <2>1 DEF MaskInv, Answered
<1>12. CASE UNCHANGED vars
  BY <1>1, <1>12 DEF vars, MaskInv, Answered
<1> QED BY <1>3, <1>4, <1>5, <1>6, <1>7, <1>8, <1>9, <1>10, <1>11, <1>12 DEF Next

\* GetTarget and Union: whatever the groups, the rows in them, their order and their number,
\* the mask has the bits of the samples asked for, and no other.
THEOREM MaskRight == Spec => []MaskIsAsked
<1>1. Init => TypesInv /\ MaskInv
  BY QueryInit
<1>2. TypesInv /\ MaskInv /\ [Next]_vars => (TypesInv /\ MaskInv)'
  BY TypesNext, MaskNext
<1>3. MaskInv => MaskIsAsked
  <2>1. Asked \in SUBSET Samples
    BY DEF Asked
  <2> QED BY <2>1, ColsOfCells, CountCells DEF MaskInv, MaskIsAsked
<1> QED BY <1>1, <1>2, <1>3, PTL DEF Spec

-----------------------------------------------------------------------------
(* The sum of the bids *)

\* Induction over the natural numbers, for the numbers in a set.
LEMMA AllNumbers ==
  ASSUME NEW S, 0 \in S, \A n \in Nat : n \in S => n + 1 \in S
  PROVE  Nat \subseteq S
<1> DEFINE Bad == Nat \ S
<1> SUFFICES ASSUME Bad # {} PROVE FALSE
  OBVIOUS
<1>1. PICK least \in Bad : \A n \in Bad : ~(<<n, least>> \in OpToRel(<, Nat))
  <2>1. Bad \subseteq Nat
    OBVIOUS
  <2> HIDE DEF Bad
  <2> QED BY <2>1, WFMin, NatLessThanWellFounded
<1>2. OpToRel(<, Nat) = {ss \in Nat \X Nat : ss[1] < ss[2]}
  BY DEF OpToRel
<1>3. least \in Nat /\ least - 1 \in Nat /\ least - 1 < least /\ least = (least - 1) + 1
  <2>1. least \in Nat /\ least # 0
    BY <1>1
  <2> QED BY <2>1
<1> DEFINE pair == <<least - 1, least>>
<1>4. pair \in Nat \X Nat /\ pair[1] < pair[2]
  BY <1>3
<1>5. pair \in OpToRel(<, Nat)
  <2> HIDE DEF pair
  <2> QED BY <1>2, <1>4
<1>6. least - 1 \notin Bad
  BY <1>1, <1>5
<1> QED BY <1>1, <1>3, <1>6

\* A sum over a set takes an element, and goes on with the others.
Pick(s)         == CHOOSE x \in s : TRUE
Body(f, g, s)   == IF s = {} THEN 0 ELSE f[Pick(s)] + g[s \ {Pick(s)}]
IsSum(f, S, g)  == g = [s \in SUBSET S |-> Body(f, g, s)]
Small(S, n)     == {s \in SUBSET S : Cardinality(s) <= n}
SumUpTo(f, S, n) == \E g \in [Small(S, n) -> Nat] : \A s \in Small(S, n) : g[s] = Body(f, g, s)

LEMMA PickLeaves ==
  ASSUME NEW S, IsFiniteSet(S), NEW s \in SUBSET S, s # {}
  PROVE  /\ Pick(s) \in s /\ s \ {Pick(s)} \in SUBSET S
         /\ Cardinality(s) \in Nat \ {0} /\ Cardinality(s \ {Pick(s)}) = Cardinality(s) - 1
<1>1. Pick(s) \in s
  BY DEF Pick
<1>2. IsFiniteSet(s)
  BY FS_Subset
<1>3. Cardinality(s) \in Nat /\ Cardinality(s) # 0
  BY <1>2, FS_CardinalityType, FS_EmptySet
<1> QED BY <1>1, <1>2, <1>3, FS_RemoveElement

LEMMA SumExists ==
  ASSUME NEW S, IsFiniteSet(S), NEW f, \A x \in S : f[x] \in Nat
  PROVE  \E g \in [SUBSET S -> Nat] : IsSum(f, S, g)
<1> DEFINE Reached == {n \in Nat : SumUpTo(f, S, n)}
<1>1. 0 \in Reached
  <2>1. ASSUME NEW s \in Small(S, 0) PROVE s = {}
    <3>1. s \in SUBSET S /\ ~(Cardinality(s) \in Nat \ {0})
      BY DEF Small
    <3> QED BY <3>1, PickLeaves
  <2> DEFINE g == [s \in Small(S, 0) |-> 0]
  <2>2. g \in [Small(S, 0) -> Nat] /\ \A s \in Small(S, 0) : g[s] = Body(f, g, s)
    BY <2>1 DEF Body
  <2> QED BY <2>2 DEF SumUpTo
<1>2. ASSUME NEW n \in Nat, n \in Reached PROVE n + 1 \in Reached
  <2>1. PICK g \in [Small(S, n) -> Nat] : \A s \in Small(S, n) : g[s] = Body(f, g, s)
    BY <1>2 DEF SumUpTo
  <2> DEFINE h == [s \in Small(S, n + 1) |-> Body(f, g, s)]
  <2>2. ASSUME NEW s \in Small(S, n + 1), s # {}
        PROVE  /\ Pick(s) \in S /\ s \ {Pick(s)} \in Small(S, n)
               /\ s \ {Pick(s)} \in Small(S, n + 1)
    <3>1. s \in SUBSET S /\ Cardinality(s) <= n + 1
      BY DEF Small
    <3>2. /\ Pick(s) \in s /\ s \ {Pick(s)} \in SUBSET S
          /\ Cardinality(s) \in Nat \ {0} /\ Cardinality(s \ {Pick(s)}) = Cardinality(s) - 1
      BY <2>2, <3>1, PickLeaves
    <3>3. Cardinality(s \ {Pick(s)}) <= n /\ Cardinality(s \ {Pick(s)}) <= n + 1
      BY <3>1, <3>2
    <3> QED BY <3>1, <3>2, <3>3 DEF Small
  <2>3. ASSUME NEW s \in Small(S, n + 1) PROVE Body(f, g, s) \in Nat
    <3>1. CASE s = {}
      BY <3>1 DEF Body
    <3>2. CASE s # {}
      <4>1. f[Pick(s)] \in Nat /\ g[s \ {Pick(s)}] \in Nat
        BY <2>2, <3>2
      <4> QED BY <3>2, <4>1 DEF Body
    <3> QED BY <3>1, <3>2
  <2>4. ASSUME NEW s \in Small(S, n + 1) PROVE h[s] = Body(f, h, s)
    <3>1. CASE s = {}
      BY <3>1 DEF Body
    <3>2. CASE s # {}
      <4>1. h[s \ {Pick(s)}] = g[s \ {Pick(s)}]
        BY <2>1, <2>2, <3>2
      <4>2. h[s] = Body(f, g, s)
        OBVIOUS
      <4> HIDE DEF h
      <4> QED BY <3>2, <4>1, <4>2 DEF Body
    <3> QED BY <3>1, <3>2
  <2>5. h \in [Small(S, n + 1) -> Nat]
    BY <2>3
  <2> HIDE DEF h
  <2>6. SumUpTo(f, S, n + 1)
    BY <2>4, <2>5 DEF SumUpTo
  <2> QED BY <2>6
<1>3. Cardinality(S) \in Reached
  <2>1. Cardinality(S) \in Nat
    BY FS_CardinalityType
  <2> HIDE DEF Reached
  <2> QED BY <1>1, <1>2, <2>1, AllNumbers
<1>4. Small(S, Cardinality(S)) = SUBSET S
  BY FS_Subset DEF Small
<1>5. PICK g \in [SUBSET S -> Nat] : \A s \in SUBSET S : g[s] = Body(f, g, s)
  BY <1>3, <1>4 DEF SumUpTo
<1>6. IsSum(f, S, g)
  BY <1>5 DEF IsSum
<1> QED BY <1>6

\* Sum: of natural numbers, over a finite set, it is a natural number.
LEMMA SumIsNatural ==
  ASSUME NEW S, IsFiniteSet(S), NEW f, \A x \in S : f[x] \in Nat
  PROVE  Sum(f, S) \in Nat
<1>1. Sum(f, S) = (CHOOSE g : IsSum(f, S, g))[S]
  BY DEF Sum, MapThenSumSet, MapThenFoldSet, IsSum, Body, Pick
<1>2. PICK h : IsSum(f, S, h) /\ Sum(f, S) = h[S]
  <2>1. IsSum(f, S, CHOOSE g : IsSum(f, S, g))
    BY SumExists
  <2> QED BY <1>1, <2>1
<1> DEFINE Good == {n \in Nat : \A s \in Small(S, n) : h[s] \in Nat}
<1>3. ASSUME NEW s \in SUBSET S
      PROVE  /\ s = {} => h[s] = 0
             /\ s # {} => h[s] = f[Pick(s)] + h[s \ {Pick(s)}]
  <2>1. h[s] = Body(f, h, s)
    BY <1>2 DEF IsSum
  <2> QED BY <2>1 DEF Body
<1>4. 0 \in Good
  <2>1. ASSUME NEW s \in Small(S, 0) PROVE s \in SUBSET S /\ s = {}
    <3>1. s \in SUBSET S /\ ~(Cardinality(s) \in Nat \ {0})
      BY DEF Small
    <3> QED BY <3>1, PickLeaves
  <2>2. ASSUME NEW s \in Small(S, 0) PROVE h[s] \in Nat
    <3>1. s \in SUBSET S /\ s = {}
      BY <2>1
    <3>2. h[s] = 0
      BY <1>3, <3>1
    <3> QED BY <3>2
  <2> QED BY <2>2
<1>5. ASSUME NEW n \in Nat, n \in Good PROVE n + 1 \in Good
  <2>1. ASSUME NEW s \in Small(S, n + 1) PROVE h[s] \in Nat
    <3>1. s \in SUBSET S /\ Cardinality(s) <= n + 1
      BY DEF Small
    <3>2. CASE s = {}
      <4>1. h[s] = 0
        BY <1>3, <3>1, <3>2
      <4> QED BY <4>1
    <3>3. CASE s # {}
      <4>1. /\ Pick(s) \in s /\ s \ {Pick(s)} \in SUBSET S
            /\ Cardinality(s) \in Nat \ {0} /\ Cardinality(s \ {Pick(s)}) = Cardinality(s) - 1
        BY <3>1, <3>3, PickLeaves
      <4>2. s \ {Pick(s)} \in Small(S, n)
        BY <3>1, <4>1 DEF Small
      <4>3. f[Pick(s)] \in Nat /\ h[s \ {Pick(s)}] \in Nat
        BY <1>5, <3>1, <4>1, <4>2
      <4>4. h[s] = f[Pick(s)] + h[s \ {Pick(s)}]
        BY <1>3, <3>1, <3>3
      <4> QED BY <4>3, <4>4
    <3> QED BY <3>2, <3>3
  <2> QED BY <2>1
<1>6. Cardinality(S) \in Nat
  BY FS_CardinalityType
<1>7. Cardinality(S) \in Good
  <2> HIDE DEF Good
  <2> QED BY <1>4, <1>5, <1>6, AllNumbers
<1>8. S \in Small(S, Cardinality(S))
  BY <1>6 DEF Small
<1> QED BY <1>2, <1>7, <1>8

-----------------------------------------------------------------------------
(* The counters *)

\* The sets that Count counts are finite, and each has no more elements than the next:
\* zero bids, won bids, samples and bits.
LEMMA CountFacts ==
  ASSUME TypesInv, NEW S, S = {Col(c) : c \in ptr1} \cap Samples
  PROVE  /\ IsFiniteSet(S) /\ S \in SUBSET Samples
         /\ Cardinality({s \in S : bids[s] = 0}) \in Nat
         /\ Cardinality({s \in S : Wins(bids[s])}) \in Nat
         /\ Cardinality(S) \in Nat /\ Cardinality(ptr1) \in Nat
         /\ Cardinality({s \in S : bids[s] = 0}) <= Cardinality({s \in S : Wins(bids[s])})
         /\ Cardinality({s \in S : Wins(bids[s])}) <= Cardinality(S)
         /\ Cardinality(S) <= Cardinality(ptr1)
<1> DEFINE wins  == {s \in S : Wins(bids[s])}
           zeros == {s \in S : bids[s] = 0}
           inside == {c \in ptr1 : Col(c) \in Samples}
           col   == [c \in inside |-> Col(c)]
<1>1. S \in SUBSET Samples /\ wins \in SUBSET S
  OBVIOUS
<1>2. zeros \in SUBSET wins
  <2>1. price \in Nat
    BY BitmapQueryAssumption DEF TypesInv
  <2> QED BY <2>1 DEF Wins
<1>3. IsFiniteSet(ptr1) /\ IsFiniteSet(S)
  BY <1>1, FiniteCells, FS_Subset DEF TypesInv
<1>4. IsFiniteSet(wins) /\ IsFiniteSet(zeros) /\ IsFiniteSet(inside)
  <2>1. inside \in SUBSET ptr1
    OBVIOUS
  <2> QED BY <1>1, <1>2, <1>3, <2>1, FS_Subset
<1>5. Cardinality(inside) <= Cardinality(ptr1)
  <2>1. inside \in SUBSET ptr1
    OBVIOUS
  <2> QED BY <1>3, <2>1, FS_Subset
<1>6. Cardinality(S) <= Cardinality(inside)
  <2>1. col \in Surjection(inside, S)
    BY DEF Surjection
  <2> HIDE DEF col, inside
  <2> QED BY <1>4, <2>1, FS_Surjection
<1>7. Cardinality(wins) <= Cardinality(S) /\ Cardinality(zeros) <= Cardinality(wins)
  <2> HIDE DEF wins, zeros
  <2> QED BY <1>1, <1>2, <1>3, <1>4, FS_Subset
<1>8. /\ Cardinality(zeros) \in Nat /\ Cardinality(wins) \in Nat /\ Cardinality(S) \in Nat
      /\ Cardinality(ptr1) \in Nat /\ Cardinality(inside) \in Nat
  BY <1>3, <1>4, FS_CardinalityType
<1>9. Cardinality(S) <= Cardinality(ptr1)
  <2> HIDE DEF inside
  <2> QED BY <1>5, <1>6, <1>8
<1> QED BY <1>1, <1>3, <1>7, <1>8, <1>9

\* What Count writes, in the order that NoUnsignedWrap asks for.
LEMMA CountResult ==
  ASSUME TypesInv, Count
  PROVE  result' \in [DOMAIN NoResult -> Nat] /\ NoUnsignedWrap'
<1> DEFINE S       == {Col(c) : c \in ptr1} \cap Samples
           bits    == Cardinality(ptr1)
           padding == bits - Cardinality(S)
           wins    == Cardinality({s \in S : Wins(bids[s])})
           zeros   == Cardinality({s \in S : bids[s] = 0})
<1>1. PICK z \in 0..padding, w \in 0..padding :
        /\ z <= w
        /\ result' = [bid_sum    |-> Sum(bids, S) + (padding - z),
                      target_num |-> bits,
                      win_num    |-> wins + w,
                      zero_num   |-> zeros + z,
                      bid_num    |-> bits - zeros - z]
  BY DEF Count
<1>2. /\ zeros \in Nat /\ wins \in Nat /\ Cardinality(S) \in Nat /\ bits \in Nat
      /\ zeros <= wins /\ wins <= Cardinality(S) /\ Cardinality(S) <= bits
  BY CountFacts
<1>3. Sum(bids, S) \in Nat
  <2>1. bids \in [Samples -> Nat]
    BY BitmapQueryAssumption DEF TypesInv
  <2>2. IsFiniteSet(S) /\ S \in SUBSET Samples
    BY CountFacts
  <2>3. \A s \in S : bids[s] \in Nat
    BY <2>1, <2>2
  <2> HIDE DEF S
  <2> QED BY <2>2, <2>3, SumIsNatural
<1> HIDE DEF S, bits, wins, zeros
<1>4. padding \in Nat /\ z \in Nat /\ w \in Nat /\ z <= w /\ z <= padding /\ w <= padding
  BY <1>1, <1>2
<1>5. /\ zeros + z <= wins + w /\ wins + w <= bits
      /\ zeros + z \in Nat /\ wins + w \in Nat /\ padding - z \in Nat /\ bits - zeros - z \in Nat
  BY <1>2, <1>4
<1>6. Sum(bids, S) + (padding - z) \in Nat
  BY <1>3, <1>5
<1> HIDE DEF padding
<1>7. DOMAIN NoResult = {"bid_sum", "target_num", "win_num", "zero_num", "bid_num"}
  BY DEF NoResult
<1>8. result' \in [DOMAIN NoResult -> Nat]
  BY <1>1, <1>2, <1>5, <1>6, <1>7
<1> QED BY <1>1, <1>5, <1>8 DEF NoUnsignedWrap

ResultInv == result \in [DOMAIN NoResult -> Nat] /\ NoUnsignedWrap

LEMMA QueryInvariant == Spec => [](TypesInv /\ MaskInv /\ ResultInv)
<1>1. Init => TypesInv /\ MaskInv /\ ResultInv
  <2>1. NoResult \in [DOMAIN NoResult -> Nat]
    BY DEF NoResult
  <2>2. Init => NoUnsignedWrap
    BY DEF Init, NoResult, NoUnsignedWrap
  <2>3. Init => result = NoResult
    BY DEF Init
  <2> QED BY <2>1, <2>2, <2>3, QueryInit DEF ResultInv
<1>2. TypesInv /\ ResultInv /\ [Next]_vars => ResultInv'
  <2> SUFFICES ASSUME TypesInv, ResultInv, [Next]_vars PROVE ResultInv'
    OBVIOUS
  <2>1. CASE Count
    BY <2>1, CountResult DEF ResultInv, NoResult
  <2>2. CASE ~Count
    <3>1. UNCHANGED result
      BY <2>2 DEF vars, Next, NoCondition, FirstGroup, OrFirst, FirstDone, AndRow, NextGroup,
                  OrNext, AndGroup, GroupsDone
    <3> QED BY <3>1 DEF ResultInv, NoUnsignedWrap, NoResult
  <2> QED BY <2>1, <2>2
<1> QED BY <1>1, <1>2, TypesNext, MaskNext, PTL DEF Spec

\* The buffers of a query never hold a bit outside a row, the group and the row at hand
\* exist, and no counter is negative.
THEOREM TypeCorrect == Spec => []TypeOK
<1>1. TypesInv /\ ResultInv => TypeOK
  <2> SUFFICES ASSUME TypesInv, ResultInv PROVE TypeOK
    OBVIOUS
  <2>1. i \in 1..Len(targetings) + 2
    <3>1. Len(targetings) \in Nat /\ i \in Nat /\ 1 <= i /\ i <= Len(targetings) + 1
      BY QueryFacts
    <3> QED BY <3>1
  <2> QED BY <2>1 DEF TypesInv, ResultInv, TypeOK
<1> QED BY <1>1, QueryInvariant, PTL

\* Count on the bid bitmap and on the merge bitmap: for any price, any bids and whatever
\* stands behind the bids of the last sample, neither difference that is taken of the
\* counters is negative.
THEOREM CountersNeverWrap == Spec => []NoUnsignedWrap
  BY QueryInvariant, PTL DEF ResultInv
=============================================================================
