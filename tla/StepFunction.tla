---------------------------- MODULE StepFunction ----------------------------
(* A function that is constant between its splits.                           *)
EXTENDS Integers, Sequences

NoFunction == [values |-> <<>>, splits |-> <<>>]

\* std::sort.
Sorts(order, seq) ==
  /\ \A m \in DOMAIN seq : \E n \in DOMAIN seq : order[n] = m
  /\ \A m, n \in DOMAIN seq : m < n => order[m] # order[n] /\ seq[order[m]] <= seq[order[n]]
Sorted(seq) == LET order == CHOOSE order \in [DOMAIN seq -> DOMAIN seq] : Sorts(order, seq)
               IN [n \in DOMAIN seq |-> seq[order[n]]]

\* SetValues and SetSplits: only the splits are sorted.
StepFunction(values, splits) == [values |-> values, splits |-> Sorted(splits)]

IsValid(function) == Len(function.values) = Len(function.splits) + 1

\* Mutant of GetValue: a split belongs to the step on its right.
GetValueRight(function, x) ==
  LET splits == function.splits
      Search[range \in (0..Len(splits)) \X (0..Len(splits))] ==
        LET left  == range[1]
            right == range[2]
            mid   == (left + right) \div 2
        IN IF left >= right THEN left
           ELSE IF x >= splits[mid + 1] THEN Search[<<mid + 1, right>>] ELSE Search[<<left, mid>>]
  IN IF IsValid(function) THEN function.values[Search[<<0, Len(splits)>>] + 1] ELSE 0

\* The binary search for the first split that is not below x; positions count from 0.
GetValue(function, x) ==
  LET splits == function.splits
      Search[range \in (0..Len(splits)) \X (0..Len(splits))] ==
        LET left  == range[1]
            right == range[2]
            mid   == (left + right) \div 2
        IN IF left >= right THEN left
           ELSE IF x > splits[mid + 1] THEN Search[<<mid + 1, right>>] ELSE Search[<<left, mid>>]
  IN IF IsValid(function) THEN function.values[Search[<<0, Len(splits)>>] + 1] ELSE 0
=============================================================================
