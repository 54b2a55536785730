------------------------ MODULE RequestHandlerProofs ------------------------
(***************************************************************************)
(* Theorems about RequestHandler: for any dictionary, any index and any    *)
(* queries, as many as one likes, with texts of any length.  Then about    *)
(* Param, which gives it its limits: for any lines in any number of files, *)
(* of any length.  Both read texts with Split and Kept, so that they share *)
(* the lemmas about these.                                                 *)
(***************************************************************************)
EXTENDS RequestHandler, Param, FiniteSetTheorems, SequenceTheorems, WellFoundedInduction, TLAPS

-----------------------------------------------------------------------------
(* Loops over sequences.  Their values are recursive functions on 0..n.  That  *)
(* there is one, and what the loop does to a sequence that is one longer, are  *)
(* inductions over n.                                                          *)

\* Induction over the natural numbers, for the numbers in a set.
LEMMA AllNumbers ==
  ASSUME NEW S, 0 \in S, \A n \in Nat : n \in S => n + 1 \in S
  PROVE  Nat \subseteq S
<1> DEFINE Bad == Nat \ S
<1> SUFFICES ASSUME Bad # {} PROVE FALSE
  OBVIOUS
<1>1. PICK least \in Bad : \A n \in Bad : ~(<<n, least>> \in OpToRel(<, Nat))
  <2>1. Bad \subseteq Nat
    OBVIOUS
  <2> HIDE DEF Bad
  <2> QED BY <2>1, WFMin, NatLessThanWellFounded
<1>2. OpToRel(<, Nat) = {ss \in Nat \X Nat : ss[1] < ss[2]}
  BY DEF OpToRel
<1>3. least \in Nat /\ least - 1 \in Nat /\ least - 1 < least /\ least = (least - 1) + 1
  <2>1. least \in Nat /\ least # 0
    BY <1>1
  <2> QED BY <2>1
<1> DEFINE pair == <<least - 1, least>>
<1>4. pair \in Nat \X Nat /\ pair[1] < pair[2]
  BY <1>3
<1>5. pair \in OpToRel(<, Nat)
  <2> HIDE DEF pair
  <2> QED BY <1>2, <1>4
<1>6. least - 1 \notin Bad
  BY <1>1, <1>5
<1> QED BY <1>1, <1>3, <1>6

Steps(V, X, step) == step \in [V \X X -> V]

\* A table of a loop, at least where the values are as they should be.
LoopTable(V, step, start, seq, f) ==
  /\ f[0] = start
  /\ \A k \in 1..Len(seq) : f[k - 1] \in V => f[k] = step[<<f[k - 1], seq[k]>>]

LEMMA LoopTyped ==
  ASSUME NEW V, NEW X, NEW start \in V, NEW step, Steps(V, X, step), NEW seq \in Seq(X), NEW f,
         LoopTable(V, step, start, seq, f)
  PROVE  \A k \in 0..Len(seq) : f[k] \in V
<1> USE DEF Steps
<1> DEFINE Good == {k \in Nat : k <= Len(seq) => f[k] \in V}
<1>1. 0 \in Good
  BY DEF LoopTable
<1>2. ASSUME NEW k \in Nat, k \in Good PROVE k + 1 \in Good
  <2> SUFFICES ASSUME k + 1 <= Len(seq) PROVE f[k + 1] \in V
    OBVIOUS
  <2>1. k + 1 \in 1..Len(seq) /\ (k + 1) - 1 = k /\ f[k] \in V /\ seq[k + 1] \in X
    BY <1>2
  <2>2. f[k + 1] = step[<<f[k], seq[k + 1]>>]
    BY <2>1 DEF LoopTable
  <2>3. <<f[k], seq[k + 1]>> \in V \X X
    BY <2>1
  <2> QED BY <2>2, <2>3
<1>3. Nat \subseteq Good
  <2> HIDE DEF Good
  <2> QED BY <1>1, <1>2, AllNumbers
<1> QED BY <1>3

LEMMA LoopExists ==
  ASSUME NEW V, NEW X, NEW start \in V, NEW step, Steps(V, X, step), NEW seq \in Seq(X)
  PROVE  \E f \in [0..Len(seq) -> V] : LoopTable(V, step, start, seq, f)
<1> USE DEF Steps
<1> DEFINE UpTo(n, f) == /\ f \in [0..n -> V] /\ f[0] = start
                         /\ \A k \in 1..n : f[k] = step[<<f[k - 1], seq[k]>>]
           Good == {n \in Nat : n <= Len(seq) => \E f : UpTo(n, f)}
<1>1. 0 \in Good
  <2>1. UpTo(0, [k \in 0..0 |-> start])
    OBVIOUS
  <2> QED BY <2>1
<1>2. ASSUME NEW n \in Nat, n \in Good PROVE n + 1 \in Good
  <2> SUFFICES ASSUME n + 1 <= Len(seq) PROVE \E f : UpTo(n + 1, f)
    OBVIOUS
  <2>1. PICK g : UpTo(n, g)
    BY <1>2
  <2> DEFINE f == [k \in 0..n + 1 |-> IF k = n + 1 THEN step[<<g[n], seq[n + 1]>>] ELSE g[k]]
  <2>2. step[<<g[n], seq[n + 1]>>] \in V
    <3>1. g[n] \in V /\ seq[n + 1] \in X
      BY <2>1
    <3>2. <<g[n], seq[n + 1]>> \in V \X X
      BY <3>1
    <3> QED BY <3>2
  <2>3. f \in [0..n + 1 -> V] /\ f[0] = start
    BY <2>1, <2>2
  <2>4. ASSUME NEW k \in 1..n + 1 PROVE f[k] = step[<<f[k - 1], seq[k]>>]
    <3>1. f[k - 1] = g[k - 1]
      OBVIOUS
    <3>2. CASE k = n + 1
      <4>1. f[k] = step[<<g[n], seq[n + 1]>>] /\ k - 1 = n
        BY <3>2
      <4> QED BY <3>1, <3>2, <4>1
    <3>3. CASE k # n + 1
      <4>1. k \in 1..n
        BY <3>3
      <4>2. f[k] = g[k]
        BY <4>1
      <4> QED BY <2>1, <3>1, <4>1, <4>2
    <3> QED BY <3>2, <3>3
  <2> HIDE DEF f
  <2>5. UpTo(n + 1, f)
    BY <2>3, <2>4
  <2> HIDE DEF UpTo
  <2> QED BY <2>5
<1>3. Len(seq) \in Good
  <2> HIDE DEF Good
  <2> QED BY <1>1, <1>2, AllNumbers
<1>4. PICK f : UpTo(Len(seq), f)
  BY <1>3
<1> QED BY <1>4 DEF LoopTable

\* One element more is one step more.
LEMMA LoopOfAppend ==
  ASSUME NEW V, NEW X, NEW start \in V, NEW step, Steps(V, X, step), NEW seq \in Seq(X),
         NEW e \in X, NEW f, NEW g,
         LoopTable(V, step, start, seq, f), LoopTable(V, step, start, Append(seq, e), g)
  PROVE  g[Len(Append(seq, e))] = step[<<f[Len(seq)], e>>]
<1> DEFINE more == Append(seq, e)
           n    == Len(seq)
<1>1. /\ more \in Seq(X) /\ n \in Nat /\ Len(more) = n + 1 /\ more[n + 1] = e
      /\ \A k \in 1..n : more[k] = seq[k]
  OBVIOUS
<1>0. LoopTable(V, step, start, more, g)
  OBVIOUS
<1>2. (\A k \in 0..n : f[k] \in V) /\ (\A k \in 0..n + 1 : g[k] \in V)
  <2> HIDE DEF more
  <2>1. \A k \in 0..Len(more) : g[k] \in V
    BY <1>0, <1>1, LoopTyped
  <2> QED BY <1>1, <2>1, LoopTyped
<1> DEFINE Good == {k \in Nat : k <= n => g[k] = f[k]}
<1>3. 0 \in Good
  BY DEF LoopTable
<1>4. ASSUME NEW k \in Nat, k \in Good PROVE k + 1 \in Good
  <2> SUFFICES ASSUME k + 1 <= n PROVE g[k + 1] = f[k + 1]
    OBVIOUS
  <2>1. k + 1 \in 1..n /\ k + 1 \in 1..Len(more) /\ (k + 1) - 1 = k /\ k \in 0..n
    BY <1>1
  <2>2. g[k] = f[k] /\ f[k] \in V /\ more[k + 1] = seq[k + 1]
    BY <1>1, <1>2, <1>4, <2>1
  <2>3. f[k + 1] = step[<<f[k], seq[k + 1]>>]
    BY <2>1, <2>2 DEF LoopTable
  <2>4. g[k + 1] = step[<<g[k], more[k + 1]>>]
    <3> HIDE DEF more
    <3> QED BY <1>0, <2>1, <2>2 DEF LoopTable
  <2> QED BY <2>2, <2>3, <2>4
<1>5. g[n] = f[n]
  <2>1. n \in Good
    <3> HIDE DEF Good, n
    <3> QED BY <1>1, <1>3, <1>4, AllNumbers
  <2> QED BY <1>1, <2>1
<1> HIDE DEF more
<1>6. n + 1 \in 1..Len(more) /\ (n + 1) - 1 = n /\ g[n] \in V
  BY <1>1, <1>2
<1>7. g[n + 1] = step[<<g[n], more[n + 1]>>]
  BY <1>0, <1>6 DEF LoopTable
<1> QED BY <1>1, <1>5, <1>7

-----------------------------------------------------------------------------
(* The elements of a sequence that are in a set *)

KeepStep(X, set) == [vx \in Seq(X) \X X |-> IF vx[2] \in set THEN Append(vx[1], vx[2]) ELSE vx[1]]

LEMMA KeepStepType == ASSUME NEW X, NEW set PROVE Steps(Seq(X), X, KeepStep(X, set))
<1>1. ASSUME NEW vx \in Seq(X) \X X
      PROVE  (IF vx[2] \in set THEN Append(vx[1], vx[2]) ELSE vx[1]) \in Seq(X)
  <2>1. vx[1] \in Seq(X) /\ vx[2] \in X
    OBVIOUS
  <2> QED BY <2>1
<1> QED BY <1>1 DEF KeepStep, Steps

LEMMA KeepStepIs ==
  ASSUME NEW X, NEW set, NEW s \in Seq(X), NEW e \in X
  PROVE  KeepStep(X, set)[<<s, e>>] = IF e \in set THEN Append(s, e) ELSE s
<1>1. <<s, e>> \in Seq(X) \X X
  OBVIOUS
<1> QED BY <1>1 DEF KeepStep

KeptTable(seq, set, Keep) ==
  Keep = [k \in 0..Len(seq) |->
            IF k = 0 THEN <<>>
            ELSE IF seq[k] \in set THEN Append(Keep[k - 1], seq[k]) ELSE Keep[k - 1]]

LEMMA KeptLoop ==
  ASSUME NEW X, NEW seq \in Seq(X), NEW set
  PROVE  \E f : LoopTable(Seq(X), KeepStep(X, set), <<>>, seq, f) /\ Kept(seq, set) = f[Len(seq)]
<1> DEFINE step == KeepStep(X, set)
           n    == Len(seq)
<1>1. Steps(Seq(X), X, step) /\ <<>> \in Seq(X) /\ n \in Nat
  <2>1. Steps(Seq(X), X, step)
    BY KeepStepType
  <2> HIDE DEF step
  <2> QED BY <2>1
<1> HIDE DEF step
<1>2. PICK g \in [0..n -> Seq(X)] : LoopTable(Seq(X), step, <<>>, seq, g)
  BY <1>1, LoopExists
<1>3. KeptTable(seq, set, g)
  <2>1. ASSUME NEW k \in 0..n
        PROVE  g[k] = IF k = 0 THEN <<>>
                      ELSE IF seq[k] \in set THEN Append(g[k - 1], seq[k]) ELSE g[k - 1]
    <3>1. CASE k = 0
      BY <1>2, <3>1 DEF LoopTable
    <3>2. CASE k # 0
      <4>1. k \in 1..n /\ k - 1 \in 0..n /\ seq[k] \in X
        BY <3>2
      <4>2. g[k - 1] \in Seq(X) /\ g[k] = step[<<g[k - 1], seq[k]>>]
        BY <1>2, <4>1 DEF LoopTable
      <4> QED BY <3>2, <4>1, <4>2, KeepStepIs DEF step
    <3> QED BY <3>1, <3>2
  <2> QED BY <1>2, <2>1 DEF KeptTable
<1>4. PICK f : KeptTable(seq, set, f) /\ Kept(seq, set) = f[n]
  <2>1. Kept(seq, set) = (CHOOSE f : KeptTable(seq, set, f))[n]
    BY DEF Kept, KeptTable
  <2>2. KeptTable(seq, set, CHOOSE f : KeptTable(seq, set, f))
    BY <1>3
  <2> QED BY <2>1, <2>2
<1>5. f[0] = <<>>
  BY <1>1, <1>4 DEF KeptTable
<1>6. ASSUME NEW k \in 1..n, f[k - 1] \in Seq(X) PROVE f[k] = step[<<f[k - 1], seq[k]>>]
  <2>1. k \in 0..n /\ k # 0 /\ seq[k] \in X
    OBVIOUS
  <2>2. f[k] = IF seq[k] \in set THEN Append(f[k - 1], seq[k]) ELSE f[k - 1]
    BY <1>4, <2>1 DEF KeptTable
  <2> QED BY <1>6, <2>1, <2>2, KeepStepIs DEF step
<1> QED BY <1>4, <1>5, <1>6 DEF LoopTable, step

LEMMA KeptType == ASSUME NEW X, NEW seq \in Seq(X), NEW set PROVE Kept(seq, set) \in Seq(X)
<1>1. PICK f : LoopTable(Seq(X), KeepStep(X, set), <<>>, seq, f) /\ Kept(seq, set) = f[Len(seq)]
  BY KeptLoop
<1>2. Len(seq) \in 0..Len(seq) /\ <<>> \in Seq(X)
  OBVIOUS
<1> DEFINE step == KeepStep(X, set)
<1>3. Steps(Seq(X), X, step)
  BY KeepStepType
<1> HIDE DEF step
<1>4. LoopTable(Seq(X), step, <<>>, seq, f)
  BY <1>1 DEF step
<1>5. \A k \in 0..Len(seq) : f[k] \in Seq(X)
  BY <1>2, <1>3, <1>4, LoopTyped
<1> QED BY <1>1, <1>2, <1>5

LEMMA KeptEmpty == ASSUME NEW set PROVE Kept(<<>>, set) = <<>>
<1> DEFINE none == <<>>
<1>1. none \in Seq({}) /\ Len(none) = 0
  OBVIOUS
<1> HIDE DEF none
<1>2. PICK f : LoopTable(Seq({}), KeepStep({}, set), <<>>, none, f) /\ Kept(none, set) = f[Len(none)]
  BY <1>1, KeptLoop
<1> QED BY <1>1, <1>2 DEF LoopTable, none

LEMMA KeptAppend ==
  ASSUME NEW X, NEW seq \in Seq(X), NEW e \in X, NEW set
  PROVE  Kept(Append(seq, e), set) =
           IF e \in set THEN Append(Kept(seq, set), e) ELSE Kept(seq, set)
<1> DEFINE step == KeepStep(X, set)
<1>1. PICK f : LoopTable(Seq(X), step, <<>>, seq, f) /\ Kept(seq, set) = f[Len(seq)]
  BY KeptLoop
<1>2. PICK g : /\ LoopTable(Seq(X), step, <<>>, Append(seq, e), g)
               /\ Kept(Append(seq, e), set) = g[Len(Append(seq, e))]
  <2>1. Append(seq, e) \in Seq(X)
    OBVIOUS
  <2> QED BY <2>1, KeptLoop
<1>3. g[Len(Append(seq, e))] = step[<<f[Len(seq)], e>>]
  <2>1. Steps(Seq(X), X, step)
    BY KeepStepType
  <2> HIDE DEF step
  <2>2. <<>> \in Seq(X)
    OBVIOUS
  <2> DEFINE V    == Seq(X)
             none == <<>>
  <2>3. LoopTable(V, step, none, seq, f) /\ LoopTable(V, step, none, Append(seq, e), g)
    BY <1>1, <1>2
  <2>4. Steps(V, X, step) /\ none \in V
    BY <2>1, <2>2
  <2> HIDE DEF V, none
  <2> QED BY <2>3, <2>4, LoopOfAppend
<1>4. Kept(seq, set) \in Seq(X)
  BY KeptType
<1> QED BY <1>1, <1>2, <1>3, <1>4, KeepStepIs

\* A sequence that is not empty is one that is one shorter, and one element.
LEMMA Shorter ==
  ASSUME NEW X, NEW seq \in Seq(X), seq # <<>>
  PROVE  \E s \in Seq(X), e \in X : seq = Append(s, e) /\ Len(seq) = Len(s) + 1
<1> DEFINE n == Len(seq)
           s == SubSeq(seq, 1, n - 1)
<1>1. n \in Nat /\ n > 0 /\ seq[n] \in X
  OBVIOUS
<1>2. s \in Seq(X) /\ Len(s) = n - 1 /\ \A k \in 1..n - 1 : s[k] = seq[k]
  <2>1. n - 1 \in Nat /\ \A k \in 1..n - 1 : seq[k] \in X
    BY <1>1
  <2>2. /\ s \in Seq(X) /\ Len(s) = IF 1 <= n - 1 THEN (n - 1) - 1 + 1 ELSE 0
        /\ \A k \in 1..(n - 1) - 1 + 1 : s[k] = seq[1 + k - 1]
    BY <2>1, SubSeqProperties
  <2> HIDE DEF s, n
  <2>3. Len(s) = n - 1
    BY <1>1, <2>1, <2>2
  <2>4. ASSUME NEW k \in 1..n - 1 PROVE s[k] = seq[k]
    <3>1. (n - 1) - 1 + 1 = n - 1 /\ 1 + k - 1 = k
      BY <1>1
    <3> QED BY <2>2, <3>1
  <2> QED BY <2>2, <2>3, <2>4
<1> HIDE DEF s
<1>3. seq = Append(s, seq[n])
  <2>1. Append(s, seq[n]) \in Seq(X) /\ Len(Append(s, seq[n])) = Len(seq)
    BY <1>1, <1>2
  <2>2. \A k \in 1..Len(seq) : seq[k] = Append(s, seq[n])[k]
    BY <1>1, <1>2
  <2> QED BY <2>1, <2>2, SeqEqual
<1> QED BY <1>1, <1>2, <1>3

\* Induction over sequences, for the sequences in a set.
LEMMA AllSequences ==
  ASSUME NEW X, NEW S, <<>> \in S, \A s \in Seq(X), e \in X : s \in S => Append(s, e) \in S
  PROVE  Seq(X) \subseteq S
<1> DEFINE Good == {n \in Nat : \A s \in Seq(X) : Len(s) = n => s \in S}
<1>1. 0 \in Good
  <2>1. ASSUME NEW s \in Seq(X), Len(s) = 0 PROVE s = <<>>
    BY <2>1
  <2> QED BY <2>1
<1>2. ASSUME NEW n \in Nat, n \in Good PROVE n + 1 \in Good
  <2> SUFFICES ASSUME NEW s \in Seq(X), Len(s) = n + 1 PROVE s \in S
    OBVIOUS
  <2>1. PICK t \in Seq(X), e \in X : s = Append(t, e) /\ Len(s) = Len(t) + 1
    BY Shorter
  <2>2. Len(t) = n
    BY <2>1
  <2> QED BY <1>2, <2>1, <2>2
<1>3. Nat \subseteq Good
  <2> HIDE DEF Good
  <2> QED BY <1>1, <1>2, AllNumbers
<1> QED BY <1>3

LEMMA AppendNone == ASSUME NEW e PROVE Append(<<>>, e) = <<e>>
  OBVIOUS

LEMMA ToSetIn == ASSUME NEW X, NEW seq \in Seq(X) PROVE ToSet(seq) \subseteq X
  BY DEF ToSet

LEMMA ToSetAppend ==
  ASSUME NEW X, NEW seq \in Seq(X), NEW e \in X
  PROVE  ToSet(Append(seq, e)) = ToSet(seq) \cup {e}
<1> DEFINE n == Len(seq)
           s == Append(seq, e)
<1>1. /\ n \in Nat /\ DOMAIN seq = 1..n /\ DOMAIN s = 1..n + 1 /\ s[n + 1] = e
      /\ \A k \in 1..n : s[k] = seq[k]
  OBVIOUS
<1> HIDE DEF s, n
<1>2. {s[k] : k \in 1..n + 1} = {seq[k] : k \in 1..n} \cup {e}
  <2>1. \A k \in 1..n + 1 : k \in 1..n \/ k = n + 1
    BY <1>1
  <2>2. \A k \in 1..n : k \in 1..n + 1
    BY <1>1
  <2>3. n + 1 \in 1..n + 1
    BY <1>1
  <2> QED BY <1>1, <2>1, <2>2, <2>3
<1> QED BY <1>1, <1>2 DEF ToSet, s

LEMMA KeptSet ==
  ASSUME NEW X, NEW seq \in Seq(X), NEW set
  PROVE  ToSet(Kept(seq, set)) = ToSet(seq) \cap set
<1> DEFINE Good == {s \in Seq(X) : ToSet(Kept(s, set)) = ToSet(s) \cap set}
<1>1. <<>> \in Good
  <2>1. ToSet(<<>>) = {} /\ <<>> \in Seq(X)
    BY DEF ToSet
  <2> QED BY <2>1, KeptEmpty
<1>2. ASSUME NEW s \in Seq(X), NEW e \in X, s \in Good PROVE Append(s, e) \in Good
  <2>1. Kept(s, set) \in Seq(X) /\ Append(s, e) \in Seq(X)
    BY KeptType
  <2>2. ASSUME NEW t \in Seq(X) PROVE ToSet(Append(t, e)) = ToSet(t) \cup {e}
    BY ToSetAppend
  <2>3. Kept(Append(s, e), set) = IF e \in set THEN Append(Kept(s, set), e) ELSE Kept(s, set)
    BY KeptAppend
  <2> QED BY <1>2, <2>1, <2>2, <2>3
<1>3. Seq(X) \subseteq Good
  <2> HIDE DEF Good
  <2> QED BY <1>1, <1>2, AllSequences
<1> QED BY <1>3

\* Only what is in the sequence matters of the set.
LEMMA KeptSame ==
  ASSUME NEW X, NEW seq \in Seq(X), NEW A, NEW B, ToSet(seq) \cap A = ToSet(seq) \cap B
  PROVE  Kept(seq, A) = Kept(seq, B)
<1> DEFINE Good == {s \in Seq(X) : ToSet(s) \cap A = ToSet(s) \cap B => Kept(s, A) = Kept(s, B)}
<1>1. <<>> \in Good
  <2>1. <<>> \in Seq(X)
    OBVIOUS
  <2> QED BY <2>1, KeptEmpty
<1>2. ASSUME NEW s \in Seq(X), NEW e \in X, s \in Good PROVE Append(s, e) \in Good
  <2>1. ToSet(Append(s, e)) = ToSet(s) \cup {e}
    BY ToSetAppend
  <2>2. Append(s, e) \in Seq(X)
    OBVIOUS
  <2>3. Kept(Append(s, e), A) = IF e \in A THEN Append(Kept(s, A), e) ELSE Kept(s, A)
    BY KeptAppend
  <2>4. Kept(Append(s, e), B) = IF e \in B THEN Append(Kept(s, B), e) ELSE Kept(s, B)
    BY KeptAppend
  <2>5. ASSUME ToSet(Append(s, e)) \cap A = ToSet(Append(s, e)) \cap B
        PROVE  (e \in A <=> e \in B) /\ ToSet(s) \cap A = ToSet(s) \cap B
    BY <2>1, <2>5
  <2> QED BY <1>2, <2>2, <2>3, <2>4, <2>5
<1>3. Seq(X) \subseteq Good
  <2> HIDE DEF Good
  <2> QED BY <1>1, <1>2, AllSequences
<1> QED BY <1>3

LEMMA KeptTwice ==
  ASSUME NEW X, NEW seq \in Seq(X), NEW A, NEW B
  PROVE  Kept(Kept(seq, A), B) = Kept(seq, A \cap B)
<1> DEFINE Good == {s \in Seq(X) : Kept(Kept(s, A), B) = Kept(s, A \cap B)}
<1>1. <<>> \in Good
  <2>1. <<>> \in Seq(X)
    OBVIOUS
  <2>2. Kept(<<>>, A) = <<>> /\ Kept(<<>>, B) = <<>> /\ Kept(<<>>, A \cap B) = <<>>
    BY KeptEmpty
  <2> QED BY <2>1, <2>2
<1>2. ASSUME NEW s \in Seq(X), NEW e \in X, s \in Good PROVE Append(s, e) \in Good
  <2>1. Append(s, e) \in Seq(X) /\ Kept(s, A) \in Seq(X)
    BY KeptType
  <2>2. Kept(Append(s, e), A) = IF e \in A THEN Append(Kept(s, A), e) ELSE Kept(s, A)
    BY KeptAppend
  <2>3. Kept(Append(Kept(s, A), e), B) =
          IF e \in B THEN Append(Kept(Kept(s, A), B), e) ELSE Kept(Kept(s, A), B)
    BY <2>1, KeptAppend
  <2>4. Kept(Append(s, e), A \cap B) =
          IF e \in A \cap B THEN Append(Kept(s, A \cap B), e) ELSE Kept(s, A \cap B)
    BY KeptAppend
  <2>5. Kept(Kept(s, A), B) = Kept(s, A \cap B)
    BY <1>2
  <2>6. Kept(Kept(Append(s, e), A), B) = Kept(Append(s, e), A \cap B)
    <3>1. CASE e \in A
      <4>1. Kept(Append(s, e), A) = Append(Kept(s, A), e) /\ (e \in A \cap B <=> e \in B)
        BY <2>2, <3>1
      <4>2. CASE e \in B
        BY <2>3, <2>4, <2>5, <4>1, <4>2
      <4>3. CASE e \notin B
        BY <2>3, <2>4, <2>5, <4>1, <4>3
      <4> QED BY <4>2, <4>3
    <3>2. CASE e \notin A
      BY <2>2, <2>4, <2>5, <3>2
    <3> QED BY <3>1, <3>2
  <2> QED BY <2>1, <2>6
<1>3. Seq(X) \subseteq Good
  <2> HIDE DEF Good
  <2> QED BY <1>1, <1>2, AllSequences
<1> QED BY <1>3

LEMMA KeptInBoth ==
  ASSUME NEW X, NEW seq \in Seq(X), NEW A, NEW B, NEW C,
         \A e \in ToSet(seq) : e \in C <=> e \in A /\ e \in B
  PROVE  Kept(Kept(seq, A), B) = Kept(seq, C)
<1> DEFINE both == A \cap B
<1>1. Kept(Kept(seq, A), B) = Kept(seq, both)
  BY KeptTwice
<1>2. ToSet(seq) \cap both = ToSet(seq) \cap C
  OBVIOUS
<1>3. Kept(seq, both) = Kept(seq, C)
  <2> HIDE DEF both
  <2> QED BY <1>2, KeptSame
<1> QED BY <1>1, <1>3

-----------------------------------------------------------------------------
(* Splitting: fields are pieces of the text between separators *)

SplitNext(fields, token, separator) ==
  IF token = separator THEN Append(fields, <<>>)
  ELSE [fields EXCEPT ![Len(fields)] = Append(@, token)]

\* A text has at least one field.
Fields(X) == {fields \in Seq(Seq(X)) : fields # <<>>}

SplitStep(X, separator) == [vx \in Fields(X) \X X |-> SplitNext(vx[1], vx[2], separator)]

LEMMA SplitNextType ==
  ASSUME NEW X, NEW fields \in Fields(X), NEW token \in X, NEW separator
  PROVE  SplitNext(fields, token, separator) \in Fields(X)
<1>1. CASE token = separator
  <2>1. <<>> \in Seq(X) /\ fields \in Seq(Seq(X))
    BY DEF Fields
  <2>2. Append(fields, <<>>) \in Seq(Seq(X)) /\ Append(fields, <<>>) # <<>>
    BY <2>1, AppendProperties
  <2> QED BY <1>1, <2>2 DEF SplitNext, Fields
<1>2. CASE token # separator
  <2> DEFINE n    == Len(fields)
             last == Append(fields[n], token)
  <2>1. fields \in Seq(Seq(X)) /\ n \in 1..Len(fields) /\ n \in Nat \ {0}
    BY EmptySeq DEF Fields
  <2>2. last \in Seq(X)
    BY <2>1
  <2>3. SplitNext(fields, token, separator) = [fields EXCEPT ![n] = last]
    BY <1>2 DEF SplitNext
  <2> HIDE DEF last
  <2>4. /\ [fields EXCEPT ![n] = last] \in Seq(Seq(X))
        /\ Len([fields EXCEPT ![n] = last]) = Len(fields)
    BY <2>1, <2>2, ExceptSeq
  <2>5. [fields EXCEPT ![n] = last] # <<>>
    BY <2>1, <2>4
  <2> QED BY <2>3, <2>4, <2>5 DEF Fields
<1> QED BY <1>1, <1>2

LEMMA SplitStepType == ASSUME NEW X, NEW separator PROVE Steps(Fields(X), X, SplitStep(X, separator))
<1>1. ASSUME NEW vx \in Fields(X) \X X PROVE SplitNext(vx[1], vx[2], separator) \in Fields(X)
  <2>1. vx[1] \in Fields(X) /\ vx[2] \in X
    OBVIOUS
  <2> QED BY <2>1, SplitNextType
<1> QED BY <1>1 DEF SplitStep, Steps

LEMMA SplitStepIs ==
  ASSUME NEW X, NEW separator, NEW fields \in Fields(X), NEW token \in X
  PROVE  SplitStep(X, separator)[<<fields, token>>] = SplitNext(fields, token, separator)
<1>1. <<fields, token>> \in Fields(X) \X X
  OBVIOUS
<1> QED BY <1>1 DEF SplitStep

SplitTable(text, separator, Table) ==
  Table = [k \in 0..Len(text) |->
             IF k = 0 THEN <<<<>>>> ELSE SplitNext(Table[k - 1], text[k], separator)]

LEMMA OneField == ASSUME NEW X PROVE <<<<>>>> \in Fields(X)
  BY DEF Fields

LEMMA SplitLoop ==
  ASSUME NEW X, NEW text \in Seq(X), NEW separator
  PROVE  \E f : /\ LoopTable(Fields(X), SplitStep(X, separator), <<<<>>>>, text, f)
                /\ Split(text, separator) = f[Len(text)]
<1> DEFINE V    == Fields(X)
           step == SplitStep(X, separator)
           n    == Len(text)
           one  == <<<<>>>>
<1>1. Steps(V, X, step) /\ one \in V /\ n \in Nat
  <2>1. Steps(V, X, step)
    BY SplitStepType
  <2>2. one \in V
    BY OneField
  <2> HIDE DEF V, step, one
  <2> QED BY <2>1, <2>2
<1> HIDE DEF V, step, one
<1>2. PICK g \in [0..n -> V] : LoopTable(V, step, one, text, g)
  BY <1>1, LoopExists
<1>3. SplitTable(text, separator, g)
  <2>1. ASSUME NEW k \in 0..n
        PROVE  g[k] = IF k = 0 THEN <<<<>>>> ELSE SplitNext(g[k - 1], text[k], separator)
    <3>1. CASE k = 0
      BY <1>2, <3>1 DEF LoopTable, one
    <3>2. CASE k # 0
      <4>1. k \in 1..n /\ k - 1 \in 0..n /\ text[k] \in X
        BY <3>2
      <4>2. g[k - 1] \in V /\ g[k] = step[<<g[k - 1], text[k]>>]
        BY <1>2, <4>1 DEF LoopTable
      <4>3. step[<<g[k - 1], text[k]>>] = SplitNext(g[k - 1], text[k], separator)
        BY <4>1, <4>2, SplitStepIs DEF step, V
      <4> QED BY <3>2, <4>2, <4>3
    <3> QED BY <3>1, <3>2
  <2> QED BY <1>2, <2>1 DEF SplitTable
<1>4. PICK f : SplitTable(text, separator, f) /\ Split(text, separator) = f[n]
  <2>1. Split(text, separator) = (CHOOSE f : SplitTable(text, separator, f))[n]
    BY DEF Split, SplitTable, SplitNext
  <2>2. SplitTable(text, separator, CHOOSE f : SplitTable(text, separator, f))
    BY <1>3
  <2> QED BY <2>1, <2>2
<1>5. f[0] = one
  BY <1>1, <1>4 DEF SplitTable, one
<1>6. ASSUME NEW k \in 1..n, f[k - 1] \in V PROVE f[k] = step[<<f[k - 1], text[k]>>]
  <2>1. k \in 0..n /\ k # 0 /\ text[k] \in X
    OBVIOUS
  <2>2. f[k] = SplitNext(f[k - 1], text[k], separator)
    BY <1>4, <2>1 DEF SplitTable
  <2>3. step[<<f[k - 1], text[k]>>] = SplitNext(f[k - 1], text[k], separator)
    BY <1>6, <2>1, SplitStepIs DEF step, V
  <2> QED BY <2>2, <2>3
<1>7. LoopTable(V, step, one, text, f)
  BY <1>5, <1>6 DEF LoopTable
<1> QED BY <1>4, <1>7 DEF V, step, one

LEMMA SplitType ==
  ASSUME NEW X, NEW text \in Seq(X), NEW separator
  PROVE  Split(text, separator) \in Fields(X)
<1>1. PICK f : /\ LoopTable(Fields(X), SplitStep(X, separator), <<<<>>>>, text, f)
               /\ Split(text, separator) = f[Len(text)]
  BY SplitLoop
<1>2. Len(text) \in 0..Len(text) /\ <<<<>>>> \in Fields(X)
  BY OneField
<1>3. \A k \in 0..Len(text) : f[k] \in Fields(X)
  BY <1>1, <1>2, SplitStepType, LoopTyped
<1> QED BY <1>1, <1>2, <1>3

LEMMA SplitEmpty == ASSUME NEW separator PROVE Split(<<>>, separator) = <<<<>>>>
<1> DEFINE none == <<>>
<1>1. none \in Seq({}) /\ Len(none) = 0
  OBVIOUS
<1> HIDE DEF none
<1>2. PICK f : /\ LoopTable(Fields({}), SplitStep({}, separator), <<<<>>>>, none, f)
               /\ Split(none, separator) = f[Len(none)]
  BY <1>1, SplitLoop
<1>3. f[0] = <<<<>>>>
  BY <1>2 DEF LoopTable
<1>4. Split(none, separator) = <<<<>>>>
  BY <1>1, <1>2, <1>3
<1> QED BY <1>4 DEF none

LEMMA SplitAppend ==
  ASSUME NEW X, NEW text \in Seq(X), NEW token \in X, NEW separator
  PROVE  Split(Append(text, token), separator) = SplitNext(Split(text, separator), token, separator)
<1> DEFINE V    == Fields(X)
           step == SplitStep(X, separator)
           one  == <<<<>>>>
           more == Append(text, token)
<1>1. PICK f : LoopTable(V, step, one, text, f) /\ Split(text, separator) = f[Len(text)]
  BY SplitLoop
<1>2. PICK g : LoopTable(V, step, one, more, g) /\ Split(more, separator) = g[Len(more)]
  <2>1. more \in Seq(X)
    OBVIOUS
  <2> HIDE DEF more
  <2> QED BY <2>1, SplitLoop
<1>3. Steps(V, X, step) /\ one \in V
  BY SplitStepType, OneField
<1>4. g[Len(more)] = step[<<f[Len(text)], token>>]
  <2> HIDE DEF V, step, one
  <2> QED BY <1>1, <1>2, <1>3, LoopOfAppend
<1>5. Split(text, separator) \in V
  BY SplitType
<1>6. step[<<Split(text, separator), token>>] = SplitNext(Split(text, separator), token, separator)
  BY <1>5, SplitStepIs
<1> QED BY <1>1, <1>2, <1>4, <1>6

-----------------------------------------------------------------------------
(* The positions of a query *)

Tokens == STRING \ {""}
Names  == Tokens \cup {""}

LEMMA NoToken == "" \notin Tokens /\ "" \in Names /\ Tokens \subseteq Names
  BY DEF Tokens, Names

NameIn(field)   == IF field = <<>> THEN "" ELSE Head(field)
NamesIn(fields) == [f \in DOMAIN fields |-> NameIn(fields[f])]

LEMMA NamesInType ==
  ASSUME NEW fields \in Seq(Seq(Tokens))
  PROVE  NamesIn(fields) \in Seq(Names) /\ Len(NamesIn(fields)) = Len(fields)
<1>1. ASSUME NEW field \in Seq(Tokens) PROVE NameIn(field) \in Names
  <2>1. CASE field = <<>>
    BY <2>1, NoToken DEF NameIn
  <2>2. CASE field # <<>>
    <3>1. Head(field) \in Tokens
      BY <2>2, HeadTailProperties
    <3> QED BY <2>2, <3>1, NoToken DEF NameIn
  <2> QED BY <2>1, <2>2
<1>2. \A f \in 1..Len(fields) : fields[f] \in Seq(Tokens)
  OBVIOUS
<1>3. NamesIn(fields) = [f \in 1..Len(fields) |-> NameIn(fields[f])]
  BY DEF NamesIn
<1>4. Len(fields) \in Nat /\ \A f \in 1..Len(fields) : NameIn(fields[f]) \in Names
  BY <1>1, <1>2
<1> QED BY <1>3, <1>4

LEMMA NamesAppend ==
  ASSUME NEW fields \in Seq(Seq(Tokens)), NEW field \in Seq(Tokens)
  PROVE  NamesIn(Append(fields, field)) = Append(NamesIn(fields), NameIn(field))
<1> DEFINE more == Append(fields, field)
           n    == Len(fields)
<1>1. /\ n \in Nat /\ DOMAIN fields = 1..n /\ DOMAIN more = 1..n + 1 /\ more[n + 1] = field
      /\ \A k \in 1..n : more[k] = fields[k]
  OBVIOUS
<1>2. more \in Seq(Seq(Tokens)) /\ Len(more) = n + 1
  OBVIOUS
<1>3. NamesIn(fields) \in Seq(Names) /\ Len(NamesIn(fields)) = n
  BY NamesInType
<1>4. NamesIn(more) \in Seq(Names) /\ Len(NamesIn(more)) = n + 1
  <2> HIDE DEF more
  <2> QED BY <1>2, NamesInType
<1> HIDE DEF more, n
<1>5. NamesIn(more)[n + 1] = NameIn(field)
  BY <1>1 DEF NamesIn
<1>6. NameIn(field) \in Names
  <2>1. n + 1 \in 1..Len(NamesIn(more))
    BY <1>1, <1>4
  <2> QED BY <1>4, <1>5, <2>1, ElementOfSeq
<1>7. Append(NamesIn(fields), NameIn(field)) \in Seq(Names)
  BY <1>3, <1>6
<1>8. ASSUME NEW k \in 1..n + 1 PROVE NamesIn(more)[k] = Append(NamesIn(fields), NameIn(field))[k]
  <2>1. CASE k = n + 1
    BY <1>3, <1>5, <1>6, <2>1
  <2>2. CASE k # n + 1
    <3>1. k \in 1..n /\ k \in DOMAIN more
      BY <1>1, <2>2
    <3>2. NamesIn(more)[k] = NameIn(more[k]) /\ NamesIn(fields)[k] = NameIn(fields[k])
      BY <1>1, <3>1 DEF NamesIn
    <3> QED BY <1>1, <1>3, <1>6, <3>1, <3>2
  <2> QED BY <2>1, <2>2
<1>9. Len(Append(NamesIn(fields), NameIn(field))) = n + 1
  BY <1>3, <1>6
<1>10. NamesIn(more) = Append(NamesIn(fields), NameIn(field))
  BY <1>4, <1>7, <1>8, <1>9, SeqEqual
<1> QED BY <1>10 DEF more

LEMMA NamesOfIs == ASSUME NEW text PROVE NamesOf(text) = NamesIn(Split(text, ","))
  BY DEF NamesOf, NamesIn, NameIn

\* Between commas stands one name or nothing.
SpacedBy(text, comma) == \A k \in 1..Len(text) - 1 : text[k] = comma \/ text[k + 1] = comma
Spaced(text) == SpacedBy(text, ",")

\* What the names in a text are, and the field that the next token goes to.
Listed(text) ==
  LET fields == Split(text, ",")
  IN /\ Kept(NamesIn(fields), Tokens) = Kept(text, Tokens \ {","})
     /\ text = <<>> \/ text[Len(text)] = "," => fields[Len(fields)] = <<>>

LEMMA SetLast ==
  ASSUME NEW T, NEW front \in Seq(T), NEW old \in T, NEW new \in T
  PROVE  [Append(front, old) EXCEPT ![Len(front) + 1] = new] = Append(front, new)
<1> DEFINE n == Len(front)
           s == Append(front, old)
           u == Append(front, new)
           v == [s EXCEPT ![n + 1] = new]
<1>1. /\ n \in Nat /\ s \in Seq(T) /\ Len(s) = n + 1
      /\ u \in Seq(T) /\ Len(u) = n + 1 /\ u[n + 1] = new
      /\ \A k \in 1..n : s[k] = front[k] /\ u[k] = front[k]
  OBVIOUS
<1> HIDE DEF s, u, n
<1>2. n + 1 \in 1..Len(s)
  BY <1>1
<1>3. v \in Seq(T) /\ Len(v) = n + 1 /\ v[n + 1] = new
  BY <1>1, <1>2, ExceptSeq
<1>4. ASSUME NEW k \in 1..n + 1 PROVE v[k] = u[k]
  <2>1. CASE k = n + 1
    BY <1>1, <1>3, <2>1
  <2>2. CASE k # n + 1
    <3>1. k \in 1..n /\ k \in 1..Len(s)
      BY <1>1, <2>2
    <3>2. v[k] = s[k]
      BY <1>1, <1>2, <2>2, <3>1, ExceptSeq
    <3> QED BY <1>1, <3>1, <3>2
  <2> QED BY <2>1, <2>2
<1> HIDE DEF v
<1>5. v = u
  BY <1>1, <1>3, <1>4, SeqEqual
<1> QED BY <1>5 DEF n, s, u, v

\* A last field that is empty takes the next token, or ends.
LEMMA NextInLast ==
  ASSUME NEW X, NEW front \in Seq(Seq(X)), NEW token \in X, NEW separator, token # separator
  PROVE  SplitNext(Append(front, <<>>), token, separator) = Append(front, <<token>>)
<1> DEFINE T    == Seq(X)
           none == <<>>
           one  == <<token>>
           s    == Append(front, none)
<1>1. none \in T /\ one \in T /\ Append(none, token) = one
  BY EmptySeq
<1>2. front \in Seq(T)
  OBVIOUS
<1> HIDE DEF T, none, one
<1>3. Len(s) = Len(front) + 1 /\ s[Len(s)] = none
  BY <1>1, <1>2
<1>4. [s EXCEPT ![Len(front) + 1] = one] = Append(front, one)
  BY <1>1, <1>2, SetLast
<1> HIDE DEF s
<1>5. SplitNext(s, token, separator) = [s EXCEPT ![Len(s)] = Append(s[Len(s)], token)]
  BY DEF SplitNext
<1>6. SplitNext(s, token, separator) = Append(front, one)
  BY <1>1, <1>3, <1>4, <1>5
<1> QED BY <1>6 DEF s, none, one

\* One field more is one name more, unless it is empty.
LEMMA NamesKept ==
  ASSUME NEW fields \in Seq(Seq(Tokens)), NEW field \in Seq(Tokens)
  PROVE  Kept(NamesIn(Append(fields, field)), Tokens) =
           IF field = <<>> THEN Kept(NamesIn(fields), Tokens)
           ELSE Append(Kept(NamesIn(fields), Tokens), Head(field))
<1> DEFINE names == NamesIn(fields)
           name  == NameIn(field)
<1>1. names \in Seq(Names) /\ NamesIn(Append(fields, field)) = Append(names, name)
  BY NamesInType, NamesAppend
<1>2. IF field = <<>> THEN name = "" ELSE name \in Tokens /\ name = Head(field)
  <2>1. field # <<>> => Head(field) \in Tokens
    BY HeadTailProperties
  <2> QED BY <2>1 DEF NameIn
<1>3. name \in Names /\ (name \in Tokens <=> field # <<>>)
  BY <1>2, NoToken
<1> HIDE DEF names, name
<1>4. Kept(Append(names, name), Tokens) =
        IF name \in Tokens THEN Append(Kept(names, Tokens), name) ELSE Kept(names, Tokens)
  BY <1>1, <1>3, KeptAppend
<1> QED BY <1>1, <1>2, <1>3, <1>4 DEF names

LEMMA ListedAppend ==
  ASSUME NEW s \in Seq(Tokens), NEW e \in Tokens, Listed(s), Spaced(Append(s, e))
  PROVE  Listed(Append(s, e))
<1> DEFINE fields == Split(s, ",")
           more   == Append(s, e)
           words  == Tokens \ {","}
           new    == Split(more, ",")
<1>1. fields \in Seq(Seq(Tokens)) /\ fields # <<>>
  BY SplitType DEF Fields
<1>2. new = SplitNext(fields, e, ",")
  BY SplitAppend
<1>3. Kept(NamesIn(fields), Tokens) = Kept(s, words)
  BY DEF Listed
<1>4. Kept(more, words) = IF e # "," THEN Append(Kept(s, words), e) ELSE Kept(s, words)
  <2>1. e \in words <=> e # ","
    OBVIOUS
  <2> HIDE DEF words
  <2> QED BY <2>1, KeptAppend
<1>5. more # <<>> /\ more[Len(more)] = e
  OBVIOUS
<1>6. SUFFICES /\ Kept(NamesIn(new), Tokens) = Kept(more, words)
               /\ e = "," => new[Len(new)] = <<>>
  BY <1>5 DEF Listed
<1> HIDE DEF fields, more, words, new
<1>7. CASE e = ","
  <2> DEFINE none == <<>>
             T    == Seq(Tokens)
  <2>1. new = Append(fields, none)
    BY <1>2, <1>7 DEF SplitNext
  <2>2. none \in T /\ fields \in Seq(T)
    BY <1>1, EmptySeq
  <2>3. new[Len(new)] = none
    <3> HIDE DEF none, T
    <3> QED BY <2>1, <2>2
  <2>4. Kept(NamesIn(new), Tokens) = Kept(NamesIn(fields), Tokens)
    BY <1>1, <2>1, EmptySeq, NamesKept
  <2> QED BY <1>3, <1>4, <1>7, <2>3, <2>4
<1>8. CASE e # ","
  <2>1. fields[Len(fields)] = <<>>
    <3>1. CASE s = <<>>
      BY <3>1 DEF Listed, fields
    <3>2. CASE s # <<>>
      <4>1. Len(s) \in 1..Len(more) - 1 /\ more[Len(s)] = s[Len(s)] /\ more[Len(s) + 1] = e
        BY <3>2 DEF more
      <4>2. s[Len(s)] = ","
        BY <1>8, <4>1 DEF Spaced, SpacedBy, more
      <4> QED BY <4>2 DEF Listed, fields
    <3> QED BY <3>1, <3>2
  <2>2. PICK front \in Seq(Seq(Tokens)), last \in Seq(Tokens) :
          fields = Append(front, last) /\ Len(fields) = Len(front) + 1
    BY <1>1, Shorter
  <2>3. last = <<>>
    <3> DEFINE T == Seq(Tokens)
    <3>1. front \in Seq(T) /\ last \in T
      OBVIOUS
    <3> HIDE DEF T
    <3>2. fields[Len(front) + 1] = last
      BY <2>2, <3>1
    <3> QED BY <2>1, <2>2, <3>2
  <2>4. new = Append(front, <<e>>)
    BY <1>2, <1>8, <2>2, <2>3, NextInLast
  <2>5. <<e>> \in Seq(Tokens) /\ Head(<<e>>) = e /\ <<e>> # <<>>
    OBVIOUS
  <2>6. Kept(NamesIn(new), Tokens) = Append(Kept(NamesIn(front), Tokens), e)
    BY <2>4, <2>5, NamesKept
  <2>7. Kept(NamesIn(fields), Tokens) = Kept(NamesIn(front), Tokens)
    BY <2>2, <2>3, NamesKept
  <2> QED BY <1>3, <1>4, <1>8, <2>6, <2>7
<1> QED BY <1>7, <1>8

LEMMA SpacedAppend ==
  ASSUME NEW s \in Seq(Tokens), NEW e \in Tokens, Spaced(Append(s, e))
  PROVE  Spaced(s)
<1>1. ASSUME NEW k \in 1..Len(s) - 1
      PROVE  /\ k \in 1..Len(Append(s, e)) - 1
             /\ Append(s, e)[k] = s[k] /\ Append(s, e)[k + 1] = s[k + 1]
  OBVIOUS
<1> QED BY <1>1 DEF Spaced, SpacedBy

LEMMA ListedAll == ASSUME NEW text \in Seq(Tokens), Spaced(text) PROVE Listed(text)
<1> DEFINE Good == {s \in Seq(Tokens) : Spaced(s) => Listed(s)}
<1>1. <<>> \in Good
  <2>1. Split(<<>>, ",") = <<<<>>>>
    BY SplitEmpty
  <2>2. NamesIn(<<>>) = <<>> /\ <<<<>>>> = Append(<<>>, <<>>) /\ Kept(<<>>, Tokens) = <<>>
    <3> DEFINE none == <<>>
    <3>1. none \in Seq(Seq(Tokens)) /\ Len(none) = 0
      BY EmptySeq
    <3> HIDE DEF none
    <3>2. NamesIn(none) \in Seq(Names) /\ Len(NamesIn(none)) = 0
      BY <3>1, NamesInType
    <3>3. NamesIn(none) = <<>>
      BY <3>2, EmptySeq
    <3>4. <<<<>>>> = Append(<<>>, <<>>)
      BY AppendNone
    <3> QED BY <3>3, <3>4, KeptEmpty DEF none
  <2>3. Kept(NamesIn(<<<<>>>>), Tokens) = <<>>
    <3>1. <<>> \in Seq(Seq(Tokens)) /\ <<>> \in Seq(Tokens)
      BY EmptySeq
    <3> QED BY <2>2, <3>1, NamesKept
  <2>4. Kept(<<>>, Tokens \ {","}) = <<>> /\ <<<<>>>>[Len(<<<<>>>>)] = <<>>
    BY KeptEmpty
  <2>5. Listed(<<>>)
    BY <2>1, <2>2, <2>3, <2>4 DEF Listed
  <2>6. <<>> \in Seq(Tokens)
    BY EmptySeq
  <2> QED BY <2>5, <2>6
<1>2. ASSUME NEW s \in Seq(Tokens), NEW e \in Tokens, s \in Good PROVE Append(s, e) \in Good
  <2>1. Append(s, e) \in Seq(Tokens)
    BY AppendProperties
  <2>2. Spaced(Append(s, e)) => Listed(Append(s, e))
    BY <1>2, ListedAppend, SpacedAppend
  <2> QED BY <2>1, <2>2
<1>3. Seq(Tokens) \subseteq Good
  <2> HIDE DEF Good
  <2> QED BY <1>1, <1>2, AllSequences
<1> QED BY <1>3

\* The names in a text, but for the empty ones, are its tokens but for the commas.
LEMMA NamesAre ==
  ASSUME NEW text \in Seq(Tokens), Spaced(text)
  PROVE  /\ NamesOf(text) \in Seq(Names)
         /\ Kept(NamesOf(text), Tokens) = Kept(text, Tokens \ {","})
<1>1. Split(text, ",") \in Seq(Seq(Tokens))
  BY SplitType DEF Fields
<1> QED BY <1>1, NamesInType, ListedAll, NamesOfIs DEF Listed

\* The positions are the tokens of the list but for the commas, in their order and as often
\* as they are there.
LEMMA PositionsAre ==
  ASSUME NEW text, Tokenized(text, {","})
  PROVE  Positions(text) = Kept(text, Tokens \ {","}) /\ Positions(text) \in Seq(Names)
<1>1. text \in Seq(Tokens) /\ Spaced(text)
  BY DEF Tokenized, Spaced, SpacedBy, Tokens
<1> DEFINE names == NamesOf(text)
<1>5. names \in Seq(Names) /\ Kept(names, Tokens) = Kept(text, Tokens \ {","})
  BY <1>1, NamesAre
<1>6. Positions(text) = Kept(names, ToSet(names) \ {""})
  BY DEF Positions
<1>7. Kept(names, ToSet(names) \ {""}) = Kept(names, Tokens)
  <2>1. ToSet(names) \subseteq Names
    <3> HIDE DEF names
    <3> QED BY <1>5, ToSetIn
  <2>2. ToSet(names) \cap (ToSet(names) \ {""}) = ToSet(names) \cap Tokens
    <3> HIDE DEF names
    <3> QED BY <2>1, NoToken DEF Names
  <2> HIDE DEF names
  <2> QED BY <1>5, <2>2, KeptSame
<1>8. Kept(names, ToSet(names) \ {""}) \in Seq(Names)
  <2> HIDE DEF names
  <2> QED BY <1>5, KeptType
<1> QED BY <1>5, <1>6, <1>7, <1>8

-----------------------------------------------------------------------------
(* The groups of an orientation *)

\* A field more, or the last one is a token longer.
Grown(fields, next, token, separator, m) ==
  /\ token = separator => /\ Len(next) = m + 1 /\ next[m + 1] = <<>>
                          /\ \A k \in 1..m : next[k] = fields[k]
  /\ token # separator => /\ Len(next) = m /\ next[m] = Append(fields[m], token)
                          /\ \A k \in 1..m - 1 : next[k] = fields[k]

LEMMA SplitNextIs ==
  ASSUME NEW X, NEW fields \in Fields(X), NEW token \in X, NEW separator
  PROVE  /\ Len(fields) \in Nat \ {0} /\ SplitNext(fields, token, separator) \in Fields(X)
         /\ Grown(fields, SplitNext(fields, token, separator), token, separator, Len(fields))
<1> DEFINE m    == Len(fields)
           next == SplitNext(fields, token, separator)
<1> SUFFICES m \in Nat \ {0} /\ next \in Fields(X) /\ Grown(fields, next, token, separator, m)
  OBVIOUS
<1> USE DEF Grown
<1> DEFINE T    == Seq(X)
           none == <<>>
<1>1. fields \in Seq(T) /\ fields # <<>> /\ none \in T
  BY EmptySeq DEF Fields
<1>2. m \in Nat \ {0} /\ next \in Fields(X)
  <2>1. next \in Fields(X)
    BY SplitNextType
  <2>2. m \in Nat \ {0}
    <3> HIDE DEF T, none
    <3> QED BY <1>1
  <2> QED BY <2>1, <2>2
<1>3. CASE token = separator
  <2>1. next = Append(fields, none)
    BY <1>3 DEF SplitNext
  <2> HIDE DEF T, none
  <2>2. Len(next) = m + 1 /\ next[m + 1] = none /\ \A k \in 1..m : next[k] = fields[k]
    BY <1>1, <1>2, <2>1, AppendProperties
  <2> QED BY <1>2, <1>3, <2>2 DEF none
<1>4. CASE token # separator
  <2> DEFINE last == Append(fields[m], token)
  <2>1. next = [fields EXCEPT ![m] = last]
    BY <1>4 DEF SplitNext
  <2>2. m \in 1..Len(fields) /\ fields[m] \in T
    <3> HIDE DEF T
    <3> QED BY <1>1, <1>2
  <2>3. last \in T
    BY <2>2, AppendProperties
  <2> HIDE DEF T, last
  <2>4. Len(next) = m /\ next[m] = last
    BY <1>1, <2>1, <2>2, <2>3, ExceptSeq
  <2>5. ASSUME NEW k \in 1..m - 1 PROVE next[k] = fields[k]
    <3>1. k \in 1..Len(fields) /\ k # m
      BY <1>2
    <3> QED BY <1>1, <2>1, <2>2, <2>3, <3>1, ExceptSeq
  <2> QED BY <1>2, <1>4, <2>4, <2>5 DEF last
<1> QED BY <1>3, <1>4

\* Split with two, as a table of the groups.
TwoSplit(G, groups, b) == /\ Len(G) = Len(groups) /\ Len(G) \in Nat \ {0}
                          /\ \A g \in 1..Len(G) : G[g] = Split(groups[g], b)

LEMMA SplitTwoType ==
  ASSUME NEW X, NEW text \in Seq(X), NEW a, NEW b
  PROVE  /\ SplitTwo(text, a, b) \in Seq(Fields(X))
         /\ TwoSplit(SplitTwo(text, a, b), Split(text, a), b)
<1> DEFINE G == SplitTwo(text, a, b)
<1> SUFFICES G \in Seq(Fields(X)) /\ TwoSplit(G, Split(text, a), b)
  OBVIOUS
<1> USE DEF TwoSplit
<1> DEFINE groups == Split(text, a)
           n      == Len(groups)
<1>1. groups \in Fields(X)
  BY SplitType
<1>2. groups \in Seq(Seq(X)) /\ groups # <<>>
  BY <1>1 DEF Fields
<1>3. n \in Nat \ {0} /\ DOMAIN groups = 1..n /\ \A g \in 1..n : groups[g] \in Seq(X)
  <2> DEFINE T == Seq(X)
  <2>1. groups \in Seq(T) /\ groups # <<>>
    BY <1>2
  <2> HIDE DEF T, groups
  <2>2. n \in Nat \ {0} /\ DOMAIN groups = 1..n /\ \A g \in 1..n : groups[g] \in T
    BY <2>1
  <2> QED BY <2>2 DEF T
<1>4. G = [g \in 1..n |-> Split(groups[g], b)]
  BY <1>3 DEF SplitTwo
<1> HIDE DEF groups, n
<1>5. \A g \in 1..n : Split(groups[g], b) \in Fields(X)
  BY <1>3, SplitType
<1> DEFINE V == Fields(X)
<1> HIDE DEF V
<1>6. \A g \in 1..n : G[g] \in V
  BY <1>4, <1>5 DEF V
<1>7. G \in Seq(V) /\ Len(G) = n
  BY <1>3, <1>4, <1>6
<1> QED BY <1>3, <1>4, <1>7 DEF V, n, groups

\* A token more starts a group, or goes to the last one.
GrownTwo(G, N, token, a, b, n) ==
  /\ token = a => /\ Len(N) = n + 1 /\ N[n + 1] = <<<<>>>>
                  /\ \A g \in 1..n : N[g] = G[g]
  /\ token # a => /\ Len(N) = n /\ N[n] = SplitNext(G[n], token, b)
                  /\ \A g \in 1..n - 1 : N[g] = G[g]

LEMMA SplitTwoAppend ==
  ASSUME NEW X, NEW text \in Seq(X), NEW token \in X, NEW a, NEW b
  PROVE  GrownTwo(SplitTwo(text, a, b), SplitTwo(Append(text, token), a, b), token, a, b,
                  Len(SplitTwo(text, a, b)))
<1> DEFINE G == SplitTwo(text, a, b)
           N == SplitTwo(Append(text, token), a, b)
           n == Len(G)
<1> SUFFICES GrownTwo(G, N, token, a, b, n)
  OBVIOUS
<1> USE DEF GrownTwo
<1> DEFINE groups == Split(text, a)
           more   == Append(text, token)
           next   == Split(more, a)
<1>1. groups \in Fields(X) /\ next = SplitNext(groups, token, a)
  BY SplitType, SplitAppend
<1>2. more \in Seq(X)
  OBVIOUS
<1>3. /\ n = Len(groups) /\ n \in Nat \ {0}
      /\ \A g \in 1..n : G[g] = Split(groups[g], b)
  BY SplitTwoType DEF TwoSplit
<1>4. /\ Len(N) = Len(next)
      /\ \A g \in 1..Len(N) : N[g] = Split(next[g], b)
  <2> HIDE DEF more
  <2>1. N = SplitTwo(more, a, b)
    BY DEF more
  <2> QED BY <1>2, <2>1, SplitTwoType DEF TwoSplit
<1>5. \A g \in 1..n : groups[g] \in Seq(X)
  <2> DEFINE T == Seq(X)
  <2>1. groups \in Seq(T)
    BY <1>1 DEF Fields
  <2> HIDE DEF T, groups
  <2>2. \A g \in 1..n : groups[g] \in T
    BY <1>3, <2>1
  <2> QED BY <2>2 DEF T
<1> HIDE DEF groups, more, next
<1>6. /\ token = a => /\ Len(next) = n + 1 /\ next[n + 1] = <<>>
                      /\ \A k \in 1..n : next[k] = groups[k]
      /\ token # a => /\ Len(next) = n /\ next[n] = Append(groups[n], token)
                      /\ \A k \in 1..n - 1 : next[k] = groups[k]
  BY <1>1, <1>3, SplitNextIs DEF Grown
<1>7. CASE token = a
  <2>1. Len(N) = n + 1 /\ n + 1 \in 1..Len(N) /\ \A g \in 1..n : g \in 1..Len(N)
    BY <1>3, <1>4, <1>6, <1>7
  <2>2. N[n + 1] = <<<<>>>>
    BY <1>4, <1>6, <1>7, <2>1, SplitEmpty
  <2>3. \A g \in 1..n : N[g] = G[g]
    BY <1>3, <1>4, <1>6, <1>7, <2>1
  <2> QED BY <1>7, <2>1, <2>2, <2>3
<1>8. CASE token # a
  <2>1. Len(N) = n /\ n \in 1..n /\ \A g \in 1..n - 1 : g \in 1..n
    BY <1>3, <1>4, <1>6, <1>8
  <2>2. N[n] = SplitNext(G[n], token, b)
    <3>1. N[n] = Split(Append(groups[n], token), b)
      BY <1>4, <1>6, <1>8, <2>1
    <3>2. Split(Append(groups[n], token), b) = SplitNext(Split(groups[n], b), token, b)
      BY <1>5, <2>1, SplitAppend
    <3> QED BY <1>3, <2>1, <3>1, <3>2
  <2>3. \A g \in 1..n - 1 : N[g] = G[g]
    BY <1>3, <1>4, <1>6, <1>8, <2>1
  <2> QED BY <1>8, <2>1, <2>2, <2>3
<1> QED BY <1>7, <1>8

\* The words of the tokens that come before a place are as many as they were.
LEMMA PlacesOfAppend ==
  ASSUME NEW X, NEW text \in Seq(X), NEW token \in X
  PROVE  \A k \in 1..Len(text) + 1 : /\ GroupAt(Append(text, token), k) = GroupAt(text, k)
                                    /\ FieldAt(Append(text, token), k) = FieldAt(text, k)
<1> DEFINE n    == Len(text)
           more == Append(text, token)
<1> SUFFICES ASSUME NEW k \in 1..n + 1
             PROVE  GroupAt(more, k) = GroupAt(text, k) /\ FieldAt(more, k) = FieldAt(text, k)
  OBVIOUS
<1>1. n \in Nat /\ \A j \in 1..n : more[j] = text[j]
  OBVIOUS
<1>2. ASSUME NEW m \in 1..n + 1 PROVE GroupAt(more, m) = GroupAt(text, m)
  <2>1. \A j \in 1..m - 1 : j \in 1..n
    BY <1>1
  <2>2. {j \in 1..m - 1 : more[j] = "|"} = {j \in 1..m - 1 : text[j] = "|"}
    BY <1>1, <2>1
  <2> QED BY <2>2 DEF GroupAt
<1>3. {j \in 1..k - 1 : more[j] = ":" /\ GroupAt(more, j) = GroupAt(more, k)}
        = {j \in 1..k - 1 : text[j] = ":" /\ GroupAt(text, j) = GroupAt(text, k)}
  <2>1. \A j \in 1..k - 1 : j \in 1..n /\ j \in 1..n + 1
    BY <1>1
  <2> QED BY <1>1, <1>2, <2>1
<1> QED BY <1>2, <1>3 DEF FieldAt

\* Where the token after the next one stands.
LEMMA PlaceAfter ==
  ASSUME NEW X, NEW text \in Seq(X), NEW n, n \in Nat \ {0}, n = Len(text)
  PROVE  /\ GroupAt(text, n) \in Nat /\ FieldAt(text, n) \in Nat
         /\ GroupAt(text, n + 1) = GroupAt(text, n) + (IF text[n] = "|" THEN 1 ELSE 0)
         /\ FieldAt(text, n + 1) = IF text[n] = "|" THEN 0
                                   ELSE FieldAt(text, n) + (IF text[n] = ":" THEN 1 ELSE 0)
<1> DEFINE Bars(k)   == {j \in 1..k - 1 : text[j] = "|"}
           Colons(k) == {j \in 1..k - 1 : text[j] = ":" /\ GroupAt(text, j) = GroupAt(text, k)}
<1>1. ASSUME NEW k \in Nat
      PROVE  /\ IsFiniteSet(Bars(k)) /\ IsFiniteSet(Colons(k))
             /\ GroupAt(text, k) = Cardinality(Bars(k)) /\ GroupAt(text, k) \in Nat
             /\ FieldAt(text, k) = Cardinality(Colons(k)) /\ FieldAt(text, k) \in Nat
  <2>1. IsFiniteSet(1..k - 1)
    BY FS_Interval
  <2>2. IsFiniteSet(Bars(k)) /\ IsFiniteSet(Colons(k))
    BY <2>1, FS_Subset
  <2>3. Cardinality(Bars(k)) \in Nat /\ Cardinality(Colons(k)) \in Nat
    BY <2>2, FS_CardinalityType
  <2> QED BY <2>2, <2>3 DEF GroupAt, FieldAt
<1>2. Bars(n + 1) = IF text[n] = "|" THEN Bars(n) \cup {n} ELSE Bars(n)
  <2>1. \A j : j \in 1..(n + 1) - 1 <=> j \in 1..n - 1 \/ j = n
    OBVIOUS
  <2> QED BY <2>1
<1>3. n \notin Bars(n) /\ n \notin Colons(n) /\ n \in Nat /\ n + 1 \in Nat
  OBVIOUS
<1>4. GroupAt(text, n + 1) = GroupAt(text, n) + (IF text[n] = "|" THEN 1 ELSE 0)
  <2> HIDE DEF Bars, Colons
  <2>1. Cardinality(Bars(n) \cup {n}) = Cardinality(Bars(n)) + 1
    BY <1>1, <1>3, FS_AddElement
  <2>2. GroupAt(text, n) = Cardinality(Bars(n)) /\ GroupAt(text, n + 1) = Cardinality(Bars(n + 1))
        /\ GroupAt(text, n) \in Nat
    BY <1>1, <1>3
  <2> QED BY <1>2, <2>1, <2>2
<1>5. ASSUME NEW j \in 1..n PROVE GroupAt(text, j) <= GroupAt(text, n) /\ GroupAt(text, j) \in Nat
  <2>1. j \in Nat /\ Bars(j) \subseteq Bars(n)
    OBVIOUS
  <2> HIDE DEF Bars, Colons
  <2>2. Cardinality(Bars(j)) <= Cardinality(Bars(n))
    BY <1>1, <1>3, <2>1, FS_Subset
  <2> QED BY <1>1, <1>3, <2>1, <2>2
<1>6. FieldAt(text, n + 1) = IF text[n] = "|" THEN 0
                             ELSE FieldAt(text, n) + (IF text[n] = ":" THEN 1 ELSE 0)
  <2>1. \A j : j \in 1..(n + 1) - 1 <=> j \in 1..n - 1 \/ j = n
    OBVIOUS
  <2>2. CASE text[n] = "|"
    <3>1. GroupAt(text, n + 1) = GroupAt(text, n) + 1 /\ GroupAt(text, n) \in Nat
      BY <1>1, <1>3, <1>4, <2>2
    <3>2. \A j \in 1..(n + 1) - 1 : GroupAt(text, j) # GroupAt(text, n + 1)
      BY <1>5, <3>1
    <3>3. Colons(n + 1) = {}
      BY <3>2
    <3>4. FieldAt(text, n + 1) = 0
      <4> HIDE DEF Colons
      <4> QED BY <1>1, <1>3, <3>3, FS_EmptySet
    <3> QED BY <2>2, <3>4
  <2>3. CASE text[n] = ":"
    <3>1. GroupAt(text, n + 1) = GroupAt(text, n)
      <4>1. text[n] # "|"
        BY <2>3
      <4>2. GroupAt(text, n) \in Nat
        BY <1>1, <1>3
      <4> QED BY <1>4, <4>1, <4>2
    <3>2. Colons(n + 1) = Colons(n) \cup {n}
      BY <2>1, <2>3, <3>1
    <3>3. FieldAt(text, n + 1) = FieldAt(text, n) + 1
      <4> HIDE DEF Bars, Colons
      <4>1. Cardinality(Colons(n) \cup {n}) = Cardinality(Colons(n)) + 1
        BY <1>1, <1>3, FS_AddElement
      <4> QED BY <1>1, <1>3, <3>2, <4>1
    <3> QED BY <2>3, <3>3
  <2>4. CASE text[n] # "|" /\ text[n] # ":"
    <3>1. GroupAt(text, n + 1) = GroupAt(text, n)
      <4>1. text[n] # "|"
        BY <2>4
      <4>2. GroupAt(text, n) \in Nat
        BY <1>1, <1>3
      <4> QED BY <1>4, <4>1, <4>2
    <3>2. Colons(n + 1) = Colons(n)
      BY <2>1, <2>4, <3>1
    <3>3. FieldAt(text, n + 1) = FieldAt(text, n) /\ FieldAt(text, n) \in Nat
      <4> HIDE DEF Colons
      <4> QED BY <1>1, <1>3, <3>2
    <3> QED BY <2>4, <3>3
  <2> QED BY <2>2, <2>3, <2>4
<1> QED BY <1>1, <1>3, <1>4, <1>6

\* The words of field f of group g, and whether the group has a colon.
WordsAt(text, g, f) ==
  {text[k] : k \in {j \in 1..Len(text) : /\ text[j] \notin {":", "|"}
                                         /\ GroupAt(text, j) = g - 1 /\ FieldAt(text, j) = f - 1}}
HasColon(text, g) == \E j \in 1..Len(text) : text[j] = ":" /\ GroupAt(text, j) = g - 1

\* G are the groups of the text: each token stands in a field of them, each field holds the
\* words that stand in it, with commas between them, and the next token goes to the last one.
Arranged(text, G) ==
  LET n == Len(text)
      last == G[Len(G)]
  IN /\ Len(G) = GroupAt(text, n + 1) + 1 /\ Len(last) = FieldAt(text, n + 1) + 1
     /\ \A j \in 1..n : /\ GroupAt(text, j) + 1 \in 1..Len(G)
                        /\ FieldAt(text, j) + 1 \in 1..Len(G[GroupAt(text, j) + 1])
     /\ \A g \in 1..Len(G) : /\ Len(G[g]) >= 2 <=> HasColon(text, g)
                             /\ \A f \in 1..Len(G[g]) : /\ ToSet(G[g][f]) = WordsAt(text, g, f)
                                                        /\ Spaced(G[g][f])
     /\ last[Len(last)] = <<>> \/ (n > 0 /\ last[Len(last)][Len(last[Len(last)])] = text[n])

\* What a token more changes of the words.
GrownWords(text, more, token, n, g, f) ==
  /\ WordsAt(more, g, f) =
       WordsAt(text, g, f) \cup
         {t \in {token} : /\ token \notin {":", "|"}
                          /\ GroupAt(text, n + 1) = g - 1 /\ FieldAt(text, n + 1) = f - 1}
  /\ HasColon(more, g) <=> HasColon(text, g) \/ (token = ":" /\ GroupAt(text, n + 1) = g - 1)

LEMMA WordsAppend ==
  ASSUME NEW X, NEW text \in Seq(X), NEW token \in X, NEW g, NEW f
  PROVE  GrownWords(text, Append(text, token), token, Len(text), g, f)
<1> DEFINE n    == Len(text)
           more == Append(text, token)
<1> SUFFICES GrownWords(text, more, token, n, g, f)
  OBVIOUS
<1> USE DEF GrownWords
<1>1. /\ n \in Nat /\ Len(more) = n + 1 /\ more[n + 1] = token
      /\ \A j \in 1..n : more[j] = text[j]
  OBVIOUS
<1>2. \A j \in 1..n + 1 : GroupAt(more, j) = GroupAt(text, j) /\ FieldAt(more, j) = FieldAt(text, j)
  BY PlacesOfAppend
<1>3. \A j : j \in 1..n + 1 <=> j \in 1..n \/ j = n + 1
  BY <1>1
<1>4. n + 1 \notin 1..n
  BY <1>1
<1> DEFINE At(j) == GroupAt(text, j) = g - 1 /\ FieldAt(text, j) = f - 1
<1>5. WordsAt(text, g, f) = {text[k] : k \in {j \in 1..n : text[j] \notin {":", "|"} /\ At(j)}}
  BY DEF WordsAt
<1>6. WordsAt(more, g, f) = {more[k] : k \in {j \in 1..n + 1 : more[j] \notin {":", "|"} /\ At(j)}}
  BY <1>1, <1>2 DEF WordsAt
<1> HIDE DEF At
<1>7. WordsAt(more, g, f) =
        WordsAt(text, g, f) \cup {t \in {token} : token \notin {":", "|"} /\ At(n + 1)}
  BY <1>1, <1>3, <1>4, <1>5, <1>6
<1>8. HasColon(more, g) <=> HasColon(text, g) \/ (token = ":" /\ GroupAt(text, n + 1) = g - 1)
  <2>1. HasColon(more, g) <=> \E j \in 1..n + 1 : more[j] = ":" /\ GroupAt(text, j) = g - 1
    BY <1>1, <1>2 DEF HasColon
  <2>2. HasColon(text, g) <=> \E j \in 1..n : more[j] = ":" /\ GroupAt(text, j) = g - 1
    BY <1>1 DEF HasColon
  <2>3. \A j \in 1..n : j \in 1..n + 1
    BY <1>3
  <2>4. n + 1 \in 1..n + 1
    BY <1>3
  <2>5. CASE HasColon(text, g)
    <3>1. PICK j \in 1..n : more[j] = ":" /\ GroupAt(text, j) = g - 1
      BY <2>2, <2>5
    <3>2. HasColon(more, g)
      BY <2>1, <2>3, <3>1
    <3> QED BY <2>5, <3>2
  <2>6. CASE ~HasColon(text, g)
    <3>1. HasColon(more, g) <=> more[n + 1] = ":" /\ GroupAt(text, n + 1) = g - 1
      BY <1>3, <2>1, <2>2, <2>4, <2>6
    <3> QED BY <1>1, <2>6, <3>1
  <2> QED BY <2>5, <2>6
<1> QED BY <1>7, <1>8 DEF At

Apart(text) == \A k \in 1..Len(text) - 1 : text[k] \in Separators \/ text[k + 1] \in Separators

\* The facts that the steps below start from.
LEMMA GroupsAre ==
  ASSUME NEW text \in Seq(Tokens), NEW G, G = SplitTwo(text, "|", ":")
  PROVE  /\ Len(G) \in Nat \ {0}
         /\ \A g \in 1..Len(G) : /\ G[g] \in Fields(Tokens) /\ Len(G[g]) \in Nat \ {0}
                                 /\ \A f \in 1..Len(G[g]) : G[g][f] \in Seq(Tokens)
<1> DEFINE V == Fields(Tokens)
           T == Seq(Tokens)
<1>1. G \in Seq(V) /\ Len(G) \in Nat \ {0}
  BY SplitTwoType DEF TwoSplit
<1>2. ASSUME NEW fields \in V
      PROVE  Len(fields) \in Nat \ {0} /\ \A f \in 1..Len(fields) : fields[f] \in T
  <2>1. fields \in Seq(T) /\ fields # <<>>
    BY DEF Fields
  <2> HIDE DEF T
  <2> QED BY <2>1
<1> HIDE DEF V
<1>3. \A g \in 1..Len(G) : G[g] \in V
  BY <1>1, ElementOfSeq
<1> QED BY <1>1, <1>2, <1>3 DEF V

LEMMA OneMore ==
  ASSUME NEW X, NEW seq \in Seq(X), NEW e \in X
  PROVE  /\ Len(seq) \in Nat /\ Append(seq, e) \in Seq(X) /\ Len(Append(seq, e)) = Len(seq) + 1
         /\ Append(seq, e)[Len(seq) + 1] = e
         /\ \A k \in 1..Len(seq) : Append(seq, e)[k] = seq[k]
  OBVIOUS

\* One token more after a text without two words side by side.
LEMMA SpacedMore ==
  ASSUME NEW X, NEW field \in Seq(X), NEW e \in X, NEW comma, SpacedBy(field, comma),
         field # <<>> /\ e # comma => field[Len(field)] = comma
  PROVE  SpacedBy(Append(field, e), comma)
<1> DEFINE s == Append(field, e)
           m == Len(field)
<1>1. m \in Nat /\ Len(s) = m + 1 /\ s[m + 1] = e /\ \A k \in 1..m : s[k] = field[k]
  BY OneMore
<1>2. m > 0 => e = comma \/ field[m] = comma
  <2> SUFFICES ASSUME m > 0 PROVE e = comma \/ field[m] = comma
    OBVIOUS
  <2>1. field # <<>>
    OBVIOUS
  <2> QED BY <2>1
<1> HIDE DEF s
<1>3. ASSUME NEW k \in 1..Len(s) - 1 PROVE s[k] = comma \/ s[k + 1] = comma
  <2>0. k \in 1..m
    BY <1>1
  <2>1. CASE k = m
    <3>1. s[k] = field[m] /\ s[k + 1] = e /\ m > 0
      BY <1>1, <2>0, <2>1
    <3> QED BY <1>2, <3>1
  <2>2. CASE k # m
    <3>1. k \in 1..m - 1 /\ k \in 1..m /\ k + 1 \in 1..m
      BY <1>1, <2>0, <2>2
    <3>2. field[k] = comma \/ field[k + 1] = comma
      BY <3>1 DEF SpacedBy
    <3> QED BY <1>1, <3>1, <3>2
  <2> QED BY <2>1, <2>2
<1> QED BY <1>3 DEF SpacedBy, s

LEMMA NothingAt ==
  ASSUME NEW text \in Seq(Tokens), NEW G, Arranged(text, G), NEW g \in Nat, NEW f \in Nat,
         g > Len(G) \/ (g = Len(G) /\ f > Len(G[g])), Len(G) \in Nat \ {0}, Len(G[Len(G)]) \in Nat
  PROVE  WordsAt(text, g, f) = {} /\ (g > Len(G) => ~HasColon(text, g))
<1>1. ASSUME NEW j \in 1..Len(text)
      PROVE  /\ ~(GroupAt(text, j) = g - 1 /\ FieldAt(text, j) = f - 1)
             /\ g > Len(G) => GroupAt(text, j) # g - 1
  <2>1. /\ GroupAt(text, j) + 1 \in 1..Len(G)
        /\ FieldAt(text, j) + 1 \in 1..Len(G[GroupAt(text, j) + 1])
    BY DEF Arranged
  <2>2. GroupAt(text, j) = g - 1 => GroupAt(text, j) + 1 = g
    BY <2>1
  <2>3. FieldAt(text, j) = f - 1 => FieldAt(text, j) + 1 = f
    BY <2>1
  <2>4. CASE g > Len(G)
    BY <2>1, <2>2, <2>4
  <2>5. CASE g = Len(G) /\ f > Len(G[g])
    BY <2>1, <2>2, <2>3, <2>5
  <2> QED BY <2>4, <2>5
<1>2. WordsAt(text, g, f) = {}
  BY <1>1 DEF WordsAt
<1>3. g > Len(G) => ~HasColon(text, g)
  BY <1>1 DEF HasColon
<1> QED BY <1>2, <1>3

LEMMA ArrangedAppend ==
  ASSUME NEW text \in Seq(Tokens), NEW e \in Tokens, NEW more, more = Append(text, e),
         NEW G, G = SplitTwo(text, "|", ":"), NEW N, N = SplitTwo(more, "|", ":"),
         Arranged(text, G), Apart(more)
  PROVE  Arranged(more, N)
<1> DEFINE n    == Len(text)
           m    == Len(G)
           last == G[m]
           w    == Len(last)
           end  == N[Len(N)]
<1>1. /\ n \in Nat /\ more \in Seq(Tokens) /\ Len(more) = n + 1 /\ more[n + 1] = e
      /\ \A j \in 1..n : more[j] = text[j]
  BY AppendProperties
<1>2. /\ m \in Nat \ {0} /\ m \in 1..m /\ w \in Nat \ {0} /\ last \in Fields(Tokens)
      /\ \A g \in 1..m : /\ Len(G[g]) \in Nat \ {0}
                         /\ \A f \in 1..Len(G[g]) : G[g][f] \in Seq(Tokens)
  <2>1. m \in Nat \ {0} /\ \A g \in 1..m : /\ G[g] \in Fields(Tokens) /\ Len(G[g]) \in Nat \ {0}
                                           /\ \A f \in 1..Len(G[g]) : G[g][f] \in Seq(Tokens)
    BY GroupsAre
  <2>2. m \in 1..m
    BY <2>1
  <2> QED BY <2>1, <2>2
<1>3. GroupAt(text, n + 1) = m - 1 /\ FieldAt(text, n + 1) = w - 1
  <2>1. m = GroupAt(text, n + 1) + 1 /\ w = FieldAt(text, n + 1) + 1
    BY DEF Arranged
  <2>2. GroupAt(more, n + 1) \in Nat /\ FieldAt(more, n + 1) \in Nat
    <3>1. n + 1 \in Nat \ {0} /\ n + 1 = Len(more)
      BY <1>1
    <3> QED BY <1>1, <3>1, PlaceAfter
  <2>3. GroupAt(more, n + 1) = GroupAt(text, n + 1) /\ FieldAt(more, n + 1) = FieldAt(text, n + 1)
    <3>1. n + 1 \in 1..n + 1
      BY <1>1
    <3> QED BY <3>1, PlacesOfAppend
  <2>4. m \in Int /\ w \in Int
    BY <1>2
  <2> DEFINE row    == GroupAt(text, n + 1)
             column == FieldAt(text, n + 1)
  <2>5. row \in Nat /\ column \in Nat /\ m = row + 1 /\ w = column + 1
    BY <2>1, <2>2, <2>3
  <2> HIDE DEF m, w, row, column
  <2>6. row = m - 1 /\ column = w - 1
    BY <2>4, <2>5
  <2> QED BY <2>6 DEF row, column
<1>4. \A j \in 1..n + 1 : GroupAt(more, j) = GroupAt(text, j) /\ FieldAt(more, j) = FieldAt(text, j)
  BY PlacesOfAppend
<1>5. /\ GroupAt(more, n + 2) = m - 1 + (IF e = "|" THEN 1 ELSE 0)
      /\ FieldAt(more, n + 2) = IF e = "|" THEN 0 ELSE w - 1 + (IF e = ":" THEN 1 ELSE 0)
  <2>1. n + 1 \in Nat \ {0} /\ n + 1 = Len(more) /\ (n + 1) + 1 = n + 2 /\ n + 1 \in 1..n + 1
    BY <1>1
  <2>2. /\ GroupAt(more, (n + 1) + 1) = GroupAt(more, n + 1) + (IF more[n + 1] = "|" THEN 1 ELSE 0)
        /\ FieldAt(more, (n + 1) + 1) = IF more[n + 1] = "|" THEN 0
                                        ELSE FieldAt(more, n + 1) + (IF more[n + 1] = ":" THEN 1 ELSE 0)
    BY <1>1, <2>1, PlaceAfter
  <2> QED BY <1>1, <1>3, <1>4, <2>1, <2>2
<1>6. /\ e = "|" => /\ Len(N) = m + 1 /\ N[m + 1] = <<<<>>>>
                    /\ \A g \in 1..m : N[g] = G[g]
      /\ e # "|" => /\ Len(N) = m /\ N[m] = SplitNext(last, e, ":")
                    /\ \A g \in 1..m - 1 : N[g] = G[g]
  BY SplitTwoAppend DEF GrownTwo
<1> DEFINE New(g, f) == {t \in {e} : e \notin {":", "|"} /\ m - 1 = g - 1 /\ w - 1 = f - 1}
<1>7. \A g, f : /\ WordsAt(more, g, f) = WordsAt(text, g, f) \cup New(g, f)
                /\ HasColon(more, g) <=> HasColon(text, g) \/ (e = ":" /\ m - 1 = g - 1)
  <2>1. ASSUME NEW g, NEW f PROVE GrownWords(text, more, e, n, g, f)
    BY WordsAppend
  <2> QED BY <1>3, <2>1 DEF GrownWords
<1>8. /\ \A j \in 1..n : /\ GroupAt(text, j) + 1 \in 1..m
                         /\ FieldAt(text, j) + 1 \in 1..Len(G[GroupAt(text, j) + 1])
      /\ \A g \in 1..m : /\ Len(G[g]) >= 2 <=> HasColon(text, g)
                         /\ \A f \in 1..Len(G[g]) : /\ ToSet(G[g][f]) = WordsAt(text, g, f)
                                                    /\ Spaced(G[g][f])
      /\ last[w] = <<>> \/ (n > 0 /\ last[w][Len(last[w])] = text[n])
  BY DEF Arranged
<1>9. SUFFICES
        /\ Len(N) = GroupAt(more, n + 2) + 1 /\ Len(end) = FieldAt(more, n + 2) + 1
        /\ \A j \in 1..n + 1 : /\ GroupAt(text, j) + 1 \in 1..Len(N)
                               /\ FieldAt(text, j) + 1 \in 1..Len(N[GroupAt(text, j) + 1])
        /\ \A g \in 1..Len(N) : /\ Len(N[g]) >= 2 <=> HasColon(more, g)
                                /\ \A f \in 1..Len(N[g]) : /\ ToSet(N[g][f]) = WordsAt(more, g, f)
                                                           /\ Spaced(N[g][f])
        /\ end[Len(end)] = <<>> \/ end[Len(end)][Len(end[Len(end)])] = e
  <2>1. Len(more) + 1 = n + 2 /\ n + 1 > 0
    BY <1>1
  <2> HIDE DEF end
  <2> QED BY <1>1, <1>4, <2>1, SMTT(20) DEF Arranged, end
<1> DEFINE Fine(g) ==
             /\ Len(N[g]) >= 2 <=> HasColon(more, g)
             /\ \A f \in 1..Len(N[g]) : ToSet(N[g][f]) = WordsAt(more, g, f) /\ Spaced(N[g][f])
           Marked(g, f) == g \in 1..Len(N) /\ f \in 1..Len(N[g])
<1> HIDE DEF m, last, w, n, end, New
<1>10. ASSUME NEW g \in 1..m - 1, N[g] = G[g] PROVE Fine(g)
  <2>1. g \in 1..m /\ m - 1 # g - 1
    BY <1>2
  <2>2. \A f : New(g, f) = {}
    BY <2>1 DEF New
  <2>3. (HasColon(more, g) <=> HasColon(text, g)) /\ \A f : WordsAt(more, g, f) = WordsAt(text, g, f)
    BY <1>7, <2>1, <2>2
  <2> QED BY <1>8, <1>10, <2>1, <2>3
<1>11. CASE e = "|"
  <2> DEFINE one  == <<<<>>>>
             none == <<>>
  <2>0. Len(one) = 1 /\ one[1] = none
    OBVIOUS
  <2>1. Len(N) = m + 1 /\ N[m + 1] = one /\ \A g \in 1..m : N[g] = G[g]
    BY <1>6, <1>11
  <2>2. Len(N) = GroupAt(more, n + 2) + 1 /\ Len(end) = FieldAt(more, n + 2) + 1 /\ end[Len(end)] = none
    <3> HIDE DEF one, none
    <3>1. end = one
      BY <2>1 DEF end
    <3>2. GroupAt(more, n + 2) = m - 1 + 1 /\ FieldAt(more, n + 2) = 0
      BY <1>5, <1>11
    <3>3. Len(N) = GroupAt(more, n + 2) + 1
      BY <1>2, <2>1, <3>2
    <3>4. Len(end) = FieldAt(more, n + 2) + 1 /\ end[Len(end)] = none
      <4>1. Len(end) = 1 /\ end[1] = none
        BY <2>0, <3>1
      <4> QED BY <3>2, <4>1
    <3> QED BY <3>3, <3>4
  <2>3. ASSUME NEW j \in 1..n + 1 PROVE Marked(GroupAt(text, j) + 1, FieldAt(text, j) + 1)
    <3>1. CASE j \in 1..n
      BY <1>2, <1>8, <2>1, <3>1
    <3>2. CASE j = n + 1
      <4>1. GroupAt(text, j) + 1 = m /\ FieldAt(text, j) + 1 = w /\ Len(N[m]) = w
        BY <1>2, <1>3, <2>1, <3>2 DEF w, last
      <4> QED BY <1>2, <2>1, <4>1
    <3> QED BY <1>1, <3>1, <3>2
  <2>4. \A g, f : New(g, f) = {}
    BY <1>11 DEF New
  <2>5. \A g : /\ HasColon(more, g) <=> HasColon(text, g)
              /\ \A f : WordsAt(more, g, f) = WordsAt(text, g, f)
    <3> TAKE g
    <3>1. HasColon(more, g) <=> HasColon(text, g)
      BY <1>7, <1>11
    <3>2. ASSUME NEW f PROVE WordsAt(more, g, f) = WordsAt(text, g, f)
      <4>1. WordsAt(more, g, f) = WordsAt(text, g, f) \cup New(g, f)
        BY <1>7
      <4>2. New(g, f) = {}
        BY <2>4
      <4> HIDE DEF New
      <4> QED BY <4>1, <4>2
    <3> QED BY <3>1, <3>2
  <2>6. ASSUME NEW g \in 1..m PROVE Fine(g)
    BY <1>8, <2>1, <2>5
  <2>7. Fine(m + 1)
    <3>1. ~HasColon(text, m + 1) /\ WordsAt(text, m + 1, 1) = {}
      <4>1. m + 1 \in Nat /\ m + 1 > m /\ w \in Nat
        BY <1>2
      <4> QED BY <1>2, <4>1, NothingAt DEF m, w, last
    <3>2. ToSet(none) = {} /\ Spaced(none)
      BY DEF ToSet, Spaced, SpacedBy
    <3> HIDE DEF one, none
    <3>3. N[m + 1] = one /\ \A f \in 1..Len(one) : f = 1
      BY <2>0, <2>1
    <3>4. ~(Len(one) >= 2)
      BY <2>0
    <3>5. ~HasColon(more, m + 1) /\ WordsAt(more, m + 1, 1) = {}
      BY <2>5, <3>1
    <3> QED BY <2>0, <3>2, <3>3, <3>4, <3>5
  <2>8. \A g \in 1..m + 1 : g \in 1..m \/ g = m + 1
    BY <1>2
  <2> QED BY <2>1, <2>2, <2>3, <2>6, <2>7, <2>8
<1>12. CASE e # "|"
  <2>1. Len(N) = m /\ N[m] = SplitNext(last, e, ":") /\ (\A g \in 1..m - 1 : N[g] = G[g]) /\ end = N[m]
    BY <1>6, <1>12 DEF end
  <2>2. Grown(last, end, e, ":", w)
    BY <1>2, <2>1, SplitNextIs DEF w
  <2>3. Len(N) = GroupAt(more, n + 2) + 1
    BY <1>2, <1>5, <1>12, <2>1
  <2>4. \A g \in 1..m : g \in 1..m - 1 \/ g = m
    BY <1>2
  <2>5. \A g \in 1..m - 1 : Fine(g)
    BY <1>10, <2>1
  <2>6. w <= Len(end) /\ Len(end) \in Nat
    BY <1>2, <2>2 DEF Grown
  <2>7. ASSUME NEW j \in 1..n + 1 PROVE Marked(GroupAt(text, j) + 1, FieldAt(text, j) + 1)
    <3>1. CASE j \in 1..n
      <4> DEFINE g == GroupAt(text, j) + 1
                 f == FieldAt(text, j) + 1
      <4>1. g \in 1..m /\ f \in 1..Len(G[g])
        BY <1>8, <3>1
      <4> SUFFICES Marked(g, f)
        OBVIOUS
      <4> HIDE DEF g, f
      <4>2. CASE g \in 1..m - 1
        <5>1. Len(N) = m /\ N[g] = G[g]
          BY <2>1, <4>2
        <5> QED BY <4>1, <5>1
      <4>3. CASE g = m
        <5>1. Len(N) = m /\ N[g] = end /\ Len(G[g]) = w
          BY <2>1, <4>3 DEF w, last
        <5>2. f \in 1..Len(end)
          BY <1>2, <2>6, <4>1, <5>1
        <5> QED BY <4>1, <5>1, <5>2
      <4> QED BY <2>4, <4>1, <4>2, <4>3
    <3>2. CASE j = n + 1
      <4>1. GroupAt(text, j) + 1 = m /\ FieldAt(text, j) + 1 = w
        BY <1>2, <1>3, <3>2
      <4> QED BY <1>2, <2>1, <2>6, <4>1
    <3> QED BY <1>1, <3>1, <3>2
  <2>8. /\ Len(end) = FieldAt(more, n + 2) + 1 /\ Fine(m)
        /\ end[Len(end)] = <<>> \/ end[Len(end)][Len(end[Len(end)])] = e
    <3>1. HasColon(more, m) <=> HasColon(text, m) \/ e = ":"
      BY <1>2, <1>7
    <3>2. /\ Len(last) >= 2 <=> HasColon(text, m)
          /\ \A f \in 1..w : ToSet(last[f]) = WordsAt(text, m, f) /\ Spaced(last[f])
      BY <1>2, <1>8 DEF last, w
    <3>3. CASE e = ":"
      <4> DEFINE none == <<>>
      <4>1. Len(end) = w + 1 /\ end[w + 1] = none /\ \A f \in 1..w : end[f] = last[f]
        BY <2>2, <3>3 DEF Grown
      <4>2. Len(end) = FieldAt(more, n + 2) + 1
        <5>1. FieldAt(more, n + 2) = w - 1 + 1
          BY <1>5, <1>12, <3>3
        <5> QED BY <1>2, <4>1, <5>1
      <4>3. \A f : WordsAt(more, m, f) = WordsAt(text, m, f)
        <5>1. \A f : New(m, f) = {}
          BY <3>3 DEF New
        <5> QED BY <1>7, <5>1
      <4>4. Len(end) >= 2 /\ HasColon(more, m)
        BY <1>2, <3>1, <3>3, <4>1
      <4>5. ToSet(none) = {} /\ Spaced(none)
        BY DEF ToSet, Spaced, SpacedBy
      <4>6. WordsAt(text, m, w + 1) = {}
        <5>1. w + 1 \in Nat /\ w + 1 > w /\ w \in Nat
          BY <1>2
        <5> QED BY <1>2, <5>1, NothingAt DEF m, w, last
      <4> HIDE DEF none
      <4>7. ASSUME NEW f \in 1..Len(end) PROVE ToSet(end[f]) = WordsAt(more, m, f) /\ Spaced(end[f])
        <5>1. f \in 1..w \/ f = w + 1
          BY <1>2, <4>1
        <5> QED BY <3>2, <4>1, <4>3, <4>5, <4>6, <5>1
      <4>8. Fine(m)
        BY <2>1, <4>4, <4>7
      <4> QED BY <4>1, <4>2, <4>8 DEF none
    <3>4. CASE e # ":"
      <4> DEFINE field == last[w]
                 new   == Append(field, e)
      <4>1. Len(end) = w /\ end[w] = new /\ \A f \in 1..w - 1 : end[f] = last[f]
        BY <2>2, <3>4 DEF Grown
      <4>2. Len(end) = FieldAt(more, n + 2) + 1
        <5>1. FieldAt(more, n + 2) = w - 1 + 0
          BY <1>5, <1>12, <3>4
        <5> QED BY <1>2, <4>1, <5>1
      <4>3. \A f : WordsAt(more, m, f) = WordsAt(text, m, f) \cup New(m, f)
        BY <1>7
      <4>4. /\ \A f \in 1..w - 1 : New(m, f) = {}
            /\ New(m, w) = {e}
        BY <1>2, <1>12, <3>4 DEF New
      <4>5. Len(end) >= 2 <=> HasColon(more, m)
        BY <3>1, <3>2, <3>4, <4>1 DEF w
      <4>6. field \in Seq(Tokens) /\ w \in 1..w
        BY <1>2 DEF last, w
      <4>7. ToSet(new) = ToSet(field) \cup {e}
        BY <4>6, ToSetAppend
      <4>8. Spaced(new)
        <5>1. ASSUME field # <<>>, e # "," PROVE field[Len(field)] = ","
          <6>1. n > 0 /\ field[Len(field)] = text[n]
            BY <1>8, <5>1
          <6>2. n \in 1..Len(more) - 1 /\ more[n] = text[n] /\ more[n + 1] = e
            BY <1>1, <6>1
          <6>3. text[n] \in Separators
            <7>1. e \notin Separators
              BY <1>12, <3>4, <5>1 DEF Separators
            <7> QED BY <6>2, <7>1 DEF Apart
          <6>4. text[n] \in ToSet(field)
            <7>1. field \in Seq(Tokens) /\ field # <<>>
              BY <4>6, <5>1
            <7> HIDE DEF field
            <7>2. Len(field) \in DOMAIN field
              BY <7>1
            <7> QED BY <6>1, <7>2 DEF ToSet
          <6>5. text[n] \in WordsAt(text, m, w)
            BY <3>2, <4>6, <6>4
          <6>6. text[n] \notin {":", "|"}
            BY <6>5 DEF WordsAt
          <6> QED BY <6>1, <6>3, <6>6 DEF Separators
        <5>2. SpacedBy(field, ",")
          BY <3>2, <4>6 DEF Spaced
        <5> HIDE DEF field
        <5> QED BY <4>6, <5>1, <5>2, SpacedMore DEF Spaced
      <4>9. Len(new) \in Nat /\ new[Len(new)] = e
        OBVIOUS
      <4> HIDE DEF new
      <4>10. ASSUME NEW f \in 1..Len(end) PROVE ToSet(end[f]) = WordsAt(more, m, f) /\ Spaced(end[f])
        <5>1. f \in 1..w
          BY <4>1
        <5>2. CASE f = w
          BY <3>2, <4>1, <4>3, <4>4, <4>6, <4>7, <4>8, <5>2
        <5>3. CASE f # w
          <6>1. f \in 1..w - 1
            BY <1>2, <5>1, <5>3
          <6> QED BY <3>2, <4>1, <4>3, <4>4, <5>1, <6>1
        <5> QED BY <5>2, <5>3
      <4>11. Fine(m)
        BY <2>1, <4>5, <4>10
      <4> QED BY <4>1, <4>2, <4>9, <4>11
    <3> QED BY <3>3, <3>4
  <2> QED BY <2>1, <2>3, <2>4, <2>5, <2>7, <2>8
<1> QED BY <1>11, <1>12

LEMMA ApartAppend ==
  ASSUME NEW X, NEW s \in Seq(X), NEW e \in X, Apart(Append(s, e))
  PROVE  Apart(s)
<1>1. ASSUME NEW k \in 1..Len(s) - 1
      PROVE  /\ k \in 1..Len(Append(s, e)) - 1
             /\ Append(s, e)[k] = s[k] /\ Append(s, e)[k + 1] = s[k + 1]
  OBVIOUS
<1> QED BY <1>1 DEF Apart

LEMMA ArrangedAll ==
  ASSUME NEW text \in Seq(Tokens), Apart(text)
  PROVE  Arranged(text, SplitTwo(text, "|", ":"))
<1> DEFINE Good == {s \in Seq(Tokens) : Apart(s) => Arranged(s, SplitTwo(s, "|", ":"))}
<1>1. <<>> \in Good
  <2> DEFINE none == <<>>
             one  == <<none>>
             G    == SplitTwo(none, "|", ":")
  <2>1. Len(none) = 0 /\ none \in Seq(Tokens) /\ Len(one) = 1 /\ one[1] = none
    BY EmptySeq
  <2>2. Split(none, "|") = one /\ Split(none, ":") = one
    BY SplitEmpty
  <2>3. Len(G) = 1 /\ G[1] = one
    <3> HIDE DEF none, one, G
    <3>1. Len(G) = Len(Split(none, "|")) /\ \A g \in 1..Len(G) : G[g] = Split(Split(none, "|")[g], ":")
      <4>1. G = SplitTwo(none, "|", ":")
        BY DEF G
      <4>2. TwoSplit(G, Split(none, "|"), ":")
        BY <2>1, <4>1, SplitTwoType
      <4> QED BY <4>2 DEF TwoSplit
    <3> QED BY <2>1, <2>2, <3>1
  <2>4. ToSet(none) = {} /\ Spaced(none)
    BY DEF ToSet, Spaced, SpacedBy
  <2> HIDE DEF none, one, G
  <2>5. GroupAt(none, 1) = 0 /\ FieldAt(none, 1) = 0
    <3>1. {j \in 1..0 : none[j] = "|"} = {}
      OBVIOUS
    <3>2. {j \in 1..0 : none[j] = ":" /\ GroupAt(none, j) = GroupAt(none, 1)} = {}
      OBVIOUS
    <3>3. 1 - 1 = 0
      OBVIOUS
    <3> QED BY <3>1, <3>2, <3>3, FS_EmptySet DEF GroupAt, FieldAt
  <2>6. \A g, f : WordsAt(none, g, f) = {} /\ ~HasColon(none, g)
    BY <2>1 DEF WordsAt, HasColon
  <2>7. Arranged(none, G)
    <3>1. Len(none) + 1 = 1
      BY <2>1
    <3>2. /\ \A j \in 1..Len(none) : FALSE
          /\ \A g \in 1..Len(G) : G[g] = one
          /\ \A f \in 1..Len(one) : one[f] = none
          /\ G[Len(G)] = one /\ one[Len(one)] = none /\ ~(Len(one) >= 2)
      BY <2>1, <2>3
    <3> QED BY <2>1, <2>3, <2>4, <2>5, <2>6, <3>1, <3>2 DEF Arranged, none
  <2> QED BY <2>1, <2>7 DEF none, G
<1>2. ASSUME NEW s \in Seq(Tokens), NEW e \in Tokens, s \in Good PROVE Append(s, e) \in Good
  <2>1. Append(s, e) \in Seq(Tokens)
    BY AppendProperties
  <2>2. ASSUME Apart(Append(s, e)) PROVE Arranged(Append(s, e), SplitTwo(Append(s, e), "|", ":"))
    <3>1. Arranged(s, SplitTwo(s, "|", ":"))
      BY <1>2, <2>2, ApartAppend
    <3> QED BY <2>2, <3>1, ArrangedAppend
  <2> QED BY <2>1, <2>2
<1>3. Seq(Tokens) \subseteq Good
  <2> HIDE DEF Good
  <2> QED BY <1>1, <1>2, AllSequences
<1> QED BY <1>3

\* The names in the field of a group that counts are what is asked for there.
LEMMA AskedIs ==
  ASSUME NEW text \in Seq(Tokens), Apart(text), NEW G, G = SplitTwo(text, "|", ":"),
         NEW g \in 1..Len(G), NEW field, field = G[g][IF Len(G[g]) >= 2 THEN 2 ELSE 1]
  PROVE  ToSet(NamesOf(field)) \ {""} = Asked(text, g - 1) /\ NamesOf(field) \in Seq(Names)
<1> DEFINE f == IF Len(G[g]) >= 2 THEN 2 ELSE 1
<1>1. /\ Len(G[g]) \in Nat \ {0} /\ g \in Nat
      /\ \A k \in 1..Len(G[g]) : G[g][k] \in Seq(Tokens)
  <2>1. Len(G) \in Nat \ {0} /\ \A h \in 1..Len(G) : /\ G[h] \in Fields(Tokens) /\ Len(G[h]) \in Nat \ {0}
                                                  /\ \A k \in 1..Len(G[h]) : G[h][k] \in Seq(Tokens)
    BY GroupsAre
  <2> QED BY <2>1
<1>2. f \in 1..Len(G[g]) /\ f \in Nat
  BY <1>1
<1>3. field \in Seq(Tokens) /\ field = G[g][f]
  BY <1>1, <1>2
<1>4. /\ Len(G[g]) >= 2 <=> HasColon(text, g)
      /\ ToSet(field) = WordsAt(text, g, f) /\ Spaced(field)
  <2>1. Arranged(text, G)
    BY ArrangedAll
  <2> HIDE DEF f
  <2> QED BY <1>2, <1>3, <2>1 DEF Arranged
<1>5. NamesOf(field) \in Seq(Names) /\ Kept(NamesOf(field), Tokens) = Kept(field, Tokens \ {","})
  BY <1>3, <1>4, NamesAre
<1>6. ToSet(NamesOf(field)) \cap Tokens = ToSet(field) \cap (Tokens \ {","})
  BY <1>3, <1>5, KeptSet
<1>7. ToSet(NamesOf(field)) \ {""} = ToSet(field) \ {","}
  <2>1. ToSet(NamesOf(field)) \subseteq Names /\ ToSet(field) \subseteq Tokens
    BY <1>3, <1>5, ToSetIn
  <2> QED BY <1>6, <2>1, NoToken DEF Names
<1>8. Asked(text, g - 1) = WordsAt(text, g, f) \ {","}
  <2> DEFINE named == \E j \in DOMAIN text : text[j] = ":" /\ GroupAt(text, j) = g - 1
  <2>1. DOMAIN text = 1..Len(text)
    OBVIOUS
  <2>2. named <=> Len(G[g]) >= 2
    BY <1>4, <2>1 DEF HasColon
  <2>3. f - 1 = IF named THEN 1 ELSE 0
    BY <1>1, <2>2
  <2>4. Asked(text, g - 1) =
          {text[k] : k \in {j \in 1..Len(text) : /\ text[j] \notin Separators
                                                 /\ GroupAt(text, j) = g - 1
                                                 /\ FieldAt(text, j) = f - 1}}
    <3> HIDE DEF f
    <3> QED BY <2>1, <2>3 DEF Asked
  <2> HIDE DEF f
  <2> QED BY <2>4 DEF WordsAt, Separators
<1> QED BY <1>4, <1>5, <1>7, <1>8

\* A text has no more groups than tokens and one, and beyond them nothing is asked.
LEMMA AskedBeyond ==
  ASSUME NEW text \in Seq(Tokens), Apart(text), NEW G, G = SplitTwo(text, "|", ":")
  PROVE  /\ Len(G) \in Nat \ {0} /\ Len(G) <= Len(text) + 1
         /\ \A g \in Nat : g >= Len(G) => Asked(text, g) = {}
<1> DEFINE n == Len(text)
<1>1. Len(G) \in Nat \ {0} /\ Arranged(text, G) /\ n \in Nat
  BY GroupsAre, ArrangedAll
<1>2. Len(G) <= n + 1
  <2>1. {j \in 1..(n + 1) - 1 : text[j] = "|"} \subseteq 1..n
    BY <1>1
  <2>2. IsFiniteSet(1..n) /\ Cardinality(1..n) = n
    <3> HIDE DEF n
    <3>1. n \in Int /\ 1 \in Int
      BY <1>1
    <3>2. IsFiniteSet(1..n) /\ Cardinality(1..n) = IF 1 > n THEN 0 ELSE n - 1 + 1
      BY <3>1, FS_Interval
    <3> QED BY <1>1, <3>2
  <2>3. GroupAt(text, n + 1) <= n
    BY <2>1, <2>2, FS_Subset DEF GroupAt
  <2>4. Len(G) = GroupAt(text, n + 1) + 1
    BY <1>1 DEF Arranged
  <2>5. GroupAt(text, n + 1) \in Nat
    BY <1>1, <2>1, <2>2, FS_Subset, FS_CardinalityType DEF GroupAt
  <2> QED BY <1>1, <2>3, <2>4, <2>5
<1>3. ASSUME NEW g \in Nat, g >= Len(G) PROVE Asked(text, g) = {}
  <2>1. \A j \in 1..n : GroupAt(text, j) + 1 \in 1..Len(G)
    BY <1>1 DEF Arranged
  <2>2. \A j \in 1..n : GroupAt(text, j) # g
    BY <1>1, <1>3, <2>1
  <2>3. DOMAIN text = 1..n
    OBVIOUS
  <2> QED BY <2>2, <2>3 DEF Asked
<1> QED BY <1>1, <1>2, <1>3

-----------------------------------------------------------------------------
(* The rows of names, and the groups of rows that a query gets *)

Ok(name) == {l \in DOMAIN Conf : Conf[l].ok /\ Conf[l].online = name}

\* A name has the row of its line, if there is one.
LEMMA RowIs ==
  ASSUME NEW name
  PROVE  /\ QueryOnline(Targeting, name) \in Int
         /\ {QueryOnline(Targeting, name)} \cap Nat = {Conf[l].row : l \in Ok(name)} \cap Nat
<1> DEFINE good   == {l \in DOMAIN Conf : Conf[l].ok}
           online == Targeting.online
<1>1. /\ DOMAIN online = {Conf[l].online : l \in good}
      /\ \A m \in DOMAIN online : online[m] = Conf[Max({l \in good : Conf[l].online = m})].row
  BY DEF Targeting, Load
<1>2. {l \in good : Conf[l].online = name} = Ok(name)
  BY DEF Ok
<1>3. QueryOnline(Targeting, name) = IF name \in DOMAIN online THEN online[name] ELSE NoRow
  BY DEF QueryOnline, Lookup
<1>4. CASE name \in DOMAIN online
  <2>1. PICK l \in good : Conf[l].online = name
    BY <1>1, <1>4
  <2>2. Ok(name) = {l}
    BY <2>1, RequestHandlerAssumption DEF Ok
  <2>3. l \in Nat
    <3>1. Conf \in Seq(ToSet(Conf))
      BY RequestHandlerAssumption
    <3>2. DOMAIN Conf = 1..Len(Conf) /\ Len(Conf) \in Nat
      BY <3>1
    <3> QED BY <3>2
  <2>4. Max({l}) = l
    BY <2>3 DEF Max
  <2>5. QueryOnline(Targeting, name) = Conf[l].row
    <3> HIDE DEF good, online
    <3> QED BY <1>1, <1>2, <1>3, <1>4, <2>2, <2>4
  <2>6. Conf[l].row \in Int
    BY <2>1, RequestHandlerAssumption
  <2> QED BY <2>2, <2>5, <2>6
<1>5. CASE name \notin DOMAIN online
  <2>1. Ok(name) = {}
    BY <1>1, <1>5 DEF Ok
  <2>2. QueryOnline(Targeting, name) = NoRow
    BY <1>3, <1>5
  <2> QED BY <2>1, <2>2 DEF NoRow
<1> QED BY <1>4, <1>5

LEMMA RowsOfIs ==
  ASSUME NEW names
  PROVE  RowsOf(names) = {QueryOnline(Targeting, name) : name \in names} \cap Nat
<1>1. RowsOf(names) = {Conf[l].row : l \in {k \in DOMAIN Conf : Conf[k].ok /\ Conf[k].online \in names}} \cap Nat
  BY DEF RowsOf, ToSet
<1>2. ASSUME NEW r, r \in RowsOf(names) PROVE r \in {QueryOnline(Targeting, name) : name \in names} \cap Nat
  <2>1. PICK l \in DOMAIN Conf : Conf[l].ok /\ Conf[l].online \in names /\ r = Conf[l].row
    BY <1>1, <1>2
  <2>2. r \in Nat
    BY <1>1, <1>2
  <2>3. l \in Ok(Conf[l].online)
    BY <2>1 DEF Ok
  <2>4. r \in {QueryOnline(Targeting, Conf[l].online)} \cap Nat
    BY <2>1, <2>2, <2>3, RowIs
  <2> QED BY <2>1, <2>4
<1>3. ASSUME NEW r, r \in {QueryOnline(Targeting, name) : name \in names} \cap Nat PROVE r \in RowsOf(names)
  <2>1. PICK name \in names : r = QueryOnline(Targeting, name)
    BY <1>3
  <2>2. r \in {Conf[l].row : l \in Ok(name)} /\ r \in Nat
    BY <1>3, <2>1, RowIs
  <2>3. PICK l \in Ok(name) : r = Conf[l].row
    BY <2>2
  <2> QED BY <1>1, <2>1, <2>2, <2>3 DEF Ok
<1> QED BY <1>2, <1>3

\* No target has the empty name.
LEMMA RowsNamed == ASSUME NEW names PROVE RowsOf(names \ {""}) = RowsOf(names)
<1>1. \A line \in ToSet(Conf) : line.ok => line.online # ""
  BY RequestHandlerAssumption DEF ToSet
<1>2. {line \in ToSet(Conf) : line.ok /\ line.online \in names \ {""}} =
      {line \in ToSet(Conf) : line.ok /\ line.online \in names}
  BY <1>1
<1> QED BY <1>2 DEF RowsOf

\* What EncodeTargeting makes of the names of a group.
Encoded(names) == Kept([t \in DOMAIN names |-> QueryOnline(Targeting, names[t])], Nat)

LEMMA EncodedIs ==
  ASSUME NEW X, NEW names \in Seq(X)
  PROVE  Encoded(names) \in Seq(Int) /\ ToSet(Encoded(names)) = RowsOf(ToSet(names))
<1> DEFINE rows == [t \in DOMAIN names |-> QueryOnline(Targeting, names[t])]
           n    == Len(names)
<1>1. n \in Nat /\ DOMAIN names = 1..n
  OBVIOUS
<1>2. rows = [t \in 1..n |-> QueryOnline(Targeting, names[t])]
  BY <1>1
<1>3. \A t \in 1..n : QueryOnline(Targeting, names[t]) \in Int
  BY RowIs
<1> HIDE DEF rows, n
<1>4. rows \in Seq(Int) /\ DOMAIN rows = 1..n
  BY <1>1, <1>2, <1>3
<1>5. Kept(rows, Nat) \in Seq(Int) /\ ToSet(Kept(rows, Nat)) = ToSet(rows) \cap Nat
  BY <1>4, KeptType, KeptSet
<1>6. ToSet(rows) = {QueryOnline(Targeting, name) : name \in ToSet(names)}
  BY <1>1, <1>2, <1>4 DEF ToSet
<1>7. ToSet(rows) \cap Nat = RowsOf(ToSet(names))
  BY <1>6, RowsOfIs
<1> QED BY <1>5, <1>7 DEF Encoded, rows

\* The parser's groups of a query, and the names that they hold.
LEMMA NamedIs ==
  ASSUME NEW text \in Seq(Tokens), Apart(text)
  PROVE  /\ Groups(text, <<>>) \in Seq(Seq(Names))
         /\ {RowsOf(ToSet(Groups(text, <<>>)[g])) : g \in DOMAIN Groups(text, <<>>)} \ {{}}
              = {RowsOf(Asked(text, g)) : g \in 0..Len(text)} \ {{}}
<1> DEFINE G     == SplitTwo(text, "|", ":")
           n     == Len(G)
           named == [g \in DOMAIN G |-> NamesOf(G[g][IF Len(G[g]) >= 2 THEN 2 ELSE 1])]
<1>1. Groups(text, <<>>) = named
  BY DEF Groups
<1>2. n \in Nat \ {0} /\ n <= Len(text) + 1 /\ \A g \in Nat : g >= n => Asked(text, g) = {}
  BY AskedBeyond
<1>3. DOMAIN G = 1..n
  <2> DEFINE V == Fields(Tokens)
  <2>1. G \in Seq(V)
    BY SplitTwoType
  <2> HIDE DEF V, G
  <2> QED BY <2>1
<1>4. ASSUME NEW g \in 1..n
      PROVE  named[g] \in Seq(Names) /\ ToSet(named[g]) \ {""} = Asked(text, g - 1)
  <2> DEFINE field == G[g][IF Len(G[g]) >= 2 THEN 2 ELSE 1]
  <2>1. named[g] = NamesOf(field)
    BY <1>3
  <2>2. G = SplitTwo(text, "|", ":") /\ g \in 1..Len(G)
    OBVIOUS
  <2>3. ToSet(NamesOf(field)) \ {""} = Asked(text, g - 1) /\ NamesOf(field) \in Seq(Names)
    <3>1. field = G[g][IF Len(G[g]) >= 2 THEN 2 ELSE 1]
      OBVIOUS
    <3> HIDE DEF G, field
    <3> QED BY <2>2, <3>1, AskedIs
  <2> HIDE DEF named, field
  <2> QED BY <2>1, <2>3
<1>5. DOMAIN named = 1..n
  BY <1>3
<1> HIDE DEF G, n, named
<1>6. named \in Seq(Seq(Names))
  <2> DEFINE T == Seq(Names)
  <2>1. \A g \in 1..n : named[g] \in T
    BY <1>4
  <2> HIDE DEF T
  <2>2. named = [g \in 1..n |-> named[g]]
    BY <1>3, <1>5 DEF named
  <2>3. named \in Seq(T)
    BY <1>2, <2>1, <2>2
  <2> QED BY <2>3 DEF T
<1>7. RowsOf({}) = {}
  BY DEF RowsOf
<1>8. \A g \in 1..n : RowsOf(ToSet(named[g])) = RowsOf(Asked(text, g - 1))
  <2>1. ASSUME NEW g \in 1..n PROVE RowsOf(ToSet(named[g])) = RowsOf(Asked(text, g - 1))
    <3>1. RowsOf(ToSet(named[g]) \ {""}) = RowsOf(ToSet(named[g]))
      BY RowsNamed
    <3> QED BY <1>4, <3>1
  <2> QED BY <2>1
<1>9. ASSUME NEW R, R # {}
      PROVE  (\E g \in 1..n : R = RowsOf(ToSet(named[g]))) <=> \E g \in 0..Len(text) : R = RowsOf(Asked(text, g))
  <2>1. ASSUME NEW g \in 1..n PROVE g - 1 \in 0..Len(text)
    BY <1>2
  <2>2. ASSUME NEW g \in 0..Len(text), R = RowsOf(Asked(text, g)) PROVE g + 1 \in 1..n /\ (g + 1) - 1 = g
    <3>1. ~(g >= n)
      <4>1. g \in Nat
        OBVIOUS
      <4> SUFFICES ASSUME g >= n PROVE FALSE
        OBVIOUS
      <4>2. Asked(text, g) = {}
        BY <1>2, <4>1
      <4> QED BY <1>7, <1>9, <2>2, <4>2
    <3> QED BY <1>2, <3>1
  <2>3. ASSUME NEW g \in 1..n, R = RowsOf(ToSet(named[g])) PROVE \E h \in 0..Len(text) : R = RowsOf(Asked(text, h))
    BY <1>8, <2>1, <2>3
  <2>4. ASSUME NEW h \in 0..Len(text), R = RowsOf(Asked(text, h)) PROVE \E g \in 1..n : R = RowsOf(ToSet(named[g]))
    BY <1>8, <2>2, <2>4
  <2> QED BY <2>3, <2>4
<1>10. {RowsOf(ToSet(named[g])) : g \in DOMAIN named} \ {{}} = {RowsOf(Asked(text, g)) : g \in 0..Len(text)} \ {{}}
  BY <1>5, <1>9
<1> QED BY <1>1, <1>6, <1>10

\* The hours of a query are the places of the ones.
LEMMA HoursAre ==
  ASSUME NEW X, NEW launch \in Seq(X), Len(launch) = HoursPerDay
  PROVE  /\ Hours(launch) \in Seq(Nat)
         /\ {HourName(h) : h \in ToSet(Hours(launch))} = AskedHours(launch)
<1> DEFINE N   == HoursPerDay
           all == [j \in 1..N |-> j - 1]
           on  == {h \in 0..N - 1 : launch[h + 1] = "1"}
<1>1. N \in Nat /\ DOMAIN launch = 1..N
  BY HoursAssumption
<1>2. all \in Seq(Nat) /\ DOMAIN all = 1..N
  BY <1>1
<1>3. ToSet(all) = 0..N - 1
  <2>1. \A h \in 0..N - 1 : h + 1 \in 1..N /\ (h + 1) - 1 = h
    BY <1>1
  <2>2. \A j \in 1..N : j - 1 \in 0..N - 1
    BY <1>1
  <2>3. ToSet(all) = {j - 1 : j \in 1..N}
    BY <1>2 DEF ToSet
  <2> HIDE DEF N
  <2> QED BY <2>1, <2>2, <2>3
<1>4. Hours(launch) = Kept(all, on)
  BY DEF Hours
<1>5. ToSet(Hours(launch)) = on
  <2> HIDE DEF all, on
  <2>1. ToSet(Kept(all, on)) = ToSet(all) \cap on
    BY <1>2, KeptSet
  <2> QED BY <1>3, <1>4, <2>1 DEF on
<1>6. Hours(launch) \in Seq(Nat)
  <2> HIDE DEF all, on
  <2> QED BY <1>2, <1>4, KeptType
<1>7. {HourName(h) : h \in on} = AskedHours(launch)
  <2>1. AskedHours(launch) = {HourName(j - 1) : j \in {k \in 1..N : launch[k] = "1"}}
    BY <1>1 DEF AskedHours
  <2>2. \A h \in on : h + 1 \in 1..N /\ launch[h + 1] = "1" /\ (h + 1) - 1 = h
    BY <1>1
  <2>3. ASSUME NEW j \in 1..N, launch[j] = "1" PROVE j - 1 \in on
    <3>1. j - 1 \in 0..N - 1 /\ (j - 1) + 1 = j
      BY <1>1
    <3> QED BY <2>3, <3>1
  <2>4. ASSUME NEW x, x \in {HourName(h) : h \in on} PROVE x \in AskedHours(launch)
    <3>1. PICK h \in on : x = HourName(h)
      BY <2>4
    <3> QED BY <2>1, <2>2, <3>1
  <2>5. ASSUME NEW x, x \in AskedHours(launch) PROVE x \in {HourName(h) : h \in on}
    <3>1. PICK j \in 1..N : launch[j] = "1" /\ x = HourName(j - 1)
      BY <2>1, <2>5
    <3> QED BY <2>3, <3>1
  <2> QED BY <2>4, <2>5
<1> QED BY <1>5, <1>6, <1>7

NamesOrHours == Names \cup {HourName(h) : h \in Nat}

\* All that a query asks for.
AsAsked(gs, text, launch) ==
  {RowsOf(ToSet(gs[g])) : g \in DOMAIN gs} \ {{}}
    = ({RowsOf(Asked(text, g)) : g \in 0..Len(text)} \cup {RowsOf(AskedHours(launch))}) \ {{}}

LEMMA GroupsAsked ==
  ASSUME NEW text \in Seq(Tokens), Apart(text), NEW X, NEW launch \in Seq(X), Len(launch) = HoursPerDay
  PROVE  /\ Groups(text, Hours(launch)) \in Seq(Seq(NamesOrHours))
         /\ AsAsked(Groups(text, Hours(launch)), text, launch)
<1> DEFINE gs == Groups(text, Hours(launch))
<1> SUFFICES gs \in Seq(Seq(NamesOrHours)) /\ AsAsked(gs, text, launch)
  OBVIOUS
<1> USE DEF AsAsked
<1> DEFINE named == Groups(text, <<>>)
           hours == Hours(launch)
           added == [j \in DOMAIN hours |-> HourName(hours[j])]
           T     == Seq(NamesOrHours)
           Asks  == {RowsOf(Asked(text, g)) : g \in 0..Len(text)}
<1>1. gs = IF hours = <<>> THEN named ELSE Append(named, added)
  BY DEF Groups
<1>2. named \in Seq(Seq(Names)) /\ {RowsOf(ToSet(named[g])) : g \in DOMAIN named} \ {{}} = Asks \ {{}}
  BY NamedIs
<1>3. hours \in Seq(Nat) /\ {HourName(h) : h \in ToSet(hours)} = AskedHours(launch)
  BY HoursAre
<1>4. \A s \in Seq(Names) : s \in T
  BY DEF NamesOrHours
<1> HIDE DEF named, hours, Asks
<1>5. added \in T /\ ToSet(added) = AskedHours(launch)
  <2>1. DOMAIN hours = 1..Len(hours) /\ Len(hours) \in Nat /\ \A j \in 1..Len(hours) : hours[j] \in Nat
    BY <1>3
  <2>2. \A j \in 1..Len(hours) : HourName(hours[j]) \in NamesOrHours
    BY <2>1 DEF NamesOrHours
  <2>3. added = [j \in 1..Len(hours) |-> HourName(hours[j])]
    BY <2>1
  <2>4. added \in T
    BY <2>1, <2>2, <2>3
  <2>5. ToSet(added) = {HourName(h) : h \in ToSet(hours)}
    BY <2>1, <2>3 DEF ToSet
  <2> QED BY <1>3, <2>4, <2>5
<1>6. named \in Seq(T)
  <2> DEFINE S == Seq(Names)
  <2>1. named \in Seq(S) /\ \A s \in S : s \in T
    BY <1>2, <1>4
  <2> HIDE DEF S, T
  <2> QED BY <2>1
<1> HIDE DEF added, T
<1>7. CASE hours = <<>>
  <2>1. ToSet(hours) = {}
    BY <1>7 DEF ToSet
  <2>2. RowsOf(AskedHours(launch)) = {}
    BY <1>3, <2>1 DEF RowsOf
  <2> QED BY <1>1, <1>2, <1>6, <1>7, <2>2 DEF T, Asks
<1>8. CASE hours # <<>>
  <2> DEFINE n == Len(named)
  <2>1. /\ gs \in Seq(T) /\ n \in Nat /\ DOMAIN named = 1..n /\ DOMAIN gs = 1..n + 1
        /\ gs[n + 1] = added /\ \A g \in 1..n : gs[g] = named[g]
    BY <1>1, <1>5, <1>6, <1>8
  <2>2. \A g : g \in 1..n + 1 <=> g \in 1..n \/ g = n + 1
    BY <2>1
  <2>3. {RowsOf(ToSet(gs[g])) : g \in DOMAIN gs}
          = {RowsOf(ToSet(named[g])) : g \in DOMAIN named} \cup {RowsOf(ToSet(added))}
    BY <2>1, <2>2
  <2> QED BY <1>2, <1>5, <2>1, <2>3 DEF T, Asks
<1> QED BY <1>7, <1>8

\* The sequence that EncodeTargeting appends, and its sets of rows.
EncodedAll(gs) ==
  LET rows  == [g \in DOMAIN gs |-> [t \in DOMAIN gs[g] |-> QueryOnline(Targeting, gs[g][t])]]
      known == [g \in DOMAIN rows |-> Kept(rows[g], Nat)]
  IN Kept(known, ToSet(known) \ {<<>>})

RowsInGroups(new, gs) ==
  /\ new \in Seq(Seq(Int))
  /\ \A g \in DOMAIN new : new[g] # <<>> /\ ToSet(new[g]) \subseteq Nat
  /\ {ToSet(new[g]) : g \in DOMAIN new} = {RowsOf(ToSet(gs[g])) : g \in DOMAIN gs} \ {{}}

LEMMA EncodedAllIs ==
  ASSUME NEW X, NEW gs \in Seq(Seq(X))
  PROVE  RowsInGroups(EncodedAll(gs), gs)
<1> DEFINE new == EncodedAll(gs)
<1> SUFFICES RowsInGroups(new, gs)
  OBVIOUS
<1> USE DEF RowsInGroups
<1> DEFINE n     == Len(gs)
           known == [g \in 1..n |-> Encoded(gs[g])]
           T     == Seq(Int)
           none  == <<>>
<1>1. n \in Nat /\ DOMAIN gs = 1..n /\ \A g \in 1..n : gs[g] \in Seq(X)
  <2> DEFINE S == Seq(X)
  <2>1. gs \in Seq(S)
    OBVIOUS
  <2> HIDE DEF S
  <2>2. n \in Nat /\ DOMAIN gs = 1..n /\ \A g \in 1..n : gs[g] \in S
    BY <2>1
  <2> QED BY <2>2 DEF S
<1>2. new = Kept(known, ToSet(known) \ {none})
  <2>1. EncodedAll(gs) = Kept([g \in DOMAIN gs |-> Encoded(gs[g])],
                              ToSet([g \in DOMAIN gs |-> Encoded(gs[g])]) \ {none})
    BY DEF EncodedAll, Encoded
  <2> QED BY <1>1, <2>1
<1>3. \A g \in 1..n : Encoded(gs[g]) \in T /\ ToSet(Encoded(gs[g])) = RowsOf(ToSet(gs[g]))
  BY <1>1, EncodedIs
<1> HIDE DEF T
<1>4. known \in Seq(T) /\ DOMAIN known = 1..n /\ \A g \in 1..n : known[g] = Encoded(gs[g])
  BY <1>1, <1>3
<1> HIDE DEF known, n, none
<1>5. new \in Seq(T) /\ ToSet(new) = ToSet(known) \ {none}
  <2>1. ToSet(new) = ToSet(known) \cap (ToSet(known) \ {none})
    BY <1>2, <1>4, KeptSet
  <2> QED BY <1>2, <1>4, <2>1, KeptType
<1>6. ToSet(new) = {new[g] : g \in DOMAIN new} /\ ToSet(known) = {Encoded(gs[g]) : g \in 1..n}
  BY <1>4 DEF ToSet
<1>7. ASSUME NEW s \in T PROVE s # none <=> ToSet(s) # {}
  <2>1. s = none => ToSet(s) = {}
    BY DEF ToSet, none
  <2>2. s # none => ToSet(s) # {}
    <3>1. s \in Seq(Int)
      BY DEF T
    <3>2. s # none => 1 \in DOMAIN s
      BY <3>1 DEF none
    <3> QED BY <3>2 DEF ToSet
  <2> QED BY <2>1, <2>2
<1>8. {ToSet(s) : s \in ToSet(new)} = {RowsOf(ToSet(gs[g])) : g \in 1..n} \ {{}}
  <2>1. ASSUME NEW s \in ToSet(new) PROVE ToSet(s) \in {RowsOf(ToSet(gs[g])) : g \in 1..n} \ {{}}
    <3>1. PICK g \in 1..n : s = Encoded(gs[g])
      BY <1>5, <1>6
    <3>2. s # none
      BY <1>5
    <3> QED BY <1>3, <1>7, <3>1, <3>2
  <2>2. ASSUME NEW g \in 1..n, RowsOf(ToSet(gs[g])) # {}
        PROVE  Encoded(gs[g]) \in ToSet(new) /\ RowsOf(ToSet(gs[g])) = ToSet(Encoded(gs[g]))
    BY <1>3, <1>5, <1>6, <1>7, <2>2
  <2> QED BY <2>1, <2>2
<1>9. {ToSet(new[g]) : g \in DOMAIN new} = {ToSet(s) : s \in ToSet(new)}
  BY <1>6
<1>10. ASSUME NEW g \in DOMAIN new PROVE new[g] # <<>> /\ ToSet(new[g]) \subseteq Nat
  <2>1. new[g] \in ToSet(new)
    BY <1>6
  <2>2. PICK h \in 1..n : new[g] = Encoded(gs[h])
    BY <1>5, <1>6, <2>1
  <2>3. ToSet(new[g]) \subseteq Nat
    BY <1>3, <2>2 DEF RowsOf
  <2> QED BY <1>5, <2>1, <2>3 DEF none
<1> QED BY <1>1, <1>5, <1>8, <1>9, <1>10 DEF T

-----------------------------------------------------------------------------
(* The codes of the parser *)

LEMMA LeastOf ==
  ASSUME NEW S, S \subseteq Nat, S # {}
  PROVE  \E least \in S : \A n \in S : least <= n
<1>1. PICK least \in S : \A n \in S : ~(<<n, least>> \in OpToRel(<, Nat))
  BY WFMin, NatLessThanWellFounded
<1>2. OpToRel(<, Nat) = {ss \in Nat \X Nat : ss[1] < ss[2]}
  BY DEF OpToRel
<1>3. ASSUME NEW n \in S PROVE least <= n
  <2>1. n \in Nat /\ least \in Nat
    OBVIOUS
  <2> DEFINE pair == <<n, least>>
  <2>2. pair \in Nat \X Nat /\ pair[1] = n /\ pair[2] = least /\ ~(pair \in OpToRel(<, Nat))
    BY <1>1, <2>1
  <2> HIDE DEF pair
  <2>3. ~(n < least)
    BY <1>2, <2>2
  <2> QED BY <2>1, <2>3
<1> QED BY <1>3

\* A code is that of a check; without one, every check has passed.
LEMMA CodeIs ==
  ASSUME NEW q
  PROVE  /\ Code(q) \in 0..12
         /\ Code(q) = 0 => \A c \in 1..12 : Passes(q, c)
<1> DEFINE Fails == {c \in DOMAIN Order : ~Passes(q, Order[c])}
           Least(c) == (\A b \in 1..c - 1 : Passes(q, Order[b])) /\ ~Passes(q, Order[c])
<1>1. /\ DOMAIN Order = 1..12 /\ \A c \in 1..12 : Order[c] \in 1..12
      /\ \A c \in 1..12 : \E d \in 1..12 : Order[d] = c
  <2>1. DOMAIN Order = 1..12 /\ \A c \in 1..12 : Order[c] \in 1..12
    BY DEF Order
  <2>2. /\ Order[1] = 1 /\ Order[2] = 2 /\ Order[3] = 3 /\ Order[5] = 4 /\ Order[7] = 5 /\ Order[8] = 6
        /\ Order[9] = 7 /\ Order[10] = 8 /\ Order[11] = 9 /\ Order[12] = 10 /\ Order[4] = 11
        /\ Order[6] = 12
    BY DEF Order
  <2>3. \A c \in 1..12 : \E d \in 1..12 : Order[d] = c
    BY <2>2
  <2> QED BY <2>1, <2>3
<1>2. CASE \A c \in DOMAIN Order : Passes(q, Order[c])
  <2>1. Code(q) = 0
    BY <1>2 DEF Code
  <2>2. \A c \in 1..12 : Passes(q, c)
    BY <1>1, <1>2
  <2> QED BY <2>1, <2>2
<1>3. CASE ~\A c \in DOMAIN Order : Passes(q, Order[c])
  <2>1. Fails \subseteq Nat /\ Fails # {}
    BY <1>1, <1>3
  <2>2. PICK least \in Fails : \A n \in Fails : least <= n
    <3> HIDE DEF Fails
    <3> QED BY <2>1, LeastOf
  <2>3. least \in DOMAIN Order /\ Least(least)
    BY <1>1, <2>1, <2>2
  <2>4. (CHOOSE c \in DOMAIN Order : Least(c)) \in DOMAIN Order
    BY <2>3
  <2>5. Code(q) = Order[CHOOSE c \in DOMAIN Order : Least(c)]
    BY <1>3 DEF Code
  <2>6. Code(q) \in 1..12
    <3> HIDE DEF Least
    <3> QED BY <1>1, <2>4, <2>5
  <2> QED BY <2>6
<1> QED BY <1>2, <1>3

-----------------------------------------------------------------------------
(* Sums: the sequences of their terms *)

\* The terms of a query, counted under its targeting.
Terms(t, groups) == [of : {"pv", "uv"}, psid : Names, turn : {t}, targetings : {groups}]
OfKind(kind, S)  == {term \in S : term.of = kind}

LEMMA OfIs ==
  ASSUME NEW S, NEW sum \in Seq(S), NEW kind
  PROVE  Of(kind, sum) = Kept(sum, OfKind(kind, S)) /\ Of(kind, sum) \in Seq(S)
<1>1. ToSet(sum) \subseteq S
  BY ToSetIn
<1>2. ToSet(sum) \cap {term \in ToSet(sum) : term.of = kind} = ToSet(sum) \cap OfKind(kind, S)
  BY <1>1 DEF OfKind
<1> QED BY <1>2, KeptSame, KeptType DEF Of

LEMMA PsidsAppend ==
  ASSUME NEW S, NEW sum \in Seq(S), NEW term \in S
  PROVE  PsidsOf(Append(sum, term)) = Append(PsidsOf(sum), term.psid)
<1> DEFINE n == Len(sum)
           X == {e.psid : e \in S}
           s == Append(sum, term)
<1>1. /\ n \in Nat /\ Len(s) = n + 1 /\ s[n + 1] = term /\ s \in Seq(S)
      /\ \A k \in 1..n : s[k] = sum[k]
  BY OneMore
<1>2. \A k \in 1..n : sum[k] \in S
  OBVIOUS
<1> HIDE DEF n, s
<1>3. PsidsOf(sum) \in Seq(X) /\ Len(PsidsOf(sum)) = n
  <2>1. PsidsOf(sum) = [k \in 1..n |-> sum[k].psid] /\ \A k \in 1..n : sum[k].psid \in X
    BY <1>2 DEF PsidsOf, n
  <2> QED BY <1>1, <2>1
<1>4. PsidsOf(s) \in Seq(X) /\ Len(PsidsOf(s)) = n + 1
  <2>1. \A k \in 1..n + 1 : k \in 1..n \/ k = n + 1
    BY <1>1
  <2>2. PsidsOf(s) = [k \in 1..n + 1 |-> s[k].psid] /\ \A k \in 1..n + 1 : s[k].psid \in X
    BY <1>1, <1>2, <2>1 DEF PsidsOf
  <2>3. n + 1 \in Nat
    BY <1>1
  <2> QED BY <2>2, <2>3
<1> DEFINE r == Append(PsidsOf(sum), term.psid)
<1>5. r \in Seq(X) /\ Len(r) = n + 1 /\ r[n + 1] = term.psid /\ \A k \in 1..n : r[k] = PsidsOf(sum)[k]
  <2>1. term.psid \in X
    OBVIOUS
  <2> HIDE DEF X
  <2> QED BY <1>3, <2>1, OneMore
<1> HIDE DEF r, X
<1>6. ASSUME NEW k \in 1..n + 1 PROVE PsidsOf(s)[k] = r[k]
  <2>1. PsidsOf(s)[k] = s[k].psid
    BY <1>1 DEF PsidsOf
  <2>2. CASE k = n + 1
    BY <1>1, <1>5, <2>1, <2>2
  <2>3. CASE k # n + 1
    <3>1. k \in 1..n
      BY <1>1, <2>3
    <3>2. PsidsOf(sum)[k] = sum[k].psid
      BY <3>1 DEF PsidsOf, n
    <3> QED BY <1>1, <1>5, <2>1, <3>1, <3>2
  <2> QED BY <2>2, <2>3
<1>7. PsidsOf(s) = r
  BY <1>4, <1>5, <1>6, SeqEqual
<1> QED BY <1>7 DEF s, r

LEMMA PsidsEmpty == PsidsOf(<<>>) = <<>>
  BY DEF PsidsOf

Psids(kind, sum) == PsidsOf(Of(kind, sum))

\* A term more is a position more of its kind.
LEMMA PsidsGrow ==
  ASSUME NEW S, NEW sum \in Seq(S), NEW term \in S, NEW kind
  PROVE  Psids(kind, Append(sum, term)) =
           IF term.of = kind THEN Append(Psids(kind, sum), term.psid) ELSE Psids(kind, sum)
<1> DEFINE K == OfKind(kind, S)
<1>1. Append(sum, term) \in Seq(S)
  OBVIOUS
<1>2. Of(kind, sum) = Kept(sum, K) /\ Of(kind, sum) \in Seq(S) /\ Of(kind, Append(sum, term)) = Kept(Append(sum, term), K)
  BY <1>1, OfIs
<1>3. term \in K <=> term.of = kind
  BY DEF OfKind
<1> HIDE DEF K
<1>4. Kept(Append(sum, term), K) = IF term \in K THEN Append(Kept(sum, K), term) ELSE Kept(sum, K)
  BY KeptAppend
<1>5. PsidsOf(Append(Of(kind, sum), term)) = Append(PsidsOf(Of(kind, sum)), term.psid)
  BY <1>2, PsidsAppend
<1> QED BY <1>2, <1>3, <1>4, <1>5 DEF Psids

LEMMA OfNone == ASSUME NEW kind PROVE Of(kind, <<>>) = <<>> /\ Psids(kind, <<>>) = <<>>
  BY KeptEmpty, PsidsEmpty DEF Of, Psids

-----------------------------------------------------------------------------
(* What the parser makes of a query that it accepts *)

LEMMA WordsFound ==
  ASSUME NEW text \in Seq(Tokens), NEW set
  PROVE  Kept(Kept(text, Tokens \ {","}), set) = Kept(text, set \ {","})
<1> DEFINE words == Tokens \ {","}
           both  == set \ {","}
<1>1. \A e \in ToSet(text) : e \in both <=> e \in words /\ e \in set
  BY ToSetIn
<1> HIDE DEF words, both
<1>2. Kept(Kept(text, words), set) = Kept(text, both)
  BY <1>1, KeptInBoth
<1> QED BY <1>2 DEF words, both

LEMMA PsidsFound ==
  ASSUME NEW q, NEW d, d = Data(q), Tokenized(q.adposIdList.text, {","})
  PROVE  d.psids \in Seq(Names) /\ \A set : Kept(d.psids, set) = Found(q, set)
<1> DEFINE text  == q.adposIdList.text
           words == Tokens \ {","}
<1>1. d.psids = Positions(text)
  BY DEF Data
<1>2. Positions(text) = Kept(text, words) /\ Positions(text) \in Seq(Names) /\ text \in Seq(Tokens)
  BY PositionsAre DEF Tokenized, Tokens
<1>3. ASSUME NEW set PROVE Kept(Kept(text, words), set) = Kept(text, set \ {","})
  BY <1>2, WordsFound
<1> QED BY <1>1, <1>2, <1>3 DEF Found

RowsAre(groups, sets) ==
  /\ groups \in Seq(Seq(Int))
  /\ \A g \in DOMAIN groups : groups[g] # <<>> /\ ToSet(groups[g]) \subseteq Nat
  /\ {ToSet(groups[g]) : g \in DOMAIN groups} = sets

LEMMA ConditionsEncoded ==
  ASSUME NEW q, NEW d, d = Data(q), NEW X, q.launchTime.text \in Seq(X),
         Len(q.launchTime.text) = HoursPerDay, Tokenized(q.orientation.text, Separators)
  PROVE  RowsAre(EncodedAll(d.targetings), Conditions(q))
<1> DEFINE new    == EncodedAll(d.targetings)
           text   == q.orientation.text
           launch == q.launchTime.text
           gs     == Groups(text, Hours(launch))
<1>1. d.targetings = gs
  BY DEF Data
<1>2. text \in Seq(Tokens) /\ Apart(text)
  BY DEF Tokenized, Tokens, Apart
<1>3. /\ gs \in Seq(Seq(NamesOrHours))
      /\ {RowsOf(ToSet(gs[g])) : g \in DOMAIN gs} \ {{}}
           = ({RowsOf(Asked(text, g)) : g \in 0..Len(text)} \cup {RowsOf(AskedHours(launch))}) \ {{}}
  <2> HIDE DEF text, launch
  <2>1. launch \in Seq(X) /\ Len(launch) = HoursPerDay
    BY DEF launch
  <2> QED BY <1>2, <2>1, GroupsAsked DEF AsAsked
<1>4. Conditions(q) = {RowsOf(ToSet(gs[g])) : g \in DOMAIN gs} \ {{}}
  <2> HIDE DEF gs
  <2> QED BY <1>3 DEF Conditions
<1> HIDE DEF gs
<1>5. new = EncodedAll(gs)
  BY <1>1
<1>6. RowsInGroups(new, gs)
  BY <1>3, <1>5, EncodedAllIs
<1> HIDE DEF new
<1>7. RowsAre(new, Conditions(q))
  BY <1>4, <1>6 DEF RowsInGroups, RowsAre
<1> QED BY <1>7 DEF new

-----------------------------------------------------------------------------
(* The inductive invariant *)

\* The query at work was accepted and is one of those that may come.
Served == \E in \in Inputs : query = in[1] /\ memory = in[2] /\ Code(query) = 0 /\ qd = Data(query)

Done(k) == SubSeq(qd.psids, 1, k)

\* The first k positions are counted in page views, and the first m in users, each in the
\* sum that takes them.
Counted(k, m) ==
  /\ Psids("pv", pv_sum) = Kept(Done(k), memory.pv) /\ PsidsOf(weights) = Kept(Done(k), memory.pv)
  /\ memory.uv_use_delta => /\ Psids("uv", uv_sum) = Kept(Done(m), memory.uv)
                            /\ Of("uv", pv_sum) = <<>>
  /\ ~memory.uv_use_delta => Psids("uv", pv_sum) = Kept(Done(m), memory.uv) /\ uv_sum = <<>>

\* At each place of Process: which positions are counted, and under what.
Progress ==
  /\ pc # "idle" => Served
  /\ pc = "encode" => targetings = <<>>
  /\ pc \in {"encode", "merge"} => /\ pv_sum = <<>> /\ uv_sum = <<>> /\ weights = <<>>
                                   /\ i = 1
  /\ pc \in {"merge", "pv", "uv", "calculate"} =>
       {ToSet(targetings[g]) : g \in DOMAIN targetings} = Conditions(query)
  /\ pc \in {"pv", "uv", "calculate"} =>
       /\ merged = Kept(qd.psids, memory.merge)
       /\ \A sum \in {pv_sum, uv_sum, weights} : sum \in Seq(Terms(turn, targetings))
  /\ pc = "pv" => Counted(i - 1, i - 1)
  /\ pc = "uv" => i <= Len(qd.psids) /\ Counted(i, i - 1)
  /\ pc = "calculate" => Counted(Len(qd.psids), Len(qd.psids))

IInv == TypeOK /\ Progress

\* One position more.
LEMMA DoneNext ==
  ASSUME qd.psids \in Seq(Names)
  PROVE  /\ Done(0) = <<>> /\ Done(Len(qd.psids)) = qd.psids
         /\ \A k \in 1..Len(qd.psids) : /\ Done(k - 1) \in Seq(Names) /\ qd.psids[k] \in Names
                                        /\ Done(k) = Append(Done(k - 1), qd.psids[k])
<1> DEFINE s == qd.psids
           n == Len(s)
<1>1. n \in Nat /\ s \in Seq(Names) /\ \A k \in 1..n : s[k] \in Names
  OBVIOUS
<1> HIDE DEF s
<1>2. ASSUME NEW k \in 0..n
      PROVE  /\ SubSeq(s, 1, k) \in Seq(Names) /\ Len(SubSeq(s, 1, k)) = k
             /\ \A j \in 1..k : SubSeq(s, 1, k)[j] = s[j]
  <2>1. \A j \in 1..k : s[j] \in Names
    BY <1>1
  <2>2. /\ SubSeq(s, 1, k) \in Seq(Names) /\ Len(SubSeq(s, 1, k)) = IF 1 <= k THEN k - 1 + 1 ELSE 0
        /\ \A j \in 1..k - 1 + 1 : SubSeq(s, 1, k)[j] = s[1 + j - 1]
    BY <1>1, <2>1, SubSeqProperties
  <2>3. Len(SubSeq(s, 1, k)) = k
    BY <1>1, <2>2
  <2>4. ASSUME NEW j \in 1..k PROVE SubSeq(s, 1, k)[j] = s[j]
    <3>1. k - 1 + 1 = k /\ 1 + j - 1 = j
      BY <1>1
    <3> QED BY <2>2, <3>1
  <2> QED BY <2>2, <2>3, <2>4
<1>3. SubSeq(s, 1, 0) = <<>>
  BY <1>1
<1>4. SubSeq(s, 1, n) = s
  <2>1. n \in 0..n
    BY <1>1
  <2> QED BY <1>1, <1>2, <2>1, SeqEqual
<1>5. ASSUME NEW k \in 1..n
      PROVE  SubSeq(s, 1, k - 1) \in Seq(Names) /\ SubSeq(s, 1, k) = Append(SubSeq(s, 1, k - 1), s[k])
  <2>1. k \in 0..n /\ k - 1 \in 0..n
    BY <1>1
  <2> DEFINE a == SubSeq(s, 1, k - 1)
             b == SubSeq(s, 1, k)
             c == Append(a, s[k])
  <2>2. a \in Seq(Names) /\ Len(a) = k - 1 /\ \A j \in 1..k - 1 : a[j] = s[j]
    BY <1>2, <2>1
  <2>3. b \in Seq(Names) /\ Len(b) = k /\ \A j \in 1..k : b[j] = s[j]
    BY <1>2, <2>1
  <2>4. s[k] \in Names
    BY <1>1
  <2> HIDE DEF a, b
  <2>5. c \in Seq(Names) /\ Len(c) = k /\ c[k] = s[k] /\ \A j \in 1..k - 1 : c[j] = a[j]
    <3>1. (k - 1) + 1 = k
      OBVIOUS
    <3> QED BY <2>2, <2>4, <3>1, OneMore
  <2> HIDE DEF c
  <2>6. \A j \in 1..k : b[j] = c[j]
    <3>1. \A j \in 1..k : j \in 1..k - 1 \/ j = k
      OBVIOUS
    <3> QED BY <2>2, <2>3, <2>5, <3>1
  <2>7. b = c
    BY <2>3, <2>5, <2>6, SeqEqual
  <2> QED BY <2>2, <2>7 DEF a, b, c
<1> QED BY <1>1, <1>3, <1>4, <1>5 DEF Done, s

LEMMA ServedFacts ==
  ASSUME Served
  PROVE  /\ query # None /\ memory.uv_use_delta \in BOOLEAN
         /\ qd.psids \in Seq(Names) /\ \A set : Kept(qd.psids, set) = Found(query, set)
         /\ RowsAre(EncodedAll(qd.targetings), Conditions(query))
<1>1. PICK in \in Inputs : query = in[1] /\ memory = in[2] /\ Code(query) = 0 /\ qd = Data(query)
  BY DEF Served
<1>2. /\ query # None /\ memory.uv_use_delta \in BOOLEAN
      /\ Tokenized(query.adposIdList.text, {","}) /\ Tokenized(query.orientation.text, Separators)
      /\ query.launchTime.text \in Seq(STRING)
  <2>1. Memory(in[2]) /\ in[1] # None
    BY RequestHandlerAssumption
  <2>2. /\ Tokenized(in[1].adposIdList.text, {","}) /\ Tokenized(in[1].orientation.text, Separators)
        /\ in[1].launchTime.text \in Seq(STRING)
    BY <1>1, RequestHandlerAssumption
  <2> QED BY <1>1, <2>1, <2>2 DEF Memory
<1>3. Len(query.launchTime.text) = HoursPerDay
  <2>1. Passes(query, 7)
    BY <1>1, CodeIs
  <2> QED BY <2>1 DEF Passes
<1>4. qd.psids \in Seq(Names) /\ \A set : Kept(qd.psids, set) = Found(query, set)
  BY <1>1, <1>2, PsidsFound
<1>5. RowsAre(EncodedAll(qd.targetings), Conditions(query))
  BY <1>1, <1>2, <1>3, ConditionsEncoded
<1> QED BY <1>2, <1>4, <1>5

LEMMA InitIInv == Init => IInv
  BY DEF Init, IInv, TypeOK, Progress, ToSet

LEMMA RefuseStep == IInv /\ Refuse => IInv'
<1> SUFFICES ASSUME IInv, Refuse PROVE IInv'
  OBVIOUS
<1>1. PICK offer \in Offers : code' = offer.parsed.code
  BY DEF Refuse
<1>2. PICK in \in Inputs : offer.parsed = Parse(in[1])
  BY DEF Offers
<1>3. code' \in 0..12
  <2>1. code' = Code(in[1]) \/ code' = 0
    BY <1>1, <1>2 DEF Parse
  <2>2. Code(in[1]) \in 0..12
    BY CodeIs
  <2> QED BY <2>1, <2>2
<1>4. pc = "idle" /\ UNCHANGED <<pc, query, qd, memory, turn, i, targetings, pv_sum, uv_sum, weights, merged>>
  BY DEF Refuse, sums
<1>5. TypeOK'
  BY <1>3, <1>4 DEF IInv, TypeOK
<1>6. Progress'
  BY <1>4 DEF Progress
<1> QED BY <1>5, <1>6 DEF IInv

LEMMA ProcessStep == IInv /\ Process => IInv'
<1> SUFFICES ASSUME IInv, Process PROVE IInv'
  OBVIOUS
<1>1. PICK offer \in Offers : /\ offer.parsed.code = 0
                              /\ query' = offer.query /\ qd' = offer.parsed.data
                              /\ memory' = offer.memory
  BY DEF Process
<1>2. PICK in \in Inputs : offer = [query |-> in[1], memory |-> in[2], parsed |-> Parse(in[1])]
  BY DEF Offers
<1>3. query' = in[1] /\ memory' = in[2] /\ Code(query') = 0 /\ qd' = Data(query')
  BY <1>1, <1>2 DEF Parse
<1>4. Served'
  BY <1>3 DEF Served
<1>5. query' # None
  BY <1>3, RequestHandlerAssumption
<1>6. /\ pc' = "encode" /\ turn' = 3 - turn /\ code' = 0 /\ i' = 1
      /\ targetings' = <<>> /\ pv_sum' = <<>> /\ uv_sum' = <<>> /\ weights' = <<>>
  BY DEF Process, Clear
<1>7. TypeOK'
  BY <1>5, <1>6 DEF IInv, TypeOK
<1>8. Progress'
  BY <1>4, <1>6 DEF Progress
<1> QED BY <1>7, <1>8 DEF IInv

LEMMA EncodeStep == IInv /\ EncodeTargeting => IInv'
<1> SUFFICES ASSUME IInv, EncodeTargeting PROVE IInv'
  OBVIOUS
<1> DEFINE new == EncodedAll(qd.targetings)
<1>1. /\ pc = "encode" /\ pc' = "merge" /\ targetings' = targetings \o new
      /\ UNCHANGED <<query, qd, memory, code, turn, i, pv_sum, uv_sum, weights, merged>>
  BY DEF EncodeTargeting, EncodedAll, input, sums
<1>2. /\ Served /\ targetings = <<>> /\ i = 1
      /\ pv_sum = <<>> /\ uv_sum = <<>> /\ weights = <<>>
  BY <1>1 DEF IInv, Progress
<1>3. RowsAre(new, Conditions(query))
  BY <1>2, ServedFacts
<1> HIDE DEF new
<1>4. targetings' = new
  <2>1. new \in Seq(Seq(Int))
    BY <1>3 DEF RowsAre
  <2> QED BY <1>1, <1>2, <2>1, ConcatEmptySeq
<1>5. TypeOK'
  <2>1. \A g \in DOMAIN new : new[g] # <<>> /\ ToSet(new[g]) \subseteq Nat
    BY <1>3 DEF RowsAre
  <2> QED BY <1>1, <1>2, <1>4, <2>1, ServedFacts DEF IInv, TypeOK
<1>6. Served'
  BY <1>1, <1>2 DEF Served
<1>7. Progress'
  BY <1>1, <1>2, <1>3, <1>4, <1>6 DEF Progress, RowsAre
<1> QED BY <1>5, <1>7 DEF IInv

LEMMA MergeStep == IInv /\ GetUvMergeRate => IInv'
<1> SUFFICES ASSUME IInv, GetUvMergeRate PROVE IInv'
  OBVIOUS
<1>1. /\ pc = "merge" /\ pc' = "pv" /\ merged' = Kept(qd.psids, memory.merge)
      /\ UNCHANGED <<query, qd, memory, code, turn, i, targetings, pv_sum, uv_sum, weights>>
  BY DEF GetUvMergeRate, input, sums
<1>2. /\ Served /\ i = 1 /\ pv_sum = <<>> /\ uv_sum = <<>> /\ weights = <<>>
      /\ {ToSet(targetings[g]) : g \in DOMAIN targetings} = Conditions(query)
  BY <1>1 DEF IInv, Progress
<1>3. query # None /\ qd.psids \in Seq(Names) /\ memory.uv_use_delta \in BOOLEAN
  BY <1>2, ServedFacts
<1>4. Counted(0, 0)
  <2>1. Done(0) = <<>>
    BY <1>3, DoneNext
  <2> QED BY <1>2, <2>1, KeptEmpty, OfNone, PsidsEmpty DEF Counted
<1>5. TypeOK'
  <2>1. i' \in 1..Len(qd.psids) + 1
    <3>1. Len(qd.psids) \in Nat
      BY <1>3
    <3> QED BY <1>1, <1>2, <3>1
  <2> QED BY <1>1, <1>3, <2>1 DEF IInv, TypeOK
<1>6. Served'
  BY <1>1, <1>2 DEF Served
<1>7. Counted(i - 1, i - 1)'
  <2>1. i' - 1 = 0
    BY <1>1, <1>2
  <2> QED BY <1>1, <1>4, <2>1 DEF Counted, Done
<1>8. \A sum \in {pv_sum, uv_sum, weights}' : sum \in Seq(Terms(turn', targetings'))
  BY <1>1, <1>2, EmptySeq
<1>9. Progress'
  BY <1>1, <1>2, <1>6, <1>7, <1>8 DEF Progress
<1> QED BY <1>5, <1>9 DEF IInv

\* A term that is added, or nothing.
LEMMA AddTerm ==
  ASSUME NEW S, NEW sum \in Seq(S), NEW term \in S
  PROVE  sum \o <<term>> = Append(sum, term) /\ sum \o <<>> = sum /\ Append(sum, term) \in Seq(S)
  BY ConcatEmptySeq

LEMMA OfGrow ==
  ASSUME NEW S, NEW sum \in Seq(S), NEW term \in S, NEW kind, term.of # kind
  PROVE  Of(kind, Append(sum, term)) = Of(kind, sum)
<1> DEFINE K == OfKind(kind, S)
<1>1. Append(sum, term) \in Seq(S) /\ term \notin K
  BY DEF OfKind
<1>2. Of(kind, sum) = Kept(sum, K) /\ Of(kind, Append(sum, term)) = Kept(Append(sum, term), K)
  BY <1>1, OfIs
<1> HIDE DEF K
<1>3. Kept(Append(sum, term), K) = Kept(sum, K)
  BY <1>1, KeptAppend
<1> QED BY <1>2, <1>3

\* What a loop has kept after one more position of the query.
LEMMA KeptOneMore ==
  \A before \in Seq(Names) : \A p \in Names : \A set :
    Kept(Append(before, p), set) = IF p \in set THEN Append(Kept(before, set), p)
                                   ELSE Kept(before, set)
  BY KeptAppend

LEMMA KeptAtPosition ==
  ASSUME qd.psids \in Seq(Names), i \in 1..Len(qd.psids)
  PROVE  \A set : Kept(Done(i), set) = IF qd.psids[i] \in set
                                       THEN Append(Kept(Done(i - 1), set), qd.psids[i])
                                       ELSE Kept(Done(i - 1), set)
<1> DEFINE before == Done(i - 1)
           after  == Done(i)
           p      == qd.psids[i]
<1>1. before \in Seq(Names) /\ p \in Names /\ after = Append(before, p)
  BY DoneNext
<1>2. SUFFICES \A set : Kept(after, set) = IF p \in set THEN Append(Kept(before, set), p)
                                           ELSE Kept(before, set)
  OBVIOUS
<1> HIDE DEF before, after, p
<1>3. \A set : Kept(Append(before, p), set) = IF p \in set THEN Append(Kept(before, set), p)
                                              ELSE Kept(before, set)
  BY <1>1, KeptOneMore
<1> QED BY <1>1, <1>3

\* The loop at a position: the invariant, taken apart.
LEMMA AtPosition ==
  ASSUME IInv, pc \in {"pv", "uv"}, i <= Len(qd.psids)
  PROVE  /\ Served /\ query # None /\ memory.uv_use_delta \in BOOLEAN /\ qd.psids \in Seq(Names)
         /\ i \in 1..Len(qd.psids) /\ qd.psids[i] \in Names
         /\ \A set : Kept(Done(i), set) = IF qd.psids[i] \in set
                                          THEN Append(Kept(Done(i - 1), set), qd.psids[i])
                                          ELSE Kept(Done(i - 1), set)
         /\ \A kind \in {"pv", "uv"} : Term(kind, qd.psids[i]) \in Terms(turn, targetings)
         /\ pv_sum \in Seq(Terms(turn, targetings)) /\ uv_sum \in Seq(Terms(turn, targetings))
         /\ weights \in Seq(Terms(turn, targetings))
         /\ {ToSet(targetings[g]) : g \in DOMAIN targetings} = Conditions(query)
         /\ merged = Kept(qd.psids, memory.merge)
<1>1. Served
  BY DEF IInv, Progress
<1>2. query # None /\ memory.uv_use_delta \in BOOLEAN /\ qd.psids \in Seq(Names)
  BY <1>1, ServedFacts
<1>3. i \in 1..Len(qd.psids)
  <2>1. i \in 1..Len(qd.psids) + 1 /\ Len(qd.psids) \in Nat
    BY <1>2 DEF IInv, TypeOK
  <2> QED BY <2>1
<1>4. /\ Done(i - 1) \in Seq(Names) /\ qd.psids[i] \in Names
      /\ Done(i) = Append(Done(i - 1), qd.psids[i])
  BY <1>2, <1>3, DoneNext
<1>5. \A set : Kept(Done(i), set) = IF qd.psids[i] \in set
                                    THEN Append(Kept(Done(i - 1), set), qd.psids[i])
                                    ELSE Kept(Done(i - 1), set)
  BY <1>2, <1>3, KeptAtPosition
<1>6. \A kind \in {"pv", "uv"} : Term(kind, qd.psids[i]) \in Terms(turn, targetings)
  BY <1>4 DEF Term, Terms
<1>7. /\ {ToSet(targetings[g]) : g \in DOMAIN targetings} = Conditions(query)
      /\ merged = Kept(qd.psids, memory.merge)
      /\ \A sum \in {pv_sum, uv_sum, weights} : sum \in Seq(Terms(turn, targetings))
  BY DEF IInv, Progress
<1> QED BY <1>1, <1>2, <1>3, <1>4, <1>5, <1>6, <1>7

LEMMA PvStep == IInv /\ AccumulatePv => IInv'
<1> SUFFICES ASSUME IInv, AccumulatePv PROVE IInv'
  OBVIOUS
<1> DEFINE p   == qd.psids[i]
           t   == Term("pv", p)
           add == IF p \in memory.pv THEN <<t>> ELSE <<>>
           S   == Terms(turn, targetings)
<1>1. /\ pc = "pv" /\ i <= Len(qd.psids) /\ pc' = "uv"
      /\ pv_sum' = pv_sum \o add /\ weights' = weights \o add
      /\ UNCHANGED <<query, qd, memory, code, turn, i, targetings, uv_sum, merged>>
  BY DEF AccumulatePv, input
<1>2. /\ Served /\ query # None /\ memory.uv_use_delta \in BOOLEAN /\ qd.psids \in Seq(Names)
      /\ i \in 1..Len(qd.psids) /\ p \in Names /\ t \in S
      /\ \A set : Kept(Done(i), set) = IF p \in set THEN Append(Kept(Done(i - 1), set), p)
                                       ELSE Kept(Done(i - 1), set)
      /\ pv_sum \in Seq(S) /\ uv_sum \in Seq(S) /\ weights \in Seq(S)
      /\ {ToSet(targetings[g]) : g \in DOMAIN targetings} = Conditions(query)
      /\ merged = Kept(qd.psids, memory.merge)
  BY <1>1, AtPosition
<1>3. Counted(i - 1, i - 1)
  BY <1>1 DEF IInv, Progress
<1>4. t.of = "pv" /\ t.psid = p /\ "pv" # "uv"
  BY DEF Term
<1> HIDE DEF p, t, S
<1>5. /\ pv_sum' \in Seq(S) /\ weights' \in Seq(S)
      /\ Psids("pv", pv_sum') = Kept(Done(i), memory.pv)
      /\ PsidsOf(weights') = Kept(Done(i), memory.pv)
      /\ Psids("uv", pv_sum') = Psids("uv", pv_sum) /\ Of("uv", pv_sum') = Of("uv", pv_sum)
  <2>1. CASE p \in memory.pv
    <3>1. pv_sum' = Append(pv_sum, t) /\ weights' = Append(weights, t)
      BY <1>1, <1>2, <2>1, AddTerm
    <3>2. /\ Psids("pv", Append(pv_sum, t)) = Append(Psids("pv", pv_sum), p)
          /\ Psids("uv", Append(pv_sum, t)) = Psids("uv", pv_sum)
      BY <1>2, <1>4, PsidsGrow
    <3>3. Of("uv", Append(pv_sum, t)) = Of("uv", pv_sum)
      BY <1>2, <1>4, OfGrow
    <3>4. PsidsOf(Append(weights, t)) = Append(PsidsOf(weights), p)
      BY <1>2, <1>4, PsidsAppend
    <3>5. Append(pv_sum, t) \in Seq(S) /\ Append(weights, t) \in Seq(S)
      BY <1>2, AddTerm
    <3>6. Kept(Done(i), memory.pv) = Append(Kept(Done(i - 1), memory.pv), p)
      BY <1>2, <2>1
    <3>7. Psids("pv", pv_sum) = Kept(Done(i - 1), memory.pv) /\ PsidsOf(weights) = Kept(Done(i - 1), memory.pv)
      BY <1>3 DEF Counted
    <3> QED BY <3>1, <3>2, <3>3, <3>4, <3>5, <3>6, <3>7
  <2>2. CASE p \notin memory.pv
    <3>1. pv_sum' = pv_sum /\ weights' = weights
      BY <1>1, <1>2, <2>2, AddTerm
    <3>2. Kept(Done(i), memory.pv) = Kept(Done(i - 1), memory.pv)
      BY <1>2, <2>2
    <3>3. Psids("pv", pv_sum) = Kept(Done(i - 1), memory.pv) /\ PsidsOf(weights) = Kept(Done(i - 1), memory.pv)
      BY <1>3 DEF Counted
    <3> QED BY <1>2, <3>1, <3>2, <3>3
  <2> QED BY <2>1, <2>2
<1>6. Counted(i, i - 1)'
  BY <1>1, <1>3, <1>5 DEF Counted, Done
<1>7. TypeOK'
  BY <1>1, <1>2 DEF IInv, TypeOK
<1>8. Served'
  BY <1>1, <1>2 DEF Served
<1>9. \A sum \in {pv_sum, uv_sum, weights}' : sum \in Seq(Terms(turn', targetings'))
  BY <1>1, <1>2, <1>5 DEF S
<1>10. Progress'
  BY <1>1, <1>2, <1>6, <1>8, <1>9 DEF Progress
<1> QED BY <1>7, <1>10 DEF IInv

LEMMA UvStep == IInv /\ AccumulateUv => IInv'
<1> SUFFICES ASSUME IInv, AccumulateUv PROVE IInv'
  OBVIOUS
<1> DEFINE p   == qd.psids[i]
           t   == Term("uv", p)
           add == IF p \in memory.uv THEN <<t>> ELSE <<>>
           S   == Terms(turn, targetings)
<1>1. /\ pc = "uv" /\ pc' = "pv" /\ i' = i + 1
      /\ memory.uv_use_delta => uv_sum' = uv_sum \o add /\ pv_sum' = pv_sum
      /\ ~memory.uv_use_delta => pv_sum' = pv_sum \o add /\ uv_sum' = uv_sum
      /\ UNCHANGED <<query, qd, memory, code, turn, targetings, weights, merged>>
  BY DEF AccumulateUv, input
<1>2. i <= Len(qd.psids) /\ Counted(i, i - 1)
  BY <1>1 DEF IInv, Progress
<1>3. /\ Served /\ query # None /\ memory.uv_use_delta \in BOOLEAN /\ qd.psids \in Seq(Names)
      /\ i \in 1..Len(qd.psids) /\ p \in Names /\ t \in S
      /\ \A set : Kept(Done(i), set) = IF p \in set THEN Append(Kept(Done(i - 1), set), p)
                                       ELSE Kept(Done(i - 1), set)
      /\ pv_sum \in Seq(S) /\ uv_sum \in Seq(S) /\ weights \in Seq(S)
      /\ {ToSet(targetings[g]) : g \in DOMAIN targetings} = Conditions(query)
      /\ merged = Kept(qd.psids, memory.merge)
  BY <1>1, <1>2, AtPosition
<1>4. t.of = "uv" /\ t.psid = p /\ "pv" # "uv"
  BY DEF Term
<1> HIDE DEF p, t, S
\* The sum that takes the users.
<1>5. ASSUME NEW sum \in Seq(S), Psids("uv", sum) = Kept(Done(i - 1), memory.uv)
      PROVE  /\ sum \o add \in Seq(S)
             /\ Psids("uv", sum \o add) = Kept(Done(i), memory.uv)
             /\ Psids("pv", sum \o add) = Psids("pv", sum)
  <2>1. CASE p \in memory.uv
    <3>1. sum \o add = Append(sum, t) /\ Append(sum, t) \in Seq(S)
      BY <1>3, <2>1, AddTerm
    <3>2. /\ Psids("uv", Append(sum, t)) = Append(Psids("uv", sum), p)
          /\ Psids("pv", Append(sum, t)) = Psids("pv", sum)
      BY <1>3, <1>4, PsidsGrow
    <3>3. Kept(Done(i), memory.uv) = Append(Kept(Done(i - 1), memory.uv), p)
      BY <1>3, <2>1
    <3> QED BY <1>5, <3>1, <3>2, <3>3
  <2>2. CASE p \notin memory.uv
    <3>1. sum \o add = sum
      BY <1>3, <2>2, AddTerm
    <3>2. Kept(Done(i), memory.uv) = Kept(Done(i - 1), memory.uv)
      BY <1>3, <2>2
    <3> QED BY <1>5, <3>1, <3>2
  <2> QED BY <2>1, <2>2
<1> HIDE DEF add
<1>6. /\ Psids("pv", pv_sum) = Kept(Done(i), memory.pv) /\ PsidsOf(weights) = Kept(Done(i), memory.pv)
      /\ memory.uv_use_delta => /\ Psids("uv", uv_sum) = Kept(Done(i - 1), memory.uv)
                                /\ Of("uv", pv_sum) = <<>>
      /\ ~memory.uv_use_delta => Psids("uv", pv_sum) = Kept(Done(i - 1), memory.uv) /\ uv_sum = <<>>
  BY <1>2 DEF Counted
<1>7. /\ pv_sum' \in Seq(S) /\ uv_sum' \in Seq(S)
      /\ Psids("pv", pv_sum') = Kept(Done(i), memory.pv)
      /\ memory.uv_use_delta => /\ Psids("uv", uv_sum') = Kept(Done(i), memory.uv)
                                /\ Of("uv", pv_sum') = <<>>
      /\ ~memory.uv_use_delta => Psids("uv", pv_sum') = Kept(Done(i), memory.uv) /\ uv_sum' = <<>>
  <2>1. CASE memory.uv_use_delta
    BY <1>1, <1>3, <1>5, <1>6, <2>1
  <2>2. CASE ~memory.uv_use_delta
    BY <1>1, <1>3, <1>5, <1>6, <2>2
  <2> QED BY <2>1, <2>2
<1>8. Counted(i - 1, i - 1)'
  <2>1. i' - 1 = i
    BY <1>1, <1>3
  <2> QED BY <1>1, <1>6, <1>7, <2>1 DEF Counted, Done
<1>9. TypeOK'
  <2>1. i' \in 1..Len(qd.psids) + 1 /\ i' \in Nat
    <3>1. Len(qd.psids) \in Nat
      BY <1>3
    <3> QED BY <1>1, <1>3, <3>1
  <2> QED BY <1>1, <1>3, <2>1 DEF IInv, TypeOK
<1>10. Served'
  BY <1>1, <1>3 DEF Served
<1>11. \A sum \in {pv_sum, uv_sum, weights}' : sum \in Seq(Terms(turn', targetings'))
  BY <1>1, <1>3, <1>7 DEF S
<1>12. Progress'
  BY <1>1, <1>3, <1>8, <1>10, <1>11 DEF Progress
<1> QED BY <1>9, <1>12 DEF IInv

LEMMA LoopDoneStep == IInv /\ LoopDone => IInv'
<1> SUFFICES ASSUME IInv, LoopDone PROVE IInv'
  OBVIOUS
<1>1. /\ pc = "pv" /\ i > Len(qd.psids) /\ pc' = "calculate"
      /\ UNCHANGED <<query, qd, memory, code, turn, i, targetings, pv_sum, uv_sum, weights, merged>>
  BY DEF LoopDone, input, sums
<1>2. /\ Served /\ Counted(i - 1, i - 1)
      /\ {ToSet(targetings[g]) : g \in DOMAIN targetings} = Conditions(query)
      /\ merged = Kept(qd.psids, memory.merge)
      /\ \A sum \in {pv_sum, uv_sum, weights} : sum \in Seq(Terms(turn, targetings))
  BY <1>1 DEF IInv, Progress
<1>3. i - 1 = Len(qd.psids)
  <2>1. Len(qd.psids) \in Nat
    BY <1>2, ServedFacts
  <2> QED BY <1>1, <2>1 DEF IInv, TypeOK
<1>4. Counted(Len(qd.psids), Len(qd.psids))'
  <2>1. Counted(Len(qd.psids), Len(qd.psids))
    BY <1>2, <1>3
  <2> QED BY <1>1, <2>1 DEF Counted, Done
<1>5. TypeOK'
  BY <1>1 DEF IInv, TypeOK
<1>6. Served'
  BY <1>1, <1>2 DEF Served
<1>7. Progress'
  BY <1>1, <1>2, <1>4, <1>6 DEF Progress
<1> QED BY <1>5, <1>7 DEF IInv

LEMMA CalculateStep == IInv /\ Calculate => IInv'
<1> SUFFICES ASSUME IInv, Calculate PROVE IInv'
  OBVIOUS
<1>1. /\ pc' = "idle" /\ query' = None /\ i' = 1
      /\ UNCHANGED <<code, turn, targetings, pv_sum, uv_sum, weights, merged>>
  BY DEF Calculate, sums
<1>2. TypeOK'
  BY <1>1 DEF IInv, TypeOK
<1>3. Progress'
  BY <1>1 DEF Progress
<1> QED BY <1>2, <1>3 DEF IInv

LEMMA NextIInv == IInv /\ [Next]_vars => IInv'
<1> SUFFICES ASSUME IInv, [Next]_vars PROVE IInv'
  OBVIOUS
<1>1. CASE Next
  BY <1>1, RefuseStep, ProcessStep, EncodeStep, MergeStep, PvStep, UvStep, LoopDoneStep,
     CalculateStep DEF Next
<1>2. CASE UNCHANGED vars
  <2>1. UNCHANGED <<pc, query, qd, memory, code, turn, i, targetings, pv_sum, uv_sum, weights, merged>>
    BY <1>2 DEF vars, input, sums
  <2>2. TypeOK'
    BY <2>1 DEF IInv, TypeOK
  <2>3. Served' <=> Served
    BY <2>1 DEF Served
  <2>4. ASSUME NEW k, NEW m PROVE (Counted(k, m))' <=> Counted(k, m)
    BY <2>1 DEF Counted, Done
  <2>5. Progress'
    BY <2>1, <2>3, <2>4 DEF IInv, Progress, Counted, Done
  <2> QED BY <2>2, <2>5 DEF IInv
<1> QED BY <1>1, <1>2

LEMMA IInvAlways == Spec => []IInv
  BY InitIInv, NextIInv, PTL DEF Spec

-----------------------------------------------------------------------------
(* Theorems *)

\* A handler's members have the types they have in the code: a code is one of ErrMsg, the
\* position is one of the query, and no group of the targeting is empty.
THEOREM TypeCorrect == Spec => []TypeOK
<1>1. IInv => TypeOK
  BY DEF IInv
<1> QED BY <1>1, IInvAlways, PTL

\* For queries with any number of positions and any index: when the figures are computed,
\* every position in the text of the query has been counted as often as the text has it,
\* in the sum that uv_use_delta gives it and in no other.
THEOREM PositionsCount == Spec => []EveryPositionCounts
<1>1. IInv => EveryPositionCounts
  <2> SUFFICES ASSUME IInv, pc = "calculate" PROVE EveryPositionCounts
    BY DEF EveryPositionCounts
  <2> DEFINE n == Len(qd.psids)
             S == Terms(turn, targetings)
  <2>1. /\ Served /\ Counted(n, n) /\ merged = Kept(qd.psids, memory.merge)
        /\ pv_sum \in Seq(S) /\ uv_sum \in Seq(S)
    BY DEF IInv, Progress
  <2>2. /\ qd.psids \in Seq(Names) /\ \A set : Kept(qd.psids, set) = Found(query, set)
        /\ memory.uv_use_delta \in BOOLEAN
    BY <2>1, ServedFacts
  <2>3. Done(n) = qd.psids
    BY <2>2, DoneNext
  <2> HIDE DEF n, S
  <2>4. /\ Psids("pv", pv_sum) = Found(query, memory.pv) /\ PsidsOf(weights) = Found(query, memory.pv)
        /\ merged = Found(query, memory.merge)
    BY <2>1, <2>2, <2>3 DEF Counted
  <2>5. /\ memory.uv_use_delta  => /\ Psids("uv", uv_sum) = Found(query, memory.uv)
                                   /\ Of("uv", pv_sum) = <<>>
        /\ ~memory.uv_use_delta => /\ Psids("uv", pv_sum) = Found(query, memory.uv)
                                   /\ uv_sum = <<>>
    BY <2>1, <2>2, <2>3 DEF Counted
  <2> QED BY <2>4, <2>5 DEF EveryPositionCounts, Psids
<1> QED BY <1>1, IInvAlways, PTL

\* For any queries before this one and any texts: the figures come from this query's terms
\* alone, each counted under exactly the conditions that its texts ask for.
THEOREM AnswersAlone == Spec => []AnswersThisQueryAlone
<1>1. IInv => AnswersThisQueryAlone
  <2> SUFFICES ASSUME IInv, pc = "calculate" PROVE AnswersThisQueryAlone
    BY DEF AnswersThisQueryAlone
  <2> DEFINE S   == Terms(turn, targetings)
             all == pv_sum \o uv_sum \o weights
  <2>1. /\ pv_sum \in Seq(S) /\ uv_sum \in Seq(S) /\ weights \in Seq(S)
        /\ {ToSet(targetings[g]) : g \in DOMAIN targetings} = Conditions(query)
    BY DEF IInv, Progress
  <2>2. all \in Seq(S)
    <3> HIDE DEF S
    <3> QED BY <2>1
  <2> HIDE DEF all, S
  <2>3. ASSUME NEW k \in DOMAIN all
        PROVE  all[k].turn = turn /\ all[k].targetings = targetings
    <3>1. all[k] \in S
      BY <2>2
    <3> QED BY <3>1 DEF S, Terms
  <2> QED BY <2>1, <2>3 DEF AnswersThisQueryAlone, all
<1> QED BY <1>1, IInvAlways, PTL

-----------------------------------------------------------------------------
(* Blanks.  What Strip leaves of a text, and what the text says without any   *)
(* blank, agree in what matters of a number, a name or a truth value.         *)

\* Any token.
Sign == STRING

\* A text without its blanks.
Bare(text) == Kept(text, Sign \ {Blank})

\* One sequence after another.
Join(x, y) == x \o y

\* Join and Append, the empty sequence, and what stands where.
LEMMA AppendJoined ==
  ASSUME NEW X, NEW x \in Seq(X), NEW y \in Seq(X), NEW e \in X
  PROVE  Append(Join(x, y), e) = Join(x, Append(y, e))
  BY DEF Join

LEMMA JoinNone ==
  ASSUME NEW X, NEW x \in Seq(X)
  PROVE  Join(x, <<>>) = x /\ Join(<<>>, x) = x
  BY DEF Join

Joins(X, x, y, m, n, both) ==
  /\ both \in Seq(X) /\ Len(both) = m + n
  /\ \A k \in 1..m : both[k] = x[k]
  /\ \A k \in 1..n : both[m + k] = y[k]

LEMMA Joined ==
  ASSUME NEW X, NEW x \in Seq(X), NEW y \in Seq(X)
  PROVE  Joins(X, x, y, Len(x), Len(y), Join(x, y))
  BY DEF Join, Joins

\* Of two joined sequences Kept keeps what it keeps of each.
LEMMA KeptJoined ==
  ASSUME NEW X, NEW a \in Seq(X), NEW set
  PROVE  \A b \in Seq(X) : Kept(Join(a, b), set) = Join(Kept(a, set), Kept(b, set))
<1> DEFINE Good == {b \in Seq(X) : Kept(Join(a, b), set) = Join(Kept(a, set), Kept(b, set))}
<1>1. <<>> \in Good
  <2>1. <<>> \in Seq(X) /\ Join(a, <<>>) = a /\ Kept(a, set) \in Seq(X)
    BY KeptType, JoinNone
  <2>2. Join(Kept(a, set), <<>>) = Kept(a, set)
    BY <2>1, JoinNone
  <2> QED BY <2>1, <2>2, KeptEmpty
<1>2. ASSUME NEW b \in Seq(X), NEW e \in X, b \in Good PROVE Append(b, e) \in Good
  <2>1. /\ Join(a, Append(b, e)) = Append(Join(a, b), e) /\ Join(a, b) \in Seq(X)
        /\ Append(b, e) \in Seq(X)
    BY AppendJoined, Joined DEF Joins
  <2>2. Kept(a, set) \in Seq(X) /\ Kept(b, set) \in Seq(X)
    BY KeptType
  <2>3. Kept(Append(Join(a, b), e), set) = IF e \in set THEN Append(Kept(Join(a, b), set), e)
                                                       ELSE Kept(Join(a, b), set)
    BY <2>1, KeptAppend
  <2>4. Kept(Append(b, e), set) = IF e \in set THEN Append(Kept(b, set), e) ELSE Kept(b, set)
    BY KeptAppend
  <2>5. Kept(Join(a, b), set) = Join(Kept(a, set), Kept(b, set))
    BY <1>2
  <2>6. Append(Join(Kept(a, set), Kept(b, set)), e) = Join(Kept(a, set), Append(Kept(b, set), e))
    BY <2>2, AppendJoined
  <2>7. Kept(Append(Join(a, b), e), set) = Join(Kept(a, set), Kept(Append(b, e), set))
    <3>1. CASE e \in set
      BY <2>3, <2>4, <2>5, <2>6, <3>1
    <3>2. CASE e \notin set
      BY <2>3, <2>4, <2>5, <3>2
    <3> QED BY <3>1, <3>2
  <2> QED BY <2>1, <2>7
<1>3. Seq(X) \subseteq Good
  <2> HIDE DEF Good
  <2> QED BY <1>1, <1>2, AllSequences
<1> QED BY <1>3

\* Nothing is kept where nothing is in the set.
LEMMA KeptNone ==
  ASSUME NEW X, NEW seq \in Seq(X), NEW set, \A k \in 1..Len(seq) : seq[k] \notin set
  PROVE  Kept(seq, set) = <<>>
<1>1. Kept(seq, set) \in Seq(X) /\ ToSet(Kept(seq, set)) = ToSet(seq) \cap set
  BY KeptType, KeptSet
<1>2. ToSet(seq) \cap set = {}
  BY DEF ToSet
<1>3. ASSUME Kept(seq, set) # <<>> PROVE FALSE
  <2> DEFINE kept == Kept(seq, set)
  <2> HIDE DEF kept
  <2>1. kept \in Seq(X) /\ kept # <<>> /\ ToSet(kept) = {}
    BY <1>1, <1>2, <1>3 DEF kept
  <2>2. 1 \in DOMAIN kept
    BY <2>1
  <2> QED BY <2>1, <2>2 DEF ToSet
<1> QED BY <1>3

\* Bare, of a text of every length.
LEMMA BareType == ASSUME NEW text \in Seq(Sign) PROVE Bare(text) \in Seq(Sign)
  BY KeptType DEF Bare

LEMMA BareEmpty == Bare(<<>>) = <<>>
  BY KeptEmpty DEF Bare

LEMMA BareAppend ==
  ASSUME NEW text \in Seq(Sign), NEW token \in Sign
  PROVE  Bare(Append(text, token)) = IF token = Blank THEN Bare(text) ELSE Append(Bare(text), token)
<1>1. Kept(Append(text, token), Sign \ {Blank}) =
        IF token \in Sign \ {Blank} THEN Append(Kept(text, Sign \ {Blank}), token)
                                 ELSE Kept(text, Sign \ {Blank})
  BY KeptAppend
<1>2. token \in Sign \ {Blank} <=> token # Blank
  OBVIOUS
<1> QED BY <1>1, <1>2 DEF Bare

\* Said takes the blanks out as Bare does.
LEMMA BareIs ==
  ASSUME NEW text \in Seq(Sign)
  PROVE  Kept(text, ToSet(text) \ {Blank}) = Bare(text)
<1>1. ToSet(text) \subseteq Sign
  BY ToSetIn
<1>2. ToSet(text) \cap (ToSet(text) \ {Blank}) = ToSet(text) \cap (Sign \ {Blank})
  BY <1>1
<1> QED BY <1>2, KeptSame DEF Bare

\* Without blanks there is none to take out.
LEMMA BareSet ==
  ASSUME NEW text \in Seq(Sign)
  PROVE  \A k \in 1..Len(Bare(text)) : Bare(text)[k] # Blank /\ Bare(text)[k] \in Sign
<1>1. Bare(text) \in Seq(Sign) /\ ToSet(Bare(text)) = ToSet(text) \cap (Sign \ {Blank})
  BY KeptType, KeptSet DEF Bare
<1> DEFINE bare == Bare(text)
<1> HIDE DEF bare
<1>2. bare \in Seq(Sign) /\ Blank \notin ToSet(bare)
  BY <1>1 DEF bare
<1>3. ASSUME NEW k \in 1..Len(bare) PROVE bare[k] # Blank /\ bare[k] \in Sign
  <2>1. k \in DOMAIN bare /\ bare[k] \in Sign
    BY <1>2
  <2>2. bare[k] \in ToSet(bare)
    BY <2>1 DEF ToSet
  <2> QED BY <1>2, <2>1, <2>2
<1> QED BY <1>3 DEF bare

\* Sequences that end and begin as the text does between two places.
LEMMA Sub ==
  ASSUME NEW X, NEW seq \in Seq(X), NEW a \in 1..Len(seq) + 1, NEW b \in 0..Len(seq), a <= b + 1
  PROVE  /\ SubSeq(seq, a, b) \in Seq(X) /\ Len(SubSeq(seq, a, b)) = b - a + 1
         /\ \A k \in 1..b - a + 1 : SubSeq(seq, a, b)[k] = seq[a + k - 1]
<1>1. \A k \in a..b : seq[k] \in X
  OBVIOUS
<1>2. a \in Int /\ b \in Int
  OBVIOUS
<1>3. /\ SubSeq(seq, a, b) \in Seq(X) /\ Len(SubSeq(seq, a, b)) = IF a <= b THEN b - a + 1 ELSE 0
      /\ \A k \in 1..b - a + 1 : SubSeq(seq, a, b)[k] = seq[a + k - 1]
  BY <1>1, <1>2, SubSeqProperties
<1>4. (IF a <= b THEN b - a + 1 ELSE 0) = b - a + 1
  BY <1>2
<1> QED BY <1>3, <1>4

\* A sequence is what stands before, in and behind a part of it.
LEMMA CutInThree ==
  ASSUME NEW X, NEW seq \in Seq(X), NEW a \in 1..Len(seq), NEW b \in a..Len(seq)
  PROVE  seq = Join(Join(SubSeq(seq, 1, a - 1), SubSeq(seq, a, b)), SubSeq(seq, b + 1, Len(seq)))
<1> DEFINE n == Len(seq)
           x == SubSeq(seq, 1, a - 1)
           y == SubSeq(seq, a, b)
           z == SubSeq(seq, b + 1, n)
<1>1. n \in Nat /\ a \in Nat /\ b \in Nat /\ 1 <= a /\ a <= b /\ b <= n
  OBVIOUS
<1>2. x \in Seq(X) /\ Len(x) = a - 1 /\ \A k \in 1..a - 1 : x[k] = seq[k]
  <2>1. 1 \in 1..n + 1 /\ a - 1 \in 0..n /\ 1 <= (a - 1) + 1
    BY <1>1
  <2>2. /\ x \in Seq(X) /\ Len(x) = (a - 1) - 1 + 1
        /\ \A k \in 1..(a - 1) - 1 + 1 : x[k] = seq[1 + k - 1]
    BY <2>1, Sub
  <2> HIDE DEF x, n
  <2>3. ASSUME NEW k \in 1..a - 1 PROVE x[k] = seq[k]
    <3>1. k \in 1..(a - 1) - 1 + 1 /\ 1 + k - 1 = k
      BY <1>1
    <3> QED BY <2>2, <3>1
  <2> QED BY <1>1, <2>2, <2>3
<1>3. y \in Seq(X) /\ Len(y) = b - a + 1 /\ \A k \in 1..b - a + 1 : y[k] = seq[a + k - 1]
  <2>1. a \in 1..n + 1 /\ b \in 0..n /\ a <= b + 1
    BY <1>1
  <2> QED BY <2>1, Sub
<1>4. z \in Seq(X) /\ Len(z) = n - b /\ \A k \in 1..n - b : z[k] = seq[b + k]
  <2>1. b + 1 \in 1..n + 1 /\ n \in 0..n /\ b + 1 <= n + 1
    BY <1>1
  <2>2. /\ z \in Seq(X) /\ Len(z) = n - (b + 1) + 1
        /\ \A k \in 1..n - (b + 1) + 1 : z[k] = seq[b + 1 + k - 1]
    BY <2>1, Sub
  <2> HIDE DEF z, n
  <2>3. ASSUME NEW k \in 1..n - b PROVE z[k] = seq[b + k]
    <3>1. k \in 1..n - (b + 1) + 1 /\ b + 1 + k - 1 = b + k
      BY <1>1
    <3> QED BY <2>2, <3>1
  <2> QED BY <1>1, <2>2, <2>3
<1> HIDE DEF x, y, z
<1> HIDE DEF n
<1> DEFINE xy  == Join(x, y)
           all == Join(xy, z)
<1>5. /\ xy \in Seq(X) /\ Len(xy) = (a - 1) + (b - a + 1)
      /\ \A k \in 1..a - 1 : xy[k] = x[k]
      /\ \A k \in 1..b - a + 1 : xy[(a - 1) + k] = y[k]
  <2> HIDE DEF xy
  <2>0. x \in Seq(X) /\ y \in Seq(X)
    BY <1>2, <1>3
  <2>1. Joins(X, x, y, Len(x), Len(y), xy)
    BY <2>0, Joined DEF xy
  <2> QED BY <1>2, <1>3, <2>1 DEF Joins
<1> HIDE DEF xy
<1>6. Len(xy) = b /\ \A k \in 1..b : xy[k] = seq[k]
  <2>1. Len(xy) = b
    BY <1>1, <1>5
  <2>2. ASSUME NEW k \in 1..b PROVE xy[k] = seq[k]
    <3>1. CASE k <= a - 1
      BY <1>1, <1>2, <1>5, <3>1
    <3>2. CASE k > a - 1
      <4> DEFINE j == k - (a - 1)
      <4>1. j \in 1..b - a + 1 /\ (a - 1) + j = k /\ a + j - 1 = k
        BY <1>1, <3>2
      <4> HIDE DEF j
      <4> QED BY <1>3, <1>5, <4>1
    <3> QED BY <1>1, <3>1, <3>2
  <2> QED BY <2>1, <2>2
<1>7. /\ all \in Seq(X) /\ Len(all) = b + (n - b)
      /\ \A k \in 1..b : all[k] = xy[k]
      /\ \A k \in 1..n - b : all[b + k] = z[k]
  <2> HIDE DEF all
  <2>0. xy \in Seq(X) /\ z \in Seq(X)
    BY <1>4, <1>5
  <2>1. Joins(X, xy, z, Len(xy), Len(z), all)
    BY <2>0, Joined DEF all
  <2> QED BY <1>4, <1>6, <2>1 DEF Joins
<1> HIDE DEF all
<1>8. ASSUME NEW k \in 1..n PROVE seq[k] = all[k]
  <2>1. CASE k <= b
    BY <1>1, <1>6, <1>7, <2>1
  <2>2. CASE k > b
    <3> DEFINE j == k - b
    <3>1. j \in 1..n - b /\ b + j = k
      BY <1>1, <2>2
    <3> HIDE DEF j
    <3> QED BY <1>4, <1>7, <3>1
  <2> QED BY <1>1, <2>1, <2>2
<1>9. seq = all
  <2>1. seq \in Seq(X) /\ all \in Seq(X) /\ Len(all) = Len(seq)
    BY <1>1, <1>7 DEF n
  <2>2. \A k \in 1..Len(seq) : seq[k] = all[k]
    BY <1>8 DEF n
  <2> QED BY <2>1, <2>2, SeqEqual
<1> QED BY <1>9 DEF all, xy, x, y, z, n

\* Of a text with a word, Strip takes what is between the first and the last.
LEMMA StripEnds ==
  ASSUME NEW text \in Seq(Sign)
  PROVE  \/ /\ Strip(text) = <<>> /\ \A k \in 1..Len(text) : text[k] = Blank
         \/ \E a \in 1..Len(text) : \E b \in a..Len(text) :
              /\ Strip(text) = SubSeq(text, a, b)
              /\ text[a] # Blank /\ text[b] # Blank
              /\ \A k \in 1..Len(text) : k < a \/ k > b => text[k] = Blank
<1> DEFINE n == Len(text)
           places == {k \in DOMAIN text : text[k] # Blank}
<1>1. n \in Nat /\ DOMAIN text = 1..n
  OBVIOUS
<1> HIDE DEF n
<1>2. CASE places = {}
  <2>1. Strip(text) = <<>>
    BY <1>2 DEF Strip
  <2>2. \A k \in 1..n : text[k] = Blank
    BY <1>1, <1>2
  <2> QED BY <2>1, <2>2 DEF n
<1>3. CASE places # {}
  <2> DEFINE a == CHOOSE k \in places : \A l \in places : k <= l
             b == CHOOSE k \in places : \A l \in places : l <= k
  <2>1. Strip(text) = SubSeq(text, a, b)
    BY <1>3 DEF Strip
  <2>2. places \subseteq Nat
    BY <1>1
  <2>3. a \in places /\ \A l \in places : a <= l
    <3> HIDE DEF places
    <3>1. \E k \in places : \A l \in places : k <= l
      BY <1>3, <2>2, LeastOf
    <3> QED BY <3>1
  <2>4. b \in places /\ \A l \in places : l <= b
    <3> DEFINE mirror == {n - k : k \in places}
    <3>1. mirror \subseteq Nat /\ mirror # {}
      <4>1. ASSUME NEW k \in places PROVE n - k \in Nat
        BY <1>1
      <4> HIDE DEF places
      <4> QED BY <1>3, <4>1
    <3>2. PICK m \in mirror : \A l \in mirror : m <= l
      <4> HIDE DEF mirror
      <4> QED BY <3>1, LeastOf
    <3>3. PICK k \in places : m = n - k
      BY <3>2
    <3>4. ASSUME NEW l \in places PROVE l <= k
      <4>1. n - l \in mirror /\ l \in Nat /\ k \in Nat
        BY <2>2, <3>3
      <4>2. m <= n - l
        BY <3>2, <4>1
      <4> HIDE DEF mirror, places
      <4> QED BY <1>1, <3>3, <4>1, <4>2
    <3> HIDE DEF places
    <3> QED BY <3>4
  <2> HIDE DEF a, b
  <2>5. a \in 1..n /\ b \in 1..n /\ text[a] # Blank /\ text[b] # Blank /\ a <= b
    BY <1>1, <2>3, <2>4
  <2>6. ASSUME NEW k \in 1..n, k < a \/ k > b PROVE text[k] = Blank
    <3>1. text[k] # Blank => k \in places
      BY <1>1
    <3>2. k \in Int /\ a \in Int /\ b \in Int
      BY <1>1, <2>5
    <3>3. k \in places => a <= k /\ k <= b
      BY <2>3, <2>4
    <3> HIDE DEF places
    <3> QED BY <2>6, <3>1, <3>2, <3>3
  <2>7. b \in a..n
    <3> HIDE DEF places
    <3> QED BY <2>5, <1>1
  <2> QED BY <2>1, <2>5, <2>6, <2>7 DEF n
<1> QED BY <1>2, <1>3

\* Strip takes only blanks.
LEMMA BareStrip ==
  ASSUME NEW text \in Seq(Sign)
  PROVE  Strip(text) \in Seq(Sign) /\ Bare(Strip(text)) = Bare(text)
<1>1. CASE Strip(text) = <<>> /\ \A k \in 1..Len(text) : text[k] = Blank
  <2>1. Bare(text) = <<>>
    BY <1>1, KeptNone DEF Bare
  <2>2. <<>> \in Seq(Sign)
    OBVIOUS
  <2> QED BY <1>1, <2>1, <2>2, BareEmpty
<1>2. ASSUME NEW a \in 1..Len(text), NEW b \in a..Len(text),
             Strip(text) = SubSeq(text, a, b),
             \A k \in 1..Len(text) : k < a \/ k > b => text[k] = Blank
      PROVE  Strip(text) \in Seq(Sign) /\ Bare(Strip(text)) = Bare(text)
  <2> DEFINE n == Len(text)
             x == SubSeq(text, 1, a - 1)
             y == SubSeq(text, a, b)
             z == SubSeq(text, b + 1, n)
             set == Sign \ {Blank}
  <2>1. text = Join(Join(x, y), z)
    BY CutInThree
  <2>2. n \in Nat /\ a \in 1..n /\ b \in a..n /\ a \in Nat /\ b \in Nat
    OBVIOUS
  <2>3. y \in Seq(Sign)
    <3>1. a \in 1..n + 1 /\ b \in 0..n /\ a <= b + 1
      BY <2>2
    <3> QED BY <3>1, Sub
  <2>4. x \in Seq(Sign) /\ \A k \in 1..Len(x) : x[k] \notin set
    <3>1. 1 \in 1..n + 1 /\ a - 1 \in 0..n /\ 1 <= (a - 1) + 1
      BY <2>2
    <3>2. /\ x \in Seq(Sign) /\ Len(x) = (a - 1) - 1 + 1
          /\ \A k \in 1..(a - 1) - 1 + 1 : x[k] = text[1 + k - 1]
      BY <3>1, Sub
    <3> HIDE DEF x, n
    <3>3. ASSUME NEW k \in 1..Len(x) PROVE x[k] \notin set
      <4>1. k \in 1..(a - 1) - 1 + 1 /\ 1 + k - 1 = k /\ k \in 1..n /\ k < a
        BY <2>2, <3>2
      <4>2. text[k] = Blank
        BY <1>2, <4>1 DEF n
      <4> QED BY <3>2, <4>1, <4>2
    <3> QED BY <3>2, <3>3
  <2>5. z \in Seq(Sign) /\ \A k \in 1..Len(z) : z[k] \notin set
    <3>1. b + 1 \in 1..n + 1 /\ n \in 0..n /\ b + 1 <= n + 1
      BY <2>2
    <3>2. /\ z \in Seq(Sign) /\ Len(z) = n - (b + 1) + 1
          /\ \A k \in 1..n - (b + 1) + 1 : z[k] = text[b + 1 + k - 1]
      BY <3>1, Sub
    <3> HIDE DEF z, n
    <3>3. ASSUME NEW k \in 1..Len(z) PROVE z[k] \notin set
      <4>1. k \in 1..n - (b + 1) + 1 /\ b + 1 + k - 1 = b + k /\ b + k \in 1..n /\ b + k > b
        BY <2>2, <3>2
      <4>2. text[b + k] = Blank
        BY <1>2, <4>1 DEF n
      <4> QED BY <3>2, <4>1, <4>2
    <3> QED BY <3>2, <3>3
  <2> HIDE DEF x, y, z, set
  <2>6. Kept(x, set) = <<>> /\ Kept(z, set) = <<>> /\ Kept(y, set) \in Seq(Sign)
    BY <2>3, <2>4, <2>5, KeptNone, KeptType
  <2>7. Kept(Join(Join(x, y), z), set) = Join(Join(Kept(x, set), Kept(y, set)), Kept(z, set))
    <3>1. Join(x, y) \in Seq(Sign)
      BY <2>3, <2>4, Joined DEF Joins
    <3>2. Kept(Join(Join(x, y), z), set) = Join(Kept(Join(x, y), set), Kept(z, set))
      <4> DEFINE xy == Join(x, y)
      <4> HIDE DEF xy
      <4>1. xy \in Seq(Sign)
        BY <3>1 DEF xy
      <4>2. Kept(Join(xy, z), set) = Join(Kept(xy, set), Kept(z, set))
        BY <2>5, <4>1, KeptJoined
      <4> QED BY <4>2 DEF xy
    <3>3. Kept(Join(x, y), set) = Join(Kept(x, set), Kept(y, set))
      BY <2>3, <2>4, KeptJoined
    <3> QED BY <3>2, <3>3
  <2>8. Kept(text, set) = Kept(y, set)
    <3>1. Join(Join(<<>>, Kept(y, set)), <<>>) = Kept(y, set)
      <4>1. Join(<<>>, Kept(y, set)) = Kept(y, set) /\ Join(Kept(y, set), <<>>) = Kept(y, set)
        BY <2>6, JoinNone
      <4> QED BY <4>1
    <3> QED BY <2>1, <2>6, <2>7, <3>1
  <2> QED BY <1>2, <2>3, <2>8 DEF Bare, y, set
<1> QED BY <1>1, <1>2, StripEnds

\* A text that begins with a word keeps it.
LEMMA BareHead ==
  ASSUME NEW text \in Seq(Sign), text # <<>>, text[1] # Blank
  PROVE  Bare(text) # <<>> /\ Bare(text)[1] = text[1]
<1> DEFINE Good == {s \in Seq(Sign) : s # <<>> /\ s[1] # Blank =>
                                        Bare(s) # <<>> /\ Bare(s)[1] = s[1]}
<1>1. <<>> \in Good
  OBVIOUS
<1>2. ASSUME NEW s \in Seq(Sign), NEW e \in Sign, s \in Good PROVE Append(s, e) \in Good
  <2>1. Append(s, e) \in Seq(Sign) /\ Bare(s) \in Seq(Sign)
    BY BareType
  <2>2. Bare(Append(s, e)) = IF e = Blank THEN Bare(s) ELSE Append(Bare(s), e)
    BY BareAppend
  <2>3. ASSUME Append(s, e)[1] # Blank
        PROVE  Bare(Append(s, e)) # <<>> /\ Bare(Append(s, e))[1] = Append(s, e)[1]
    <3>1. CASE s = <<>>
      <4>1. Append(s, e) = <<e>> /\ Append(s, e)[1] = e
        BY <3>1
      <4>2. Bare(Append(s, e)) = <<e>>
        BY <2>2, <2>3, <3>1, <4>1, BareEmpty
      <4> QED BY <4>1, <4>2
    <3>2. CASE s # <<>>
      <4>1. Append(s, e)[1] = s[1]
        BY <3>2
      <4>2. Bare(s) # <<>> /\ Bare(s)[1] = s[1]
        BY <1>2, <2>3, <3>2, <4>1
      <4> DEFINE bare == Bare(s)
      <4> HIDE DEF bare
      <4>3. bare \in Seq(Sign) /\ bare # <<>>
        BY <2>1, <4>2 DEF bare
      <4>4. Append(bare, e) # <<>> /\ Append(bare, e)[1] = bare[1]
        BY <4>3
      <4>5. CASE e = Blank
        BY <2>2, <4>1, <4>2, <4>5
      <4>6. CASE e # Blank
        <5>1. Bare(Append(s, e)) = Append(bare, e)
          BY <2>2, <4>6 DEF bare
        <5>2. bare[1] = s[1]
          BY <4>2 DEF bare
        <5> QED BY <4>1, <4>4, <5>1, <5>2
      <4> QED BY <4>5, <4>6
    <3> QED BY <3>1, <3>2
  <2> QED BY <2>1, <2>3
<1>3. Seq(Sign) \subseteq Good
  <2> HIDE DEF Good
  <2> QED BY <1>1, <1>2, AllSequences
<1> QED BY <1>3

\* A text of one word with no blank at its ends is that word.
LEMMA BareOne ==
  ASSUME NEW text \in Seq(Sign), text # <<>>, text[1] # Blank, text[Len(text)] # Blank,
         NEW word, Bare(text) = <<word>>
  PROVE  text = <<word>>
<1>1. PICK s \in Seq(Sign), e \in Sign : text = Append(s, e) /\ Len(text) = Len(s) + 1
  BY Shorter
<1>2. e # Blank
  <2>1. text[Len(text)] = e
    BY <1>1, OneMore
  <2> QED BY <2>1
<1>3. Bare(text) = Append(Bare(s), e) /\ Bare(s) \in Seq(Sign)
  BY <1>1, <1>2, BareAppend, BareType
<1>4. Bare(s) = <<>> /\ e = word
  <2> DEFINE bare == Bare(s)
  <2> HIDE DEF bare
  <2>1. bare \in Seq(Sign) /\ Append(bare, e) = <<word>>
    BY <1>3 DEF bare
  <2>2. Len(Append(bare, e)) = Len(bare) + 1 /\ Append(bare, e)[Len(bare) + 1] = e
    <3>1. bare \in Seq(Sign)
      BY <2>1
    <3> QED BY <3>1, OneMore
  <2>3. Len(bare) = 0
    BY <2>1, <2>2
  <2>4. bare = <<>> /\ e = word
    BY <2>1, <2>2, <2>3
  <2> QED BY <2>4 DEF bare
<1>5. CASE s = <<>>
  BY <1>1, <1>4, <1>5
<1>6. CASE s # <<>>
  <2>1. text[1] = s[1]
    BY <1>1, <1>6
  <2>2. Bare(s) # <<>>
    BY <1>6, <2>1, BareHead
  <2> QED BY <1>4, <2>2
<1> QED BY <1>5, <1>6

\* What Strip leaves of a text, r, has the words w of the text, begins with the first of them,
\* and is a single word if they are.
Stripped(r, w) == /\ r \in Seq(Sign) /\ w \in Seq(Sign) /\ Bare(r) = w
                  /\ r = <<>> <=> w = <<>>
                  /\ r # <<>> => r[1] = w[1] /\ r[1] # Blank
                  /\ \A word \in Sign : r = <<word>> <=> w = <<word>>

\* What Strip leaves agrees with the text in every way that matters.
LEMMA StripIs ==
  ASSUME NEW text \in Seq(Sign)
  PROVE  Stripped(Strip(text), Bare(text))
<1> USE DEF Stripped
<1>1. Strip(text) \in Seq(Sign) /\ Bare(Strip(text)) = Bare(text) /\ Bare(text) \in Seq(Sign)
  BY BareStrip, BareType
<1>2. CASE Strip(text) = <<>>
  <2>1. Bare(text) = <<>>
    BY <1>1, <1>2, BareEmpty
  <2>2. \A word \in Sign : <<>> # <<word>>
    OBVIOUS
  <2> QED BY <1>1, <1>2, <2>1, <2>2
<1>3. ASSUME NEW a \in 1..Len(text), NEW b \in a..Len(text),
             Strip(text) = SubSeq(text, a, b), text[a] # Blank, text[b] # Blank
      PROVE  Stripped(Strip(text), Bare(text))
  <2> DEFINE s == Strip(text)
             w == Bare(text)
  <2>1. /\ s \in Seq(Sign) /\ Len(s) = b - a + 1
        /\ \A k \in 1..b - a + 1 : s[k] = text[a + k - 1]
    <3>1. a \in 1..Len(text) + 1 /\ b \in 0..Len(text) /\ a <= b + 1
      OBVIOUS
    <3>2. /\ SubSeq(text, a, b) \in Seq(Sign) /\ Len(SubSeq(text, a, b)) = b - a + 1
          /\ \A k \in 1..b - a + 1 : SubSeq(text, a, b)[k] = text[a + k - 1]
      BY <3>1, Sub
    <3> QED BY <1>3, <3>2
  <2> HIDE DEF s
  <2>2. b - a + 1 \in Nat /\ b - a + 1 >= 1 /\ a + 1 - 1 = a /\ a + (b - a + 1) - 1 = b
    OBVIOUS
  <2>3. s[1] = text[a] /\ s[Len(s)] = text[b] /\ s # <<>>
    <3>1. 1 \in 1..b - a + 1 /\ b - a + 1 \in 1..b - a + 1
      BY <2>2
    <3>2. s[1] = text[a] /\ s[b - a + 1] = text[b]
      BY <2>1, <2>2, <3>1
    <3>3. s # <<>>
      BY <2>1, <2>2
    <3> QED BY <2>1, <3>2, <3>3
  <2>4. Bare(s) = w /\ w \in Seq(Sign)
    BY <1>1 DEF s, w
  <2>5. w # <<>> /\ w[1] = s[1]
    BY <1>3, <2>1, <2>3, <2>4, BareHead
  <2>6. ASSUME NEW word \in Sign PROVE s = <<word>> <=> w = <<word>>
    <3>1. ASSUME w = <<word>> PROVE s = <<word>>
      BY <1>3, <2>1, <2>3, <2>4, <3>1, BareOne
    <3>2. ASSUME s = <<word>> PROVE w = <<word>>
      <4>1. word # Blank
        BY <1>3, <2>3, <3>2
      <4>2. <<>> \in Seq(Sign) /\ s = Append(<<>>, word)
        BY <3>2
      <4>3. Bare(s) = Append(Bare(<<>>), word)
        BY <4>1, <4>2, BareAppend
      <4> QED BY <2>4, <4>3, BareEmpty, AppendNone
    <3> QED BY <3>1, <3>2
  <2>7. Stripped(s, w)
    <3> HIDE DEF w
    <3> QED BY <1>3, <2>1, <2>3, <2>4, <2>5, <2>6
  <2> QED BY <2>7 DEF s, w
<1> QED BY <1>2, <1>3, StripEnds

\* So a number, a truth value and a name are the same with the blanks and without.
LEMMA SameDouble ==
  ASSUME NEW r, NEW w, Stripped(r, w)
  PROVE  ToDouble(r) = ToDouble(w)
<1>1. CASE r = <<>>
  BY <1>1 DEF Stripped, ToDouble
<1>2. CASE r # <<>>
  <2>1. Head(r) = r[1] /\ Head(w) = w[1] /\ w # <<>> /\ r[1] = w[1]
    BY <1>2 DEF Stripped
  <2> QED BY <1>2, <2>1 DEF ToDouble
<1> QED BY <1>1, <1>2

\* ToLower makes a name of one word only.
LEMMA LowerOne ==
  ASSUME NEW text \in Seq(Sign), NEW name
  PROVE  ToLower(text) = <<name>> <=> \E word \in Sign : text = <<word>> /\ ToLower(<<word>>) = <<name>>
<1>1. ASSUME ToLower(text) = <<name>>
      PROVE  \E word \in Sign : text = <<word>> /\ ToLower(<<word>>) = <<name>>
  <2>1. DOMAIN ToLower(text) = DOMAIN text
    BY DEF ToLower
  <2>2. DOMAIN text = 1..Len(text) /\ Len(text) \in Nat /\ DOMAIN ToLower(text) = 1..1
    BY <1>1
  <2>3. Len(text) = 1
    <3> DEFINE n == Len(text)
    <3> HIDE DEF n
    <3>1. n \in Nat /\ 1..n = 1..1
      BY <2>1, <2>2 DEF n
    <3>2. 1 \in 1..n
      BY <3>1
    <3>3. n \in 1..n
      BY <3>1, <3>2
    <3>4. n \in 1..1
      BY <3>1, <3>3
    <3>5. n = 1
      BY <3>4
    <3> QED BY <3>5 DEF n
  <2>4. text[1] \in Sign /\ text = <<text[1]>>
    BY <2>3
  <2> QED BY <1>1, <2>4
<1> QED BY <1>1

\* It makes a name of a text exactly if it does of the text without blanks.
LEMMA SameLower ==
  ASSUME NEW r, NEW w, Stripped(r, w), NEW name
  PROVE  ToLower(r) = <<name>> <=> ToLower(w) = <<name>>
<1>1. r \in Seq(Sign) /\ w \in Seq(Sign) /\ \A word \in Sign : r = <<word>> <=> w = <<word>>
  BY DEF Stripped
<1>2. /\ ToLower(r) = <<name>> <=> \E word \in Sign : r = <<word>> /\ ToLower(<<word>>) = <<name>>
      /\ ToLower(w) = <<name>> <=> \E word \in Sign : w = <<word>> /\ ToLower(<<word>>) = <<name>>
  BY <1>1, LowerOne
<1>3. (\E word \in Sign : r = <<word>> /\ ToLower(<<word>>) = <<name>>) <=>
      (\E word \in Sign : w = <<word>> /\ ToLower(<<word>>) = <<name>>)
  BY <1>1
<1> QED BY <1>2, <1>3

\* A text can be stripped once more.
LEMMA StripAgain ==
  ASSUME NEW r \in Seq(Sign), NEW w, Bare(r) = w
  PROVE  Stripped(Strip(r), w)
  BY StripIs

-----------------------------------------------------------------------------
(* Fields.  Taking out blanks and splitting go together in either order, and  *)
(* each field stands at a place of the text.                                  *)

\* What the fields F are without their blanks.
BareFields(F, B) == /\ Len(B) = Len(F) /\ Len(F) \in Nat \ {0}
                    /\ \A g \in 1..Len(F) : F[g] \in Seq(Sign) /\ B[g] = Bare(F[g])

\* Splitting and taking out blanks go in either order.
LEMMA BareSplit ==
  ASSUME NEW sep, sep # Blank
  PROVE  \A text \in Seq(Sign) : BareFields(Split(text, sep), Split(Bare(text), sep))
<1> DEFINE Good == {s \in Seq(Sign) : BareFields(Split(s, sep), Split(Bare(s), sep))}
<1>1. <<>> \in Good
  <2>1. Split(<<>>, sep) = <<<<>>>> /\ Bare(<<>>) = <<>>
    BY SplitEmpty, BareEmpty
  <2>2. /\ Len(<<<<>>>>) = 1 /\ <<<<>>>>[1] = <<>> /\ <<>> \in Seq(Sign)
        /\ \A g \in 1..1 : g = 1
    OBVIOUS
  <2> DEFINE one == <<<<>>>>
  <2> HIDE DEF one
  <2>3. Len(one) = 1 /\ one[1] = <<>>
    BY <2>2 DEF one
  <2>4. BareFields(one, one)
    <3>1. ASSUME NEW g \in 1..1 PROVE one[g] \in Seq(Sign) /\ one[g] = Bare(one[g])
      <4>1. one[g] = <<>> /\ Bare(<<>>) = <<>> /\ <<>> \in Seq(Sign)
        BY <2>2, <2>3, BareEmpty
      <4> QED BY <4>1
    <3>2. 1 \in Nat \ {0}
      OBVIOUS
    <3> QED BY <2>3, <3>1, <3>2 DEF BareFields
  <2> QED BY <2>1, <2>2, <2>4 DEF one
<1>2. ASSUME NEW s \in Seq(Sign), NEW e \in Sign, s \in Good PROVE Append(s, e) \in Good
  <2> DEFINE F == Split(s, sep)
             N == Split(Append(s, e), sep)
             B == Split(Bare(s), sep)
             C == Split(Bare(Append(s, e)), sep)
             m == Len(F)
  <2>1. F \in Fields(Sign) /\ N = SplitNext(F, e, sep) /\ BareFields(F, B)
    BY <1>2, SplitType, SplitAppend
  <2>2. m \in Nat \ {0} /\ Grown(F, N, e, sep, m)
    <3> HIDE DEF F, N
    <3> QED BY <2>1, SplitNextIs
  <2>3. Bare(s) \in Seq(Sign) /\ Append(s, e) \in Seq(Sign)
    BY BareType
  <2>4. B \in Fields(Sign)
    BY <2>3, SplitType
  <2>5. m = Len(B) /\ \A g \in 1..m : F[g] \in Seq(Sign) /\ B[g] = Bare(F[g])
    BY <2>1 DEF BareFields
  <2>6. CASE e = Blank
    <3>1. C = B
      BY <2>6, BareAppend
    <3> HIDE DEF F, N, B, C, m
    <3>2. Len(N) = m /\ N[m] = Append(F[m], e) /\ \A g \in 1..m - 1 : N[g] = F[g]
      BY <2>2, <2>6 DEF Grown
    <3>3. ASSUME NEW g \in 1..m PROVE N[g] \in Seq(Sign) /\ B[g] = Bare(N[g])
      <4>1. F[g] \in Seq(Sign) /\ B[g] = Bare(F[g])
        BY <2>5
      <4>2. CASE g = m
        <5>1. Append(F[g], e) \in Seq(Sign) /\ Bare(Append(F[g], e)) = Bare(F[g])
          BY <2>6, <4>1, BareAppend
        <5> QED BY <3>2, <4>1, <4>2, <5>1
      <4>3. CASE g # m
        <5>1. g \in 1..m - 1
          BY <2>2, <4>3
        <5> QED BY <3>2, <4>1, <5>1
      <4> QED BY <4>2, <4>3
    <3>4. BareFields(N, C)
      BY <2>2, <2>5, <3>1, <3>2, <3>3 DEF BareFields
    <3> QED BY <2>3, <3>4 DEF N, C
  <2>7. CASE e # Blank
    <3>1. C = SplitNext(B, e, sep)
      <4>1. Bare(Append(s, e)) = Append(Bare(s), e)
        BY <2>7, BareAppend
      <4> QED BY <2>3, <4>1, SplitAppend
    <3>2. Grown(B, C, e, sep, m)
      <4> HIDE DEF F, N, B, C, m
      <4>1. Grown(B, C, e, sep, Len(B))
        BY <2>4, <3>1, SplitNextIs
      <4> QED BY <2>5, <4>1
    <3> HIDE DEF F, N, B, C, m
    <3>3. CASE e = sep
      <4>1. Len(N) = m + 1 /\ N[m + 1] = <<>> /\ \A g \in 1..m : N[g] = F[g]
        BY <2>2, <3>3 DEF Grown
      <4>2. Len(C) = m + 1 /\ C[m + 1] = <<>> /\ \A g \in 1..m : C[g] = B[g]
        BY <3>2, <3>3 DEF Grown
      <4>3. ASSUME NEW g \in 1..m + 1 PROVE N[g] \in Seq(Sign) /\ C[g] = Bare(N[g])
        <5>1. CASE g = m + 1
          <6>1. <<>> \in Seq(Sign)
            OBVIOUS
          <6> QED BY <4>1, <4>2, <5>1, <6>1, BareEmpty
        <5>2. CASE g # m + 1
          <6>1. g \in 1..m
            BY <2>2, <5>2
          <6> QED BY <2>5, <4>1, <4>2, <6>1
        <5> QED BY <5>1, <5>2
      <4>4. BareFields(N, C)
        <5>1. m + 1 \in Nat \ {0}
          BY <2>2
        <5> QED BY <4>1, <4>2, <4>3, <5>1 DEF BareFields
      <4> QED BY <2>3, <4>4 DEF N, C
    <3>4. CASE e # sep
      <4>1. Len(N) = m /\ N[m] = Append(F[m], e) /\ \A g \in 1..m - 1 : N[g] = F[g]
        BY <2>2, <3>4 DEF Grown
      <4>2. Len(C) = m /\ C[m] = Append(B[m], e) /\ \A g \in 1..m - 1 : C[g] = B[g]
        BY <3>2, <3>4 DEF Grown
      <4>3. ASSUME NEW g \in 1..m PROVE N[g] \in Seq(Sign) /\ C[g] = Bare(N[g])
        <5>0. F[g] \in Seq(Sign) /\ B[g] = Bare(F[g])
          BY <2>5
        <5>1. CASE g = m
          <6>1. Append(F[g], e) \in Seq(Sign) /\ Bare(Append(F[g], e)) = Append(Bare(F[g]), e)
            BY <2>7, <5>0, BareAppend
          <6> QED BY <4>1, <4>2, <5>0, <5>1, <6>1
        <5>2. CASE g # m
          <6>1. g \in 1..m - 1
            BY <2>2, <5>2
          <6> QED BY <4>1, <4>2, <5>0, <6>1
        <5> QED BY <5>1, <5>2
      <4>4. BareFields(N, C)
        BY <2>2, <4>1, <4>2, <4>3 DEF BareFields
      <4> QED BY <2>3, <4>4 DEF N, C
    <3> QED BY <3>3, <3>4
  <2> QED BY <2>6, <2>7
<1>3. Seq(Sign) \subseteq Good
  <2> HIDE DEF Good
  <2> QED BY <1>1, <1>2, AllSequences
<1> QED BY <1>3

\* The m fields S of a text of length n begin at the places s: each ends before a separator,
\* behind which the next one begins, the last one at the end of the text.
Cut(text, n, sep, S, m, s) ==
  /\ m \in Nat \ {0} /\ n \in Nat /\ Len(S) = m /\ s[1] = 1
  /\ \A g \in 1..m : /\ s[g] \in 1..n + 1 /\ Len(S[g]) \in Nat /\ s[g] + Len(S[g]) <= n + 1
                     /\ g > 1 => s[g] > 1 /\ text[s[g] - 1] = sep
                     /\ g < m => s[g + 1] = s[g] + Len(S[g]) + 1
                     /\ g = m => s[g] + Len(S[g]) = n + 1
                     /\ \A h \in 1..m : g < h => s[g] + Len(S[g]) < s[h]
                     /\ \A k \in 1..Len(S[g]) : S[g][k] = text[s[g] + k - 1] /\ S[g][k] # sep
  /\ \A k \in 1..n : text[k] = sep => \E g \in 2..m : s[g] = k + 1

\* Every text is cut by its separators.
LEMMA CutAt ==
  ASSUME NEW X, NEW sep
  PROVE  \A text \in Seq(X) : \E s : Cut(text, Len(text), sep, Split(text, sep), Len(Split(text, sep)), s)
<1> DEFINE Good == {text \in Seq(X) :
                      \E s : Cut(text, Len(text), sep, Split(text, sep), Len(Split(text, sep)), s)}
<1>1. <<>> \in Good
  <2> DEFINE one == <<<<>>>>
             s   == <<1>>
  <2>1. Split(<<>>, sep) = one
    BY SplitEmpty
  <2>2. Cut(<<>>, 0, sep, one, 1, s)
    BY DEF Cut
  <2> HIDE DEF s
  <2>3. Len(<<>>) = 0 /\ Len(one) = 1 /\ <<>> \in Seq(X)
    OBVIOUS
  <2> QED BY <2>1, <2>2, <2>3
<1>2. ASSUME NEW text \in Seq(X), NEW e \in X, text \in Good PROVE Append(text, e) \in Good
  <2> DEFINE S == Split(text, sep)
             m == Len(S)
             n == Len(text)
             more == Append(text, e)
             N == Split(more, sep)
  <2>1. PICK s : Cut(text, n, sep, S, m, s)
    BY <1>2
  <2>2. S \in Fields(X) /\ N = SplitNext(S, e, sep)
    BY SplitType, SplitAppend
  <2>3. m \in Nat \ {0} /\ Grown(S, N, e, sep, m)
    <3> HIDE DEF S, N
    <3> QED BY <2>2, SplitNextIs
  <2>4. /\ n \in Nat /\ more \in Seq(X) /\ Len(more) = n + 1 /\ more[n + 1] = e
        /\ \A k \in 1..n : more[k] = text[k]
    BY OneMore
  <2> HIDE DEF S, m, n, more, N
  <2>5. CASE e = sep
    <3> DEFINE t == [g \in 1..m + 1 |-> IF g = m + 1 THEN n + 2 ELSE s[g]]
    <3>1. Len(N) = m + 1 /\ N[m + 1] = <<>> /\ \A g \in 1..m : N[g] = S[g]
      BY <2>3, <2>5 DEF Grown
    <3>2. t[m + 1] = n + 2 /\ \A g \in 1..m : t[g] = s[g]
      BY <2>3
    <3> HIDE DEF t
    <3>3. t[1] = 1 /\ m + 1 \in Nat \ {0} /\ n + 1 \in Nat
      BY <2>1, <2>3, <3>2 DEF Cut
    <3>4. ASSUME NEW g \in 1..m
          PROVE  /\ t[g] \in 1..n + 2 /\ Len(N[g]) \in Nat /\ t[g] + Len(N[g]) <= n + 2
                 /\ g > 1 => t[g] > 1 /\ more[t[g] - 1] = sep
                 /\ g < m + 1 => t[g + 1] = t[g] + Len(N[g]) + 1
                 /\ \A h \in 1..m + 1 : g < h => t[g] + Len(N[g]) < t[h]
                 /\ \A k \in 1..Len(N[g]) : N[g][k] = more[t[g] + k - 1] /\ N[g][k] # sep
      <4>1. /\ s[g] \in 1..n + 1 /\ Len(S[g]) \in Nat /\ s[g] + Len(S[g]) <= n + 1
            /\ g > 1 => s[g] > 1 /\ text[s[g] - 1] = sep
            /\ g < m => s[g + 1] = s[g] + Len(S[g]) + 1
            /\ g = m => s[g] + Len(S[g]) = n + 1
            /\ \A h \in 1..m : g < h => s[g] + Len(S[g]) < s[h]
            /\ \A k \in 1..Len(S[g]) : S[g][k] = text[s[g] + k - 1] /\ S[g][k] # sep
        BY <2>1 DEF Cut
      <4>2. t[g] = s[g] /\ N[g] = S[g]
        BY <3>1, <3>2
      <4>3. g > 1 => more[t[g] - 1] = sep
        <5>1. g > 1 => s[g] - 1 \in 1..n
          BY <2>4, <4>1
        <5> QED BY <2>4, <4>1, <4>2, <5>1
      <4>4. t[g + 1] = t[g] + Len(N[g]) + 1
        <5>1. CASE g = m
          BY <2>4, <3>2, <4>1, <4>2, <5>1
        <5>2. CASE g # m
          <6>1. g + 1 \in 1..m /\ g < m
            BY <2>3, <5>2
          <6> QED BY <3>2, <4>1, <4>2, <6>1
        <5> QED BY <5>1, <5>2
      <4>5. ASSUME NEW h \in 1..m + 1, g < h PROVE t[g] + Len(N[g]) < t[h]
        <5>1. CASE h = m + 1
          BY <2>4, <3>2, <4>1, <4>2, <5>1
        <5>2. CASE h # m + 1
          <6>1. h \in 1..m
            BY <2>3, <5>2
          <6> QED BY <3>2, <4>1, <4>2, <4>5, <6>1
        <5> QED BY <5>1, <5>2
      <4>6. ASSUME NEW k \in 1..Len(N[g]) PROVE N[g][k] = more[t[g] + k - 1] /\ N[g][k] # sep
        <5>1. k \in 1..Len(S[g])
          BY <4>2
        <5>2. s[g] + k - 1 \in 1..n
          <6> DEFINE p == s[g]
                     q == Len(S[g])
          <6>1. p \in 1..n + 1 /\ q \in Nat /\ p + q <= n + 1 /\ k \in 1..q /\ n \in Nat
            BY <2>4, <4>1, <5>1
          <6> HIDE DEF p, q
          <6>2. p + k - 1 \in 1..n
            BY <6>1
          <6> QED BY <6>2 DEF p
        <5>3. S[g][k] = text[s[g] + k - 1] /\ S[g][k] # sep
          BY <4>1, <5>1
        <5> QED BY <2>4, <4>2, <5>2, <5>3
      <4>7. t[g] \in 1..n + 2 /\ Len(N[g]) \in Nat /\ t[g] + Len(N[g]) <= n + 2
        BY <2>4, <4>1, <4>2
      <4> QED BY <4>1, <4>2, <4>3, <4>4, <4>5, <4>6, <4>7
    <3>5. /\ t[m + 1] \in 1..n + 2 /\ Len(N[m + 1]) = 0 /\ t[m + 1] + 0 = n + 2
          /\ t[m + 1] > 1 /\ more[t[m + 1] - 1] = sep
      <4>1. Len(<<>>) = 0 /\ n + 2 \in 1..n + 2 /\ (n + 2) - 1 = n + 1 /\ n + 2 > 1
        BY <2>4
      <4> QED BY <2>4, <2>5, <3>1, <3>2, <4>1
    <3>6. ASSUME NEW k \in 1..n + 1, more[k] = sep PROVE \E g \in 2..m + 1 : t[g] = k + 1
      <4>1. CASE k = n + 1
        <5>1. m + 1 \in 2..m + 1 /\ k + 1 = n + 2
          BY <2>3, <2>4, <4>1
        <5> QED BY <3>2, <5>1
      <4>2. CASE k # n + 1
        <5>1. k \in 1..n
          BY <2>4, <4>2
        <5>2. text[k] = sep
          BY <2>4, <3>6, <5>1
        <5>3. PICK g \in 2..m : s[g] = k + 1
          BY <2>1, <5>1, <5>2 DEF Cut
        <5>4. g \in 2..m + 1 /\ g \in 1..m
          BY <2>3
        <5> QED BY <3>2, <5>3, <5>4
      <4> QED BY <4>1, <4>2
    <3>7. Cut(more, n + 1, sep, N, m + 1, t)
      <4>1. (n + 1) + 1 = n + 2
        BY <2>4
      <4>2. ASSUME NEW g \in 1..m + 1
            PROVE  /\ t[g] \in 1..n + 2 /\ Len(N[g]) \in Nat /\ t[g] + Len(N[g]) <= n + 2
                   /\ g > 1 => t[g] > 1 /\ more[t[g] - 1] = sep
                   /\ g < m + 1 => t[g + 1] = t[g] + Len(N[g]) + 1
                   /\ g = m + 1 => t[g] + Len(N[g]) = n + 2
                   /\ \A h \in 1..m + 1 : g < h => t[g] + Len(N[g]) < t[h]
                   /\ \A k \in 1..Len(N[g]) : N[g][k] = more[t[g] + k - 1] /\ N[g][k] # sep
        <5>1. CASE g = m + 1
          <6>1. \A h \in 1..m + 1 : ~(g < h)
            BY <2>3, <5>1
          <6>2. \A k : k \notin 1..0
            OBVIOUS
          <6>3. t[g] \in Int /\ t[g] + 0 = n + 2 /\ 0 \in Nat /\ n + 2 <= n + 2
            BY <2>4, <3>5, <5>1
          <6> QED BY <2>3, <3>5, <5>1, <6>1, <6>2, <6>3
        <5>2. CASE g # m + 1
          <6>1. g \in 1..m
            BY <2>3, <5>2
          <6> QED BY <3>4, <5>2, <6>1
        <5> QED BY <5>1, <5>2
      <4> QED BY <3>1, <3>3, <3>6, <4>1, <4>2 DEF Cut
    <3> QED BY <2>4, <3>1, <3>7 DEF more, N
  <2>6. CASE e # sep
    <3>1. Len(N) = m /\ N[m] = Append(S[m], e) /\ \A g \in 1..m - 1 : N[g] = S[g]
      BY <2>3, <2>6 DEF Grown
    <3>2. S[m] \in Seq(X)
      <4>1. S \in Seq(Seq(X)) /\ m \in 1..Len(S)
        BY <2>2, <2>3 DEF Fields, m
      <4> QED BY <4>1
    <3>3. /\ Len(N[m]) = Len(S[m]) + 1 /\ N[m][Len(S[m]) + 1] = e
          /\ \A k \in 1..Len(S[m]) : N[m][k] = S[m][k]
      BY <3>1, <3>2, OneMore
    <3>4. ASSUME NEW g \in 1..m
          PROVE  /\ s[g] \in 1..n + 2 /\ Len(N[g]) \in Nat /\ s[g] + Len(N[g]) <= n + 2
                 /\ g > 1 => s[g] > 1 /\ more[s[g] - 1] = sep
                 /\ g < m => s[g + 1] = s[g] + Len(N[g]) + 1
                 /\ g = m => s[g] + Len(N[g]) = n + 2
                 /\ \A h \in 1..m : g < h => s[g] + Len(N[g]) < s[h]
                 /\ \A k \in 1..Len(N[g]) : N[g][k] = more[s[g] + k - 1] /\ N[g][k] # sep
      <4>1. /\ s[g] \in 1..n + 1 /\ Len(S[g]) \in Nat /\ s[g] + Len(S[g]) <= n + 1
            /\ g > 1 => s[g] > 1 /\ text[s[g] - 1] = sep
            /\ g < m => s[g + 1] = s[g] + Len(S[g]) + 1
            /\ g = m => s[g] + Len(S[g]) = n + 1
            /\ \A h \in 1..m : g < h => s[g] + Len(S[g]) < s[h]
            /\ \A k \in 1..Len(S[g]) : S[g][k] = text[s[g] + k - 1] /\ S[g][k] # sep
        BY <2>1 DEF Cut
      <4>2. g > 1 => more[s[g] - 1] = sep
        <5>1. g > 1 => s[g] - 1 \in 1..n
          BY <2>4, <4>1
        <5> QED BY <2>4, <4>1, <5>1
      <4>3. ASSUME NEW k \in 1..Len(S[g])
            PROVE  S[g][k] = more[s[g] + k - 1] /\ S[g][k] # sep
        <5>1. s[g] + k - 1 \in 1..n
          BY <2>4, <4>1
        <5>2. S[g][k] = text[s[g] + k - 1] /\ S[g][k] # sep
          BY <4>1
        <5> QED BY <2>4, <5>1, <5>2
      <4>4. CASE g = m
        <5>1. /\ Len(N[g]) = Len(S[g]) + 1 /\ N[g][Len(S[g]) + 1] = e
              /\ \A k \in 1..Len(S[g]) : N[g][k] = S[g][k]
          BY <3>3, <4>4
        <5>2. \A h \in 1..m : ~(g < h)
          BY <2>3, <4>4
        <5>3. ASSUME NEW k \in 1..Len(S[g]) + 1
              PROVE  N[g][k] = more[s[g] + k - 1] /\ N[g][k] # sep
          <6>1. CASE k = Len(S[g]) + 1
            <7>1. s[g] + k - 1 = n + 1
              BY <2>4, <4>1, <4>4, <6>1
            <7> QED BY <2>4, <2>6, <5>1, <6>1, <7>1
          <6>2. CASE k # Len(S[g]) + 1
            <7>1. k \in 1..Len(S[g])
              BY <4>1, <6>2
            <7> QED BY <4>3, <5>1, <7>1
          <6> QED BY <6>1, <6>2
        <5>4. /\ s[g] \in 1..n + 2 /\ Len(N[g]) \in Nat /\ s[g] + Len(N[g]) = n + 2
              /\ s[g] + Len(N[g]) <= n + 2
          <6> DEFINE l == Len(S[g])
          <6> HIDE DEF l
          <6>1. /\ s[g] \in 1..n + 1 /\ l \in Nat /\ s[g] + l = n + 1 /\ Len(N[g]) = l + 1
            BY <4>1, <4>4, <5>1 DEF l
          <6>2. s[g] + (l + 1) = n + 2 /\ s[g] \in 1..n + 2 /\ l + 1 \in Nat /\ n + 2 <= n + 2
            <7> DEFINE p == s[g]
            <7> HIDE DEF p
            <7>1. p \in 1..n + 1 /\ l \in Nat /\ p + l = n + 1 /\ n \in Nat
              BY <2>4, <6>1 DEF p
            <7>2. p \in Int /\ p <= n + 1 /\ 1 <= p
              BY <7>1
            <7>3. p + (l + 1) = n + 2 /\ p \in 1..n + 2 /\ l + 1 \in Nat /\ n + 2 <= n + 2
              BY <7>1, <7>2
            <7> QED BY <7>3 DEF p
          <6> QED BY <6>1, <6>2
        <5> QED BY <2>3, <4>1, <4>2, <4>4, <5>1, <5>2, <5>3, <5>4
      <4>5. CASE g # m
        <5>1. g \in 1..m - 1
          BY <2>3, <4>5
        <5>2. N[g] = S[g]
          BY <3>1, <5>1
        <5>3. s[g] \in 1..n + 2 /\ s[g] + Len(N[g]) <= n + 2
          BY <2>4, <4>1, <5>2
        <5> QED BY <4>1, <4>2, <4>3, <4>5, <5>2, <5>3
      <4> QED BY <4>4, <4>5
    <3>5. ASSUME NEW k \in 1..n + 1, more[k] = sep PROVE \E g \in 2..m : s[g] = k + 1
      <4>1. k \in 1..n
        BY <2>4, <2>6, <3>5
      <4>2. text[k] = sep
        BY <2>4, <3>5, <4>1
      <4> QED BY <2>1, <4>1, <4>2 DEF Cut
    <3>6. Cut(more, n + 1, sep, N, m, s)
      <4>1. (n + 1) + 1 = n + 2 /\ n + 1 \in Nat
        BY <2>4
      <4>2. s[1] = 1
        BY <2>1 DEF Cut
      <4> QED BY <2>3, <3>1, <3>4, <3>5, <4>1, <4>2 DEF Cut
    <3> QED BY <2>4, <3>1, <3>6 DEF more, N
  <2> QED BY <2>5, <2>6
<1>3. Seq(X) \subseteq Good
  <2> HIDE DEF Good
  <2> QED BY <1>1, <1>2, AllSequences
<1> QED BY <1>3

-----------------------------------------------------------------------------
(* Lines.  What the buffer takes from a line is what the line says.           *)

\* The separators differ.
LEMMA SignsApart == /\ Blank # "=" /\ Blank # Bar /\ Blank # Comma /\ Blank # "#"
                    /\ Bar # Comma /\ "#" # "="
  BY Zenon DEF Blank, Bar, Comma

\* Min and Max, of sets that have one.
LEMMA MinIs ==
  ASSUME NEW S, NEW e \in S, S \subseteq Int, \A l \in S : e <= l
  PROVE  Min(S) = e
<1>1. Min(S) \in S /\ \A l \in S : Min(S) <= l
  <2>1. \E x \in S : \A l \in S : x <= l
    OBVIOUS
  <2> QED BY <2>1 DEF Min
<1>2. Min(S) <= e /\ e <= Min(S) /\ Min(S) \in Int /\ e \in Int
  BY <1>1
<1> QED BY <1>2

LEMMA MaxIs ==
  ASSUME NEW S, NEW e \in S, S \subseteq Int, \A l \in S : l <= e
  PROVE  Max(S) = e
<1>1. Max(S) \in S /\ \A l \in S : l <= Max(S)
  <2>1. \E x \in S : \A l \in S : l <= x
    OBVIOUS
  <2> QED BY <2>1 DEF Max
<1>2. Max(S) <= e /\ e <= Max(S) /\ Max(S) \in Int /\ e \in Int
  BY <1>1
<1> QED BY <1>2

\* The lower case of one word.
LEMMA LowerWord ==
  ASSUME NEW word, NEW name
  PROVE  ToLower(<<word>>) = <<name>> <=>
           name = IF word \in DOMAIN Lower THEN Lower[word] ELSE word
<1>1. ToLower(<<word>>) = <<IF word \in DOMAIN Lower THEN Lower[word] ELSE word>>
  BY DEF ToLower
<1> QED BY <1>1

\* A name that a file may give a value to.
IsName(name) == name # "=" /\ name # "#"

\* Neither separator is a name.
LEMMA NoName ==
  ASSUME NEW name, IsName(name)
  PROVE  ToLower(<<"=">>) # <<name>> /\ ToLower(<<"#">>) # <<name>>
<1>1. "=" \notin DOMAIN Lower /\ "#" \notin DOMAIN Lower
  BY ParamAssumption
<1> QED BY <1>1, LowerWord DEF IsName

\* What words without blanks say of a name.
SaidIn(words, name) ==
  IF Len(words) >= 3 /\ ToLower(<<words[1]>>) = <<name>> /\ words[2] = "="
  THEN SubSeq(words, 3, Min({k \in 3..Len(words) : words[k] = "="} \cup {Len(words) + 1}) - 1)
  ELSE <<>>

\* What a line says depends on its words alone.
LEMMA SaidIs == ASSUME NEW line \in Seq(Sign), NEW name PROVE Said(line, name) = SaidIn(Bare(line), name)
  BY BareIs DEF Said, SaidIn

\* It is the second field, if the first one is the name.
LEMMA SaidField ==
  ASSUME NEW words \in Seq(Sign), NEW name, IsName(name)
  PROVE  LET I == Split(words, "=")
         IN SaidIn(words, name) = IF Len(I) >= 2 /\ ToLower(I[1]) = <<name>> THEN I[2] ELSE <<>>
<1> DEFINE I == Split(words, "=")
           m == Len(I)
           n == Len(words)
<1>1. PICK s : Cut(words, n, "=", I, m, s)
  BY CutAt
<1>2. n \in Nat /\ \A k \in 1..n : words[k] \in Sign
  OBVIOUS
<1>3. I \in Seq(Seq(Sign))
  BY SplitType DEF Fields
<1> DEFINE A == I[1]
           B == I[2]
<1>4. m \in Nat \ {0} /\ A \in Seq(Sign) /\ (m >= 2 => B \in Seq(Sign))
  BY <1>1, <1>3 DEF Cut
<1> HIDE DEF I, m, n, A, B
<1>5. /\ s[1] = 1 /\ Len(A) \in Nat /\ \A k \in 1..Len(A) : A[k] = words[1 + k - 1] /\ A[k] # "="
      /\ m >= 2 => s[2] = 1 + Len(A) + 1 /\ words[s[2] - 1] = "=" /\ Len(B) \in Nat
  <2>1. 1 \in 1..m /\ s[1] = 1
    BY <1>1, <1>4 DEF Cut
  <2>2. /\ Len(A) \in Nat /\ \A k \in 1..Len(A) : A[k] = words[s[1] + k - 1] /\ A[k] # "="
        /\ 1 < m => s[1 + 1] = s[1] + Len(A) + 1
    BY <1>1, <2>1 DEF Cut, A
  <2>3. m >= 2 => 2 \in 1..m /\ 1 < m /\ 2 > 1 /\ 1 + 1 = 2
    BY <1>4
  <2>4. m >= 2 => words[s[2] - 1] = "=" /\ Len(B) \in Nat
    BY <1>1, <2>3 DEF Cut, B
  <2> QED BY <2>1, <2>2, <2>3, <2>4
\* The value, if the name is one word and stands before the first sign.
<1> DEFINE Value2 == /\ n >= 2 /\ words[2] = "=" /\ A = <<words[1]>> /\ (n < 3 => B = <<>>)
                     /\ B = SubSeq(words, 3, Min({k \in 3..n : words[k] = "="} \cup {n + 1}) - 1)
<1>6. ASSUME m >= 2, Len(A) = 1 PROVE Value2
  <2>1. s[2] = 3 /\ words[2] = "=" /\ B \in Seq(Sign)
    BY <1>4, <1>5, <1>6
  <2>2. A = <<words[1]>>
    <3>1. A[1] = words[1]
      BY <1>5, <1>6
    <3> QED BY <1>4, <1>6, <3>1
  <2> DEFINE l == Len(B)
             ends == {k \in 3..n : words[k] = "="} \cup {n + 1}
  <2>3. /\ 3 + l <= n + 1 /\ l \in Nat
        /\ 2 < m => s[3] = 3 + l + 1 /\ words[s[3] - 1] = "=" /\ s[3] \in 1..n + 1
        /\ 2 = m => 3 + l = n + 1
        /\ \A k \in 1..l : B[k] = words[3 + k - 1] /\ B[k] # "="
    <3>1. 2 \in 1..m /\ 2 + 1 = 3 /\ (2 < m => 3 \in 1..m /\ 3 > 1)
      BY <1>4, <1>6
    <3>2. /\ s[2] + Len(B) <= n + 1 /\ Len(B) \in Nat
          /\ 2 < m => s[2 + 1] = s[2] + Len(B) + 1
          /\ 2 = m => s[2] + Len(B) = n + 1
          /\ \A k \in 1..Len(B) : B[k] = words[s[2] + k - 1] /\ B[k] # "="
      BY <1>1, <3>1 DEF Cut, B
    <3>3. 2 < m => words[s[3] - 1] = "=" /\ s[3] \in 1..n + 1
      BY <1>1, <3>1 DEF Cut
    <3> QED BY <2>1, <3>1, <3>2, <3>3
  <2> HIDE DEF l
  <2>4. 3 + l \in ends
    <3>1. CASE m = 2
      <4>1. 3 + l = n + 1
        BY <2>3, <3>1
      <4> QED BY <4>1
    <3>2. CASE m # 2
      <4>1. 2 < m
        BY <1>4, <1>6, <3>2
      <4>2. s[3] = 3 + l + 1 /\ words[s[3] - 1] = "=" /\ s[3] \in 1..n + 1
        BY <2>3, <4>1
      <4>3. s[3] - 1 = 3 + l /\ 3 + l \in 3..n
        BY <1>2, <2>3, <4>2
      <4>4. words[3 + l] = "="
        BY <4>2, <4>3
      <4> QED BY <4>3, <4>4
    <3> QED BY <3>1, <3>2
  <2>5. ASSUME NEW k \in ends PROVE 3 + l <= k
    <3>1. k \in Nat /\ 3 <= k
      BY <1>2, <2>3
    <3>2. CASE k < 3 + l
      <4>1. k # n + 1
        BY <1>2, <2>3, <3>2
      <4>2. words[k] = "="
        BY <4>1
      <4> DEFINE j == k - 2
      <4>3. j \in 1..l /\ 3 + j - 1 = k
        BY <2>3, <3>1, <3>2
      <4> HIDE DEF j
      <4>4. B[j] = words[3 + j - 1] /\ B[j] # "="
        BY <2>3, <4>3
      <4> QED BY <4>2, <4>3, <4>4
    <3> QED BY <2>3, <3>1, <3>2
  <2>6. ends \subseteq Int
    BY <1>2
  <2>7. Min(ends) = 3 + l
    <3> HIDE DEF ends
    <3> QED BY <2>4, <2>5, <2>6, MinIs
  <2>8. B = SubSeq(words, 3, (3 + l) - 1)
    <3> DEFINE C == SubSeq(words, 3, (3 + l) - 1)
    <3>1. /\ C \in Seq(Sign) /\ Len(C) = ((3 + l) - 1) - 3 + 1
          /\ \A k \in 1..((3 + l) - 1) - 3 + 1 : C[k] = words[3 + k - 1]
      <4>1. 3 \in 1..n + 1 /\ (3 + l) - 1 \in 0..n /\ 3 <= ((3 + l) - 1) + 1
        BY <1>2, <2>3
      <4> HIDE DEF C
      <4> QED BY <4>1, Sub DEF C, n
    <3> HIDE DEF C
    <3>2. ((3 + l) - 1) - 3 + 1 = l
      BY <2>3
    <3>3. Len(C) = Len(B) /\ \A k \in 1..Len(B) : B[k] = C[k]
      BY <2>3, <3>1, <3>2 DEF l
    <3>4. B = C
      BY <2>1, <3>1, <3>3, SeqEqual
    <3> QED BY <3>4 DEF C
  <2>9. n < 3 => B = <<>>
    <3>1. n < 3 => l = 0
      BY <1>2, <2>3
    <3> QED BY <2>1, <3>1 DEF l
  <2>10. n >= 2
    BY <1>2, <2>3
  <2> QED BY <2>1, <2>2, <2>7, <2>8, <2>9, <2>10
<1> HIDE DEF Value2
<1>7. CASE m >= 2 /\ ToLower(A) = <<name>>
  <2>1. PICK word \in Sign : A = <<word>> /\ ToLower(<<word>>) = <<name>>
    BY <1>4, <1>7, LowerOne
  <2>2. Len(A) = 1
    BY <2>1
  <2>3. /\ n >= 2 /\ words[2] = "=" /\ A = <<words[1]>> /\ (n < 3 => B = <<>>)
        /\ B = SubSeq(words, 3, Min({k \in 3..n : words[k] = "="} \cup {n + 1}) - 1)
    <3>1. Value2
      BY <1>6, <1>7, <2>2
    <3> QED BY <3>1 DEF Value2
  <2>4. SaidIn(words, name) = B
    <3>1. CASE n >= 3
      BY <1>7, <2>3, <3>1 DEF SaidIn, n
    <3>2. CASE ~(n >= 3)
      <4>1. B = <<>>
        BY <1>2, <2>3, <3>2
      <4> QED BY <3>2, <4>1 DEF SaidIn, n
    <3> QED BY <3>1, <3>2
  <2> QED BY <1>7, <2>4 DEF I, m, A, B
<1>8. CASE ~(m >= 2 /\ ToLower(A) = <<name>>)
  <2>1. ASSUME n >= 3, ToLower(<<words[1]>>) = <<name>>, words[2] = "=" PROVE FALSE
    <3>1. words[1] # "="
      BY <2>1, NoName
    <3>2. PICK g \in 2..m : s[g] = 2 + 1
      <4>1. 2 \in 1..n
        BY <1>2, <2>1
      <4> QED BY <1>1, <2>1, <4>1 DEF Cut
    <3>3. m >= 2 /\ g \in 1..m
      BY <1>4, <3>2
    <3>4. s[2] = 1 + Len(A) + 1 /\ words[s[2] - 1] = "=" /\ Len(A) \in Nat
      BY <1>5, <3>3
    <3>5. Len(A) # 0
      <4>1. Len(A) = 0 => s[2] - 1 = 1
        BY <3>4
      <4> QED BY <3>1, <3>4, <4>1
    <3>6. s[2] >= 3
      BY <3>4, <3>5
    <3>7. g = 2
      <4>1. CASE g > 2
        <5>1. s[2] + Len(B) < s[g] /\ Len(B) \in Nat
          <6>1. 2 \in 1..m /\ 2 < g
            BY <3>3, <4>1, <1>4
          <6> QED BY <1>1, <3>3, <6>1 DEF Cut, B
        <5>2. s[2] \in Int
          BY <3>4
        <5> QED BY <3>2, <3>6, <5>1, <5>2
      <4> QED BY <3>2, <1>4, <4>1
    <3>8. Len(A) = 1
      <4> DEFINE l == Len(A)
      <4> HIDE DEF l
      <4>1. s[2] = 3 /\ s[2] = 1 + l + 1 /\ l \in Nat
        BY <3>2, <3>4, <3>7 DEF l
      <4>2. 3 = 1 + l + 1 /\ l \in Nat
        BY <4>1
      <4>3. l = 1
        BY <4>2
      <4> QED BY <4>3 DEF l
    <3>9. A = <<words[1]>>
      <4>1. Value2
        BY <1>6, <3>3, <3>8
      <4> QED BY <4>1 DEF Value2
    <3> QED BY <1>8, <2>1, <3>3, <3>9
  <2>2. SaidIn(words, name) = <<>>
    BY <2>1 DEF SaidIn, n
  <2> QED BY <1>8, <2>2 DEF I, m, A
<1> QED BY <1>7, <1>8

\* What a line puts into the buffer.
Taken(line) == IF IsComment(line) THEN <<>> ELSE Entry(line)

\* A buffer has what the words w say of a name.
Holds(map, name, w) == /\ <<name>> \in DOMAIN map <=> w # <<>>
                       /\ w # <<>> => Stripped(map[<<name>>], w)

\* What the buffer takes from a line is what Said reads in it.
LEMMA LineHolds ==
  ASSUME NEW line \in Seq(Sign), NEW name, IsName(name)
  PROVE  Holds(Taken(line), name, Said(line, name))
<1> DEFINE text  == Strip(line)
           words == Bare(line)
           F     == Split(text, "=")
           B     == Split(words, "=")
           m     == Len(F)
<1>1. text \in Seq(Sign) /\ words \in Seq(Sign) /\ Bare(text) = words /\ Stripped(text, words)
  BY BareStrip, BareType, StripIs
<1>2. Said(line, name) = SaidIn(words, name)
  BY SaidIs
<1>3. DOMAIN <<>> = {}
  OBVIOUS
<1> HIDE DEF text, words
<1>4. CASE IsComment(line)
  <2>1. text # <<>> /\ text[1] = "#"
    <3>1. text # <<>> /\ Head(text) = "#"
      BY <1>4 DEF IsComment, text
    <3> QED BY <1>1, <3>1
  <2>2. words[1] = "#"
    BY <1>1, <2>1 DEF Stripped
  <2>3. SaidIn(words, name) = <<>>
    BY <2>2, NoName DEF SaidIn
  <2>4. Taken(line) = <<>>
    BY <1>4 DEF Taken
  <2>5. <<name>> \notin DOMAIN <<>>
    BY <1>3
  <2> QED BY <1>2, <2>3, <2>4, <2>5 DEF Holds
<1>5. CASE ~IsComment(line)
  <2> DEFINE A     == B[1]
             V     == B[2]
             key   == ToLower(Strip(F[1]))
             value == Strip(F[2])
  <2>1. BareFields(F, B)
    BY <1>1, BareSplit, SignsApart
  <2>2. /\ m \in Nat \ {0} /\ Len(B) = m
        /\ Stripped(Strip(F[1]), A)
        /\ m >= 2 => Stripped(value, V)
    <3>1. m \in Nat \ {0} /\ Len(B) = m /\ \A g \in 1..m : F[g] \in Seq(Sign) /\ B[g] = Bare(F[g])
      BY <2>1 DEF BareFields
    <3>2. 1 \in 1..m /\ (m >= 2 => 2 \in 1..m)
      BY <3>1
    <3>3. F[1] \in Seq(Sign) /\ A = Bare(F[1]) /\ (m >= 2 => F[2] \in Seq(Sign) /\ V = Bare(F[2]))
      BY <3>1, <3>2
    <3>4. m >= 2 => Stripped(Strip(F[2]), Bare(F[2]))
      BY <3>3, StripIs
    <3> QED BY <3>1, <3>3, <3>4, StripIs
  <2>3. SaidIn(words, name) = IF m >= 2 /\ ToLower(A) = <<name>> THEN V ELSE <<>>
    BY <1>1, <2>2, SaidField
  <2>4. Taken(line) = IF m >= 2 /\ key # <<>> /\ value # <<>> THEN [k \in {key} |-> value] ELSE <<>>
    BY <1>5 DEF Taken, Entry, text
  <2> HIDE DEF F, B, m, A, V
  <2>5. key = <<name>> <=> ToLower(A) = <<name>>
    BY <2>2, SameLower
  <2>6. m >= 2 => (value = <<>> <=> V = <<>>)
    BY <2>2 DEF Stripped
  <2>7. <<name>> # <<>>
    OBVIOUS
  <2> HIDE DEF key, value
  <2>8. CASE m >= 2 /\ key = <<name>> /\ value # <<>>
    <3>1. SaidIn(words, name) = V /\ V # <<>> /\ Stripped(value, V)
      BY <2>2, <2>3, <2>5, <2>6, <2>8
    <3>2. Taken(line) = [k \in {key} |-> value]
      BY <2>4, <2>7, <2>8
    <3>3. DOMAIN Taken(line) = {key} /\ Taken(line)[key] = value
      BY <3>2
    <3>4. <<name>> \in DOMAIN Taken(line) /\ Taken(line)[<<name>>] = value
      BY <2>8, <3>3
    <3> QED BY <1>2, <3>1, <3>4 DEF Holds
  <2>9. CASE ~(m >= 2 /\ key = <<name>> /\ value # <<>>)
    <3>1. SaidIn(words, name) = <<>>
      BY <2>3, <2>5, <2>6, <2>9
    <3>2. <<name>> \notin DOMAIN Taken(line)
      <4>1. CASE m >= 2 /\ key # <<>> /\ value # <<>>
        <5>1. DOMAIN Taken(line) = {key}
          BY <2>4, <4>1
        <5> QED BY <2>9, <4>1, <5>1
      <4>2. CASE ~(m >= 2 /\ key # <<>> /\ value # <<>>)
        BY <1>3, <2>4, <4>2
      <4> QED BY <4>1, <4>2
    <3> QED BY <1>2, <3>1, <3>2 DEF Holds
  <2> QED BY <2>8, <2>9
<1> QED BY <1>4, <1>5

\* A line puts in nothing that is empty.
Full(map) == \A key \in DOMAIN map : key # <<>> /\ map[key] # <<>>

\* An entry is never empty.
LEMMA LineFull == ASSUME NEW line PROVE Full(Taken(line))
<1> DEFINE F     == Split(Strip(line), "=")
           key   == ToLower(Strip(F[1]))
           value == Strip(F[2])
<1>1. \/ Taken(line) = <<>>
      \/ Taken(line) = [k \in {key} |-> value] /\ key # <<>> /\ value # <<>>
  BY DEF Taken, Entry
<1> HIDE DEF key, value
<1>2. DOMAIN <<>> = {}
  OBVIOUS
<1>3. DOMAIN [k \in {key} |-> value] = {key} /\ [k \in {key} |-> value][key] = value
  OBVIOUS
<1> QED BY <1>1, <1>2, <1>3 DEF Full

\* The first value of a name stays.
LEMMA HoldsMore ==
  ASSUME NEW map, NEW name, NEW w, Holds(map, name, w), NEW next, NEW v, Holds(next, name, v)
  PROVE  Holds(Insert(map, next), name, IF w # <<>> THEN w ELSE v)
<1> DEFINE both == Insert(map, next)
<1>1. /\ DOMAIN both = DOMAIN map \cup DOMAIN next
      /\ \A x \in DOMAIN map : both[x] = map[x]
      /\ \A x \in DOMAIN next : x \notin DOMAIN map => both[x] = next[x]
  BY DEF Insert
<1> HIDE DEF both
<1>2. Holds(both, name, IF w # <<>> THEN w ELSE v)
  <2>1. CASE w # <<>>
    BY <1>1, <2>1 DEF Holds
  <2>2. CASE w = <<>>
    BY <1>1, <2>2 DEF Holds
  <2> QED BY <2>1, <2>2
<1> QED BY <1>2 DEF both

\* Nor is the buffer.
LEMMA FullMore ==
  ASSUME NEW map, Full(map), NEW next, Full(next)
  PROVE  Full(Insert(map, next))
<1> DEFINE both == Insert(map, next)
<1>1. /\ DOMAIN both = DOMAIN map \cup DOMAIN next
      /\ \A x \in DOMAIN map : both[x] = map[x]
      /\ \A x \in DOMAIN next : x \notin DOMAIN map => both[x] = next[x]
  BY DEF Insert
<1> HIDE DEF both
<1>2. Full(both)
  BY <1>1 DEF Full
<1> QED BY <1>2 DEF both

-----------------------------------------------------------------------------
(* Maps.  An item of the text stands between two bars, its fields between     *)
(* commas; blanks make no difference.                                         *)

\* The number at a place is that of the field that begins there.
LEMMA NumberIs ==
  ASSUME NEW w \in Seq(Sign), NEW k \in 1..Len(w) + 1, NEW F \in Seq(Sign),
         F # <<>> => k <= Len(w) /\ F[1] = w[k],
         F = <<>> => k = Len(w) + 1 \/ w[k] \in {Bar, Comma}
  PROVE  NumberAt(w, k) = ToDouble(F)
<1> DEFINE n == Len(w)
           rest == SubSeq(w, k, n)
<1>1. n \in Nat /\ k \in 1..n + 1
  OBVIOUS
<1>2. /\ rest \in Seq(Sign) /\ Len(rest) = n - k + 1
      /\ \A j \in 1..n - k + 1 : rest[j] = w[k + j - 1]
  <2>1. k \in 1..n + 1 /\ n \in 0..n /\ k <= n + 1
    BY <1>1
  <2> QED BY <2>1, Sub
<1>3. NumberAt(w, k) = ToDouble(rest)
  BY DEF NumberAt
<1>4. n = Len(w)
  OBVIOUS
<1> HIDE DEF rest, n
<1>5. k <= n => rest # <<>> /\ Head(rest) = w[k]
  <2> SUFFICES ASSUME k <= n PROVE rest # <<>> /\ Head(rest) = w[k]
    OBVIOUS
  <2>1. 1 \in 1..n - k + 1 /\ k + 1 - 1 = k /\ n - k + 1 # 0
    BY <1>1
  <2>2. rest[1] = w[k] /\ Len(rest) # 0
    BY <1>2, <2>1
  <2> QED BY <1>2, <2>2
<1>6. k = n + 1 => rest = <<>>
  <2>1. k = n + 1 => n - k + 1 = 0
    BY <1>1
  <2> QED BY <1>2, <2>1
<1>7. CASE F # <<>>
  <2>1. k <= n /\ F[1] = w[k] /\ Head(F) = F[1]
    BY <1>4, <1>7
  <2>2. rest # <<>> /\ Head(rest) = Head(F)
    BY <1>5, <2>1
  <2> QED BY <1>3, <1>7, <2>2 DEF ToDouble
<1>8. CASE F = <<>>
  <2>1. ToDouble(F) = 0
    BY <1>8 DEF ToDouble
  <2>2. CASE k = n + 1
    BY <1>3, <1>6, <2>1, <2>2 DEF ToDouble
  <2>3. CASE k # n + 1
    <3>1. k <= n /\ w[k] \in {Bar, Comma}
      BY <1>1, <1>4, <1>8, <2>3
    <3>2. w[k] \notin DOMAIN Numbers
      BY <3>1, ParamAssumption
    <3>3. Head(rest) \notin DOMAIN Numbers
      BY <1>5, <3>1, <3>2
    <3> QED BY <1>3, <2>1, <3>3 DEF ToDouble
  <2> QED BY <2>2, <2>3
<1> QED BY <1>7, <1>8

\* The text q is what stands in w from a up to the next bar.
Between(w, n, a, q, l) ==
  /\ n \in Nat /\ l \in Nat /\ a \in Nat /\ 1 <= a /\ a + l <= n + 1
  /\ \A k \in 1..l : q[k] = w[a + k - 1] /\ q[k] # Bar
  /\ a + l = n + 1 \/ w[a + l] = Bar

\* Its first three fields are read at a, behind b and behind c.
Reads(w, a, b, c, R) == /\ NumberAt(w, a) = ToDouble(R[1])
                        /\ NumberAt(w, b + 1) = ToDouble(R[2])
                        /\ NumberAt(w, c + 1) = ToDouble(R[3])

\* A group of three fields and more is an item that IsItem finds, with its three numbers.
LEMMA ItemIs ==
  ASSUME NEW w \in Seq(Sign), NEW q \in Seq(Sign), NEW a, Between(w, Len(w), a, q, Len(q)),
         Len(Split(q, Comma)) >= 3, a = 1 \/ w[a - 1] = Bar
  PROVE  \E b, c \in a..a + Len(q) - 1 : IsItem(w, a, b, c) /\ Reads(w, a, b, c, Split(q, Comma))
<1> DEFINE n == Len(w)
           l == Len(q)
           R == Split(q, Comma)
           r == Len(R)
           X == R[1]
           Y == R[2]
           Z == R[3]
           x == Len(X)
           y == Len(Y)
           z == Len(Z)
           b == a + x
           c == a + x + 1 + y
<1>1. PICK u : Cut(q, l, Comma, R, r, u)
  BY CutAt
<1>2. R \in Seq(Seq(Sign)) /\ r >= 3
  BY SplitType DEF Fields
<1>3. Between(w, n, a, q, l)
  OBVIOUS
<1>4. r \in Nat /\ 1 \in 1..r /\ 2 \in 1..r /\ 3 \in 1..r
  BY <1>2
<1>5. X \in Seq(Sign) /\ Y \in Seq(Sign) /\ Z \in Seq(Sign)
  BY <1>2, <1>4
<1>6. n = Len(w)
  OBVIOUS
<1> HIDE DEF n, l, R, r, X, Y, Z
<1>7. x \in Nat /\ y \in Nat /\ z \in Nat
  BY <1>5
<1>8. /\ u[1] = 1 /\ u[1 + 1] = u[1] + x + 1
      /\ \A k \in 1..x : X[k] = q[u[1] + k - 1] /\ X[k] # Comma
  <2>1. 1 < r
    BY <1>2, <1>4
  <2> QED BY <1>1, <1>4, <2>1 DEF Cut, X
<1>9. /\ q[u[2] - 1] = Comma /\ u[2 + 1] = u[2] + y + 1
      /\ \A k \in 1..y : Y[k] = q[u[2] + k - 1] /\ Y[k] # Comma
  <2>1. 2 < r /\ 2 > 1
    BY <1>2, <1>4
  <2> QED BY <1>1, <1>4, <2>1 DEF Cut, Y
<1>10. /\ q[u[3] - 1] = Comma /\ u[3] + z <= l + 1
       /\ 3 < r => u[3 + 1] = u[3] + z + 1
       /\ 3 = r => u[3] + z = l + 1
       /\ \A k \in 1..z : Z[k] = q[u[3] + k - 1] /\ Z[k] # Comma
  <2>1. 3 > 1
    OBVIOUS
  <2> QED BY <1>1, <1>4, <2>1 DEF Cut, Z
<1>11. 3 < r => q[u[4] - 1] = Comma /\ u[4] \in 1..l + 1
  <2>1. 3 < r => 4 \in 1..r /\ 4 > 1
    BY <1>4
  <2> QED BY <1>1, <2>1 DEF Cut
<1> HIDE DEF x, y, z
<1>12. u[1] = 1 /\ u[2] = x + 2 /\ u[3] = x + y + 3 /\ (3 < r => u[4] = x + y + z + 4)
  <2>1. u[2] = x + 2
    BY <1>7, <1>8
  <2>2. u[3] = x + y + 3
    BY <1>7, <1>9, <2>1
  <2>3. 3 < r => u[4] = x + y + z + 4
    BY <1>7, <1>10, <2>2
  <2> QED BY <1>8, <2>1, <2>2, <2>3
<1>13. l \in Nat /\ a \in Nat /\ n \in Nat /\ 1 <= a /\ a + l <= n + 1 /\ x + y + 2 + z <= l
  <2>1. l \in Nat /\ a \in Nat /\ n \in Nat /\ 1 <= a /\ a + l <= n + 1
    BY <1>3 DEF Between
  <2> QED BY <1>7, <1>10, <1>12, <2>1
<1>14. \A k \in 1..l : q[k] = w[a + k - 1] /\ q[k] # Bar
  BY <1>3 DEF Between
<1> USE <1>7, <1>13
<1>15. /\ b \in a..a + l - 1 /\ c \in a..a + l - 1 /\ b < c /\ a <= b /\ c \in 1..n
       /\ b + 1 \in 1..n + 1 /\ c + 1 \in 1..n + 1 /\ a \in 1..n + 1
  OBVIOUS
<1>16. w[b] = Comma /\ w[c] = Comma
  <2>1. x + 1 \in 1..l /\ a + (x + 1) - 1 = b /\ (x + 2) - 1 = x + 1
    OBVIOUS
  <2>2. x + y + 2 \in 1..l /\ a + (x + y + 2) - 1 = c /\ (x + y + 3) - 1 = x + y + 2
    OBVIOUS
  <2>3. q[x + 1] = Comma
    BY <1>9, <1>12, <2>1
  <2>4. q[x + y + 2] = Comma
    BY <1>10, <1>12, <2>2
  <2>5. q[x + 1] = w[b]
    BY <1>14, <2>1
  <2>6. q[x + y + 2] = w[c]
    BY <1>14, <2>2
  <2> QED BY <2>3, <2>4, <2>5, <2>6
<1>17. ASSUME NEW k \in a..c, w[k] \in {Bar, Comma} PROVE k \in {b, c}
  <2> DEFINE j == k - a + 1
  <2>1. j \in 1..l /\ a + j - 1 = k /\ k \in Int /\ j \in Int
    OBVIOUS
  <2>2. q[j] = Comma
    BY <1>14, <1>17, <2>1
  <2>3. CASE k < b
    <3>1. j \in 1..x /\ 1 + j - 1 = j
      BY <2>3
    <3>2. X[j] = q[j] /\ X[j] # Comma
      <4>1. X[j] = q[u[1] + j - 1] /\ X[j] # Comma
        BY <1>8, <3>1
      <4> HIDE DEF j
      <4> QED BY <1>12, <3>1, <4>1
    <3> QED BY <2>2, <3>2
  <2>4. CASE b < k /\ k < c
    <3> DEFINE at == k - b
    <3>1. at \in 1..y /\ (x + 2) + at - 1 = j
      BY <2>4
    <3>2. Y[at] = q[j] /\ Y[at] # Comma
      <4>1. Y[at] = q[u[2] + at - 1] /\ Y[at] # Comma
        BY <1>9, <3>1
      <4> HIDE DEF at, j
      <4> QED BY <1>12, <3>1, <4>1
    <3> QED BY <2>2, <3>2
  <2>5. k < b \/ k = b \/ (b < k /\ k < c) \/ k = c
    BY <2>1
  <2> QED BY <2>3, <2>4, <2>5
<1>18. IsItem(w, a, b, c)
  BY <1>15, <1>16, <1>17 DEF IsItem
<1>19. NumberAt(w, a) = ToDouble(X)
  <2>1. X # <<>> => a <= n /\ X[1] = w[a]
    <3> SUFFICES ASSUME X # <<>> PROVE a <= n /\ X[1] = w[a]
      OBVIOUS
    <3>1. x # 0
      BY <1>5 DEF x
    <3>2. 1 \in 1..x /\ 1 + 1 - 1 = 1 /\ 1 \in 1..l /\ a + 1 - 1 = a /\ a <= n
      BY <3>1
    <3>3. X[1] = q[1]
      BY <1>8, <3>2
    <3>4. q[1] = w[a]
      BY <1>14, <3>2
    <3> QED BY <3>2, <3>3, <3>4
  <2>2. X = <<>> => w[a] = Comma
    <3>1. X = <<>> => x = 0
      BY DEF x
    <3>2. x = 0 => b = a
      OBVIOUS
    <3> QED BY <1>16, <3>1, <3>2
  <2>3. a \in 1..Len(w) + 1 /\ (X # <<>> => a <= Len(w) /\ X[1] = w[a])
        /\ (X = <<>> => a = Len(w) + 1 \/ w[a] \in {Bar, Comma})
    BY <1>6, <1>15, <2>1, <2>2
  <2> QED BY <1>5, <2>3, NumberIs
<1>20. NumberAt(w, b + 1) = ToDouble(Y)
  <2>1. Y # <<>> => b + 1 <= n /\ Y[1] = w[b + 1]
    <3> SUFFICES ASSUME Y # <<>> PROVE b + 1 <= n /\ Y[1] = w[b + 1]
      OBVIOUS
    <3>1. y # 0
      BY <1>5 DEF y
    <3>2. 1 \in 1..y /\ (x + 2) + 1 - 1 = x + 2 /\ x + 2 \in 1..l /\ a + (x + 2) - 1 = b + 1 /\ b + 1 <= n
      BY <3>1
    <3>3. Y[1] = q[x + 2]
      <4>1. Y[1] = q[u[2] + 1 - 1]
        BY <1>9, <3>2
      <4> QED BY <1>12, <3>2, <4>1
    <3>4. q[x + 2] = w[b + 1]
      BY <1>14, <3>2
    <3> QED BY <3>2, <3>3, <3>4
  <2>2. Y = <<>> => w[b + 1] = Comma
    <3>1. Y = <<>> => y = 0
      BY DEF y
    <3>2. y = 0 => c = b + 1
      OBVIOUS
    <3> QED BY <1>16, <3>1, <3>2
  <2>3. b + 1 \in 1..Len(w) + 1 /\ (Y # <<>> => b + 1 <= Len(w) /\ Y[1] = w[b + 1])
        /\ (Y = <<>> => b + 1 = Len(w) + 1 \/ w[b + 1] \in {Bar, Comma})
    BY <1>6, <1>15, <2>1, <2>2
  <2> DEFINE p == b + 1
  <2> HIDE DEF p
  <2>4. p \in 1..Len(w) + 1 /\ (Y # <<>> => p <= Len(w) /\ Y[1] = w[p])
        /\ (Y = <<>> => p = Len(w) + 1 \/ w[p] \in {Bar, Comma})
    BY <2>3 DEF p
  <2>5. NumberAt(w, p) = ToDouble(Y)
    BY <1>5, <2>4, NumberIs
  <2> QED BY <2>5 DEF p
<1>21. NumberAt(w, c + 1) = ToDouble(Z)
  <2>1. Z # <<>> => c + 1 <= n /\ Z[1] = w[c + 1]
    <3> SUFFICES ASSUME Z # <<>> PROVE c + 1 <= n /\ Z[1] = w[c + 1]
      OBVIOUS
    <3>1. z # 0
      BY <1>5 DEF z
    <3>2. 1 \in 1..z /\ (x + y + 3) + 1 - 1 = x + y + 3 /\ x + y + 3 \in 1..l
          /\ a + (x + y + 3) - 1 = c + 1 /\ c + 1 <= n
      BY <3>1
    <3>3. Z[1] = q[x + y + 3]
      <4>1. Z[1] = q[u[3] + 1 - 1]
        BY <1>10, <3>2
      <4> QED BY <1>12, <3>2, <4>1
    <3>4. q[x + y + 3] = w[c + 1]
      BY <1>14, <3>2
    <3> QED BY <3>2, <3>3, <3>4
  <2>2. Z = <<>> => c + 1 = n + 1 \/ w[c + 1] \in {Bar, Comma}
    <3> SUFFICES ASSUME Z = <<>> PROVE c + 1 = n + 1 \/ w[c + 1] \in {Bar, Comma}
      OBVIOUS
    <3>1. z = 0
      BY DEF z
    <3>2. CASE r = 3
      <4>1. x + y + 3 + z = l + 1
        BY <1>10, <1>12, <3>2
      <4>2. a + l = c + 1
        BY <3>1, <4>1
      <4>3. a + l = n + 1 \/ w[a + l] = Bar
        BY <1>3 DEF Between
      <4> QED BY <4>2, <4>3
    <3>3. CASE r # 3
      <4>1. 3 < r
        BY <1>2, <1>4, <3>3
      <4>2. q[(x + y + z + 4) - 1] = Comma /\ x + y + z + 4 \in 1..l + 1
        BY <1>11, <1>12, <4>1
      <4>3. (x + y + z + 4) - 1 = x + y + 3 /\ x + y + 3 \in 1..l /\ a + (x + y + 3) - 1 = c + 1
        BY <3>1, <4>2
      <4>4. q[x + y + 3] = w[c + 1]
        BY <1>14, <4>3
      <4> QED BY <4>2, <4>3, <4>4
    <3> QED BY <3>2, <3>3
  <2>3. c + 1 \in 1..Len(w) + 1 /\ (Z # <<>> => c + 1 <= Len(w) /\ Z[1] = w[c + 1])
        /\ (Z = <<>> => c + 1 = Len(w) + 1 \/ w[c + 1] \in {Bar, Comma})
    BY <1>6, <1>15, <2>1, <2>2
  <2> DEFINE p == c + 1
  <2> HIDE DEF p
  <2>4. p \in 1..Len(w) + 1 /\ (Z # <<>> => p <= Len(w) /\ Z[1] = w[p])
        /\ (Z = <<>> => p = Len(w) + 1 \/ w[p] \in {Bar, Comma})
    BY <2>3 DEF p
  <2>5. NumberAt(w, p) = ToDouble(Z)
    BY <1>5, <2>4, NumberIs
  <2> QED BY <2>5 DEF p
<1>22. Reads(w, a, b, c, R)
  BY <1>19, <1>20, <1>21 DEF Reads, X, Y, Z
<1>23. b \in a..a + Len(q) - 1 /\ c \in a..a + Len(q) - 1
  BY <1>15 DEF l
<1> HIDE DEF b, c
<1> QED BY <1>18, <1>22, <1>23 DEF R

\* An item has two commas only if it has three fields.
LEMMA ItemOnly ==
  ASSUME NEW w, NEW q \in Seq(Sign), NEW n, NEW a, Between(w, n, a, q, Len(q)),
         NEW b \in a..a + Len(q) - 1, NEW c \in a..a + Len(q) - 1, b < c,
         w[b] = Comma, w[c] = Comma
  PROVE  Len(Split(q, Comma)) >= 3
<1> DEFINE l == Len(q)
           R == Split(q, Comma)
           r == Len(R)
           j == b - a + 1
           at == c - a + 1
<1>1. PICK u : Cut(q, l, Comma, R, r, u)
  BY CutAt
<1>2. /\ l \in Nat /\ a \in Nat /\ \A k \in 1..l : q[k] = w[a + k - 1]
  BY DEF Between
<1> HIDE DEF l, R, r
<1>3. b \in a..a + l - 1 /\ c \in a..a + l - 1
  BY DEF l
<1>4. j \in 1..l /\ at \in 1..l /\ j < at /\ a + j - 1 = b /\ a + at - 1 = c
  BY <1>2, <1>3
<1> HIDE DEF at, j
<1>5. q[j] = Comma /\ q[at] = Comma
  <2>1. q[j] = w[a + j - 1] /\ q[at] = w[a + at - 1]
    BY <1>2, <1>4
  <2> QED BY <1>4, <2>1
<1>6. PICK g \in 2..r : u[g] = j + 1
  BY <1>1, <1>4, <1>5 DEF Cut
<1>7. PICK h \in 2..r : u[h] = at + 1
  BY <1>1, <1>4, <1>5 DEF Cut
<1>8. g # h
  BY <1>4, <1>6, <1>7
<1>9. r \in Nat
  BY <1>1 DEF Cut
<1>10. r >= 3
  BY <1>8, <1>9
<1> QED BY <1>10 DEF r, R

\* An item has its commas at two places only.
LEMMA ItemOne ==
  ASSUME NEW w, NEW a \in Int, NEW b \in Int, NEW c \in Int, NEW d \in Int, NEW e \in Int,
         IsItem(w, a, b, c), IsItem(w, a, d, e)
  PROVE  b = d /\ c = e
<1>1. /\ a <= b /\ b < c /\ w[b] = Comma /\ w[c] = Comma
      /\ \A k \in a..c : w[k] \in {Bar, Comma} => k \in {b, c}
  BY DEF IsItem
<1>2. /\ a <= d /\ d < e /\ w[d] = Comma /\ w[e] = Comma
      /\ \A k \in a..e : w[k] \in {Bar, Comma} => k \in {d, e}
  BY DEF IsItem
<1>3. CASE c <= e
  <2>1. b \in a..e /\ c \in a..e
    BY <1>1, <1>3
  <2>2. b \in {d, e} /\ c \in {d, e}
    BY <1>1, <1>2, <2>1
  <2> QED BY <1>1, <1>2, <2>2
<1>4. CASE e <= c
  <2>1. d \in a..c /\ e \in a..c
    BY <1>2, <1>4
  <2>2. d \in {b, c} /\ e \in {b, c}
    BY <1>1, <1>2, <2>1
  <2> QED BY <1>1, <1>2, <2>2
<1> QED BY <1>3, <1>4

\* Every group stands between two bars.
LEMMA GroupBetween ==
  ASSUME NEW w, NEW n, NEW Q, NEW m, NEW s, Cut(w, n, Bar, Q, m, s), NEW g \in 1..m
  PROVE  /\ Between(w, n, s[g], Q[g], Len(Q[g]))
         /\ s[g] = 1 \/ w[s[g] - 1] = Bar
<1> DEFINE p == s[g]
           q == Q[g]
           l == Len(q)
<1>1. /\ m \in Nat /\ n \in Nat /\ s[1] = 1 /\ p \in 1..n + 1 /\ l \in Nat /\ p + l <= n + 1
      /\ g > 1 => w[p - 1] = Bar
      /\ g < m => s[g + 1] = p + l + 1
      /\ g = m => p + l = n + 1
      /\ \A k \in 1..l : q[k] = w[p + k - 1] /\ q[k] # Bar
  BY DEF Cut
<1>2. g < m => w[s[g + 1] - 1] = Bar
  <2>1. g < m => g + 1 \in 1..m /\ g + 1 > 1
    BY <1>1
  <2> QED BY <2>1 DEF Cut
<1> HIDE DEF p, q, l
<1>3. p + l = n + 1 \/ w[p + l] = Bar
  <2>1. CASE g < m
    <3>1. s[g + 1] = p + l + 1 /\ (p + l + 1) - 1 = p + l
      BY <1>1, <2>1
    <3> QED BY <1>2, <2>1, <3>1
  <2>2. CASE ~(g < m)
    <3>1. g = m
      BY <1>1, <2>2
    <3> QED BY <1>1, <3>1
  <2> QED BY <2>1, <2>2
<1>4. Between(w, n, p, q, l)
  <2>1. p \in Nat /\ 1 <= p
    BY <1>1
  <2> QED BY <1>1, <1>3, <2>1 DEF Between
<1>5. p = 1 \/ w[p - 1] = Bar
  <2>1. CASE g > 1
    BY <1>1, <2>1
  <2>2. CASE ~(g > 1)
    <3>1. g = 1
      BY <1>1, <2>2
    <3> QED BY <1>1, <3>1 DEF p
  <2> QED BY <2>1, <2>2
<1> QED BY <1>4, <1>5 DEF p, q, l

\* Every item of a text is one of its groups.
LEMMA ItemGroup ==
  ASSUME NEW w, NEW n, NEW Q, NEW m, NEW s, Cut(w, n, Bar, Q, m, s), Bar # Comma,
         NEW a \in 1..n, NEW b \in 1..n, NEW c \in 1..n, IsItem(w, a, b, c)
  PROVE  \E g \in 1..m : /\ s[g] = a
                         /\ b \in a..a + Len(Q[g]) - 1 /\ c \in a..a + Len(Q[g]) - 1
<1>1. /\ m \in Nat \ {0} /\ n \in Nat /\ s[1] = 1
      /\ \A k \in 1..n : w[k] = Bar => \E g \in 2..m : s[g] = k + 1
  BY DEF Cut
<1>2. /\ a = 1 \/ w[a - 1] = Bar
      /\ a <= b /\ b < c /\ w[b] = Comma /\ w[c] = Comma
      /\ \A k \in a..c : w[k] \in {Bar, Comma} => k \in {b, c}
  BY DEF IsItem
<1>3. PICK g \in 1..m : s[g] = a
  <2>1. CASE a = 1
    <3>1. 1 \in 1..m
      BY <1>1
    <3> QED BY <1>1, <2>1, <3>1
  <2>2. CASE a # 1
    <3>1. a - 1 \in 1..n /\ w[a - 1] = Bar /\ (a - 1) + 1 = a
      BY <1>1, <1>2, <2>2
    <3>2. PICK g \in 2..m : s[g] = (a - 1) + 1
      BY <1>1, <3>1
    <3>3. g \in 1..m
      BY <1>1
    <3> QED BY <3>1, <3>2, <3>3
  <2> QED BY <2>1, <2>2
<1> DEFINE l == Len(Q[g])
<1>4. Between(w, n, a, Q[g], l)
  <2>1. Between(w, n, s[g], Q[g], Len(Q[g]))
    BY GroupBetween
  <2> QED BY <1>3, <2>1
<1> HIDE DEF l
<1>5. l \in Nat /\ a + l <= n + 1 /\ (a + l = n + 1 \/ w[a + l] = Bar)
  BY <1>4 DEF Between
<1>6. c < a + l
  <2> SUFFICES ASSUME ~(c < a + l) PROVE FALSE
    OBVIOUS
  <2>1. a + l # n + 1 /\ a + l \in a..c
    BY <1>1, <1>5
  <2>2. w[a + l] = Bar
    BY <1>5, <2>1
  <2>3. a + l \in {b, c}
    BY <1>2, <2>1, <2>2
  <2>4. w[a + l] = Comma
    BY <1>2, <2>3
  <2> QED BY <2>2, <2>4
<1>7. b \in a..a + l - 1 /\ c \in a..a + l - 1
  BY <1>2, <1>5, <1>6
<1> QED BY <1>3, <1>7 DEF l

\* A set of numbers up to m has a greatest one.
LEMMA GreatestOf ==
  ASSUME NEW m \in Nat, NEW S, S \subseteq 0..m, S # {}
  PROVE  \E greatest \in S : \A n \in S : n <= greatest
<1> DEFINE mirror == {m - n : n \in S}
<1>1. mirror \subseteq Nat /\ mirror # {}
  <2>1. ASSUME NEW n \in S PROVE m - n \in Nat
    <3>1. n \in 0..m
      OBVIOUS
    <3> QED BY <3>1
  <2> QED BY <2>1
<1>2. PICK least \in mirror : \A n \in mirror : least <= n
  <2> HIDE DEF mirror
  <2> QED BY <1>1, LeastOf
<1>3. PICK g \in S : least = m - g
  OBVIOUS
<1>4. ASSUME NEW n \in S PROVE n <= g
  <2>1. m - n \in mirror
    OBVIOUS
  <2>2. least <= m - n
    BY <1>2, <2>1
  <2>3. n \in Int /\ g \in Int
    OBVIOUS
  <2> HIDE DEF mirror
  <2> QED BY <1>3, <2>2, <2>3
<1> QED BY <1>4

\* A map has what the text says without blanks.
LEMMA MapIs ==
  ASSUME NEW v, NEW w, Stripped(v, w), NEW p, NEW t
  PROVE  Get(DeserializeMap(v), p, t) = LastItem(w, p, t)
<1> DEFINE G == SplitTwo(v, Bar, Comma)
           P == Split(v, Bar)
           Q == Split(w, Bar)
           m == Len(Q)
           n == Len(w)
           R(g)      == Split(Q[g], Comma)
           good      == {g \in DOMAIN G : Len(G[g]) >= 3}
           Num(g, f) == ToDouble(Strip(G[g][f]))
           Key(g)    == <<Num(g, 1), Num(g, 2)>>
           same      == {g \in good : Key(g) = <<p, t>>}
           ends      == {c \in DOMAIN w :
                           \E a \in DOMAIN w, b \in DOMAIN w :
                             /\ IsItem(w, a, b, c)
                             /\ NumberAt(w, a) = p /\ NumberAt(w, b + 1) = t}
<1>1. v \in Seq(Sign) /\ w \in Seq(Sign) /\ Bare(v) = w
  BY DEF Stripped
<1>2. n \in Nat /\ DOMAIN w = 1..n
  BY <1>1
<1>3. PICK s : Cut(w, n, Bar, Q, m, s)
  BY <1>1, CutAt
<1>4. m \in Nat \ {0}
  BY <1>3 DEF Cut
<1>5. BareFields(P, Q)
  BY <1>1, BareSplit, SignsApart
<1>6. Len(G) = m /\ DOMAIN G = 1..m /\ \A g \in 1..m : G[g] = Split(P[g], Comma)
  <2>1. TwoSplit(G, P, Comma) /\ G \in Seq(Fields(Sign))
    BY <1>1, SplitTwoType
  <2>2. Len(P) = m
    BY <1>5 DEF BareFields
  <2>3. DOMAIN G = 1..Len(G)
    BY <2>1
  <2> QED BY <2>1, <2>2, <2>3 DEF TwoSplit
<1>7. ASSUME NEW g \in 1..m
      PROVE  /\ Q[g] \in Seq(Sign) /\ Len(G[g]) = Len(R(g))
             /\ \A f \in 1..Len(R(g)) : Num(g, f) = ToDouble(R(g)[f])
  <2> DEFINE F == G[g]
             B == R(g)
  <2>1. P[g] \in Seq(Sign) /\ Q[g] = Bare(P[g])
    BY <1>5 DEF BareFields
  <2>2. F = Split(P[g], Comma) /\ B = Split(Bare(P[g]), Comma)
    BY <1>6, <2>1
  <2>3. BareFields(F, B)
    BY <2>1, <2>2, BareSplit, SignsApart
  <2>4. Q[g] \in Seq(Sign)
    BY <2>1, BareType
  <2>5. ASSUME NEW f \in 1..Len(B) PROVE ToDouble(Strip(F[f])) = ToDouble(B[f])
    <3>1. F[f] \in Seq(Sign) /\ B[f] = Bare(F[f])
      BY <2>3 DEF BareFields
    <3>2. Stripped(Strip(F[f]), B[f])
      BY <3>1, StripIs
    <3> QED BY <3>2, SameDouble
  <2>6. Len(F) = Len(B)
    BY <2>3 DEF BareFields
  <2> QED BY <2>4, <2>5, <2>6
<1>8. DeserializeMap(v) = [key \in {Key(g) : g \in good} |->
                             Num(Max({g \in good : Key(g) = key}), 3)]
  BY DEF DeserializeMap
<1>9. LastItem(w, p, t) = IF ends = {} THEN 0 ELSE NumberAt(w, Max(ends) + 1)
  BY DEF LastItem
\* Where an item is, and what is read there.
<1> DEFINE ItemAt(g, b, c) == /\ b \in 1..n /\ c \in 1..n /\ s[g] \in 1..n
                              /\ c < s[g] + Len(Q[g])
                              /\ IsItem(w, s[g], b, c)
                              /\ NumberAt(w, s[g]) = Num(g, 1)
                              /\ NumberAt(w, b + 1) = Num(g, 2)
                              /\ NumberAt(w, c + 1) = Num(g, 3)
<1>10. ASSUME NEW g \in 1..m, Len(R(g)) >= 3 PROVE \E b, c \in 1..n : ItemAt(g, b, c)
  <2> DEFINE a == s[g]
             q == Q[g]
             l == Len(q)
  <2>1. q \in Seq(Sign) /\ \A f \in 1..Len(R(g)) : Num(g, f) = ToDouble(R(g)[f])
    BY <1>7
  <2>2. Between(w, n, a, q, l) /\ (a = 1 \/ w[a - 1] = Bar)
    BY <1>3, GroupBetween
  <2>3. PICK b \in a..a + l - 1, c \in a..a + l - 1 : IsItem(w, a, b, c) /\ Reads(w, a, b, c, R(g))
    BY <1>1, <1>10, <2>1, <2>2, ItemIs
  <2> HIDE DEF a, l
  <2>4. a \in Nat /\ l \in Nat /\ 1 <= a /\ a + l <= n + 1
    BY <2>2 DEF Between
  <2>5. b \in 1..n /\ c \in 1..n /\ a \in 1..n /\ c < a + l
    BY <1>2, <2>3, <2>4
  <2>6. Num(g, 1) = ToDouble(R(g)[1]) /\ Num(g, 2) = ToDouble(R(g)[2]) /\ Num(g, 3) = ToDouble(R(g)[3])
    <3> DEFINE r == Len(R(g))
    <3>1. r \in Nat /\ r >= 3
      <4>1. R(g) \in Fields(Sign)
        BY <2>1, SplitType
      <4>2. R(g) \in Seq(Seq(Sign))
        BY <4>1 DEF Fields
      <4> QED BY <1>10, <4>2
    <3> HIDE DEF r
    <3>2. 1 \in 1..r /\ 2 \in 1..r /\ 3 \in 1..r
      BY <3>1
    <3> HIDE DEF Num, R
    <3> QED BY <2>1, <3>2 DEF r
  <2> HIDE DEF Num, R
  <2>7. ItemAt(g, b, c)
    BY <2>3, <2>5, <2>6 DEF Reads, a, l
  <2> HIDE DEF ItemAt
  <2> QED BY <2>5, <2>7
<1>11. good = {g \in 1..m : Len(R(g)) >= 3}
  BY <1>6, <1>7
<1> HIDE DEF G, P, Q, m, n, R, Num
\* Every place in ends is that of a group with the keys.
<1>12. ASSUME NEW c \in ends PROVE \E g \in same : \E b \in 1..n : ItemAt(g, b, c)
  <2>1. PICK a \in 1..n, b \in 1..n :
          IsItem(w, a, b, c) /\ NumberAt(w, a) = p /\ NumberAt(w, b + 1) = t
    BY <1>2
  <2>2. c \in 1..n
    BY <1>2
  <2>3. PICK g \in 1..m : s[g] = a /\ b \in a..a + Len(Q[g]) - 1 /\ c \in a..a + Len(Q[g]) - 1
    BY <1>3, <2>1, <2>2, ItemGroup, SignsApart
  <2>4. b < c /\ w[b] = Comma /\ w[c] = Comma
    BY <2>1 DEF IsItem
  <2>5. Between(w, n, a, Q[g], Len(Q[g])) /\ Q[g] \in Seq(Sign)
    BY <1>3, <1>7, <2>3, GroupBetween
  <2>6. Len(Split(Q[g], Comma)) >= 3
    BY <2>3, <2>4, <2>5, ItemOnly
  <2>7. Len(R(g)) >= 3
    BY <2>6 DEF R
  <2>8. PICK d \in 1..n, e \in 1..n : ItemAt(g, d, e)
    BY <1>10, <2>7
  <2>9. d = b /\ e = c
    <3>1. IsItem(w, a, d, e)
      BY <2>3, <2>8
    <3>2. a \in Int /\ b \in Int /\ c \in Int /\ d \in Int /\ e \in Int
      BY <2>2
    <3> QED BY <2>1, <3>1, <3>2, ItemOne
  <2>10. Key(g) = <<p, t>>
    BY <2>1, <2>3, <2>8, <2>9
  <2>11. g \in same
    BY <1>11, <2>7, <2>10
  <2> HIDE DEF ItemAt, same
  <2> QED BY <2>8, <2>9, <2>11
<1>13. ASSUME NEW g \in same, NEW b \in 1..n, NEW c \in 1..n, ItemAt(g, b, c) PROVE c \in ends
  <2>1. Num(g, 1) = p /\ Num(g, 2) = t
    OBVIOUS
  <2>2. IsItem(w, s[g], b, c) /\ NumberAt(w, s[g]) = p /\ NumberAt(w, b + 1) = t /\ s[g] \in 1..n
    BY <1>13, <2>1
  <2> QED BY <1>2, <2>2
<1>14. same \subseteq 1..m /\ same \subseteq good
  BY <1>11
<1>15. \A g \in same : \E b, c \in 1..n : ItemAt(g, b, c)
  <2> HIDE DEF ItemAt
  <2> QED BY <1>10, <1>11, <1>14
<1>16. Get(DeserializeMap(v), p, t) = IF same = {} THEN 0 ELSE Num(Max(same), 3)
  <2> DEFINE map == DeserializeMap(v)
             keys == {Key(g) : g \in good}
  <2>1. map = [key \in keys |-> Num(Max({g \in good : Key(g) = key}), 3)]
    BY <1>8
  <2>2. Get(map, p, t) = IF <<p, t>> \in DOMAIN map THEN map[<<p, t>>] ELSE 0
    BY DEF Get
  <2> HIDE DEF map
  <2>3. <<p, t>> \in keys <=> same # {}
    <3> HIDE DEF good
    <3> QED OBVIOUS
  <2> HIDE DEF Key, good, keys
  <2>4. DOMAIN map = keys
    BY <2>1
  <2>5. <<p, t>> \in keys => map[<<p, t>>] = Num(Max({g \in good : Key(g) = <<p, t>>}), 3)
    BY <2>1
  <2>6. <<p, t>> \in keys => map[<<p, t>>] = Num(Max(same), 3)
    BY <2>5
  <2> HIDE DEF same
  <2>7. Get(map, p, t) = IF same = {} THEN 0 ELSE Num(Max(same), 3)
    BY <2>2, <2>3, <2>4, <2>6
  <2> QED BY <2>7 DEF map
<1>17. CASE same = {}
  <2>1. ends = {}
    <3> HIDE DEF ends, same, ItemAt
    <3> QED BY <1>12, <1>17
  <2> HIDE DEF ends, same
  <2> QED BY <1>9, <1>16, <1>17, <2>1
<1>18. CASE same # {}
  <2> HIDE DEF same, ends, ItemAt
  <2>1. PICK h \in same : \A g \in same : g <= h
    <3>1. same \subseteq 0..m
      BY <1>4, <1>14
    <3> QED BY <1>4, <1>18, <3>1, GreatestOf
  <2>2. Max(same) = h
    <3>1. same \subseteq Int
      BY <1>14
    <3> QED BY <2>1, <3>1, MaxIs
  <2>3. PICK b \in 1..n, c \in 1..n : ItemAt(h, b, c)
    BY <1>15
  <2>4. c \in ends
    BY <1>13, <2>3
  <2>5. ASSUME NEW d \in ends PROVE d <= c
    <3>1. PICK g \in same : \E k \in 1..n : ItemAt(g, k, d)
      BY <1>12
    <3>2. PICK k \in 1..n : ItemAt(g, k, d)
      BY <3>1
    <3>3. g <= h /\ g \in 1..m /\ h \in 1..m
      BY <1>14, <2>1
    <3>4. CASE g = h
      <4>1. IsItem(w, s[h], b, c) /\ IsItem(w, s[h], k, d) /\ s[h] \in 1..n /\ d \in 1..n
        BY <2>3, <3>2, <3>4 DEF ItemAt
      <4>2. s[h] \in Int /\ b \in Int /\ c \in Int /\ k \in Int /\ d \in Int
        BY <4>1
      <4>3. c = d
        BY <4>1, <4>2, ItemOne
      <4> QED BY <4>2, <4>3
    <3>5. CASE g # h
      <4>1. g < h
        BY <3>3, <3>5
      <4>2. s[g] + Len(Q[g]) < s[h] /\ s[g] \in 1..n + 1 /\ Len(Q[g]) \in Nat
        BY <1>3, <3>3, <4>1 DEF Cut
      <4>3. d < s[g] + Len(Q[g]) /\ d \in 1..n
        BY <3>2 DEF ItemAt
      <4>4. s[h] \in 1..n /\ s[h] <= b /\ b < c
        <5>1. IsItem(w, s[h], b, c) /\ s[h] \in 1..n
          BY <2>3 DEF ItemAt
        <5> QED BY <5>1 DEF IsItem
      <4> DEFINE x == s[g] + Len(Q[g])
                 y == s[h]
      <4>5. x \in Int /\ y \in Int /\ d < x /\ x < y /\ y <= b /\ b < c /\ d \in Int
        BY <1>2, <4>2, <4>3, <4>4
      <4> HIDE DEF x, y
      <4> QED BY <4>5
    <3> QED BY <3>4, <3>5
  <2>6. Max(ends) = c
    <3>1. ends \subseteq Int
      BY <1>2 DEF ends
    <3> QED BY <2>4, <2>5, <3>1, MaxIs
  <2>7. NumberAt(w, c + 1) = Num(h, 3)
    BY <2>3 DEF ItemAt
  <2>8. ends # {}
    BY <2>4
  <2> QED BY <1>9, <1>16, <1>18, <2>2, <2>6, <2>7, <2>8
<1> QED BY <1>17, <1>18

-----------------------------------------------------------------------------
(* Step functions.  Their numbers are those at the beginnings of the fields.  *)

\* The numbers of the texts that are not empty.
InNumbers(texts) == LET some == Kept(texts, Seq(Sign) \ {<<>>})
                    IN [at \in DOMAIN some |-> ToDouble(some[at])]

\* Every text has a number.
LEMMA DoubleType == ASSUME NEW text PROVE ToDouble(text) \in Int
<1>1. CASE Head(text) \in DOMAIN Numbers
  BY <1>1, ParamAssumption DEF ToDouble
<1>2. CASE Head(text) \notin DOMAIN Numbers
  BY <1>2 DEF ToDouble
<1> QED BY <1>1, <1>2

\* Numerals, as a loop over the fields.
LEMMA InNumbersEmpty == InNumbers(<<>>) = <<>>
<1>1. Kept(<<>>, Seq(Sign) \ {<<>>}) = <<>>
  BY KeptEmpty
<1>2. [at \in DOMAIN <<>> |-> ToDouble(<<>>[at])] = <<>>
  OBVIOUS
<1> QED BY <1>1, <1>2 DEF InNumbers

\* The images of a longer sequence.
LEMMA ImagesAppend ==
  ASSUME NEW X, NEW seq \in Seq(X), NEW e \in X, NEW f, NEW g,
         f = [at \in DOMAIN seq |-> ToDouble(seq[at])],
         g = [at \in DOMAIN Append(seq, e) |-> ToDouble(Append(seq, e)[at])]
  PROVE  f \in Seq(Int) /\ g = Append(f, ToDouble(e))
<1> DEFINE n == Len(seq)
           d == ToDouble(e)
           more == Append(seq, e)
<1>1. /\ n \in Nat /\ DOMAIN seq = 1..n /\ DOMAIN more = 1..n + 1
      /\ more[n + 1] = e /\ \A k \in 1..n : more[k] = seq[k]
  BY OneMore
<1>2. \A at : ToDouble(seq[at]) \in Int
  BY DoubleType
<1>3. d \in Int
  BY DoubleType
<1> HIDE DEF n, d, more
<1>4. f \in Seq(Int) /\ Len(f) = n
  <2>1. f = [at \in 1..n |-> ToDouble(seq[at])] /\ n \in Nat
    BY <1>1
  <2>2. f \in [1..n -> Int]
    BY <1>2, <2>1
  <2>3. f \in Seq(Int)
    BY <2>1, <2>2
  <2> QED BY <2>1, <2>2, <2>3
<1>5. g \in Seq(Int) /\ Len(g) = n + 1
  <2>1. \A at : ToDouble(more[at]) \in Int
    BY DoubleType
  <2>2. g = [at \in 1..n + 1 |-> ToDouble(more[at])] /\ n + 1 \in Nat
    BY <1>1 DEF more
  <2> QED BY <2>1, <2>2
<1>6. /\ Append(f, d) \in Seq(Int) /\ Len(Append(f, d)) = n + 1
      /\ Append(f, d)[n + 1] = d /\ \A k \in 1..n : Append(f, d)[k] = f[k]
  BY <1>3, <1>4, OneMore
<1>7. ASSUME NEW k \in 1..n + 1 PROVE g[k] = Append(f, d)[k]
  <2>0. g[k] = ToDouble(more[k])
    BY <1>1 DEF more
  <2>1. CASE k = n + 1
    BY <1>1, <1>6, <2>0, <2>1 DEF d
  <2>2. CASE k # n + 1
    <3>1. k \in 1..n
      BY <1>1, <2>2
    <3>2. f[k] = ToDouble(seq[k])
      BY <1>1, <3>1
    <3> QED BY <1>1, <1>6, <2>0, <3>1, <3>2
  <2> QED BY <2>1, <2>2
<1>8. g = Append(f, d)
  BY <1>5, <1>6, <1>7, SeqEqual
<1> QED BY <1>4, <1>8 DEF d

\* One field more.
LEMMA InNumbersAppend ==
  ASSUME NEW texts \in Seq(Seq(Sign)), NEW e \in Seq(Sign)
  PROVE  /\ InNumbers(texts) \in Seq(Int)
         /\ InNumbers(Append(texts, e)) = IF e = <<>> THEN InNumbers(texts)
                                          ELSE Append(InNumbers(texts), ToDouble(e))
<1> DEFINE set  == Seq(Sign) \ {<<>>}
           some == Kept(texts, set)
<1>1. some \in Seq(Seq(Sign))
  BY KeptType
<1>2. Kept(Append(texts, e), set) = IF e \in set THEN Append(some, e) ELSE some
  BY KeptAppend
<1>3. e \in set <=> e # <<>>
  OBVIOUS
<1> HIDE DEF set, some
<1> DEFINE f == [at \in DOMAIN some |-> ToDouble(some[at])]
           g == [at \in DOMAIN Append(some, e) |-> ToDouble(Append(some, e)[at])]
<1>4. f \in Seq(Int) /\ g = Append(f, ToDouble(e))
  <2> HIDE DEF f, g
  <2>1. /\ f = [at \in DOMAIN some |-> ToDouble(some[at])]
        /\ g = [at \in DOMAIN Append(some, e) |-> ToDouble(Append(some, e)[at])]
    BY DEF f, g
  <2> QED BY <1>1, <2>1, ImagesAppend
<1>5. InNumbers(texts) = f
  BY DEF InNumbers, some, set
<1>6. e # <<>> => InNumbers(Append(texts, e)) = g
  <2> SUFFICES ASSUME e # <<>> PROVE InNumbers(Append(texts, e)) = g
    OBVIOUS
  <2>1. Kept(Append(texts, e), Seq(Sign) \ {<<>>}) = Append(some, e)
    BY <1>2, <1>3 DEF set
  <2> QED BY <2>1 DEF InNumbers
<1>7. e = <<>> => InNumbers(Append(texts, e)) = f
  <2> SUFFICES ASSUME e = <<>> PROVE InNumbers(Append(texts, e)) = f
    OBVIOUS
  <2>1. Kept(Append(texts, e), Seq(Sign) \ {<<>>}) = some
    BY <1>2, <1>3 DEF set
  <2> QED BY <2>1 DEF InNumbers
<1> HIDE DEF f, g
<1> QED BY <1>4, <1>5, <1>6, <1>7

\* Two texts that read the same.
ReadSame(x, y) == (x = <<>> <=> y = <<>>) /\ ToDouble(x) = ToDouble(y)

AllReadSame(a, b) == Len(a) = Len(b) /\ \A k \in 1..Len(a) : ReadSame(a[k], b[k])

\* Fields that read alike have the same numbers.
LEMMA InNumbersSame ==
  \A a \in Seq(Seq(Sign)) : \A b \in Seq(Seq(Sign)) : AllReadSame(a, b) => InNumbers(a) = InNumbers(b)
<1> DEFINE T == Seq(Sign)
           Good == {a \in Seq(T) : \A b \in Seq(T) : AllReadSame(a, b) => InNumbers(a) = InNumbers(b)}
<1> HIDE DEF T
<1>1. <<>> \in Good
  <2>1. ASSUME NEW b \in Seq(T), AllReadSame(<<>>, b) PROVE InNumbers(<<>>) = InNumbers(b)
    <3>1. b = <<>>
      BY <2>1 DEF AllReadSame
    <3> QED BY <3>1
  <2> QED BY <2>1
<1>2. ASSUME NEW a \in Seq(T), NEW e \in T, a \in Good PROVE Append(a, e) \in Good
  <2> DEFINE n == Len(a)
             more == Append(a, e)
  <2>1. /\ n \in Nat /\ more \in Seq(T) /\ Len(more) = n + 1
        /\ more[n + 1] = e /\ \A k \in 1..n : more[k] = a[k]
    BY OneMore
  <2>2. InNumbers(more) = IF e = <<>> THEN InNumbers(a) ELSE Append(InNumbers(a), ToDouble(e))
    BY InNumbersAppend DEF T
  <2>3. \A b \in Seq(T) : AllReadSame(a, b) => InNumbers(a) = InNumbers(b)
    BY <1>2
  <2>n. n = Len(a)
    OBVIOUS
  <2> HIDE DEF more, n
  <2>4. ASSUME NEW b \in Seq(T), AllReadSame(more, b) PROVE InNumbers(more) = InNumbers(b)
    <3>1. Len(b) = n + 1 /\ \A k \in 1..n + 1 : ReadSame(more[k], b[k])
      BY <2>1, <2>4 DEF AllReadSame
    <3>2. b # <<>>
      BY <2>1, <3>1
    <3>3. PICK c \in Seq(T), d \in T : b = Append(c, d) /\ Len(b) = Len(c) + 1
      BY <3>2, Shorter
    <3> DEFINE l == Len(c)
    <3>4. /\ l \in Nat /\ Append(c, d)[l + 1] = d /\ \A k \in 1..l : Append(c, d)[k] = c[k]
      BY OneMore
    <3>5. Len(b) = l + 1 /\ l = Len(c)
      BY <3>3
    <3> HIDE DEF l
    <3>6. l = n
      BY <2>1, <3>1, <3>4, <3>5
    <3>7. b[n + 1] = d /\ \A k \in 1..n : b[k] = c[k]
      BY <3>3, <3>4, <3>6
    <3>8. ReadSame(e, d)
      <4>1. n + 1 \in 1..n + 1
        BY <2>1
      <4>2. ReadSame(more[n + 1], b[n + 1])
        BY <3>1, <4>1
      <4> QED BY <2>1, <3>7, <4>2
    <3>9. AllReadSame(a, c)
      <4>1. ASSUME NEW k \in 1..n PROVE ReadSame(a[k], c[k])
        <5>1. k \in 1..n + 1
          BY <2>1
        <5>2. ReadSame(more[k], b[k])
          BY <3>1, <5>1
        <5> QED BY <2>1, <3>7, <5>2
      <4> QED BY <2>n, <3>5, <3>6, <4>1 DEF AllReadSame
    <3>10. InNumbers(a) = InNumbers(c)
      BY <2>3, <3>9
    <3>11. InNumbers(b) = IF d = <<>> THEN InNumbers(c) ELSE Append(InNumbers(c), ToDouble(d))
      <4>1. c \in Seq(Seq(Sign)) /\ d \in Seq(Sign)
        BY DEF T
      <4>2. InNumbers(Append(c, d)) = IF d = <<>> THEN InNumbers(c) ELSE Append(InNumbers(c), ToDouble(d))
        BY <4>1, InNumbersAppend
      <4> QED BY <3>3, <4>2
    <3> QED BY <2>2, <3>8, <3>10, <3>11 DEF ReadSame
  <2>5. \A b \in Seq(T) : AllReadSame(more, b) => InNumbers(more) = InNumbers(b)
    BY <2>4
  <2> QED BY <2>1, <2>5 DEF more
<1>3. Seq(T) \subseteq Good
  <2> HIDE DEF Good
  <2> QED BY <1>1, <1>2, AllSequences
<1> QED BY <1>3 DEF T

\* What is behind a text does not change the numbers in it.
LEMMA NumberMore ==
  ASSUME NEW w \in Seq(Sign), NEW e \in Sign, NEW k \in 1..Len(w)
  PROVE  NumberAt(Append(w, e), k) = NumberAt(w, k)
<1> DEFINE n == Len(w)
           more == Append(w, e)
           x == SubSeq(w, k, n)
           y == SubSeq(more, k, Len(more))
<1>1. n \in Nat /\ more \in Seq(Sign) /\ Len(more) = n + 1 /\ \A j \in 1..n : more[j] = w[j]
  BY OneMore
<1>2. k \in 1..n
  OBVIOUS
<1>3. x \in Seq(Sign) /\ Len(x) = n - k + 1 /\ \A j \in 1..n - k + 1 : x[j] = w[k + j - 1]
  <2>1. k \in 1..n + 1 /\ n \in 0..n /\ k <= n + 1
    BY <1>1, <1>2
  <2> QED BY <2>1, Sub
<1> HIDE DEF n, more
<1>4. y \in Seq(Sign) /\ Len(y) = (n + 1) - k + 1 /\ \A j \in 1..(n + 1) - k + 1 : y[j] = more[k + j - 1]
  <2> DEFINE o == Len(more)
  <2>1. o = n + 1 /\ k \in 1..o + 1 /\ o \in 0..o /\ k <= o + 1
    BY <1>1, <1>2
  <2>2. y \in Seq(Sign) /\ Len(y) = o - k + 1 /\ \A j \in 1..o - k + 1 : y[j] = more[k + j - 1]
    BY <1>1, <2>1, Sub
  <2> HIDE DEF o, y
  <2> QED BY <2>1, <2>2
<1>5. NumberAt(w, k) = ToDouble(x) /\ NumberAt(more, k) = ToDouble(y)
  BY DEF NumberAt, n
<1> HIDE DEF x, y
<1>6. 1 \in 1..n - k + 1 /\ 1 \in 1..(n + 1) - k + 1 /\ k + 1 - 1 = k
  BY <1>1, <1>2
<1>7. x[1] = w[k] /\ y[1] = more[k] /\ Len(x) # 0 /\ Len(y) # 0
  BY <1>3, <1>4, <1>6
<1>8. x # <<>> /\ y # <<>> /\ Head(x) = x[1] /\ Head(y) = y[1] /\ more[k] = w[k]
  BY <1>1, <1>2, <1>3, <1>4, <1>7
<1>9. ToDouble(x) = ToDouble(y)
  BY <1>7, <1>8 DEF ToDouble
<1> QED BY <1>5, <1>9 DEF more

\* Where a field begins that is not empty.
Begins(w) == {k \in DOMAIN w : w[k] # Bar /\ (k = 1 \/ w[k - 1] = Bar)}
Ident(w)  == [k \in DOMAIN w |-> k]
Places(w) == Kept(Ident(w), Begins(w))

\* One token more for the places.
LEMMA IdentAppend ==
  ASSUME NEW w \in Seq(Sign), NEW e \in Sign
  PROVE  /\ Ident(w) \in Seq(Nat) /\ ToSet(Ident(w)) = 1..Len(w)
         /\ Ident(Append(w, e)) = Append(Ident(w), Len(w) + 1)
<1> DEFINE n == Len(w)
           a == Ident(w)
           b == Ident(Append(w, e))
<1>1. n \in Nat /\ DOMAIN w = 1..n /\ DOMAIN Append(w, e) = 1..n + 1
  OBVIOUS
<1> HIDE DEF n
<1>2. a = [k \in 1..n |-> k] /\ b = [k \in 1..n + 1 |-> k]
  BY <1>1 DEF Ident
<1> HIDE DEF a, b
<1>3. a \in Seq(Nat) /\ Len(a) = n /\ \A k \in 1..n : a[k] = k
  BY <1>1, <1>2
<1>4. b \in Seq(Nat) /\ Len(b) = n + 1 /\ \A k \in 1..n + 1 : b[k] = k
  BY <1>1, <1>2
<1>5. ToSet(a) = 1..n
  <2>1. DOMAIN a = 1..n
    BY <1>1, <1>2
  <2> QED BY <1>3, <2>1 DEF ToSet
<1>6. n + 1 \in Nat
  BY <1>1
<1> DEFINE c == Append(a, n + 1)
<1>7. c \in Seq(Nat) /\ Len(c) = n + 1 /\ c[n + 1] = n + 1 /\ \A k \in 1..n : c[k] = a[k]
  BY <1>3, <1>6, OneMore
<1> HIDE DEF c
<1>8. ASSUME NEW k \in 1..n + 1 PROVE b[k] = c[k]
  <2>1. k = n + 1 \/ k \in 1..n
    BY <1>1
  <2> QED BY <1>3, <1>4, <1>7, <2>1
<1>9. b = c
  BY <1>4, <1>7, <1>8, SeqEqual
<1> QED BY <1>3, <1>5, <1>9 DEF a, b, c, n

\* It is a place if it begins a field.
LEMMA PlacesAppend ==
  ASSUME NEW w \in Seq(Sign), NEW e \in Sign
  PROVE  /\ Places(w) \in Seq(Nat) /\ ToSet(Places(w)) \subseteq 1..Len(w)
         /\ Places(Append(w, e)) =
              IF e # Bar /\ (w = <<>> \/ w[Len(w)] = Bar) THEN Append(Places(w), Len(w) + 1)
                                                            ELSE Places(w)
<1> DEFINE n == Len(w)
           more == Append(w, e)
           a == Ident(w)
           A == Begins(w)
           B == Begins(more)
<1>1. a \in Seq(Nat) /\ ToSet(a) = 1..n /\ Ident(more) = Append(a, n + 1)
  BY IdentAppend
<1>2. /\ n \in Nat /\ more \in Seq(Sign) /\ DOMAIN w = 1..n /\ DOMAIN more = 1..n + 1
      /\ more[n + 1] = e /\ \A k \in 1..n : more[k] = w[k]
  BY OneMore
<1>3. w = <<>> <=> n = 0
  OBVIOUS
<1> HIDE DEF n, more, a
<1>4. Places(w) \in Seq(Nat) /\ ToSet(Places(w)) = ToSet(a) \cap A
  BY <1>1, KeptType, KeptSet DEF Places, a
<1>5. \A k \in 1..n : k \in A <=> k \in B
  <2>1. ASSUME NEW k \in 1..n PROVE k \in A <=> k \in B
    <3>1. k \in 1..n + 1 /\ more[k] = w[k]
      BY <1>2
    <3>2. k # 1 => more[k - 1] = w[k - 1]
      <4>1. k # 1 => k - 1 \in 1..n
        BY <1>2
      <4> QED BY <1>2, <4>1
    <3> QED BY <1>2, <3>1, <3>2 DEF Begins
  <2> QED BY <2>1
<1>6. n + 1 \in B <=> e # Bar /\ (w = <<>> \/ w[n] = Bar)
  <2>1. n + 1 \in 1..n + 1 /\ (n + 1) - 1 = n /\ (n + 1 = 1 <=> n = 0)
    BY <1>2
  <2>2. n # 0 => more[n] = w[n]
    <3>1. n # 0 => n \in 1..n
      BY <1>2
    <3> QED BY <1>2, <3>1
  <2> QED BY <1>2, <1>3, <2>1, <2>2 DEF Begins
<1> HIDE DEF A, B
<1>7. Kept(a, B) = Kept(a, A)
  <2>1. ToSet(a) \cap B = ToSet(a) \cap A
    BY <1>1, <1>5
  <2> QED BY <1>1, <2>1, KeptSame
<1>8. Kept(Append(a, n + 1), B) = IF n + 1 \in B THEN Append(Kept(a, B), n + 1) ELSE Kept(a, B)
  <2> DEFINE o == n + 1
  <2>1. o \in Nat
    BY <1>2
  <2> HIDE DEF o
  <2>2. Kept(Append(a, o), B) = IF o \in B THEN Append(Kept(a, B), o) ELSE Kept(a, B)
    BY <1>1, <2>1, KeptAppend
  <2> QED BY <2>2 DEF o
<1>9. Places(w) = Kept(a, A) /\ Places(more) = Kept(Ident(more), B)
  BY DEF Places, a, A, B
<1>10. Places(more) = IF n + 1 \in B THEN Append(Places(w), n + 1) ELSE Places(w)
  BY <1>1, <1>7, <1>8, <1>9
<1>11. ToSet(Places(w)) \subseteq 1..n
  BY <1>1, <1>4
<1> QED BY <1>4, <1>6, <1>10, <1>11 DEF n, more

\* The numbers at the places, one more when a field begins.
LEMMA FiguresAppend ==
  ASSUME NEW w \in Seq(Sign), NEW e \in Sign
  PROVE  /\ Figures(w) \in Seq(Int)
         /\ Figures(Append(w, e)) =
              IF e # Bar /\ (w = <<>> \/ w[Len(w)] = Bar) THEN Append(Figures(w), ToDouble(<<e>>))
                                                            ELSE Figures(w)
<1> DEFINE n == Len(w)
           more == Append(w, e)
           p == Places(w)
           q == Places(more)
           l == Len(p)
           f == Figures(w)
           g == Figures(more)
           d == ToDouble(<<e>>)
           New == e # Bar /\ (w = <<>> \/ w[n] = Bar)
<1>1. p \in Seq(Nat) /\ ToSet(p) \subseteq 1..n /\ q = IF New THEN Append(p, n + 1) ELSE p
  BY PlacesAppend
<1>2. f = [k \in DOMAIN p |-> NumberAt(w, p[k])] /\ g = [k \in DOMAIN q |-> NumberAt(more, q[k])]
  BY DEF Figures, Places, Ident, Begins
<1>3. n \in Nat /\ more \in Seq(Sign) /\ Len(more) = n + 1 /\ more[n + 1] = e
  BY OneMore
<1>4. n = Len(w)
  OBVIOUS
<1>5. NumberAt(more, n + 1) = d
  <2>1. SubSeq(more, n + 1, n + 1) = <<e>>
    <3> DEFINE x == SubSeq(more, n + 1, n + 1)
    <3>1. n + 1 \in 1..(n + 1) + 1 /\ n + 1 \in 0..n + 1 /\ n + 1 <= (n + 1) + 1
      BY <1>3
    <3>2. /\ x \in Seq(Sign) /\ Len(x) = (n + 1) - (n + 1) + 1
          /\ \A k \in 1..(n + 1) - (n + 1) + 1 : x[k] = more[(n + 1) + k - 1]
      BY <1>3, <3>1, Sub
    <3> HIDE DEF x, more, n
    <3>3. (n + 1) - (n + 1) + 1 = 1 /\ (n + 1) + 1 - 1 = n + 1 /\ 1 \in 1..1
      BY <1>3
    <3>4. x[1] = e /\ Len(x) = 1
      BY <1>3, <3>2, <3>3
    <3> DEFINE one == <<e>>
    <3>a. one \in Seq(Sign) /\ Len(one) = 1 /\ one[1] = e
      OBVIOUS
    <3> HIDE DEF one
    <3>b. ASSUME NEW k \in 1..1 PROVE x[k] = one[k]
      BY <3>4, <3>a
    <3>c. x = one
      BY <3>2, <3>4, <3>a, <3>b, SeqEqual
    <3>5. x = <<e>>
      BY <3>c DEF one
    <3> QED BY <3>5 DEF x
  <2> QED BY <1>3, <2>1 DEF NumberAt
<1>6. \A k \in 1..n : NumberAt(more, k) = NumberAt(w, k)
  BY NumberMore
<1>7. \A k : NumberAt(w, k) \in Int /\ NumberAt(more, k) \in Int
  BY DoubleType DEF NumberAt
<1>8. d \in Int
  BY DoubleType
<1> HIDE DEF n, more, p, q, f, g, d, New
<1>9. l \in Nat /\ DOMAIN p = 1..l
  BY <1>1
<1> HIDE DEF l
<1>10. f \in Seq(Int) /\ Len(f) = l
  <2>1. f = [k \in 1..l |-> NumberAt(w, p[k])]
    BY <1>2, <1>9
  <2>2. f \in [1..l -> Int]
    BY <1>7, <2>1
  <2>3. f \in Seq(Int)
    BY <1>9, <2>2
  <2> QED BY <1>9, <2>2, <2>3
<1>11. \A k \in 1..l : NumberAt(more, p[k]) = f[k]
  <2>1. ASSUME NEW k \in 1..l PROVE NumberAt(more, p[k]) = f[k]
    <3>1. p[k] \in ToSet(p)
      BY <1>9 DEF ToSet
    <3>2. p[k] \in 1..n
      BY <1>1, <3>1
    <3> QED BY <1>2, <1>6, <1>9, <3>2
  <2> QED BY <2>1
<1>12. CASE ~New
  <2>1. q = p
    BY <1>1, <1>12
  <2>2. g = [k \in 1..l |-> NumberAt(more, p[k])] /\ f = [k \in 1..l |-> NumberAt(w, p[k])]
    BY <1>2, <1>9, <2>1
  <2>3. \A k \in 1..l : f[k] = NumberAt(w, p[k])
    BY <2>2
  <2>4. g = f
    BY <1>11, <2>2, <2>3
  <2> QED BY <1>10, <1>12, <2>4 DEF f, g, New, more, n, d
<1>13. CASE New
  <2>1. q = Append(p, n + 1)
    BY <1>1, <1>13
  <2>2. /\ q \in Seq(Nat) /\ Len(q) = l + 1 /\ q[l + 1] = n + 1 /\ \A k \in 1..l : q[k] = p[k]
    <3>1. n + 1 \in Nat
      BY <1>3
    <3> QED BY <1>1, <2>1, <3>1, OneMore DEF l
  <2>3. DOMAIN q = 1..l + 1
    BY <2>2
  <2>4. g = [k \in 1..l + 1 |-> NumberAt(more, q[k])]
    BY <1>2, <2>3
  <2>5. g \in Seq(Int) /\ Len(g) = l + 1
    <3>1. g \in [1..l + 1 -> Int]
      BY <1>7, <2>4
    <3>2. g \in Seq(Int)
      BY <1>9, <3>1
    <3> QED BY <1>9, <3>1, <3>2
  <2> DEFINE h == Append(f, d)
  <2>6. h \in Seq(Int) /\ Len(h) = l + 1 /\ h[l + 1] = d /\ \A k \in 1..l : h[k] = f[k]
    BY <1>8, <1>10, OneMore
  <2> HIDE DEF h
  <2>7. ASSUME NEW k \in 1..l + 1 PROVE g[k] = h[k]
    <3>1. g[k] = NumberAt(more, q[k])
      BY <2>4
    <3>2. CASE k = l + 1
      BY <1>5, <2>2, <2>6, <3>1, <3>2
    <3>3. CASE k # l + 1
      <4>1. k \in 1..l
        BY <1>9, <3>3
      <4> QED BY <1>11, <2>2, <2>6, <3>1, <4>1
    <3> QED BY <3>2, <3>3
  <2>8. g = h
    BY <2>5, <2>6, <2>7, SeqEqual
  <2> QED BY <1>10, <1>13, <2>8 DEF f, g, New, more, n, d, h
<1> QED BY <1>12, <1>13

\* The last field is empty at the beginning and behind a bar.
LEMMA LastField ==
  ASSUME NEW w \in Seq(Sign), NEW m, m = Len(Split(w, Bar))
  PROVE  Split(w, Bar)[m] = <<>> <=> w = <<>> \/ w[Len(w)] = Bar
<1> DEFINE n == Len(w)
           Q == Split(w, Bar)
           last == Q[m]
           l == Len(last)
<1>1. PICK s : Cut(w, n, Bar, Q, m, s)
  BY CutAt
<1>2. Q \in Seq(Seq(Sign)) /\ Q # <<>>
  BY SplitType DEF Fields
<1>3. m \in Nat \ {0} /\ m \in 1..m /\ last \in Seq(Sign)
  <2>1. m \in Nat \ {0} /\ m \in 1..m /\ Len(Q) = m
    BY <1>1 DEF Cut
  <2> QED BY <1>2, <2>1
<1>4. n \in Nat /\ (w = <<>> <=> n = 0)
  OBVIOUS
<1>5. l \in Nat /\ (last = <<>> <=> l = 0)
  BY <1>3
<1> HIDE DEF n, Q
<1> DEFINE p == s[m]
<1>6. /\ p \in 1..n + 1 /\ p + l = n + 1 /\ (m > 1 => w[p - 1] = Bar) /\ s[1] = 1
      /\ \A k \in 1..l : last[k] = w[p + k - 1] /\ last[k] # Bar
  BY <1>1, <1>3 DEF Cut
<1> HIDE DEF l
<1>7. ASSUME l = 0 PROVE n = 0 \/ w[n] = Bar
  <2> HIDE DEF p
  <2>1. p = n + 1
    BY <1>4, <1>6, <1>7
  <2>2. CASE m = 1
    <3>1. p = 1
      BY <1>6, <2>2 DEF p
    <3> QED BY <1>4, <2>1, <3>1
  <2>3. CASE m # 1
    <3>1. m > 1 /\ p - 1 = n
      BY <1>3, <1>4, <2>1, <2>3
    <3> QED BY <1>6, <3>1
  <2> QED BY <2>2, <2>3
<1>8. ASSUME l # 0, n # 0, w[n] = Bar PROVE FALSE
  <2> HIDE DEF p, last
  <2>1. l \in 1..l /\ p + l - 1 = n
    BY <1>4, <1>5, <1>6, <1>8
  <2>2. last[l] = w[n] /\ last[l] # Bar
    BY <1>6, <2>1
  <2> QED BY <1>8, <2>2
<1>9. ASSUME n = 0 PROVE l = 0
  <2> HIDE DEF p
  <2> QED BY <1>5, <1>6, <1>9
<1> QED BY <1>4, <1>5, <1>7, <1>8, <1>9 DEF n, Q

\* The numbers at the places are those of the fields.
LEMMA FiguresIs == \A w \in Seq(Sign) : Figures(w) = InNumbers(Split(w, Bar))
<1> DEFINE Good == {w \in Seq(Sign) : Figures(w) = InNumbers(Split(w, Bar))}
<1>1. <<>> \in Good
  <2>1. Figures(<<>>) = <<>>
    <3>1. Ident(<<>>) = <<>> /\ Begins(<<>>) = {}
      BY DEF Ident, Begins
    <3>2. Places(<<>>) = <<>>
      BY <3>1, KeptEmpty DEF Places
    <3>3. Figures(<<>>) = [k \in DOMAIN Places(<<>>) |-> NumberAt(<<>>, Places(<<>>)[k])]
      BY DEF Figures, Places, Ident, Begins
    <3>4. [k \in DOMAIN <<>> |-> NumberAt(<<>>, <<>>[k])] = <<>>
      OBVIOUS
    <3> QED BY <3>2, <3>3, <3>4
  <2>2. <<>> \in Seq(Seq(Sign)) /\ <<>> \in Seq(Sign) /\ Append(<<>>, <<>>) = <<<<>>>>
    BY AppendNone
  <2>3. InNumbers(Append(<<>>, <<>>)) = InNumbers(<<>>)
    BY <2>2, InNumbersAppend
  <2>4. InNumbers(<<<<>>>>) = <<>>
    BY <2>2, <2>3, InNumbersEmpty
  <2> QED BY <2>1, <2>2, <2>4, SplitEmpty
<1>2. ASSUME NEW w \in Seq(Sign), NEW e \in Sign, w \in Good PROVE Append(w, e) \in Good
  <2> DEFINE F == Split(w, Bar)
             N == Split(Append(w, e), Bar)
             m == Len(F)
             T == Seq(Sign)
  <2>1. F \in Fields(Sign) /\ N = SplitNext(F, e, Bar)
    BY SplitType, SplitAppend
  <2>2. m \in Nat \ {0} /\ N \in Fields(Sign) /\ Grown(F, N, e, Bar, m)
    BY <2>1, SplitNextIs
  <2>3. F \in Seq(T) /\ F # <<>> /\ N \in Seq(T)
    BY <2>1, <2>2 DEF Fields
  <2>4. F[m] = <<>> <=> w = <<>> \/ w[Len(w)] = Bar
    BY LastField
  <2>5. Figures(w) = InNumbers(F)
    BY <1>2
  <2>6. Figures(Append(w, e)) = IF e # Bar /\ F[m] = <<>> THEN Append(InNumbers(F), ToDouble(<<e>>))
                                                         ELSE InNumbers(F)
    BY <2>4, <2>5, FiguresAppend
  <2>m. m = Len(F)
    OBVIOUS
  <2> HIDE DEF F, N, m, T
  <2>7. CASE e = Bar
    <3>1. /\ Len(N) = m + 1 /\ N[m + 1] = <<>> /\ \A k \in 1..m : N[k] = F[k]
      BY <2>2, <2>7 DEF Grown
    <3>2. <<>> \in T
      BY DEF T
    <3> DEFINE more == Append(F, <<>>)
    <3>3. more \in Seq(T) /\ Len(more) = m + 1 /\ more[m + 1] = <<>> /\ \A k \in 1..m : more[k] = F[k]
      BY <2>3, <2>m, <3>2, OneMore
    <3> HIDE DEF more
    <3>4. N = more
      <4>1. ASSUME NEW k \in 1..m + 1 PROVE N[k] = more[k]
        <5>1. k = m + 1 \/ k \in 1..m
          BY <2>2
        <5> QED BY <3>1, <3>3, <5>1
      <4> QED BY <2>3, <3>1, <3>3, <4>1, SeqEqual
    <3>5. InNumbers(Append(F, <<>>)) = InNumbers(F)
      BY <2>3, <3>2, InNumbersAppend DEF T
    <3>6. InNumbers(N) = InNumbers(F)
      BY <3>4, <3>5 DEF more
    <3> QED BY <2>6, <2>7, <3>6, OneMore DEF N
  <2>8. CASE e # Bar
    <3>1. PICK front \in Seq(T), last \in T : F = Append(front, last) /\ Len(F) = Len(front) + 1
      BY <2>3, Shorter
    <3> DEFINE l == Len(front)
    <3>2. l \in Nat /\ F[l + 1] = last /\ \A k \in 1..l : F[k] = front[k]
      <4>1. /\ Len(front) \in Nat /\ Append(front, last)[Len(front) + 1] = last
            /\ \A k \in 1..Len(front) : Append(front, last)[k] = front[k]
        BY OneMore
      <4> QED BY <3>1, <4>1
    <3>3. m = l + 1 /\ l = Len(front)
      BY <2>m, <3>1
    <3> HIDE DEF l
    <3>4. m - 1 = l /\ F[m] = last
      BY <3>2, <3>3
    <3>5. /\ Len(N) = m /\ N[m] = Append(last, e) /\ \A k \in 1..l : N[k] = F[k]
      BY <2>2, <2>8, <3>4 DEF Grown
    <3>6. last \in Seq(Sign) /\ Append(last, e) \in Seq(Sign) /\ front \in Seq(Seq(Sign))
      <4>1. last \in Seq(Sign) /\ front \in Seq(Seq(Sign))
        BY DEF T
      <4> QED BY <4>1, OneMore
    <3> DEFINE grown == Append(front, Append(last, e))
    <3>7. /\ grown \in Seq(Seq(Sign)) /\ Len(grown) = l + 1 /\ grown[l + 1] = Append(last, e)
          /\ \A k \in 1..l : grown[k] = front[k]
      BY <3>3, <3>6, OneMore
    <3> HIDE DEF grown
    <3>8. N = grown
      <4>1. ASSUME NEW k \in 1..m PROVE N[k] = grown[k]
        <5>1. k = l + 1 \/ k \in 1..l
          BY <3>2, <3>3
        <5> QED BY <3>2, <3>3, <3>5, <3>7, <5>1
      <4>2. N \in Seq(Seq(Sign)) /\ Len(N) = Len(grown)
        BY <2>3, <3>3, <3>5, <3>7 DEF T
      <4> QED BY <3>5, <3>7, <4>1, <4>2, SeqEqual
    <3>9. InNumbers(F) = IF last = <<>> THEN InNumbers(front) ELSE Append(InNumbers(front), ToDouble(last))
      BY <3>1, <3>6, InNumbersAppend
    <3>10. Append(last, e) # <<>> /\ (last # <<>> => Head(Append(last, e)) = Head(last))
      <4> DEFINE next == Append(last, e)
      <4>1. /\ next \in Seq(Sign) /\ Len(next) = Len(last) + 1 /\ Len(last) \in Nat
            /\ \A k \in 1..Len(last) : next[k] = last[k]
        BY <3>6, OneMore
      <4> HIDE DEF next
      <4>2. next # <<>> /\ Head(next) = next[1]
        BY <4>1
      <4>3. last # <<>> => Head(last) = last[1] /\ 1 \in 1..Len(last)
        BY <3>6
      <4>4. last # <<>> => Head(next) = Head(last)
        BY <4>1, <4>2, <4>3
      <4> QED BY <4>2, <4>4 DEF next
    <3>11. InNumbers(N) = Append(InNumbers(front), ToDouble(Append(last, e)))
      <4>1. InNumbers(grown) = IF Append(last, e) = <<>> THEN InNumbers(front)
                               ELSE Append(InNumbers(front), ToDouble(Append(last, e)))
        BY <3>6, InNumbersAppend DEF grown
      <4> QED BY <3>8, <3>10, <4>1
    <3>12. InNumbers(N) = Figures(Append(w, e))
      <4>1. CASE last = <<>>
        <5>1. Append(last, e) = <<e>>
          BY <4>1, AppendNone
        <5> QED BY <2>6, <2>8, <3>4, <3>9, <3>11, <4>1, <5>1
      <4>2. CASE last # <<>>
        <5>1. ToDouble(Append(last, e)) = ToDouble(last)
          BY <3>10, <4>2 DEF ToDouble
        <5> QED BY <2>6, <3>4, <3>9, <3>11, <4>2, <5>1
      <4> QED BY <4>1, <4>2
    <3> QED BY <3>12, OneMore DEF N
  <2> QED BY <2>7, <2>8
<1>3. Seq(Sign) \subseteq Good
  <2> HIDE DEF Good
  <2> QED BY <1>1, <1>2, AllSequences
<1> QED BY <1>3

\* The numbers that are loaded are those of the text without blanks.
LEMMA NumeralsIs ==
  ASSUME NEW v, NEW w, Stripped(v, w)
  PROVE  Numerals(v) = Figures(w) /\ Figures(w) \in Seq(Int)
<1> DEFINE P == Split(v, Bar)
           Q == Split(w, Bar)
           m == Len(P)
           fields == [at \in DOMAIN P |-> Strip(P[at])]
           T == Seq(Sign)
<1>1. v \in Seq(Sign) /\ w \in Seq(Sign) /\ Bare(v) = w
  BY DEF Stripped
<1>2. BareFields(P, Q)
  BY <1>1, BareSplit, SignsApart
<1>3. P \in Seq(T) /\ Q \in Seq(T)
  BY <1>1, SplitType DEF Fields
<1>4. m \in Nat /\ DOMAIN P = 1..m
  BY <1>3
<1>5. \A at \in 1..m : Stripped(Strip(P[at]), Q[at])
  <2>1. ASSUME NEW at \in 1..m PROVE Stripped(Strip(P[at]), Q[at])
    <3>1. P[at] \in Seq(Sign) /\ Q[at] = Bare(P[at])
      BY <1>2 DEF BareFields
    <3> QED BY <3>1, StripIs
  <2> QED BY <2>1
<1>6. Len(Q) = m
  BY <1>2 DEF BareFields
<1>7. Figures(w) = InNumbers(Q) /\ InNumbers(Q) \in Seq(Int)
  <2>1. <<>> \in Seq(Sign)
    OBVIOUS
  <2> QED BY <1>1, <1>3, <2>1, FiguresIs, InNumbersAppend
<1>8. Numerals(v) = LET some == Kept(fields, ToSet(fields) \ {<<>>})
                    IN [at \in DOMAIN some |-> ToDouble(some[at])]
  BY DEF Numerals
<1>9. fields = [at \in 1..m |-> Strip(P[at])]
  BY <1>4
<1> HIDE DEF P, Q, m, fields
<1>10. fields \in Seq(T) /\ Len(fields) = m /\ \A at \in 1..m : fields[at] = Strip(P[at])
  <2>1. \A at \in 1..m : Strip(P[at]) \in T
    BY <1>5 DEF Stripped
  <2> HIDE DEF T
  <2>2. fields \in [1..m -> T]
    BY <1>9, <2>1
  <2>3. fields \in Seq(T)
    BY <1>4, <2>2
  <2> QED BY <1>4, <1>9, <2>2, <2>3
<1>11. AllReadSame(fields, Q)
  <2>1. ASSUME NEW at \in 1..m PROVE ReadSame(fields[at], Q[at])
    <3>1. Stripped(fields[at], Q[at])
      BY <1>5, <1>10
    <3>2. ToDouble(fields[at]) = ToDouble(Q[at])
      BY <3>1, SameDouble
    <3> QED BY <3>1, <3>2 DEF ReadSame, Stripped
  <2> QED BY <1>6, <1>10, <2>1 DEF AllReadSame
<1>12. InNumbers(fields) = InNumbers(Q)
  BY <1>3, <1>10, <1>11, InNumbersSame
<1>13. Numerals(v) = InNumbers(fields)
  <2> DEFINE A == ToSet(fields) \ {<<>>}
             B == T \ {<<>>}
  <2>1. ToSet(fields) \subseteq T
    BY <1>10, ToSetIn
  <2>2. ToSet(fields) \cap A = ToSet(fields) \cap B
    BY <2>1
  <2>3. Kept(fields, A) = Kept(fields, B)
    <3> HIDE DEF A, B
    <3> QED BY <1>10, <2>2, KeptSame
  <2> QED BY <1>8, <2>3 DEF InNumbers
<1> QED BY <1>7, <1>12, <1>13

-----------------------------------------------------------------------------
(* Sorting and searching.                                                     *)

\* A sequence of numbers that do not decrease, and where those below x end.
Rising(n, f)      == \A m, k \in 1..n : m < k => f[m] <= f[k]
Below(n, f, x, c) == (\A m \in 1..c : f[m] < x) /\ (\A m \in c + 1..n : f[m] >= x)

\* In a rising sequence the numbers below x come first.
LEMMA CutPoint ==
  ASSUME NEW n \in Nat, NEW f \in [1..n -> Int], Rising(n, f), NEW x \in Int
  PROVE  \E c \in 0..n : Below(n, f, x, c)
<1> DEFINE S == {m \in 0..n : m = 0 \/ f[m] < x}
<1>1. S \subseteq 0..n /\ 0 \in S
  OBVIOUS
<1>2. PICK c \in S : \A m \in S : m <= c
  <2> HIDE DEF S
  <2> QED BY <1>1, GreatestOf
<1>3. ASSUME NEW m \in 1..c PROVE f[m] < x
  <2>1. m \in 1..n /\ c \in 1..n /\ f[c] < x
    BY <1>3
  <2>2. m = c \/ m < c
    BY <1>3
  <2>3. f[m] \in Int /\ f[c] \in Int
    BY <2>1
  <2>4. m < c => f[m] <= f[c]
    BY <2>1 DEF Rising
  <2> QED BY <2>1, <2>2, <2>3, <2>4
<1>4. ASSUME NEW m \in c + 1..n PROVE f[m] >= x
  <2>1. m \in 1..n /\ m > c /\ c \in Int /\ m \in 0..n
    OBVIOUS
  <2>2. m \notin S
    <3> HIDE DEF S
    <3> QED BY <1>2, <2>1
  <2>3. ~(f[m] < x)
    BY <2>1, <2>2
  <2>4. f[m] \in Int
    BY <2>1
  <2> QED BY <2>3, <2>4
<1> QED BY <1>1, <1>3, <1>4 DEF Below

\* An order for one number more: it comes before the first that is not below it.
LEMMA SortsAppend ==
  ASSUME NEW seq \in Seq(Int), NEW e \in Int, NEW n, n = Len(seq),
         NEW order \in [1..n -> 1..n], Sorts(order, seq)
  PROVE  \E next \in [1..n + 1 -> 1..n + 1] : Sorts(next, Append(seq, e))
<1> DEFINE more == Append(seq, e)
           f    == [m \in 1..n |-> seq[order[m]]]
<1>1. /\ n \in Nat /\ DOMAIN seq = 1..n /\ DOMAIN more = 1..n + 1
      /\ more[n + 1] = e /\ \A k \in 1..n : more[k] = seq[k] /\ seq[k] \in Int
  BY OneMore
<1>2. /\ \A m \in 1..n : \E k \in 1..n : order[k] = m
      /\ \A m, k \in 1..n : m < k => order[m] # order[k] /\ seq[order[m]] <= seq[order[k]]
  BY <1>1 DEF Sorts
<1>o. \A m \in 1..n : order[m] \in 1..n
  OBVIOUS
<1>3. f \in [1..n -> Int] /\ Rising(n, f)
  <2>1. \A m \in 1..n : seq[order[m]] \in Int
    BY <1>1, <1>o
  <2> QED BY <1>2, <2>1 DEF Rising
<1> HIDE DEF more
<1>4. PICK c \in 0..n : Below(n, f, e, c)
  <2> HIDE DEF f
  <2> QED BY <1>1, <1>3, CutPoint
<1>5. /\ \A m \in 1..n : m <= c => seq[order[m]] < e
      /\ \A m \in 1..n : m > c => seq[order[m]] >= e
  <2>1. \A m \in 1..n : m <= c => m \in 1..c
    BY <1>1
  <2>2. \A m \in 1..n : m > c => m \in c + 1..n
    BY <1>1
  <2>3. \A m \in 1..n : f[m] = seq[order[m]]
    OBVIOUS
  <2> HIDE DEF f
  <2> QED BY <1>4, <2>1, <2>2, <2>3 DEF Below
<1> HIDE DEF f
<1> DEFINE next == [k \in 1..n + 1 |-> IF k <= c THEN order[k]
                                       ELSE IF k = c + 1 THEN n + 1 ELSE order[k - 1]]
<1>6. c \in Int /\ 0 <= c /\ c <= n
  BY <1>1
\* A place before c, at c + 1 or behind it.
<1>7. ASSUME NEW k \in 1..n + 1
      PROVE  \/ k <= c /\ k \in 1..n /\ next[k] = order[k]
             \/ k = c + 1 /\ next[k] = n + 1
             \/ k > c + 1 /\ k - 1 \in 1..n /\ k - 1 > c /\ next[k] = order[k - 1]
  <2>1. CASE k <= c
    <3>1. k \in 1..n
      BY <1>1, <1>6, <2>1
    <3> QED BY <2>1, <3>1
  <2>2. CASE k = c + 1
    <3>1. ~(k <= c)
      BY <1>6, <2>2
    <3> QED BY <2>2, <3>1
  <2>3. CASE k > c + 1
    <3>1. ~(k <= c) /\ k # c + 1 /\ k - 1 \in 1..n /\ k - 1 > c
      BY <1>1, <1>6, <2>3
    <3> QED BY <2>3, <3>1
  <2> QED BY <1>1, <1>6, <2>1, <2>2, <2>3
<1>8. next \in [1..n + 1 -> 1..n + 1]
  <2>1. ASSUME NEW k \in 1..n + 1 PROVE next[k] \in 1..n + 1
    <3>1. n + 1 \in 1..n + 1 /\ \A m \in 1..n : order[m] \in 1..n + 1
      BY <1>1, <1>o
    <3> HIDE DEF next
    <3> QED BY <1>7, <3>1
  <2> QED BY <2>1
<1>9. /\ \A k \in 1..n : k <= c => next[k] = order[k]
      /\ next[c + 1] = n + 1
      /\ \A k \in 1..n : k > c => next[k + 1] = order[k]
  <2>1. ASSUME NEW k \in 1..n, k <= c PROVE next[k] = order[k]
    <3>1. k \in 1..n + 1
      BY <1>1
    <3> QED BY <2>1, <3>1
  <2>2. next[c + 1] = n + 1
    <3>1. c + 1 \in 1..n + 1 /\ ~(c + 1 <= c)
      BY <1>1, <1>6
    <3> QED BY <3>1
  <2>3. ASSUME NEW k \in 1..n, k > c PROVE next[k + 1] = order[k]
    <3>1. k + 1 \in 1..n + 1 /\ ~(k + 1 <= c) /\ k + 1 # c + 1 /\ (k + 1) - 1 = k
      BY <1>1, <1>6, <2>3
    <3> QED BY <3>1
  <2> QED BY <2>1, <2>2, <2>3
<1> HIDE DEF next
<1>10. ASSUME NEW m \in 1..n + 1 PROVE \E k \in 1..n + 1 : next[k] = m
  <2>1. CASE m = n + 1
    <3>1. c + 1 \in 1..n + 1
      BY <1>1, <1>6
    <3> QED BY <1>9, <2>1, <3>1
  <2>2. CASE m # n + 1
    <3>1. m \in 1..n
      BY <1>1, <2>2
    <3>2. PICK k \in 1..n : order[k] = m
      BY <1>2, <3>1
    <3>3. k \in 1..n + 1 /\ k + 1 \in 1..n + 1 /\ (k <= c \/ k > c)
      BY <1>1, <1>6
    <3> QED BY <1>9, <3>2, <3>3
  <2> QED BY <2>1, <2>2
<1>11. ASSUME NEW m \in 1..n + 1, NEW k \in 1..n + 1, m < k
       PROVE  next[m] # next[k] /\ more[next[m]] <= more[next[k]]
  <2>0. /\ \A j \in 1..n : order[j] # n + 1 /\ more[order[j]] = seq[order[j]]
        /\ \A j \in 1..n : seq[order[j]] \in Int
    <3>1. ASSUME NEW j \in 1..n
          PROVE  order[j] # n + 1 /\ more[order[j]] = seq[order[j]] /\ seq[order[j]] \in Int
      <4>1. order[j] \in 1..n
        BY <1>o
      <4>2. order[j] # n + 1
        BY <1>1, <4>1
      <4> QED BY <1>1, <4>1, <4>2
    <3> QED BY <3>1
  <2>1. CASE m <= c
    <3>1. m \in 1..n /\ next[m] = order[m]
      BY <1>6, <1>7, <2>1
    <3>2. seq[order[m]] < e
      BY <1>5, <2>1, <3>1
    <3>3. CASE k <= c
      <4>1. k \in 1..n /\ next[k] = order[k]
        BY <1>6, <1>7, <3>3
      <4>2. order[m] # order[k] /\ seq[order[m]] <= seq[order[k]]
        BY <1>2, <1>11, <3>1, <4>1
      <4> QED BY <2>0, <3>1, <4>1, <4>2
    <3>4. CASE k = c + 1
      <4>1. next[k] = n + 1
        BY <1>9, <3>4
      <4>2. more[next[k]] = e /\ more[next[m]] = seq[order[m]] /\ next[m] # n + 1
        BY <1>1, <2>0, <3>1, <4>1
      <4>3. seq[order[m]] \in Int /\ e \in Int
        BY <2>0, <3>1
      <4>4. seq[order[m]] <= e
        BY <3>2, <4>3
      <4> QED BY <4>1, <4>2, <4>4
    <3>5. CASE k > c + 1
      <4> DEFINE j == k - 1
      <4>1. j \in 1..n /\ j > c /\ next[k] = order[j]
        BY <1>6, <1>7, <3>5
      <4>2. m < j
        BY <1>6, <2>1, <3>5
      <4> HIDE DEF j
      <4>3. order[m] # order[j] /\ seq[order[m]] <= seq[order[j]]
        BY <1>2, <3>1, <4>1, <4>2
      <4> QED BY <2>0, <3>1, <4>1, <4>3
    <3> QED BY <1>7, <3>3, <3>4, <3>5
  <2>2. CASE m = c + 1
    <3>1. next[m] = n + 1 /\ more[next[m]] = e
      BY <1>1, <1>9, <2>2
    <3> DEFINE j == k - 1
    <3>2. j \in 1..n /\ j > c /\ next[k] = order[j]
      BY <1>6, <1>7, <1>11, <2>2
    <3> HIDE DEF j
    <3>3. seq[order[j]] >= e /\ seq[order[j]] \in Int
      BY <1>5, <2>0, <3>2
    <3>4. e <= seq[order[j]]
      BY <3>3
    <3> QED BY <2>0, <3>1, <3>2, <3>4
  <2>3. CASE m > c + 1
    <3> DEFINE at == m - 1
               j == k - 1
    <3>1. at \in 1..n /\ next[m] = order[at]
      BY <1>6, <1>7, <2>3
    <3>2. k > c + 1 /\ at < j
      BY <1>6, <1>11, <2>3
    <3>3. j \in 1..n /\ next[k] = order[j]
      BY <1>6, <1>7, <3>2
    <3> HIDE DEF at, j
    <3>4. order[at] # order[j] /\ seq[order[at]] <= seq[order[j]]
      BY <1>2, <3>1, <3>2, <3>3
    <3> QED BY <2>0, <3>1, <3>3, <3>4
  <2> QED BY <1>6, <2>1, <2>2, <2>3
<1>12. Sorts(next, more)
  BY <1>1, <1>10, <1>11 DEF Sorts
<1> QED BY <1>8, <1>12 DEF more

\* Every sequence of numbers can be sorted.
LEMMA SortsSome == \A seq \in Seq(Int) : \E order \in [DOMAIN seq -> DOMAIN seq] : Sorts(order, seq)
<1> DEFINE Good == {seq \in Seq(Int) : \E order \in [DOMAIN seq -> DOMAIN seq] : Sorts(order, seq)}
<1>1. <<>> \in Good
  <2>1. DOMAIN <<>> = {} /\ <<>> \in Seq(Int)
    OBVIOUS
  <2>2. <<>> \in [{} -> {}]
    OBVIOUS
  <2>3. Sorts(<<>>, <<>>)
    BY <2>1 DEF Sorts
  <2> QED BY <2>1, <2>2, <2>3
<1>2. ASSUME NEW seq \in Seq(Int), NEW e \in Int, seq \in Good PROVE Append(seq, e) \in Good
  <2> DEFINE n == Len(seq)
  <2>1. n \in Nat /\ DOMAIN seq = 1..n /\ DOMAIN Append(seq, e) = 1..n + 1 /\ Append(seq, e) \in Seq(Int)
    OBVIOUS
  <2>2. PICK order \in [1..n -> 1..n] : Sorts(order, seq)
    BY <1>2, <2>1
  <2>3. \E next \in [1..n + 1 -> 1..n + 1] : Sorts(next, Append(seq, e))
    BY <2>2, SortsAppend
  <2> HIDE DEF n
  <2> QED BY <2>1, <2>3
<1>3. Seq(Int) \subseteq Good
  <2> HIDE DEF Good
  <2> QED BY <1>1, <1>2, AllSequences
<1> QED BY <1>3

\* Sorted puts the numbers in an order in which they rise.
Reordered(order, n, seq, S) ==
  /\ \A k \in 1..n : order[k] \in 1..n /\ S[k] = seq[order[k]]
  /\ \A m \in 1..n : \E k \in 1..n : order[k] = m
  /\ \A m, k \in 1..n : m < k => order[m] # order[k]
  /\ S \in Seq(Int) /\ Len(S) = n /\ Rising(n, S)

\* Sorted reorders, and what it gives rises.
LEMMA SortedIs ==
  ASSUME NEW seq \in Seq(Int), NEW n, n = Len(seq)
  PROVE  \E order : Reordered(order, n, seq, Sorted(seq))
<1>1. n \in Nat /\ DOMAIN seq = 1..n /\ \A k \in 1..n : seq[k] \in Int
  OBVIOUS
<1> DEFINE order == CHOOSE order \in [DOMAIN seq -> DOMAIN seq] : Sorts(order, seq)
           result == Sorted(seq)
<1>2. order \in [1..n -> 1..n] /\ Sorts(order, seq)
  <2>1. \E o \in [DOMAIN seq -> DOMAIN seq] : Sorts(o, seq)
    BY SortsSome
  <2>2. order \in [DOMAIN seq -> DOMAIN seq] /\ Sorts(order, seq)
    BY <2>1
  <2> HIDE DEF order
  <2> QED BY <1>1, <2>2
<1>3. result = [k \in DOMAIN seq |-> seq[order[k]]]
  BY DEF Sorted
<1> HIDE DEF order, result
<1>4. /\ \A m \in 1..n : \E k \in 1..n : order[k] = m
      /\ \A m, k \in 1..n : m < k => order[m] # order[k] /\ seq[order[m]] <= seq[order[k]]
  BY <1>1, <1>2 DEF Sorts
<1>5. \A k \in 1..n : order[k] \in 1..n
  BY <1>2
<1>6. result = [k \in 1..n |-> seq[order[k]]]
  BY <1>1, <1>3
<1>7. result \in Seq(Int) /\ Len(result) = n /\ \A k \in 1..n : result[k] = seq[order[k]]
  <2>1. result \in [1..n -> Int]
    <3>1. \A k \in 1..n : seq[order[k]] \in Int
      BY <1>1, <1>5
    <3> QED BY <1>6, <3>1
  <2>2. result \in Seq(Int)
    BY <1>1, <2>1
  <2> QED BY <1>1, <1>6, <2>1, <2>2
<1>8. Rising(n, result)
  BY <1>4, <1>7 DEF Rising
<1>9. Reordered(order, n, seq, result)
  BY <1>4, <1>5, <1>7, <1>8 DEF Reordered
<1> QED BY <1>9 DEF result

\* What a binary search makes of itself.
Halves(splits, x, f) ==
  [range \in (0..Len(splits)) \X (0..Len(splits)) |->
     LET left  == range[1]
         right == range[2]
         mid   == (left + right) \div 2
     IN IF left >= right THEN left
        ELSE IF x > splits[mid + 1] THEN f[<<mid + 1, right>>] ELSE f[<<left, mid>>]]
Search(splits, x) == CHOOSE f : f = Halves(splits, x, f)

\* The place c, or the end of the range that is nearest to it.
Nearest(c, left, right) == IF left >= right \/ c <= left THEN left ELSE IF c > right THEN right ELSE c

HalfAt(S, x, f, l, r) ==
  IF l >= r THEN l
  ELSE IF x > S[((l + r) \div 2) + 1] THEN f[<<((l + r) \div 2) + 1, r>>]
                                      ELSE f[<<l, (l + r) \div 2>>]

\* One step of the search.
LEMMA HalvesAt ==
  ASSUME NEW S, NEW n \in Nat, n = Len(S), NEW x, NEW f, NEW l \in 0..n, NEW r \in 0..n
  PROVE  Halves(S, x, f)[<<l, r>>] = HalfAt(S, x, f, l, r)
<1> DEFINE range == <<l, r>>
<1>1. range \in (0..n) \X (0..n) /\ range[1] = l /\ range[2] = r
  OBVIOUS
<1> HIDE DEF range
<1>2. Halves(S, x, f)[range] =
        LET left  == range[1]
            right == range[2]
            mid   == (left + right) \div 2
        IN IF left >= right THEN left
           ELSE IF x > S[mid + 1] THEN f[<<mid + 1, right>>] ELSE f[<<left, mid>>]
  BY <1>1 DEF Halves
<1>3. Halves(S, x, f)[range] =
        IF l >= r THEN l
        ELSE IF x > S[((l + r) \div 2) + 1] THEN f[<<((l + r) \div 2) + 1, r>>]
                                            ELSE f[<<l, (l + r) \div 2>>]
  BY <1>1, <1>2
<1> QED BY <1>3 DEF range, HalfAt

\* Each half keeps the nearest place.
HalfKeeps(S, n, x, c, l, r, mid) ==
  /\ mid \in 0..n /\ l <= mid /\ mid < r /\ mid + 1 \in 0..n
  /\ x > S[mid + 1] => Nearest(c, mid + 1, r) = Nearest(c, l, r)
  /\ ~(x > S[mid + 1]) => Nearest(c, l, mid) = Nearest(c, l, r)

\* The half that is taken has the nearest place.
LEMMA HalfNearest ==
  ASSUME NEW S \in Seq(Int), NEW n \in Nat, n = Len(S), NEW x \in Int,
         NEW c \in 0..n, Below(n, S, x, c),
         NEW l \in 0..n, NEW r \in 0..n, l < r, NEW mid, mid = (l + r) \div 2
  PROVE  HalfKeeps(S, n, x, c, l, r, mid)
<1>1. mid \in Nat /\ l <= mid /\ mid < r /\ mid + 1 \in 1..n
  OBVIOUS
<1>2. x > S[mid + 1] <=> mid + 1 <= c
  <2>1. S[mid + 1] \in Int
    BY <1>1
  <2>2. CASE mid + 1 <= c
    <3>1. mid + 1 \in 1..c
      BY <1>1, <2>2
    <3>2. S[mid + 1] < x
      BY <3>1 DEF Below
    <3> QED BY <2>1, <2>2, <3>2
  <2>3. CASE ~(mid + 1 <= c)
    <3>1. mid + 1 \in c + 1..n
      BY <1>1, <2>3
    <3>2. S[mid + 1] >= x
      BY <3>1 DEF Below
    <3> QED BY <2>1, <2>3, <3>2
  <2> QED BY <2>2, <2>3
<1>3. mid + 1 <= c => Nearest(c, mid + 1, r) = Nearest(c, l, r)
  BY <1>1 DEF Nearest
<1>4. ~(mid + 1 <= c) => Nearest(c, l, mid) = Nearest(c, l, r)
  BY <1>1 DEF Nearest
<1> QED BY <1>1, <1>2, <1>3, <1>4 DEF HalfKeeps

\* The search ends where the numbers below x end.
LEMMA SearchIs ==
  ASSUME NEW S \in Seq(Int), NEW n, n = Len(S), NEW x \in Int, NEW c \in 0..n, Below(n, S, x, c)
  PROVE  Search(S, x)[<<0, n>>] = c
<1>1. n \in Nat /\ c \in Int
  OBVIOUS
<1> DEFINE places == [range \in (0..n) \X (0..n) |-> Nearest(c, range[1], range[2])]
           f == Search(S, x)
<1>2. \A l, r \in 0..n : places[<<l, r>>] = Nearest(c, l, r)
  OBVIOUS
\* There is such a function, so that the chosen one is one.
<1>3. places = Halves(S, x, places)
  <2> DEFINE h == Halves(S, x, places)
  <2>1. h = [range \in (0..n) \X (0..n) |-> h[range]]
    BY DEF Halves
  <2>2. ASSUME NEW range \in (0..n) \X (0..n) PROVE h[range] = Nearest(c, range[1], range[2])
    <3> DEFINE l == range[1]
               r == range[2]
               mid == (l + r) \div 2
    <3>1. l \in 0..n /\ r \in 0..n /\ range = <<l, r>>
      OBVIOUS
    <3> HIDE DEF l, r, h
    <3>2. h[<<l, r>>] = IF l >= r THEN l
                        ELSE IF x > S[mid + 1] THEN places[<<mid + 1, r>>] ELSE places[<<l, mid>>]
      <4> HIDE DEF places
      <4>1. n \in Nat /\ n = Len(S)
        BY <1>1
      <4>2. h[<<l, r>>] = HalfAt(S, x, places, l, r)
        BY <3>1, <4>1, HalvesAt DEF h
      <4> HIDE DEF mid
      <4>3. mid = (l + r) \div 2
        BY DEF mid
      <4> QED BY <4>2, <4>3 DEF HalfAt
    <3>3. CASE l >= r
      BY <3>1, <3>2, <3>3 DEF Nearest, l, r
    <3>4. CASE ~(l >= r)
      <4>0. l < r
        BY <3>1, <3>4
      <4> HIDE DEF mid
      <4>a. mid = (l + r) \div 2
        BY DEF mid
      <4>1. /\ mid \in 0..n /\ mid + 1 \in 0..n
            /\ x > S[mid + 1] => Nearest(c, mid + 1, r) = Nearest(c, l, r)
            /\ ~(x > S[mid + 1]) => Nearest(c, l, mid) = Nearest(c, l, r)
        <5>1. HalfKeeps(S, n, x, c, l, r, mid)
          BY <1>1, <3>1, <4>0, <4>a, HalfNearest
        <5> QED BY <5>1 DEF HalfKeeps
      <4>2. h[<<l, r>>] = IF x > S[mid + 1] THEN places[<<mid + 1, r>>] ELSE places[<<l, mid>>]
        BY <3>2, <3>4 DEF mid
      <4>3. places[<<mid + 1, r>>] = Nearest(c, mid + 1, r) /\ places[<<l, mid>>] = Nearest(c, l, mid)
        BY <1>2, <3>1, <4>1
      <4> HIDE DEF places
      <4>4. h[<<l, r>>] = Nearest(c, l, r)
        BY <4>1, <4>2, <4>3
      <4> QED BY <3>1, <4>4 DEF l, r
    <3> QED BY <3>3, <3>4
  <2> HIDE DEF h
  <2>3. h = places
    BY <2>1, <2>2
  <2> QED BY <2>3 DEF h
<1>4. f = Halves(S, x, f)
  <2> HIDE DEF places
  <2> QED BY <1>3 DEF Search
<1> HIDE DEF places, f
\* It finds the nearest place in every range of at most d numbers.
<1> DEFINE Good == {d \in Nat : \A l, r \in 0..n : r - l <= d => f[<<l, r>>] = Nearest(c, l, r)}
<1>5. \A l, r \in 0..n :
        f[<<l, r>>] = IF l >= r THEN l
                      ELSE IF x > S[((l + r) \div 2) + 1] THEN f[<<((l + r) \div 2) + 1, r>>]
                                                          ELSE f[<<l, (l + r) \div 2>>]
  <2> SUFFICES ASSUME NEW l \in 0..n, NEW r \in 0..n
               PROVE  f[<<l, r>>] = IF l >= r THEN l
                                    ELSE IF x > S[((l + r) \div 2) + 1] THEN f[<<((l + r) \div 2) + 1, r>>]
                                                                        ELSE f[<<l, (l + r) \div 2>>]
    OBVIOUS
  <2>1. Halves(S, x, f)[<<l, r>>] =
          IF l >= r THEN l
          ELSE IF x > S[((l + r) \div 2) + 1] THEN f[<<((l + r) \div 2) + 1, r>>]
                                              ELSE f[<<l, (l + r) \div 2>>]
    <3>1. n \in Nat /\ n = Len(S)
      BY <1>1
    <3>2. Halves(S, x, f)[<<l, r>>] = HalfAt(S, x, f, l, r)
      BY <3>1, HalvesAt
    <3> QED BY <3>2 DEF HalfAt
  <2> QED BY <1>4, <2>1
<1>6. 0 \in Good
  <2>1. ASSUME NEW l \in 0..n, NEW r \in 0..n, r - l <= 0 PROVE f[<<l, r>>] = Nearest(c, l, r)
    <3>1. l >= r
      BY <1>1, <2>1
    <3> QED BY <1>5, <3>1 DEF Nearest
  <2> QED BY <2>1
<1>7. ASSUME NEW d \in Nat, d \in Good PROVE d + 1 \in Good
  <2>0. \A l, r \in 0..n : r - l <= d => f[<<l, r>>] = Nearest(c, l, r)
    BY <1>7
  <2> HIDE DEF Good
  <2>1. ASSUME NEW l \in 0..n, NEW r \in 0..n, r - l <= d + 1 PROVE f[<<l, r>>] = Nearest(c, l, r)
    <3>1. CASE l >= r
      BY <1>5, <3>1 DEF Nearest
    <3>2. CASE ~(l >= r)
      <4>0. l < r
        BY <1>1, <3>2
      <4> DEFINE mid == (l + r) \div 2
      <4>a. f[<<l, r>>] = IF x > S[mid + 1] THEN f[<<mid + 1, r>>] ELSE f[<<l, mid>>]
        BY <1>5, <3>2
      <4>b. mid = (l + r) \div 2
        OBVIOUS
      <4> HIDE DEF mid
      <4>1. /\ mid \in 0..n /\ l <= mid /\ mid < r /\ mid + 1 \in 0..n
            /\ x > S[mid + 1] => Nearest(c, mid + 1, r) = Nearest(c, l, r)
            /\ ~(x > S[mid + 1]) => Nearest(c, l, mid) = Nearest(c, l, r)
        <5>1. HalfKeeps(S, n, x, c, l, r, mid)
          BY <1>1, <4>0, <4>b, HalfNearest
        <5> QED BY <5>1 DEF HalfKeeps
      <4>2. r - (mid + 1) <= d /\ mid - l <= d
        BY <1>1, <2>1, <4>1
      <4>3. f[<<mid + 1, r>>] = Nearest(c, mid + 1, r) /\ f[<<l, mid>>] = Nearest(c, l, mid)
        BY <2>0, <4>1, <4>2
      <4> QED BY <4>1, <4>3, <4>a
    <3> QED BY <3>1, <3>2
  <2> QED BY <2>1 DEF Good
<1>8. Nat \subseteq Good
  <2> HIDE DEF Good
  <2> QED BY <1>6, <1>7, AllNumbers
<1>9. f[<<0, n>>] = Nearest(c, 0, n)
  <2>1. \A l, r \in 0..n : r - l <= n => f[<<l, r>>] = Nearest(c, l, r)
    BY <1>1, <1>8
  <2>2. 0 \in 0..n /\ n \in 0..n /\ n - 0 <= n
    BY <1>1
  <2> QED BY <2>1, <2>2
<1>10. Nearest(c, 0, n) = c
  BY <1>1 DEF Nearest
<1> QED BY <1>9, <1>10 DEF f

\* GetValue, by its search.
LEMMA GetValueIs ==
  ASSUME NEW function, NEW x
  PROVE  GetValue(function, x) =
           IF IsValid(function) THEN function.values[Search(function.splits, x)[<<0, Len(function.splits)>>] + 1]
           ELSE 0
  BY DEF GetValue, Search, Halves

\* A function that is not there is 0.
LEMMA NothingIs == ~IsValid(NoFunction) /\ \A x : GetValue(NoFunction, x) = 0
<1>1. ~IsValid(NoFunction)
  BY DEF IsValid, NoFunction
<1> QED BY <1>1, GetValueIs

\* The value that numbers, values and splits in turn, have at x.
SplitsBelow(numbers, x) == {k \in DOMAIN numbers : k % 2 = 0 /\ numbers[k] < x}
ValueAt(numbers, x) ==
  LET below == SplitsBelow(numbers, x)
  IN numbers[2 * Cardinality(below) + 1]

FunctionSays(function, numbers) ==
  /\ IsValid(function) \/ function = NoFunction
  /\ function = NoFunction <=> Len(numbers) % 2 = 0
  /\ \A x \in Int : GetValue(function, x) = IF Len(numbers) % 2 = 0 THEN 0 ELSE ValueAt(numbers, x)

\* As many splits are below x, sorted or not.
LEMMA CountBelow ==
  ASSUME NEW numbers \in Seq(Int), NEW n \in Nat, 2 * n <= Len(numbers), Len(numbers) <= 2 * n + 1,
         NEW splits, \A k \in 1..n : splits[k] = numbers[2 * k],
         NEW S, NEW order, Reordered(order, n, splits, S),
         NEW x \in Int, NEW c \in 0..n, Below(n, S, x, c)
  PROVE  Cardinality(SplitsBelow(numbers, x)) = c
<1> DEFINE below == {k \in DOMAIN numbers : k % 2 = 0 /\ numbers[k] < x}
           g     == [k \in 1..c |-> 2 * order[k]]
           l     == Len(numbers)
<1>1. l \in Nat /\ DOMAIN numbers = 1..l /\ 2 * n <= l /\ l <= 2 * n + 1 /\ c \in Int /\ 0 <= c /\ c <= n
  OBVIOUS
<1> HIDE DEF l
<1>2. /\ \A k \in 1..n : order[k] \in 1..n /\ S[k] = numbers[2 * order[k]]
      /\ \A m \in 1..n : \E k \in 1..n : order[k] = m
      /\ \A m, k \in 1..n : m < k => order[m] # order[k]
  BY DEF Reordered
<1>3. ASSUME NEW k \in 1..c PROVE g[k] \in below
  <2>1. k \in 1..n
    BY <1>1
  <2> DEFINE m == order[k]
  <2>2. m \in 1..n /\ S[k] = numbers[2 * m] /\ g[k] = 2 * m
    BY <1>2, <2>1
  <2>3. S[k] < x
    BY DEF Below
  <2> HIDE DEF m, g
  <2>4. 2 * m \in 1..l /\ (2 * m) % 2 = 0
    BY <1>1, <2>2
  <2> QED BY <1>1, <2>2, <2>3, <2>4
<1>4. ASSUME NEW k \in 1..c, NEW m \in 1..c, g[k] = g[m] PROVE k = m
  <2>1. k \in 1..n /\ m \in 1..n
    BY <1>1
  <2>2. order[k] = order[m]
    <3> DEFINE a == order[k]
               b == order[m]
    <3>1. 2 * a = 2 * b
      BY <1>4
    <3>2. a \in 1..n /\ b \in 1..n
      BY <1>2, <2>1
    <3> HIDE DEF g, a, b
    <3>3. a = b
      BY <3>1, <3>2
    <3> QED BY <3>3 DEF a, b
  <2>3. k < m \/ m < k \/ k = m
    BY <1>1
  <2> QED BY <1>2, <2>1, <2>2, <2>3
<1>5. ASSUME NEW k \in below PROVE \E m \in 1..c : g[m] = k
  <2>1. k \in 1..l /\ k % 2 = 0 /\ numbers[k] < x
    BY <1>1
  <2> DEFINE h == k \div 2
  <2>2. h \in 1..n /\ k = 2 * h
    BY <1>1, <2>1
  <2> HIDE DEF h
  <2>3. PICK m \in 1..n : order[m] = h
    BY <1>2, <2>2
  <2>4. S[m] = numbers[k]
    BY <1>2, <2>2, <2>3
  <2>5. m <= c
    <3> SUFFICES ASSUME ~(m <= c) PROVE FALSE
      OBVIOUS
    <3>1. m \in c + 1..n
      BY <1>1
    <3>2. S[m] >= x
      BY <3>1 DEF Below
    <3> DEFINE y == numbers[k]
    <3>3. y < x /\ y \in Int /\ y >= x
      BY <1>1, <2>1, <2>4, <3>2
    <3> HIDE DEF y
    <3> QED BY <3>3
  <2>6. m \in 1..c
    BY <1>1, <2>5
  <2> QED BY <2>2, <2>3, <2>6
<1> HIDE DEF below
<1>6. g \in [1..c -> below]
  <2>1. DOMAIN g = 1..c
    OBVIOUS
  <2>2. g = [k \in 1..c |-> g[k]]
    OBVIOUS
  <2> HIDE DEF g
  <2> QED BY <1>3, <2>1, <2>2
<1> HIDE DEF g
<1>7. g \in Injection(1..c, below)
  BY <1>4, <1>6 DEF Injection, IsInjective
<1>8. g \in Surjection(1..c, below)
  BY <1>5, <1>6 DEF Surjection
<1>9. g \in Bijection(1..c, below)
  BY <1>7, <1>8 DEF Bijection
<1>10. ExistsBijection(1..c, below)
  BY <1>9 DEF ExistsBijection
<1>11. IsFiniteSet(1..c) /\ Cardinality(1..c) = c
  <2>1. 1 \in Int /\ c \in Int
    BY <1>1
  <2>2. IsFiniteSet(1..c) /\ Cardinality(1..c) = IF 1 > c THEN 0 ELSE c - 1 + 1
    BY <2>1, FS_Interval
  <2>3. (IF 1 > c THEN 0 ELSE c - 1 + 1) = c
    BY <1>1
  <2> QED BY <2>2, <2>3
<1>12. Cardinality(below) = c
  BY <1>10, <1>11, FS_Bijection
<1> QED BY <1>12 DEF below, SplitsBelow

\* A function says what its numbers say.
LEMMA FunctionIs ==
  ASSUME NEW v, NEW w, Stripped(v, w)
  PROVE  FunctionSays(DeserializeFunction(v), Figures(w))
<1> DEFINE numbers == Figures(w)
           l      == Len(numbers)
           values == [at \in 1..(l + 1) \div 2 |-> numbers[2 * at - 1]]
           splits == [at \in 1..l \div 2 |-> numbers[2 * at]]
           F      == DeserializeFunction(v)
           n      == l \div 2
<1>1. numbers \in Seq(Int) /\ Numerals(v) = numbers
  BY NumeralsIs
<1>2. F = IF Len(values) # Len(splits) + 1 THEN NoFunction ELSE StepFunction(values, splits)
  BY <1>1 DEF DeserializeFunction
<1>3. l \in Nat /\ DOMAIN numbers = 1..l /\ \A k \in 1..l : numbers[k] \in Int
  BY <1>1
<1> HIDE DEF F
<1>l. l = Len(numbers)
  OBVIOUS
<1> HIDE DEF numbers, l
<1>4. n \in Nat /\ (l = 2 * n \/ l = 2 * n + 1) /\ (l % 2 = 0 <=> l = 2 * n)
  BY <1>3
<1> DEFINE v1 == (l + 1) \div 2
<1>v. v1 \in Nat /\ 2 * v1 <= l + 1
  BY <1>3
<1>5. v1 = IF l = 2 * n THEN n ELSE n + 1
  BY <1>3, <1>4
<1>s. /\ splits = [at \in 1..n |-> numbers[2 * at]]
      /\ values = [at \in 1..v1 |-> numbers[2 * at - 1]]
  OBVIOUS
<1> HIDE DEF n, v1
<1>6. splits \in Seq(Int) /\ Len(splits) = n /\ \A at \in 1..n : splits[at] = numbers[2 * at]
  <2>1. \A at \in 1..n : numbers[2 * at] \in Int
    <3>1. \A at \in 1..n : 2 * at \in 1..l
      BY <1>3, <1>4
    <3> QED BY <1>3, <3>1
  <2> HIDE DEF splits, values
  <2>2. splits \in [1..n -> Int]
    BY <1>s, <2>1
  <2>3. splits \in Seq(Int)
    BY <1>4, <2>2
  <2> QED BY <1>4, <1>s, <2>2, <2>3
<1>7. values \in Seq(Int) /\ Len(values) = v1 /\ \A at \in 1..v1 : values[at] = numbers[2 * at - 1]
  <2>1. \A at \in 1..v1 : numbers[2 * at - 1] \in Int
    <3>1. \A at \in 1..v1 : 2 * at - 1 \in 1..l
      BY <1>3, <1>v
    <3> QED BY <1>3, <3>1
  <2> HIDE DEF splits, values
  <2>2. values \in [1..v1 -> Int]
    BY <1>s, <2>1
  <2>3. values \in Seq(Int)
    BY <1>v, <2>2
  <2> QED BY <1>v, <1>s, <2>2, <2>3
<1> HIDE DEF splits, values
<1>8. CASE l = 2 * n
  <2>1. F = NoFunction
    <3>1. v1 # n + 1
      BY <1>4, <1>5, <1>8
    <3> QED BY <1>2, <1>6, <1>7, <3>1
  <2>2. \A x \in Int : GetValue(F, x) = 0
    BY <2>1, NothingIs
  <2> QED BY <1>4, <1>8, <1>l, <2>1, <2>2 DEF FunctionSays, F, numbers
<1>9. CASE l # 2 * n
  <2>1. l = 2 * n + 1 /\ ~(l % 2 = 0) /\ v1 = n + 1
    BY <1>4, <1>5, <1>9
  <2>2. F = [values |-> values, splits |-> Sorted(splits)]
    <3>1. ~(Len(values) # Len(splits) + 1)
      BY <1>6, <1>7, <2>1
    <3> QED BY <1>2, <3>1 DEF StepFunction
  <2> DEFINE S == Sorted(splits)
  <2>a. PICK order : Reordered(order, n, splits, S)
    BY <1>6, SortedIs
  <2>3. S \in Seq(Int) /\ Len(S) = n /\ Rising(n, S)
    BY <2>a DEF Reordered
  <2>4. F.values = values /\ F.splits = S
    BY <2>2
  <2> HIDE DEF S
  <2>5. IsValid(F)
    <3>1. Len(F.values) = Len(F.splits) + 1
      BY <1>7, <2>1, <2>3, <2>4
    <3> QED BY <3>1 DEF IsValid
  <2>6. F # NoFunction
    BY <2>5, NothingIs
  <2>7. ASSUME NEW x \in Int PROVE GetValue(F, x) = ValueAt(numbers, x)
    <3>1. PICK c \in 0..n : Below(n, S, x, c)
      <4>1. S \in [1..n -> Int]
        BY <1>4, <2>3
      <4> QED BY <1>4, <2>3, <4>1, CutPoint
    <3>2. GetValue(F, x) = F.values[Search(F.splits, x)[<<0, Len(F.splits)>>] + 1]
      BY <2>5, GetValueIs
    <3>3. Search(S, x)[<<0, n>>] = c
      BY <2>3, <3>1, SearchIs
    <3>4. GetValue(F, x) = values[c + 1]
      BY <2>3, <2>4, <3>2, <3>3
    <3>5. c + 1 \in 1..v1 /\ 2 * (c + 1) - 1 = 2 * c + 1
      BY <1>4, <2>1
    <3>6. values[c + 1] = numbers[2 * c + 1]
      <4>1. values[c + 1] = numbers[2 * (c + 1) - 1]
        BY <1>7, <3>5
      <4> QED BY <3>5, <4>1
    <3>7. Cardinality(SplitsBelow(numbers, x)) = c
      <4>2. 2 * n <= l /\ l <= 2 * n + 1 /\ n \in Nat
        BY <1>3, <1>4
      <4>3. 2 * n <= Len(numbers) /\ Len(numbers) <= 2 * n + 1 /\ n \in Nat
        BY <1>l, <4>2
      <4>4. numbers \in Seq(Int)
        BY <1>1
      <4> QED BY <1>6, <2>a, <3>1, <4>3, <4>4, CountBelow
    <3> QED BY <3>4, <3>6, <3>7 DEF ValueAt
  <2> QED BY <1>l, <2>1, <2>5, <2>6, <2>7 DEF FunctionSays, F, numbers
<1> QED BY <1>8, <1>9

-----------------------------------------------------------------------------
(* Loading.  The members are what the lines say, read as Param's properties    *)
(* read them.                                                                  *)

\* What the first line that says something of a name says of it.
WrittenIn(lines, name) ==
  LET says == {k \in DOMAIN lines : Said(lines[k], name) # <<>>}
  IN IF says = {} THEN <<>> ELSE Said(lines[Min(says)], name)

\* A line more says something only where the lines before did not.
LEMMA WrittenMore ==
  ASSUME NEW X, NEW lines \in Seq(X), NEW line \in X, NEW name
  PROVE  WrittenIn(Append(lines, line), name) =
           IF WrittenIn(lines, name) # <<>> THEN WrittenIn(lines, name) ELSE Said(line, name)
<1> DEFINE n == Len(lines)
           more == Append(lines, line)
           says == {k \in DOMAIN lines : Said(lines[k], name) # <<>>}
           all  == {k \in DOMAIN more : Said(more[k], name) # <<>>}
<1>1. /\ n \in Nat /\ DOMAIN lines = 1..n /\ DOMAIN more = 1..n + 1
      /\ more[n + 1] = line /\ \A k \in 1..n : more[k] = lines[k]
  BY OneMore
<1>2. /\ WrittenIn(lines, name) = IF says = {} THEN <<>> ELSE Said(lines[Min(says)], name)
      /\ WrittenIn(more, name) = IF all = {} THEN <<>> ELSE Said(more[Min(all)], name)
  BY DEF WrittenIn
<1> HIDE DEF n, more
<1>3. /\ \A k \in says : k \in 1..n /\ k \in all /\ Said(lines[k], name) # <<>>
      /\ \A k \in all : k \in says \/ k = n + 1
      /\ n + 1 \in all <=> Said(line, name) # <<>>
      /\ \A k \in all : k \in 1..n + 1
  <2>1. ASSUME NEW k \in says PROVE k \in 1..n /\ k \in all /\ Said(lines[k], name) # <<>>
    <3>1. k \in 1..n /\ k \in 1..n + 1 /\ Said(lines[k], name) # <<>>
      BY <1>1
    <3> QED BY <1>1, <3>1
  <2>2. ASSUME NEW k \in all PROVE k \in 1..n + 1 /\ (k \in says \/ k = n + 1)
    <3>1. k \in 1..n + 1 /\ Said(more[k], name) # <<>>
      BY <1>1
    <3>2. k = n + 1 \/ k \in 1..n
      BY <1>1, <3>1
    <3> QED BY <1>1, <3>1, <3>2
  <2>3. n + 1 \in all <=> Said(line, name) # <<>>
    <3>1. n + 1 \in 1..n + 1
      BY <1>1
    <3> QED BY <1>1, <3>1
  <2> HIDE DEF says, all
  <2> QED BY <2>1, <2>2, <2>3
<1> HIDE DEF says, all
<1>4. CASE says # {}
  <2>1. PICK k \in says : \A l \in says : k <= l
    <3>1. says \subseteq Nat
      BY <1>1, <1>3
    <3> QED BY <1>4, <3>1, LeastOf
  <2>2. Min(says) = k
    <3>1. says \subseteq Int
      BY <1>1, <1>3
    <3> QED BY <2>1, <3>1, MinIs
  <2>3. Min(all) = k
    <3>1. all \subseteq Int /\ k \in all
      BY <1>1, <1>3
    <3>2. ASSUME NEW l \in all PROVE k <= l
      <4>1. l \in says \/ l = n + 1
        BY <1>3
      <4>2. k \in 1..n
        BY <1>3
      <4>3. l \in says => k <= l
        BY <2>1
      <4> QED BY <1>1, <4>1, <4>2, <4>3
    <3> QED BY <3>1, <3>2, MinIs
  <2>4. k \in 1..n /\ k \in all /\ Said(lines[k], name) # <<>>
    BY <1>3
  <2>5. more[k] = lines[k]
    BY <1>1, <2>4
  <2> QED BY <1>2, <1>4, <2>2, <2>3, <2>4, <2>5 DEF more
<1>5. CASE says = {}
  <2>1. WrittenIn(lines, name) = <<>>
    BY <1>2, <1>5
  <2>2. CASE Said(line, name) = <<>>
    <3>1. all = {}
      BY <1>3, <1>5, <2>2
    <3> QED BY <1>2, <2>1, <2>2, <3>1 DEF more
  <2>3. CASE Said(line, name) # <<>>
    <3>1. n + 1 \in all /\ \A l \in all : l = n + 1
      BY <1>3, <1>5, <2>3
    <3>2. Min(all) = n + 1
      <4>1. all \subseteq Int /\ n + 1 \in Int
        BY <1>1, <1>3
      <4>2. \A l \in all : n + 1 <= l
        BY <3>1, <4>1
      <4> DEFINE o == n + 1
      <4> HIDE DEF o
      <4>3. o \in all /\ all \subseteq Int /\ \A l \in all : o <= l
        BY <3>1, <4>1, <4>2 DEF o
      <4>4. Min(all) = o
        BY <4>3, MinIs
      <4> QED BY <4>4 DEF o
    <3>3. all # {}
      BY <3>1
    <3> QED BY <1>1, <1>2, <2>1, <3>2, <3>3 DEF more
  <2> QED BY <2>2, <2>3
<1> QED BY <1>4, <1>5

\* The members' names.
LEMMA FunctionNames ==
  /\ DOMAIN Functions = 1..3
  /\ Functions[1] = "pv_step_function" /\ Functions[2] = "uv_step_function"
  /\ Functions[3] = "win_rate_step_function"
  /\ ToSet(Functions) = {"pv_step_function", "uv_step_function", "win_rate_step_function"}
<1>1. /\ DOMAIN Functions = 1..3
      /\ Functions[1] = "pv_step_function" /\ Functions[2] = "uv_step_function"
      /\ Functions[3] = "win_rate_step_function"
  BY DEF Functions
<1>2. ToSet(Functions) = {Functions[1], Functions[2], Functions[3]}
  <2>1. ToSet(Functions) = {Functions[k] : k \in 1..3}
    BY <1>1 DEF ToSet
  <2>2. \A k : k \in 1..3 <=> k = 1 \/ k = 2 \/ k = 3
    OBVIOUS
  <2> QED BY <2>1, <2>2
<1> QED BY <1>1, <1>2

\* The kinds of members have no name in common.
LEMMA Kinds ==
  /\ Bools \cap Doubles = {} /\ Bools \cap Maps = {} /\ Doubles \cap Maps = {}
  /\ ToSet(Functions) \cap (Bools \cup Doubles \cup Maps) = {}
  /\ \A f, g \in DOMAIN Functions : Functions[f] = Functions[g] => f = g
  /\ \A name \in Members : IsName(name)
<1>1. Bools \cap Doubles = {} /\ Bools \cap Maps = {} /\ Doubles \cap Maps = {}
  BY DEF Bools, Doubles, Maps
<1>2. ToSet(Functions) \cap (Bools \cup Doubles \cup Maps) = {}
  BY FunctionNames DEF Bools, Doubles, Maps
<1>3. \A f, g \in DOMAIN Functions : Functions[f] = Functions[g] => f = g
  <2>1. \A f \in DOMAIN Functions : f = 1 \/ f = 2 \/ f = 3
    BY FunctionNames
  <2>2. Functions[1] # Functions[2] /\ Functions[2] # Functions[3] /\ Functions[1] # Functions[3]
    BY FunctionNames
  <2> QED BY <2>1, <2>2
<1>4. \A name \in Members : name # "=" /\ name # "#"
  <2>1. \A name \in Bools : name # "=" /\ name # "#"
    BY DEF Bools
  <2>2. \A name \in Doubles : name # "=" /\ name # "#"
    BY DEF Doubles
  <2>3. \A name \in Maps : name # "=" /\ name # "#"
    BY DEF Maps
  <2>4. \A name \in ToSet(Functions) : name # "=" /\ name # "#"
    BY FunctionNames
  <2> QED BY <2>1, <2>2, <2>3, <2>4 DEF Members
<1> QED BY <1>1, <1>2, <1>3, <1>4 DEF IsName

\* What Clear leaves.
LEMMA ClearedIs ==
  /\ DOMAIN Cleared = Members
  /\ \A name \in Bools : Cleared[name] = FALSE
  /\ \A name \in Doubles : Cleared[name] = 0
  /\ \A name \in Maps : Cleared[name] = <<>>
  /\ \A f \in DOMAIN Functions : Cleared[Functions[f]] = NoFunction
<1>1. \A f \in DOMAIN Functions : Functions[f] \in ToSet(Functions)
  BY DEF ToSet
<1>2. \A name \in Members : Cleared[name] = CASE name \in Bools   -> FALSE
                                              [] name \in Doubles -> 0
                                              [] name \in Maps    -> <<>>
                                              [] OTHER            -> NoFunction
  BY DEF Cleared
<1>3. DOMAIN Cleared = Members
  BY DEF Cleared
<1>4. ASSUME NEW name \in Bools PROVE Cleared[name] = FALSE
  BY <1>2, Kinds DEF Members
<1>5. ASSUME NEW name \in Doubles PROVE Cleared[name] = 0
  BY <1>2, Kinds DEF Members
<1>6. ASSUME NEW name \in Maps PROVE Cleared[name] = <<>>
  BY <1>2, Kinds DEF Members
<1>7. ASSUME NEW f \in DOMAIN Functions PROVE Cleared[Functions[f]] = NoFunction
  <2>1. Functions[f] \in Members /\ Functions[f] \notin Bools /\ Functions[f] \notin Doubles
        /\ Functions[f] \notin Maps
    BY <1>1, Kinds DEF Members
  <2> QED BY <1>2, <2>1
<1> QED BY <1>3, <1>4, <1>5, <1>6, <1>7

\* What the lines say of the members, and of the functions and the result of the load.
ValuesSay(lines, members) ==
  /\ \A name \in Bools : members[name] = (ToLower(WrittenIn(lines, name)) = <<"true">>)
  /\ \A name \in Doubles : members[name] = ToDouble(WrittenIn(lines, name))
  /\ \A name \in Maps : \A p, t \in Int :
       Get(members[name], p, t) = LastItem(WrittenIn(lines, name), p, t)

UnfinishedIn(lines) == {f \in DOMAIN Functions :
                          /\ WrittenIn(lines, Functions[f]) # <<>>
                          /\ Len(Figures(WrittenIn(lines, Functions[f]))) % 2 = 0}
StepIn(lines, f, x) ==
  LET numbers == Figures(WrittenIn(lines, Functions[f]))
  IN IF numbers = <<>> \/ \E g \in UnfinishedIn(lines) : g <= f THEN 0 ELSE ValueAt(numbers, x)

FunctionsSay(lines, members, result) ==
  /\ result = -1 <=> UnfinishedIn(lines) # {}
  /\ \A f \in DOMAIN Functions : \A x \in Int :
       GetValue(members[Functions[f]], x) = StepIn(lines, f, x)

\* The members have their types.
MembersOK(members) ==
  /\ DOMAIN members = Members
  /\ \A name \in Bools : members[name] \in BOOLEAN
  /\ \A name \in Doubles : members[name] \in Int
  /\ \A name \in Maps : \A key \in DOMAIN members[name] : members[name][key] \in Int
  /\ \A f \in DOMAIN Functions : IsValid(members[Functions[f]]) \/ members[Functions[f]] = NoFunction

\* The buffer has of every member what the file says, nothing is loaded before the file is
\* read, and what is loaded is what it says.
SettingsInv ==
  /\ ParamTypeOK /\ MembersOK(param) /\ Full(buffer)
  /\ file \in Seq(Lines)
  /\ \A name \in Members : Holds(buffer, name, WrittenIn(file, name))
  /\ stage \in {"idle", "read"} => param = Cleared
  /\ stage \in {"loaded", "answered"} => ValuesSay(file, param) /\ FunctionsSay(file, param, return)
  /\ stage = "answered" =>
       \E estimate \in Estimates : uv = <<estimate[1], Limited(estimate[1], estimate[2])>>

\* A truth value is read as it is written.
LEMMA BoolIs ==
  ASSUME NEW v, NEW w, Stripped(v, w)
  PROVE  ToBool(v) \in BOOLEAN /\ ToBool(v) = (ToLower(w) = <<"true">>)
<1>1. v \in Seq(Sign) /\ Bare(v) = w
  BY DEF Stripped
<1>2. Stripped(Strip(v), w)
  BY <1>1, StripAgain
<1>3. ToLower(Strip(v)) = <<"true">> <=> ToLower(w) = <<"true">>
  BY <1>2, SameLower
<1>4. ToBool(v) = (ToLower(Strip(v)) = <<"true">>)
  BY DEF ToBool
<1> DEFINE a == ToLower(Strip(v)) = <<"true">>
           b == ToLower(w) = <<"true">>
<1>5. a \in BOOLEAN /\ b \in BOOLEAN /\ (a <=> b)
  BY <1>3
<1> HIDE DEF a, b
<1>6. a = b
  BY <1>5
<1> QED BY <1>4, <1>5, <1>6 DEF a, b

\* The values of a map are numbers.
LEMMA MapType == ASSUME NEW v PROVE \A key \in DOMAIN DeserializeMap(v) : DeserializeMap(v)[key] \in Int
<1> DEFINE G == SplitTwo(v, Bar, Comma)
           good      == {g \in DOMAIN G : Len(G[g]) >= 3}
           Num(g, f) == ToDouble(Strip(G[g][f]))
           Key(g)    == <<Num(g, 1), Num(g, 2)>>
           map       == DeserializeMap(v)
<1>1. map = [key \in {Key(g) : g \in good} |-> Num(Max({g \in good : Key(g) = key}), 3)]
  BY DEF DeserializeMap
<1>2. \A g, f : Num(g, f) \in Int
  BY DoubleType
<1> HIDE DEF G, good, Num, Key, map
<1>3. \A key \in DOMAIN map : map[key] \in Int
  BY <1>1, <1>2
<1> QED BY <1>3 DEF map

\* Where the file has no value.
LEMMA NothingSaid ==
  /\ ToLower(<<>>) # <<"true">> /\ ToDouble(<<>>) = 0 /\ Figures(<<>>) = <<>>
  /\ \A p, t : Get(<<>>, p, t) = 0 /\ LastItem(<<>>, p, t) = 0
<1>1. ToLower(<<>>) # <<"true">>
  <2>1. ToLower(<<>>) = <<>>
    BY DEF ToLower
  <2> QED BY <2>1
<1>2. ToDouble(<<>>) = 0
  BY DEF ToDouble
<1>3. Figures(<<>>) = <<>>
  <2>1. <<>> \in Seq(Sign) /\ Append(<<>>, <<>>) = <<<<>>>>
    BY AppendNone
  <2>2. Figures(<<>>) = InNumbers(<<<<>>>>)
    BY <2>1, FiguresIs, SplitEmpty
  <2>3. <<>> \in Seq(Seq(Sign))
    OBVIOUS
  <2>4. InNumbers(Append(<<>>, <<>>)) = InNumbers(<<>>)
    BY <2>1, <2>3, InNumbersAppend
  <2> QED BY <2>1, <2>2, <2>4, InNumbersEmpty
<1>4. ASSUME NEW p, NEW t PROVE Get(<<>>, p, t) = 0 /\ LastItem(<<>>, p, t) = 0
  <2>1. DOMAIN <<>> = {}
    OBVIOUS
  <2> QED BY <2>1 DEF Get, LastItem
<1> QED BY <1>1, <1>2, <1>3, <1>4

\* What Fill puts into a member.
LEMMA FillIs ==
  ASSUME SettingsInv, Fill
  PROVE  /\ \A name \in Members : /\ Has(name) <=> WrittenIn(file, name) # <<>>
                                  /\ Has(name) => Stripped(Value(name), WrittenIn(file, name))
                                  /\ param'[name] = IF Has(name) /\ name \in Reached
                                                    THEN Loaded(name) ELSE Cleared[name]
         /\ DOMAIN param' = Members
<1>1. param = Cleared /\ DOMAIN param = Members
  BY ClearedIs DEF SettingsInv, Fill
<1>2. param' = [name \in Members |-> IF Has(name) /\ name \in Reached THEN Loaded(name) ELSE Cleared[name]]
  BY <1>1 DEF Fill
<1>3. ASSUME NEW name \in Members
      PROVE  /\ Has(name) <=> WrittenIn(file, name) # <<>>
             /\ Has(name) => Stripped(Value(name), WrittenIn(file, name))
  <2>1. Holds(buffer, name, WrittenIn(file, name))
    BY DEF SettingsInv
  <2> QED BY <2>1 DEF Holds, Has, Value
<1> QED BY <1>2, <1>3

\* What is loaded into a member of each kind.
LEMMA LoadedIs ==
  ASSUME NEW name
  PROVE  /\ name \in Bools => Loaded(name) = ToBool(Value(name))
         /\ name \in Doubles => Loaded(name) = ToDouble(Value(name))
<1> DEFINE truth  == ToBool(Value(name))
           number == ToDouble(Value(name))
           map    == DeserializeMap(Value(name))
           other  == DeserializeFunction(Value(name))
<1>1. Loaded(name) = CASE name \in Bools   -> truth
                       [] name \in Doubles -> number
                       [] name \in Maps    -> map
                       [] OTHER            -> other
  BY DEF Loaded
<1> HIDE DEF truth, number, map, other
<1>2. name \in Bools => name \notin Doubles /\ name \notin Maps
  BY Kinds
<1>3. name \in Doubles => name \notin Bools /\ name \notin Maps
  BY Kinds
<1>4. name \in Bools => Loaded(name) = truth
  BY <1>1, <1>2
<1>5. name \in Doubles => Loaded(name) = number
  BY <1>1, <1>3
<1> QED BY <1>4, <1>5 DEF truth, number

\* Fill, for values and maps.
LEMMA FillValues ==
  ASSUME SettingsInv, Fill
  PROVE  ValuesSay(file, param')
<1>1. ASSUME NEW name \in Members
      PROVE  /\ Has(name) <=> WrittenIn(file, name) # <<>>
             /\ Has(name) => Stripped(Value(name), WrittenIn(file, name))
             /\ param'[name] = IF Has(name) /\ name \in Reached THEN Loaded(name) ELSE Cleared[name]
  BY FillIs
<1>2. Bools \subseteq Members /\ Doubles \subseteq Members /\ Maps \subseteq Members
      /\ Bools \subseteq Reached /\ Doubles \subseteq Reached /\ Maps \subseteq Reached
  BY DEF Members, Reached
<1>3. ASSUME NEW name \in Bools PROVE param'[name] = (ToLower(WrittenIn(file, name)) = <<"true">>)
  <2> DEFINE w == WrittenIn(file, name)
             b == ToLower(w) = <<"true">>
  <2>1. CASE Has(name)
    <3>1. param'[name] = ToBool(Value(name)) /\ Stripped(Value(name), w)
      <4>1. name \in Members /\ name \in Reached
        BY <1>2
      <4>2. Loaded(name) = ToBool(Value(name))
        BY LoadedIs
      <4>3. param'[name] = Loaded(name) /\ Stripped(Value(name), w)
        BY <1>1, <2>1, <4>1, Zenon
      <4> QED BY <4>2, <4>3
    <3> QED BY <3>1, BoolIs
  <2>2. CASE ~Has(name)
    <3>1. param'[name] = FALSE /\ w = <<>>
      BY <1>1, <1>2, <2>2, ClearedIs
    <3>2. b = FALSE
      BY <3>1, NothingSaid
    <3> QED BY <3>1, <3>2
  <2> QED BY <2>1, <2>2
<1>4. ASSUME NEW name \in Doubles PROVE param'[name] = ToDouble(WrittenIn(file, name))
  <2> DEFINE w == WrittenIn(file, name)
  <2>1. CASE Has(name)
    <3>1. param'[name] = ToDouble(Value(name)) /\ Stripped(Value(name), w)
      <4>2. name \in Members /\ name \in Reached
        BY <1>2
      <4>3. Loaded(name) = ToDouble(Value(name))
        BY LoadedIs
      <4>4. param'[name] = Loaded(name) /\ Stripped(Value(name), w)
        BY <1>1, <2>1, <4>2, Zenon
      <4> QED BY <4>3, <4>4
    <3> QED BY <3>1, SameDouble
  <2>2. CASE ~Has(name)
    BY <1>1, <1>2, <2>2, ClearedIs, NothingSaid
  <2> QED BY <2>1, <2>2
<1>5. ASSUME NEW name \in Maps, NEW p \in Int, NEW t \in Int
      PROVE  Get(param'[name], p, t) = LastItem(WrittenIn(file, name), p, t)
  <2> DEFINE w == WrittenIn(file, name)
  <2>1. CASE Has(name)
    <3>1. param'[name] = DeserializeMap(Value(name)) /\ Stripped(Value(name), w)
      <4>1. name \notin Bools /\ name \notin Doubles
        BY Kinds
      <4> QED BY <1>1, <1>2, <2>1, <4>1 DEF Loaded
    <3> QED BY <3>1, MapIs
  <2>2. CASE ~Has(name)
    <3>1. param'[name] = <<>> /\ w = <<>>
      BY <1>1, <1>2, <2>2, ClearedIs
    <3> QED BY <3>1, NothingSaid
  <2> QED BY <2>1, <2>2
<1> QED BY <1>3, <1>4, <1>5 DEF ValuesSay

\* Fill, for step functions and the result of the load.
LEMMA FillFunctions ==
  ASSUME SettingsInv, Fill
  PROVE  /\ FunctionsSay(file, param', return')
         /\ \A f \in DOMAIN Functions : \/ IsValid(param'[Functions[f]])
                                        \/ param'[Functions[f]] = NoFunction
<1>1. ASSUME NEW name \in Members
      PROVE  /\ Has(name) <=> WrittenIn(file, name) # <<>>
             /\ Has(name) => Stripped(Value(name), WrittenIn(file, name))
             /\ param'[name] = IF Has(name) /\ name \in Reached THEN Loaded(name) ELSE Cleared[name]
  BY FillIs
<1> DEFINE W(f) == WrittenIn(file, Functions[f])
           D(f) == DeserializeFunction(Value(Functions[f]))
<1>2. ASSUME NEW f \in DOMAIN Functions
      PROVE  /\ Functions[f] \in Members
             /\ Has(Functions[f]) <=> W(f) # <<>>
             /\ Has(Functions[f]) => FunctionSays(D(f), Figures(W(f)))
             /\ Functions[f] \in Reached <=> \A bad \in BadAt : f < bad
             /\ Loaded(Functions[f]) = D(f)
             /\ param'[Functions[f]] = IF Has(Functions[f]) /\ Functions[f] \in Reached
                                       THEN D(f) ELSE NoFunction
  <2> DEFINE name == Functions[f]
  <2>1. name \in ToSet(Functions)
    BY DEF ToSet
  <2>2. name \in Members /\ name \notin Bools /\ name \notin Doubles /\ name \notin Maps
    BY <2>1, Kinds DEF Members
  <2>3. name \in Reached <=> \A bad \in BadAt : f < bad
    <3>1. name \in Reached <=> \E g \in DOMAIN Functions :
                                 (\A bad \in BadAt : g < bad) /\ name = Functions[g]
      BY <2>2 DEF Reached
    <3> QED BY <3>1, Kinds
  <2>4. Loaded(name) = D(f)
    BY <2>2 DEF Loaded
  <2>5. Cleared[name] = NoFunction
    BY ClearedIs
  <2>6. /\ Has(name) <=> W(f) # <<>>
        /\ Has(name) => Stripped(Value(name), W(f))
        /\ param'[name] = IF Has(name) /\ name \in Reached THEN Loaded(name) ELSE Cleared[name]
    BY <1>1, <2>2
  <2>7. Has(name) => FunctionSays(D(f), Figures(W(f)))
    BY <2>6, FunctionIs
  <2> QED BY <2>2, <2>3, <2>4, <2>5, <2>6, <2>7
<1>3. BadAt = UnfinishedIn(file)
  <2>1. ASSUME NEW f \in DOMAIN Functions PROVE f \in BadAt <=> f \in UnfinishedIn(file)
    BY <1>2 DEF BadAt, UnfinishedIn, FunctionSays
  <2>2. BadAt \subseteq DOMAIN Functions /\ UnfinishedIn(file) \subseteq DOMAIN Functions
    BY DEF BadAt, UnfinishedIn
  <2> QED BY <2>1, <2>2
<1>4. return' = -1 <=> UnfinishedIn(file) # {}
  <2>1. return' = IF BadAt = {} THEN 0 ELSE -1
    BY DEF Fill
  <2>2. 0 # -1
    OBVIOUS
  <2> QED BY <1>3, <2>1, <2>2
<1>5. ASSUME NEW f \in DOMAIN Functions
      PROVE  /\ \/ IsValid(param'[Functions[f]])
                \/ param'[Functions[f]] = NoFunction
             /\ \A x \in Int : GetValue(param'[Functions[f]], x) = StepIn(file, f, x)
  <2> DEFINE name    == Functions[f]
             numbers == Figures(W(f))
             Late    == \E g \in UnfinishedIn(file) : g <= f
  <2>1. f \in Int /\ UnfinishedIn(file) \subseteq Int
    <3>1. DOMAIN Functions \subseteq Int
      BY FunctionNames
    <3> QED BY <3>1 DEF UnfinishedIn
  <2>2. Functions[f] \in Reached <=> ~Late
    <3>1. name \in Reached <=> \A bad \in UnfinishedIn(file) : f < bad
      BY <1>2, <1>3
    <3> QED BY <2>1, <3>1
  <2>3. \A x : StepIn(file, f, x) = IF numbers = <<>> \/ Late THEN 0 ELSE ValueAt(numbers, x)
    BY DEF StepIn
  <2>4. CASE Has(name) /\ ~Late
    <3>1. param'[name] = D(f) /\ FunctionSays(D(f), numbers)
      BY <1>2, <2>2, <2>4
    <3>2. Len(numbers) % 2 # 0
      <4>1. f \notin UnfinishedIn(file)
        BY <2>1, <2>4
      <4>2. W(f) # <<>>
        BY <1>2, <2>4
      <4> QED BY <4>1, <4>2 DEF UnfinishedIn
    <3>3. numbers # <<>>
      <4>1. Len(<<>>) % 2 = 0
        OBVIOUS
      <4> HIDE DEF numbers
      <4> QED BY <3>2, <4>1
    <3> HIDE DEF numbers, Late
    <3> QED BY <2>3, <2>4, <3>1, <3>2, <3>3 DEF FunctionSays
  <2>5. CASE ~(Has(name) /\ ~Late)
    <3>1. param'[name] = NoFunction
      BY <1>2, <2>2, <2>5
    <3>2. numbers = <<>> \/ Late
      <4>1. CASE Late
        BY <4>1
      <4>2. CASE ~Late
        <5>1. W(f) = <<>>
          BY <1>2, <2>5, <4>2
        <5> QED BY <5>1, NothingSaid
      <4> QED BY <4>1, <4>2
    <3> HIDE DEF numbers, Late
    <3> QED BY <2>3, <3>1, <3>2, NothingIs
  <2> QED BY <2>4, <2>5
<1> QED BY <1>4, <1>5 DEF FunctionsSay

\* Fill keeps the types.
LEMMA FillTypes ==
  ASSUME SettingsInv, Fill
  PROVE  MembersOK(param')
<1>1. DOMAIN param' = Members
  BY FillIs
<1>2. ValuesSay(file, param')
  BY FillValues
<1>3. ASSUME NEW name \in Bools PROVE param'[name] \in BOOLEAN
  BY <1>2 DEF ValuesSay
<1>4. ASSUME NEW name \in Doubles PROVE param'[name] \in Int
  BY <1>2, DoubleType DEF ValuesSay
<1>5. ASSUME NEW name \in Maps PROVE \A key \in DOMAIN param'[name] : param'[name][key] \in Int
  <2>1. name \in Members /\ name \in Reached /\ name \notin Bools /\ name \notin Doubles
    BY Kinds DEF Members, Reached
  <2>2. param'[name] = DeserializeMap(Value(name)) \/ param'[name] = <<>>
    BY <2>1, FillIs, ClearedIs DEF Loaded
  <2>3. DOMAIN <<>> = {}
    OBVIOUS
  <2> QED BY <2>2, <2>3, MapType
<1> QED BY <1>1, <1>3, <1>4, <1>5, FillFunctions DEF MembersOK

-----------------------------------------------------------------------------
(* The parameters' invariant and what follows from it.                         *)

\* The limits are whole numbers.
LEMMA LimitedType ==
  ASSUME MembersOK(param), NEW pv \in Int, NEW estimate \in Int
  PROVE  Limited(pv, estimate) \in Int
<1> DEFINE least == pv * param.uv_pv_min_rate
           most  == pv * param.uv_pv_max_rate
           first == IF estimate * 10 > most THEN Ceil(most) ELSE estimate
<1>1. least \in Int /\ most \in Int
  <2>1. "uv_pv_min_rate" \in Doubles /\ "uv_pv_max_rate" \in Doubles
    BY DEF Doubles
  <2>2. param["uv_pv_min_rate"] \in Int /\ param["uv_pv_max_rate"] \in Int
    BY <2>1 DEF MembersOK
  <2>3. param.uv_pv_min_rate \in Int /\ param.uv_pv_max_rate \in Int
    BY <2>2
  <2> QED BY <2>3
<1>2. Limited(pv, estimate) = IF first * 10 < least THEN Ceil(least) ELSE first
  BY DEF Limited
<1> HIDE DEF least, most
<1>3. Ceil(least) \in Int /\ Ceil(most) \in Int
  BY <1>1 DEF Ceil
<1>4. first \in Int
  BY <1>3
<1> HIDE DEF first
<1> QED BY <1>2, <1>3, <1>4

\* Before the file is read.
LEMMA ClearedOK == MembersOK(Cleared)
<1>1. DOMAIN <<>> = {}
  OBVIOUS
<1>2. \A name \in Bools : Cleared[name] \in BOOLEAN
  BY ClearedIs
<1>3. \A name \in Doubles : Cleared[name] \in Int
  BY ClearedIs
<1>4. \A name \in Maps : \A key \in DOMAIN Cleared[name] : Cleared[name][key] \in Int
  BY <1>1, ClearedIs
<1> QED BY <1>2, <1>3, <1>4, ClearedIs DEF MembersOK

\* An empty buffer holds what no line says.
LEMMA EmptyBuffer ==
  /\ Full(<<>>) /\ <<>> \in Seq(Lines)
  /\ \A name : Holds(<<>>, name, WrittenIn(<<>>, name))
<1>1. DOMAIN <<>> = {}
  OBVIOUS
<1>2. \A name : WrittenIn(<<>>, name) = <<>>
  BY <1>1 DEF WrittenIn
<1>3. <<>> \in Seq(Lines)
  OBVIOUS
<1> QED BY <1>1, <1>2, <1>3 DEF Full, Holds

\* What is not about the result of a load and of an answer makes up the type invariant.
LEMMA TypeParts ==
  ParamTypeOK <=> /\ stage \in {"idle", "read", "loaded", "answered"} /\ return \in {0, -1}
                  /\ MembersOK(param) /\ Full(buffer) /\ uv \in Nat \X Int
BY DEF ParamTypeOK, MembersOK, Full

\* The invariant holds at first, and each step keeps it.
LEMMA SettingsBegin == ASSUME ParamInit PROVE SettingsInv
<1>1. ParamTypeOK
  <2>1. <<0, 0>> \in Nat \X Int
    OBVIOUS
  <2> QED BY <2>1, TypeParts, ClearedOK, EmptyBuffer DEF ParamInit
<1>2. stage = "idle" /\ stage # "loaded" /\ stage # "answered"
  BY DEF ParamInit
<1> QED BY <1>1, <1>2, ClearedOK, EmptyBuffer DEF ParamInit, SettingsInv

LEMMA LoadKeeps == ASSUME SettingsInv, ParamLoad PROVE SettingsInv'
<1>1. param' = Cleared /\ buffer' = <<>> /\ file' = <<>> /\ uv' = <<0, 0>>
  BY DEF ParamLoad, ParamClear
<1>2. /\ stage' \in {"idle", "read"} /\ stage' # "loaded" /\ stage' # "answered"
      /\ return' \in {0, -1}
  BY TypeParts DEF ParamLoad, SettingsInv
<1>3. MembersOK(param') /\ Full(buffer')
  BY <1>1, ClearedOK, EmptyBuffer
<1>4. ParamTypeOK'
  <2>1. uv' \in Nat \X Int
    BY <1>1
  <2> QED BY <1>2, <1>3, <2>1 DEF ParamTypeOK, MembersOK, Full
<1>5. file' \in Seq(Lines) /\ \A name \in Members : Holds(buffer', name, WrittenIn(file', name))
  BY <1>1, EmptyBuffer
<1> QED BY <1>1, <1>2, <1>3, <1>4, <1>5 DEF SettingsInv

LEMMA ReadKeeps == ASSUME SettingsInv, ReadLine PROVE SettingsInv'
<1>1. PICK line \in Lines :
        /\ file' = Append(file, line)
        /\ buffer' = IF IsComment(line) THEN buffer ELSE Insert(buffer, Entry(line))
  BY DEF ReadLine
<1>2. stage = "read" /\ stage # "loaded" /\ stage # "answered"
      /\ UNCHANGED <<stage, param, return, uv>>
  BY DEF ReadLine
<1>3. line \in Seq(Sign) /\ file \in Seq(Lines)
  BY ParamAssumption DEF Sign, SettingsInv
<1>4. file' \in Seq(Lines)
  BY <1>1, <1>3
<1>5. Full(buffer')
  <2>1. Full(Taken(line)) /\ Full(buffer)
    BY LineFull DEF SettingsInv
  <2>2. CASE IsComment(line)
    BY <1>1, <2>1, <2>2
  <2>3. CASE ~IsComment(line)
    <3>1. buffer' = Insert(buffer, Taken(line))
      BY <1>1, <2>3 DEF Taken
    <3> QED BY <2>1, <3>1, FullMore
  <2> QED BY <2>2, <2>3
<1>6. ASSUME NEW name \in Members PROVE Holds(buffer', name, WrittenIn(file', name))
  <2> DEFINE w == WrittenIn(file, name)
             v == Said(line, name)
  <2>1. Holds(buffer, name, w)
    BY DEF SettingsInv
  <2>2. Holds(Taken(line), name, v)
    BY <1>3, Kinds, LineHolds
  <2>3. WrittenIn(file', name) = IF w # <<>> THEN w ELSE v
    BY <1>1, <1>3, WrittenMore
  <2> HIDE DEF w, v
  <2>4. CASE IsComment(line)
    <3>1. <<name>> \notin DOMAIN <<>>
      OBVIOUS
    <3>2. Taken(line) = <<>>
      BY <2>4 DEF Taken
    <3>3. v = <<>>
      BY <2>2, <3>1, <3>2 DEF Holds
    <3>4. WrittenIn(file', name) = w
      BY <2>3, <3>3
    <3> QED BY <1>1, <2>1, <2>4, <3>4
  <2>5. CASE ~IsComment(line)
    <3>1. buffer' = Insert(buffer, Taken(line))
      BY <1>1, <2>5 DEF Taken
    <3>2. Holds(Insert(buffer, Taken(line)), name, IF w # <<>> THEN w ELSE v)
      BY <2>1, <2>2, HoldsMore
    <3> QED BY <2>3, <3>1, <3>2
  <2> QED BY <2>4, <2>5
<1>7. ParamTypeOK'
  <2>1. /\ stage \in {"idle", "read", "loaded", "answered"} /\ return \in {0, -1}
        /\ MembersOK(param) /\ uv \in Nat \X Int
    BY TypeParts DEF SettingsInv
  <2>2. MembersOK(param')
    BY <1>2, <2>1
  <2> QED BY <1>2, <1>5, <2>1, <2>2 DEF ParamTypeOK, MembersOK, Full
<1>8. MembersOK(param') /\ param' = Cleared
  BY <1>2 DEF SettingsInv
<1> QED BY <1>2, <1>4, <1>5, <1>6, <1>7, <1>8 DEF SettingsInv

LEMMA FillKeeps == ASSUME SettingsInv, Fill PROVE SettingsInv'
<1>1. stage' = "loaded" /\ UNCHANGED <<buffer, uv, file>> /\ return' \in {0, -1}
  BY DEF Fill
<1>2. MembersOK(param') /\ ValuesSay(file, param') /\ FunctionsSay(file, param', return')
  BY FillTypes, FillValues, FillFunctions
<1>3. /\ Full(buffer') /\ file' \in Seq(Lines)
      /\ \A name \in Members : Holds(buffer', name, WrittenIn(file', name))
  BY <1>1 DEF SettingsInv
<1>4. ValuesSay(file', param') /\ FunctionsSay(file', param', return')
  BY <1>1, <1>2
<1>5. ParamTypeOK'
  <2>1. uv' \in Nat \X Int
    BY <1>1, TypeParts DEF SettingsInv
  <2> QED BY <1>1, <1>2, <1>3, <2>1 DEF ParamTypeOK, MembersOK, Full
<1>6. ~(stage' \in {"idle", "read"}) /\ stage' # "answered"
  BY <1>1
<1> QED BY <1>2, <1>3, <1>4, <1>5, <1>6 DEF SettingsInv

LEMMA LimitsKeep == ASSUME SettingsInv, CalculateLimits PROVE SettingsInv'
<1>1. stage = "loaded" /\ stage' = "answered" /\ UNCHANGED <<param, buffer, return, file>>
  BY DEF CalculateLimits
<1>2. PICK estimate \in Estimates : uv' = <<estimate[1], Limited(estimate[1], estimate[2])>>
  BY DEF CalculateLimits
<1>3. MembersOK(param) /\ Full(buffer) /\ return \in {0, -1}
  BY TypeParts DEF SettingsInv
<1>4. uv' \in Nat \X Int
  <2>1. estimate[1] \in Nat /\ estimate[2] \in Nat
    BY ParamAssumption
  <2> DEFINE pv      == estimate[1]
             users   == estimate[2]
             limited == Limited(estimate[1], estimate[2])
  <2>2. limited \in Int
    <3>1. pv \in Int /\ users \in Int
      BY <2>1
    <3> HIDE DEF pv, users
    <3>2. Limited(pv, users) \in Int
      BY <1>3, <3>1, LimitedType
    <3> QED BY <3>2 DEF pv, users
  <2> HIDE DEF pv, users, limited
  <2>3. <<estimate[1], limited>> \in Nat \X Int
    BY <2>1, <2>2
  <2> QED BY <1>2, <2>3 DEF limited
<1>5. \E e \in Estimates : uv' = <<e[1], Limited(e[1], e[2])'>>
  <2>1. Limited(estimate[1], estimate[2])' = Limited(estimate[1], estimate[2])
    BY <1>1 DEF Limited
  <2> QED BY <1>2, <2>1
<1>6. MembersOK(param') /\ Full(buffer')
  BY <1>1, <1>3
<1>7. ParamTypeOK'
  BY <1>1, <1>3, <1>4, <1>6 DEF ParamTypeOK, MembersOK, Full
<1>8. /\ file' \in Seq(Lines)
      /\ \A name \in Members : Holds(buffer', name, WrittenIn(file', name))
      /\ ValuesSay(file', param') /\ FunctionsSay(file', param', return')
  BY <1>1 DEF SettingsInv
<1>9. ~(stage' \in {"idle", "read"})
  BY <1>1
<1> QED BY <1>5, <1>6, <1>7, <1>8, <1>9 DEF SettingsInv

\* The parameters' invariant, whatever lines files have, in every number of loads.
THEOREM SettingsHold == ParamSpec => []SettingsInv
<1>1. ParamInit => SettingsInv
  BY SettingsBegin
<1>2. SettingsInv /\ [ParamNext]_settings => SettingsInv'
  <2> SUFFICES ASSUME SettingsInv, [ParamNext]_settings PROVE SettingsInv'
    OBVIOUS
  <2>1. CASE ParamLoad
    BY <2>1, LoadKeeps
  <2>2. CASE ReadLine
    BY <2>2, ReadKeeps
  <2>3. CASE Fill
    BY <2>3, FillKeeps
  <2>4. CASE CalculateLimits
    BY <2>4, LimitsKeep
  <2>5. CASE UNCHANGED settings
    <3>1. /\ stage' = stage /\ param' = param /\ buffer' = buffer
          /\ return' = return /\ uv' = uv /\ file' = file
      BY <2>5 DEF settings
    <3>2. ParamTypeOK'
      BY <3>1 DEF ParamTypeOK, SettingsInv
    <3>3. ASSUME NEW e PROVE Limited(e[1], e[2])' = Limited(e[1], e[2])
      BY <3>1 DEF Limited
    <3> QED BY <3>1, <3>2, <3>3 DEF SettingsInv
  <2> QED BY <2>1, <2>2, <2>3, <2>4, <2>5 DEF ParamNext
<1> QED BY <1>1, <1>2, PTL DEF ParamSpec

\* The types, for all lines of files.
THEOREM ParamTypeCorrect == ParamSpec => []ParamTypeOK
<1>1. SettingsInv => ParamTypeOK
  BY DEF SettingsInv
<1> QED BY <1>1, SettingsHold, PTL

\* A loaded object says what its file says, whatever was loaded before.
THEOREM LoadedIsWritten == ParamSpec => []LoadedAsWritten
<1>1. SettingsInv => LoadedAsWritten
  <2> SUFFICES ASSUME SettingsInv, stage = "loaded"
               PROVE  /\ \A name \in Bools : param[name] = (ToLower(Written(name)) = <<"true">>)
                      /\ \A name \in Doubles : param[name] = ToDouble(Written(name))
                      /\ \A name \in Maps, p, t \in 0..1 :
                           Get(param[name], p, t) = LastItem(Written(name), p, t)
    BY DEF LoadedAsWritten
  <2>1. ValuesSay(file, param)
    BY DEF SettingsInv
  <2>2. \A name : Written(name) = WrittenIn(file, name)
    BY DEF Written, WrittenIn
  <2>3. ASSUME NEW name \in Bools PROVE param[name] = (ToLower(Written(name)) = <<"true">>)
    <3>1. param[name] = (ToLower(WrittenIn(file, name)) = <<"true">>)
      BY <2>1 DEF ValuesSay
    <3> QED BY <2>2, <3>1
  <2>4. ASSUME NEW name \in Doubles PROVE param[name] = ToDouble(Written(name))
    BY <2>1, <2>2 DEF ValuesSay
  <2>5. ASSUME NEW name \in Maps, NEW p \in 0..1, NEW t \in 0..1
        PROVE  Get(param[name], p, t) = LastItem(Written(name), p, t)
    <3>1. p \in Int /\ t \in Int
      OBVIOUS
    <3>2. Get(param[name], p, t) = LastItem(WrittenIn(file, name), p, t)
      BY <2>1, <3>1 DEF ValuesSay
    <3> QED BY <2>2, <3>2
  <2> QED BY <2>3, <2>4, <2>5
<1> QED BY <1>1, SettingsHold, PTL

\* A step function has the values of its file, and a load fails exactly if one of them is
\* not complete.
THEOREM StepsAreWritten == ParamSpec => []StepsAsWritten
<1>1. SettingsInv => StepsAsWritten
  <2> SUFFICES ASSUME SettingsInv, stage = "loaded"
               PROVE  /\ (return = -1) = (Unfinished # {})
                      /\ \A f \in DOMAIN Functions, x \in -1..10 :
                           GetValue(param[Functions[f]], x) = Step(f, x)
    BY DEF StepsAsWritten
  <2>1. FunctionsSay(file, param, return)
    BY DEF SettingsInv
  <2>2. \A name : Written(name) = WrittenIn(file, name)
    BY DEF Written, WrittenIn
  <2>3. Unfinished = UnfinishedIn(file)
    BY <2>2 DEF Unfinished, UnfinishedIn
  <2>4. (return = -1) = (Unfinished # {})
    <3>1. return = -1 <=> Unfinished # {}
      BY <2>1, <2>3 DEF FunctionsSay
    <3> DEFINE failed == return = -1
               some   == Unfinished # {}
    <3>2. failed \in BOOLEAN /\ some \in BOOLEAN /\ (failed <=> some)
      BY <3>1
    <3> HIDE DEF failed, some
    <3>3. failed = some
      BY <3>2
    <3> QED BY <3>3 DEF failed, some
  <2>5. ASSUME NEW f \in DOMAIN Functions, NEW x \in -1..10
        PROVE  GetValue(param[Functions[f]], x) = Step(f, x)
    <3>1. x \in Int
      OBVIOUS
    <3>2. GetValue(param[Functions[f]], x) = StepIn(file, f, x)
      BY <2>1, <3>1 DEF FunctionsSay
    <3>3. Step(f, x) = StepIn(file, f, x)
      BY <2>2, <2>3 DEF Step, StepIn, ValueAt, SplitsBelow
    <3> QED BY <3>2, <3>3
  <2> QED BY <2>4, <2>5
<1> QED BY <1>1, SettingsHold, PTL

\* Rounding up.
LEMMA CeilIs ==
  ASSUME NEW tenths \in Int
  PROVE  /\ Ceil(tenths) \in Int /\ Ceil(tenths) * 10 >= tenths
         /\ \A m \in Int : m * 10 <= tenths => m <= Ceil(tenths)
BY DEF Ceil

\* What the limits make of an estimate.
LEMMA WithinLimits ==
  ASSUME NEW estimate \in Int, NEW least \in Int, NEW most \in Int, NEW first,
         first = IF estimate * 10 > most THEN Ceil(most) ELSE estimate,
         NEW last, last = IF first * 10 < least THEN Ceil(least) ELSE first
  PROVE  last * 10 >= least /\ (last <= Ceil(most) \/ last = Ceil(least))
<1>1. /\ Ceil(most) \in Int /\ Ceil(least) \in Int /\ Ceil(least) * 10 >= least
      /\ estimate * 10 <= most => estimate <= Ceil(most)
  BY CeilIs
<1>2. first \in Int /\ first <= Ceil(most)
  BY <1>1
<1> QED BY <1>1, <1>2

\* Answers are within the limits of the file, whatever the rates.
THEOREM AnswersWithinLimits == ParamSpec => []AnswerWithinLimits
<1>1. SettingsInv => AnswerWithinLimits
  <2> DEFINE minRate == ToDouble(Written("uv_pv_min_rate"))
             maxRate == ToDouble(Written("uv_pv_max_rate"))
  <2> SUFFICES ASSUME SettingsInv, stage = "answered"
               PROVE  /\ uv[2] * 10 >= uv[1] * minRate
                      /\ uv[2] <= Ceil(uv[1] * maxRate) \/ uv[2] = Ceil(uv[1] * minRate)
    BY DEF AnswerWithinLimits
  <2>1. minRate = param["uv_pv_min_rate"] /\ maxRate = param["uv_pv_max_rate"]
    <3>1. "uv_pv_min_rate" \in Doubles /\ "uv_pv_max_rate" \in Doubles
      BY DEF Doubles
    <3>2. ValuesSay(file, param)
      BY DEF SettingsInv
    <3>3. \A name : Written(name) = WrittenIn(file, name)
      BY DEF Written, WrittenIn
    <3> QED BY <3>1, <3>2, <3>3 DEF ValuesSay
  <2>2. PICK estimate \in Estimates : uv = <<estimate[1], Limited(estimate[1], estimate[2])>>
    BY DEF SettingsInv
  <2>3. minRate \in Int /\ maxRate \in Int
    BY DoubleType
  <2> HIDE DEF minRate, maxRate
  <2> DEFINE least == estimate[1] * minRate
             most  == estimate[1] * maxRate
             first == IF estimate[2] * 10 > most THEN Ceil(most) ELSE estimate[2]
             last  == IF first * 10 < least THEN Ceil(least) ELSE first
  <2>4. uv[1] = estimate[1] /\ uv[2] = last
    <3>1. param.uv_pv_min_rate = minRate /\ param.uv_pv_max_rate = maxRate
      BY <2>1
    <3>2. Limited(estimate[1], estimate[2]) = last
      BY <3>1 DEF Limited
    <3> HIDE DEF last
    <3> QED BY <2>2, <3>2
  <2>5. estimate[2] \in Int /\ least \in Int /\ most \in Int
    <3>1. estimate[1] \in Nat /\ estimate[2] \in Nat
      BY ParamAssumption
    <3> QED BY <2>3, <3>1
  <2>6. least = uv[1] * minRate /\ most = uv[1] * maxRate
    BY <2>4
  <2>7. last * 10 >= least /\ (last <= Ceil(most) \/ last = Ceil(least))
    <3> DEFINE users == estimate[2]
    <3>1. first = IF users * 10 > most THEN Ceil(most) ELSE users
      OBVIOUS
    <3>2. last = IF first * 10 < least THEN Ceil(least) ELSE first
      OBVIOUS
    <3>3. users \in Int /\ least \in Int /\ most \in Int
      BY <2>5
    <3> HIDE DEF users, least, most, first, last
    <3> QED BY <3>1, <3>2, <3>3, WithinLimits
  <2> HIDE DEF least, most
  <2> QED BY <2>4, <2>6, <2>7
<1> QED BY <1>1, SettingsHold, PTL
=============================================================================
