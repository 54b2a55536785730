---------------------------- MODULE BuilderProofs ----------------------------
(***************************************************************************)
(* Proofs about the builder and the dictionary of targets.                 *)
(***************************************************************************)
EXTENDS Builder, FiniteSetTheorems, SequenceTheorems, WellFoundedInduction, TLAPS

-----------------------------------------------------------------------------
(* Folds.  The value of FoldLeft is a function that is chosen; that there is   *)
(* one to choose, and what it is step by step, is an induction over the size  *)
(* of the part of the sequence that is done.                                   *)

\* Induction over the natural numbers, for the numbers in a set.
LEMMA AllNumbers ==
  ASSUME NEW S, 0 \in S, \A n \in Nat : n \in S => n + 1 \in S
  PROVE  Nat \subseteq S
<1> DEFINE Bad == Nat \ S
<1> SUFFICES ASSUME Bad # {} PROVE FALSE
  OBVIOUS
<1>1. PICK least \in Bad : \A n \in Bad : ~(<<n, least>> \in OpToRel(<, Nat))
  <2>1. Bad \subseteq Nat
    OBVIOUS
  <2> HIDE DEF Bad
  <2> QED BY <2>1, WFMin, NatLessThanWellFounded
<1>2. OpToRel(<, Nat) = {ss \in Nat \X Nat : ss[1] < ss[2]}
  BY DEF OpToRel
<1>3. least \in Nat /\ least - 1 \in Nat /\ least - 1 < least /\ least = (least - 1) + 1
  <2>1. least \in Nat /\ least # 0
    BY <1>1
  <2> QED BY <2>1
<1> DEFINE pair == <<least - 1, least>>
<1>4. pair \in Nat \X Nat /\ pair[1] < pair[2]
  BY <1>3
<1>5. pair \in OpToRel(<, Nat)
  <2> HIDE DEF pair
  <2> QED BY <1>2, <1>4
<1>6. least - 1 \notin Bad
  BY <1>1, <1>5
<1> QED BY <1>1, <1>3, <1>6

\* A set of numbers up to n has a greatest one, if it has any.
LEMMA MaxExists ==
  ASSUME NEW n \in Nat, NEW S \in SUBSET (1..n), S # {}
  PROVE  Max(S) \in S /\ \A y \in S : Max(S) >= y
<1> DEFINE Good == {k \in Nat : \A T \in SUBSET (1..k) : T # {} => \E x \in T : \A y \in T : x >= y}
<1>1. 0 \in Good
  <2>1. 1..0 = {}
    OBVIOUS
  <2> QED BY <2>1
<1>2. ASSUME NEW k \in Nat, k \in Good PROVE k + 1 \in Good
  <2>1. ASSUME NEW T \in SUBSET (1..k + 1), T # {}
        PROVE  \E x \in T : \A y \in T : x >= y
    <3>1. CASE k + 1 \in T
      BY <3>1
    <3>2. CASE k + 1 \notin T
      <4>1. T \in SUBSET (1..k)
        BY <3>2
      <4> QED BY <1>2, <2>1, <4>1
    <3> QED BY <3>1, <3>2
  <2> QED BY <2>1
<1>3. n \in Good
  <2> HIDE DEF Good
  <2> QED BY <1>1, <1>2, AllNumbers
<1>4. \E x \in S : \A y \in S : x >= y
  BY <1>3
<1> QED BY <1>4 DEF Max

LEMMA MaxOfPrefix ==
  ASSUME NEW k \in Nat \ {0}
  PROVE  Max(1..k) = k /\ (1..k) \ {k} = 1..k - 1
<1>1. k \in 1..k /\ 1..k \in SUBSET (1..k) /\ 1..k # {}
  OBVIOUS
<1>2. Max(1..k) \in 1..k /\ \A y \in 1..k : Max(1..k) >= y
  BY <1>1, MaxExists
<1>3. Max(1..k) >= k
  BY <1>1, <1>2
<1>4. Max(1..k) = k
  BY <1>2, <1>3
<1> QED BY <1>4

\* The rest of a set of numbers, without the greatest, is a set of smaller ones.
LEMMA RestIsBelow ==
  ASSUME NEW k \in Nat, NEW s \in SUBSET (1..k + 1), s # {}
  PROVE  Max(s) \in 1..k + 1 /\ Max(s) \in s /\ s \ {Max(s)} \in SUBSET (1..k)
<1>0. k + 1 \in Nat
  OBVIOUS
<1>1. Max(s) \in s /\ \A y \in s : Max(s) >= y
  BY <1>0, MaxExists
<1>2. ASSUME NEW y \in s, y # Max(s) PROVE y \in 1..k
  <2>1. y \in 1..k + 1 /\ Max(s) \in 1..k + 1 /\ Max(s) >= y
    BY <1>1
  <2> QED BY <1>2, <2>1
<1> QED BY <1>1, <1>2

Folded(h, base, seq, g, s) == IF s = {} THEN base ELSE h[<<g[s \ {Max(s)}], seq[Max(s)]>>]
TableUpTo(V, h, base, seq, k) ==
  \E g \in [SUBSET (1..k) -> V] : \A s \in SUBSET (1..k) : g[s] = Folded(h, base, seq, g, s)

LEMMA TableExists ==
  ASSUME NEW V, NEW X, NEW base \in V, NEW h \in [V \X X -> V], NEW seq \in Seq(X)
  PROVE  TableUpTo(V, h, base, seq, Len(seq))
<1> DEFINE Good == {k \in Nat : k <= Len(seq) => TableUpTo(V, h, base, seq, k)}
<1>1. 0 \in Good
  <2> DEFINE g == [s \in SUBSET (1..0) |-> base]
  <2>1. g \in [SUBSET (1..0) -> V]
    OBVIOUS
  <2>2. ASSUME NEW s \in SUBSET (1..0) PROVE g[s] = Folded(h, base, seq, g, s)
    <3>1. s = {}
      OBVIOUS
    <3> QED BY <3>1 DEF Folded
  <2> HIDE DEF g
  <2>3. TableUpTo(V, h, base, seq, 0)
    BY <2>1, <2>2 DEF TableUpTo
  <2> QED BY <2>3
<1>2. ASSUME NEW k \in Nat, k \in Good PROVE k + 1 \in Good
  <2> SUFFICES ASSUME k + 1 <= Len(seq) PROVE TableUpTo(V, h, base, seq, k + 1)
    OBVIOUS
  <2>0. Len(seq) \in Nat /\ k <= Len(seq)
    OBVIOUS
  <2>1. PICK g \in [SUBSET (1..k) -> V] : \A s \in SUBSET (1..k) : g[s] = Folded(h, base, seq, g, s)
    BY <1>2, <2>0 DEF TableUpTo
  <2> DEFINE f == [s \in SUBSET (1..k + 1) |-> Folded(h, base, seq, g, s)]
  <2>2. ASSUME NEW s \in SUBSET (1..k + 1), s # {}
        PROVE  /\ seq[Max(s)] \in X /\ s \ {Max(s)} \in SUBSET (1..k)
               /\ s \ {Max(s)} \in SUBSET (1..k + 1)
    <3>1. Max(s) \in 1..k + 1 /\ s \ {Max(s)} \in SUBSET (1..k)
      BY <2>2, RestIsBelow
    <3>2. Max(s) \in 1..Len(seq)
      BY <2>0, <3>1
    <3>3. \A i \in 1..k : i \in 1..k + 1
      OBVIOUS
    <3> QED BY <3>1, <3>2, <3>3
  <2>3. ASSUME NEW s \in SUBSET (1..k + 1) PROVE Folded(h, base, seq, g, s) \in V
    <3>1. CASE s = {}
      BY <3>1 DEF Folded
    <3>2. CASE s # {}
      <4>1. <<g[s \ {Max(s)}], seq[Max(s)]>> \in V \X X
        BY <2>2, <3>2
      <4> QED BY <3>2, <4>1 DEF Folded
    <3> QED BY <3>1, <3>2
  <2>4. ASSUME NEW s \in SUBSET (1..k + 1) PROVE f[s] = Folded(h, base, seq, f, s)
    <3>1. CASE s = {}
      BY <3>1 DEF Folded
    <3>2. CASE s # {}
      <4>1. f[s \ {Max(s)}] = g[s \ {Max(s)}]
        BY <2>1, <2>2, <3>2
      <4>2. f[s] = Folded(h, base, seq, g, s)
        OBVIOUS
      <4> HIDE DEF f
      <4> QED BY <3>2, <4>1, <4>2 DEF Folded
    <3> QED BY <3>1, <3>2
  <2>5. f \in [SUBSET (1..k + 1) -> V]
    BY <2>3
  <2> HIDE DEF f
  <2> QED BY <2>4, <2>5 DEF TableUpTo
<1>3. Len(seq) \in Good
  <2>1. Len(seq) \in Nat
    OBVIOUS
  <2> HIDE DEF Good
  <2> QED BY <1>1, <1>2, <2>1, AllNumbers
<1> QED BY <1>3

\* A table of a fold, at least where the values are as they should be.
FoldTable(V, h, base, seq, G) ==
  /\ G[{}] = base
  /\ \A s \in SUBSET (1..Len(seq)) :
       s # {} /\ G[s \ {Max(s)}] \in V => G[s] = h[<<G[s \ {Max(s)}], seq[Max(s)]>>]

FoldGoes(V, h, base, seq, G) ==
  /\ G \in [0..Len(seq) -> V] /\ G[0] = base
  /\ \A k \in 1..Len(seq) : G[k] = h[<<G[k - 1], seq[k]>>]

\* The value of a fold, step by step.
FoldsTo(V, h, base, seq, v) == \E G : FoldGoes(V, h, base, seq, G) /\ v = G[Len(seq)]

\* Any table of a fold has in it what the fold is after each element.
LEMMA FoldSteps ==
  ASSUME NEW V, NEW X, NEW base \in V, NEW h \in [V \X X -> V], NEW seq \in Seq(X), NEW T,
         FoldTable(V, h, base, seq, T)
  PROVE  FoldsTo(V, h, base, seq, T[1..Len(seq)])
<1> USE DEF FoldTable
<1> DEFINE Good == {k \in Nat : k <= Len(seq) => T[1..k] \in V}
<1>1. 0 \in Good /\ T[1..0] = base
  <2>1. 1..0 = {}
    OBVIOUS
  <2> QED BY <2>1
<1>2. ASSUME NEW k \in 1..Len(seq), T[1..k - 1] \in V
      PROVE  T[1..k] = h[<<T[1..k - 1], seq[k]>>] /\ T[1..k] \in V
  <2>1. 1..k \in SUBSET (1..Len(seq)) /\ 1..k # {} /\ k \in Nat \ {0} /\ seq[k] \in X
    OBVIOUS
  <2>2. Max(1..k) = k /\ (1..k) \ {k} = 1..k - 1
    BY <2>1, MaxOfPrefix
  <2>3. T[1..k] = h[<<T[1..k - 1], seq[k]>>]
    BY <1>2, <2>1, <2>2
  <2>4. <<T[1..k - 1], seq[k]>> \in V \X X
    BY <1>2, <2>1
  <2> QED BY <2>3, <2>4
<1>3. ASSUME NEW k \in Nat, k \in Good PROVE k + 1 \in Good
  <2> SUFFICES ASSUME k + 1 <= Len(seq) PROVE T[1..k + 1] \in V
    OBVIOUS
  <2>1. k + 1 \in 1..Len(seq) /\ (k + 1) - 1 = k /\ k <= Len(seq)
    OBVIOUS
  <2>2. T[1..k] \in V
    BY <1>3, <2>1
  <2> HIDE DEF Good
  <2> QED BY <1>2, <2>1, <2>2
<1>4. \A k \in 0..Len(seq) : T[1..k] \in V
  <2>1. Nat \subseteq Good
    <3> HIDE DEF Good
    <3> QED BY <1>1, <1>3, AllNumbers
  <2> QED BY <2>1
<1> DEFINE G == [k \in 0..Len(seq) |-> T[1..k]]
<1>5. ASSUME NEW k \in 1..Len(seq) PROVE G[k] = h[<<G[k - 1], seq[k]>>]
  <2>1. k \in 0..Len(seq) /\ k - 1 \in 0..Len(seq)
    OBVIOUS
  <2>2. T[1..k] = h[<<T[1..k - 1], seq[k]>>]
    BY <1>2, <1>4, <2>1
  <2> QED BY <2>1, <2>2
<1>6. G \in [0..Len(seq) -> V] /\ G[0] = base /\ G[Len(seq)] = T[1..Len(seq)]
  BY <1>1, <1>4
<1> HIDE DEF G
<1>7. FoldGoes(V, h, base, seq, G)
  BY <1>5, <1>6 DEF FoldGoes
<1> QED BY <1>6, <1>7 DEF FoldsTo

-----------------------------------------------------------------------------
(* The dictionary *)

\* The dictionaries with names from N.
Dicts(N) == UNION {[P -> Int] : P \in SUBSET N}
Maps(N)  == [offline : Dicts(N), online : Dicts(N)]

LEMMA DictFacts ==
  ASSUME NEW N, NEW dict \in Dicts(N)
  PROVE  /\ DOMAIN dict \subseteq N /\ dict \in [DOMAIN dict -> Int]
         /\ \A n \in DOMAIN dict : dict[n] \in Int
  BY DEF Dicts

LEMMA InsertedType ==
  ASSUME NEW N, NEW dict \in Dicts(N), NEW key \in N, NEW value \in Int
  PROVE  Inserted(dict, key, value) \in Dicts(N)
<1>1. Inserted(dict, key, value) \in [DOMAIN dict \cup {key} -> Int]
  BY DictFacts DEF Inserted
<1>2. DOMAIN dict \cup {key} \in SUBSET N
  BY DictFacts
<1> QED BY <1>1, <1>2 DEF Dicts

LEMMA NoEntriesType ==
  ASSUME NEW N
  PROVE  NoEntries \in Dicts(N) /\ DOMAIN NoEntries = {}
<1>1. DOMAIN NoEntries = {} /\ NoEntries \in [{} -> Int]
  BY DEF NoEntries
<1> QED BY <1>1 DEF Dicts

Names(conf) == {line.offline : line \in ToSet(conf)} \cup {line.online : line \in ToSet(conf)}

GoodLines(conf) == {i \in DOMAIN conf : conf[i].ok}
OfflineLines(conf, n) == {i \in GoodLines(conf) : conf[i].offline = n}
OnlineLines(conf, n)  == {i \in GoodLines(conf) : conf[i].online = n}

OfflineOf(conf, dict) ==
  /\ DOMAIN dict = {conf[i].offline : i \in GoodLines(conf)}
  /\ \A n \in DOMAIN dict : dict[n] = conf[Max(OfflineLines(conf, n))].row
  /\ dict = [n \in DOMAIN dict |-> dict[n]]
OnlineOf(conf, dict) ==
  /\ DOMAIN dict = {conf[i].online : i \in GoodLines(conf)}
  /\ \A n \in DOMAIN dict : dict[n] = conf[Max(OnlineLines(conf, n))].row
  /\ dict = [n \in DOMAIN dict |-> dict[n]]

LEMMA LoadIs ==
  ASSUME NEW conf
  PROVE  OfflineOf(conf, Load(conf).offline) /\ OnlineOf(conf, Load(conf).online)
  BY DEF Load, GoodLines, OfflineLines, OnlineLines, OfflineOf, OnlineOf

LEMMA GoodFacts ==
  ASSUME NEW conf \in Confs
  PROVE  /\ DOMAIN conf = 1..Len(conf) /\ Len(conf) \in Nat
         /\ GoodLines(conf) \in SUBSET (1..Len(conf)) /\ IsFiniteSet(GoodLines(conf))
         /\ \A i \in GoodLines(conf) : conf[i] \in ToSet(conf) /\ conf[i].ok /\ conf[i].row \in Int
<1>1. DOMAIN conf = 1..Len(conf) /\ Len(conf) \in Nat
  BY BuilderAssumption
<1>2. GoodLines(conf) \in SUBSET (1..Len(conf)) /\ IsFiniteSet(1..Len(conf))
  BY <1>1, FS_Interval DEF GoodLines
<1>3. ASSUME NEW i \in GoodLines(conf)
      PROVE  conf[i] \in ToSet(conf) /\ conf[i].ok /\ conf[i].row \in Int
  <2>1. conf[i] \in ToSet(conf) /\ conf[i].ok
    BY DEF GoodLines, ToSet
  <2> QED BY <2>1, BuilderAssumption
<1> QED BY <1>1, <1>2, <1>3, FS_Subset

\* Whatever the file, the dictionary is one: names with numbers, finitely many.
LEMMA LoadType ==
  ASSUME NEW conf \in Confs
  PROVE  /\ Load(conf) \in Maps(Names(conf))
         /\ IsFiniteSet(DOMAIN Load(conf).offline)
<1> DEFINE good == GoodLines(conf)
<1>1. ASSUME NEW A \in SUBSET good, A # {} PROVE conf[Max(A)].row \in Int
  <2>1. A \in SUBSET (1..Len(conf)) /\ Len(conf) \in Nat
    BY GoodFacts
  <2>2. Max(A) \in A
    BY <1>1, <2>1, MaxExists
  <2> QED BY <2>2, GoodFacts
<1>2. Load(conf).offline \in Dicts(Names(conf)) /\ IsFiniteSet(DOMAIN Load(conf).offline)
  <2> DEFINE name == [i \in good |-> conf[i].offline]
  <2>1. PICK dict : dict = Load(conf).offline
    OBVIOUS
  <2>2. OfflineOf(conf, dict)
    BY <2>1, LoadIs
  <2> USE DEF OfflineOf
  <2>3. ASSUME NEW n \in DOMAIN dict PROVE dict[n] \in Int /\ n \in Names(conf)
    <3>1. PICK i \in good : n = conf[i].offline
      BY <2>2
    <3>2. i \in OfflineLines(conf, n) /\ OfflineLines(conf, n) \in SUBSET good
      BY <3>1 DEF OfflineLines
    <3>3. conf[i] \in ToSet(conf)
      BY GoodFacts
    <3> QED BY <1>1, <2>2, <3>1, <3>2, <3>3 DEF Names
  <2>4. dict \in Dicts(Names(conf))
    <3>1. dict \in [DOMAIN dict -> Int] /\ DOMAIN dict \in SUBSET Names(conf)
      BY <2>2, <2>3
    <3> QED BY <3>1 DEF Dicts
  <2>5. IsFiniteSet(DOMAIN dict)
    <3>1. name \in Surjection(good, DOMAIN dict)
      BY <2>2 DEF Surjection
    <3>2. IsFiniteSet(good)
      BY GoodFacts
    <3> HIDE DEF name, good
    <3> QED BY <3>1, <3>2, FS_Surjection
  <2> QED BY <2>1, <2>4, <2>5
<1>3. Load(conf).online \in Dicts(Names(conf))
  <2>1. PICK dict : dict = Load(conf).online
    OBVIOUS
  <2>2. OnlineOf(conf, dict)
    BY <2>1, LoadIs
  <2> USE DEF OnlineOf
  <2>3. ASSUME NEW n \in DOMAIN dict PROVE dict[n] \in Int /\ n \in Names(conf)
    <3>1. PICK i \in good : n = conf[i].online
      BY <2>2
    <3>2. i \in OnlineLines(conf, n) /\ OnlineLines(conf, n) \in SUBSET good
      BY <3>1 DEF OnlineLines
    <3>3. conf[i] \in ToSet(conf)
      BY GoodFacts
    <3> QED BY <1>1, <2>2, <3>1, <3>2, <3>3 DEF Names
  <2>4. dict \in [DOMAIN dict -> Int] /\ DOMAIN dict \in SUBSET Names(conf)
    BY <2>2, <2>3
  <2> QED BY <2>1, <2>4 DEF Dicts
<1>4. Load(conf) = [offline |-> Load(conf).offline, online |-> Load(conf).online]
  BY DEF Load
<1> QED BY <1>2, <1>3, <1>4 DEF Maps

\* What the lines of a whole dictionary make of it.
Agrees(conf, m) ==
  /\ DOMAIN m.offline = {conf[i].offline : i \in GoodLines(conf)}
  /\ \A i \in GoodLines(conf) : /\ m.offline[conf[i].offline] = conf[i].row
                                /\ conf[i].online \in DOMAIN m.online
                                /\ m.online[conf[i].online] = conf[i].row

LEMMA WholeLoad ==
  ASSUME NEW conf \in Confs, Whole(conf)
  PROVE  Agrees(conf, Load(conf))
<1>1. ASSUME NEW i \in Nat PROVE Max({i}) = i
  BY DEF Max
<1>2. ASSUME NEW i \in GoodLines(conf)
      PROVE  /\ Load(conf).offline[conf[i].offline] = conf[i].row
             /\ conf[i].online \in DOMAIN Load(conf).online
             /\ Load(conf).online[conf[i].online] = conf[i].row
  <2>1. OfflineLines(conf, conf[i].offline) = {i} /\ OnlineLines(conf, conf[i].online) = {i}
    BY DEF OfflineLines, OnlineLines, GoodLines, Whole
  <2>2. i \in Nat
    BY GoodFacts
  <2>3. PICK off, on : /\ off = Load(conf).offline /\ on = Load(conf).online
                       /\ OfflineOf(conf, off) /\ OnlineOf(conf, on)
    BY LoadIs
  <2>4. conf[i].offline \in DOMAIN off /\ conf[i].online \in DOMAIN on
    BY <2>3 DEF OfflineOf, OnlineOf
  <2>5. /\ off[conf[i].offline] = conf[Max({i})].row
        /\ on[conf[i].online] = conf[Max({i})].row
    BY <2>1, <2>3, <2>4 DEF OfflineOf, OnlineOf
  <2> QED BY <1>1, <2>2, <2>3, <2>4, <2>5
<1> QED BY <1>2, LoadIs DEF Agrees, OfflineOf

\* What a whole dictionary is good for: the row of a line is inside a bitmap with a row
\* for each offline name, and is the row of this line alone, under both of its names.
RowOfLine(conf, m, i) ==
  /\ conf[i].offline \in DOMAIN m.offline /\ m.offline[conf[i].offline] = conf[i].row
  /\ conf[i].online \in DOMAIN m.online   /\ m.online[conf[i].online] = conf[i].row
  /\ conf[i].row \in 0..GetSize(m) - 1
  /\ \A name \in DOMAIN m.offline : m.offline[name] = conf[i].row => name = conf[i].offline

LEMMA WholeFacts ==
  ASSUME NEW conf \in Confs, Whole(conf), NEW i \in DOMAIN conf, conf[i].ok
  PROVE  RowOfLine(conf, Load(conf), i)
<1> DEFINE m    == Load(conf)
           good == GoodLines(conf)
           row  == [j \in good |-> conf[j].row]
           name == [j \in good |-> conf[j].offline]
           N    == DOMAIN m.offline
<1>1. Len(conf) \in Nat /\ DOMAIN conf = 1..Len(conf)
  BY BuilderAssumption
<1>2. good = {j \in DOMAIN conf : conf[j].ok} /\ i \in good
  BY <1>1 DEF GoodLines
<1>3. Agrees(conf, m)
  BY WholeLoad
<1>4. IsFiniteSet(good) /\ Cardinality(good) \in Nat
  BY GoodFacts, FS_CardinalityType
<1>5. /\ \A j, l \in good : j # l => conf[j].offline # conf[l].offline
      /\ {conf[j].row : j \in good} = 0..Cardinality(good) - 1
  BY <1>2 DEF Whole
<1> HIDE DEF good
<1>6. Cardinality(N) = Cardinality(good)
  <2>1. N = {conf[j].offline : j \in good}
    BY <1>3 DEF Agrees, good
  <2>2. name \in Bijection(good, N)
    BY <1>5, <2>1 DEF Bijection, Injection, Surjection, IsInjective
  <2> HIDE DEF N, name
  <2> QED BY <1>4, <2>2, FS_Bijection DEF ExistsBijection
<1>7. ASSUME NEW j \in good, NEW l \in good, conf[j].row = conf[l].row PROVE j = l
  <2> DEFINE T == 0..Cardinality(good) - 1
  <2>1. row \in Surjection(good, T)
    BY <1>5 DEF Surjection
  <2>2. Cardinality(T) = Cardinality(good)
    BY <1>4, FS_Interval
  <2>3. row \in Injection(good, T)
    <3> HIDE DEF T, row
    <3> QED BY <1>4, <2>1, <2>2, FS_SurjSameCardinalityImpliesInj
  <2> QED BY <1>7, <2>3 DEF Injection, IsInjective
<1>8. conf[i].row \in 0..GetSize(m) - 1
  BY <1>2, <1>5, <1>6 DEF GetSize
<1>9. /\ conf[i].offline \in N /\ m.offline[conf[i].offline] = conf[i].row
      /\ conf[i].online \in DOMAIN m.online /\ m.online[conf[i].online] = conf[i].row
  BY <1>2, <1>3 DEF Agrees, good
<1>10. ASSUME NEW n \in N, m.offline[n] = conf[i].row PROVE n = conf[i].offline
  <2>1. PICK j \in good : n = conf[j].offline /\ m.offline[n] = conf[j].row
    BY <1>3 DEF Agrees, good
  <2> QED BY <1>2, <1>7, <1>10, <2>1
<1> QED BY <1>8, <1>9, <1>10 DEF RowOfLine

-----------------------------------------------------------------------------
(* Runs of samples.  The operators of the invariant take their state as        *)
(* parameters: what holds of a file that was read so far must still hold when  *)
(* another line was read.                                                      *)

Infos   == {line \in InfoLines : line.ok}
Samples == {line \in SampleLines : line.ok}

StartIn(s, i) == i = 1 \/ s[i - 1].psid # s[i].psid
EndsIn(s, i)  == {j \in i..Len(s) : \A m \in i..j : s[m].psid = s[i].psid}
RunIn(s, i)   == SubSeq(s, i, i + Cardinality(EndsIn(s, i)) - 1)

\* The samples i to e are a run that has ended.
IsRun(s, i, e) == /\ i \in 1..Len(s) /\ e \in i..Len(s)
                  /\ \A m \in i..e : s[m].psid = s[i].psid
                  /\ e < Len(s) => s[e + 1].psid # s[i].psid

LEMMA RunIs ==
  ASSUME NEW X, NEW s \in Seq(X), NEW i \in Int, NEW e \in Int, IsRun(s, i, e)
  PROVE  RunIn(s, i) = SubSeq(s, i, e)
<1>1. EndsIn(s, i) = i..e
  <2>1. ASSUME NEW j \in EndsIn(s, i) PROVE j \in i..e
    <3> SUFFICES ASSUME j > e PROVE FALSE
      BY <2>1 DEF EndsIn, IsRun
    <3>1. e + 1 \in i..j /\ e < Len(s)
      BY <2>1 DEF EndsIn, IsRun
    <3> QED BY <2>1, <3>1 DEF EndsIn, IsRun
  <2>2. ASSUME NEW j \in i..e PROVE j \in EndsIn(s, i)
    <3>1. j \in i..Len(s) /\ \A m \in i..j : m \in i..e
      BY DEF IsRun
    <3> QED BY <3>1 DEF EndsIn, IsRun
  <2> QED BY <2>1, <2>2
<1>2. Cardinality(i..e) = (e - i) + 1
  BY FS_Interval DEF IsRun
<1>3. i + ((e - i) + 1) - 1 = e
  OBVIOUS
<1> QED BY <1>1, <1>2, <1>3 DEF RunIn

\* Another sample changes no run but the last one.
LEMMA RunStays ==
  ASSUME NEW X, NEW s \in Seq(X), NEW x \in X, NEW c \in 1..Len(s), StartIn(s, c),
         NEW i \in 1..c - 1
  PROVE  /\ Append(s, x)[i] = s[i]
         /\ StartIn(Append(s, x), i) <=> StartIn(s, i)
         /\ RunIn(Append(s, x), i) = RunIn(s, i)
<1> DEFINE t == Append(s, x)
<1>1. /\ Len(s) \in Nat /\ t \in Seq(X) /\ Len(t) = Len(s) + 1
      /\ \A j \in 1..Len(s) : t[j] = s[j]
  OBVIOUS
<1> HIDE DEF t
<1>2. ASSUME NEW j \in i..Len(t), \A m \in i..j : t[m].psid = t[i].psid PROVE j <= c - 1
  <2> SUFFICES ASSUME j >= c PROVE FALSE
    BY <1>1
  <2>1. c \in i..j /\ c - 1 \in i..j /\ c # 1 /\ c - 1 \in 1..Len(s)
    BY <1>1
  <2>2. t[c].psid = t[c - 1].psid
    BY <1>2, <2>1
  <2> QED BY <1>1, <2>1, <2>2 DEF StartIn
<1>3. ASSUME NEW j \in i..Len(s), \A m \in i..j : s[m].psid = s[i].psid PROVE j <= c - 1
  <2> SUFFICES ASSUME j >= c PROVE FALSE
    BY <1>1
  <2>1. c \in i..j /\ c - 1 \in i..j /\ c # 1
    BY <1>1
  <2>2. s[c].psid = s[c - 1].psid
    BY <1>3, <2>1
  <2> QED BY <2>1, <2>2 DEF StartIn
<1>4. EndsIn(t, i) = EndsIn(s, i)
  <2>1. ASSUME NEW j \in i..c - 1
        PROVE  /\ j \in i..Len(t) /\ j \in i..Len(s)
               /\ \A m \in i..j : t[m].psid = s[m].psid
               /\ t[i].psid = s[i].psid
    BY <1>1
  <2>2. \A j \in i..Len(t) : j <= c - 1 => j \in i..c - 1
    BY <1>1
  <2>3. \A j \in i..Len(s) : j <= c - 1 => j \in i..c - 1
    BY <1>1
  <2> QED BY <1>2, <1>3, <2>1, <2>2, <2>3 DEF EndsIn
<1>5. Cardinality(EndsIn(s, i)) \in 0..c - i
  <2>1. EndsIn(s, i) \in SUBSET (i..c - 1)
    BY <1>1, <1>3 DEF EndsIn
  <2>2. IsFiniteSet(i..c - 1) /\ Cardinality(i..c - 1) = c - i
    <3>1. IsFiniteSet(i..c - 1) /\ Cardinality(i..c - 1) = IF i > c - 1 THEN 0 ELSE (c - 1) - i + 1
      BY FS_Interval
    <3> QED BY <3>1
  <2> QED BY <2>1, <2>2, FS_Subset, FS_CardinalityType
<1> DEFINE e == i + Cardinality(EndsIn(s, i)) - 1
<1>6. e \in i - 1..c - 1
  BY <1>5
<1>7. SubSeq(t, i, e) = SubSeq(s, i, e)
  <2> HIDE DEF e
  <2>1. \A j \in 1..e - i + 1 : t[i + j - 1] = s[i + j - 1]
    BY <1>1, <1>6
  <2> QED BY <1>1, <1>6, <2>1 DEF SubSeq
<1>8. StartIn(t, i) <=> StartIn(s, i)
  <2>1. i \in 1..Len(s) /\ (i = 1 \/ i - 1 \in 1..Len(s))
    BY <1>1
  <2>2. t[i] = s[i] /\ (i = 1 \/ t[i - 1] = s[i - 1])
    BY <1>1, <2>1
  <2> QED BY <2>2 DEF StartIn
<1>9. RunIn(t, i) = RunIn(s, i)
  <2>1. RunIn(t, i) = SubSeq(t, i, e)
    BY <1>4 DEF RunIn
  <2> QED BY <1>7, <2>1 DEF RunIn
<1>10. t[i] = s[i]
  BY <1>1
<1> QED BY <1>8, <1>9, <1>10 DEF t

FirstIn(inf, psid) ==
  inf[CHOOSE i \in DOMAIN inf : /\ inf[i].psid = psid
                                /\ \A j \in 1..i - 1 : inf[j].psid # psid]

CanStore(k, m, inf, psid, run) ==
  /\ \E info \in ToSet(inf) : info.psid = psid
  /\ k = "pv" => FirstIn(inf, psid).hourly
  /\ \A line \in ToSet(run), name \in DOMAIN m.offline :
       Carries(line, name) => m.offline[name] < GetSize(m)

StoredAs(m, inf, bitmap, run) ==
  /\ Len(bitmap.cols) = Len(run) /\ Len(bitmap.bids) = Len(run)
  /\ bitmap.figures = FirstIn(inf, run[1].psid).figures
  /\ \A i \in DOMAIN run :
       /\ bitmap.cols[i] = {m.offline[name] :
                              name \in {n \in DOMAIN m.offline : Carries(run[i], n)}} \cap Nat
       /\ run[i].bid \in 0..MaxBid => bitmap.bids[i] = run[i].bid
       /\ run[i].bid > MaxBid => bitmap.bids[i] = MaxBid

\* The runs of a position before the c-th sample that can be stored.
StartsIn(k, m, inf, s, c, psid) ==
  {i \in 1..c - 1 : /\ s[i].psid = psid /\ StartIn(s, i)
                    /\ CanStore(k, m, inf, psid, RunIn(s, i))}

\* Everything before the c-th sample is in the index.
BuiltFrom(idx, k, m, inf, s, c) ==
  \A psid \in Psids :
    IF StartsIn(k, m, inf, s, c, psid) = {} THEN idx[psid] = None
    ELSE /\ idx[psid] # None
         /\ \E i \in StartsIn(k, m, inf, s, c, psid) :
              /\ \A j \in StartsIn(k, m, inf, s, c, psid) : i <= j
              /\ StoredAs(m, inf, idx[psid], RunIn(s, i))

LEMMA BuiltStays ==
  ASSUME NEW X, NEW s \in Seq(X), NEW x \in X, NEW c \in 1..Len(s), StartIn(s, c),
         NEW idx, NEW k, NEW m, NEW inf, BuiltFrom(idx, k, m, inf, s, c)
  PROVE  BuiltFrom(idx, k, m, inf, Append(s, x), c)
<1> DEFINE t == Append(s, x)
<1>1. ASSUME NEW i \in 1..c - 1
      PROVE  t[i] = s[i] /\ (StartIn(t, i) <=> StartIn(s, i)) /\ RunIn(t, i) = RunIn(s, i)
  BY RunStays
<1> HIDE DEF t
<1>2. ASSUME NEW psid PROVE StartsIn(k, m, inf, t, c, psid) = StartsIn(k, m, inf, s, c, psid)
  BY <1>1 DEF StartsIn
<1>3. ASSUME NEW psid, NEW i \in StartsIn(k, m, inf, s, c, psid) PROVE RunIn(t, i) = RunIn(s, i)
  BY <1>1 DEF StartsIn
<1>4. BuiltFrom(idx, k, m, inf, t, c)
  BY <1>2, <1>3 DEF BuiltFrom
<1> QED BY <1>4 DEF t

\* What is stored of a run that has ended, if anything is: the bitmap of a position that
\* had none.
Joined(idx, idx2, k, m, inf, psid, run) ==
  \/ idx2 = idx /\ (idx[psid] # None \/ ~CanStore(k, m, inf, psid, run))
  \/ /\ idx[psid] = None /\ CanStore(k, m, inf, psid, run)
     /\ idx2[psid] # None /\ StoredAs(m, inf, idx2[psid], run)
     /\ \A q \in Psids \ {psid} : idx2[q] = idx[q]

LEMMA BuiltNext ==
  ASSUME NEW X, NEW s \in Seq(X), NEW c \in Int, NEW n \in Int, IsRun(s, c, n), StartIn(s, c),
         s[c].psid \in Psids,
         NEW idx, NEW idx2, NEW k, NEW m, NEW inf, BuiltFrom(idx, k, m, inf, s, c),
         Joined(idx, idx2, k, m, inf, s[c].psid, RunIn(s, c))
  PROVE  BuiltFrom(idx2, k, m, inf, s, n + 1)
<1> DEFINE p == s[c].psid
           Old(psid) == StartsIn(k, m, inf, s, c, psid)
           New(psid) == StartsIn(k, m, inf, s, n + 1, psid)
           stored == CanStore(k, m, inf, p, RunIn(s, c))
<1>1. c \in 1..Len(s) /\ n \in c..Len(s) /\ \A j \in c..n : s[j].psid = p
  BY DEF IsRun
<1>2. ASSUME NEW psid, NEW i \in 1..(n + 1) - 1, s[i].psid = psid, StartIn(s, i)
      PROVE  i \in 1..c - 1 \/ (i = c /\ psid = p)
  <2> SUFFICES ASSUME i \in c + 1..n PROVE FALSE
    BY <1>1, <1>2
  <2>1. i - 1 \in c..n /\ i \in c..n /\ i # 1
    BY <1>1
  <2> QED BY <1>1, <1>2, <2>1 DEF StartIn
<1>3. ASSUME NEW psid, psid # p \/ ~stored PROVE New(psid) = Old(psid)
  <2>1. \A i \in 1..c - 1 : i \in 1..(n + 1) - 1
    BY <1>1
  <2> QED BY <1>2, <1>3, <2>1 DEF StartsIn
<1>4. ASSUME stored PROVE New(p) = Old(p) \cup {c}
  <2>1. \A i \in 1..c - 1 : i \in 1..(n + 1) - 1
    BY <1>1
  <2>2. c \in 1..(n + 1) - 1
    BY <1>1
  <2> QED BY <1>2, <1>4, <2>1, <2>2 DEF StartsIn
<1>5. \A psid : \A i \in Old(psid) : i < c /\ i \in Int
  BY <1>1 DEF StartsIn
<1> HIDE DEF Old, New, stored, p
<1>6. ASSUME NEW psid \in Psids
      PROVE  IF New(psid) = {} THEN idx2[psid] = None
             ELSE /\ idx2[psid] # None
                  /\ \E i \in New(psid) : /\ \A j \in New(psid) : i <= j
                                          /\ StoredAs(m, inf, idx2[psid], RunIn(s, i))
  <2>0. IF Old(psid) = {} THEN idx[psid] = None
        ELSE /\ idx[psid] # None
             /\ \E i \in Old(psid) : /\ \A j \in Old(psid) : i <= j
                                     /\ StoredAs(m, inf, idx[psid], RunIn(s, i))
    BY DEF BuiltFrom, Old
  <2>1. CASE psid # p \/ ~stored
    <3>1. idx2[psid] = idx[psid]
      BY <2>1 DEF Joined, stored, p
    <3> QED BY <1>3, <2>0, <2>1, <3>1
  <2>2. CASE psid = p /\ stored
    <3>1. New(psid) = Old(psid) \cup {c}
      BY <1>4, <2>2
    <3>2. CASE Old(psid) = {}
      <4>1. idx2[psid] # None /\ StoredAs(m, inf, idx2[psid], RunIn(s, c))
        BY <2>0, <2>2, <3>2 DEF Joined, stored, p
      <4>2. New(psid) = {c} /\ c <= c
        BY <3>1, <3>2
      <4> QED BY <4>1, <4>2
    <3>3. CASE Old(psid) # {}
      <4>1. idx2[psid] = idx[psid]
        BY <2>0, <2>2, <3>3 DEF Joined, stored, p
      <4>2. PICK i \in Old(psid) : /\ \A j \in Old(psid) : i <= j
                                   /\ StoredAs(m, inf, idx[psid], RunIn(s, i))
        BY <2>0, <3>3
      <4>3. i <= c
        BY <1>5
      <4>4. \A j \in New(psid) : i <= j
        BY <3>1, <4>2, <4>3
      <4> QED BY <2>0, <3>1, <3>3, <4>1, <4>2, <4>4
    <3> QED BY <3>2, <3>3
  <2> QED BY <2>1, <2>2
<1> QED BY <1>6 DEF BuiltFrom, New

-----------------------------------------------------------------------------
(* The bitmap of a run *)

LEMMA FirstIs ==
  ASSUME NEW inf \in Seq(Infos), NEW psid, NEW i \in DOMAIN inf, inf[i].psid = psid,
         \A j \in 1..i - 1 : inf[j].psid # psid
  PROVE  FirstIn(inf, psid) = inf[i]
<1> DEFINE First(l) == inf[l].psid = psid /\ \A j \in 1..l - 1 : inf[j].psid # psid
<1>1. First(i)
  OBVIOUS
<1>2. ASSUME NEW l \in DOMAIN inf, First(l) PROVE l = i
  <2>1. l \in Nat \ {0} /\ i \in Nat \ {0}
    OBVIOUS
  <2>2. l < i => l \in 1..i - 1
    BY <2>1
  <2>3. i < l => i \in 1..l - 1
    BY <2>1
  <2> QED BY <1>1, <1>2, <2>1, <2>2, <2>3
<1> DEFINE f == CHOOSE l \in DOMAIN inf : First(l)
<1> HIDE DEF First
<1>3. f \in DOMAIN inf /\ First(f)
  BY <1>1
<1>4. f = i
  <2> HIDE DEF f
  <2> QED BY <1>2, <1>3
<1>5. FirstIn(inf, psid) = inf[f]
  BY DEF FirstIn, First
<1> QED BY <1>4, <1>5

\* A dictionary as LoadTargetMap leaves it.
MapOK == /\ IsFiniteSet(DOMAIN map.offline)
         /\ \A name \in DOMAIN map.offline : map.offline[name] \in Int

\* The rows of a sample are those of the names it carries.
LEMMA RowsAre ==
  ASSUME MapOK, NEW line
  PROVE  Rows(line) = {map.offline[name] :
                         name \in {n \in DOMAIN map.offline : Carries(line, n)}} \cap Nat
<1> DEFINE all == ToSet(line.names) \cup ProcessRegion(line.region)
<1>1. ASSUME NEW name PROVE name \in all <=> Carries(line, name)
  BY DEF Carries, ProcessRegion, ToSet
<1>2. Rows(line) = {QueryOffline(map, name) : name \in all} \cap Nat
  BY DEF Rows
<1>3. ASSUME NEW name PROVE IF name \in DOMAIN map.offline
                            THEN QueryOffline(map, name) = map.offline[name]
                            ELSE QueryOffline(map, name) \notin Nat
  <2>1. NoRow \notin Nat
    BY DEF NoRow
  <2> QED BY <2>1 DEF QueryOffline, Lookup
<1> HIDE DEF all
<1>4. ASSUME NEW row \in Rows(line)
      PROVE  \E name \in DOMAIN map.offline : Carries(line, name) /\ row = map.offline[name]
  <2>1. PICK name \in all : row = QueryOffline(map, name) /\ row \in Nat
    BY <1>2
  <2> QED BY <1>1, <1>3, <2>1
<1>5. ASSUME NEW name \in DOMAIN map.offline, Carries(line, name), map.offline[name] \in Nat
      PROVE  map.offline[name] \in Rows(line)
  BY <1>1, <1>2, <1>3, <1>5
<1>6. Rows(line) \subseteq Nat
  BY <1>2
<1> QED BY <1>4, <1>5, <1>6

LEMMA MaxBidIs == MaxBid \in Nat \ {0}
  BY DEF MaxBid

LEMMA ToBidIs ==
  ASSUME NEW num \in Int
  PROVE  /\ ToBid(num) \in 0..MaxBid
         /\ num \in 0..MaxBid => ToBid(num) = num
         /\ num > MaxBid => ToBid(num) = MaxBid
<1>1. CASE num > MaxBid
  <2>1. ToBid(num) = MaxBid
    BY <1>1 DEF ToBid
  <2> QED BY <1>1, <2>1, MaxBidIs
<1>2. CASE ~(num > MaxBid)
  <2>1. ToBid(num) = num % (MaxBid + 1)
    BY <1>2 DEF ToBid
  <2>2. num % (MaxBid + 1) \in 0..MaxBid /\ (num \in 0..MaxBid => num % (MaxBid + 1) = num)
    BY MaxBidIs
  <2> QED BY <1>2, <2>1, <2>2, MaxBidIs
<1> QED BY <1>1, <1>2

\* The columns and bids that were collected are those of the run.
Aligned(cols, bs, run) ==
  /\ cols \in Seq(SUBSET Nat) /\ bs \in Seq(0..MaxBid) /\ run \in Seq(Samples)
  /\ Len(cols) = Len(run) /\ Len(bs) = Len(run)
Collected(cols, bs, run) ==
  /\ Aligned(cols, bs, run)
  /\ \A i \in 1..Len(run) : cols[i] = Rows(run[i]) /\ bs[i] = ToBid(run[i].bid)

\* A bitmap in the index.
GoodBitmap(b) == /\ b \in AllBitmaps
                 /\ b.height = GetSize(map) /\ Len(b.bids) = Len(b.cols)
                 /\ \A i \in DOMAIN b.cols : b.cols[i] \subseteq 0..b.height - 1

LEMMA AlignedFacts ==
  ASSUME NEW cols, NEW bs, NEW run, Collected(cols, bs, run)
  PROVE  /\ cols \in Seq(SUBSET Nat) /\ bs \in Seq(0..MaxBid) /\ run \in Seq(Samples)
         /\ Len(cols) = Len(run) /\ Len(bs) = Len(run) /\ Len(run) \in Nat
         /\ DOMAIN cols = 1..Len(run) /\ DOMAIN run = 1..Len(run)
<1>1. Aligned(cols, bs, run)
  BY DEF Collected
<1>2. /\ cols \in Seq(SUBSET Nat) /\ bs \in Seq(0..MaxBid) /\ run \in Seq(Samples)
      /\ Len(cols) = Len(run) /\ Len(bs) = Len(run)
  BY <1>1 DEF Aligned
<1> QED BY <1>2

LEMMA BoundsAre ==
  ASSUME MapOK, NEW cols, NEW bs, NEW run, Collected(cols, bs, run)
  PROVE  InBounds(cols, GetSize(map)) <=>
           \A line \in ToSet(run), name \in DOMAIN map.offline :
             Carries(line, name) => map.offline[name] < GetSize(map)
<1>1. GetSize(map) \in Nat
  BY FS_CardinalityType DEF MapOK, GetSize
<1>2. DOMAIN cols = 1..Len(run) /\ DOMAIN run = 1..Len(run)
  BY AlignedFacts
<1>3. ASSUME NEW i \in 1..Len(run)
      PROVE  (\A row \in cols[i] : row < GetSize(map)) <=>
             \A name \in DOMAIN map.offline :
               Carries(run[i], name) => map.offline[name] < GetSize(map)
  <2> DEFINE rows == {map.offline[name] :
                        name \in {n \in DOMAIN map.offline : Carries(run[i], n)}} \cap Nat
  <2>1. cols[i] = Rows(run[i])
    BY DEF Collected
  <2>2. Rows(run[i]) = rows
    BY RowsAre, Zenon
  <2>3. \A name \in DOMAIN map.offline :
          map.offline[name] \in Nat \/ map.offline[name] < GetSize(map)
    BY <1>1 DEF MapOK
  <2> QED BY <2>1, <2>2, <2>3
<1> QED BY <1>2, <1>3 DEF InBounds, ToSet

LEMMA GeneratedIs ==
  ASSUME MapOK, kind \in Kinds, informed \in Seq(Infos),
         NEW psid, NEW info \in Infos, info = FirstIn(informed, psid),
         \E i \in ToSet(informed) : i.psid = psid,
         NEW run, Collected(targets, bids, run), run # <<>>, run[1].psid = psid
  PROVE  LET b == Generated(kind, targets, bids, info, GetSize(map))
         IN IF CanStore(kind, map, informed, psid, run)
            THEN b # None /\ GoodBitmap(b) /\ StoredAs(map, informed, b, run)
            ELSE b = None
<1> DEFINE H == GetSize(map)
           b == Generated(kind, targets, bids, info, H)
           r == [height |-> H, cols |-> targets, bids |-> bids, figures |-> info.figures]
<1>0. H \in Nat
  BY FS_CardinalityType DEF MapOK, GetSize
<1>1. CanStore(kind, map, informed, psid, run) <=>
        (kind = "pv" => info.hourly) /\ InBounds(targets, H)
  BY BoundsAre DEF CanStore
<1>2. /\ targets \in Seq(SUBSET Nat) /\ bids \in Seq(0..MaxBid)
      /\ Len(targets) = Len(run) /\ Len(bids) = Len(run) /\ DOMAIN run = 1..Len(run)
  BY AlignedFacts
<1>3. b = IF CanStore(kind, map, informed, psid, run) THEN r ELSE None
  BY <1>1, <1>2 DEF Generated
<1>4. r \in AllBitmaps
  BY <1>0, <1>2 DEF AllBitmaps, Figures, Infos
<1>5. r # None
  BY <1>4, BuilderAssumption
<1>6. ASSUME CanStore(kind, map, informed, psid, run) PROVE GoodBitmap(r)
  <2>1. \A i \in DOMAIN targets : targets[i] \subseteq Nat
    BY <1>2
  <2>2. InBounds(targets, H)
    BY <1>1, <1>6
  <2>3. \A i \in DOMAIN targets : targets[i] \subseteq 0..H - 1
    <3> HIDE DEF H
    <3> QED BY <1>0, <2>1, <2>2 DEF InBounds
  <2> QED BY <1>2, <1>4, <2>3 DEF GoodBitmap
<1>7. StoredAs(map, informed, r, run)
  <2>2. ASSUME NEW i \in DOMAIN run
        PROVE  /\ targets[i] = {map.offline[name] :
                              name \in {n \in DOMAIN map.offline : Carries(run[i], n)}} \cap Nat
               /\ run[i].bid \in 0..MaxBid => bids[i] = run[i].bid
               /\ run[i].bid > MaxBid => bids[i] = MaxBid
    <3>1. targets[i] = Rows(run[i]) /\ bids[i] = ToBid(run[i].bid)
      BY <1>2 DEF Collected
    <3>2. run[i].bid \in Int
      <4>1. run[i] \in Samples
        BY AlignedFacts
      <4> QED BY <4>1, BuilderAssumption DEF Samples
    <3>3. Rows(run[i]) = {map.offline[name] :
                            name \in {n \in DOMAIN map.offline : Carries(run[i], n)}} \cap Nat
      BY RowsAre, Zenon
    <3>4. /\ run[i].bid \in 0..MaxBid => ToBid(run[i].bid) = run[i].bid
          /\ run[i].bid > MaxBid => ToBid(run[i].bid) = MaxBid
      BY <3>2, ToBidIs
    <3> QED BY <3>1, <3>3, <3>4, Zenon
  <2>3. /\ Len(r.cols) = Len(run) /\ Len(r.bids) = Len(run)
        /\ r.figures = FirstIn(informed, run[1].psid).figures
    BY <1>2
  <2>4. r.cols = targets /\ r.bids = bids
    OBVIOUS
  <2> HIDE DEF r
  <2> QED BY <2>2, <2>3, <2>4 DEF StoredAs
<1> HIDE DEF b, r
<1>8. IF CanStore(kind, map, informed, psid, run)
      THEN b # None /\ GoodBitmap(b) /\ StoredAs(map, informed, b, run)
      ELSE b = None
  BY <1>3, <1>5, <1>6, <1>7
<1> QED BY <1>8 DEF b

-----------------------------------------------------------------------------
(* What is collected goes into the index *)

Informs(psid, i) == /\ infos[psid] = informed[i] /\ informed[i].psid = psid
                    /\ \A j \in 1..i - 1 : informed[j].psid # psid

\* The figures of a position are those of its first line.
InfoOK == /\ informed \in Seq(Infos) /\ DOMAIN infos \subseteq Psids
          /\ \A psid \in DOMAIN infos : \E i \in DOMAIN informed : Informs(psid, i)
          /\ \A i \in DOMAIN informed : informed[i].psid \in DOMAIN infos

IndexOK(idx) ==
  /\ DOMAIN idx = {"pv", "uv", "merge"}
  /\ \A k \in Kinds : /\ idx[k] \in [Psids -> AllBitmaps \cup {None}]
                      /\ \A psid \in Psids : idx[k][psid] = None \/ GoodBitmap(idx[k][psid])

LEMMA InfoIs ==
  ASSUME InfoOK, NEW psid \in DOMAIN infos
  PROVE  /\ infos[psid] \in Infos /\ infos[psid] = FirstIn(informed, psid)
         /\ \E line \in ToSet(informed) : line.psid = psid
<1>1. PICK i \in DOMAIN informed : Informs(psid, i)
  BY DEF InfoOK
<1>2. /\ infos[psid] = informed[i] /\ informed[i].psid = psid
      /\ \A j \in 1..i - 1 : informed[j].psid # psid
  BY <1>1 DEF Informs
<1>3. informed \in Seq(Infos)
  BY DEF InfoOK
<1>4. FirstIn(informed, psid) = informed[i]
  BY <1>2, <1>3, FirstIs
<1>5. informed[i] \in Infos /\ informed[i] \in ToSet(informed)
  BY <1>3 DEF ToSet
<1> QED BY <1>2, <1>4, <1>5

LEMMA FlushJoins ==
  ASSUME MapOK, kind \in Kinds, InfoOK, IndexOK(index), last_psid \in Psids,
         NEW run, Collected(targets, bids, run), run # <<>>, run[1].psid = last_psid, NEW q
  PROVE  /\ Joined(index[kind], Flushed(q)[kind], kind, map, informed, last_psid, run)
         /\ IndexOK(Flushed(q))
         /\ \A k \in {"pv", "uv", "merge"} \ {kind} : Flushed(q)[k] = index[k]
<1> DEFINE can == CanStore(kind, map, informed, last_psid, run)
           b   == Generated(kind, targets, bids, infos[last_psid], GetSize(map))
<1>1. targets # <<>>
  <2>1. run \in Seq(Samples) /\ Len(targets) = Len(run)
    BY AlignedFacts
  <2>2. Len(run) # 0
    BY <2>1
  <2> QED BY <2>1, <2>2
<1>2. kind \in {"pv", "uv"} /\ kind \in DOMAIN index /\ index[kind] \in [Psids -> AllBitmaps \cup {None}]
  BY DEF IndexOK, Kinds
<1>3. CASE last_psid \notin DOMAIN infos
  <2>1. Flushed(q) = index
    BY <1>3 DEF Flushed
  <2>2. ~can
    <3>1. \A line \in ToSet(informed) : line.psid \in DOMAIN infos
      BY DEF InfoOK, ToSet
    <3> QED BY <1>3, <3>1 DEF CanStore
  <2> QED BY <2>1, <2>2 DEF Joined
<1>4. CASE last_psid \in DOMAIN infos
  <2>1. /\ infos[last_psid] \in Infos /\ infos[last_psid] = FirstIn(informed, last_psid)
        /\ \E line \in ToSet(informed) : line.psid = last_psid
    BY <1>4, InfoIs
  <2>2. informed \in Seq(Infos)
    BY DEF InfoOK
  <2>3. IF can THEN b # None /\ GoodBitmap(b) /\ StoredAs(map, informed, b, run) ELSE b = None
    BY <2>1, <2>2, GeneratedIs
  <2>4. Flushed(q) = Add(kind, last_psid, b)
    BY <1>1, <1>4 DEF Flushed
  <2> HIDE DEF can, b
  <2>5. CASE index[kind][last_psid] # None
    <3>1. Flushed(q) = index
      BY <2>4, <2>5 DEF Add
    <3> QED BY <2>5, <3>1 DEF Joined
  <2>6. CASE index[kind][last_psid] = None
    <3> DEFINE idx == [index EXCEPT ![kind][last_psid] = b]
    <3>1. Flushed(q) = idx
      BY <2>4, <2>6 DEF Add
    <3>2. /\ DOMAIN idx = DOMAIN index
          /\ idx[kind] = [index[kind] EXCEPT ![last_psid] = b]
          /\ \A k \in DOMAIN index \ {kind} : idx[k] = index[k]
      BY <1>2
    <3> HIDE DEF idx
    <3>3. idx[kind][last_psid] = b /\ \A p \in Psids \ {last_psid} : idx[kind][p] = index[kind][p]
      BY <1>2, <3>2
    <3>4. Joined(index[kind], idx[kind], kind, map, informed, last_psid, run)
      <4>1. CASE can
        BY <2>3, <2>6, <3>3, <4>1 DEF Joined, can
      <4>2. CASE ~can
        <5>1. idx[kind] = index[kind]
          BY <1>2, <2>3, <2>6, <3>2, <4>2
        <5> QED BY <4>2, <5>1 DEF Joined, can
      <4> QED BY <4>1, <4>2
    <3>5. b \in AllBitmaps \cup {None} /\ (b = None \/ GoodBitmap(b))
      BY <2>3 DEF GoodBitmap
    <3>6. IndexOK(idx)
      <4>1. idx[kind] \in [Psids -> AllBitmaps \cup {None}]
        BY <1>2, <3>2, <3>5
      <4>2. ASSUME NEW p \in Psids PROVE idx[kind][p] = None \/ GoodBitmap(idx[kind][p])
        BY <3>3, <3>5 DEF IndexOK
      <4>3. ASSUME NEW k \in Kinds, k # kind
            PROVE  /\ idx[k] \in [Psids -> AllBitmaps \cup {None}]
                   /\ \A p \in Psids : idx[k][p] = None \/ GoodBitmap(idx[k][p])
        <5>1. k \in DOMAIN index
          BY DEF IndexOK, Kinds
        <5>2. idx[k] = index[k]
          BY <3>2, <4>3, <5>1
        <5> QED BY <5>2 DEF IndexOK
      <4> QED BY <3>2, <4>1, <4>2, <4>3 DEF IndexOK
    <3>7. \A k \in {"pv", "uv", "merge"} \ {kind} : idx[k] = index[k]
      BY <3>2 DEF IndexOK
    <3> QED BY <3>1, <3>4, <3>6, <3>7
  <2> QED BY <2>5, <2>6
<1> QED BY <1>3, <1>4

-----------------------------------------------------------------------------
(* The inductive invariant *)

\* The samples of the file since the position changed, which began at the c-th.
OpenRun(c) == /\ StartIn(sampled, c)
              /\ \A i \in c..Len(sampled) : sampled[i].psid = last_psid
              /\ Collected(targets, bids, SubSeq(sampled, c, Len(sampled)))
              /\ BuiltFrom(index[kind], kind, map, informed, sampled, c)

NothingRead == sampled = <<>> /\ last_psid = None /\ targets = <<>> /\ bids = <<>>

Types == /\ pc \in {"conf", "open", "infos", "samples", "built", "merge", "dump", "done"}
         /\ kind \in Kinds /\ last_psid \in Psids \cup {None}
         /\ targets \in Seq(SUBSET Nat) /\ bids \in Seq(0..MaxBid) /\ Len(targets) = Len(bids)
         /\ sampled \in Seq(Samples)

\* Where a file begins, nothing of its kind was read and there is no bitmap of its kind.
Clean == /\ pc = "conf" => kind = "pv"
         /\ kind = "pv" => index["uv"] = NoBitmaps
         /\ pc \in {"conf", "open", "infos"} => NothingRead /\ index[kind] = NoBitmaps
         /\ pc \in {"conf", "open"} => informed = <<>> /\ infos = NoEntries

Reads == /\ pc = "samples" => \/ NothingRead /\ index[kind] = NoBitmaps
                              \/ \E c \in 1..Len(sampled) : OpenRun(c)
         /\ pc = "built" =>
              BuiltFrom(index[kind], kind, map, informed, sampled, Len(sampled) + 1)

Merges == /\ psids \in Seq(Seq(Psids))
          /\ index["merge"] # None => index["merge"] = Merged(psids)
          /\ pc \notin {"dump", "done"} => index["merge"] = None

IInv == Types /\ MapOK /\ InfoOK /\ IndexOK(index) /\ Clean /\ Reads /\ Merges

\* An empty file leaves nothing to build from.
LEMMA BuiltFromNothing ==
  ASSUME NEW idx, idx = NoBitmaps, NEW k, NEW m, NEW inf, NEW s
  PROVE  BuiltFrom(idx, k, m, inf, s, 1)
<1>1. ASSUME NEW psid PROVE StartsIn(k, m, inf, s, 1, psid) = {}
  <2>1. 1..1 - 1 = {}
    OBVIOUS
  <2> QED BY <2>1 DEF StartsIn
<1>2. \A psid \in Psids : idx[psid] = None
  BY DEF NoBitmaps
<1> QED BY <1>1, <1>2 DEF BuiltFrom

LEMMA InvInit == Init => IInv
<1> SUFFICES ASSUME Init PROVE IInv
  OBVIOUS
<1> USE DEF Init
<1>1. Types
  BY DEF Types, Kinds
<1>2. MapOK
  <2>1. DOMAIN map.offline = {}
    BY DEF EmptyTargetMap, NoEntries
  <2> QED BY <2>1, FS_EmptySet DEF MapOK
<1>3. InfoOK
  <2>1. DOMAIN infos = {} /\ informed = <<>>
    BY DEF NoEntries
  <2> QED BY <2>1 DEF InfoOK
<1>4. IndexOK(index)
  <2>1. DOMAIN index = {"pv", "uv", "merge"} /\ \A k \in Kinds : index[k] = NoBitmaps
    BY DEF Kinds
  <2> QED BY <2>1 DEF IndexOK, NoBitmaps
<1>5. Clean /\ Reads
  BY DEF Clean, Reads, NothingRead
<1>6. Merges
  BY DEF Merges
<1> QED BY <1>1, <1>2, <1>3, <1>4, <1>5, <1>6 DEF IInv

\* What a step keeps if it leaves the variables alone.
LEMMA KeepsInfos == ASSUME InfoOK, UNCHANGED <<infos, informed>> PROVE InfoOK'
  BY DEF InfoOK, Informs

LEMMA KeepsIndex == ASSUME IndexOK(index), UNCHANGED <<map, index>> PROVE IndexOK(index)'
  BY DEF IndexOK, GoodBitmap

LEMMA KeepsMap == ASSUME MapOK, UNCHANGED map PROVE MapOK'
  BY DEF MapOK

LEMMA KeepsRows == ASSUME UNCHANGED map, NEW line PROVE Rows(line)' = Rows(line)
  BY DEF Rows

LEMMA KeepsCollected ==
  ASSUME UNCHANGED map, NEW cols, NEW bs, NEW run, Collected(cols, bs, run)
  PROVE  Collected(cols, bs, run)'
<1>1. ASSUME NEW line PROVE Rows(line)' = Rows(line)
  BY KeepsRows
<1> QED BY <1>1 DEF Collected

LEMMA KeepsOpenRun ==
  ASSUME NEW c, OpenRun(c), UNCHANGED <<kind, map, reading, index>>
  PROVE  OpenRun(c)'
<1>1. ASSUME NEW line PROVE Rows(line)' = Rows(line)
  BY KeepsRows DEF reading
<1> QED BY <1>1 DEF OpenRun, Collected, reading

-----------------------------------------------------------------------------
(* The steps *)

LEMMA StepLoadTargetMap ==
  ASSUME IInv, LoadTargetMap
  PROVE  IInv'
<1> USE DEF LoadTargetMap
<1>1. Types'
  BY DEF IInv, Types, reading
<1>2. MapOK'
  <2>1. CASE UNCHANGED map
    BY <2>1, KeepsMap DEF IInv
  <2>2. ASSUME NEW conf \in Confs, map' = Load(conf) PROVE MapOK'
    <3>1. Load(conf) \in Maps(Names(conf)) /\ IsFiniteSet(DOMAIN Load(conf).offline)
      BY LoadType
    <3>2. map'.offline \in Dicts(Names(conf))
      BY <2>2, <3>1 DEF Maps
    <3>3. \A name \in DOMAIN map'.offline : map'.offline[name] \in Int
      BY <3>2, DictFacts
    <3> QED BY <2>2, <3>1, <3>3 DEF MapOK
  <2> QED BY <2>1, <2>2
<1>3. InfoOK'
  BY KeepsInfos DEF IInv, reading
<1>4. IndexOK(index)'
  <2>1. \A k \in Kinds : index'[k] = NoBitmaps
    BY DEF IInv, Clean, Kinds
  <2>2. DOMAIN index' = {"pv", "uv", "merge"}
    BY DEF IInv, IndexOK
  <2> QED BY <2>1, <2>2 DEF IndexOK, NoBitmaps
<1>5. Clean' /\ Reads'
  BY DEF IInv, Clean, Reads, NothingRead, reading
<1>6. Merges'
  BY DEF IInv, Merges
<1> QED BY <1>1, <1>2, <1>3, <1>4, <1>5, <1>6 DEF IInv

LEMMA StepOpen ==
  ASSUME IInv, Open
  PROVE  IInv'
<1> USE DEF Open
<1>1. Types'
  BY DEF IInv, Types, reading
<1>2. MapOK' /\ InfoOK' /\ IndexOK(index)'
  BY KeepsMap, KeepsInfos, KeepsIndex DEF IInv, reading
<1>3. Clean'
  BY DEF IInv, Clean, NothingRead, reading
<1>4. Reads'
  <2>1. sampled = <<>> /\ index[kind] = NoBitmaps
    BY DEF IInv, Clean, NothingRead
  <2>2. BuiltFrom(index[kind], kind, map, informed, sampled, Len(sampled) + 1)
    <3>1. Len(sampled) + 1 = 1
      BY <2>1
    <3>2. BuiltFrom(index[kind], kind, map, informed, sampled, 1)
      BY <2>1, BuiltFromNothing
    <3> QED BY <3>1, <3>2
  <2>3. BuiltFrom(index[kind], kind, map, informed, sampled, Len(sampled) + 1)'
    BY <2>2 DEF reading
  <2>4. pc' # "samples"
    OBVIOUS
  <2> QED BY <2>3, <2>4 DEF Reads
<1>5. Merges'
  BY DEF IInv, Merges
<1> QED BY <1>1, <1>2, <1>3, <1>4, <1>5 DEF IInv

\* infos.insert: an informed position keeps its first line, another gets this one.
LEMMA StepReadInfo ==
  ASSUME IInv, ReadInfo
  PROVE  IInv'
<1> USE DEF ReadInfo
<1>1. Types'
  BY DEF IInv, Types
<1>2. MapOK' /\ IndexOK(index)'
  BY KeepsMap, KeepsIndex DEF IInv
<1>3. InfoOK'
  <2>1. CASE UNCHANGED <<infos, informed>>
    BY <2>1, KeepsInfos DEF IInv
  <2>2. ASSUME NEW line \in InfoLines, line.ok,
               infos' = Inserted(infos, line.psid, line), informed' = Append(informed, line)
        PROVE  InfoOK'
    <3>a. PICK p : p = line.psid
      OBVIOUS
    <3>b. PICK n : n = Len(informed)
      OBVIOUS
    <3>1. InfoOK
      BY DEF IInv
    <3>2. informed \in Seq(Infos) /\ n \in Nat /\ line \in Infos
      BY <2>2, <3>b, <3>1 DEF InfoOK, Infos
    <3>3. /\ informed' \in Seq(Infos) /\ DOMAIN informed' = 1..n + 1 /\ DOMAIN informed = 1..n
          /\ informed'[n + 1] = line /\ \A i \in 1..n : informed'[i] = informed[i]
      BY <2>2, <3>b, <3>2
    <3>4. p \in Psids
      BY <2>2, <3>a, BuilderAssumption
    <3>5. /\ DOMAIN infos' = DOMAIN infos \cup {p}
          /\ \A q \in DOMAIN infos : infos'[q] = infos[q]
          /\ p \notin DOMAIN infos => infos'[p] = line
      BY <2>2, <3>a DEF Inserted
    <3>6. ASSUME NEW q \in DOMAIN infos PROVE \E i \in DOMAIN informed' : Informs(q, i)'
      <4>1. PICK i \in DOMAIN informed : Informs(q, i)
        BY <3>1 DEF InfoOK
      <4>2. i \in 1..n /\ \A j \in 1..i - 1 : j \in 1..n
        BY <3>2, <3>3
      <4>3. Informs(q, i)'
        BY <3>3, <3>5, <4>1, <4>2 DEF Informs
      <4>4. i \in DOMAIN informed'
        BY <3>2, <3>3, <4>2
      <4> QED BY <4>3, <4>4
    <3>7. ASSUME p \notin DOMAIN infos PROVE Informs(p, n + 1)'
      <4>1. (n + 1) - 1 = n
        BY <3>2
      <4>2. \A j \in 1..n : informed[j].psid # p
        BY <3>1, <3>3, <3>7 DEF InfoOK
      <4>3. informed'[n + 1].psid = p
        BY <3>a, <3>3
      <4>4. \A j \in 1..(n + 1) - 1 : informed'[j].psid # p
        BY <3>3, <4>1, <4>2
      <4>5. infos'[p] = informed'[n + 1]
        BY <3>3, <3>5, <3>7
      <4> QED BY <4>3, <4>4, <4>5 DEF Informs
    <3>8. n + 1 \in DOMAIN informed'
      BY <3>2, <3>3
    <3>9. \A i \in DOMAIN informed' : informed'[i].psid \in DOMAIN infos'
      <4>1. \A i \in 1..n : informed[i].psid \in DOMAIN infos
        BY <3>1, <3>3 DEF InfoOK
      <4>2. informed'[n + 1].psid = p
        BY <3>a, <3>3
      <4>3. \A i \in 1..n + 1 : i \in 1..n \/ i = n + 1
        BY <3>2
      <4> QED BY <3>3, <3>5, <4>1, <4>2, <4>3
    <3>10. DOMAIN infos' \subseteq Psids
      BY <3>1, <3>4, <3>5 DEF InfoOK
    <3>11. \A q \in DOMAIN infos' : \E i \in DOMAIN informed' : Informs(q, i)'
      <4> TAKE q \in DOMAIN infos'
      <4>1. CASE q \in DOMAIN infos
        BY <3>6, <4>1
      <4>2. CASE q \notin DOMAIN infos
        <5>1. q = p /\ p \notin DOMAIN infos
          BY <3>5, <4>2
        <5>2. Informs(p, n + 1)'
          BY <3>7, <5>1
        <5>3. Informs(q, n + 1)'
          BY <5>1, <5>2
        <5> QED BY <3>8, <5>3
      <4> QED BY <4>1, <4>2
    <3> QED BY <3>3, <3>9, <3>10, <3>11 DEF InfoOK
  <2> QED BY <2>1, <2>2
<1>4. Clean' /\ Reads'
  BY DEF IInv, Clean, Reads, NothingRead
<1>5. Merges'
  BY DEF IInv, Merges
<1> QED BY <1>1, <1>2, <1>3, <1>4, <1>5 DEF IInv

LEMMA StepInfosEnd ==
  ASSUME IInv, InfosEnd
  PROVE  IInv'
<1> USE DEF InfosEnd
<1>1. Types'
  BY DEF IInv, Types, reading
<1>2. MapOK' /\ InfoOK' /\ IndexOK(index)'
  BY KeepsMap, KeepsInfos, KeepsIndex DEF IInv, reading
<1>3. Clean' /\ Reads'
  BY DEF IInv, Clean, Reads, NothingRead, reading
<1>4. Merges'
  BY DEF IInv, Merges
<1> QED BY <1>1, <1>2, <1>3, <1>4 DEF IInv

LEMMA RunGrows ==
  ASSUME NEW X, NEW s \in Seq(X), NEW x \in X, NEW c \in 1..Len(s) + 1
  PROVE  /\ SubSeq(Append(s, x), c, Len(s)) = SubSeq(s, c, Len(s))
         /\ SubSeq(Append(s, x), c, Len(s) + 1) = Append(SubSeq(s, c, Len(s)), x)
<1> DEFINE t == Append(s, x)
           n == Len(s)
           r == SubSeq(s, c, n)
<1>1. /\ n \in Nat /\ t \in Seq(X) /\ Len(t) = n + 1
      /\ t[n + 1] = x /\ \A j \in 1..n : t[j] = s[j]
  OBVIOUS
<1>2. r \in Seq(X) /\ Len(r) = (n - c) + 1 /\ \A i \in 1..Len(r) : r[i] = s[c + i - 1]
  <2>1. /\ r \in Seq(X) /\ Len(r) = IF c <= n THEN n - c + 1 ELSE 0
        /\ \A i \in 1..n - c + 1 : r[i] = s[c + i - 1]
    BY SubSeqProperties
  <2> QED BY <1>1, <2>1
<1> HIDE DEF t
<1>3. SubSeq(t, c, n) = r
  <2>1. \A j \in 1..n - c + 1 : t[c + j - 1] = s[c + j - 1]
    BY <1>1
  <2> QED BY <1>1, <2>1 DEF SubSeq
<1> DEFINE u == SubSeq(t, c, n + 1)
<1>4. /\ u \in Seq(X) /\ Len(u) = (n - c) + 2
      /\ \A i \in 1..(n - c) + 2 : u[i] = t[c + i - 1]
  <2>1. \A i \in c..n + 1 : t[i] \in X
    BY <1>1
  <2>2. n + 1 \in Int /\ c \in Int /\ (n + 1) - c + 1 = (n - c) + 2 /\ c <= n + 1
    BY <1>1
  <2>3. /\ u \in Seq(X) /\ Len(u) = IF c <= n + 1 THEN (n + 1) - c + 1 ELSE 0
        /\ \A i \in 1..(n + 1) - c + 1 : u[i] = t[c + i - 1]
    <3> HIDE DEF n
    <3> QED BY <2>1, <2>2, SubSeqProperties
  <2> QED BY <2>2, <2>3
<1>5. u = Append(r, x)
  <2> DEFINE v == Append(r, x)
  <2>1. v \in Seq(X) /\ Len(v) = (n - c) + 2 /\ v[(n - c) + 2] = x
        /\ \A i \in 1..(n - c) + 1 : v[i] = r[i]
    BY <1>2
  <2> HIDE DEF u, v, r, n
  <2>2. ASSUME NEW i \in 1..(n - c) + 2 PROVE u[i] = v[i]
    <3>1. CASE i = (n - c) + 2
      <4>1. c + i - 1 = n + 1
        BY <1>1, <3>1
      <4> QED BY <1>1, <1>4, <2>1, <3>1, <4>1
    <3>2. CASE i # (n - c) + 2
      <4>1. i \in 1..(n - c) + 1 /\ c + i - 1 \in 1..n
        BY <1>1, <3>2
      <4> QED BY <1>1, <1>2, <1>4, <2>1, <4>1
    <3> QED BY <3>1, <3>2
  <2>3. u \in Seq(X) /\ v \in Seq(X) /\ Len(u) = Len(v) /\ \A i \in 1..Len(u) : u[i] = v[i]
    BY <1>4, <2>1, <2>2
  <2>4. u = v
    BY <2>3, SeqEqual
  <2> QED BY <2>4 DEF v
<1> QED BY <1>3, <1>5 DEF t

LEMMA CollectedNothing == Collected(<<>>, <<>>, <<>>)
  BY DEF Collected, Aligned

LEMMA CollectedMore ==
  ASSUME NEW cols, NEW bs, NEW run, Collected(cols, bs, run), NEW x \in Samples
  PROVE  Collected(Append(cols, Rows(x)), Append(bs, ToBid(x.bid)), Append(run, x))
<1> DEFINE c2 == Append(cols, Rows(x))
           b2 == Append(bs, ToBid(x.bid))
           r2 == Append(run, x)
           n  == Len(run)
<1>1. Rows(x) \in SUBSET Nat
  BY DEF Rows
<1>2. ToBid(x.bid) \in 0..MaxBid
  BY BuilderAssumption, ToBidIs DEF Samples
<1>3. /\ cols \in Seq(SUBSET Nat) /\ bs \in Seq(0..MaxBid) /\ run \in Seq(Samples)
      /\ Len(cols) = n /\ Len(bs) = n /\ n \in Nat
  BY AlignedFacts
<1>4. /\ c2 \in Seq(SUBSET Nat) /\ Len(c2) = n + 1
      /\ c2[n + 1] = Rows(x) /\ \A i \in 1..n : c2[i] = cols[i]
  BY <1>1, <1>3
<1>5. /\ b2 \in Seq(0..MaxBid) /\ Len(b2) = n + 1
      /\ b2[n + 1] = ToBid(x.bid) /\ \A i \in 1..n : b2[i] = bs[i]
  BY <1>2, <1>3
<1>6. /\ r2 \in Seq(Samples) /\ Len(r2) = n + 1
      /\ r2[n + 1] = x /\ \A i \in 1..n : r2[i] = run[i]
  BY <1>3
<1>7. \A i \in 1..n : cols[i] = Rows(run[i]) /\ bs[i] = ToBid(run[i].bid)
  BY DEF Collected
<1> HIDE DEF c2, b2, r2, n
<1>8. Aligned(c2, b2, r2)
  BY <1>4, <1>5, <1>6 DEF Aligned
<1>9. ASSUME NEW i \in 1..Len(r2) PROVE c2[i] = Rows(r2[i]) /\ b2[i] = ToBid(r2[i].bid)
  <2>1. i \in 1..n \/ i = n + 1
    BY <1>3, <1>6
  <2> QED BY <1>4, <1>5, <1>6, <1>7, <2>1
<1> QED BY <1>8, <1>9 DEF Collected, c2, b2, r2

\* The end of a run, before another position or at the end of the file: with its samples
\* everything that was read is in the index.
LEMMA FlushBuilds ==
  ASSUME MapOK, kind \in Kinds, InfoOK, IndexOK(index), last_psid \in Psids,
         sampled \in Seq(Samples), NEW c \in 1..Len(sampled), OpenRun(c),
         NEW t, t = sampled \/ \E x \in Samples : t = Append(sampled, x) /\ x.psid # last_psid,
         NEW q
  PROVE  /\ BuiltFrom(Flushed(q)[kind], kind, map, informed, t, Len(sampled) + 1)
         /\ IndexOK(Flushed(q))
         /\ \A k \in {"pv", "uv", "merge"} \ {kind} : Flushed(q)[k] = index[k]
<1> DEFINE n   == Len(sampled)
           run == SubSeq(sampled, c, n)
<1>1. n \in Nat /\ c \in Int /\ n \in Int
  OBVIOUS
<1>2. /\ StartIn(sampled, c) /\ \A i \in c..n : sampled[i].psid = last_psid
      /\ Collected(targets, bids, run)
      /\ BuiltFrom(index[kind], kind, map, informed, sampled, c)
  BY DEF OpenRun
<1>3. run # <<>> /\ run[1] = sampled[c]
  <2>1. /\ Len(run) = IF c <= n THEN n - c + 1 ELSE 0
        /\ \A i \in 1..n - c + 1 : run[i] = sampled[c + i - 1]
    BY SubSeqProperties
  <2>2. 1 \in 1..n - c + 1 /\ c + 1 - 1 = c /\ Len(run) # 0
    BY <1>1, <2>1
  <2> QED BY <2>1, <2>2
<1>4. sampled[c].psid = last_psid
  BY <1>1, <1>2
<1>5. /\ t \in Seq(Samples) /\ Len(t) >= n /\ Len(t) \in Nat
      /\ \A i \in 1..n : t[i] = sampled[i]
      /\ n < Len(t) => t[n + 1].psid # last_psid
  OBVIOUS
<1>6. IsRun(t, c, n)
  BY <1>1, <1>2, <1>4, <1>5 DEF IsRun
<1>7. StartIn(t, c)
  BY <1>1, <1>2, <1>5 DEF StartIn
<1>8. BuiltFrom(index[kind], kind, map, informed, t, c)
  <2>1. CASE t = sampled
    BY <1>2, <2>1
  <2>2. ASSUME NEW x \in Samples, t = Append(sampled, x)
        PROVE  BuiltFrom(index[kind], kind, map, informed, t, c)
    BY <1>2, <2>2, BuiltStays
  <2> QED BY <2>1, <2>2
<1>9. RunIn(t, c) = run
  <2>1. RunIn(t, c) = SubSeq(t, c, n)
    BY <1>1, <1>5, <1>6, RunIs
  <2>2. CASE t = sampled
    BY <2>1, <2>2
  <2>3. ASSUME NEW x \in Samples, t = Append(sampled, x) PROVE SubSeq(t, c, n) = run
    <3>1. c \in 1..Len(sampled) + 1
      OBVIOUS
    <3> QED BY <2>3, <3>1, RunGrows
  <2> QED BY <2>1, <2>2, <2>3
<1>10. t[c] = sampled[c]
  BY <1>1, <1>5
<1> HIDE DEF run, n
<1>11. run[1].psid = last_psid
  BY <1>3, <1>4
<1>12. /\ Joined(index[kind], Flushed(q)[kind], kind, map, informed, last_psid, run)
       /\ IndexOK(Flushed(q))
       /\ \A k \in {"pv", "uv", "merge"} \ {kind} : Flushed(q)[k] = index[k]
  BY <1>2, <1>3, <1>11, FlushJoins
<1> DEFINE new == Flushed(q)[kind]
           old == index[kind]
<1> HIDE DEF new, old
<1>13. BuiltFrom(new, kind, map, informed, t, n + 1)
  <2>1. BuiltFrom(old, kind, map, informed, t, c)
    BY <1>8 DEF old
  <2>2. t[c].psid = last_psid
    BY <1>4, <1>10
  <2>3. Joined(old, new, kind, map, informed, t[c].psid, RunIn(t, c))
    BY <1>9, <1>12, <2>2 DEF new, old
  <2>4. t \in Seq(Samples) /\ t[c].psid \in Psids
    BY <1>5, <2>2
  <2> QED BY <1>1, <1>6, <1>7, <2>1, <2>3, <2>4, BuiltNext
<1> QED BY <1>12, <1>13 DEF new, n

LEMMA StepSamplesEnd ==
  ASSUME IInv, SamplesEnd
  PROVE  IInv'
<1> USE DEF SamplesEnd
<1>1. Types'
  BY DEF IInv, Types, reading
<1>2. MapOK' /\ InfoOK'
  BY KeepsMap, KeepsInfos DEF IInv, reading
<1> DEFINE idx == Flushed(last_psid)
<1>3. /\ BuiltFrom(idx[kind], kind, map, informed, sampled, Len(sampled) + 1)
      /\ IndexOK(idx)
      /\ \A k \in {"pv", "uv", "merge"} \ {kind} : idx[k] = index[k]
  <2>1. CASE NothingRead /\ index[kind] = NoBitmaps
    <3>1. idx = index
      BY <2>1 DEF Flushed, NothingRead
    <3>2. Len(sampled) + 1 = 1
      BY <2>1 DEF NothingRead
    <3>3. BuiltFrom(index[kind], kind, map, informed, sampled, 1)
      BY <2>1, BuiltFromNothing
    <3>4. BuiltFrom(index[kind], kind, map, informed, sampled, Len(sampled) + 1)
      BY <3>2, <3>3
    <3> HIDE DEF idx
    <3> QED BY <3>1, <3>4 DEF IInv
  <2>2. ASSUME NEW c \in 1..Len(sampled), OpenRun(c) PROVE <1>3!:
    <3>1. sampled \in Seq(Samples)
      BY DEF IInv, Types
    <3>2. last_psid \in Psids
      <4>1. sampled[c] \in Samples /\ sampled[c].psid = last_psid
        <5>1. c \in c..Len(sampled)
          BY <3>1
        <5> QED BY <2>2, <3>1, <5>1 DEF OpenRun
      <4> QED BY <4>1, BuilderAssumption DEF Samples
    <3> QED BY <2>2, <3>1, <3>2, FlushBuilds DEF IInv, Types
  <2> QED BY <2>1, <2>2 DEF IInv, Reads
<1>4. index' = idx
  OBVIOUS
<1> HIDE DEF idx
<1>5. IndexOK(index)'
  BY <1>3, <1>4 DEF IndexOK, GoodBitmap
<1>6. index'["merge"] = index["merge"] /\ (kind = "pv" => index'["uv"] = index["uv"])
  BY <1>3, <1>4 DEF IInv, Types, Kinds
<1>7. Clean'
  BY <1>6 DEF IInv, Clean
<1>8. Reads'
  BY <1>3, <1>4 DEF Reads, reading
<1>9. Merges'
  BY <1>6 DEF IInv, Merges
<1> QED BY <1>1, <1>2, <1>5, <1>7, <1>8, <1>9 DEF IInv

\* What the file is after another sample.
LEMMA ReadsMore ==
  ASSUME MapOK, kind \in Kinds, InfoOK, IndexOK(index), sampled \in Seq(Samples),
         Reads, Clean, Types, pc = "samples", NEW x \in Samples,
         UNCHANGED <<kind, map, informed>>,
         index' = IF x.psid = last_psid THEN index ELSE Flushed(x.psid),
         targets' = Append(IF x.psid = last_psid THEN targets ELSE <<>>, Rows(x)),
         bids' = Append(IF x.psid = last_psid THEN bids ELSE <<>>, ToBid(x.bid)),
         last_psid' = x.psid, sampled' = Append(sampled, x)
  PROVE  /\ \E c \in 1..Len(sampled)' : OpenRun(c)'
         /\ IndexOK(index)'
         /\ \A k \in {"pv", "uv", "merge"} \ {kind} : index'[k] = index[k]
<1>1. PICK n : n = Len(sampled)
  OBVIOUS
<1>2. /\ n \in Nat /\ Len(sampled') = n + 1
      /\ sampled'[n + 1] = x /\ \A i \in 1..n : sampled'[i] = sampled[i]
  BY <1>1
<1>3. x.psid \in Psids /\ x.psid # None
  BY BuilderAssumption DEF Samples
<1>4. ASSUME NEW c \in 1..n + 1, StartIn(sampled', c),
             \A i \in c..n + 1 : sampled'[i].psid = x.psid,
             NEW cols, NEW bs, NEW run, Collected(cols, bs, run),
             targets' = Append(cols, Rows(x)), bids' = Append(bs, ToBid(x.bid)),
             SubSeq(sampled', c, n + 1) = Append(run, x),
             BuiltFrom(index'[kind], kind, map, informed, sampled', c)
      PROVE  \E d \in 1..Len(sampled)' : OpenRun(d)'
  <2>1. PICK c2 : c2 = targets'
    OBVIOUS
  <2>2. PICK b2 : b2 = bids'
    OBVIOUS
  <2>3. PICK r2 : r2 = Append(run, x)
    OBVIOUS
  <2>4. Collected(c2, b2, r2)
    BY <1>4, <2>1, <2>2, <2>3, CollectedMore
  <2>5. Collected(c2, b2, r2)'
    BY <2>4, KeepsCollected
  <2>6. OpenRun(c)'
    BY <1>2, <1>4, <2>1, <2>2, <2>3, <2>5 DEF OpenRun
  <2> QED BY <1>2, <2>6
<1>5. CASE x.psid = last_psid
  <2>1. PICK c \in 1..n : OpenRun(c)
    BY <1>1, <1>3, <1>5 DEF Reads, NothingRead
  <2>2. /\ StartIn(sampled, c) /\ \A i \in c..n : sampled[i].psid = last_psid
        /\ Collected(targets, bids, SubSeq(sampled, c, n))
        /\ BuiltFrom(index[kind], kind, map, informed, sampled, c)
    BY <1>1, <2>1 DEF OpenRun
  <2>3. c \in 1..n + 1 /\ StartIn(sampled', c)
    BY <1>2, <2>2 DEF StartIn
  <2>4. \A i \in c..n + 1 : sampled'[i].psid = x.psid
    <3>1. \A i \in c..n + 1 : (i \in c..n /\ i \in 1..n) \/ i = n + 1
      BY <1>2, <2>1
    <3> QED BY <1>2, <1>5, <2>2, <3>1
  <2>5. SubSeq(sampled', c, n + 1) = Append(SubSeq(sampled, c, n), x)
    <3>1. c \in 1..Len(sampled) + 1
      BY <1>1, <2>3
    <3> QED BY <1>1, <3>1, RunGrows
  <2>6. BuiltFrom(index'[kind], kind, map, informed, sampled', c)
    <3>1. c \in 1..Len(sampled)
      BY <1>1
    <3>2. index'[kind] = index[kind]
      BY <1>5
    <3>3. BuiltFrom(index[kind], kind, map, informed, Append(sampled, x), c)
      BY <2>2, <3>1, BuiltStays
    <3> QED BY <3>2, <3>3
  <2>7. \E d \in 1..Len(sampled)' : OpenRun(d)'
    BY <1>4, <1>5, <2>2, <2>3, <2>4, <2>5, <2>6
  <2>8. index' = index
    BY <1>5
  <2>9. IndexOK(index)'
    BY <2>8, KeepsIndex
  <2> QED BY <2>7, <2>8, <2>9
<1>6. CASE x.psid # last_psid
  <2> DEFINE idx == Flushed(x.psid)
  <2>1. index' = idx /\ targets' = Append(<<>>, Rows(x)) /\ bids' = Append(<<>>, ToBid(x.bid))
    BY <1>6
  <2>2. /\ BuiltFrom(idx[kind], kind, map, informed, sampled', n + 1)
        /\ StartIn(sampled', n + 1)
        /\ IndexOK(idx)
        /\ \A k \in {"pv", "uv", "merge"} \ {kind} : idx[k] = index[k]
    <3>1. CASE NothingRead /\ index[kind] = NoBitmaps
      <4>1. idx = index
        BY <3>1 DEF Flushed, NothingRead
      <4>2. n + 1 = 1
        BY <1>1, <3>1 DEF NothingRead
      <4>3. BuiltFrom(index[kind], kind, map, informed, sampled', 1)
        BY <3>1, BuiltFromNothing
      <4>4. StartIn(sampled', n + 1)
        BY <4>2 DEF StartIn
      <4> HIDE DEF idx
      <4> QED BY <4>1, <4>2, <4>3, <4>4
    <3>2. ASSUME NEW c \in 1..Len(sampled), OpenRun(c) PROVE <2>2!:
      <4>1. last_psid = sampled[n].psid /\ n \in 1..n
        BY <1>1, <1>2, <3>2 DEF OpenRun
      <4>2. last_psid \in Psids
        <5>1. sampled[n] \in Samples
          BY <1>1, <4>1
        <5> QED BY <4>1, <5>1, BuilderAssumption DEF Samples
      <4>3. StartIn(sampled', n + 1)
        <5>1. (n + 1) - 1 = n /\ n + 1 # 1
          BY <1>2, <4>1
        <5> QED BY <1>2, <1>6, <4>1, <5>1 DEF StartIn
      <4>4. PICK t : t = sampled'
        OBVIOUS
      <4>5. t = sampled \/ \E y \in Samples : t = Append(sampled, y) /\ y.psid # last_psid
        BY <1>6, <4>4
      <4>6. /\ BuiltFrom(Flushed(x.psid)[kind], kind, map, informed, t, Len(sampled) + 1)
            /\ IndexOK(Flushed(x.psid))
            /\ \A k \in {"pv", "uv", "merge"} \ {kind} : Flushed(x.psid)[k] = index[k]
        BY <3>2, <4>2, <4>5, FlushBuilds
      <4> QED BY <1>1, <4>3, <4>4, <4>6
    <3> QED BY <3>1, <3>2 DEF Reads
  <2> HIDE DEF idx
  <2>3. \A i \in n + 1..n + 1 : sampled'[i].psid = x.psid
    <3>1. n \in Nat
      BY <1>2
    <3>2. \A i \in n + 1..n + 1 : i = n + 1
      BY <3>1
    <3> QED BY <1>2, <3>2
  <2>4. SubSeq(sampled', n + 1, n + 1) = Append(<<>>, x)
    <3>1. n + 1 \in 1..Len(sampled) + 1
      BY <1>1, <1>2
    <3>2. SubSeq(sampled', n + 1, n + 1) = Append(SubSeq(sampled, n + 1, n), x)
      BY <1>1, <3>1, RunGrows
    <3>3. SubSeq(sampled, n + 1, n) = <<>>
      BY <1>2, SubSeqEmpty
    <3> QED BY <3>2, <3>3
  <2>5. \E d \in 1..Len(sampled)' : OpenRun(d)'
    <3>1. n + 1 \in 1..n + 1
      BY <1>2
    <3> QED BY <1>4, <2>1, <2>2, <2>3, <2>4, <3>1, CollectedNothing
  <2>6. IndexOK(index)'
    BY <2>1, <2>2 DEF IndexOK, GoodBitmap
  <2> QED BY <2>1, <2>2, <2>5, <2>6
<1> QED BY <1>5, <1>6

LEMMA StepReadSample ==
  ASSUME IInv, ReadSample
  PROVE  IInv'
<1> USE DEF ReadSample
<1>1. MapOK' /\ InfoOK'
  BY KeepsMap, KeepsInfos DEF IInv, reading
<1>2. CASE UNCHANGED <<reading, index>>
  <2>1. Types' /\ Merges' /\ Clean'
    BY <1>2 DEF IInv, Types, Merges, Clean, NothingRead, reading
  <2>2. IndexOK(index)'
    BY <1>2, KeepsIndex DEF IInv
  <2>3. Reads'
    <3>1. CASE NothingRead /\ index[kind] = NoBitmaps
      BY <1>2, <3>1 DEF Reads, NothingRead, reading
    <3>2. ASSUME NEW c \in 1..Len(sampled), OpenRun(c) PROVE Reads'
      <4>1. OpenRun(c)'
        BY <1>2, <3>2, KeepsOpenRun
      <4>2. Len(sampled') = Len(sampled) /\ pc' = "samples"
        BY <1>2 DEF reading
      <4> QED BY <4>1, <4>2 DEF Reads
    <3> QED BY <3>1, <3>2 DEF IInv, Reads
  <2> QED BY <1>1, <2>1, <2>2, <2>3 DEF IInv
<1>3. ASSUME NEW x \in SampleLines, x.ok,
             index' = IF x.psid = last_psid THEN index ELSE Flushed(x.psid),
             targets' = Append(IF x.psid = last_psid THEN targets ELSE <<>>, Rows(x)),
             bids' = Append(IF x.psid = last_psid THEN bids ELSE <<>>, ToBid(x.bid)),
             last_psid' = x.psid, sampled' = Append(sampled, x)
      PROVE  IInv'
  <2>1. x \in Samples /\ x.psid \in Psids /\ x.bid \in Int
    BY <1>3, BuilderAssumption DEF Samples
  <2>2. UNCHANGED <<infos, informed>>
    BY DEF reading
  <2>3. /\ \E c \in 1..Len(sampled)' : OpenRun(c)'
        /\ IndexOK(index)'
        /\ \A k \in {"pv", "uv", "merge"} \ {kind} : index'[k] = index[k]
    BY <1>3, <2>1, <2>2, ReadsMore DEF IInv, Types
  <2>4. Types'
    <3>1. Rows(x) \in SUBSET Nat /\ ToBid(x.bid) \in 0..MaxBid
      BY <2>1, ToBidIs DEF Rows
    <3>2. Types
      BY DEF IInv
    <3>3. sampled' \in Seq(Samples)
      BY <1>3, <2>1, <3>2 DEF Types
    <3>4. ASSUME NEW cols \in Seq(SUBSET Nat), NEW bs \in Seq(0..MaxBid), Len(cols) = Len(bs),
                 targets' = Append(cols, Rows(x)), bids' = Append(bs, ToBid(x.bid))
          PROVE  /\ targets' \in Seq(SUBSET Nat) /\ bids' \in Seq(0..MaxBid)
                 /\ Len(targets') = Len(bids')
      BY <3>1, <3>4
    <3>5. /\ targets' \in Seq(SUBSET Nat) /\ bids' \in Seq(0..MaxBid)
          /\ Len(targets') = Len(bids')
      <4>1. CASE x.psid = last_psid
        BY <1>3, <3>2, <3>4, <4>1 DEF Types
      <4>2. CASE x.psid # last_psid
        <5>1. <<>> \in Seq(SUBSET Nat) /\ <<>> \in Seq(0..MaxBid)
          OBVIOUS
        <5> QED BY <1>3, <3>4, <4>2, <5>1
      <4> QED BY <4>1, <4>2
    <3> QED BY <1>3, <2>1, <3>2, <3>3, <3>5 DEF Types
  <2>5. index'["merge"] = index["merge"] /\ (kind = "pv" => index'["uv"] = index["uv"])
    BY <2>3 DEF IInv, Types, Kinds
  <2>6. Clean' /\ Merges'
    BY <2>5 DEF IInv, Clean, Merges
  <2>7. Reads'
    BY <2>3 DEF Reads
  <2> QED BY <1>1, <2>3, <2>4, <2>6, <2>7 DEF IInv
<1> QED BY <1>2, <1>3

LEMMA StepReturn ==
  ASSUME IInv, Return
  PROVE  IInv'
<1> USE DEF Return
<1>1. Types'
  BY DEF IInv, Types, Kinds
<1>2. MapOK' /\ IndexOK(index)'
  BY KeepsMap, KeepsIndex DEF IInv
<1>3. InfoOK'
  <2>1. DOMAIN infos' = {} /\ informed' = <<>>
    BY DEF NoEntries
  <2> QED BY <2>1 DEF InfoOK
<1>4. Clean'
  <2>1. NothingRead' /\ informed' = <<>> /\ infos' = NoEntries
    BY DEF NothingRead
  <2>2. CASE kind = "pv"
    BY <2>1, <2>2 DEF IInv, Clean
  <2>3. CASE kind # "pv"
    BY <2>1, <2>3 DEF Clean
  <2> QED BY <2>2, <2>3
<1>5. Reads'
  <2>1. pc' # "samples" /\ pc' # "built"
    OBVIOUS
  <2> QED BY <2>1 DEF Reads
<1>6. Merges'
  BY DEF IInv, Merges
<1> QED BY <1>1, <1>2, <1>3, <1>4, <1>5, <1>6 DEF IInv

LEMMA StepReadMerge ==
  ASSUME IInv, ReadMerge
  PROVE  IInv'
<1> USE DEF ReadMerge
<1>1. Types' /\ Clean' /\ Reads'
  BY DEF IInv, Types, Clean, Reads, NothingRead, reading
<1>2. MapOK' /\ InfoOK' /\ IndexOK(index)'
  BY KeepsMap, KeepsInfos, KeepsIndex DEF IInv, reading
<1>3. Merges'
  <2>1. psids \in Seq(Seq(Psids)) /\ index["merge"] = None
    BY DEF IInv, Merges
  <2>2. psids' \in Seq(Seq(Psids))
    <3>1. \A line \in MergeLines : line.ok => line.list \in Seq(Psids)
      BY BuilderAssumption
    <3> QED BY <2>1, <3>1
  <2> QED BY <2>1, <2>2 DEF Merges
<1> QED BY <1>1, <1>2, <1>3 DEF IInv

LEMMA StepMergeEnd ==
  ASSUME IInv, MergeEnd
  PROVE  IInv'
<1> USE DEF MergeEnd
<1>1. Types'
  BY DEF IInv, Types, reading
<1>2. MapOK' /\ InfoOK'
  BY KeepsMap, KeepsInfos DEF IInv, reading
<1>3. /\ DOMAIN index' = {"pv", "uv", "merge"}
      /\ index'["pv"] = index["pv"] /\ index'["uv"] = index["uv"]
      /\ index'["merge"] = Merged(psids) \/ index'["merge"] = None
  <2>1. DOMAIN index = {"pv", "uv", "merge"} /\ index["merge"] = None
    BY DEF IInv, IndexOK, Merges
  <2> QED BY <2>1
<1>4. IndexOK(index)'
  BY <1>3 DEF IInv, IndexOK, GoodBitmap, Kinds
<1>5. Clean' /\ Reads'
  BY <1>3 DEF IInv, Clean, Reads
<1>6. Merges'
  BY <1>3 DEF IInv, Merges
<1> QED BY <1>1, <1>2, <1>4, <1>5, <1>6 DEF IInv

LEMMA StepDump ==
  ASSUME IInv, Dump
  PROVE  IInv'
<1> USE DEF Dump
<1>1. Types' /\ Clean' /\ Reads' /\ Merges'
  BY DEF IInv, Types, Clean, Reads, Merges, reading
<1>2. MapOK' /\ InfoOK' /\ IndexOK(index)'
  BY KeepsMap, KeepsInfos, KeepsIndex DEF IInv, reading
<1> QED BY <1>1, <1>2 DEF IInv

LEMMA StepNothing ==
  ASSUME IInv, UNCHANGED vars
  PROVE  IInv'
<1> USE DEF vars
<1>1. Types' /\ Clean' /\ Merges'
  BY DEF IInv, Types, Clean, Merges, NothingRead, reading
<1>2. MapOK' /\ InfoOK' /\ IndexOK(index)'
  BY KeepsMap, KeepsInfos, KeepsIndex DEF IInv, reading
<1>3. Reads'
  <2>1. ASSUME NEW c \in 1..Len(sampled), OpenRun(c) PROVE OpenRun(c)'
    BY <2>1, KeepsOpenRun
  <2>2. Len(sampled') = Len(sampled)
    BY DEF reading
  <2>3. pc = "samples" => Reads'
    <3>1. CASE NothingRead
      BY <3>1 DEF IInv, Reads, NothingRead, reading
    <3>2. CASE \E c \in 1..Len(sampled) : OpenRun(c)
      BY <2>1, <2>2, <3>2 DEF Reads
    <3> QED BY <3>1, <3>2 DEF IInv, Reads
  <2>4. pc # "samples" => Reads'
    BY DEF IInv, Reads, reading
  <2> QED BY <2>3, <2>4
<1> QED BY <1>1, <1>2, <1>3 DEF IInv

LEMMA InvStep == IInv /\ [Next]_vars => IInv'
<1> SUFFICES ASSUME IInv, [Next]_vars PROVE IInv'
  OBVIOUS
<1> QED BY StepLoadTargetMap, StepOpen, StepReadInfo, StepInfosEnd, StepReadSample,
           StepSamplesEnd, StepReturn, StepReadMerge, StepMergeEnd, StepDump, StepNothing
        DEF Next, Done

LEMMA Invariant == Spec => []IInv
  BY InvInit, InvStep, PTL DEF Spec

-----------------------------------------------------------------------------
(* What the builder does *)

\* Type correctness: every bitmap of the index has a column and a bid of 16 bits for each
\* of its samples, and no column has a row beyond the bitmap's height.
THEOREM TypeCorrect == Spec => []TypeOK
<1>1. IInv => TypeOK
  <2> SUFFICES ASSUME IInv PROVE TypeOK
    OBVIOUS
  <2>1. ASSUME NEW k \in Kinds
        PROVE  /\ index[k] \in [Psids -> AllBitmaps \cup {None}]
               /\ \A b \in Bitmaps(k) :
                    /\ Len(b.bids) = Len(b.cols)
                    /\ \A i \in DOMAIN b.cols : b.cols[i] \subseteq 0..b.height - 1
    BY DEF IInv, IndexOK, GoodBitmap, Bitmaps
  <2> QED BY <2>1 DEF IInv, Types, InfoOK, TypeOK
<1> QED BY <1>1, Invariant, PTL

\* Whatever the order of the lines of a sample file, the bitmap of a position is made of
\* the samples of its first run that can be stored, with nothing of another position.
THEOREM BuiltRight == Spec => []BuiltFromFirstRun
<1>1. IInv => BuiltFromFirstRun
  <2> SUFFICES ASSUME IInv, pc = "built", NEW psid \in Psids
               PROVE  LET starts == {i \in RunStarts(psid) : Storable(i)}
                      IN IF starts = {} THEN index[kind][psid] = None
                         ELSE /\ index[kind][psid] # None
                              /\ \E i \in starts : /\ \A j \in starts : i <= j
                                                   /\ Stores(index[kind][psid], Run(i))
    BY DEF BuiltFromFirstRun
  <2> DEFINE starts == {i \in RunStarts(psid) : Storable(i)}
             n == Len(sampled)
  <2>1. BuiltFrom(index[kind], kind, map, informed, sampled, n + 1)
    BY DEF IInv, Reads
  <2>2. n \in Nat /\ DOMAIN sampled = 1..n
    BY DEF IInv, Types
  <2>3. ASSUME NEW i PROVE Run(i) = RunIn(sampled, i)
    BY DEF Run, RunIn, EndsIn
  <2>4. ASSUME NEW q PROVE FirstInfo(q) = FirstIn(informed, q)
    BY DEF FirstInfo, FirstIn
  <2>5. ASSUME NEW i PROVE Storable(i) <=> CanStore(kind, map, informed, sampled[i].psid, RunIn(sampled, i))
    BY <2>3, <2>4 DEF Storable, CanStore
  <2>6. ASSUME NEW b, NEW run PROVE Stores(b, run) <=> StoredAs(map, informed, b, run)
    BY <2>4 DEF Stores, StoredAs
  <2>7. starts = StartsIn(kind, map, informed, sampled, n + 1, psid)
    <3>1. 1..(n + 1) - 1 = 1..n
      BY <2>2
    <3>2. RunStarts(psid) = {i \in 1..n : sampled[i].psid = psid /\ StartIn(sampled, i)}
      BY <2>2 DEF RunStarts, StartIn
    <3> QED BY <2>5, <3>1, <3>2 DEF StartsIn
  <2> HIDE DEF starts, n
  <2>8. IF starts = {} THEN index[kind][psid] = None
        ELSE /\ index[kind][psid] # None
             /\ \E i \in starts : /\ \A j \in starts : i <= j
                                  /\ Stores(index[kind][psid], Run(i))
    <3>1. IF starts = {} THEN index[kind][psid] = None
          ELSE /\ index[kind][psid] # None
               /\ \E i \in starts : /\ \A j \in starts : i <= j
                                    /\ StoredAs(map, informed, index[kind][psid], RunIn(sampled, i))
      BY <2>1, <2>7 DEF BuiltFrom
    <3>2. \A i : StoredAs(map, informed, index[kind][psid], RunIn(sampled, i)) =>
                   Stores(index[kind][psid], Run(i))
      BY <2>3, <2>6
    <3> QED BY <3>1, <3>2
  <2> QED BY <2>8 DEF starts
<1> QED BY <1>1, Invariant, PTL

LEMMA RunType ==
  ASSUME NEW X, NEW s \in Seq(X), NEW i \in 1..Len(s)
  PROVE  DOMAIN RunIn(s, i) = 1..Len(RunIn(s, i)) /\ Len(RunIn(s, i)) \in Nat
<1>1. Cardinality(EndsIn(s, i)) \in Nat
  <2>1. EndsIn(s, i) \in SUBSET (i..Len(s)) /\ IsFiniteSet(i..Len(s))
    BY FS_Interval DEF EndsIn
  <2> QED BY <2>1, FS_Subset, FS_CardinalityType
<1> DEFINE e == i + Cardinality(EndsIn(s, i)) - 1
           S == {s[j] : j \in i..e}
<1>2. e \in Int /\ i \in Int
  BY <1>1
<1>3. \A j \in i..e : s[j] \in S
  OBVIOUS
<1>4. SubSeq(s, i, e) \in Seq(S)
  <2> HIDE DEF e, S
  <2> QED BY <1>2, <1>3, SubSeqProperties
<1>5. RunIn(s, i) \in Seq(S)
  BY <1>4 DEF RunIn
<1> HIDE DEF S
<1> QED BY <1>5

\* With a whole dictionary a query of an online name finds the samples that carry the
\* offline name of the same line, and reads no row outside a bitmap.
THEOREM QueriesFind == Spec => []QueriesFindSamples
<1>1. IInv /\ BuiltFromFirstRun => QueriesFindSamples
  <2> SUFFICES ASSUME IInv, BuiltFromFirstRun, pc = "built",
                      NEW conf \in Confs, Whole(conf), map = Load(conf),
                      NEW line \in ToSet(conf), line.ok, NEW psid \in Psids,
                      index[kind][psid] # None
               PROVE  /\ QueryOnline(map, line.online) \in 0..index[kind][psid].height - 1
                      /\ \E i \in RunStarts(psid) :
                           /\ Len(Run(i)) = Len(index[kind][psid].cols)
                           /\ {s \in DOMAIN index[kind][psid].cols :
                                 QueryOnline(map, line.online) \in index[kind][psid].cols[s]} =
                                {s \in DOMAIN Run(i) : Carries(Run(i)[s], line.offline)}
    BY DEF QueriesFindSamples
  <2>1. PICK bitmap : bitmap = index[kind][psid]
    OBVIOUS
  <2>2. PICK l \in DOMAIN conf : line = conf[l]
    BY DEF ToSet
  <2>3. RowOfLine(conf, map, l)
    BY <2>2, WholeFacts
  <2>4. PICK row : row = conf[l].row
    OBVIOUS
  <2>5. /\ line.offline \in DOMAIN map.offline /\ map.offline[line.offline] = row
        /\ QueryOnline(map, line.online) = row
        /\ row \in 0..GetSize(map) - 1
        /\ \A name \in DOMAIN map.offline : map.offline[name] = row => name = line.offline
    BY <2>2, <2>3, <2>4 DEF RowOfLine, QueryOnline, Lookup
  <2>6. bitmap \in AllBitmaps /\ bitmap.height = GetSize(map)
    BY <2>1 DEF IInv, Types, IndexOK, GoodBitmap
  <2>7. DOMAIN bitmap.cols = 1..Len(bitmap.cols)
    BY <2>6 DEF AllBitmaps
  <2>8. PICK i \in RunStarts(psid) : Stores(bitmap, Run(i))
    BY <2>1 DEF BuiltFromFirstRun
  <2>9. DOMAIN Run(i) = 1..Len(Run(i)) /\ Run(i) = RunIn(sampled, i)
    <3>1. sampled \in Seq(Samples) /\ i \in 1..Len(sampled)
      BY <2>8 DEF IInv, Types, RunStarts
    <3>2. Run(i) = RunIn(sampled, i)
      BY DEF Run, RunIn, EndsIn
    <3> QED BY <3>1, <3>2, RunType
  <2>10. Len(Run(i)) = Len(bitmap.cols)
    BY <2>8 DEF Stores
  <2>11. ASSUME NEW s \in DOMAIN Run(i)
         PROVE  row \in bitmap.cols[s] <=> Carries(Run(i)[s], line.offline)
    <3>1. bitmap.cols[s] = {map.offline[name] :
                        name \in {n \in DOMAIN map.offline : Carries(Run(i)[s], n)}} \cap Nat
      BY <2>8 DEF Stores
    <3>2. row \in Nat
      BY <2>5
    <3> QED BY <2>5, <3>1, <3>2
  <2>12. {s \in DOMAIN bitmap.cols : row \in bitmap.cols[s]} =
           {s \in DOMAIN Run(i) : Carries(Run(i)[s], line.offline)}
    BY <2>7, <2>9, <2>10, <2>11
  <2> QED BY <2>1, <2>5, <2>6, <2>8, <2>10, <2>12
<1> QED BY <1>1, Invariant, BuiltRight, PTL

-----------------------------------------------------------------------------
(* The numbers of the positions in the merge bitmap *)

\* Finitely many positions have the numbers from 0 on, each its own.
Numberings ==
  {d \in Dicts(Psids) :
     /\ IsFiniteSet(DOMAIN d)
     /\ \A p \in DOMAIN d : d[p] \in 0..Cardinality(DOMAIN d) - 1
     /\ \A p, q \in DOMAIN d : d[p] = d[q] => p = q}

LEMMA NumberKeeps ==
  ASSUME NEW d \in Numberings, NEW p \in Psids
  PROVE  Number(d, p) \in Numberings /\ DOMAIN Number(d, p) = DOMAIN d \cup {p}
<1> DEFINE c == Cardinality(DOMAIN d)
<1>1. /\ d \in Dicts(Psids) /\ IsFiniteSet(DOMAIN d) /\ c \in Nat
      /\ \A q \in DOMAIN d : d[q] \in 0..c - 1
      /\ \A q, r \in DOMAIN d : d[q] = d[r] => q = r
  BY FS_CardinalityType DEF Numberings
<1>2. CASE p \in DOMAIN d
  <2>1. Number(d, p) = d /\ DOMAIN d \cup {p} = DOMAIN d
    BY <1>1, <1>2, DictFacts DEF Number, Inserted
  <2> QED BY <1>2, <2>1
<1>3. CASE p \notin DOMAIN d
  <2> DEFINE e == Inserted(d, p, c)
  <2>1. Number(d, p) = e
    BY DEF Number
  <2>2. e \in Dicts(Psids)
    BY <1>1, InsertedType
  <2>3. DOMAIN e = DOMAIN d \cup {p} /\ e[p] = c /\ \A q \in DOMAIN d : e[q] = d[q]
    BY <1>3 DEF Inserted
  <2> HIDE DEF e
  <2>4. IsFiniteSet(DOMAIN e) /\ Cardinality(DOMAIN e) = c + 1
    <3>1. IsFiniteSet(DOMAIN d \cup {p}) /\ Cardinality(DOMAIN d \cup {p}) = c + 1
      BY <1>1, <1>3, FS_AddElement
    <3> QED BY <2>3, <3>1
  <2> HIDE DEF c
  <2>5. \A q \in DOMAIN e : e[q] \in 0..(c + 1) - 1
    BY <1>1, <2>3
  <2>6. \A q, r \in DOMAIN e : e[q] = e[r] => q = r
    BY <1>1, <1>3, <2>3
  <2>7. e \in Numberings
    BY <2>2, <2>4, <2>5, <2>6 DEF Numberings
  <2> QED BY <2>1, <2>3, <2>7
<1> QED BY <1>2, <1>3

NumberTable(d, list, g) ==
  g = [s \in SUBSET DOMAIN list |->
         IF s = {} THEN d ELSE Number(g[s \ {Max(s)}], list[Max(s)])]

\* One user's positions, one by one.
LEMMA NumberAllSteps ==
  ASSUME NEW d \in Numberings, NEW list \in Seq(Psids)
  PROVE  \E G \in [0..Len(list) -> Numberings] :
           /\ G[0] = d
           /\ \A k \in 1..Len(list) : G[k] = Number(G[k - 1], list[k])
           /\ NumberAll(d, list) = G[Len(list)]
<1> DEFINE V == Numberings
           X == Psids
           h == [vx \in V \X X |-> Number(vx[1], vx[2])]
           n == Len(list)
<1>1. list \in Seq(X) /\ n \in Nat /\ DOMAIN list = 1..n /\ \A k \in 1..n : list[k] \in X
  OBVIOUS
<1>2. d \in V
  OBVIOUS
<1>3. h \in [V \X X -> V]
  <2>1. ASSUME NEW vx \in V \X X PROVE Number(vx[1], vx[2]) \in V
    <3>1. vx[1] \in V /\ vx[2] \in X
      OBVIOUS
    <3> HIDE DEF h
    <3> QED BY <3>1, NumberKeeps
  <2> QED BY <2>1
<1>4. NumberAll(d, list) = (CHOOSE g : NumberTable(d, list, g))[DOMAIN list]
  BY DEF NumberAll, FoldLeft, MapThenFoldSet, NumberTable
<1>5. PICK g \in [SUBSET (1..n) -> V] :
        \A s \in SUBSET (1..n) : g[s] = Folded(h, d, list, g, s)
  <2>1. TableUpTo(V, h, d, list, Len(list))
    <3> HIDE DEF h, V, X
    <3> QED BY <1>1, <1>2, <1>3, TableExists
  <2> HIDE DEF h, V, X
  <2> QED BY <2>1 DEF TableUpTo
<1>6. ASSUME NEW v \in V, NEW x \in X PROVE h[<<v, x>>] = Number(v, x)
  <2>1. <<v, x>> \in V \X X
    OBVIOUS
  <2> HIDE DEF V, X
  <2> QED BY <2>1
<1>7. ASSUME NEW s \in SUBSET (1..n), s # {}
      PROVE  list[Max(s)] \in X /\ s \ {Max(s)} \in SUBSET (1..n)
  BY <1>1, <1>7, MaxExists
<1> HIDE DEF h, V, X
<1>8. NumberTable(d, list, g)
  <2>1. ASSUME NEW s \in SUBSET (1..n)
        PROVE  g[s] = IF s = {} THEN d ELSE Number(g[s \ {Max(s)}], list[Max(s)])
    BY <1>5, <1>6, <1>7 DEF Folded
  <2> QED BY <1>1, <1>5, <2>1 DEF NumberTable
<1>9. PICK f : NumberTable(d, list, f) /\ NumberAll(d, list) = f[1..n]
  <2>1. NumberTable(d, list, CHOOSE f : NumberTable(d, list, f))
    BY <1>8
  <2> QED BY <1>1, <1>4, <2>1
<1>10. f[{}] = d
  BY <1>1, <1>9 DEF NumberTable
<1>11. ASSUME NEW s \in SUBSET (1..n), s # {} PROVE f[s] = Number(f[s \ {Max(s)}], list[Max(s)])
  BY <1>1, <1>9, <1>11 DEF NumberTable
<1>12. ASSUME NEW s \in SUBSET (1..n), s # {} /\ f[s \ {Max(s)}] \in V
       PROVE  f[s] = h[<<f[s \ {Max(s)}], list[Max(s)]>>]
  BY <1>6, <1>7, <1>11, <1>12
<1>13. PICK G : FoldGoes(V, h, d, list, G) /\ NumberAll(d, list) = G[n]
  <2>1. FoldTable(V, h, d, list, f)
    BY <1>10, <1>12 DEF FoldTable
  <2>2. FoldsTo(V, h, d, list, f[1..n])
    BY <1>1, <1>2, <1>3, <2>1, FoldSteps
  <2> QED BY <1>9, <2>2 DEF FoldsTo
<1>14. G \in [0..n -> V] /\ G[0] = d
  BY <1>13 DEF FoldGoes
<1>15. ASSUME NEW k \in 1..n PROVE G[k] = Number(G[k - 1], list[k])
  <2>1. k - 1 \in 0..n
    BY <1>1
  <2>2. G[k] = h[<<G[k - 1], list[k]>>]
    BY <1>13 DEF FoldGoes
  <2> QED BY <1>1, <1>6, <1>14, <2>1, <2>2
<1> QED BY <1>13, <1>14, <1>15 DEF V

LEMMA NumberAllKeeps ==
  ASSUME NEW d \in Numberings, NEW list \in Seq(Psids)
  PROVE  NumberAll(d, list) \in Numberings /\ DOMAIN NumberAll(d, list) = DOMAIN d \cup ToSet(list)
<1>1. PICK G \in [0..Len(list) -> Numberings] :
        /\ G[0] = d
        /\ \A k \in 1..Len(list) : G[k] = Number(G[k - 1], list[k])
        /\ NumberAll(d, list) = G[Len(list)]
  BY NumberAllSteps
<1>2. Len(list) \in Nat /\ DOMAIN list = 1..Len(list)
  OBVIOUS
<1> DEFINE Good == {k \in Nat : k <= Len(list) =>
                      DOMAIN G[k] = DOMAIN d \cup {list[i] : i \in 1..k}}
<1>3. 0 \in Good
  <2>1. 1..0 = {}
    OBVIOUS
  <2> QED BY <1>1, <2>1
<1>4. ASSUME NEW k \in Nat, k \in Good PROVE k + 1 \in Good
  <2> SUFFICES ASSUME k + 1 <= Len(list)
               PROVE  DOMAIN G[k + 1] = DOMAIN d \cup {list[i] : i \in 1..k + 1}
    OBVIOUS
  <2>1. k + 1 \in 1..Len(list) /\ (k + 1) - 1 = k /\ k <= Len(list) /\ k \in 0..Len(list)
    BY <1>2
  <2>2. DOMAIN G[k] = DOMAIN d \cup {list[i] : i \in 1..k}
    BY <1>4, <2>1
  <2>3. G[k + 1] = Number(G[k], list[k + 1]) /\ G[k] \in Numberings /\ list[k + 1] \in Psids
    BY <1>1, <2>1
  <2>4. DOMAIN G[k + 1] = DOMAIN G[k] \cup {list[k + 1]}
    BY <2>3, NumberKeeps
  <2>5. 1..k + 1 = (1..k) \cup {k + 1}
    OBVIOUS
  <2> QED BY <2>2, <2>4, <2>5
<1>5. Len(list) \in Good
  <2> HIDE DEF Good
  <2> QED BY <1>2, <1>3, <1>4, AllNumbers
<1>6. Len(list) \in 0..Len(list)
  BY <1>2
<1> QED BY <1>1, <1>2, <1>5, <1>6 DEF ToSet

LEMMA NoEntriesNumber == NoEntries \in Numberings
<1>1. NoEntries \in Dicts(Psids) /\ DOMAIN NoEntries = {}
  BY NoEntriesType
<1> QED BY <1>1, FS_EmptySet DEF Numberings

UsersTable(lists, g) ==
  g = [s \in SUBSET DOMAIN lists |->
         IF s = {} THEN NoEntries ELSE NumberAll(g[s \ {Max(s)}], lists[Max(s)])]

\* The lists of all users, one by one.
LEMMA NumberedSteps ==
  ASSUME NEW lists \in Seq(Seq(Psids))
  PROVE  \E G \in [0..Len(lists) -> Numberings] :
           /\ G[0] = NoEntries
           /\ \A k \in 1..Len(lists) : G[k] = NumberAll(G[k - 1], lists[k])
           /\ Numbered(lists) = G[Len(lists)]
<1> DEFINE V == Numberings
           X == Seq(Psids)
           h == [vx \in V \X X |-> NumberAll(vx[1], vx[2])]
           n == Len(lists)
<1>1. lists \in Seq(X) /\ n \in Nat /\ DOMAIN lists = 1..n /\ \A k \in 1..n : lists[k] \in X
  OBVIOUS
<1>2. NoEntries \in V
  BY NoEntriesNumber
<1>3. h \in [V \X X -> V]
  <2>1. ASSUME NEW vx \in V \X X PROVE NumberAll(vx[1], vx[2]) \in V
    <3>1. vx[1] \in V /\ vx[2] \in X
      OBVIOUS
    <3> HIDE DEF h
    <3> QED BY <3>1, NumberAllKeeps
  <2> QED BY <2>1
<1>4. Numbered(lists) = (CHOOSE g : UsersTable(lists, g))[DOMAIN lists]
  BY DEF Numbered, FoldLeft, MapThenFoldSet, UsersTable
<1>5. PICK g \in [SUBSET (1..n) -> V] :
        \A s \in SUBSET (1..n) : g[s] = Folded(h, NoEntries, lists, g, s)
  <2>1. TableUpTo(V, h, NoEntries, lists, Len(lists))
    <3> HIDE DEF h, V, X
    <3> QED BY <1>1, <1>2, <1>3, TableExists
  <2> HIDE DEF h, V, X
  <2> QED BY <2>1 DEF TableUpTo
<1>6. ASSUME NEW v \in V, NEW x \in X PROVE h[<<v, x>>] = NumberAll(v, x)
  <2>1. <<v, x>> \in V \X X
    OBVIOUS
  <2> HIDE DEF V, X
  <2> QED BY <2>1
<1>7. ASSUME NEW s \in SUBSET (1..n), s # {}
      PROVE  lists[Max(s)] \in X /\ s \ {Max(s)} \in SUBSET (1..n)
  BY <1>1, <1>7, MaxExists
<1> HIDE DEF h, V, X
<1>8. UsersTable(lists, g)
  <2>1. ASSUME NEW s \in SUBSET (1..n)
        PROVE  g[s] = IF s = {} THEN NoEntries ELSE NumberAll(g[s \ {Max(s)}], lists[Max(s)])
    BY <1>5, <1>6, <1>7 DEF Folded
  <2> QED BY <1>1, <1>5, <2>1 DEF UsersTable
<1>9. PICK f : UsersTable(lists, f) /\ Numbered(lists) = f[1..n]
  <2>1. UsersTable(lists, CHOOSE f : UsersTable(lists, f))
    BY <1>8
  <2> QED BY <1>1, <1>4, <2>1
<1>10. f[{}] = NoEntries
  BY <1>1, <1>9 DEF UsersTable
<1>11. ASSUME NEW s \in SUBSET (1..n), s # {} PROVE f[s] = NumberAll(f[s \ {Max(s)}], lists[Max(s)])
  BY <1>1, <1>9, <1>11 DEF UsersTable
<1>12. ASSUME NEW s \in SUBSET (1..n), s # {} /\ f[s \ {Max(s)}] \in V
       PROVE  f[s] = h[<<f[s \ {Max(s)}], lists[Max(s)]>>]
  BY <1>6, <1>7, <1>11, <1>12
<1>13. PICK G : FoldGoes(V, h, NoEntries, lists, G) /\ Numbered(lists) = G[n]
  <2>1. FoldTable(V, h, NoEntries, lists, f)
    BY <1>10, <1>12 DEF FoldTable
  <2>2. FoldsTo(V, h, NoEntries, lists, f[1..n])
    BY <1>1, <1>2, <1>3, <2>1, FoldSteps
  <2> QED BY <1>9, <2>2 DEF FoldsTo
<1>14. G \in [0..n -> V] /\ G[0] = NoEntries
  BY <1>13 DEF FoldGoes
<1>15. ASSUME NEW k \in 1..n PROVE G[k] = NumberAll(G[k - 1], lists[k])
  <2>1. k - 1 \in 0..n
    BY <1>1
  <2>2. G[k] = h[<<G[k - 1], lists[k]>>]
    BY <1>13 DEF FoldGoes
  <2> QED BY <1>1, <1>6, <1>14, <2>1, <2>2
<1> QED BY <1>13, <1>14, <1>15 DEF V

LEMMA NumberedIs ==
  ASSUME NEW lists \in Seq(Seq(Psids))
  PROVE  /\ Numbered(lists) \in Numberings
         /\ DOMAIN Numbered(lists) = UNION {ToSet(lists[i]) : i \in DOMAIN lists}
<1>1. PICK G \in [0..Len(lists) -> Numberings] :
        /\ G[0] = NoEntries
        /\ \A k \in 1..Len(lists) : G[k] = NumberAll(G[k - 1], lists[k])
        /\ Numbered(lists) = G[Len(lists)]
  BY NumberedSteps
<1>2. Len(lists) \in Nat /\ DOMAIN lists = 1..Len(lists)
  OBVIOUS
<1> DEFINE Seen(k) == UNION {ToSet(lists[i]) : i \in 1..k}
           Good == {k \in Nat : k <= Len(lists) => DOMAIN G[k] = Seen(k)}
<1>3. 0 \in Good
  <2>1. 1..0 = {} /\ DOMAIN NoEntries = {}
    BY DEF NoEntries
  <2> QED BY <1>1, <2>1
<1>4. ASSUME NEW k \in Nat, k \in Good PROVE k + 1 \in Good
  <2> SUFFICES ASSUME k + 1 <= Len(lists) PROVE DOMAIN G[k + 1] = Seen(k + 1)
    OBVIOUS
  <2>1. k + 1 \in 1..Len(lists) /\ (k + 1) - 1 = k /\ k <= Len(lists) /\ k \in 0..Len(lists)
    BY <1>2
  <2>2. DOMAIN G[k] = Seen(k)
    BY <1>4, <2>1
  <2>3. G[k + 1] = NumberAll(G[k], lists[k + 1]) /\ G[k] \in Numberings
    BY <1>1, <2>1
  <2>6. lists[k + 1] \in Seq(Psids)
    BY <2>1
  <2>4. DOMAIN G[k + 1] = DOMAIN G[k] \cup ToSet(lists[k + 1])
    BY <2>3, <2>6, NumberAllKeeps
  <2>5. 1..k + 1 = (1..k) \cup {k + 1}
    OBVIOUS
  <2> QED BY <2>2, <2>4, <2>5
<1>5. Len(lists) \in Good
  <2> HIDE DEF Good
  <2> QED BY <1>2, <1>3, <1>4, AllNumbers
<1>6. Len(lists) \in 0..Len(lists)
  BY <1>2
<1>7. Numbered(lists) \in Numberings
  BY <1>1, <1>6
<1>8. DOMAIN Numbered(lists) = Seen(Len(lists))
  <2>1. Len(lists) <= Len(lists)
    BY <1>2
  <2>2. DOMAIN G[Len(lists)] = Seen(Len(lists))
    <3> HIDE DEF Seen
    <3> QED BY <1>5, <2>1
  <2> HIDE DEF Seen
  <2> QED BY <1>1, <2>2
<1> QED BY <1>2, <1>7, <1>8

\* Each position that some user saw has a row of the merge bitmap, in which exactly its
\* users are, and sample_uv is their number.
THEOREM MergeFinds == Spec => []MergeFindsUsers
<1>1. IInv => MergeFindsUsers
  <2> SUFFICES ASSUME IInv, index.merge # None PROVE MergeFindsUsers
    BY DEF MergeFindsUsers
  <2> DEFINE Users(p) == {i \in DOMAIN psids : p \in ToSet(psids[i])}
             merge == index.merge
  <2>1. psids \in Seq(Seq(Psids)) /\ merge = Merged(psids)
    BY DEF IInv, Merges
  <2>2. PICK d : d = Numbered(psids)
    OBVIOUS
  <2>3. d \in Numberings /\ DOMAIN d = UNION {ToSet(psids[i]) : i \in DOMAIN psids}
    BY <2>1, <2>2, NumberedIs
  <2>4. /\ \A p \in DOMAIN d : d[p] \in 0..Cardinality(DOMAIN d) - 1
        /\ \A p, q \in DOMAIN d : d[p] = d[q] => p = q
    BY <2>3 DEF Numberings
  <2>5. /\ merge.psid_dict = d
        /\ DOMAIN merge.cols = DOMAIN psids
        /\ \A i \in DOMAIN psids : merge.cols[i] = {d[p] : p \in ToSet(psids[i])}
        /\ \A row \in 0..Cardinality(DOMAIN d) - 1 :
             merge.sample_uv[row] = Cardinality({i \in DOMAIN merge.cols : row \in merge.cols[i]})
    BY <2>1, <2>2 DEF Merged
  <2> HIDE DEF merge
  <2>6. ASSUME NEW p \in Psids PROVE (p \in DOMAIN d) = (Users(p) # {})
    BY <2>3
  <2>7. ASSUME NEW p \in DOMAIN d
        PROVE  {i \in DOMAIN merge.cols : d[p] \in merge.cols[i]} = Users(p)
    <3>1. ASSUME NEW i \in DOMAIN psids PROVE d[p] \in merge.cols[i] <=> p \in ToSet(psids[i])
      <4>1. ToSet(psids[i]) \subseteq DOMAIN d
        BY <2>3
      <4> QED BY <2>4, <2>5, <4>1
    <3> QED BY <2>5, <3>1
  <2>8. ASSUME NEW p \in DOMAIN d PROVE merge.sample_uv[d[p]] = Cardinality(Users(p))
    BY <2>4, <2>5, <2>7
  <2> QED BY <2>5, <2>6, <2>7, <2>8 DEF MergeFindsUsers, merge
<1> QED BY <1>1, Invariant, PTL
=============================================================================
