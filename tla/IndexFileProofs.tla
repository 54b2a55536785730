-------------------------- MODULE IndexFileProofs --------------------------
(***************************************************************************)
(* Theorems about IndexFile for every set of positions and every number of *)
(* runs of the builder.                                                    *)
(***************************************************************************)
EXTENDS IndexFile, FiniteSetTheorems, TLAPS

-----------------------------------------------------------------------------
(* Offset maps *)

LEMMA MostIsNat == Most \in Nat /\ Cardinality(Psids) \in Nat
  BY IndexFileAssumption, FS_CardinalityType DEF Most

\* What an offset map is.
LEMMA MapElements ==
  ASSUME NEW map \in OffsetMaps
  PROVE  /\ DOMAIN map \subseteq Psids
         /\ map = [p \in DOMAIN map |-> map[p]]
         /\ \A p \in DOMAIN map : map[p] \in 1..Most
  BY DEF OffsetMaps

LEMMA NoMapType == NoMap \in OffsetMaps /\ DOMAIN NoMap = {}
<1>1. DOMAIN NoMap = {} /\ NoMap \in [{} -> 1..Most]
  BY DEF NoMap
<1> QED BY <1>1 DEF OffsetMaps

LEMMA WithType ==
  ASSUME NEW map \in OffsetMaps, NEW p \in Psids, NEW at \in 1..Most
  PROVE  /\ With(map, p, at) \in OffsetMaps
         /\ DOMAIN With(map, p, at) = DOMAIN map \cup {p}
         /\ With(map, p, at)[p] = at
         /\ \A q \in DOMAIN map \ {p} : With(map, p, at)[q] = map[q]
<1>1. With(map, p, at) \in [DOMAIN map \cup {p} -> 1..Most]
  BY MapElements DEF With
<1>2. DOMAIN map \cup {p} \in SUBSET Psids
  BY MapElements
<1> QED BY <1>1, <1>2 DEF OffsetMaps, With

LEMMA WithoutType ==
  ASSUME NEW map \in OffsetMaps, NEW p
  PROVE  /\ Without(map, p) \in OffsetMaps
         /\ DOMAIN Without(map, p) = DOMAIN map \ {p}
         /\ \A q \in DOMAIN map \ {p} : Without(map, p)[q] = map[q]
<1>1. Without(map, p) \in [DOMAIN map \ {p} -> 1..Most]
  BY MapElements DEF Without, Restrict
<1>2. DOMAIN map \ {p} \in SUBSET Psids
  BY MapElements
<1> QED BY <1>1, <1>2 DEF OffsetMaps, Without, Restrict

\* A map has no more entries than there are positions.
LEMMA MapSize ==
  ASSUME NEW map \in OffsetMaps
  PROVE  /\ IsFiniteSet(DOMAIN map) /\ Cardinality(DOMAIN map) \in Nat
         /\ Cardinality(DOMAIN map) <= Cardinality(Psids)
<1>1. DOMAIN map \subseteq Psids /\ IsFiniteSet(Psids)
  BY MapElements, IndexFileAssumption
<1> QED BY <1>1, FS_Subset, FS_CardinalityType

-----------------------------------------------------------------------------
(* TypeOK.  That no offset points behind the largest index is not inductive:  *)
(* it needs that the builder's offset counts the bitmaps it has dumped, and    *)
(* that it dumps each once.                                                    *)

SpaceOK ==
  /\ offset = 1 + Cardinality(DOMAIN pv_offset_map) + Cardinality(DOMAIN uv_offset_map)
  /\ Len(data) <= offset
  /\ bpc \in {"header", "bitmaps"} => Len(data) < offset
  /\ bpc # "idle" => index # None

TypeInv == TypeOK /\ SpaceOK

LEMMA OffsetsType ==
  ASSUME NEW pv, NEW uv, NEW merge
  PROVE  [pv |-> pv, uv |-> uv, merge |-> merge] \in Offsets
           <=> pv \in OffsetMaps /\ uv \in OffsetMaps /\ merge \in 0..Most
  BY DEF Offsets

\* The parts of TypeOK.
FileTypes ==
  /\ pv_map \in OffsetMaps \cup {None} /\ uv_map \in OffsetMaps \cup {None}
  /\ merge_offset \in 0..Most \cup {None} /\ data \in Seq(Blocks)

BuilderTypes ==
  /\ bpc \in {"idle", "header", "bitmaps", "pv_map", "uv_map", "offset"}
  /\ index \in Indexes \cup {None} /\ committed \in Indexes \cup {None}
  /\ pv_offset_map \in OffsetMaps /\ uv_offset_map \in OffsetMaps
  /\ full \in BOOLEAN /\ overlap \in BOOLEAN /\ dumps \in 0..MaxDump

LoadedTypes ==
  /\ DOMAIN loaded.pv \subseteq Psids /\ DOMAIN loaded.uv \subseteq Psids
  /\ loaded \in [pv : [DOMAIN loaded.pv -> Blocks \cup {Garbage}],
                  uv : [DOMAIN loaded.uv -> Blocks \cup {Garbage}],
                  merge : Blocks \cup {Garbage, None}]

ReaderTypes ==
  /\ rpc \in {"idle", "pv_map", "uv_map", "offset", "bitmaps", "done"}
  /\ maps \in Offsets /\ LoadedTypes /\ return_code \in {0, -2, -4, -6}

\* The parts with SpaceOK are the whole.
LEMMA Parts == FileTypes /\ BuilderTypes /\ ReaderTypes /\ SpaceOK <=> TypeInv
<1>1. ASSUME FileTypes, BuilderTypes, ReaderTypes, SpaceOK PROVE TypeOK
  <2>1. offset \in 1..Most
    BY <1>1, MapSize, MostIsNat DEF SpaceOK, BuilderTypes, Most
  <2>2. [pv |-> pv_offset_map, uv |-> uv_offset_map, merge |-> offset] \in Offsets
    BY <1>1, <2>1, OffsetsType, MostIsNat DEF BuilderTypes
  <2>3. Len(data) <= Most
    BY <1>1, <2>1, MostIsNat DEF SpaceOK, FileTypes
  <2> QED BY <1>1, <2>2, <2>3
          DEF TypeOK, FileTypes, BuilderTypes, ReaderTypes, LoadedTypes
<1>2. TypeOK => FileTypes /\ BuilderTypes /\ ReaderTypes
  BY OffsetsType DEF TypeOK, FileTypes, BuilderTypes, ReaderTypes, LoadedTypes
<1> QED BY <1>1, <1>2 DEF TypeInv

LEMMA PartsNext == FileTypes' /\ BuilderTypes' /\ ReaderTypes' /\ SpaceOK' <=> TypeInv'
  BY Parts, PTL

\* The builder's offset is one of the file.
LEMMA OffsetRange == TypeInv => offset \in 1..Most /\ Len(data) \in Nat
  BY Parts, MapSize, MostIsNat DEF SpaceOK, BuilderTypes, FileTypes, Most

LEMMA NoIndexTypes == ASSUME loaded = NoIndex PROVE LoadedTypes
<1>1. DOMAIN NoMap = {} /\ NoMap \in [{} -> Blocks \cup {Garbage}]
  BY DEF NoMap
<1>2. NoIndex.pv = NoMap /\ NoIndex.uv = NoMap
  BY DEF NoIndex
<1>3. DOMAIN loaded.pv = {} /\ DOMAIN loaded.uv = {}
  BY <1>1, <1>2
<1>4. NoIndex \in [pv : [{} -> Blocks \cup {Garbage}], uv : [{} -> Blocks \cup {Garbage}],
                   merge : Blocks \cup {Garbage, None}]
  BY <1>1 DEF NoIndex
<1> QED BY <1>3, <1>4 DEF LoadedTypes

LEMMA TypesInit == Init => TypeInv
<1> SUFFICES ASSUME Init PROVE FileTypes /\ BuilderTypes /\ ReaderTypes /\ SpaceOK
  BY Parts
<1>1. SpaceOK
  <2>1. Cardinality(DOMAIN NoMap) = 0
    BY NoMapType, FS_EmptySet
  <2> QED BY <2>1 DEF Init, SpaceOK
<1>2. ReaderTypes
  BY NoMapType, MostIsNat, OffsetsType, NoIndexTypes DEF Init, ReaderTypes
<1>3. FileTypes
  BY DEF Init, FileTypes
<1>4. BuilderTypes
  <2>1. 0 \in 0..MaxDump
    BY IndexFileAssumption
  <2> QED BY <2>1, NoMapType DEF Init, BuilderTypes
<1> QED BY <1>1, <1>2, <1>3, <1>4

\* What Write does to the file and to the offset.
LEMMA WriteTypes ==
  ASSUME TypeInv, NEW block \in Blocks, Write(block)
  PROVE  FileTypes' /\ offset' = offset + 1 /\ Len(data') \in 0..Len(data)+1
  BY Parts DEF FileTypes, Write

\* A step of the builder leaves the reader's types alone, and the other way round.
LEMMA ReaderFrame == ReaderTypes /\ UNCHANGED reader => ReaderTypes'
  BY DEF ReaderTypes, LoadedTypes, reader

LEMMA BuilderStepTypes == TypeInv /\ Builder => TypeInv'
<1> SUFFICES ASSUME TypeInv, Builder PROVE TypeInv'
  OBVIOUS
<1> SUFFICES FileTypes' /\ BuilderTypes' /\ SpaceOK'
  <2>1. UNCHANGED reader
    BY DEF Builder, Truncate, PlaceHolder, DumpMerge, WritePvMap, WriteUvMap, WriteOffset, DumpPv,
           DumpUv, Kill, DiskFull
  <2> QED BY <2>1, Parts, PartsNext, ReaderFrame
<1> FileTypes /\ BuilderTypes /\ SpaceOK
  BY Parts
<1>0. offset \in 1..Most /\ Len(data) \in Nat /\ Most \in Nat
  BY OffsetRange, MostIsNat
<1>1. CASE Truncate
  <2>1. Cardinality(DOMAIN NoMap) = 0
    BY NoMapType, FS_EmptySet
  <2>2. SpaceOK'
    BY <1>1, <2>1, IndexFileAssumption DEF Truncate, SpaceOK
  <2>3. FileTypes'
    BY <1>1 DEF Truncate, FileTypes
  <2>4. dumps' \in 0..MaxDump
    BY <1>1, IndexFileAssumption DEF Truncate, BuilderTypes
  <2>5. BuilderTypes'
    BY <1>1, <2>4, NoMapType DEF Truncate, BuilderTypes
  <2> QED BY <2>2, <2>3, <2>5
<1>2. CASE PlaceHolder
  BY <1>0, <1>2, NoMapType DEF PlaceHolder, FileTypes, BuilderTypes, SpaceOK, file
<1>3. CASE DumpMerge
  <2>1. index \in Indexes
    BY <1>3 DEF DumpMerge, BuilderTypes, SpaceOK
  <2>2. Block("merge", None, index) \in Blocks
    BY <2>1 DEF Block, Blocks, Indexes
  <2> QED BY <1>0, <1>3, <2>1, <2>2 DEF DumpMerge, FileTypes, BuilderTypes, SpaceOK
<1>4. CASE WritePvMap
  BY <1>4 DEF WritePvMap, FileTypes, BuilderTypes, SpaceOK
<1>5. CASE WriteUvMap
  BY <1>5 DEF WriteUvMap, FileTypes, BuilderTypes, SpaceOK
<1>6. CASE WriteOffset
  BY <1>0, <1>6 DEF WriteOffset, FileTypes, BuilderTypes, SpaceOK
<1>7. ASSUME NEW p \in Psids, DumpPv(p) PROVE FileTypes' /\ BuilderTypes' /\ SpaceOK'
  <2>1. index \in Indexes
    BY <1>7 DEF DumpPv, BuilderTypes, SpaceOK
  <2>2. Block("pv", p, index) \in Blocks
    BY <2>1 DEF Block, Blocks, Indexes
  <2>3. FileTypes' /\ offset' = offset + 1 /\ Len(data') \in 0..Len(data)+1
    BY <1>7, <2>2, WriteTypes DEF DumpPv
  <2>4. /\ bpc = "bitmaps" /\ p \notin DOMAIN pv_offset_map
        /\ pv_offset_map' = With(pv_offset_map, p, offset)
        /\ UNCHANGED <<bpc, index, uv_offset_map, full, committed, overlap, dumps>>
    BY <1>7 DEF DumpPv
  <2>5. /\ pv_offset_map' \in OffsetMaps
        /\ DOMAIN pv_offset_map' = DOMAIN pv_offset_map \cup {p}
    BY <1>0, <2>4, WithType DEF BuilderTypes
  <2>6. Cardinality(DOMAIN pv_offset_map') = Cardinality(DOMAIN pv_offset_map) + 1
    BY <2>4, <2>5, MapSize, FS_AddElement DEF BuilderTypes
  <2>7. Cardinality(DOMAIN pv_offset_map) \in Nat /\ Cardinality(DOMAIN uv_offset_map) \in Nat
    BY MapSize DEF BuilderTypes
  <2>8. BuilderTypes'
    BY <2>4, <2>5 DEF BuilderTypes
  <2>9. SpaceOK'
    <3>1. offset' = 1 + Cardinality(DOMAIN pv_offset_map') + Cardinality(DOMAIN uv_offset_map')
      BY <1>0, <2>3, <2>4, <2>6, <2>7 DEF SpaceOK
    <3>2. Len(data') < offset'
      BY <1>0, <2>3, <2>4 DEF SpaceOK
    <3>3. Len(data') <= offset'
      BY <1>0, <2>3, <3>2
    <3> QED BY <2>1, <2>4, <3>1, <3>2, <3>3 DEF SpaceOK
  <2> QED BY <2>3, <2>8, <2>9
<1>8. ASSUME NEW p \in Psids, DumpUv(p) PROVE FileTypes' /\ BuilderTypes' /\ SpaceOK'
  <2>1. index \in Indexes
    BY <1>8 DEF DumpUv, BuilderTypes, SpaceOK
  <2>2. Block("uv", p, index) \in Blocks
    BY <2>1 DEF Block, Blocks, Indexes
  <2>3. FileTypes' /\ offset' = offset + 1 /\ Len(data') \in 0..Len(data)+1
    BY <1>8, <2>2, WriteTypes DEF DumpUv
  <2>4. /\ bpc = "bitmaps" /\ p \notin DOMAIN uv_offset_map
        /\ uv_offset_map' = With(uv_offset_map, p, offset)
        /\ UNCHANGED <<bpc, index, pv_offset_map, full, committed, overlap, dumps>>
    BY <1>8 DEF DumpUv
  <2>5. /\ uv_offset_map' \in OffsetMaps
        /\ DOMAIN uv_offset_map' = DOMAIN uv_offset_map \cup {p}
    BY <1>0, <2>4, WithType DEF BuilderTypes
  <2>6. Cardinality(DOMAIN uv_offset_map') = Cardinality(DOMAIN uv_offset_map) + 1
    BY <2>4, <2>5, MapSize, FS_AddElement DEF BuilderTypes
  <2>7. Cardinality(DOMAIN pv_offset_map) \in Nat /\ Cardinality(DOMAIN uv_offset_map) \in Nat
    BY MapSize DEF BuilderTypes
  <2>8. BuilderTypes'
    BY <2>4, <2>5 DEF BuilderTypes
  <2>9. SpaceOK'
    <3>1. offset' = 1 + Cardinality(DOMAIN pv_offset_map') + Cardinality(DOMAIN uv_offset_map')
      BY <1>0, <2>3, <2>4, <2>6, <2>7 DEF SpaceOK
    <3>2. Len(data') < offset'
      BY <1>0, <2>3, <2>4 DEF SpaceOK
    <3>3. Len(data') <= offset'
      BY <1>0, <2>3, <3>2
    <3> QED BY <2>1, <2>4, <3>1, <3>2, <3>3 DEF SpaceOK
  <2> QED BY <2>3, <2>8, <2>9
<1>9. CASE Kill
  BY <1>9 DEF Kill, FileTypes, BuilderTypes, SpaceOK, file
<1>10. CASE DiskFull
  BY <1>10 DEF DiskFull, FileTypes, BuilderTypes, SpaceOK, file
<1> QED BY <1>1, <1>2, <1>3, <1>4, <1>5, <1>6, <1>7, <1>8, <1>9, <1>10 DEF Builder

\* What a Load of a bitmap can return.
LEMMA LoadBlockType ==
  ASSUME FileTypes, NEW kind, NEW at, NEW b \in LoadBlock(kind, at)
  PROVE  b \in Blocks \cup {Garbage, None}
<1>1. CASE at \notin 1..Len(data)
  BY <1>1 DEF LoadBlock
<1>2. CASE at \in 1..Len(data)
  <2>1. data[at] \in Blocks
    BY <1>2 DEF FileTypes
  <2> QED BY <1>2, <2>1 DEF LoadBlock
<1> QED BY <1>1, <1>2

\* A loaded bitmap is put under its position.
LEMMA LoadedWith ==
  ASSUME NEW map, map \in [DOMAIN map -> Blocks \cup {Garbage}], DOMAIN map \subseteq Psids,
         NEW p \in Psids, NEW b \in Blocks \cup {Garbage}
  PROVE  /\ With(map, p, b) \in [DOMAIN With(map, p, b) -> Blocks \cup {Garbage}]
         /\ DOMAIN With(map, p, b) \subseteq Psids
  BY DEF With

LEMMA ReaderStepTypes == TypeInv /\ Reader => TypeInv'
<1> SUFFICES ASSUME TypeInv, Reader PROVE TypeInv'
  OBVIOUS
<1> FileTypes /\ BuilderTypes /\ ReaderTypes /\ SpaceOK
  BY Parts
<1> SUFFICES ReaderTypes'
  <2>1. UNCHANGED <<file, builder, committed, dumps>>
    BY DEF Reader, LoadBegin, ReadPvMap, ReadUvMap, ReadOffset, LoadPv, LoadUv, LoadMerge
  <2>2. overlap' \in BOOLEAN
    BY DEF Reader, LoadBegin, ReadPvMap, ReadUvMap, ReadOffset, LoadPv, LoadUv, LoadMerge,
           BuilderTypes
  <2>3. FileTypes' /\ BuilderTypes' /\ SpaceOK'
    BY <2>1, <2>2 DEF FileTypes, BuilderTypes, SpaceOK, file, builder
  <2> QED BY <2>3, PartsNext
<1>0. ASSUME UNCHANGED loaded PROVE LoadedTypes'
  BY <1>0 DEF ReaderTypes, LoadedTypes
<1>1. CASE LoadBegin
  <2>1. LoadedTypes'
    <3>1. (loaded = NoIndex => LoadedTypes)'
      BY NoIndexTypes, PTL
    <3> QED BY <1>1, <3>1 DEF LoadBegin
  <2>2. maps' \in Offsets
    BY <1>1, NoMapType, MostIsNat, OffsetsType DEF LoadBegin
  <2> QED BY <1>1, <2>1, <2>2 DEF LoadBegin, ReaderTypes
<1>2. CASE ReadPvMap \/ ReadUvMap \/ ReadOffset
  <2>1. maps' \in Offsets
    BY <1>2, OffsetsType
    DEF ReadPvMap, ReadUvMap, ReadOffset, ReaderTypes, FileTypes, Offsets
  <2>2. rpc' \in {"uv_map", "offset", "bitmaps", "done"} /\ return_code' \in {return_code, -2, -4}
    BY <1>2 DEF ReadPvMap, ReadUvMap, ReadOffset, Return
  <2>3. UNCHANGED loaded
    BY <1>2 DEF ReadPvMap, ReadUvMap, ReadOffset
  <2> QED BY <1>0, <2>1, <2>2, <2>3 DEF ReaderTypes
<1>3. ASSUME NEW p \in Psids, LoadPv(p) PROVE ReaderTypes'
  <2>1. maps' \in Offsets
    BY <1>3, WithoutType DEF LoadPv, ReaderTypes, Offsets
  <2>2. PICK b \in LoadBlock("pv", maps.pv[p]) :
          loaded' = IF b = None THEN loaded ELSE [loaded EXCEPT !.pv = With(loaded.pv, p, b)]
    BY <1>3 DEF LoadPv
  <2>3. LoadedTypes'
    <3>1. CASE b = None
      BY <1>0, <2>2, <3>1
    <3>2. CASE b # None
      <4>1. b \in Blocks \cup {Garbage}
        BY <3>2, LoadBlockType
      <4>2. LoadedTypes
        BY DEF ReaderTypes
      <4> DEFINE new == With(loaded.pv, p, b)
      <4>3. new \in [DOMAIN new -> Blocks \cup {Garbage}] /\ DOMAIN new \subseteq Psids
        BY <4>1, <4>2, LoadedWith DEF LoadedTypes
      <4> HIDE DEF new
      <4>4. loaded' = [loaded EXCEPT !.pv = new]
        BY <2>2, <3>2 DEF new
      <4>5. loaded'.pv = new /\ loaded'.uv = loaded.uv
        BY <4>2, <4>4 DEF LoadedTypes
      <4>6. loaded' \in [pv : [DOMAIN new -> Blocks \cup {Garbage}],
                         uv : [DOMAIN loaded.uv -> Blocks \cup {Garbage}],
                         merge : Blocks \cup {Garbage, None}]
        BY <4>2, <4>3, <4>4 DEF LoadedTypes
      <4> QED BY <4>2, <4>3, <4>5, <4>6 DEF LoadedTypes
    <3> QED BY <3>1, <3>2
  <2> QED BY <1>3, <2>1, <2>3 DEF LoadPv, ReaderTypes
<1>4. ASSUME NEW p \in Psids, LoadUv(p) PROVE ReaderTypes'
  <2>1. maps' \in Offsets
    BY <1>4, WithoutType DEF LoadUv, ReaderTypes, Offsets
  <2>2. PICK b \in LoadBlock("uv", maps.uv[p]) :
          loaded' = IF b = None THEN loaded ELSE [loaded EXCEPT !.uv = With(loaded.uv, p, b)]
    BY <1>4 DEF LoadUv
  <2>3. LoadedTypes'
    <3>1. CASE b = None
      BY <1>0, <2>2, <3>1
    <3>2. CASE b # None
      <4>1. b \in Blocks \cup {Garbage}
        BY <3>2, LoadBlockType
      <4>2. LoadedTypes
        BY DEF ReaderTypes
      <4> DEFINE new == With(loaded.uv, p, b)
      <4>3. new \in [DOMAIN new -> Blocks \cup {Garbage}] /\ DOMAIN new \subseteq Psids
        BY <4>1, <4>2, LoadedWith DEF LoadedTypes
      <4> HIDE DEF new
      <4>4. loaded' = [loaded EXCEPT !.uv = new]
        BY <2>2, <3>2 DEF new
      <4>5. loaded'.uv = new /\ loaded'.pv = loaded.pv
        BY <4>2, <4>4 DEF LoadedTypes
      <4>6. loaded' \in [pv : [DOMAIN loaded.pv -> Blocks \cup {Garbage}],
                         uv : [DOMAIN new -> Blocks \cup {Garbage}],
                         merge : Blocks \cup {Garbage, None}]
        BY <4>2, <4>3, <4>4 DEF LoadedTypes
      <4> QED BY <4>2, <4>3, <4>5, <4>6 DEF LoadedTypes
    <3> QED BY <3>1, <3>2
  <2> QED BY <1>4, <2>1, <2>3 DEF LoadUv, ReaderTypes
<1>5. CASE LoadMerge
  <2>1. PICK b \in LoadBlock("merge", maps.merge) :
          /\ loaded' = [loaded EXCEPT !.merge = b]
          /\ Return(IF b = None THEN -6 ELSE 0)
    BY <1>5 DEF LoadMerge
  <2>2. b \in Blocks \cup {Garbage, None}
    BY LoadBlockType
  <2>3. LoadedTypes'
    <3>1. LoadedTypes
      BY DEF ReaderTypes
    <3>2. loaded'.pv = loaded.pv /\ loaded'.uv = loaded.uv
      BY <2>1, <3>1 DEF LoadedTypes
    <3> QED BY <2>1, <2>2, <3>1, <3>2 DEF LoadedTypes
  <2> QED BY <1>5, <2>1, <2>3 DEF LoadMerge, Return, ReaderTypes
<1> QED BY <1>1, <1>2, <1>3, <1>4, <1>5 DEF Reader

LEMMA TypesStep == TypeInv /\ [Next]_vars => TypeInv'
<1>1. TypeInv /\ UNCHANGED vars => TypeInv'
  <2> SUFFICES ASSUME TypeInv, UNCHANGED vars PROVE FileTypes' /\ BuilderTypes' /\ ReaderTypes' /\ SpaceOK'
    BY PartsNext
  <2> FileTypes /\ BuilderTypes /\ ReaderTypes /\ SpaceOK
    BY Parts
  <2> QED BY DEF vars, file, builder, reader, FileTypes, BuilderTypes, ReaderTypes, LoadedTypes,
                 SpaceOK
<1> QED BY <1>1, BuilderStepTypes, ReaderStepTypes DEF Next

\* Every variable has its type, and no offset, in the builder, in the file or in
\* the service, points behind the largest index.
THEOREM TypeCorrect == Spec => []TypeOK
<1>1. TypeInv => TypeOK
  BY DEF TypeInv
<1> QED BY <1>1, TypesInit, TypesStep, PTL DEF Spec

-----------------------------------------------------------------------------
(* OnlyWholeIndexLoads and OnlyUserlessRefused.  The invariant follows the     *)
(* from the builder's maps through the header to the reader's maps: wherever   *)
(* they are, they lead to the blocks of their positions, or the merge bitmap's *)
(* leads behind the end of the file.                                           *)

\* The offsets of a map lead to the blocks of their positions.
Leads(map, blocks, kind, i) ==
  \A p \in DOMAIN map : map[p] \in 1..Len(blocks) /\ blocks[map[p]] = Block(kind, p, i)

LeadsMerge(at, blocks, i) == at \in 1..Len(blocks) /\ blocks[at] = Block("merge", None, i)

\* A builder that is not out of space has written what its maps say.
DumpWhole ==
  /\ Leads(pv_offset_map, data, "pv", index)
  /\ Leads(uv_offset_map, data, "uv", index)
  /\ bpc # "header" => pv_map # None /\ uv_map # None /\ merge_offset # None
  /\ bpc \in {"header", "bitmaps"} => Len(data) = offset - 1
  /\ bpc \in {"pv_map", "uv_map", "offset"} =>
       /\ DOMAIN pv_offset_map = index.pv /\ DOMAIN uv_offset_map = index.uv
       /\ LeadsMerge(offset, data, index)
  /\ bpc \in {"uv_map", "offset"} => pv_map = pv_offset_map
  /\ bpc = "offset" => uv_map = uv_offset_map

DumpOK ==
  bpc # "idle" => /\ committed = None /\ merge_offset \in {None, 0} /\ overlap
                  /\ full => Len(data) < offset
                  /\ ~full => DumpWhole

\* A file that was not written to its end has no merge bitmap where it says.
FileOK ==
  /\ committed = None => merge_offset \in {None, 0} \/ ~(merge_offset \in 1..Len(data))
  /\ committed # None =>
       /\ pv_map # None /\ uv_map # None /\ merge_offset # None
       /\ DOMAIN pv_map = committed.pv /\ Leads(pv_map, data, "pv", committed)
       /\ DOMAIN uv_map = committed.uv /\ Leads(uv_map, data, "uv", committed)
       /\ LeadsMerge(merge_offset, data, committed)

Part(map, whole) == DOMAIN map \subseteq DOMAIN whole /\ \A p \in DOMAIN map : map[p] = whole[p]

\* What Load has put into memory when the maps m are left to be done.
Done(m, i) == [pv    |-> [p \in Readable(i, i.pv \ DOMAIN m.pv) |-> Block("pv", p, i)],
               uv    |-> [p \in Readable(i, i.uv \ DOMAIN m.uv) |-> Block("uv", p, i)],
               merge |-> None]

LoadOK ==
  ~overlap /\ rpc # "idle" =>
    /\ bpc = "idle"
    /\ rpc \in {"pv_map", "uv_map", "offset"} => loaded = NoIndex
    /\ rpc \in {"uv_map", "offset"} => pv_map # None /\ maps.pv = pv_map
    /\ rpc = "offset" => uv_map # None /\ maps.uv = uv_map
    /\ rpc = "bitmaps" => maps.merge = merge_offset
    /\ rpc = "bitmaps" /\ committed # None =>
         Part(maps.pv, pv_map) /\ Part(maps.uv, uv_map) /\ loaded = Done(maps, committed)
    /\ rpc = "done" /\ committed = None => return_code # 0
    /\ rpc = "done" /\ committed # None =>
         /\ return_code = IF committed.users THEN 0 ELSE -6
         /\ committed.users => loaded = Image(committed)

IndexInv == TypeInv /\ DumpOK /\ FileOK /\ LoadOK

\* A block at the end of the file leaves those before it where they are.
LEMMA LeadsAppend ==
  ASSUME NEW map \in OffsetMaps, NEW blocks \in Seq(Blocks), NEW b \in Blocks,
         NEW kind, NEW i, Leads(map, blocks, kind, i)
  PROVE  Leads(map, Append(blocks, b), kind, i)
<1>1. \A n \in 1..Len(blocks) : /\ Append(blocks, b)[n] = blocks[n]
                                 /\ n \in 1..Len(Append(blocks, b))
  OBVIOUS
<1> QED BY <1>1 DEF Leads

\* A map leads to one more block, the last of the file.
LEMMA LeadsWith ==
  ASSUME NEW map \in OffsetMaps, NEW blocks \in Seq(Blocks), NEW p \in Psids,
         NEW kind, NEW i, Leads(map, blocks, kind, i), Block(kind, p, i) \in Blocks,
         Len(blocks) + 1 \in 1..Most
  PROVE  Leads(With(map, p, Len(blocks) + 1), Append(blocks, Block(kind, p, i)), kind, i)
<1> DEFINE b == Block(kind, p, i)
           m == With(map, p, Len(blocks) + 1)
<1>1. Leads(map, Append(blocks, b), kind, i)
  BY LeadsAppend
<1>2. Len(blocks) + 1 \in 1..Len(Append(blocks, b)) /\ Append(blocks, b)[Len(blocks) + 1] = b
  OBVIOUS
<1>3. DOMAIN m = DOMAIN map \cup {p} /\ m[p] = Len(blocks) + 1
      /\ \A q \in DOMAIN map \ {p} : m[q] = map[q]
  <2> DEFINE at == Len(blocks) + 1
  <2> HIDE DEF at
  <2>1. /\ DOMAIN With(map, p, at) = DOMAIN map \cup {p} /\ With(map, p, at)[p] = at
        /\ \A q \in DOMAIN map \ {p} : With(map, p, at)[q] = map[q]
    BY DEF With
  <2> QED BY <2>1 DEF at
<1> HIDE DEF m
<1>4. Leads(m, Append(blocks, b), kind, i)
  BY <1>1, <1>2, <1>3 DEF Leads
<1> QED BY <1>4 DEF m

LEMMA IndexInit == Init => IndexInv
<1> SUFFICES ASSUME Init PROVE IndexInv
  OBVIOUS
<1>1. DumpOK /\ FileOK /\ LoadOK
  BY DEF Init, DumpOK, FileOK, LoadOK
<1> QED BY <1>1, TypesInit DEF IndexInv

\* The steps of Dump keep the file sound.
LEMMA BuilderStep == IndexInv /\ Builder => DumpOK' /\ FileOK' /\ LoadOK'
<1> SUFFICES ASSUME IndexInv, Builder PROVE DumpOK' /\ FileOK' /\ LoadOK'
  OBVIOUS
<1> FileTypes /\ BuilderTypes /\ ReaderTypes /\ SpaceOK
  BY Parts DEF IndexInv
<1>0. offset \in 1..Most /\ Len(data) \in Nat /\ Most \in Nat
  BY OffsetRange, MostIsNat DEF IndexInv
<1>l. overlap' => LoadOK'
  BY DEF LoadOK
<1>o. bpc # "idle" => overlap
  BY DEF IndexInv, DumpOK
<1>1. CASE Truncate
  <2>1. Leads(NoMap, <<>>, "pv", index') /\ Leads(NoMap, <<>>, "uv", index')
    BY NoMapType DEF Leads
  <2>2. DumpOK'
    BY <1>1, <2>1 DEF Truncate, DumpOK, DumpWhole
  <2>3. FileOK'
    BY <1>1 DEF Truncate, FileOK
  <2> QED BY <1>1, <1>l, <2>2, <2>3 DEF Truncate
<1>2. CASE PlaceHolder
  <2>1. NoMap # None
    BY NoMapType, IndexFileAssumption
  <2>2. 0 # None
    BY IndexFileAssumption
  <2>3. /\ UNCHANGED <<index, data, pv_offset_map, uv_offset_map, offset, full, committed, overlap>>
        /\ bpc = "header" /\ bpc' = "bitmaps" /\ merge_offset' \in {None, 0}
        /\ ~full => pv_map' = NoMap /\ uv_map' = NoMap /\ merge_offset' = 0
    BY <1>2 DEF PlaceHolder, file, IndexInv, DumpOK
  <2>4. DumpOK'
    BY <2>1, <2>2, <2>3 DEF IndexInv, DumpOK, DumpWhole
  <2>5. FileOK'
    BY <2>3 DEF IndexInv, DumpOK, FileOK
  <2> QED BY <1>l, <1>o, <2>3, <2>4, <2>5
<1>3. CASE DumpMerge
  <2> DEFINE b == Block("merge", None, index)
  <2>1. index \in Indexes
    BY <1>3 DEF DumpMerge, BuilderTypes, SpaceOK
  <2>2. b \in Blocks
    BY <2>1 DEF Block, Blocks, Indexes
  <2>3. /\ UNCHANGED <<pv_map, uv_map, merge_offset, index, pv_offset_map, uv_offset_map, offset,
                        full, committed, overlap>>
        /\ bpc = "bitmaps" /\ bpc' = "pv_map"
        /\ index.pv = DOMAIN pv_offset_map /\ index.uv = DOMAIN uv_offset_map
        /\ data' = IF full THEN data ELSE Append(data, b)
    BY <1>3 DEF DumpMerge
  <2>4. FileOK'
    BY <2>3 DEF IndexInv, DumpOK, FileOK
  <2>5. CASE full
    <3>1. DumpOK'
      BY <2>3, <2>5 DEF IndexInv, DumpOK
    <3> QED BY <1>l, <1>o, <2>3, <2>4, <3>1
  <2>6. CASE ~full
    <3>1. DumpWhole
      BY <2>3, <2>6 DEF IndexInv, DumpOK
    <3>2. data' = Append(data, b) /\ data \in Seq(Blocks)
      BY <2>3, <2>6 DEF FileTypes
    <3>3. Leads(pv_offset_map, data', "pv", index) /\ Leads(uv_offset_map, data', "uv", index)
      BY <2>2, <3>1, <3>2, LeadsAppend DEF DumpWhole, BuilderTypes
    <3>4. Len(data) = offset - 1
      BY <2>3, <3>1 DEF DumpWhole
    <3>5. LeadsMerge(offset, data', index)
      BY <1>0, <2>2, <3>2, <3>4 DEF LeadsMerge
    <3>6. DumpWhole'
      BY <2>3, <3>1, <3>3, <3>5 DEF DumpWhole
    <3>7. DumpOK'
      BY <2>3, <2>6, <3>6 DEF IndexInv, DumpOK
    <3> QED BY <1>l, <1>o, <2>3, <2>4, <3>7
  <2> QED BY <2>5, <2>6
<1>4. CASE WritePvMap
  <2>1. /\ UNCHANGED <<uv_map, merge_offset, data, index, pv_offset_map, uv_offset_map, offset,
                        full, committed, overlap>>
        /\ bpc = "pv_map" /\ bpc' = "uv_map"
        /\ pv_map # None => pv_map' = pv_offset_map
    BY <1>4 DEF WritePvMap
  <2>2. pv_offset_map # None
    BY IndexFileAssumption DEF BuilderTypes
  <2>3. DumpOK'
    BY <2>1, <2>2 DEF IndexInv, DumpOK, DumpWhole
  <2>4. FileOK'
    BY <2>1 DEF IndexInv, DumpOK, FileOK
  <2> QED BY <1>l, <1>o, <2>1, <2>3, <2>4
<1>5. CASE WriteUvMap
  <2>1. /\ UNCHANGED <<pv_map, merge_offset, data, index, pv_offset_map, uv_offset_map, offset,
                        full, committed, overlap>>
        /\ bpc = "uv_map" /\ bpc' = "offset"
        /\ uv_map # None => uv_map' = uv_offset_map
    BY <1>5 DEF WriteUvMap
  <2>2. uv_offset_map # None
    BY IndexFileAssumption DEF BuilderTypes
  <2>3. DumpOK'
    BY <2>1, <2>2 DEF IndexInv, DumpOK, DumpWhole
  <2>4. FileOK'
    BY <2>1 DEF IndexInv, DumpOK, FileOK
  <2> QED BY <1>l, <1>o, <2>1, <2>3, <2>4
<1>6. CASE WriteOffset
  <2>1. /\ UNCHANGED <<pv_map, uv_map, data, offset, full, overlap>>
        /\ bpc = "offset" /\ bpc' = "idle"
        /\ merge_offset' = (IF merge_offset = None THEN None ELSE offset)
        /\ committed' = IF full THEN None ELSE index
    BY <1>6 DEF WriteOffset
  <2>2. index \in Indexes /\ index # None /\ offset # None
    BY <1>0, <2>1, IndexFileAssumption DEF SpaceOK, BuilderTypes
  <2>3. DumpOK'
    BY <2>1 DEF DumpOK
  <2>4. CASE full
    <3>1. Len(data) < offset /\ committed' = None
      BY <2>1, <2>4 DEF IndexInv, DumpOK
    <3> QED BY <1>0, <1>l, <1>o, <2>1, <2>3, <3>1 DEF FileOK
  <2>5. CASE ~full
    <3>1. DumpWhole /\ committed' = index
      BY <2>1, <2>5 DEF IndexInv, DumpOK
    <3>2. FileOK'
      BY <2>1, <2>2, <3>1 DEF FileOK, DumpWhole
    <3> QED BY <1>l, <1>o, <2>1, <2>3, <3>2
  <2> QED BY <2>4, <2>5
<1>7. ASSUME NEW p \in Psids, DumpPv(p) PROVE DumpOK' /\ FileOK' /\ LoadOK'
  <2> DEFINE b == Block("pv", p, index)
  <2>1. /\ UNCHANGED <<pv_map, uv_map, merge_offset, bpc, index, uv_offset_map, full, committed,
                        overlap>>
        /\ bpc = "bitmaps" /\ offset' = offset + 1
        /\ pv_offset_map' = With(pv_offset_map, p, offset)
        /\ data' = IF full THEN data ELSE Append(data, b)
    BY <1>7 DEF DumpPv, Write
  <2>2. index \in Indexes /\ b \in Blocks
    BY <2>1 DEF BuilderTypes, SpaceOK, Block, Blocks, Indexes
  <2>3. FileOK'
    BY <2>1 DEF IndexInv, DumpOK, FileOK
  <2>4. CASE full
    <3>1. DumpOK'
      BY <1>0, <2>1, <2>4 DEF IndexInv, DumpOK
    <3> QED BY <1>l, <1>o, <2>1, <2>3, <3>1
  <2>5. CASE ~full
    <3>1. DumpWhole
      BY <2>1, <2>5 DEF IndexInv, DumpOK
    <3>2. data' = Append(data, b) /\ data \in Seq(Blocks)
      BY <2>1, <2>5 DEF FileTypes
    <3>3. Len(data) = offset - 1 /\ Len(data) + 1 = offset
      BY <1>0, <2>1, <3>1 DEF DumpWhole
    <3>4. Leads(uv_offset_map, data', "uv", index)
      BY <2>2, <3>1, <3>2, LeadsAppend DEF DumpWhole, BuilderTypes
    <3>5. Leads(pv_offset_map', data', "pv", index)
      <4>1. Leads(With(pv_offset_map, p, Len(data) + 1), Append(data, b), "pv", index)
        BY <1>0, <2>2, <3>1, <3>2, <3>3, LeadsWith DEF DumpWhole, BuilderTypes
      <4> QED BY <2>1, <3>2, <3>3, <4>1
    <3>6. Len(data') = offset' - 1
      BY <1>0, <2>1, <2>2, <3>2, <3>3
    <3>7. DumpWhole'
      BY <2>1, <3>1, <3>4, <3>5, <3>6 DEF DumpWhole
    <3>8. DumpOK'
      BY <2>1, <2>5, <3>7 DEF IndexInv, DumpOK
    <3> QED BY <1>l, <1>o, <2>1, <2>3, <3>8
  <2> QED BY <2>4, <2>5
<1>8. ASSUME NEW p \in Psids, DumpUv(p) PROVE DumpOK' /\ FileOK' /\ LoadOK'
  <2> DEFINE b == Block("uv", p, index)
  <2>1. /\ UNCHANGED <<pv_map, uv_map, merge_offset, bpc, index, pv_offset_map, full, committed,
                        overlap>>
        /\ bpc = "bitmaps" /\ offset' = offset + 1
        /\ uv_offset_map' = With(uv_offset_map, p, offset)
        /\ data' = IF full THEN data ELSE Append(data, b)
    BY <1>8 DEF DumpUv, Write
  <2>2. index \in Indexes /\ b \in Blocks
    BY <2>1 DEF BuilderTypes, SpaceOK, Block, Blocks, Indexes
  <2>3. FileOK'
    BY <2>1 DEF IndexInv, DumpOK, FileOK
  <2>4. CASE full
    <3>1. DumpOK'
      BY <1>0, <2>1, <2>4 DEF IndexInv, DumpOK
    <3> QED BY <1>l, <1>o, <2>1, <2>3, <3>1
  <2>5. CASE ~full
    <3>1. DumpWhole
      BY <2>1, <2>5 DEF IndexInv, DumpOK
    <3>2. data' = Append(data, b) /\ data \in Seq(Blocks)
      BY <2>1, <2>5 DEF FileTypes
    <3>3. Len(data) = offset - 1 /\ Len(data) + 1 = offset
      BY <1>0, <2>1, <3>1 DEF DumpWhole
    <3>4. Leads(pv_offset_map, data', "pv", index)
      BY <2>2, <3>1, <3>2, LeadsAppend DEF DumpWhole, BuilderTypes
    <3>5. Leads(uv_offset_map', data', "uv", index)
      <4>1. Leads(With(uv_offset_map, p, Len(data) + 1), Append(data, b), "uv", index)
        BY <1>0, <2>2, <3>1, <3>2, <3>3, LeadsWith DEF DumpWhole, BuilderTypes
      <4> QED BY <2>1, <3>2, <3>3, <4>1
    <3>6. Len(data') = offset' - 1
      BY <1>0, <2>1, <2>2, <3>2, <3>3
    <3>7. DumpWhole'
      BY <2>1, <3>1, <3>4, <3>5, <3>6 DEF DumpWhole
    <3>8. DumpOK'
      BY <2>1, <2>5, <3>7 DEF IndexInv, DumpOK
    <3> QED BY <1>l, <1>o, <2>1, <2>3, <3>8
  <2> QED BY <2>4, <2>5
<1>9. CASE Kill
  <2>1. bpc' = "idle" /\ bpc # "idle" /\ UNCHANGED <<merge_offset, data, committed, overlap>>
    BY <1>9 DEF Kill, file
  <2>2. DumpOK' /\ FileOK'
    BY <2>1 DEF IndexInv, DumpOK, FileOK
  <2> QED BY <1>l, <1>o, <2>1, <2>2
<1>10. CASE DiskFull
  <2>1. /\ bpc \in {"header", "bitmaps"} /\ full'
        /\ UNCHANGED <<pv_map, uv_map, merge_offset, data, bpc, offset, committed, overlap>>
    BY <1>10 DEF DiskFull, file
  <2>2. DumpOK' /\ FileOK'
    BY <2>1 DEF IndexInv, DumpOK, FileOK, SpaceOK
  <2> QED BY <1>l, <1>o, <2>1, <2>2
<1> QED BY <1>1, <1>2, <1>3, <1>4, <1>5, <1>6, <1>7, <1>8, <1>9, <1>10 DEF Builder

\* A block that a map leads to is loaded if it has a row.
LEMMA LoadBlockFound ==
  ASSUME FileTypes, NEW kind, NEW p, NEW i, NEW at \in 1..Len(data), data[at] = Block(kind, p, i)
  PROVE  /\ LoadBlock(kind, at) = IF Block(kind, p, i).rows THEN {Block(kind, p, i)} ELSE {None}
         /\ Block(kind, p, i) # None
<1>1. data[at].kind = kind
  BY DEF Block
<1>2. data[at] \in Blocks
  BY DEF FileTypes
<1>3. at \in 1..Len(data)
  OBVIOUS
<1> QED BY <1>1, <1>2, <1>3, IndexFileAssumption DEF LoadBlock

LEMMA ExceptMap ==
  ASSUME NEW a, NEW b, NEW c, NEW x
  PROVE  /\ [[pv |-> a, uv |-> b, merge |-> c] EXCEPT !.pv = x] = [pv |-> x, uv |-> b, merge |-> c]
         /\ [[pv |-> a, uv |-> b, merge |-> c] EXCEPT !.uv = x] = [pv |-> a, uv |-> x, merge |-> c]
  OBVIOUS

\* One more position of the index has been dealt with: it is in memory, if its bitmap
\* has a row.
LEMMA DonePv ==
  ASSUME NEW m \in Offsets, NEW i \in Indexes, NEW p \in i.pv,
         p \in DOMAIN m.pv, DOMAIN m.pv \subseteq i.pv
  PROVE  Done([m EXCEPT !.pv = Without(m.pv, p)], i)
           = IF i.targets
             THEN [Done(m, i) EXCEPT !.pv = With(Done(m, i).pv, p, Block("pv", p, i))]
             ELSE Done(m, i)
<1> DEFINE n == [m EXCEPT !.pv = Without(m.pv, p)]
           new == With(Done(m, i).pv, p, Block("pv", p, i))
           old == [q \in Readable(i, i.pv \ DOMAIN m.pv) |-> Block("pv", q, i)]
           rest == [q \in Readable(i, i.uv \ DOMAIN m.uv) |-> Block("uv", q, i)]
<1>1. n.pv = Without(m.pv, p) /\ n.uv = m.uv /\ DOMAIN n.pv = DOMAIN m.pv \ {p}
  BY WithoutType DEF Offsets
<1>2. Done(m, i) = [pv |-> old, uv |-> rest, merge |-> None] /\ Done(m, i).pv = old
  BY DEF Done
<1>3. rest = [q \in Readable(i, i.uv \ DOMAIN n.uv) |-> Block("uv", q, i)]
  BY <1>1
<1>4. CASE i.targets
  <2>1. new = [q \in Readable(i, i.pv \ DOMAIN n.pv) |-> Block("pv", q, i)]
    <3>1. (i.pv \ DOMAIN m.pv) \cup {p} = i.pv \ DOMAIN n.pv
      BY <1>1
    <3> QED BY <1>2, <1>4, <3>1 DEF With, Readable
  <2>2. Done(n, i) = [pv |-> new, uv |-> rest, merge |-> None]
    <3> HIDE DEF n, new, rest
    <3> QED BY <1>3, <2>1 DEF Done
  <2> HIDE DEF n, new, old, rest
  <2>3. [Done(m, i) EXCEPT !.pv = new] = Done(n, i)
    BY <1>2, <2>2, ExceptMap
  <2> QED BY <1>4, <2>3 DEF n, new
<1>5. CASE ~i.targets
  <2>1. old = [q \in Readable(i, i.pv \ DOMAIN n.pv) |-> Block("pv", q, i)]
    BY <1>5 DEF Readable
  <2>2. Done(n, i) = Done(m, i)
    <3> HIDE DEF n, old, rest
    <3> QED BY <1>2, <1>3, <2>1 DEF Done
  <2> QED BY <1>5, <2>2 DEF n
<1> QED BY <1>4, <1>5

\* The same of the bitmaps of users.
LEMMA DoneUv ==
  ASSUME NEW m \in Offsets, NEW i \in Indexes, NEW p \in i.uv,
         p \in DOMAIN m.uv, DOMAIN m.uv \subseteq i.uv
  PROVE  Done([m EXCEPT !.uv = Without(m.uv, p)], i)
           = IF i.targets
             THEN [Done(m, i) EXCEPT !.uv = With(Done(m, i).uv, p, Block("uv", p, i))]
             ELSE Done(m, i)
<1> DEFINE n == [m EXCEPT !.uv = Without(m.uv, p)]
           new == With(Done(m, i).uv, p, Block("uv", p, i))
           old == [q \in Readable(i, i.uv \ DOMAIN m.uv) |-> Block("uv", q, i)]
           rest == [q \in Readable(i, i.pv \ DOMAIN m.pv) |-> Block("pv", q, i)]
<1>1. n.uv = Without(m.uv, p) /\ n.pv = m.pv /\ DOMAIN n.uv = DOMAIN m.uv \ {p}
  BY WithoutType DEF Offsets
<1>2. Done(m, i) = [pv |-> rest, uv |-> old, merge |-> None] /\ Done(m, i).uv = old
  BY DEF Done
<1>3. rest = [q \in Readable(i, i.pv \ DOMAIN n.pv) |-> Block("pv", q, i)]
  BY <1>1
<1>4. CASE i.targets
  <2>1. new = [q \in Readable(i, i.uv \ DOMAIN n.uv) |-> Block("uv", q, i)]
    <3>1. (i.uv \ DOMAIN m.uv) \cup {p} = i.uv \ DOMAIN n.uv
      BY <1>1
    <3> QED BY <1>2, <1>4, <3>1 DEF With, Readable
  <2>2. Done(n, i) = [pv |-> rest, uv |-> new, merge |-> None]
    <3> HIDE DEF n, new, rest
    <3> QED BY <1>3, <2>1 DEF Done
  <2> HIDE DEF n, new, old, rest
  <2>3. [Done(m, i) EXCEPT !.uv = new] = Done(n, i)
    BY <1>2, <2>2, ExceptMap
  <2> QED BY <1>4, <2>3 DEF n, new
<1>5. CASE ~i.targets
  <2>1. old = [q \in Readable(i, i.uv \ DOMAIN n.uv) |-> Block("uv", q, i)]
    BY <1>5 DEF Readable
  <2>2. Done(n, i) = Done(m, i)
    <3> HIDE DEF n, old, rest
    <3> QED BY <1>2, <1>3, <2>1 DEF Done
  <2> QED BY <1>5, <2>2 DEF n
<1> QED BY <1>4, <1>5

\* The steps of Load read a file that does not change, or overlap says so.
LEMMA ReaderStep == IndexInv /\ Reader => DumpOK' /\ FileOK' /\ LoadOK'
<1> SUFFICES ASSUME IndexInv, Reader PROVE DumpOK' /\ FileOK' /\ LoadOK'
  OBVIOUS
<1> FileTypes /\ BuilderTypes /\ ReaderTypes
  BY Parts DEF IndexInv
<1>0. DumpOK' /\ FileOK'
  <2>1. UNCHANGED <<file, builder, committed, dumps>>
    BY DEF Reader, LoadBegin, ReadPvMap, ReadUvMap, ReadOffset, LoadPv, LoadUv, LoadMerge
  <2>2. bpc # "idle" => overlap'
    BY DEF Reader, LoadBegin, ReadPvMap, ReadUvMap, ReadOffset, LoadPv, LoadUv, LoadMerge,
           IndexInv, DumpOK
  <2> QED BY <2>1, <2>2 DEF file, builder, IndexInv, DumpOK, DumpWhole, FileOK
<1>1. CASE LoadBegin
  BY <1>0, <1>1 DEF LoadBegin, builder, LoadOK
<1> SUFFICES ASSUME ~LoadBegin PROVE LoadOK'
  BY <1>0, <1>1
<1>2. /\ UNCHANGED <<pv_map, uv_map, merge_offset, data, bpc, committed, overlap>>
      /\ rpc # "idle"
  BY DEF Reader, ReadPvMap, ReadUvMap, ReadOffset, LoadPv, LoadUv, LoadMerge, file, builder
<1> SUFFICES ASSUME ~overlap PROVE LoadOK'
  BY <1>2 DEF LoadOK
<1>3. bpc = "idle"
  BY <1>2 DEF IndexInv, LoadOK
<1>4. CASE ReadPvMap
  <2>1. loaded' = loaded /\ loaded = NoIndex /\ rpc = "pv_map"
    BY <1>2, <1>4 DEF ReadPvMap, IndexInv, LoadOK
  <2>2. CASE pv_map = None
    <3>1. rpc' = "done" /\ return_code' = -2 /\ committed = None
      BY <1>4, <2>2 DEF ReadPvMap, Return, IndexInv, FileOK
    <3> QED BY <1>2, <1>3, <3>1 DEF LoadOK
  <2>3. CASE pv_map # None
    <3>1. rpc' = "uv_map" /\ maps'.pv = pv_map
      BY <1>4, <2>3 DEF ReadPvMap, Return, ReaderTypes, Offsets
    <3> QED BY <1>2, <1>3, <2>1, <2>3, <3>1 DEF LoadOK
  <2> QED BY <2>2, <2>3
<1>5. CASE ReadUvMap
  <2>1. loaded' = loaded /\ loaded = NoIndex /\ rpc = "uv_map" /\ maps.pv = pv_map /\ pv_map # None
    BY <1>2, <1>5 DEF ReadUvMap, IndexInv, LoadOK
  <2>2. CASE uv_map = None
    <3>1. rpc' = "done" /\ return_code' = -2 /\ committed = None
      BY <1>5, <2>2 DEF ReadUvMap, Return, IndexInv, FileOK
    <3> QED BY <1>2, <1>3, <3>1 DEF LoadOK
  <2>3. CASE uv_map # None
    <3>1. rpc' = "offset" /\ maps'.uv = uv_map /\ maps'.pv = maps.pv
      BY <1>5, <2>3 DEF ReadUvMap, Return, ReaderTypes, Offsets
    <3> QED BY <1>2, <1>3, <2>1, <2>3, <3>1 DEF LoadOK
  <2> QED BY <2>2, <2>3
<1>6. CASE ReadOffset
  <2>1. /\ loaded' = loaded /\ loaded = NoIndex /\ rpc = "offset"
        /\ maps.pv = pv_map /\ maps.uv = uv_map
    BY <1>2, <1>6 DEF ReadOffset, IndexInv, LoadOK
  <2>2. CASE merge_offset = None
    <3>1. rpc' = "done" /\ return_code' = -4 /\ committed = None
      BY <1>6, <2>2 DEF ReadOffset, Return, IndexInv, FileOK
    <3> QED BY <1>2, <1>3, <3>1 DEF LoadOK
  <2>3. CASE merge_offset # None
    <3>1. rpc' = "bitmaps" /\ maps'.merge = merge_offset /\ maps'.pv = maps.pv /\ maps'.uv = maps.uv
      BY <1>6, <2>3 DEF ReadOffset, Return, ReaderTypes, Offsets
    <3>2. ASSUME committed # None
          PROVE  Part(maps'.pv, pv_map) /\ Part(maps'.uv, uv_map) /\ NoIndex = Done(maps', committed)
      <4>1. DOMAIN maps'.pv = committed.pv /\ DOMAIN maps'.uv = committed.uv
        BY <2>1, <3>1, <3>2 DEF IndexInv, FileOK
      <4>2. Done(maps', committed) = NoIndex
        BY <4>1 DEF Done, Readable, NoIndex, NoMap
      <4> QED BY <2>1, <3>1, <4>2 DEF Part
    <3> QED BY <1>2, <1>3, <2>1, <3>1, <3>2 DEF LoadOK
  <2> QED BY <2>2, <2>3
<1>7. ASSUME NEW p \in Psids, LoadPv(p) PROVE LoadOK'
  <2>1. /\ rpc = "bitmaps" /\ rpc' = rpc /\ p \in DOMAIN maps.pv
        /\ maps' = [maps EXCEPT !.pv = Without(maps.pv, p)] /\ maps.merge = merge_offset
    BY <1>2, <1>7 DEF LoadPv, IndexInv, LoadOK
  <2>2. /\ maps'.pv = Without(maps.pv, p) /\ maps'.uv = maps.uv /\ maps'.merge = maps.merge
        /\ maps \in Offsets /\ maps.pv \in OffsetMaps
    BY <2>1 DEF ReaderTypes, Offsets
  <2>3. ASSUME committed # None
        PROVE  Part(maps'.pv, pv_map) /\ Part(maps'.uv, uv_map) /\ loaded' = Done(maps', committed)
    <3>1. /\ Part(maps.pv, pv_map) /\ Part(maps.uv, uv_map) /\ loaded = Done(maps, committed)
          /\ DOMAIN pv_map = committed.pv /\ Leads(pv_map, data, "pv", committed)
      BY <1>2, <2>1, <2>3 DEF IndexInv, LoadOK, FileOK
    <3>2. p \in committed.pv /\ DOMAIN maps.pv \subseteq committed.pv /\ committed \in Indexes
      BY <2>1, <2>3, <3>1 DEF Part, BuilderTypes
    <3>3. maps.pv[p] \in 1..Len(data) /\ data[maps.pv[p]] = Block("pv", p, committed)
      BY <2>1, <3>1, <3>2 DEF Part, Leads
    <3>4. /\ LoadBlock("pv", maps.pv[p]) = IF committed.targets THEN {Block("pv", p, committed)}
                                           ELSE {None}
          /\ Block("pv", p, committed) # None
      <4>1. Block("pv", p, committed).rows = committed.targets
        BY DEF Block
      <4> QED BY <3>3, <4>1, LoadBlockFound
    <3>5. loaded' = IF committed.targets
                    THEN [loaded EXCEPT !.pv = With(loaded.pv, p, Block("pv", p, committed))]
                    ELSE loaded
      BY <1>7, <3>4 DEF LoadPv
    <3>6. loaded' = Done(maps', committed)
      BY <2>1, <2>2, <3>1, <3>2, <3>5, DonePv
    <3>7. Part(maps'.pv, pv_map)
      <4>1. /\ DOMAIN Without(maps.pv, p) = DOMAIN maps.pv \ {p}
            /\ \A q \in DOMAIN maps.pv \ {p} : Without(maps.pv, p)[q] = maps.pv[q]
        BY <2>2, WithoutType
      <4>2. Part(Without(maps.pv, p), pv_map)
        BY <3>1, <4>1 DEF Part
      <4> QED BY <2>2, <4>2
    <3> QED BY <2>2, <3>1, <3>6, <3>7
  <2> QED BY <1>2, <1>3, <2>1, <2>2, <2>3 DEF LoadOK
<1>8. ASSUME NEW p \in Psids, LoadUv(p) PROVE LoadOK'
  <2>1. /\ rpc = "bitmaps" /\ rpc' = rpc /\ p \in DOMAIN maps.uv
        /\ maps' = [maps EXCEPT !.uv = Without(maps.uv, p)] /\ maps.merge = merge_offset
    BY <1>2, <1>8 DEF LoadUv, IndexInv, LoadOK
  <2>2. /\ maps'.uv = Without(maps.uv, p) /\ maps'.pv = maps.pv /\ maps'.merge = maps.merge
        /\ maps \in Offsets /\ maps.uv \in OffsetMaps
    BY <2>1 DEF ReaderTypes, Offsets
  <2>3. ASSUME committed # None
        PROVE  Part(maps'.pv, pv_map) /\ Part(maps'.uv, uv_map) /\ loaded' = Done(maps', committed)
    <3>1. /\ Part(maps.pv, pv_map) /\ Part(maps.uv, uv_map) /\ loaded = Done(maps, committed)
          /\ DOMAIN uv_map = committed.uv /\ Leads(uv_map, data, "uv", committed)
      BY <1>2, <2>1, <2>3 DEF IndexInv, LoadOK, FileOK
    <3>2. p \in committed.uv /\ DOMAIN maps.uv \subseteq committed.uv /\ committed \in Indexes
      BY <2>1, <2>3, <3>1 DEF Part, BuilderTypes
    <3>3. maps.uv[p] \in 1..Len(data) /\ data[maps.uv[p]] = Block("uv", p, committed)
      BY <2>1, <3>1, <3>2 DEF Part, Leads
    <3>4. /\ LoadBlock("uv", maps.uv[p]) = IF committed.targets THEN {Block("uv", p, committed)}
                                           ELSE {None}
          /\ Block("uv", p, committed) # None
      <4>1. Block("uv", p, committed).rows = committed.targets
        BY DEF Block
      <4> QED BY <3>3, <4>1, LoadBlockFound
    <3>5. loaded' = IF committed.targets
                    THEN [loaded EXCEPT !.uv = With(loaded.uv, p, Block("uv", p, committed))]
                    ELSE loaded
      BY <1>8, <3>4 DEF LoadUv
    <3>6. loaded' = Done(maps', committed)
      BY <2>1, <2>2, <3>1, <3>2, <3>5, DoneUv
    <3>7. Part(maps'.uv, uv_map)
      <4>1. /\ DOMAIN Without(maps.uv, p) = DOMAIN maps.uv \ {p}
            /\ \A q \in DOMAIN maps.uv \ {p} : Without(maps.uv, p)[q] = maps.uv[q]
        BY <2>2, WithoutType
      <4>2. Part(Without(maps.uv, p), uv_map)
        BY <3>1, <4>1 DEF Part
      <4> QED BY <2>2, <4>2
    <3> QED BY <2>2, <3>1, <3>6, <3>7
  <2> QED BY <1>2, <1>3, <2>1, <2>2, <2>3 DEF LoadOK
<1>9. CASE LoadMerge
  <2>1. PICK b \in LoadBlock("merge", maps.merge) :
          /\ loaded' = [loaded EXCEPT !.merge = b]
          /\ rpc' = "done" /\ return_code' = IF b = None THEN -6 ELSE 0
    BY <1>9 DEF LoadMerge, Return
  <2>2. /\ maps.pv = NoMap /\ maps.uv = NoMap /\ maps.merge = merge_offset /\ merge_offset # None
    BY <1>2, <1>9, IndexFileAssumption DEF LoadMerge, IndexInv, LoadOK, ReaderTypes, Offsets
  <2>3. ASSUME committed = None PROVE return_code' # 0
    <3>1. merge_offset \notin 1..Len(data)
      BY <2>2, <2>3 DEF IndexInv, FileOK
    <3> QED BY <2>1, <2>2, <3>1 DEF LoadBlock
  <2>4. ASSUME committed # None
        PROVE  /\ return_code' = IF committed.users THEN 0 ELSE -6
               /\ committed.users => loaded' = Image(committed)
    <3>1. LeadsMerge(merge_offset, data, committed) /\ loaded = Done(maps, committed)
      BY <1>2, <1>9, <2>4 DEF LoadMerge, IndexInv, LoadOK, FileOK
    <3>2. /\ b = IF committed.users THEN Block("merge", None, committed) ELSE None
          /\ Block("merge", None, committed) # None
      <4>1. Block("merge", None, committed).rows = committed.users
        BY DEF Block
      <4> QED BY <2>1, <2>2, <3>1, <4>1, LoadBlockFound DEF LeadsMerge
    <3>3. Done(maps, committed) =
            [pv    |-> [p \in Readable(committed, committed.pv) |-> Block("pv", p, committed)],
             uv    |-> [p \in Readable(committed, committed.uv) |-> Block("uv", p, committed)],
             merge |-> None]
      BY <2>2, NoMapType DEF Done
    <3>4. return_code' = IF committed.users THEN 0 ELSE -6
      BY <2>1, <3>2
    <3>5. ASSUME committed.users PROVE loaded' = Image(committed)
      BY <2>1, <3>1, <3>2, <3>3, <3>5 DEF Image
    <3> QED BY <3>4, <3>5
  <2> QED BY <1>2, <1>3, <2>1, <2>3, <2>4 DEF LoadOK
<1> QED BY <1>4, <1>5, <1>6, <1>7, <1>8, <1>9 DEF Reader

LEMMA IndexStep == IndexInv /\ [Next]_vars => IndexInv'
<1>1. IndexInv /\ UNCHANGED vars => DumpOK' /\ FileOK' /\ LoadOK'
  BY DEF vars, file, builder, reader, IndexInv, DumpOK, DumpWhole, FileOK, LoadOK
<1> QED BY <1>1, TypesStep, BuilderStep, ReaderStep DEF Next, IndexInv

\* However many positions there are and however often the builder runs, is killed
\* or fills the disk: what Load accepts while no dump runs is the index that the
\* builder had, whole.
THEOREM OnlyWhole == Spec => []OnlyWholeIndexLoads
<1>1. IndexInv => OnlyWholeIndexLoads
  BY DEF IndexInv, LoadOK, OnlyWholeIndexLoads, Loaded
<1> QED BY <1>1, IndexInit, IndexStep, PTL DEF Spec

\* And of the files that Dump has finished, Load refuses those whose merge bitmap has
\* no row, and no other, whatever bitmaps the index has besides.
THEOREM OnlyUserless == Spec => []OnlyUserlessRefused
<1>1. IndexInv => OnlyUserlessRefused
  BY DEF IndexInv, LoadOK, OnlyUserlessRefused
<1> QED BY <1>1, IndexInit, IndexStep, PTL DEF Spec
=============================================================================
