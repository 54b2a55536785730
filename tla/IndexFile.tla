----------------------------- MODULE IndexFile -----------------------------
(***************************************************************************)
(* The index file: Index::Dump, run by the builder, and Index::Load, run   *)
(* by the service, one read or write of the file after the other.          *)
(*                                                                         *)
(* The file begins with two offset maps and the offset of the uv merge     *)
(* bitmap, three places of fixed size that are zeros until all the bitmaps *)
(* behind them have been written.  The builder writes in place; it may be  *)
(* killed at any point, the disk may be full from any point on (no fwrite  *)
(* is checked), and a load may run at the same time.                       *)
(*                                                                         *)
(* A bitmap with everything that Dump writes behind it is a block, which   *)
(* says whose it is and of which dump; the offset of a block is its number.*)
(* Every Load of a block ends with reads of a fixed size, so that a block  *)
(* which is cut off by the end of the file loads as badly as one that is   *)
(* not there.                                                              *)
(***************************************************************************)
EXTENDS Integers, Sequences, FiniteSets, Functions

CONSTANTS Psids,     \* the ad positions
          MaxDump,   \* bound: how often the builder runs
          None       \* nothing there

\* An index as the builder holds it when it dumps it: positions with a bitmap for
\* page views, for users, and always a merge bitmap (Dump refuses an index without
\* one).  Bitmaps of positions have a row for each line of the dictionary, and so all
\* have some or none; the merge bitmap has none if the merge file names no position.
Indexes == [pv : SUBSET Psids, uv : SUBSET Psids, targets : BOOLEAN, users : BOOLEAN,
            dump : 1..MaxDump]

\* What is in the file at some offset, for an index.
Block(kind, p, i) == [kind |-> kind, psid |-> p, dump |-> i.dump,
                      rows |-> IF kind = "merge" THEN i.users ELSE i.targets]

Blocks == [kind : {"pv", "uv"}, psid : Psids, dump : 1..MaxDump, rows : BOOLEAN]
            \cup [kind : {"merge"}, psid : {None}, dump : 1..MaxDump, rows : BOOLEAN]

Garbage == [kind |-> "garbage", psid |-> None, dump |-> 0, rows |-> TRUE]

Most == 2 * Cardinality(Psids) + 1     \* the blocks in the largest index

\* The offset maps of all the positions or some.
OffsetMaps == UNION {[P -> 1..Most] : P \in SUBSET Psids}

ASSUME IndexFileAssumption ==
         /\ MaxDump \in Nat /\ IsFiniteSet(Psids)
         /\ None \notin Nat \cup OffsetMaps \cup Indexes \cup Blocks \cup {Garbage}

VARIABLES
  \* the file
  pv_map, uv_map,     \* the offset maps at its beginning; None = the file ends before
  merge_offset,       \* the last word of the header; 0 = still the place holder
  data,               \* the blocks behind the header
  \* the builder, in Dump
  bpc, index,         \* where it is, the index it dumps
  pv_offset_map, uv_offset_map, offset,   \* its locals
  full,               \* the disk is full
  \* the service, in Load
  rpc,                \* where it is
  maps,               \* the offset maps it has read and not dealt with, its merge offset
  loaded,             \* pv_map_, uv_map_, uv_merge_map_
  return_code,
  \* what a reader of this model wants to know
  committed,          \* the index whose dump the file holds completely, or None
  overlap,            \* a dump ran during the current load

  dumps               \* dumps begun, up to MaxDump

file    == <<pv_map, uv_map, merge_offset, data>>
builder == <<bpc, index, pv_offset_map, uv_offset_map, offset, full>>
reader  == <<rpc, maps, loaded, return_code>>
vars    == <<file, builder, reader, committed, overlap, dumps>>

-----------------------------------------------------------------------------
NoMap == [p \in {} |-> 0]
With(map, p, v) == [q \in DOMAIN map \cup {p} |-> IF q = p THEN v ELSE map[q]]
Without(map, p) == Restrict(map, DOMAIN map \ {p})

NoIndex == [pv |-> NoMap, uv |-> NoMap, merge |-> None]

Init == /\ pv_map = None /\ uv_map = None /\ merge_offset = None /\ data = <<>>
        /\ bpc = "idle" /\ index = None /\ full = FALSE
        /\ pv_offset_map = NoMap /\ uv_offset_map = NoMap /\ offset = 1
        /\ rpc = "idle" /\ maps = [pv |-> NoMap, uv |-> NoMap, merge |-> 0]
        /\ loaded = NoIndex /\ return_code = 0
        /\ committed = None /\ overlap = FALSE /\ dumps = 0

-----------------------------------------------------------------------------
(* Dump                                                                     *)

\* fopen "wb" and "wb+": the old index is gone.
Truncate == /\ bpc = "idle" /\ dumps < MaxDump
            /\ \E i \in Indexes : i.dump = dumps + 1 /\ index' = i
            /\ dumps' = dumps + 1
            /\ pv_map' = None /\ uv_map' = None /\ merge_offset' = None /\ data' = <<>>
            /\ pv_offset_map' = NoMap /\ uv_offset_map' = NoMap /\ offset' = 1
            /\ full' = FALSE
            /\ bpc' = "header"
            /\ committed' = None
            /\ overlap' = TRUE
            /\ UNCHANGED reader

\* Zeros over the whole header: two empty maps and the offset 0.
PlaceHolder == /\ bpc = "header"
               /\ IF full THEN UNCHANGED file
                  ELSE /\ pv_map' = NoMap /\ uv_map' = NoMap /\ merge_offset' = 0
                       /\ UNCHANGED data
               /\ bpc' = "bitmaps"
               /\ UNCHANGED <<index, pv_offset_map, uv_offset_map, offset, full, reader,
                              committed, overlap, dumps>>

\* Mutant of Write: the size of a block is counted twice.
WriteMiscounted(block) == /\ data' = IF full THEN data ELSE Append(data, block)
                          /\ offset' = offset + 2
                          /\ UNCHANGED <<pv_map, uv_map, merge_offset>>

\* A bitmap goes to the end of the file, if there is room on the disk; the builder
\* counts it in any case.
Write(block) == /\ data' = IF full THEN data ELSE Append(data, block)
                /\ offset' = offset + 1
                /\ UNCHANGED <<pv_map, uv_map, merge_offset>>

DumpPv(p) == /\ bpc = "bitmaps" /\ p \in index.pv \ DOMAIN pv_offset_map
             /\ Write(Block("pv", p, index))
             /\ pv_offset_map' = With(pv_offset_map, p, offset)
             /\ UNCHANGED <<bpc, index, uv_offset_map, full, reader, committed, overlap,
                            dumps>>

DumpUv(p) == /\ bpc = "bitmaps" /\ index.pv = DOMAIN pv_offset_map
             /\ p \in index.uv \ DOMAIN uv_offset_map
             /\ Write(Block("uv", p, index))
             /\ uv_offset_map' = With(uv_offset_map, p, offset)
             /\ UNCHANGED <<bpc, index, pv_offset_map, full, reader, committed, overlap,
                            dumps>>

\* Mutant of DumpMerge: its size is added to the offset like all the others.
DumpMergeCounted ==
  /\ bpc = "bitmaps"
  /\ index.pv = DOMAIN pv_offset_map /\ index.uv = DOMAIN uv_offset_map
  /\ Write(Block("merge", None, index))
  /\ bpc' = "pv_map"
  /\ UNCHANGED <<index, pv_offset_map, uv_offset_map, full, reader, committed, overlap, dumps>>

\* Its own offset is not counted on: it is the value that the header will have.
DumpMerge == /\ bpc = "bitmaps"
             /\ index.pv = DOMAIN pv_offset_map /\ index.uv = DOMAIN uv_offset_map
             /\ data' = IF full THEN data ELSE Append(data, Block("merge", None, index))
             /\ bpc' = "pv_map"
             /\ UNCHANGED <<pv_map, uv_map, merge_offset, index, pv_offset_map,
                            uv_offset_map, offset, full, reader, committed, overlap, dumps>>

\* The header is written over the place holder, which needs no new room; where
\* there is none, the write comes to nothing.
WritePvMap == /\ bpc = "pv_map"
              /\ pv_map' = IF pv_map = None THEN None ELSE pv_offset_map
              /\ bpc' = "uv_map"
              /\ UNCHANGED <<uv_map, merge_offset, data, index, pv_offset_map, uv_offset_map,
                             offset, full, reader, committed, overlap, dumps>>

WriteUvMap == /\ bpc = "uv_map"
              /\ uv_map' = IF uv_map = None THEN None ELSE uv_offset_map
              /\ bpc' = "offset"
              /\ UNCHANGED <<pv_map, merge_offset, data, index, pv_offset_map, uv_offset_map,
                             offset, full, reader, committed, overlap, dumps>>

\* The last write is what makes the file an index.
WriteOffset == /\ bpc = "offset"
               /\ merge_offset' = IF merge_offset = None THEN None ELSE offset
               /\ bpc' = "idle"
               /\ committed' = IF full THEN None ELSE index
               /\ UNCHANGED <<pv_map, uv_map, data, index, pv_offset_map, uv_offset_map,
                              offset, full, reader, overlap, dumps>>

\* The builder is killed, or the second fopen fails.
Kill == /\ bpc # "idle"
        /\ bpc' = "idle"
        /\ UNCHANGED <<file, index, pv_offset_map, uv_offset_map, offset, full, reader,
                       committed, overlap, dumps>>

DiskFull == /\ bpc \in {"header", "bitmaps"} /\ ~full
            /\ full' = TRUE
            /\ UNCHANGED <<file, bpc, index, pv_offset_map, uv_offset_map, offset, reader,
                           committed, overlap, dumps>>

Builder == \/ Truncate \/ PlaceHolder \/ DumpMerge \/ WritePvMap \/ WriteUvMap \/ WriteOffset
           \/ \E p \in Psids : DumpPv(p) \/ DumpUv(p)
           \/ Kill \/ DiskFull

-----------------------------------------------------------------------------
(* Load                                                                     *)

Return(code) == rpc' = "done" /\ return_code' = code

\* Mutant of LoadBegin: Load does not clear what the buffer holds.
LoadBeginUncleared == /\ rpc \in {"idle", "done"}
                      /\ maps' = [pv |-> NoMap, uv |-> NoMap, merge |-> 0]
                      /\ rpc' = "pv_map" /\ return_code' = 0
                      /\ overlap' = (bpc # "idle")
                      /\ UNCHANGED <<file, builder, loaded, committed, dumps>>

LoadBegin == /\ rpc \in {"idle", "done"}
             /\ loaded' = NoIndex
             /\ maps' = [pv |-> NoMap, uv |-> NoMap, merge |-> 0]
             /\ rpc' = "pv_map" /\ return_code' = 0
             /\ overlap' = (bpc # "idle")
             /\ UNCHANGED <<file, builder, committed, dumps>>

ReadPvMap == /\ rpc = "pv_map"
             /\ \/ pv_map = None /\ Return(-2) /\ UNCHANGED maps
                \/ /\ pv_map # None
                   /\ maps' = [maps EXCEPT !.pv = pv_map]
                   /\ rpc' = "uv_map" /\ UNCHANGED return_code
             /\ UNCHANGED <<file, builder, loaded, committed, overlap, dumps>>

ReadUvMap == /\ rpc = "uv_map"
             /\ \/ uv_map = None /\ Return(-2) /\ UNCHANGED maps
                \/ /\ uv_map # None
                   /\ maps' = [maps EXCEPT !.uv = uv_map]
                   /\ rpc' = "offset" /\ UNCHANGED return_code
             /\ UNCHANGED <<file, builder, loaded, committed, overlap, dumps>>

ReadOffset == /\ rpc = "offset"
              /\ \/ merge_offset = None /\ Return(-4) /\ UNCHANGED maps
                 \/ /\ merge_offset # None
                    /\ maps' = [maps EXCEPT !.merge = merge_offset]
                    /\ rpc' = "bitmaps" /\ UNCHANGED return_code
              /\ UNCHANGED <<file, builder, loaded, committed, overlap, dumps>>

\* What Load of a bitmap of this kind can return at an offset, None if an error:
\* nothing where there is no block (at 0 there is the header, whose words do not
\* make a bitmap), anything where there is one of another kind.  A bitmap without
\* rows is written and not read: fread of no bytes returns 0, as if it had failed.
LoadBlock(kind, at) == IF at \notin 1..Len(data) THEN {None}
                       ELSE IF data[at].kind # kind THEN {None, Garbage}
                       ELSE IF data[at].rows THEN {data[at]} ELSE {None}

\* A bitmap that cannot be loaded is left out with a warning.
LoadPv(p) ==
  /\ rpc = "bitmaps" /\ p \in DOMAIN maps.pv
  /\ \E b \in LoadBlock("pv", maps.pv[p]) :
       loaded' = IF b = None THEN loaded ELSE [loaded EXCEPT !.pv = With(loaded.pv, p, b)]
  /\ maps' = [maps EXCEPT !.pv = Without(maps.pv, p)]
  /\ UNCHANGED <<file, builder, rpc, return_code, committed, overlap, dumps>>

LoadUv(p) ==
  /\ rpc = "bitmaps" /\ maps.pv = NoMap /\ p \in DOMAIN maps.uv
  /\ \E b \in LoadBlock("uv", maps.uv[p]) :
       loaded' = IF b = None THEN loaded ELSE [loaded EXCEPT !.uv = With(loaded.uv, p, b)]
  /\ maps' = [maps EXCEPT !.uv = Without(maps.uv, p)]
  /\ UNCHANGED <<file, builder, rpc, return_code, committed, overlap, dumps>>

\* The merge bitmap must load.
LoadMerge == /\ rpc = "bitmaps" /\ maps.pv = NoMap /\ maps.uv = NoMap
             /\ \E b \in LoadBlock("merge", maps.merge) :
                  /\ loaded' = [loaded EXCEPT !.merge = b]
                  /\ Return(IF b = None THEN -6 ELSE 0)
             /\ UNCHANGED <<file, builder, maps, committed, overlap, dumps>>

Reader == \/ LoadBegin \/ ReadPvMap \/ ReadUvMap \/ ReadOffset \/ LoadMerge
          \/ \E p \in Psids : LoadPv(p) \/ LoadUv(p)

Next == Builder \/ Reader

Spec == Init /\ [][Next]_vars
-----------------------------------------------------------------------------
(* Properties *)

Offsets == [pv : OffsetMaps, uv : OffsetMaps, merge : 0..Most]

\* The types of the variables; no offset points behind the largest index.
TypeOK ==
  /\ pv_map \in OffsetMaps \cup {None} /\ uv_map \in OffsetMaps \cup {None}
  /\ merge_offset \in 0..Most \cup {None} /\ data \in Seq(Blocks) /\ Len(data) <= Most
  /\ bpc \in {"idle", "header", "bitmaps", "pv_map", "uv_map", "offset"}
  /\ index \in Indexes \cup {None} /\ committed \in Indexes \cup {None}
  /\ [pv |-> pv_offset_map, uv |-> uv_offset_map, merge |-> offset] \in Offsets
  /\ full \in BOOLEAN /\ overlap \in BOOLEAN /\ dumps \in 0..MaxDump
  /\ rpc \in {"idle", "pv_map", "uv_map", "offset", "bitmaps", "done"}
  /\ maps \in Offsets
  /\ DOMAIN loaded.pv \subseteq Psids /\ DOMAIN loaded.uv \subseteq Psids
  /\ loaded \in [pv : [DOMAIN loaded.pv -> Blocks \cup {Garbage}],
                  uv : [DOMAIN loaded.uv -> Blocks \cup {Garbage}],
                  merge : Blocks \cup {Garbage, None}]
  /\ return_code \in {0, -2, -4, -6}

\* The index in memory that an index in the builder should become: the same, without
\* the bitmaps that have no row, which Load skips with a warning.
Readable(i, ps) == IF i.targets THEN ps ELSE {}

Image(i) == [pv    |-> [p \in Readable(i, i.pv) |-> Block("pv", p, i)],
             uv    |-> [p \in Readable(i, i.uv) |-> Block("uv", p, i)],
             merge |-> Block("merge", None, i)]

Loaded == rpc = "done" /\ return_code = 0

\* The header written last makes a dump atomic: unless a dump runs at the same time,
\* Load accepts nothing but a file that was written to its end, be the dump cut
\* off by a kill or by a full disk wherever it may, and what is then in memory is
\* the index that the builder had: every bitmap with a row at its own position, none
\* left over, none missing.
OnlyWholeIndexLoads ==
  Loaded /\ ~overlap => committed # None /\ loaded = Image(committed)

\* Service and builder, which compute the offsets independently, agree on all of them:
\* of the files that Dump has finished, Load refuses those whose merge bitmap has no
\* row (-6, bitmap.hpp:99-102), always, and no other.
OnlyUserlessRefused ==
  rpc = "done" /\ committed # None /\ ~overlap =>
    return_code = IF committed.users THEN 0 ELSE -6
=============================================================================
