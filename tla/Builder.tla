------------------------------ MODULE Builder ------------------------------
(***************************************************************************)
(* The offline builder: it reads the dictionary of targets, joins the      *)
(* samples of page views and of users with the figures of their positions, *)
(* numbers the positions of the merge file, and dumps the index.           *)
(*                                                                         *)
(* Files are read line by line; what the next line is, is chosen when it   *)
(* is read.  A name, a position or a figure is one value.                  *)
(***************************************************************************)
EXTENDS TargetMap

CONSTANTS Psids,        \* ad positions
          Confs,        \* targeting.conf: sequences of its lines
          InfoLines, SampleLines, MergeLines,   \* the lines of the other files
          MaxInfos, MaxSamples,   \* bound: lines of an info and a sample file, by kind
          MaxMerge,     \* bound: lines of the merge file
          None          \* no bitmap, no position yet, the index file of an earlier build

Kinds == {"pv", "uv"}

MaxBid == 65535   \* 0xFFFF

\* A bitmap has a height, for each sample a column and a bid, and the figures of its position.
Figures    == {line.figures : line \in {l \in InfoLines : l.ok}}
AllBitmaps == [height : Nat, cols : Seq(SUBSET Nat), bids : Seq(0..MaxBid), figures : Figures]

ASSUME BuilderAssumption ==
         /\ MaxInfos \in [Kinds -> Nat] /\ MaxSamples \in [Kinds -> Nat] /\ MaxMerge \in Nat
         /\ None \notin Psids \cup AllBitmaps
         /\ \A conf \in Confs : /\ conf \in Seq(ToSet(conf))
                               /\ \A line \in ToSet(conf) : line.ok => line.row \in Int
         /\ \A line \in InfoLines   : line.ok => line.psid \in Psids
         /\ \A line \in SampleLines : line.ok => line.psid \in Psids /\ line.bid \in Int
         /\ \A line \in MergeLines  : line.ok => line.list \in Seq(Psids)

VARIABLES
  pc,          \* "conf", "open", "infos", "samples", "built", "merge", "dump", "done"
  kind,        \* which sample file is being processed
  map,         \* the dictionary
  infos,       \* the figures by position
  last_psid, targets, bids,   \* the samples since the position changed
  psids,       \* the lists of positions in the merge file
  index,       \* Index: bitmaps by kind and position, and the merge bitmap
  file,        \* the index file
  lines,       \* how many lines of the current file were read
  informed, sampled   \* history: the good lines of the two files of this kind

reading == <<infos, last_psid, targets, bids, informed, sampled>>
vars    == <<pc, kind, map, reading, psids, index, file, lines>>

NoBitmaps == [p \in Psids |-> None]

Init == /\ pc = "conf" /\ kind = "pv" /\ map = EmptyTargetMap
        /\ infos = NoEntries /\ last_psid = None /\ targets = <<>> /\ bids = <<>>
        /\ psids = <<>> /\ index = [pv |-> NoBitmaps, uv |-> NoBitmaps, merge |-> None]
        /\ file = None /\ lines = 0
        /\ informed = <<>> /\ sampled = <<>>

\* unordered_map::insert keeps the entry that is there.
Inserted(dict, key, value) ==
  [k \in DOMAIN dict \cup {key} |-> IF k \in DOMAIN dict THEN dict[k] ELSE value]

-----------------------------------------------------------------------------
(* Lines                                                                   *)

\* A line of an info file: its position, whether each of the hourly figures has 24
\* values (only those of page views have any), and a name for the figures.
InfoLine(psid, hourly, figures) ==
  [ok |-> TRUE, psid |-> psid, hourly |-> hourly, figures |-> figures]

\* A line of a sample file.  The names stand in four fields, the regions in a fifth,
\* where codes of REGION_LENGTH characters may follow each other without a comma.
SampleLine(psid, names, region, bid) ==
  [ok |-> TRUE, psid |-> psid, names |-> names, region |-> region, bid |-> bid]

\* Every code of every item.
ProcessRegion(region) == UNION {ToSet(item) : item \in ToSet(region)}

\* A bid is capped; below 0 the conversion to 16 bits wraps.
ToBid(num) == IF num > MaxBid THEN MaxBid ELSE num % (MaxBid + 1)

\* The rows of the targets of a sample, without those below 0: names that are not in the
\* dictionary have none.
Rows(line) == {QueryOffline(map, name) :
                 name \in ToSet(line.names) \cup ProcessRegion(line.region)} \cap Nat

-----------------------------------------------------------------------------
(* Bitmaps                                                                 *)

\* Mutant of InBounds: off by one.
InBoundsClosed(cols, height) == \A i \in DOMAIN cols : \A row \in cols[i] : row <= height

\* Bitmap::Generate and BidBitmap::Generate: a column for each sample, unless one
\* has a row beyond the height.
InBounds(cols, height) == \A i \in DOMAIN cols : \A row \in cols[i] : row < height
Generated(k, cols, bid, info, height) ==
  IF /\ InBounds(cols, height)
     /\ Len(bid) = Len(cols)
     /\ k = "pv" => info.hourly
  THEN [height |-> height, cols |-> cols, bids |-> bid, figures |-> info.figures]
  ELSE None

\* AddPvBidBitmap, AddUvBidBitmap: the first bitmap of a position stays.  One that
\* cannot be generated leaves a NULL entry, which is as good as none.
Add(k, psid, bitmap) ==
  IF index[k][psid] # None THEN index ELSE [index EXCEPT ![k][psid] = bitmap]

\* Mutant of Flushed: the figures of the new position are taken.
FlushedNext(psid) ==
  IF targets = <<>> \/ psid \notin DOMAIN infos THEN index
  ELSE Add(kind, last_psid, Generated(kind, targets, bids, infos[psid], GetSize(map)))

\* What is collected under last_psid goes into the index, if there is an info.
Flushed(psid) ==
  IF targets = <<>> \/ last_psid \notin DOMAIN infos THEN index
  ELSE Add(kind, last_psid,
           Generated(kind, targets, bids, infos[last_psid], GetSize(map)))

\* UvMergeBitmap::Generate numbers the positions as they appear, user by user.
Number(dict, psid)    == Inserted(dict, psid, Cardinality(DOMAIN dict))
NumberAll(dict, list) == FoldLeft(Number, dict, list)
Numbered(lists)       == FoldLeft(NumberAll, NoEntries, lists)

\* Mutant of Merged: the column is not cleared between two users.
MergedUncleared(lists) ==
  LET dict == Numbered(lists)
      cols == [i \in DOMAIN lists |-> {dict[p] : p \in UNION {ToSet(lists[j]) : j \in 1..i}}]
  IN [psid_dict |-> dict, cols |-> cols,
      sample_uv |-> [row \in 0..Cardinality(DOMAIN dict) - 1 |->
                       Cardinality({i \in DOMAIN cols : row \in cols[i]})]]

\* A column for each user: the positions that the user saw.
Merged(lists) ==
  LET dict == Numbered(lists)
      cols == [i \in DOMAIN lists |-> {dict[p] : p \in ToSet(lists[i])}]
  IN [psid_dict |-> dict, cols |-> cols,
      sample_uv |-> [row \in 0..Cardinality(DOMAIN dict) - 1 |->
                       Cardinality({i \in DOMAIN cols : row \in cols[i]})]]

-----------------------------------------------------------------------------
(* main                                                                    *)

\* Without a dictionary the builder exits.
LoadTargetMap == /\ pc = "conf"
                 /\ \/ \E conf \in Confs : map' = Load(conf) /\ pc' = "open"
                    \/ pc' = "done" /\ UNCHANGED map
                 /\ UNCHANGED <<kind, reading, psids, index, file, lines>>

\* One of the two files may be missing.
Open == /\ pc = "open"
        /\ pc' = "infos" \/ pc' = "built"
        /\ UNCHANGED <<kind, map, reading, psids, index, file, lines>>

\* infos.insert keeps the first info of a position.
ReadInfo == /\ pc = "infos" /\ lines < MaxInfos[kind]
            /\ \E line \in InfoLines :
                 IF line.ok THEN /\ infos' = Inserted(infos, line.psid, line)
                                 /\ informed' = Append(informed, line)
                            ELSE UNCHANGED <<infos, informed>>
            /\ lines' = lines + 1
            /\ UNCHANGED <<pc, kind, map, psids, index, file, last_psid, targets, bids,
                           sampled>>

InfosEnd == /\ pc = "infos"
            /\ pc' = "samples" /\ lines' = 0
            /\ UNCHANGED <<kind, map, reading, psids, index, file>>

\* Another position: what was collected goes into the index.
ReadSample == /\ pc = "samples" /\ lines < MaxSamples[kind]
              /\ \E line \in SampleLines :
                   IF ~line.ok THEN UNCHANGED <<reading, index>>
                   ELSE LET same == line.psid = last_psid
                        IN /\ index' = IF same THEN index ELSE Flushed(line.psid)
                           /\ targets' = Append(IF same THEN targets ELSE <<>>, Rows(line))
                           /\ bids' = Append(IF same THEN bids ELSE <<>>, ToBid(line.bid))
                           /\ last_psid' = line.psid
                           /\ sampled' = Append(sampled, line)
                           /\ UNCHANGED <<infos, informed>>
              /\ lines' = lines + 1
              /\ UNCHANGED <<pc, kind, map, psids, file>>

\* The last position of the file.
SamplesEnd == /\ pc = "samples"
              /\ index' = Flushed(last_psid)
              /\ pc' = "built"
              /\ UNCHANGED <<kind, map, reading, psids, file, lines>>

\* ProcessPvMap or ProcessUvMap returns, and its variables are gone.  The results of
\* the two are not looked at.
Return == /\ pc = "built"
          /\ IF kind = "pv" THEN kind' = "uv" /\ pc' = "open"
                            ELSE kind' = kind /\ pc' = "merge"
          /\ infos' = NoEntries /\ last_psid' = None /\ targets' = <<>> /\ bids' = <<>>
          /\ informed' = <<>> /\ sampled' = <<>>
          /\ lines' = 0
          /\ UNCHANGED <<map, psids, index, file>>

\* ProcessUvMergeMap: a line with too few fields is skipped.
ReadMerge == /\ pc = "merge" /\ lines < MaxMerge
             /\ \E line \in MergeLines :
                  psids' = IF line.ok THEN Append(psids, line.list) ELSE psids
             /\ lines' = lines + 1
             /\ UNCHANGED <<pc, kind, map, reading, index, file>>

\* Or the file is missing, and there is no merge bitmap.
MergeEnd == /\ pc = "merge"
            /\ \/ index' = [index EXCEPT !.merge = Merged(psids)]
               \/ lines = 0 /\ UNCHANGED index
            /\ pc' = "dump" /\ lines' = 0
            /\ UNCHANGED <<kind, map, reading, psids, file>>

\* Index::Dump, which returns before it opens the file if there is no merge bitmap.
Dump == /\ pc = "dump"
        /\ file' = IF index.merge = None THEN file ELSE index
        /\ pc' = "done"
        /\ UNCHANGED <<kind, map, reading, psids, index, lines>>

Done == pc = "done" /\ UNCHANGED vars

Next == \/ LoadTargetMap \/ Open \/ ReadInfo \/ InfosEnd \/ ReadSample \/ SamplesEnd
        \/ Return \/ ReadMerge \/ MergeEnd \/ Dump \/ Done

Spec == Init /\ [][Next]_vars

-----------------------------------------------------------------------------
(* Properties                                                              *)

Bitmaps(k) == {index[k][p] : p \in Psids} \ {None}

\* Every variable has the type it has in the code: in every bitmap a column and a bid
\* of 16 bits for each sample, and no row beyond the height.
TypeOK ==
  /\ pc \in {"conf", "open", "infos", "samples", "built", "merge", "dump", "done"}
  /\ kind \in Kinds
  /\ DOMAIN infos \subseteq Psids /\ last_psid \in Psids \cup {None}
  /\ targets \in Seq(SUBSET Nat) /\ bids \in Seq(0..MaxBid) /\ Len(targets) = Len(bids)
  /\ \A k \in Kinds : /\ index[k] \in [Psids -> AllBitmaps \cup {None}]
                      /\ \A b \in Bitmaps(k) :
                           /\ Len(b.bids) = Len(b.cols)
                           /\ \A i \in DOMAIN b.cols : b.cols[i] \subseteq 0..b.height - 1

\* What a sample says, without the builder's ways of reading it.
Carries(line, name) == \/ \E i \in DOMAIN line.names : line.names[i] = name
                       \/ \E i \in DOMAIN line.region :
                            \E j \in DOMAIN line.region[i] : line.region[i][j] = name

\* A run of a position in the sample file: all its samples from the i-th on, up to the
\* next sample of another position.
RunStarts(psid) == {i \in DOMAIN sampled :
                      sampled[i].psid = psid /\ (i = 1 \/ sampled[i - 1].psid # psid)}
Run(i) == LET ends == {j \in i..Len(sampled) :
                         \A m \in i..j : sampled[m].psid = sampled[i].psid}
          IN SubSeq(sampled, i, i + Cardinality(ends) - 1)

FirstInfo(psid) ==
  informed[CHOOSE i \in DOMAIN informed :
             /\ informed[i].psid = psid
             /\ \A j \in 1..i - 1 : informed[j].psid # psid]

\* A run can be stored if its position has figures and every target a row.
Storable(i) == /\ \E info \in ToSet(informed) : info.psid = sampled[i].psid
               /\ kind = "pv" => FirstInfo(sampled[i].psid).hourly
               /\ \A line \in ToSet(Run(i)), name \in DOMAIN map.offline :
                    Carries(line, name) => map.offline[name] < GetSize(map)

Stores(bitmap, run) ==
  /\ Len(bitmap.cols) = Len(run) /\ Len(bitmap.bids) = Len(run)
  /\ bitmap.figures = FirstInfo(run[1].psid).figures
  /\ \A i \in DOMAIN run :
       /\ bitmap.cols[i] = {map.offline[name] :
                              name \in {n \in DOMAIN map.offline : Carries(run[i], n)}} \cap Nat
       /\ run[i].bid \in 0..MaxBid => bitmap.bids[i] = run[i].bid
       /\ run[i].bid > MaxBid => bitmap.bids[i] = MaxBid

\* What builder.cc:137-261 builds: the bitmap of a position has the samples of its first
\* run that can be stored, all of them and in their order, with their targets and bids
\* and the first figures of this position, and there is none if no run can be stored.
\* In a file that is sorted by position this is every sample of the position; no sample
\* or figure of another position gets in, in whatever order the file is.
BuiltFromFirstRun ==
  pc = "built" =>
    \A psid \in Psids :
      LET starts == {i \in RunStarts(psid) : Storable(i)}
      IN IF starts = {} THEN index[kind][psid] = None
         ELSE /\ index[kind][psid] # None
              /\ \E i \in starts : /\ \A j \in starts : i <= j
                                    /\ Stores(index[kind][psid], Run(i))

\* A dictionary as the two programs expect it.
Whole(conf) == LET good == {i \in DOMAIN conf : conf[i].ok}
               IN /\ \A i, j \in good : i # j => /\ conf[i].offline # conf[j].offline
                                                 /\ conf[i].online # conf[j].online
                  /\ {conf[i].row : i \in good} = 0..Cardinality(good) - 1

\* The bitmaps are built from offline names and asked with online ones: what a query
\* finds under a name are the samples with the offline name on the same line of the
\* dictionary, no others, and the row it reads is inside every bitmap.  This is what
\* Or (bitmap.hpp) relies on, which does not check its rows.
QueriesFindSamples ==
  pc = "built" =>
    \A conf \in Confs : Whole(conf) /\ map = Load(conf) =>
      \A line \in {l \in ToSet(conf) : l.ok}, psid \in Psids :
        LET bitmap == index[kind][psid]
            row    == QueryOnline(map, line.online)
        IN bitmap # None =>
             /\ row \in 0..bitmap.height - 1
             /\ \E i \in RunStarts(psid) :
                  /\ Len(Run(i)) = Len(bitmap.cols)
                  /\ {s \in DOMAIN bitmap.cols : row \in bitmap.cols[s]} =
                       {s \in DOMAIN Run(i) : Carries(Run(i)[s], line.offline)}

\* The merge bitmap (uv_merge_bitmap.cc:7-34) knows every position that some user saw,
\* and no other; the row of a position has the users who saw it, however often their
\* lines name it, and sample_uv counts them.
MergeFindsUsers ==
  pc \in {"dump", "done"} /\ index.merge # None =>
    LET merge == index.merge
        Users(psid) == {i \in DOMAIN psids : psid \in ToSet(psids[i])}
    IN /\ \A psid \in Psids : (psid \in DOMAIN merge.psid_dict) = (Users(psid) # {})
       /\ \A psid \in DOMAIN merge.psid_dict :
            LET row == merge.psid_dict[psid]
            IN /\ {i \in DOMAIN merge.cols : row \in merge.cols[i]} = Users(psid)
               /\ merge.sample_uv[row] = Cardinality(Users(psid))
=============================================================================
