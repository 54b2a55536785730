----------------------------- MODULE TargetMap -----------------------------
(***************************************************************************)
(* The dictionary of targets: targeting.conf gives each target the name it *)
(* has in the offline logs, the name it has in queries, and the row of the *)
(* bitmaps that stands for it.  The builder and the service each read it   *)
(* once, when they start.                                                  *)
(***************************************************************************)
EXTENDS Integers, Sequences, SequencesExt, FiniteSets

NoRow == -1   \* what a query returns for a name that is not in the dictionary

\* A line with too few fields, the empty one at the end of the file for one.
ShortLine == [ok |-> FALSE]
ConfLine(offline, online, row) ==
  [ok |-> TRUE, offline |-> offline, online |-> online, row |-> row]

\* unordered_map without entries.
NoEntries      == [name \in {} |-> NoRow]
EmptyTargetMap == [offline |-> NoEntries, online |-> NoEntries]

\* The names of the lines with enough fields; the last line with a name has its row.
Load(lines) ==
  LET good    == {i \in DOMAIN lines : lines[i].ok}
      Row(at) == lines[Max(at)].row
  IN [offline |-> [n \in {lines[i].offline : i \in good} |-> Row({i \in good : lines[i].offline = n})],
      online  |-> [n \in {lines[i].online : i \in good} |-> Row({i \in good : lines[i].online = n})]]

\* Mutant of Lookup: a name that is not there gets the row 0.
LookupZero(dict, name) == IF name \in DOMAIN dict THEN dict[name] ELSE 0

Lookup(dict, name) == IF name \in DOMAIN dict THEN dict[name] ELSE NoRow
QueryOnline(map, name)  == Lookup(map.online, name)
QueryOffline(map, name) == Lookup(map.offline, name)

\* The height of every bitmap that the builder makes: the number of offline names.
GetSize(map) == Cardinality(DOMAIN map.offline)
=============================================================================
