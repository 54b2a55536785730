-------------------------- MODULE RequestHandler --------------------------
(***************************************************************************)
(* RequestHandler::Process: how one handler, which lives as long as its    *)
(* worker thread, answers query after query.                               *)
(*                                                                         *)
(* The sums are doubles in the code.  What matters here is what was added  *)
(* to which of them: a sum is the sequence of its terms, and a term says   *)
(* of which bitmap and of which query it is and under which targeting the  *)
(* bitmap was counted.  Queries come as JSON and are parsed first.         *)
(***************************************************************************)
EXTENDS QueryParser, TargetMap

CONSTANTS Conf,          \* targeting.conf: its lines
          Inputs,        \* <<query, memory>>: what may meet in Process
          None           \* no query

\* Of an orientation.
Separators == {",", ":", "|"}

\* The parts of the index and of the parameters that decide where a term goes.
Memory(m) == /\ DOMAIN m = {"pv", "uv", "merge", "uv_use_delta"}
             /\ m.uv_use_delta \in BOOLEAN

\* Of the queries that can be answered, texts in tokens.  Of targeting.conf, that it gives
\* no online name twice and none is empty, as in the file of the repository.
ASSUME RequestHandlerAssumption ==
         /\ \A in \in Inputs :
              /\ Memory(in[2]) /\ in[1] # None
              /\ Code(in[1]) = 0 => /\ Tokenized(in[1].adposIdList.text, {","})
                                    /\ Tokenized(in[1].orientation.text, Separators)
                                    /\ in[1].launchTime.text \in Seq(STRING)
         /\ Conf \in Seq(ToSet(Conf))
         /\ \A l \in DOMAIN Conf :
              Conf[l].ok => /\ Conf[l].row \in Int /\ Conf[l].online # ""
                            /\ \A m \in DOMAIN Conf :
                                 Conf[m].ok /\ Conf[m].online = Conf[l].online => m = l

VARIABLES
  pc,            \* "idle", "encode", "merge", "pv", "uv", "calculate"
  query, qd,     \* the query, as it came and as it was parsed
  memory,        \* the index and the parameters it works on
  code,          \* the error code of the last answer, 0 if it has figures
  turn,          \* which query that is, modulo 2: 1 or 2
  i,             \* the next position of the query
  targetings,    \* targetings_
  pv_sum, uv_sum, weights,   \* pv_sum_, uv_sum_, the three weighted sums
  merged         \* the positions whose users uv_merge_rate_ relates, in order

input == <<query, qd, memory, code, turn>>
sums  == <<pv_sum, uv_sum, weights>>
vars  == <<pc, input, i, targetings, sums, merged>>

-----------------------------------------------------------------------------
NoMemory == [pv |-> {}, uv |-> {}, merge |-> {}, uv_use_delta |-> FALSE]

\* Every input with what the parser makes of it.
Offers    == {[query |-> in[1], memory |-> in[2], parsed |-> Parse(in[1])] : in \in Inputs}
Targeting == Load(Conf)

Init == /\ pc = "idle" /\ code = 0 /\ turn = 1 /\ i = 1
        /\ query = None /\ qd = None /\ memory = NoMemory
        /\ targetings = <<>> /\ merged = <<>>
        /\ pv_sum = <<>> /\ uv_sum = <<>> /\ weights = <<>>

\* Mutant of Clear: the targeting of the last query stays.
ClearSums == /\ pv_sum' = <<>> /\ uv_sum' = <<>> /\ weights' = <<>> /\ merged' = <<>>
             /\ UNCHANGED targetings

\* Every member that a query leaves behind.
Clear == /\ targetings' = <<>> /\ merged' = <<>>
         /\ pv_sum' = <<>> /\ uv_sum' = <<>> /\ weights' = <<>>

\* begin_request parses the query; if it cannot, it answers with the error, and the
\* handler's members stay as they are.
Refuse == /\ pc = "idle"
          /\ \E offer \in Offers : offer.parsed.code # 0 /\ code' = offer.parsed.code
          /\ UNCHANGED <<pc, query, qd, memory, turn, i, targetings, sums, merged>>

Process == /\ pc = "idle"
           /\ \E offer \in Offers :
                /\ offer.parsed.code = 0
                /\ query' = offer.query /\ qd' = offer.parsed.data
                /\ memory' = offer.memory
           /\ turn' = 3 - turn /\ code' = 0
           /\ Clear
           /\ i' = 1
           /\ pc' = "encode"

\* A target that is not in the dictionary is left out, and so is a group without any.
EncodeTargeting ==
  /\ pc = "encode"
  /\ LET rows == [g \in DOMAIN qd.targetings |->
                   [t \in DOMAIN qd.targetings[g] |->
                      QueryOnline(Targeting, qd.targetings[g][t])]]
         known == [g \in DOMAIN rows |-> Kept(rows[g], Nat)]
     IN targetings' = targetings \o Kept(known, ToSet(known) \ {<<>>})
  /\ pc' = "merge"
  /\ UNCHANGED <<input, i, sums, merged>>

\* Positions that the merge bitmap does not know take no part in the rate.
GetUvMergeRate == /\ pc = "merge"
                  /\ merged' = Kept(qd.psids, memory.merge)
                  /\ pc' = "pv"
                  /\ UNCHANGED <<input, i, targetings, sums>>

Term(of, p) == [of |-> of, psid |-> p, turn |-> turn, targetings |-> targetings]

\* GetTarget, Count and Accumulate of a pv bitmap, if there is one.
AccumulatePv == /\ pc = "pv" /\ i <= Len(qd.psids)
                /\ LET p == qd.psids[i]
                       add == IF p \in memory.pv THEN <<Term("pv", p)>> ELSE <<>>
                   IN pv_sum' = pv_sum \o add /\ weights' = weights \o add
                /\ pc' = "uv"
                /\ UNCHANGED <<input, i, targetings, uv_sum, merged>>

\* Mutant of AccumulateUv: the next position is skipped if this one has no uv bitmap.
AccumulateUvSkip ==
  /\ pc = "uv"
  /\ LET p == qd.psids[i]
     IN IF p \notin memory.uv THEN i' = i + 2 /\ UNCHANGED <<pv_sum, uv_sum>>
        ELSE /\ i' = i + 1
             /\ IF memory.uv_use_delta
                THEN uv_sum' = Append(uv_sum, Term("uv", p)) /\ UNCHANGED pv_sum
                ELSE pv_sum' = Append(pv_sum, Term("uv", p)) /\ UNCHANGED uv_sum
  /\ pc' = "pv"
  /\ UNCHANGED <<input, targetings, weights, merged>>

\* The same of a uv bitmap.  Without uv_use_delta it is pv_sum_ that grows.
AccumulateUv == /\ pc = "uv"
                /\ LET p == qd.psids[i]
                       add == IF p \in memory.uv THEN <<Term("uv", p)>> ELSE <<>>
                   IN IF memory.uv_use_delta
                      THEN uv_sum' = uv_sum \o add /\ UNCHANGED pv_sum
                      ELSE pv_sum' = pv_sum \o add /\ UNCHANGED uv_sum
                /\ i' = i + 1
                /\ pc' = "pv"
                /\ UNCHANGED <<input, targetings, weights, merged>>

LoopDone == /\ pc = "pv" /\ i > Len(qd.psids)
            /\ pc' = "calculate"
            /\ UNCHANGED <<input, i, targetings, sums, merged>>

\* The figures are computed from the sums and written out as JSON.
Calculate == /\ pc = "calculate"
             /\ pc' = "idle"
             /\ query' = None /\ qd' = None /\ memory' = NoMemory /\ i' = 1
             /\ UNCHANGED <<code, turn, targetings, sums, merged>>

Next == \/ Refuse \/ Process \/ EncodeTargeting \/ GetUvMergeRate
        \/ AccumulatePv \/ AccumulateUv \/ LoopDone \/ Calculate

Spec == Init /\ [][Next]_vars

-----------------------------------------------------------------------------
(* Properties *)

\* Every variable has the type it has in the code; a code is one of ErrMsg, and no
\* group is empty.
TypeOK ==
  /\ pc \in {"idle", "encode", "merge", "pv", "uv", "calculate"}
  /\ pc = "idle" <=> query = None
  /\ code \in 0..12 /\ turn \in {1, 2}
  /\ i \in Nat
  /\ pc \in {"pv", "uv"} => i \in 1..Len(qd.psids) + 1
  /\ \A g \in DOMAIN targetings :
       targetings[g] # <<>> /\ ToSet(targetings[g]) \subseteq Nat

\* What a query asks for, read off its texts without splitting them.  A word stands in
\* the group after as many bars as are before it, and in the field after as many colons
\* as are between it and the last of these bars.
GroupAt(text, k) == Cardinality({j \in 1..k - 1 : text[j] = "|"})
FieldAt(text, k) == Cardinality({j \in 1..k - 1 : /\ text[j] = ":"
                                                 /\ GroupAt(text, j) = GroupAt(text, k)})
Asked(text, g) ==
  LET named == \E j \in DOMAIN text : text[j] = ":" /\ GroupAt(text, j) = g
  IN {text[k] : k \in {j \in DOMAIN text : /\ text[j] \notin Separators
                                           /\ GroupAt(text, j) = g
                                           /\ FieldAt(text, j) = IF named THEN 1 ELSE 0}}
AskedHours(text) == {HourName(j - 1) : j \in {k \in DOMAIN text : text[k] = "1"}}
RowsOf(names)    == {line.row : line \in {l \in ToSet(Conf) : l.ok /\ l.online \in names}} \cap Nat

\* The conditions of a query that name any target of the dictionary.
Conditions(q) ==
  LET text == q.orientation.text
  IN ({RowsOf(Asked(text, g)) : g \in 0..Len(text)}
        \cup {RowsOf(AskedHours(q.launchTime.text))}) \ {{}}

Of(kind, sum)   == Kept(sum, {term \in ToSet(sum) : term.of = kind})
PsidsOf(sum)    == [k \in 1..Len(sum) |-> sum[k].psid]
Found(q, set)   == Kept(q.adposIdList.text, set \ {","})

\* Every position in the text of adposIdList is counted, as often as the text has it: in
\* pv_sum_ and in the weights if there is a bitmap of page views, in the merge rate if the
\* merge bitmap has it.  If there is a bitmap of users it counts with uv_use_delta in
\* uv_sum_, and pv_sum_ has page views only, as request_handler.h:82-83 says of the two.
\* Without uv_use_delta the users are added to pv_sum_ (request_handler.cc:207), against
\* that comment, and uv_sum_ stays 0.
EveryPositionCounts ==
  pc = "calculate" =>
    /\ PsidsOf(Of("pv", pv_sum)) = Found(query, memory.pv)
    /\ PsidsOf(weights) = Found(query, memory.pv)
    /\ merged = Found(query, memory.merge)
    /\ memory.uv_use_delta  => /\ PsidsOf(Of("uv", uv_sum)) = Found(query, memory.uv)
                               /\ Of("uv", pv_sum) = <<>>
    /\ ~memory.uv_use_delta => /\ PsidsOf(Of("uv", pv_sum)) = Found(query, memory.uv)
                               /\ uv_sum = <<>>

\* Whatever queries the handler has answered or refused before: the figures come from
\* this query's terms alone, and each was counted under all the conditions in the texts
\* of this query that name a target of the dictionary, and no other.
AnswersThisQueryAlone ==
  pc = "calculate" =>
    \A k \in DOMAIN (pv_sum \o uv_sum \o weights) :
      LET term == (pv_sum \o uv_sum \o weights)[k]
      IN /\ term.turn = turn
         /\ {ToSet(term.targetings[g]) : g \in DOMAIN term.targetings} = Conditions(query)
=============================================================================
