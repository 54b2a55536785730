---------------------------- MODULE QueryParser ----------------------------
(***************************************************************************)
(* A query: JSON in, QueryData or an error code out.                       *)
(*                                                                         *)
(* A JSON value has a type, the one that jsoncpp gives it, and a value.    *)
(* Texts are sequences of tokens, and a name is one token.                 *)
(***************************************************************************)
EXTENDS StringExt, TLC

CONSTANT HoursPerDay      \* 24; fewer in a small instance

ASSUME HoursAssumption == HoursPerDay \in Nat

\* A separator is a token of its own, and so is all that stands between two of them.
Tokenized(text, separators) ==
  /\ text \in Seq(STRING \ {""})
  /\ \A k \in 1..Len(text) - 1 : text[k] \in separators \/ text[k + 1] \in separators

\* A key that is not there has the value null.  A price is in tenths.
Null       == [type |-> "null"]
Real(n)    == [type |-> "real", tenths |-> n]
Integer(n) == [type |-> "int", value |-> n]
Text(s)    == [type |-> "string", text |-> s]

\* static_cast<int>: towards zero.
Truncated(tenths) == IF tenths >= 0 THEN tenths \div 10 ELSE -((-tenths) \div 10)

\* A schemaType, in whatever case it is written; what has no number is 0.
Platform(text) == CASE text \in {<<"mobUnion">>, <<"MOBUNION">>} -> 2
                    [] text \in {<<"wap">>, <<"WAP">>} -> 1
                    [] OTHER -> 0

\* The hours with a 1, from 0 on, and their names in the dictionary, with two digits.
Hours(text) == Kept([i \in 1..HoursPerDay |-> i - 1], {h \in 0..HoursPerDay - 1 : text[h + 1] = "1"})
HourName(h) == IF h < 10 THEN "0" \o ToString(h) ELSE ToString(h)

\* The names in a text; an empty field is a name too.
NamesOf(text) == LET fields == Split(text, ",")
                 IN [f \in DOMAIN fields |-> IF fields[f] = <<>> THEN "" ELSE Head(fields[f])]

\* Mutant of Positions: the first empty one ends the list.
PositionsBreak(text) ==
  LET names == NamesOf(text)
      ends  == {n \in DOMAIN names : names[n] = ""}
  IN IF ends = {} THEN names
     ELSE SubSeq(names, 1, (CHOOSE n \in ends : \A k \in ends : n <= k) - 1)

\* The positions of adposIdList, without the empty ones.
Positions(text) == LET names == NamesOf(text) IN Kept(names, ToSet(names) \ {""})

\* The groups of orientation: the names in the field after the first colon or, without
\* a colon, in the only field; and the hours, if there are any, as one group more.
Groups(text, hours) ==
  LET groups == SplitTwo(text, "|", ":")
      named  == [g \in DOMAIN groups |->
                   NamesOf(groups[g][IF Len(groups[g]) >= 2 THEN 2 ELSE 1])]
  IN IF hours = <<>> THEN named
     ELSE Append(named, [i \in DOMAIN hours |-> HourName(hours[i])])

-----------------------------------------------------------------------------
(* Parse: a text that is not JSON, JSON that is no object, or an object    *)

NotJson   == [form |-> "broken"]
NotObject == [form |-> "other"]
Object(price, bidType, advertType, schema, launch, adpos, orientation) ==
  [form |-> "object",
   bidPrice |-> price, bidType |-> bidType, advertType |-> advertType,
   schemaType |-> schema, launchTime |-> launch, adposIdList |-> adpos,
   orientation |-> orientation]

\* The checks of Deserialize, by the code that is returned when they fail; each may rely
\* on the earlier ones, in the order of the checks.
Order == <<1, 2, 3, 11, 4, 12, 5, 6, 7, 8, 9, 10>>
Passes(q, code) ==
  CASE code = 1  -> q.form # "broken"
    [] code = 2  -> q.form = "object"
    [] code = 3  -> q.bidPrice.type = "real"
    [] code = 11 -> Truncated(q.bidPrice.tenths) >= 0
    [] code = 4  -> q.bidType.type = "int"
    [] code = 12 -> q.advertType.type = "int"
    [] code = 5  -> q.schemaType.type = "string"
    [] code = 6  -> q.launchTime.type = "string"
    [] code = 7  -> Len(q.launchTime.text) = HoursPerDay
    [] code = 8  -> ToSet(q.launchTime.text) \subseteq {"0", "1"}
    [] code = 9  -> q.adposIdList.type = "string"
    [] code = 10 -> q.orientation.type = "string"

\* The first check that fails, or 0.
Code(q) ==
  IF \A c \in DOMAIN Order : Passes(q, Order[c]) THEN 0
  ELSE Order[CHOOSE c \in DOMAIN Order : /\ \A b \in 1..c - 1 : Passes(q, Order[b])
                                        /\ ~Passes(q, Order[c])]

\* QueryData.
Data(q) == LET hours == Hours(q.launchTime.text)
           IN [price |-> Truncated(q.bidPrice.tenths),
               bid_type |-> q.bidType.value, advert_type |-> q.advertType.value,
               platform |-> Platform(q.schemaType.text), hours |-> hours,
               psids |-> Positions(q.adposIdList.text),
               targetings |-> Groups(q.orientation.text, hours)]

Parse(q) == IF Code(q) # 0 THEN [code |-> Code(q)] ELSE [code |-> 0, data |-> Data(q)]
=============================================================================
