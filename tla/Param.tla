------------------------------- MODULE Param -------------------------------
(***************************************************************************)
(* The parameters: a file of lines name = value, loaded again and again    *)
(* into the same object, and the limits that they put on an answer.        *)
(*                                                                         *)
(* Lines are sequences of tokens: a separator, a blank or a word is one.   *)
(***************************************************************************)
EXTENDS StringExt, StepFunction

CONSTANTS Lines,      \* the lines that files have
          MaxLines,   \* bound: lines in a file
          Numbers,    \* what strtod and strtol make of words, 0 of the others
          Lower,      \* what ToLower makes of words, nothing of the others
          Estimates   \* <<pv, uv>> before the limits

\* What separates items, and their fields.
Bar   == "|"
Comma == ","

\* No number begins with a separator, and neither = nor # has another case.
ASSUME ParamAssumption ==
         /\ MaxLines \in Nat /\ Lines \subseteq Seq(STRING)
         /\ \A word \in DOMAIN Numbers : Numbers[word] \in Int
         /\ DOMAIN Numbers \cap {Bar, Comma} = {}
         /\ DOMAIN Lower \cap {"=", "#"} = {}
         /\ Estimates \subseteq Nat \X Nat

Bools     == {"pv_use_delta", "uv_use_delta", "avg_ctr_use_pos", "avg_bid_use_pos",
              "win_rate_use_pos", "win_rate_use_delta"}
Doubles   == {"uv_pv_min_rate", "uv_pv_max_rate", "max_win_rate"}
Maps      == {"platform_min_bids", "win_rate_scales", "win_rate_thresholds"}
\* In the order in which they are loaded.
Functions == <<"pv_step_function", "uv_step_function", "win_rate_step_function">>

VARIABLES
  stage,   \* "idle", "read", "loaded", "answered"
  param,   \* the members, by their names
  buffer,  \* the values by the names of the file
  return,  \* the result of the last Load
  uv,      \* the last answer: <<pv, uv>>
  file     \* history: the lines of the file being loaded

settings == <<stage, param, buffer, return, uv, file>>

-----------------------------------------------------------------------------
(* Values                                                                  *)

ToLower(text) == [i \in DOMAIN text |-> IF text[i] \in DOMAIN Lower THEN Lower[text[i]]
                                                                    ELSE text[i]]
ToBool(text)   == ToLower(Strip(text)) = <<"true">>
ToDouble(text) == IF text # <<>> /\ Head(text) \in DOMAIN Numbers THEN Numbers[Head(text)] ELSE 0

\* Deserialize of a map: items of at least three numbers, the later ones over the earlier.
DeserializeMap(text) ==
  LET items     == SplitTwo(text, Bar, Comma)
      good      == {g \in DOMAIN items : Len(items[g]) >= 3}
      Num(g, f) == ToDouble(Strip(items[g][f]))
      Key(g)    == <<Num(g, 1), Num(g, 2)>>
  IN [key \in {Key(g) : g \in good} |-> Num(Max({g \in good : Key(g) = key}), 3)]

\* Deserialize of a step function: values and splits in turn, a value at both ends.
Numerals(text) == LET items  == Split(text, Bar)
                      fields == [i \in DOMAIN items |-> Strip(items[i])]
                      some   == Kept(fields, ToSet(fields) \ {<<>>})
                  IN [i \in DOMAIN some |-> ToDouble(some[i])]

\* Mutant of DeserializeFunction: a split at the end is taken.
DeserializeFunctionAny(text) ==
  LET array == Numerals(text)
  IN StepFunction([i \in 1..(Len(array) + 1) \div 2 |-> array[2 * i - 1]],
                  [i \in 1..Len(array) \div 2 |-> array[2 * i]])

DeserializeFunction(text) ==
  LET array  == Numerals(text)
      values == [i \in 1..(Len(array) + 1) \div 2 |-> array[2 * i - 1]]
      splits == [i \in 1..Len(array) \div 2 |-> array[2 * i]]
  IN IF Len(values) # Len(splits) + 1 THEN NoFunction ELSE StepFunction(values, splits)

\* An absent key is 0.
Get(map, platform, type) == IF <<platform, type>> \in DOMAIN map THEN map[<<platform, type>>]
                                                                 ELSE 0

-----------------------------------------------------------------------------
(* Load                                                                    *)

Members == Bools \cup Doubles \cup Maps \cup ToSet(Functions)
Cleared == [name \in Members |-> CASE name \in Bools   -> FALSE
                                    [] name \in Doubles -> 0
                                    [] name \in Maps    -> <<>>
                                    [] OTHER            -> NoFunction]

ParamInit == /\ stage = "idle" /\ param = Cleared /\ buffer = <<>>
             /\ return = 0 /\ uv = <<0, 0>> /\ file = <<>>

\* Mutant of ParamClear: only what the file can switch.
ClearBools == param' = [name \in Members |-> IF name \in Bools THEN FALSE ELSE param[name]]

ParamClear == param' = Cleared

\* A file that is not there is an error.
ParamLoad == /\ stage \in {"idle", "loaded", "answered"}
             /\ ParamClear
             /\ buffer' = <<>> /\ file' = <<>> /\ uv' = <<0, 0>>
             /\ \/ stage' = "read" /\ UNCHANGED return
                \/ stage' = "idle" /\ return' = -1

\* The value is what stands between the first and the second =.
Entry(line) ==
  LET items == Split(Strip(line), "=")
      name  == ToLower(Strip(items[1]))
      value == Strip(items[2])
  IN IF Len(items) >= 2 /\ name # <<>> /\ value # <<>> THEN [key \in {name} |-> value]
                                                      ELSE <<>>

IsComment(line) == LET text == Strip(line) IN text # <<>> /\ Head(text) = "#"

\* buffer.insert keeps the first value of a name.
Insert(map, entry) == [key \in DOMAIN map \cup DOMAIN entry |->
                         IF key \in DOMAIN map THEN map[key] ELSE entry[key]]
ReadLine == /\ stage = "read" /\ Len(file) < MaxLines
            /\ \E line \in Lines :
                 /\ file' = Append(file, line)
                 /\ buffer' = IF IsComment(line) THEN buffer ELSE Insert(buffer, Entry(line))
            /\ UNCHANGED <<stage, param, return, uv>>

Has(name)   == <<name>> \in DOMAIN buffer
Value(name) == buffer[<<name>>]

\* What becomes of a member that the file has a value for.
Loaded(name) == CASE name \in Bools   -> ToBool(Value(name))
                  [] name \in Doubles -> ToDouble(Value(name))
                  [] name \in Maps    -> DeserializeMap(Value(name))
                  [] OTHER            -> DeserializeFunction(Value(name))

\* The first function that does not deserialize ends the load; what comes after it stays
\* cleared.
BadAt == {f \in DOMAIN Functions : /\ Has(Functions[f])
                                   /\ DeserializeFunction(Value(Functions[f])) = NoFunction}
Reached == Bools \cup Doubles \cup Maps
           \cup {Functions[f] : f \in {g \in DOMAIN Functions : \A bad \in BadAt : g < bad}}
Fill == /\ stage = "read"
        /\ param' = [name \in DOMAIN param |-> IF Has(name) /\ name \in Reached
                                                THEN Loaded(name) ELSE param[name]]
        /\ return' = IF BadAt = {} THEN 0 ELSE -1
        /\ stage' = "loaded"
        /\ UNCHANGED <<buffer, uv, file>>

-----------------------------------------------------------------------------
(* The limits in RequestHandler::Calculate; rates are in tenths            *)

Ceil(tenths) == (tenths + 9) \div 10

\* Mutant of Limited: the lower limit first.
LimitedMinFirst(pv, estimate) ==
  LET min   == pv * param.uv_pv_min_rate
      max   == pv * param.uv_pv_max_rate
      first == IF estimate * 10 < min THEN Ceil(min) ELSE estimate
  IN IF first * 10 > max THEN Ceil(max) ELSE first

\* First the upper limit, then the lower one.
Limited(pv, estimate) ==
  LET min   == pv * param.uv_pv_min_rate
      max   == pv * param.uv_pv_max_rate
      first == IF estimate * 10 > max THEN Ceil(max) ELSE estimate
  IN IF first * 10 < min THEN Ceil(min) ELSE first

\* Only an object that was loaded without an error is ever used (shared_memory.hpp:64).
CalculateLimits ==
  /\ stage = "loaded" /\ return = 0
  /\ \E estimate \in Estimates : uv' = <<estimate[1], Limited(estimate[1], estimate[2])>>
  /\ stage' = "answered"
  /\ UNCHANGED <<param, buffer, return, file>>

ParamNext == ParamLoad \/ ReadLine \/ Fill \/ CalculateLimits

ParamSpec == ParamInit /\ [][ParamNext]_settings

-----------------------------------------------------------------------------
(* Properties                                                              *)

\* Every variable has the type it has in the code; no name and no value in the buffer is
\* empty.
ParamTypeOK ==
  /\ stage \in {"idle", "read", "loaded", "answered"} /\ return \in {0, -1}
  /\ DOMAIN param = Members
  /\ \A name \in Bools : param[name] \in BOOLEAN
  /\ \A name \in Doubles : param[name] \in Int
  /\ \A name \in Maps : \A key \in DOMAIN param[name] : param[name][key] \in Int
  /\ \A f \in DOMAIN Functions : LET function == param[Functions[f]]
                                IN IsValid(function) \/ function = NoFunction
  /\ \A name \in DOMAIN buffer : name # <<>> /\ buffer[name] # <<>>
  /\ uv \in Nat \X Int

\* What a line says, read without stripping and splitting: a name, in any case, then =,
\* then the value up to the next =.  <<>> if it says nothing of the name.
Said(line, name) ==
  LET words == Kept(line, ToSet(line) \ {Blank})
      ends  == {k \in 3..Len(words) : words[k] = "="} \cup {Len(words) + 1}
  IN IF Len(words) >= 3 /\ ToLower(<<words[1]>>) = <<name>> /\ words[2] = "="
     THEN SubSeq(words, 3, Min(ends) - 1) ELSE <<>>
Written(name) ==
  LET says == {k \in DOMAIN file : Said(file[k], name) # <<>>}
  IN IF says = {} THEN <<>> ELSE Said(file[Min(says)], name)

\* The number that begins at a place of a text, 0 if none does.
NumberAt(text, k) == ToDouble(SubSeq(text, k, Len(text)))

\* The numbers at the beginning and behind each bar, except where the next bar follows.
Figures(text) ==
  LET begins == {k \in DOMAIN text : text[k] # Bar /\ (k = 1 \/ text[k - 1] = Bar)}
      places == Kept([k \in DOMAIN text |-> k], begins)
  IN [n \in DOMAIN places |-> NumberAt(text, places[n])]

\* The item of a map that counts: the last one with the two keys.  An item begins at a
\* and has its first two commas at b and c.
IsItem(text, a, b, c) == /\ a = 1 \/ text[a - 1] = Bar
                         /\ a <= b /\ b < c /\ text[b] = Comma /\ text[c] = Comma
                         /\ \A k \in a..c : text[k] \in {Bar, Comma} => k \in {b, c}
LastItem(text, platform, type) ==
  LET ends == {c \in DOMAIN text :
                 \E a \in DOMAIN text, b \in DOMAIN text :
                   /\ IsItem(text, a, b, c)
                   /\ NumberAt(text, a) = platform /\ NumberAt(text, b + 1) = type}
  IN IF ends = {} THEN 0 ELSE NumberAt(text, Max(ends) + 1)

\* Whatever was loaded before, well or badly: what a loaded object says is what the first
\* line of its file with a value says, and 0 or false where none does.  A value is true
\* only as the one word, in any case.
LoadedAsWritten ==
  stage = "loaded" =>
    /\ \A name \in Bools : param[name] = (ToLower(Written(name)) = <<"true">>)
    /\ \A name \in Doubles : param[name] = ToDouble(Written(name))
    /\ \A name \in Maps, p, t \in 0..1 : Get(param[name], p, t) = LastItem(Written(name), p, t)

\* The functions of the file with a split too many.
Unfinished == {f \in DOMAIN Functions : /\ Written(Functions[f]) # <<>>
                                        /\ Len(Figures(Written(Functions[f]))) % 2 = 0}
\* The value between the splits around x; 0 of a function that is not there or comes
\* with or after an unfinished one.
Step(f, x) ==
  LET numbers == Figures(Written(Functions[f]))
      below   == {k \in DOMAIN numbers : k % 2 = 0 /\ numbers[k] < x}
  IN IF numbers = <<>> \/ \E g \in Unfinished : g <= f THEN 0
     ELSE numbers[2 * Cardinality(below) + 1]

\* A step function has the value that stands between the splits around x, where a split
\* belongs to the value on its left, in whatever order the file has the splits; and a
\* load fails exactly if a function in the file has a split too many, in which case
\* that function and the later ones are 0.
StepsAsWritten ==
  stage = "loaded" =>
    /\ (return = -1) = (Unfinished # {})
    /\ \A f \in DOMAIN Functions, x \in -1..10 : GetValue(param[Functions[f]], x) = Step(f, x)

\* The answer of a query respects the limits of the file: users are never less than
\* uv_pv_min_rate of the views and, unless that demands more, never more than
\* uv_pv_max_rate of them (param.conf:20-24), up to the next whole number.
AnswerWithinLimits ==
  stage = "answered" =>
    LET min == ToDouble(Written("uv_pv_min_rate"))
        max == ToDouble(Written("uv_pv_max_rate"))
    IN /\ uv[2] * 10 >= uv[1] * min
       /\ uv[2] <= Ceil(uv[1] * max) \/ uv[2] = Ceil(uv[1] * min)
=============================================================================
