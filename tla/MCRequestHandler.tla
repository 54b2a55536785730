-------------------------- MODULE MCRequestHandler --------------------------
(* A day of two hours, two positions, two targets and an hour in the dictionary. *)
EXTENDS RequestHandler

MCConf == <<ConfLine("offline a", "a", 0), ConfLine("offline b", "b", 1),
            ConfLine("hour 0", "00", 2), ShortLine>>

Psids  == {"p", "q"}
Good   == Object(Real(15), Integer(0), Integer(1), Text(<<"wap">>),
                 Text(<<"1", "1">>), Text(<<"p", ",", "q">>), Text(<<"a">>))
Everything == [pv |-> Psids, uv |-> Psids, merge |-> Psids, uv_use_delta |-> TRUE]

\* Any index and parameters under lists of positions.
Memories == [pv : SUBSET Psids, uv : SUBSET Psids, merge : {{"q"}, Psids},
             uv_use_delta : BOOLEAN]
Lists    == {<<>>, <<"p", ",", "q">>, <<"q", ",", "q">>, <<"x", ",", ",", "p">>}

\* All texts of three tokens, and longer ones.
Orientations ==
  {text \in UNION {[1..n -> {"a", "b", "x", ",", ":", "|"}] : n \in 0..3} :
     Tokenized(text, Separators)}
  \cup {<<"x", ":", "a", ",", "b", "|", "x", ":", "b">>, <<"a", ":", "b", ":", "a">>,
        <<"a", "|", "x", ":", "x", ",", "b", "|", ":">>}
Launches == {<<"0", "0">>, <<"1", "0">>, <<"0", "1">>, <<"1", "1">>}

\* Every check fails, alone or with a later one; schema types and prices that pass.
Bad == {NotJson, NotObject}
  \cup {[Good EXCEPT !.bidPrice = v, !.orientation = w] :
          v \in {Null, Integer(100), Real(-10), Real(-9), Real(0)}, w \in {Null, Text(<<"a">>)}}
  \cup {[Good EXCEPT !.bidType = v, !.advertType = w] : v, w \in {Null, Integer(7), Real(10)}}
  \cup {[Good EXCEPT !.schemaType = v, !.launchTime = w] :
          v \in {Null, Text(<<"MOBUNION">>), Text(<<"pc">>)},
          w \in {Null, Text(<<"1">>), Text(<<"1", "2">>), Text(<<"1", "0">>)}}
  \cup {[Good EXCEPT !.adposIdList = v, !.orientation = w] :
          v \in {Null, Text(<<"q">>)}, w \in {Null, Integer(1)}}

MCInputs ==
  ({[Good EXCEPT !.adposIdList = Text(list)] : list \in Lists} \X Memories)
  \cup ({[Good EXCEPT !.orientation = Text(text), !.adposIdList = Text(<<"p">>),
                      !.launchTime = Text(<<"0", "0">>)] : text \in Orientations}
          \X {Everything})
  \cup ({[Good EXCEPT !.launchTime = Text(text)] : text \in Launches} \X {Everything})
  \cup (Bad \X {Everything})
=============================================================================
