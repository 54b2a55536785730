------------------------------ MODULE MCBuilder ------------------------------
(* Two positions, dictionaries of two targets, three samples of page views.  *)
EXTENDS Builder

MCConfs ==
  {<<ConfLine("a", "A", 0), ConfLine("b", "B", 1), ShortLine>>,
   <<ConfLine("b", "A", 0), ConfLine("a", "B", 2)>>,    \* row 2 of 2
   <<ConfLine("a", "A", 0), ConfLine("a", "B", 1),      \* a name twice,
     ConfLine("x", "X", -2)>>}                          \* and a row below 0

MCInfoLines ==
  {ShortLine} \cup {InfoLine("p", h, f) : h \in BOOLEAN, f \in {"f1", "f2"}}
              \cup {InfoLine("q", TRUE, "f3")}
MCSampleLines ==
  {ShortLine,
   SampleLine("p", <<"a", "x">>, <<>>, 5),
   SampleLine("p", <<>>, <<<<"x", "b">>>>, 70000),
   SampleLine("q", <<"b">>, <<<<"a">>, <<"a">>>>, -1),
   SampleLine("q", <<>>, <<>>, 65535)}
MCMergeLines ==
  {ShortLine} \cup {[ok |-> TRUE, list |-> l] : l \in {<<"p">>, <<"q">>, <<"q", "p">>, <<"p", "p">>}}
MCMaxInfos   == [pv |-> 2, uv |-> 1]
MCMaxSamples == [pv |-> 3, uv |-> 1]
=============================================================================
