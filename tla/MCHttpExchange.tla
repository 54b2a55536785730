-------------------------- MODULE MCHttpExchange --------------------------
(* Small instances of HttpExchange for TLC. *)
EXTENDS HttpExchange

MCBody       == <<"b1", "b2", "b3">>
MCResultText == <<"r1", "r2">>

\* Heads: line ends, the order and number of headers, methods, URIs, versions, and
\* what is no head.
Line(method, path, version) == <<method, "SP">> \o path \o <<"SP", "HTTP/", version>>
Length(n) == <<"Content-Length", ":", "SP", n>>
Tight(n)  == <<"Content-Length", ":", n>>
Crlf      == <<"CR", "LF">>
Post      == Line("POST", <<"/">>, "1.1")

WithBody == {
  Post \o Crlf \o Length("2") \o Crlf \o Crlf,
  Post \o <<"LF">> \o Length("3") \o <<"LF", "LF">>,
  Crlf \o Post \o <<"LF">> \o Tight("2") \o <<"LF">> \o Tight("3") \o <<"LF", "LF">>,
  Post \o <<"LF", "Host", ":", "LF", "Accept", ":", "LF">> \o Tight("3") \o <<"LF", "LF">>,
  Post \o <<"LF", "Host", ":", "LF">> \o Length("2") \o <<"LF", "LF">>,
  Post \o <<"LF">> \o Length("9") \o <<"LF", "LF">>,
  Post \o <<"LF">> \o Length("0") \o <<"LF", "LF">>,
  Line("OPTIONS", <<"*">>, "1.0") \o <<"LF", "LF">>}

WithoutBody == {
  Post \o Crlf \o Crlf,
  Post \o <<"LF">> \o Length("-99") \o <<"LF", "LF">>,
  Line("GET", <<"/", "x", "?", "y">>, "1.1") \o Crlf \o Crlf,
  Line("GET", <<"/", "%2f", "\\", "/", ".", "%2e", "/", ".", ".", ".", "x">>, "1.1")
    \o <<"LF", "LF">>,
  Line("GET", <<"/", ".", "/", ".", ".", ".", ".", "/", "%2e">>, "1.0") \o <<"LF", "LF">>,
  Line("GET", <<"x">>, "1.1") \o <<"LF", "LF">>,
  Line("GET", <<"/">>, "2.0") \o <<"LF", "LF">>,
  Line("BREW", <<"/">>, "1.1") \o <<"LF", "LF">>,
  <<"HTTP/", "1.1", "SP", "200", "SP", "OK", "LF", "LF">>,
  <<"POST", "CTL", "SP", "LF", "LF">>,
  <<"LF", "LF">> \o Post \o <<"LF", "LF">>,
  [i \in 1..20 |-> "x"]}

MCClients ==
  [head : WithBody, body : 0..3, closes : BOOLEAN, reads : {TRUE}]
    \cup [head : WithoutBody, body : {0}, closes : {TRUE}, reads : {TRUE}]
    \cup [head : {Post \o <<"LF", "LF">>}, body : {2}, closes : {FALSE}, reads : {FALSE}]

\* A list; none; and lists with an entry that cannot be opened: taken, twice the same,
\* with SSL, no port.
Port(n)   == [port |-> n, next |-> ""]
MCPortLists == {
  <<Port(8779), [port |-> 8778, next |-> "r"]>>,
  <<>>,
  <<Port(8778), Port(80)>>, <<Port(8778), Port(8778)>>,
  <<Port(8778), [port |-> 8443, next |-> "s"]>>,
  <<Port(8778), [port |-> 8779, next |-> "x"]>>,
  <<Port(8778), Port(65535)>>, <<Port(0)>>}
MCTaken == {80}
=============================================================================
