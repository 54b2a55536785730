------------------------- MODULE HttpExchangeProofs -------------------------
(***************************************************************************)
(* Theorems about HttpExchange: for clients that send whatever they like,  *)
(* in any pieces, and for buffers of any size.                             *)
(***************************************************************************)
EXTENDS HttpExchange, WellFoundedInduction, TLAPS

-----------------------------------------------------------------------------
(* The ports, for every list of them: mg_start alone, as a specification     *)

PortSpecs == [port : Int, next : STRING]
Listeners == [port : Int, ssl_redir : BOOLEAN]

\* A listener is what its entry asks for.
Serves(so, spec) == so.port = spec.port /\ (so.ssl_redir <=> spec.next = "r")

\* The sockets that are open are those of the entries of the configuration that are no
\* longer in the list, in their order, and the process has no other port.
Halfway ==
  LET ports == config.listening_ports
  IN /\ ports \in Seq(PortSpecs) /\ list \in Seq(PortSpecs) /\ listening \in Seq(Listeners)
     /\ Len(listening) + Len(list) = Len(ports)
     /\ \A i \in 1..Len(list) : list[i] = ports[Len(listening) + i]
     /\ \A i \in 1..Len(listening) : Serves(listening[i], ports[i])
     /\ bound = {listening[i].port : i \in 1..Len(listening)}

PortsInv == /\ start \in {"options", "ports", "started", "refused"}
            /\ DOMAIN config = DOMAIN Defaults
            /\ start = "options" => listening = <<>> /\ bound = {}
            /\ start \in {"ports", "started"} => Halfway
            /\ start = "started" => list = <<>>
            /\ start = "refused" => bound = {}

LEMMA PortsInit == StartInit => PortsInv
  BY DEF StartInit, PortsInv

LEMMA OpenPortKeeps == PortsInv /\ OpenPort => Halfway'
<1> SUFFICES ASSUME PortsInv, OpenPort PROVE Halfway'
  OBVIOUS
<1> DEFINE ports == config.listening_ports
           so    == [port |-> Head(list).port, ssl_redir |-> Head(list).next = "r"]
<1>1. Halfway /\ list # <<>> /\ UNCHANGED config
  BY DEF PortsInv, OpenPort
<1>2. /\ ports \in Seq(PortSpecs) /\ list \in Seq(PortSpecs)
      /\ listening \in Seq(Listeners)
      /\ Len(listening) + Len(list) = Len(ports)
  BY <1>1 DEF Halfway
<1>3. Head(list) = ports[Len(listening) + 1] /\ Head(list) \in PortSpecs
  BY <1>1, <1>2 DEF Halfway
<1>4. /\ list' = Tail(list) /\ listening' = Append(listening, so)
      /\ bound' = bound \cup {so.port}
  BY DEF OpenPort, ParsePort
<1>5. so \in Listeners /\ Serves(so, ports[Len(listening) + 1])
  BY <1>3 DEF Listeners, PortSpecs, Serves
<1> HIDE DEF so
<1>6. /\ Len(listening') = Len(listening) + 1
      /\ \A i \in 1..Len(listening) : listening'[i] = listening[i]
      /\ listening'[Len(listening) + 1] = so
      /\ listening' \in Seq(Listeners)
  BY <1>2, <1>4, <1>5
<1>7. /\ Len(list') = Len(list) - 1 /\ list' \in Seq(PortSpecs)
      /\ \A i \in 1..Len(list') : list'[i] = list[i + 1]
  BY <1>1, <1>2, <1>4
<1>8. \A i \in 1..Len(listening') : Serves(listening'[i], ports[i])
  <2> SUFFICES ASSUME NEW i \in 1..Len(listening') PROVE Serves(listening'[i], ports[i])
    OBVIOUS
  <2>1. CASE i = Len(listening) + 1
    BY <2>1, <1>5, <1>6
  <2>2. CASE i # Len(listening) + 1
    <3>1. i \in 1..Len(listening)
      BY <2>2, <1>2, <1>6
    <3> QED BY <3>1, <1>1, <1>6 DEF Halfway
  <2> QED BY <2>1, <2>2
<1>9. bound' = {listening'[i].port : i \in 1..Len(listening')}
  <2>1. bound = {listening[i].port : i \in 1..Len(listening)}
    BY <1>1 DEF Halfway
  <2>2. Len(listening) \in Nat
    BY <1>2
  <2> QED BY <2>1, <2>2, <1>4, <1>6
<1>10. \A i \in 1..Len(list') : list'[i] = ports[Len(listening') + i]
  <2> SUFFICES ASSUME NEW i \in 1..Len(list') PROVE list'[i] = ports[Len(listening') + i]
    OBVIOUS
  <2>1. i + 1 \in 1..Len(list) /\ Len(listening) \in Nat /\ i \in Nat
    BY <1>2, <1>7
  <2>2. list[i + 1] = ports[Len(listening) + (i + 1)]
    BY <2>1, <1>1 DEF Halfway
  <2>3. list'[i] = list[i + 1] /\ Len(listening') + i = Len(listening) + (i + 1)
    BY <2>1, <1>6, <1>7
  <2> QED BY <2>2, <2>3
<1> QED BY <1>1, <1>2, <1>6, <1>7, <1>8, <1>9, <1>10 DEF Halfway

LEMMA PortsNext == PortsInv /\ [StartNext]_server => PortsInv'
<1> SUFFICES ASSUME PortsInv, [StartNext]_server PROVE PortsInv'
  OBVIOUS
<1>1. CASE TakeOptions
  <2>1. PICK ports \in PortLists : config' = WithOption(config, "listening_ports", ports)
                                   /\ list' = ports
    BY <1>1 DEF TakeOptions
  <2>2. /\ DOMAIN config' = DOMAIN Defaults
        /\ config'.listening_ports = ports
    BY <2>1 DEF PortsInv, WithOption, Defaults
  <2>3. listening' = <<>> /\ bound' = {} /\ start' = "ports"
    BY <1>1 DEF TakeOptions, PortsInv
  <2>4. ports \in Seq(PortSpecs)
    BY MgStartAssumption DEF PortSpecs
  <2>5. Halfway'
    BY <2>1, <2>2, <2>3, <2>4 DEF Halfway
  <2> QED BY <2>2, <2>3, <2>5 DEF PortsInv
<1>2. CASE OpenPort
  <2>1. Halfway'
    BY <1>2, OpenPortKeeps
  <2> QED BY <1>2, <2>1 DEF PortsInv, OpenPort
<1>3. CASE RefusePort
  BY <1>3 DEF PortsInv, RefusePort
<1>4. CASE PortsOpen
  BY <1>4 DEF PortsInv, PortsOpen, Halfway
<1>5. CASE UNCHANGED server
  BY <1>5 DEF PortsInv, server, Halfway
<1> QED BY <1>1, <1>2, <1>3, <1>4, <1>5 DEF StartNext

LEMMA PortsMeanAll == PortsInv => AllPortsOrNone
<1> SUFFICES ASSUME PortsInv PROVE AllPortsOrNone
  OBVIOUS
<1>1. CASE start = "started"
  <2> DEFINE ports == config.listening_ports
  <2>1. /\ ports \in Seq(PortSpecs) /\ listening \in Seq(Listeners)
        /\ Len(listening) = Len(ports)
        /\ \A i \in 1..Len(ports) : Serves(listening[i], ports[i])
        /\ bound = {listening[i].port : i \in 1..Len(ports)}
    BY <1>1 DEF PortsInv, Halfway
  <2>2. bound = {ports[i].port : i \in 1..Len(ports)}
    BY <2>1 DEF Serves
  <2>3. ToSet(ports) = {ports[i] : i \in 1..Len(ports)}
    BY <2>1 DEF ToSet
  <2>4. {spec.port : spec \in ToSet(ports)} = {ports[i].port : i \in 1..Len(ports)}
    BY <2>3
  <2>5. DOMAIN listening = 1..Len(ports)
    BY <2>1
  <2> QED BY <1>1, <2>1, <2>2, <2>4, <2>5 DEF AllPortsOrNone, Serves
<1>2. CASE start # "started"
  BY <1>2 DEF PortsInv, AllPortsOrNone
<1> QED BY <1>1, <1>2

\* parse_port_string, set_ports_option and mg_start: whatever the list of ports, a server
\* that runs has a listener for each entry, and one that was refused has no port.
THEOREM StartsWhole == StartInit /\ [][StartNext]_server => []AllPortsOrNone
  BY PortsInit, PortsNext, PortsMeanAll, PTL

-----------------------------------------------------------------------------
(* Where a head ends *)

LEMMA MinIsLeast == ASSUME NEW S, S \subseteq Nat, S # {}
                    PROVE  Min(S) \in S /\ \A n \in S : Min(S) <= n
<1>1. PICK least \in S : \A n \in S : ~(<<n, least>> \in OpToRel(<, Nat))
  BY WFMin, NatLessThanWellFounded
<1>2. OpToRel(<, Nat) = {ss \in Nat \X Nat : ss[1] < ss[2]}
  BY DEF OpToRel
<1>3. ASSUME NEW n \in S PROVE least <= n
  <2> DEFINE pair == <<n, least>>
  <2>1. n \in Nat /\ least \in Nat
    OBVIOUS
  <2>2. pair \in Nat \X Nat /\ pair[1] = n /\ pair[2] = least
    BY <2>1
  <2>3. pair \notin {ss \in Nat \X Nat : ss[1] < ss[2]}
    BY <1>1, <1>2
  <2> HIDE DEF pair
  <2>4. ~(pair[1] < pair[2])
    BY <2>2, <2>3
  <2> QED BY <2>1, <2>2, <2>4
<1> QED BY <1>3 DEF Min

\* The places where get_request_len stops, in a text of which e characters are looked at.
Bare(buf, e)    == {s \in 1..e - 1 : buf[s] = "LF" /\ buf[s + 1] = "LF"}
CrLf(buf, e)    == {s \in 1..e - 2 : buf[s] = "LF" /\ buf[s + 1] = "CR" /\ buf[s + 2] = "LF"}
Control(buf, e) == {s \in 1..e - 1 : buf[s] = "CTL"}
Events(buf, e)  == Bare(buf, e) \cup CrLf(buf, e) \cup Control(buf, e)

LEMMA RequestLenCases ==
  ASSUME NEW buf \in Seq(STRING)
  PROVE  LET e == Len(buf)
         IN \/ Events(buf, e) = {} /\ GetRequestLen(buf) = 0
            \/ \E m \in Events(buf, e) :
                 /\ \A s \in Events(buf, e) : m <= s
                 /\ \/ m \in Control(buf, e) /\ GetRequestLen(buf) = -1
                    \/ /\ m \in Bare(buf, e) /\ m \notin Control(buf, e)
                       /\ GetRequestLen(buf) = m + 1
                    \/ /\ m \in CrLf(buf, e) \ (Bare(buf, e) \cup Control(buf, e))
                       /\ GetRequestLen(buf) = m + 2
<1> DEFINE e == Len(buf)
<1>1. e \in Nat
  OBVIOUS
<1> DEFINE m == Min(Events(buf, e))
<1>2. /\ Events(buf, e) = {} => GetRequestLen(buf) = 0
      /\ Events(buf, e) # {} =>
           /\ m \in Control(buf, e) => GetRequestLen(buf) = -1
           /\ m \in Bare(buf, e) \ Control(buf, e) => GetRequestLen(buf) = m + 1
           /\ m \notin Bare(buf, e) \cup Control(buf, e) => GetRequestLen(buf) = m + 2
  BY DEF GetRequestLen, Events, Bare, CrLf, Control
<1> HIDE DEF m
<1>3. CASE Events(buf, e) = {}
  BY <1>2, <1>3
<1>4. CASE Events(buf, e) # {}
  <2>1. Events(buf, e) \subseteq Nat
    BY <1>1 DEF Events, Bare, CrLf, Control
  <2>2. m \in Events(buf, e) /\ \A s \in Events(buf, e) : m <= s
    BY <1>4, <2>1, MinIsLeast DEF m
  <2>3. m \in Control(buf, e) \/ m \in Bare(buf, e) \/ m \in CrLf(buf, e)
    BY <2>2 DEF Events
  <2> QED BY <1>2, <1>4, <2>2, <2>3
<1> QED BY <1>3, <1>4

\* It never finds an end behind what is there.
LEMMA RequestLenInBuf == ASSUME NEW buf \in Seq(STRING)
                         PROVE  GetRequestLen(buf) \in -1..Len(buf)
<1> DEFINE e == Len(buf)
<1>1. e \in Nat
  OBVIOUS
<1>2. \A m \in Bare(buf, e) : m + 1 \in 0..e
  BY <1>1 DEF Bare
<1>3. \A m \in CrLf(buf, e) : m + 2 \in 0..e
  BY <1>1 DEF CrLf
<1>4. GetRequestLen(buf) \in {-1, 0} \cup 0..e
  BY <1>2, <1>3, RequestLenCases
<1> QED BY <1>1, <1>4

LEMMA SameSeq == ASSUME NEW S, NEW T, NEW a \in Seq(S), NEW b \in Seq(T), Len(a) = Len(b),
                        \A i \in 1..Len(a) : a[i] = b[i]
                 PROVE  a = b
  OBVIOUS

\* What an empty line looks like.
LEMMA EmptyLineFacts ==
  ASSUME NEW text \in Seq(STRING), NEW s \in 1..Len(text), NEW e \in 1..Len(text)
  PROVE  EmptyLine(text, s, e) <=>
           \/ e = s + 1 /\ text[s] = "LF" /\ text[e] = "LF"
           \/ e = s + 2 /\ text[s] = "LF" /\ text[s + 1] = "CR" /\ text[e] = "LF"
<1> DEFINE line == SubSeq(text, s, e)
<1>1. /\ Len(line) = IF s <= e THEN e - s + 1 ELSE 0
      /\ line \in Seq(STRING)
      /\ \A k \in 1..Len(line) : line[k] = text[s + k - 1]
  OBVIOUS
<1>2. line = <<"LF", "LF">> <=> e = s + 1 /\ text[s] = "LF" /\ text[e] = "LF"
  <2> DEFINE two == <<"LF", "LF">>
  <2>1. two \in Seq({"LF"}) /\ Len(two) = 2 /\ two[1] = "LF" /\ two[2] = "LF"
    OBVIOUS
  <2> HIDE DEF two, line
  <2>2. line = two <=> Len(line) = 2 /\ line[1] = "LF" /\ line[2] = "LF"
    <3>1. ASSUME Len(line) = 2, line[1] = "LF", line[2] = "LF" PROVE line = two
      <4>1. \A i \in 1..Len(line) : line[i] = two[i]
        BY <2>1, <3>1
      <4> QED BY <1>1, <2>1, <3>1, <4>1, SameSeq
    <3> QED BY <2>1, <3>1
  <2> QED BY <1>1, <2>2 DEF two
<1>3. line = <<"LF", "CR", "LF">> <=>
        e = s + 2 /\ text[s] = "LF" /\ text[s + 1] = "CR" /\ text[e] = "LF"
  <2> DEFINE three == <<"LF", "CR", "LF">>
  <2>1. /\ three \in Seq({"LF", "CR"}) /\ Len(three) = 3
        /\ three[1] = "LF" /\ three[2] = "CR" /\ three[3] = "LF"
    OBVIOUS
  <2> HIDE DEF three, line
  <2>2. line = three <=>
          Len(line) = 3 /\ line[1] = "LF" /\ line[2] = "CR" /\ line[3] = "LF"
    <3>1. ASSUME Len(line) = 3, line[1] = "LF", line[2] = "CR", line[3] = "LF"
          PROVE  line = three
      <4>1. \A i \in 1..Len(line) : line[i] = three[i]
        BY <2>1, <3>1
      <4>2. line \in Seq(STRING) /\ three \in Seq({"LF", "CR"}) /\ Len(line) = Len(three)
        BY <1>1, <2>1, <3>1
      <4> QED BY <4>1, <4>2, SameSeq
    <3> QED BY <2>1, <3>1
  <2> QED BY <1>1, <2>2 DEF three
<1> QED BY <1>2, <1>3 DEF EmptyLine

\* The start of the line that ends a head.
LEMMA HeadEnd ==
  ASSUME NEW head \in Seq(STRING), IsHead(head)
  PROVE  \E m \in 1..Len(head) - 1 :
           /\ head[m] = "LF"
           /\ \/ Len(head) = m + 1 /\ head[m + 1] = "LF"
              \/ Len(head) = m + 2 /\ head[m + 1] = "CR" /\ head[m + 2] = "LF"
           /\ \A s \in 1..Len(head) : head[s] # "CTL"
           /\ \A s \in 1..m - 1 : ~(head[s] = "LF" /\ head[s + 1] = "LF")
           /\ \A s \in 1..m - 1 :
                ~(head[s] = "LF" /\ head[s + 1] = "CR" /\ head[s + 2] = "LF")
<1>1. PICK m \in 1..Len(head) : EmptyLine(head, m, Len(head))
  BY DEF IsHead
<1>2. \/ Len(head) = m + 1 /\ head[m] = "LF" /\ head[m + 1] = "LF"
      \/ Len(head) = m + 2 /\ head[m] = "LF" /\ head[m + 1] = "CR" /\ head[m + 2] = "LF"
  BY <1>1, EmptyLineFacts
<1>3. \A s \in 1..Len(head) : head[s] # "CTL"
  BY DEF IsHead, ToSet
<1>4. \A s \in 1..m - 1 : ~(head[s] = "LF" /\ head[s + 1] = "LF")
  <2> SUFFICES ASSUME NEW s \in 1..m - 1, head[s] = "LF", head[s + 1] = "LF" PROVE FALSE
    OBVIOUS
  <2>1. s \in 1..Len(head) /\ s + 1 \in 1..Len(head) /\ s + 1 \in 1..Len(head) - 1
    BY <1>2
  <2>2. EmptyLine(head, s, s + 1)
    BY <2>1, EmptyLineFacts
  <2> QED BY <2>1, <2>2 DEF IsHead
<1>5. \A s \in 1..m - 1 : ~(head[s] = "LF" /\ head[s + 1] = "CR" /\ head[s + 2] = "LF")
  <2> SUFFICES ASSUME NEW s \in 1..m - 1,
                      head[s] = "LF", head[s + 1] = "CR", head[s + 2] = "LF"
               PROVE  FALSE
    OBVIOUS
  <2>1. s \in 1..Len(head) /\ s + 2 \in 1..Len(head) /\ s + 2 \in 1..Len(head) - 1
    BY <1>2
  <2>2. EmptyLine(head, s, s + 2)
    BY <2>1, EmptyLineFacts
  <2> QED BY <2>1, <2>2 DEF IsHead
<1> QED BY <1>2, <1>3, <1>4, <1>5

\* In however many characters of a head and what follows it: its end, or none yet.
LEMMA HeadFound ==
  ASSUME NEW head \in Seq(STRING), IsHead(head),
         NEW buf \in Seq(STRING),
         \A s \in 1..Len(head) : s <= Len(buf) => buf[s] = head[s]
  PROVE  GetRequestLen(buf) \in {0, Len(head)}
<1> DEFINE e == Len(buf)
<1>1. PICK m \in 1..Len(head) - 1 :
        /\ head[m] = "LF"
        /\ \/ Len(head) = m + 1 /\ head[m + 1] = "LF"
           \/ Len(head) = m + 2 /\ head[m + 1] = "CR" /\ head[m + 2] = "LF"
        /\ \A s \in 1..Len(head) : head[s] # "CTL"
        /\ \A s \in 1..m - 1 : ~(head[s] = "LF" /\ head[s + 1] = "LF")
        /\ \A s \in 1..m - 1 : ~(head[s] = "LF" /\ head[s + 1] = "CR" /\ head[s + 2] = "LF")
  BY HeadEnd
<1>2. e \in Nat /\ m \in Nat
  BY <1>1
<1>3. \A s \in Events(buf, e) : s >= m
  <2> SUFFICES ASSUME NEW s \in Events(buf, e), s < m PROVE FALSE
    BY <1>2 DEF Events, Bare, CrLf, Control
  <2>1. s \in 1..m - 1 /\ s \in 1..Len(head) /\ s + 1 \in 1..Len(head) /\ s <= e
    BY <1>1, <1>2 DEF Events, Bare, CrLf, Control
  <2>2. s \notin Control(buf, e)
    BY <1>1, <2>1 DEF Control
  <2>3. s \notin Bare(buf, e)
    BY <1>1, <2>1, <1>2 DEF Bare
  <2>4. s \notin CrLf(buf, e)
    <3>1. s + 2 \in 1..Len(head)
      BY <1>1, <2>1
    <3>2. SUFFICES ASSUME s \in CrLf(buf, e) PROVE FALSE
      OBVIOUS
    <3>3. buf[s] = "LF" /\ buf[s + 1] = "CR" /\ buf[s + 2] = "LF" /\ s + 2 <= e
      BY <3>2, <1>2 DEF CrLf
    <3>4. head[s] = "LF" /\ head[s + 1] = "CR" /\ head[s + 2] = "LF"
      BY <2>1, <3>1, <3>3, <1>2
    <3> QED BY <1>1, <2>1, <3>4
  <2> QED BY <2>2, <2>3, <2>4 DEF Events
<1>4. CASE e < Len(head)
  <2>1. Events(buf, e) = {}
    <3> SUFFICES ASSUME NEW s \in Events(buf, e) PROVE FALSE
      OBVIOUS
    <3>1. s >= m /\ s <= e - 1 /\ s \in Nat
      BY <1>2, <1>3 DEF Events, Bare, CrLf, Control
    <3>2. s = m /\ Len(head) = m + 2 /\ e = m + 1 /\ buf[m] = "LF" /\ buf[m + 1] = "CR"
      BY <1>1, <1>2, <1>4, <3>1
    <3> QED BY <3>2, <1>2 DEF Events, Bare, CrLf, Control
  <2> QED BY <2>1, RequestLenCases
<1>5. CASE e >= Len(head)
  <2>1. buf[m] = "LF" /\ m \notin Control(buf, e)
    BY <1>1, <1>2, <1>5 DEF Control
  <2>2. CASE Len(head) = m + 1
    <3>1. buf[m + 1] = "LF"
      BY <1>1, <1>2, <1>5, <2>2
    <3>2. m \in Bare(buf, e) /\ m \in Events(buf, e)
      BY <1>1, <1>2, <1>5, <2>1, <2>2, <3>1 DEF Bare, Events
    <3>3. \A n \in Events(buf, e) : (\A s \in Events(buf, e) : n <= s) => n = m
      BY <1>2, <1>3, <3>2 DEF Events, Bare, CrLf, Control
    <3> QED BY <2>1, <2>2, <3>2, <3>3, RequestLenCases
  <2>3. CASE Len(head) = m + 2
    <3>1. buf[m + 1] = "CR" /\ buf[m + 2] = "LF"
      BY <1>1, <1>2, <1>5, <2>3
    <3>2. m \in CrLf(buf, e) /\ m \in Events(buf, e) /\ m \notin Bare(buf, e)
      BY <1>1, <1>2, <1>5, <2>1, <2>3, <3>1 DEF Bare, CrLf, Events
    <3>3. \A n \in Events(buf, e) : (\A s \in Events(buf, e) : n <= s) => n = m
      BY <1>2, <1>3, <3>2 DEF Events, Bare, CrLf, Control
    <3> QED BY <2>1, <2>3, <3>2, <3>3, RequestLenCases
  <2> QED BY <1>1, <2>2, <2>3
<1> QED BY <1>2, <1>4, <1>5

-----------------------------------------------------------------------------
(* Types *)

Lengths == {-99, -1} \cup 0..Infinite

NumbersOK ==
  /\ stop_flag \in {0, 1}
  /\ pc \in {"idle", "getreq", "parsehead", "parsed", "begin", "read", "parse", "unserved", "discard",
             "close"}
  /\ turn \in {1, 2}
  /\ data_len \in 0..BufSize /\ request_len \in -1..BufSize /\ content_len \in Lengths
  /\ consumed \in 0..Cap /\ must_close \in BOOLEAN /\ fill \in 0..Cap
  /\ status \in {-1, 200, 400, 404, 500, 505}

ClientOK == client \in Clients \cup {NoClient}

\* What the worker keeps of a connection: how much of the stream was taken, and what of
\* that the service has read.
LengthsOK ==
  /\ data_len <= Len(Stream)
  /\ pc # "close" => request_len <= data_len
  /\ pc \in {"getreq", "parsehead", "parsed", "begin"} => consumed = 0
  /\ pc \in {"parsed", "begin", "read", "parse"} => request_len >= 1
  /\ pc = "read" => consumed = fill /\ request_len + consumed <= Len(Stream)

CoreInv == NumbersOK /\ ClientOK /\ LengthsOK

Cell    == [turn : 0..2, unit : {""} \cup Units]
CellsOK == request_buf \in [1..Cap -> Cell]

\* The worker's replies so far: none before a request was looked at, one at least when
\* the connection is about to be closed, and results whole.
Texts   == STRING \cup {"header", "LF", "NUL"}
Replies == [what : {"error", "refused", "options", "not found"}]
             \cup [what : {"result"}, length : 0..Len(ResultText), text : Seq(Texts)]
RepliesType == replies \in Seq(Replies)
RepliesOK ==
  /\ pc = "idle" => replies = <<>>
  /\ pc \in {"unserved", "discard", "close"} => replies # <<>>
  /\ ResultArrivesWhole

\* While the service reads, the buffer has nothing of another connection in it.
BufferOK == pc \in {"read", "parse"} => \A i \in 1..Cap : request_buf[i].turn \in {0, turn}

\* A client with a head and a body that fits, from its first character on.
Announcing == IsHead(client.head) /\ Announced \in 1..Least(Cap, client.body)
BodyOK ==
  IsHead(client.head) =>
    /\ pc = "parsehead" => request_len \in {-1, 0, Len(client.head)}
    /\ pc \in {"parsed", "begin", "read", "parse"} => request_len = Len(client.head)
    /\ pc = "parsed" => ri = ParseMessage(SubSeq(client.head, 1, Len(client.head) - 1))
    /\ pc = "begin" => content_len = Announced
    /\ pc = "read" /\ Announced \in 1..Least(Cap, client.body) =>
         /\ content_len = Announced /\ fill <= Announced
         /\ request_buf = [i \in 1..Cap |-> IF i <= fill THEN [turn |-> turn, unit |-> Body[i]]
                                                       ELSE Zero]
    /\ BodyArrivesExactly
TypesInv == CoreInv /\ CellsOK /\ RepliesType

LEMMA InfiniteIsLong == Infinite \in Nat /\ Infinite >= 3 /\ Infinite > Len(Body) /\ Infinite > Cap
  BY HttpExchangeAssumption DEF Infinite

LEMMA ContentLenType == ASSUME NEW info PROVE ContentLen(info) \in Lengths
<1>1. \A word : Strtoll(word) \in Lengths
  BY InfiniteIsLong DEF Strtoll, Lengths
<1> HIDE DEF Lengths
<1>2. -1 \in Lengths /\ 0 \in Lengths
  BY InfiniteIsLong DEF Lengths
<1> QED BY <1>1, <1>2 DEF ContentLen

LEMMA ConcatFacts ==
  ASSUME NEW S, NEW a \in Seq(S), NEW b \in Seq(S)
  PROVE  /\ a \o b \in Seq(S) /\ Len(a \o b) = Len(a) + Len(b)
         /\ \A k \in 1..Len(a) : (a \o b)[k] = a[k]
         /\ \A k \in 1..Len(b) : (a \o b)[Len(a) + k] = b[k]
  OBVIOUS

LEMMA CoreNumbers ==
  ASSUME CoreInv
  PROVE  /\ Cap \in Nat \ {0} /\ BufSize \in Nat /\ turn \in {1, 2} /\ stop_flag \in {0, 1}
         /\ data_len \in 0..BufSize /\ request_len \in -1..BufSize
         /\ content_len \in Lengths /\ consumed \in 0..Cap /\ fill \in 0..Cap
  BY HttpExchangeAssumption DEF CoreInv, NumbersOK

LEMMA CellType == /\ Zero \in Cell
                  /\ \A k \in {1, 2}, u \in Units : [turn |-> k, unit |-> u] \in Cell
<1>1. Zero \in Cell
  <2>1. 0 \in 0..2 /\ "" \in {""} \cup Units
    OBVIOUS
  <2> QED BY <2>1 DEF Cell, Zero
<1>2. ASSUME NEW k \in {1, 2}, NEW u \in Units PROVE [turn |-> k, unit |-> u] \in Cell
  <2>1. k \in 0..2
    OBVIOUS
  <2>2. u \in {""} \cup Units
    BY Zenon
  <2> QED BY <2>1, <2>2 DEF Cell
<1> QED BY <1>1, <1>2

LEMMA StreamFacts ==
  ASSUME ClientOK
  PROVE  /\ client.head \in Seq(STRING) /\ client.body \in 0..Len(Body)
         /\ Body \in Seq(STRING) /\ Stream \in Seq(STRING)
         /\ Len(Stream) = Len(client.head) + client.body
         /\ \A k \in 1..Len(client.head) : Stream[k] = client.head[k]
         /\ \A k \in 1..client.body : Stream[Len(client.head) + k] = Body[k]
         /\ \A k \in 1..Len(Stream) : Stream[k] \in Units
<1>1. /\ client.head \in Seq(STRING) /\ client.body \in 0..Len(Body)
      /\ Body \in Seq(STRING)
  <2>1. Body \in Seq(STRING) /\ Len(Body) \in Nat
    BY HttpExchangeAssumption
  <2>2. CASE client = NoClient
    <3>1. client.head = <<>> /\ client.body = 0
      BY <2>2 DEF NoClient
    <3> QED BY <2>1, <3>1
  <2>3. CASE client \in Clients
    BY <2>1, <2>3, HttpExchangeAssumption
  <2> QED BY <2>1, <2>2, <2>3 DEF ClientOK
<1> DEFINE sent == SubSeq(Body, 1, client.body)
<1>2. /\ sent \in Seq(STRING) /\ Len(sent) = client.body
      /\ \A k \in 1..client.body : sent[k] = Body[k]
  BY <1>1
<1> HIDE DEF sent
<1>3. /\ Stream \in Seq(STRING) /\ Len(Stream) = Len(client.head) + client.body
      /\ \A k \in 1..Len(client.head) : Stream[k] = client.head[k]
      /\ \A k \in 1..client.body : Stream[Len(client.head) + k] = Body[k]
  <2>1. Stream = client.head \o sent
    BY DEF Stream, sent
  <2>2. Len(client.head) \in Nat /\ client.body \in Nat
    BY <1>1
  <2>3. client.head \in Seq(STRING) /\ sent \in Seq(STRING)
    BY <1>1, <1>2
  <2>4. /\ client.head \o sent \in Seq(STRING)
        /\ Len(client.head \o sent) = Len(client.head) + Len(sent)
        /\ \A k \in 1..Len(client.head) : (client.head \o sent)[k] = client.head[k]
        /\ \A k \in 1..Len(sent) : (client.head \o sent)[Len(client.head) + k] = sent[k]
    BY <2>3, ConcatFacts
  <2> QED BY <1>2, <2>1, <2>4
<1>4. ASSUME NEW k \in 1..Len(Stream) PROVE Stream[k] \in Units
  <2>1. CASE k \in 1..Len(client.head)
    <3>1. client \in Clients
      BY <2>1 DEF ClientOK, NoClient
    <3>2. client.head[k] \in ToSet(client.head)
      BY <1>1, <2>1 DEF ToSet
    <3> QED BY <1>3, <2>1, <3>1, <3>2 DEF Units
  <2>2. CASE k \notin 1..Len(client.head)
    <3>1. k - Len(client.head) \in 1..client.body
      BY <1>1, <1>3, <2>2
    <3>2. Stream[k] = Body[k - Len(client.head)]
      <4>1. k = Len(client.head) + (k - Len(client.head))
        BY <1>1
      <4> QED BY <1>3, <3>1, <4>1
    <3>3. Body[k - Len(client.head)] \in ToSet(Body)
      BY <1>1, <3>1 DEF ToSet
    <3> QED BY <3>2, <3>3 DEF Units
  <2> QED BY <2>1, <2>2
<1> QED BY <1>1, <1>3, <1>4

\* conn->buf, a prefix of the stream.
LEMMA BufFacts ==
  ASSUME ClientOK, data_len \in Nat, data_len <= Len(Stream)
  PROVE  Buf \in Seq(STRING) /\ Len(Buf) = data_len
         /\ \A k \in 1..data_len : Buf[k] = Stream[k]
  BY StreamFacts DEF Buf

\* What mg_read takes fits into the buffers and was sent.
LEMMA ReadCounts ==
  ASSUME CoreInv, pc = "read"
  PROVE  /\ Want \in 0..Room /\ Buffered \in 0..Want /\ Coming \in 0..Want - Buffered
         /\ Limit \in Lengths
         /\ request_len + consumed + Buffered + Coming <= Len(Stream)
         /\ Limit >= consumed => Want <= Limit - consumed
<1>1. /\ consumed = fill /\ fill \in 0..Cap /\ Cap \in Nat
      /\ data_len \in Nat /\ request_len \in Nat /\ Len(Stream) \in Nat
      /\ data_len <= Len(Stream) /\ request_len + consumed <= Len(Stream)
      /\ content_len \in Lengths /\ stop_flag \in {0, 1}
  <2>1. Len(Stream) \in Nat
    BY StreamFacts DEF CoreInv
  <2> QED BY <2>1, CoreNumbers DEF CoreInv, LengthsOK
<1>2. Limit \in Lengths /\ Limit \in Int
  BY <1>1, InfiniteIsLong DEF Limit, Lengths
<1>3. Want \in 0..Room /\ (Limit >= consumed => Want <= Limit - consumed)
  BY <1>1, <1>2 DEF Want, Room, Greatest, Least
<1>4. /\ Buffered \in 0..Want
      /\ data_len <= request_len + consumed => Buffered = 0
      /\ data_len > request_len + consumed => Buffered <= data_len - (request_len + consumed)
  BY <1>1, <1>3 DEF Buffered, Greatest, Least, Room
<1>5. Coming \in 0..Want - Buffered /\ Coming <= Len(Stream) - Received
  <2>1. Received \in 0..Len(Stream)
    BY <1>1 DEF Received, Greatest
  <2> QED BY <1>1, <1>3, <1>4, <2>1 DEF Coming, Least, Room
<1>6. request_len + consumed + Buffered + Coming <= Len(Stream)
  BY <1>1, <1>3, <1>4, <1>5 DEF Received, Greatest, Room
<1> QED BY <1>2, <1>3, <1>4, <1>5, <1>6

\* Reading stores units of the stream, with the number of the connection.
LEMMA StoreTypes ==
  ASSUME CoreInv, CellsOK, pc = "read", NEW n \in 0..Buffered + Coming, Store(n)
  PROVE  CellsOK'
<1>1. request_len \in Nat /\ consumed \in Nat /\ fill \in Nat /\ Len(Stream) \in Nat
      /\ Cap \in Nat /\ turn \in {1, 2} /\ request_len >= 1
  BY StreamFacts, CoreNumbers DEF CoreInv, LengthsOK
<1>2. Buffered \in Nat /\ Coming \in Nat /\ n \in Nat /\ n <= Buffered + Coming
      /\ request_len + consumed + Buffered + Coming <= Len(Stream)
  BY <1>1, ReadCounts DEF Room
<1>3. ASSUME NEW i \in 1..Cap
      PROVE  request_buf'[i] \in Cell
  <2>1. CASE i \in fill + 1..fill + n
    <3>1. request_len + consumed + i - fill \in 1..Len(Stream)
      BY <1>1, <1>2, <2>1
    <3>2. Stream[request_len + consumed + i - fill] \in Units
      BY <3>1, StreamFacts DEF CoreInv
    <3>3. request_buf'[i] = [turn |-> turn, unit |-> Stream[request_len + consumed + i - fill]]
      BY <2>1 DEF Store
    <3> QED BY <1>1, <3>2, <3>3, CellType
  <2>2. CASE i \notin fill + 1..fill + n
    <3>1. request_buf'[i] = request_buf[i]
      BY <2>2 DEF Store
    <3> QED BY <3>1 DEF CellsOK
  <2> QED BY <2>1, <2>2
<1> QED BY <1>3 DEF Store, CellsOK

LEMMA StreamLen == ClientOK => Len(Stream) \in Nat
  BY StreamFacts

LEMMA StreamNext == (ClientOK => Len(Stream) \in Nat)'
  BY StreamLen, PTL

\* discard_len: never more than what is in the buffer, never less than nothing.
LEMMA DiscardTypes == ASSUME CoreInv, Discard PROVE data_len' \in 0..data_len
<1>1. /\ data_len \in Nat /\ request_len \in Int /\ content_len \in Int
      /\ request_len <= data_len
  <2>1. content_len \in Lengths /\ Infinite \in Nat
    BY CoreNumbers, InfiniteIsLong
  <2> QED BY <2>1, CoreNumbers DEF Discard, CoreInv, LengthsOK, Lengths
<1>2. \A len \in DiscardLen : len \in 0..data_len
  BY <1>1 DEF DiscardLen, Least
<1>3. PICK len \in DiscardLen : data_len' = data_len - len
  BY DEF Discard
<1> QED BY <1>1, <1>2, <1>3

LEMMA CoreInit == Init => CoreInv
<1> SUFFICES ASSUME Init PROVE CoreInv
  OBVIOUS
<1>1. NumbersOK
  <2>1. 0 \in 0..BufSize /\ 0 \in -1..BufSize /\ 0 \in 0..Cap
    BY HttpExchangeAssumption
  <2>2. 0 \in Lengths
    BY InfiniteIsLong DEF Lengths
  <2> QED BY <2>1, <2>2 DEF Init, NumbersOK
<1>2. ClientOK
  BY DEF Init, ClientOK
<1>3. Len(Stream) \in Nat
  BY <1>2, StreamFacts
<1>4. LengthsOK
  BY <1>3 DEF Init, LengthsOK
<1> QED BY <1>1, <1>2, <1>4 DEF CoreInv

\* The steps before a request is read keep the numbers.
LEMMA HeadCore ==
  CoreInv /\ (Start \/ Stop \/ Accept \/ Pull \/ ReadRequest \/ Parse \/ GetReqFails) => CoreInv'
<1> SUFFICES ASSUME CoreInv,
                    Start \/ Stop \/ Accept \/ Pull \/ ReadRequest \/ Parse \/ GetReqFails
             PROVE  CoreInv'
  OBVIOUS
<1>1. CASE Start
  <2>1. NumbersOK'
    BY <1>1 DEF CoreInv, NumbersOK, Start, conn
  <2>2. ClientOK'
    BY <1>1 DEF CoreInv, ClientOK, Start, conn
  <2>3. LengthsOK'
    BY <1>1 DEF CoreInv, LengthsOK, Start, conn, Stream
  <2> QED BY <2>1, <2>2, <2>3 DEF CoreInv
<1>2. CASE Stop
  <2>1. NumbersOK'
    BY <1>2 DEF CoreInv, NumbersOK, Stop, conn
  <2>2. ClientOK'
    BY <1>2 DEF CoreInv, ClientOK, Stop, conn
  <2>3. LengthsOK'
    BY <1>2 DEF CoreInv, LengthsOK, Stop, conn, Stream
  <2> QED BY <2>1, <2>2, <2>3 DEF CoreInv
<1>3. CASE Accept
  <2>1. NumbersOK'
    <3>1. 0 \in 0..BufSize /\ 0 \in -1..BufSize /\ 0 \in 0..Cap
      BY HttpExchangeAssumption
    <3> QED BY <1>3, <3>1 DEF CoreInv, NumbersOK, Accept
  <2>2. ClientOK'
    BY <1>3 DEF Accept, ClientOK
  <2>3. Len(Stream') \in Nat
    BY <2>2, StreamNext
  <2>4. LengthsOK'
    BY <1>3, <2>3, CoreNumbers DEF LengthsOK, CoreInv, Accept
  <2> QED BY <2>1, <2>2, <2>4 DEF CoreInv
<1>4. CASE Pull
  <2>1. data_len' \in data_len..BufSize /\ data_len' <= Len(Stream)
    <3>1. PICK n \in 1..Least(BufSize - data_len, Len(Stream) - data_len) :
            data_len' = data_len + n
      BY <1>4 DEF Pull
    <3>2. Len(Stream) \in Nat
      BY StreamFacts DEF CoreInv
    <3> QED BY <3>1, <3>2, CoreNumbers, SMTT(30) DEF Least
  <2>2. data_len' \in 0..BufSize
    BY <2>1, CoreNumbers
  <2>3. NumbersOK'
    BY <1>4, <2>2 DEF CoreInv, NumbersOK, Pull
  <2>4. ClientOK' /\ Stream' = Stream
    BY <1>4 DEF CoreInv, ClientOK, Pull, Stream
  <2>5. LengthsOK'
    BY <1>4, <2>1, <2>4, CoreNumbers DEF CoreInv, LengthsOK, Pull
  <2> QED BY <2>3, <2>4, <2>5 DEF CoreInv
<1>5. CASE ReadRequest
  <2>1. request_len' \in -1..data_len
    <3>1. Buf \in Seq(STRING) /\ Len(Buf) = data_len /\ data_len \in Nat
      BY BufFacts, CoreNumbers DEF CoreInv, LengthsOK
    <3>2. GetRequestLen(Buf) \in -1..data_len
      BY <3>1, RequestLenInBuf
    <3> QED BY <1>5, <3>1, <3>2 DEF ReadRequest
  <2>2. request_len' \in -1..BufSize
    BY <2>1, CoreNumbers
  <2>3. NumbersOK'
    BY <1>5, <2>2 DEF CoreInv, NumbersOK, ReadRequest
  <2>4. ClientOK' /\ Stream' = Stream
    BY <1>5 DEF CoreInv, ClientOK, ReadRequest, Stream
  <2>5. LengthsOK'
    BY <1>5, <2>1, <2>4, CoreNumbers DEF CoreInv, LengthsOK, ReadRequest
  <2> QED BY <2>3, <2>4, <2>5 DEF CoreInv
<1>6. CASE Parse
  <2>1. NumbersOK'
    BY <1>6 DEF CoreInv, NumbersOK, Parse, conn
  <2>2. ClientOK'
    BY <1>6 DEF CoreInv, ClientOK, Parse, conn
  <2>3. LengthsOK'
    <3>1. Stream' = Stream
      BY <1>6 DEF Parse, Stream
    <3> QED BY <1>6, <3>1, CoreNumbers DEF CoreInv, LengthsOK, Parse
  <2> QED BY <2>1, <2>2, <2>3 DEF CoreInv
<1>7. CASE GetReqFails
  <2>1. NumbersOK'
    BY <1>7 DEF CoreInv, NumbersOK, GetReqFails, conn
  <2>2. ClientOK'
    BY <1>7 DEF CoreInv, ClientOK, GetReqFails, conn
  <2>3. LengthsOK'
    <3>1. Stream' = Stream
      BY <1>7 DEF GetReqFails, Stream
    <3> QED BY <1>7, <3>1 DEF CoreInv, LengthsOK, GetReqFails, NotARequest
  <2> QED BY <2>1, <2>2, <2>3 DEF CoreInv
<1> QED BY <1>1, <1>2, <1>3, <1>4, <1>5, <1>6, <1>7

\* So do those that handle it.
LEMMA HandleCore ==
  CoreInv /\ (InvalidLine \/ HandleRequest \/ BeginRequest \/ ParseAndReply \/ NotServed
                \/ Discard \/ Close) => CoreInv'
<1> SUFFICES ASSUME CoreInv,
                    InvalidLine \/ HandleRequest \/ BeginRequest \/ ParseAndReply
                      \/ NotServed \/ Discard \/ Close
             PROVE  CoreInv'
  OBVIOUS
<1>1. CASE InvalidLine
  <2>1. NumbersOK'
    BY <1>1, ContentLenType DEF CoreInv, NumbersOK, InvalidLine, conn
  <2>2. ClientOK'
    BY <1>1 DEF CoreInv, ClientOK, InvalidLine, conn
  <2>3. LengthsOK'
    BY <1>1 DEF CoreInv, LengthsOK, InvalidLine, conn, Stream
  <2> QED BY <2>1, <2>2, <2>3 DEF CoreInv
<1>2. CASE HandleRequest
  <2>1. NumbersOK'
    BY <1>2, ContentLenType DEF CoreInv, NumbersOK, HandleRequest, conn
  <2>2. ClientOK'
    BY <1>2 DEF CoreInv, ClientOK, HandleRequest, conn
  <2>3. LengthsOK'
    BY <1>2 DEF CoreInv, LengthsOK, HandleRequest, conn, Stream
  <2> QED BY <2>1, <2>2, <2>3 DEF CoreInv
<1>3. CASE BeginRequest
  <2>1. NumbersOK'
    BY <1>3, HttpExchangeAssumption DEF CoreInv, NumbersOK, BeginRequest, conn
  <2>2. ClientOK'
    BY <1>3 DEF CoreInv, ClientOK, BeginRequest, conn
  <2>3. LengthsOK'
    BY <1>3, CoreNumbers, StreamFacts DEF CoreInv, LengthsOK, BeginRequest, conn, Stream
  <2> QED BY <2>1, <2>2, <2>3 DEF CoreInv
<1>4. CASE ParseAndReply
  <2>1. NumbersOK'
    BY <1>4 DEF CoreInv, NumbersOK, ParseAndReply, conn
  <2>2. ClientOK'
    BY <1>4 DEF CoreInv, ClientOK, ParseAndReply, conn
  <2>3. LengthsOK'
    BY <1>4 DEF CoreInv, LengthsOK, ParseAndReply, conn, Stream
  <2> QED BY <2>1, <2>2, <2>3 DEF CoreInv
<1>5. CASE NotServed
  <2>1. NumbersOK'
    <3>1. status' \in {200, 404} /\ pc' = "discard"
      BY <1>5 DEF NotServed
    <3>2. status' \in {-1, 200, 400, 404, 500, 505}
      BY <3>1
    <3>3. UNCHANGED <<stop_flag, turn, data_len, request_len, content_len, consumed,
                      must_close, fill>>
      BY <1>5 DEF NotServed, conn
    <3> QED BY <3>1, <3>2, <3>3 DEF CoreInv, NumbersOK
  <2>2. ClientOK'
    BY <1>5 DEF CoreInv, ClientOK, NotServed, conn
  <2>3. LengthsOK'
    BY <1>5 DEF CoreInv, LengthsOK, NotServed, conn, Stream
  <2> QED BY <2>1, <2>2, <2>3 DEF CoreInv
<1>6. CASE Discard
  <2>1. data_len' \in 0..data_len
    BY <1>6, DiscardTypes
  <2>2. data_len' \in 0..BufSize
    BY <2>1, CoreNumbers
  <2>3. NumbersOK'
    BY <1>6, <2>2 DEF CoreInv, NumbersOK, Discard
  <2>4. ClientOK' /\ Stream' = Stream
    BY <1>6 DEF CoreInv, ClientOK, Discard, Stream
  <2>5. Len(Stream) \in Nat
    BY StreamFacts DEF CoreInv
  <2>6. LengthsOK'
    BY <1>6, <2>1, <2>4, <2>5, CoreNumbers DEF CoreInv, LengthsOK, Discard
  <2> QED BY <2>3, <2>4, <2>6 DEF CoreInv
<1>7. CASE Close
  <2>1. NumbersOK'
    BY <1>7, HttpExchangeAssumption DEF CoreInv, NumbersOK, Close
  <2>2. ClientOK'
    BY <1>7 DEF Close, ClientOK
  <2>3. Len(Stream') \in Nat
    BY <2>2, StreamNext
  <2>4. LengthsOK'
    BY <1>7, <2>3 DEF LengthsOK, Close
  <2> QED BY <2>1, <2>2, <2>4 DEF CoreInv
<1> QED BY <1>1, <1>2, <1>3, <1>4, <1>5, <1>6, <1>7

\* The reads of the service keep them, too.
\* The numbers of a read: what it adds fits into the buffer, and is in the stream.
LEMMA ReadNumbers ==
  ASSUME CoreInv, pc = "read"
  PROVE  /\ Buffered \in Nat /\ Coming \in Nat /\ Buffered + Coming <= Cap - fill
         /\ request_len + consumed + Buffered + Coming <= Len(Stream) /\ Len(Stream) \in Nat
         /\ Limit \in Lengths /\ fill \in Nat /\ Cap \in Nat /\ consumed = fill
<1>1. /\ Want \in 0..Room /\ Buffered \in 0..Want /\ Coming \in 0..Want - Buffered
      /\ Limit \in Lengths
      /\ request_len + consumed + Buffered + Coming <= Len(Stream)
  BY ReadCounts
<1>2. fill \in 0..Cap /\ Cap \in Nat /\ Room = Cap - fill
  BY CoreNumbers DEF Room
<1>3. Len(Stream) \in Nat
  BY StreamFacts DEF CoreInv
<1>4. consumed = fill
  BY DEF CoreInv, LengthsOK
<1>5. Room \in Nat /\ Want \in Nat /\ Want <= Cap - fill
  BY <1>1, <1>2
<1>6. Buffered \in Nat /\ Coming \in Nat /\ Buffered + Coming <= Want
  BY <1>1, <1>5
<1>7. Buffered + Coming <= Cap - fill
  BY <1>2, <1>5, <1>6
<1> QED BY <1>1, <1>2, <1>3, <1>4, <1>6, <1>7

LEMMA ReadCore == CoreInv /\ (ReadSome \/ ReadEnds \/ ReadStopped) => CoreInv'
<1> SUFFICES ASSUME CoreInv, ReadSome \/ ReadEnds \/ ReadStopped PROVE CoreInv'
  OBVIOUS
<1>1. pc = "read"
  BY DEF ReadSome, ReadEnds, ReadStopped
<1>2. /\ Buffered \in Nat /\ Coming \in Nat /\ Buffered + Coming <= Cap - fill
      /\ request_len + consumed + Buffered + Coming <= Len(Stream) /\ Len(Stream) \in Nat
      /\ Limit \in Lengths
  BY <1>1, ReadNumbers
<1>3. consumed = fill /\ fill \in Nat /\ Cap \in Nat
  BY <1>1, ReadNumbers
<1>4. ClientOK' /\ Stream' = Stream /\ UNCHANGED <<turn, data_len, request_len, status>>
  BY DEF CoreInv, ClientOK, Stream, ReadSome, ReadEnds, ReadStopped
<1>5. content_len' \in Lengths /\ must_close' \in BOOLEAN
  <2>1. content_len \in Lengths /\ must_close \in BOOLEAN
    BY DEF CoreInv, NumbersOK
  <2>2. SetLimit \/ UNCHANGED <<content_len, must_close>>
    BY DEF ReadSome, ReadEnds, ReadStopped
  <2> QED BY <1>2, <2>1, <2>2 DEF SetLimit
<1>6. CASE ReadSome
  <2>1. /\ consumed' = consumed + (Buffered + Coming) /\ fill' = fill + (Buffered + Coming)
        /\ UNCHANGED <<stop_flag, pc>>
    BY <1>6 DEF ReadSome
  <2>2. consumed' \in 0..Cap /\ fill' \in 0..Cap
    <3>1. fill + (Buffered + Coming) \in 0..Cap
      BY <1>2, <1>3
    <3> QED BY <1>3, <2>1, <3>1
  <2>3. NumbersOK'
    BY <1>4, <1>5, <2>1, <2>2 DEF CoreInv, NumbersOK
  <2>4. LengthsOK'
    BY <1>1, <1>2, <1>3, <1>4, <2>1, CoreNumbers DEF CoreInv, LengthsOK
  <2> QED BY <1>4, <2>3, <2>4 DEF CoreInv
<1>7. CASE ReadEnds \/ ReadStopped
  <2>1. /\ consumed' \in {consumed + (Buffered + Coming), consumed + Buffered}
        /\ pc' = "parse" /\ stop_flag' \in {stop_flag, 1} /\ UNCHANGED fill
    BY <1>7 DEF ReadEnds, ReadStopped
  <2>2. consumed' \in 0..Cap
    <3>1. fill + (Buffered + Coming) \in 0..Cap /\ fill + Buffered \in 0..Cap
      BY <1>2, <1>3
    <3> QED BY <1>3, <2>1, <3>1
  <2>3. NumbersOK'
    BY <1>4, <1>5, <2>1, <2>2 DEF CoreInv, NumbersOK
  <2>4. LengthsOK'
    BY <1>1, <1>4, <2>1 DEF CoreInv, LengthsOK
  <2> QED BY <1>4, <2>3, <2>4 DEF CoreInv
<1> QED BY <1>6, <1>7

LEMMA CoreNext == CoreInv /\ [Next]_vars => CoreInv'
<1> SUFFICES ASSUME CoreInv, [Next]_vars PROVE CoreInv'
  OBVIOUS
<1>1. CASE Next
  BY <1>1, HeadCore, HandleCore, ReadCore DEF Next, Worker
<1>2. CASE UNCHANGED vars
  <2>1. NumbersOK'
    BY <1>2 DEF CoreInv, NumbersOK, vars, conn
  <2>2. ClientOK'
    BY <1>2 DEF CoreInv, ClientOK, vars, conn
  <2>3. LengthsOK'
    BY <1>2 DEF CoreInv, LengthsOK, vars, conn, Stream
  <2> QED BY <2>1, <2>2, <2>3 DEF CoreInv
<1> QED BY <1>1, <1>2


\* What is in the request buffer is zeros or units that clients sent.
LEMMA CellsKeep == CoreInv /\ CellsOK /\ [Next]_vars => CellsOK'
<1> SUFFICES ASSUME CoreInv, CellsOK, [Next]_vars PROVE CellsOK'
  OBVIOUS
<1>1. CASE UNCHANGED request_buf
  BY <1>1 DEF CellsOK
<1>2. CASE request_buf' = [i \in 1..Cap |-> Zero]
  BY <1>2, CellType DEF CellsOK
<1>3. CASE ReadSome \/ ReadEnds \/ ReadStopped
  <2>1. pc = "read"
    BY <1>3 DEF ReadSome, ReadEnds, ReadStopped
  <2>2. Buffered \in Nat /\ Coming \in Nat
    BY <2>1, ReadCounts, CoreNumbers DEF Room
  <2>3. PICK n \in 0..Buffered + Coming : Store(n)
    <3>1. CASE ReadStopped
      <4>1. PICK m \in 0..Coming : Store(Buffered + m)
        BY <3>1 DEF ReadStopped
      <4>2. Buffered + m \in 0..Buffered + Coming
        BY <2>2
      <4> QED BY <4>1, <4>2
    <3>2. CASE ReadSome \/ ReadEnds
      <4>1. Buffered + Coming \in 0..Buffered + Coming
        BY <2>2
      <4> QED BY <3>2, <4>1 DEF ReadSome, ReadEnds
    <3> QED BY <1>3, <3>1, <3>2
  <2> QED BY <2>1, <2>3, StoreTypes
<1>4. CASE ~(ReadSome \/ ReadEnds \/ ReadStopped)
  <2>1. UNCHANGED request_buf \/ request_buf' = [i \in 1..Cap |-> Zero]
    BY <1>4 DEF Next, Worker, vars, Start, Stop, Accept, Pull, ReadRequest, Parse,
                GetReqFails, InvalidLine, HandleRequest, BeginRequest, ParseAndReply,
                NotServed, Discard, Close
  <2> QED BY <1>1, <1>2, <2>1
<1> QED BY <1>3, <1>4

-----------------------------------------------------------------------------
(* Replies *)

\* What the client sees of a result, behind the headers.
Seen(text, n) == SubSeq(text, 2, Least(n + 1, Len(text)))

\* In the response to a client that reads, the character that mg_vprintf loses is the line
\* end behind the result.
LEMMA ResultSeen ==
  ASSUME ClientOK, NEW n \in 0..Len(ResultText),
         NEW text \in Sent(Printed(ResponseText(Result(n))))
  PROVE  Seen(text, n) \in Seq(Texts) /\ (client.reads => Seen(text, n) = Result(n))
<1> DEFINE response == ResponseText(Result(n))
           printed  == Printed(response)
<1>1. /\ Result(n) \in Seq(Texts) /\ Len(Result(n)) = n /\ n \in Nat
      /\ MemSize \in Nat \ {0}
  BY HttpExchangeAssumption DEF Result, Texts
<1>2. /\ response \in Seq(Texts) /\ Len(response) = n + 2
      /\ \A k \in 1..n : response[k + 1] = Result(n)[k]
  <2>1. <<"header">> \in Seq(Texts) /\ Len(<<"header">>) = 1
    BY DEF Texts
  <2>2. <<"LF">> \in Seq(Texts) /\ Len(<<"LF">>) = 1
    BY DEF Texts
  <2> DEFINE front == <<"header">> \o Result(n)
  <2>3. /\ front \in Seq(Texts) /\ Len(front) = n + 1
        /\ \A k \in 1..n : front[k + 1] = Result(n)[k]
    BY <1>1, <2>1
  <2>4. response = front \o <<"LF">>
    BY DEF ResponseText
  <2> HIDE DEF front
  <2> QED BY <1>1, <2>2, <2>3, <2>4
<1> HIDE DEF response
<1>3. /\ printed \in Seq(Texts) /\ Len(printed) = n + 2
      /\ \A k \in 1..n : printed[k + 1] = Result(n)[k]
  <2>1. CASE Len(response) = MemSize
    <3>1. printed = [response EXCEPT ![n + 2] = "NUL"] /\ "NUL" \in Texts
      BY <1>2, <2>1 DEF Printed, Texts
    <3> QED BY <1>1, <1>2, <3>1
  <2>2. CASE Len(response) # MemSize
    BY <1>2, <2>2 DEF Printed
  <2> QED BY <2>1, <2>2
<1> HIDE DEF printed
<1>4. CASE client.reads
  <2>1. text = printed
    BY <1>4 DEF Sent, response, printed
  <2>2. Seen(text, n) = SubSeq(printed, 2, n + 1)
    BY <1>1, <1>3, <2>1 DEF Seen, Least
  <2>3. /\ Seen(text, n) \in Seq(Texts) /\ Len(Seen(text, n)) = n
        /\ \A k \in 1..n : Seen(text, n)[k] = printed[k + 1]
    BY <1>1, <1>3, <2>2
  <2>4. \A k \in 1..n : Seen(text, n)[k] = Result(n)[k]
    BY <1>3, <2>3
  <2> QED BY <1>1, <2>3, <2>4, SameSeq
<1>5. CASE ~client.reads
  <2>1. PICK m \in 0..Len(printed) : text = SubSeq(printed, 1, m)
    BY <1>5 DEF Sent, response, printed
  <2>2. text \in Seq(Texts)
    BY <1>3, <2>1
  <2>3. Seen(text, n) \in Seq(Texts)
    BY <1>1, <2>2 DEF Seen, Least
  <2> QED BY <1>5, <2>3
<1> QED BY <1>4, <1>5

LEMMA AppendReply ==
  ASSUME RepliesType, ResultArrivesWhole, UNCHANGED client,
         NEW reply \in Replies, replies' = Append(replies, reply),
         reply.what = "result" /\ client.reads => reply.text = Result(reply.length)
  PROVE  RepliesType' /\ replies' # <<>> /\ ResultArrivesWhole'
<1>1. /\ replies' \in Seq(Replies) /\ Len(replies') = Len(replies) + 1 /\ Len(replies) \in Nat
      /\ replies'[Len(replies) + 1] = reply
      /\ \A i \in 1..Len(replies) : replies'[i] = replies[i]
  BY DEF RepliesType
<1>2. ASSUME NEW i \in DOMAIN replies', replies'[i].what = "result", client'.reads
      PROVE  replies'[i].text = Result(replies'[i].length)
  <2>1. CASE i = Len(replies) + 1
    BY <1>1, <1>2, <2>1
  <2>2. CASE i # Len(replies) + 1
    <3>1. i \in 1..Len(replies) /\ i \in DOMAIN replies
      BY <1>1, <2>2 DEF RepliesType
    <3> QED BY <1>1, <1>2, <3>1 DEF ResultArrivesWhole
  <2> QED BY <2>1, <2>2
<1> QED BY <1>1, <1>2 DEF RepliesType, ResultArrivesWhole

LEMMA Refusal ==
  ASSUME RepliesType, ResultArrivesWhole, UNCHANGED client,
         NEW what \in {"error", "refused", "options", "not found"}, Reply(what)
  PROVE  RepliesType' /\ replies' # <<>> /\ ResultArrivesWhole'
<1>1. [what |-> what] \in Replies /\ [what |-> what].what # "result"
  BY DEF Replies
<1> QED BY <1>1, AppendReply DEF Reply

RepliesInv == RepliesType /\ RepliesOK

LEMMA RepliesInit == Init => RepliesInv
  BY DEF Init, RepliesInv, RepliesType, RepliesOK, ResultArrivesWhole

LEMMA RepliesNext == CoreInv /\ RepliesInv /\ [Next]_vars => RepliesInv'
<1> SUFFICES ASSUME CoreInv, RepliesInv, [Next]_vars PROVE RepliesInv'
  OBVIOUS
<1>1. RepliesType /\ ResultArrivesWhole
  BY DEF RepliesInv, RepliesOK
<1>2. CASE UNCHANGED <<replies, client>> /\ pc' = pc
  BY <1>2 DEF RepliesInv, RepliesType, RepliesOK, ResultArrivesWhole
<1>3. CASE Start \/ Stop \/ Pull \/ ReadSome \/ UNCHANGED vars
  BY <1>2, <1>3 DEF Start, Stop, Pull, ReadSome, vars, conn
<1>4. CASE Accept
  BY <1>4 DEF Accept, RepliesInv, RepliesType, RepliesOK, ResultArrivesWhole
<1>5. CASE UNCHANGED <<replies, client>> /\ pc' \in {"parsehead", "parsed", "begin", "read", "parse"}
  BY <1>5 DEF RepliesInv, RepliesType, RepliesOK, ResultArrivesWhole
<1>6. CASE ReadRequest \/ Parse \/ HandleRequest \/ ReadEnds \/ ReadStopped
  BY <1>5, <1>6 DEF ReadRequest, Parse, HandleRequest, ReadEnds, ReadStopped
<1>7. CASE GetReqFails \/ InvalidLine
  <2>1. Reply("error") /\ UNCHANGED client /\ pc' = "discard"
    BY <1>7 DEF GetReqFails, InvalidLine
  <2> QED BY <1>1, <2>1, Refusal DEF RepliesInv, RepliesOK
<1>8. CASE BeginRequest
  <2>1. CASE Reply("refused") /\ pc' = "unserved"
    <3>1. UNCHANGED client
      BY <1>8 DEF BeginRequest, conn
    <3> QED BY <1>1, <2>1, <3>1, Refusal DEF RepliesInv, RepliesOK
  <2>2. CASE UNCHANGED replies /\ pc' = "read"
    BY <1>5, <1>8, <2>2 DEF BeginRequest, conn
  <2> QED BY <1>8, <2>1, <2>2 DEF BeginRequest
<1>9. CASE ParseAndReply
  <2>1. UNCHANGED client /\ pc' = "unserved"
    BY <1>9 DEF ParseAndReply, conn
  <2>2. CASE Reply("error")
    BY <1>1, <2>1, <2>2, Refusal DEF RepliesInv, RepliesOK
  <2>3. CASE ~Reply("error")
    <3>1. PICK n \in 0..Len(ResultText) : ReplyResult(n)
      BY <1>9, <2>3 DEF ParseAndReply
    <3>2. PICK text \in Sent(Printed(ResponseText(Result(n)))) :
            replies' = Append(replies, [what |-> "result", length |-> n,
                                        text |-> Seen(text, n)])
      BY <3>1 DEF ReplyResult, Seen
    <3> DEFINE reply == [what |-> "result", length |-> n, text |-> Seen(text, n)]
    <3>3. Seen(text, n) \in Seq(Texts) /\ (client.reads => Seen(text, n) = Result(n))
      BY ResultSeen DEF CoreInv
    <3>4. reply \in Replies
      BY <3>3 DEF Replies
    <3>5. reply.what = "result" /\ client.reads => reply.text = Result(reply.length)
      BY <3>3
    <3> HIDE DEF reply
    <3> QED BY <1>1, <2>1, <3>2, <3>4, <3>5, AppendReply DEF reply, RepliesInv, RepliesOK
  <2> QED BY <2>2, <2>3
<1>10. CASE NotServed
  <2>1. UNCHANGED client /\ pc' = "discard"
    BY <1>10 DEF NotServed, conn
  <2>2. Reply("options") \/ Reply("not found")
    BY <1>10 DEF NotServed
  <2> QED BY <1>1, <2>1, <2>2, Refusal DEF RepliesInv, RepliesOK
<1>11. CASE Discard
  BY <1>11 DEF Discard, RepliesInv, RepliesType, RepliesOK, ResultArrivesWhole
<1>12. CASE Close
  BY <1>12 DEF Close, RepliesInv, RepliesType, RepliesOK, ResultArrivesWhole
<1> QED BY <1>3, <1>4, <1>6, <1>7, <1>8, <1>9, <1>10, <1>11, <1>12 DEF Next, Worker

-----------------------------------------------------------------------------
(* The request buffer *)

\* No unit of another connection is in the buffer while the service reads and parses.
LEMMA BufferNext == CoreInv /\ CellsOK /\ BufferOK /\ [Next]_vars => BufferOK'
<1> SUFFICES ASSUME CoreInv, CellsOK, BufferOK, [Next]_vars, pc' \in {"read", "parse"},
                    NEW i \in 1..Cap
             PROVE  request_buf'[i].turn \in {0, turn'}
  BY DEF BufferOK
<1>1. CASE UNCHANGED <<pc, turn, request_buf>>
  BY <1>1 DEF BufferOK
<1>2. CASE BeginRequest
  BY <1>2 DEF BeginRequest, Zero
<1>3. CASE ReadSome \/ ReadEnds \/ ReadStopped
  <2>1. PICK n : Store(n)
    BY <1>3 DEF ReadSome, ReadEnds, ReadStopped
  <2>2. request_buf'[i] = IF i \in fill + 1..fill + n
                          THEN [turn |-> turn, unit |-> Stream[request_len + consumed + i - fill]]
                          ELSE request_buf[i]
    BY <2>1 DEF Store
  <2>3. pc = "read" /\ turn' = turn
    BY <1>3 DEF ReadSome, ReadEnds, ReadStopped
  <2>4. request_buf[i].turn \in {0, turn}
    BY <2>3 DEF BufferOK
  <2> QED BY <2>2, <2>3, <2>4
<1>4. CASE ~(BeginRequest \/ ReadSome \/ ReadEnds \/ ReadStopped)
  <2>1. UNCHANGED <<pc, turn, request_buf>>
    BY <1>4 DEF Next, Worker, vars, conn, Start, Stop, Accept, Pull, ReadRequest, Parse,
                GetReqFails, InvalidLine, HandleRequest, ParseAndReply, NotServed,
                Discard, Close
  <2> QED BY <1>1, <2>1
<1> QED BY <1>2, <1>3, <1>4

-----------------------------------------------------------------------------
(* A body that was announced *)

\* read_request finds the end of the head, however much of the stream has come.
LEMMA HeadRead ==
  ASSUME CoreInv, IsHead(client.head), ReadRequest
  PROVE  request_len' \in {-1, 0, Len(client.head)}
<1>1. Buf \in Seq(STRING) /\ Len(Buf) = data_len /\ \A k \in 1..data_len : Buf[k] = Stream[k]
  BY BufFacts, CoreNumbers DEF CoreInv, LengthsOK
<1>2. /\ client.head \in Seq(STRING)
      /\ \A k \in 1..Len(client.head) : Stream[k] = client.head[k]
  BY StreamFacts DEF CoreInv
<1>3. \A s \in 1..Len(client.head) : s <= Len(Buf) => Buf[s] = client.head[s]
  BY <1>1, <1>2, CoreNumbers
<1>4. GetRequestLen(Buf) \in {0, Len(client.head)}
  BY <1>1, <1>2, <1>3, HeadFound
<1> QED BY <1>4 DEF ReadRequest

\* What it parses is the head that the client sent.
LEMMA HeadParsed ==
  ASSUME CoreInv, Parse, request_len = Len(client.head)
  PROVE  SubSeq(Buf, 1, request_len - 1) = SubSeq(client.head, 1, Len(client.head) - 1)
<1> DEFINE L == Len(client.head)
           a == SubSeq(Buf, 1, L - 1)
           b == SubSeq(client.head, 1, L - 1)
<1>1. Buf \in Seq(STRING) /\ Len(Buf) = data_len /\ \A k \in 1..data_len : Buf[k] = Stream[k]
  BY BufFacts, CoreNumbers DEF CoreInv, LengthsOK
<1>2. /\ client.head \in Seq(STRING) /\ L \in Nat \ {0} /\ L <= data_len /\ data_len \in Nat
      /\ \A k \in 1..L : Stream[k] = client.head[k]
  BY StreamFacts, CoreNumbers DEF CoreInv, LengthsOK, Parse
<1>3. a \in Seq(STRING) /\ Len(a) = L - 1 /\ \A k \in 1..L - 1 : a[k] = Buf[k]
  BY <1>1, <1>2
<1>4. b \in Seq(STRING) /\ Len(b) = L - 1 /\ \A k \in 1..L - 1 : b[k] = client.head[k]
  BY <1>2
<1>5. \A k \in 1..Len(a) : a[k] = b[k]
  BY <1>1, <1>2, <1>3, <1>4
<1> HIDE DEF a, b
<1>6. a = b
  BY <1>3, <1>4, <1>5, SameSeq
<1> QED BY <1>6 DEF a, b

\* The buffer of the service with the first n units of the body in it.
Filled(n) == [i \in 1..Cap |-> IF i <= n THEN [turn |-> turn, unit |-> Body[i]] ELSE Zero]

\* A read appends the next units.
LEMMA StoreAppends ==
  ASSUME CoreInv, pc = "read", NEW n \in 0..Buffered + Coming, Store(n),
         request_len = Len(client.head), request_buf = Filled(fill)
  PROVE  request_buf' = Filled(fill + n) /\ fill + n <= client.body
<1>1. /\ fill = consumed /\ fill \in Nat /\ Cap \in Nat /\ n \in Nat
      /\ Buffered \in Nat /\ Coming \in Nat /\ Len(client.head) \in Nat
      /\ Len(client.head) + consumed + Buffered + Coming <= Len(Stream)
      /\ Len(Stream) = Len(client.head) + client.body /\ client.body \in Nat
  <2>1. /\ fill = consumed /\ fill \in Nat /\ Cap \in Nat
        /\ Buffered \in Nat /\ Coming \in Nat
        /\ request_len + consumed + Buffered + Coming <= Len(Stream)
    BY ReadNumbers
  <2>2. /\ Len(Stream) = Len(client.head) + client.body /\ client.body \in Nat
        /\ Len(client.head) \in Nat
    <3>1. ClientOK
      BY DEF CoreInv
    <3> QED BY <3>1, StreamFacts
  <2>3. n \in Nat
    BY <2>1
  <2> QED BY <2>1, <2>2, <2>3
<1>2. fill + n <= client.body
  BY <1>1
<1>3. ASSUME NEW i \in 1..Cap
      PROVE  (IF i \in fill + 1..fill + n
              THEN [turn |-> turn, unit |-> Stream[request_len + consumed + i - fill]]
              ELSE request_buf[i])
               = (IF i <= fill + n THEN [turn |-> turn, unit |-> Body[i]] ELSE Zero)
  <2>1. CASE i \in fill + 1..fill + n
    <3>1. i \in 1..client.body /\ request_len + consumed + i - fill = Len(client.head) + i
      BY <1>1, <1>2, <2>1
    <3>2. Stream[Len(client.head) + i] = Body[i]
      BY <3>1, StreamFacts DEF CoreInv
    <3>3. Stream[request_len + consumed + i - fill] = Body[i]
      BY <3>1, <3>2
    <3>4. i <= fill + n
      BY <1>1, <2>1
    <3> QED BY <2>1, <3>3, <3>4
  <2>2. CASE i \notin fill + 1..fill + n
    <3>1. i <= fill + n <=> i <= fill
      BY <1>1, <2>2
    <3> QED BY <2>2, <3>1 DEF Filled
  <2> QED BY <2>1, <2>2
<1> QED BY <1>2, <1>3 DEF Store, Filled

\* As long as the server runs, mg_read ends only when it has all of the content.
LEMMA ReadsAll ==
  ASSUME CoreInv, ReadEnds, stop_flag = 0, request_len = Len(client.head),
         content_len \in 1..Least(Cap, client.body), fill <= content_len
  PROVE  fill + (Buffered + Coming) = content_len
<1>1. pc = "read" /\ fill = consumed
  BY DEF ReadEnds, CoreInv, LengthsOK
<1>2. /\ client.body \in Nat /\ Cap \in Nat /\ fill \in 0..Cap /\ Len(client.head) \in Nat
      /\ Len(Stream) = Len(client.head) + client.body
      /\ data_len \in Nat /\ data_len <= Len(Stream)
  BY StreamFacts, CoreNumbers DEF CoreInv, LengthsOK
<1>3. content_len \in Nat /\ content_len <= Cap /\ content_len <= client.body /\ content_len >= 1
  BY <1>2 DEF Least
<1>4. Limit = content_len
  BY <1>3 DEF Limit, Unset
<1>5. Want = content_len - fill
  BY <1>1, <1>2, <1>3, <1>4 DEF Want, Room, Greatest, Least
<1>6. /\ Buffered \in Nat /\ Coming \in Nat /\ Buffered + Coming <= Want
      /\ Buffered + Coming = 0 \/ Buffered + Coming < Want
  <2>1. Buffered + Coming = 0 \/ Buffered + Coming < Want
    BY DEF ReadEnds
  <2>2. Buffered \in 0..Want /\ Coming \in 0..Want - Buffered /\ Want \in Int
    BY <1>1, <1>2, <1>3, <1>5, ReadCounts
  <2> QED BY <2>1, <2>2
<1>7. Coming = Want - Buffered \/ Coming = Len(Stream) - Received
  BY DEF Coming, Least
<1>8. CASE data_len >= Len(client.head) + fill
  <2>1. Received = data_len
    BY <1>1, <1>2, <1>8, SMTT(30) DEF Received, Greatest
  <2>2. Buffered = Want \/ Buffered = data_len - (Len(client.head) + fill)
    BY <1>1, <1>2, <1>8, SMTT(30) DEF Buffered, Greatest, Least
  <2>3. Buffered + Coming >= Want
    <3>1. CASE Coming = Want - Buffered
      BY <1>2, <1>3, <1>5, <1>6, <3>1
    <3>2. CASE Coming = Len(Stream) - Received /\ Buffered = Want
      BY <1>2, <1>3, <1>5, <1>6, <3>2
    <3>3. CASE /\ Coming = Len(Stream) - Received
               /\ Buffered = data_len - (Len(client.head) + fill)
      <4>1. /\ Coming = Len(client.head) + client.body - data_len
            /\ Buffered = data_len - (Len(client.head) + fill)
        BY <1>2, <2>1, <3>3
      <4>2. Buffered + Coming = client.body - fill
        <5> DEFINE h == Len(client.head)
                   b == client.body
        <5>1. h \in Nat /\ b \in Nat /\ data_len \in Nat /\ fill \in Nat
          BY <1>2
        <5>2. Buffered = data_len - (h + fill) /\ Coming = h + b - data_len
          BY <4>1, <1>2
        <5> HIDE DEF h, b
        <5>3. Buffered + Coming = b - fill
          BY <5>1, <5>2
        <5> QED BY <5>3 DEF b
      <4> QED BY <1>2, <1>3, <1>5, <4>2
    <3> QED BY <1>7, <2>2, <3>1, <3>2, <3>3
  <2> QED BY <1>2, <1>3, <1>5, <1>6, <2>3
<1>9. CASE data_len < Len(client.head) + fill
  <2>1. Received = Len(client.head) + fill
    BY <1>1, <1>2, <1>9, SMTT(30) DEF Received, Greatest
  <2>2. Buffered = 0
    BY <1>1, <1>2, <1>5, <1>3, <1>9, SMTT(30) DEF Buffered, Greatest, Least
  <2>3. Coming = Want \/ Coming = client.body - fill
    <3>1. Want - Buffered = Want
      BY <1>2, <1>3, <1>5, <2>2
    <3>2. Len(Stream) - Received = client.body - fill
      <4> DEFINE h == Len(client.head)
                 b == client.body
      <4>1. h \in Nat /\ b \in Nat /\ fill \in Nat /\ Len(Stream) = h + b /\ Received = h + fill
        BY <1>2, <2>1
      <4> HIDE DEF h, b
      <4>2. Len(Stream) - Received = b - fill
        BY <4>1
      <4> QED BY <4>2 DEF b
    <3> QED BY <1>7, <3>1, <3>2
  <2>4. Want <= client.body - fill /\ Want \in Int
    BY <1>2, <1>3, <1>5
  <2>5. Buffered + Coming >= Want
    BY <1>2, <2>2, <2>3, <2>4
  <2> QED BY <1>2, <1>3, <1>5, <1>6, <2>5
<1> QED BY <1>2, <1>8, <1>9

\* Within mg_read the content length of a body that was announced stays what it was.
LEMMA LimitStays ==
  ASSUME SetLimit, content_len >= 1, content_len \in Nat PROVE content_len' = content_len
  BY DEF SetLimit, Limit, Unset

LEMMA BodyReads ==
  ASSUME CoreInv, BodyOK, ReadSome \/ ReadEnds \/ ReadStopped PROVE BodyOK'
<1> SUFFICES ASSUME IsHead(client.head) PROVE BodyOK'
  <2>1. UNCHANGED client
    BY DEF ReadSome, ReadEnds, ReadStopped
  <2> QED BY <2>1 DEF BodyOK
<1>1. /\ pc = "read" /\ UNCHANGED <<client, turn, request_len>> /\ SetLimit
      /\ pc' \in {"read", "parse"}
  BY DEF ReadSome, ReadEnds, ReadStopped
<1>2. request_len = Len(client.head) /\ Announced' = Announced
  BY <1>1 DEF BodyOK, Announced
<1>3. Buffered \in Nat /\ Coming \in Nat
  BY <1>1, ReadCounts, CoreNumbers DEF Room
<1>4. CASE Announced \notin 1..Least(Cap, client.body)
  BY <1>1, <1>2, <1>4 DEF BodyOK, BodyArrivesExactly
<1>5. CASE Announced \in 1..Least(Cap, client.body)
  <2>1. content_len = Announced /\ fill <= Announced /\ request_buf = Filled(fill)
    BY <1>1, <1>5 DEF BodyOK, Filled
  <2>2. Announced \in Nat /\ Announced >= 1
    <3>1. client.body \in Nat /\ Cap \in Nat
      BY StreamFacts, CoreNumbers DEF CoreInv
    <3> QED BY <1>5, <3>1 DEF Least
  <2>3. content_len' = Announced
    BY <1>1, <2>1, <2>2, LimitStays
  <2>4. CASE ReadSome
    <3> DEFINE n == Buffered + Coming
    <3>1. /\ Store(n) /\ fill' = fill + n /\ pc' = "read"
          /\ n \in 0..Buffered + Coming
      BY <1>1, <1>3, <2>4 DEF ReadSome
    <3>2. request_buf' = Filled(fill + n)
      BY <1>1, <1>2, <2>1, <3>1, StoreAppends
    <3>3. fill + n <= Announced
      <4>1. fill = consumed /\ fill \in Nat
        BY <1>1, CoreNumbers DEF CoreInv, LengthsOK
      <4>2. Limit = Announced
        BY <2>1, <2>2 DEF Limit, Unset
      <4> QED BY <1>1, <1>3, <2>1, <2>2, <4>1, <4>2, ReadCounts
    <3> HIDE DEF n
    <3> QED BY <1>1, <1>2, <2>3, <3>1, <3>2, <3>3 DEF BodyOK, BodyArrivesExactly, Filled
  <2>5. CASE ReadEnds
    <3> DEFINE n == Buffered + Coming
    <3>1. Store(n) /\ pc' = "parse" /\ UNCHANGED stop_flag /\ n \in 0..Buffered + Coming
      BY <1>3, <2>5 DEF ReadEnds
    <3>2. request_buf' = Filled(fill + n)
      BY <1>1, <1>2, <2>1, <3>1, StoreAppends
    <3>3. stop_flag = 0 => fill + n = Announced
      BY <1>2, <1>5, <2>1, <2>5, ReadsAll
    <3> HIDE DEF n
    <3> QED BY <1>1, <1>2, <3>1, <3>2, <3>3 DEF BodyOK, BodyArrivesExactly, Filled
  <2>6. CASE ReadStopped
    <3>1. stop_flag' = 1 /\ pc' = "parse"
      BY <2>6 DEF ReadStopped
    <3> QED BY <1>1, <1>2, <3>1 DEF BodyOK, BodyArrivesExactly
  <2> QED BY <2>4, <2>5, <2>6
<1> QED BY <1>4, <1>5

LEMMA BodyNext == CoreInv /\ BodyOK /\ [Next]_vars => BodyOK'
<1> SUFFICES ASSUME CoreInv, BodyOK, [Next]_vars PROVE BodyOK'
  OBVIOUS
<1>1. CASE pc' \notin {"parsehead", "parsed", "begin", "read", "parse"}
  BY <1>1 DEF BodyOK, BodyArrivesExactly
<1>2. CASE /\ UNCHANGED <<pc, client, turn, request_len, content_len, ri, fill, request_buf>>
           /\ stop_flag' = 0 => stop_flag = 0
  BY <1>2 DEF BodyOK, BodyArrivesExactly, Announced
<1>3. CASE Start \/ Stop \/ UNCHANGED vars
  BY <1>2, <1>3 DEF Start, Stop, vars, conn
<1>4. CASE ReadRequest
  <2>1. UNCHANGED client /\ pc' = "parsehead"
    BY <1>4 DEF ReadRequest
  <2> QED BY <1>4, <2>1, HeadRead DEF BodyOK, BodyArrivesExactly
<1>5. CASE Parse
  <2> SUFFICES ASSUME IsHead(client.head) PROVE BodyOK'
    BY <1>5 DEF Parse, BodyOK
  <2>1. /\ UNCHANGED <<client, request_len>> /\ pc = "parsehead" /\ pc' = "parsed"
        /\ request_len > 0 /\ ri' = ParseMessage(SubSeq(Buf, 1, request_len - 1))
    BY <1>5 DEF Parse
  <2>2. request_len = Len(client.head)
    BY <2>1 DEF BodyOK
  <2>3. ri' = ParseMessage(SubSeq(client.head, 1, Len(client.head) - 1))
    BY <1>5, <2>1, <2>2, HeadParsed
  <2> QED BY <2>1, <2>2, <2>3 DEF BodyOK, BodyArrivesExactly
<1>6. CASE HandleRequest
  <2>1. /\ UNCHANGED <<client, request_len>> /\ pc = "parsed" /\ pc' = "begin"
        /\ content_len' = ContentLen(ri)
    BY <1>6 DEF HandleRequest
  <2> QED BY <2>1 DEF BodyOK, BodyArrivesExactly, Announced
<1>7. CASE BeginRequest
  <2>1. /\ UNCHANGED <<client, request_len, content_len, turn>> /\ pc = "begin"
        /\ pc' \in {"unserved", "read"} /\ fill' = 0 /\ request_buf' = [i \in 1..Cap |-> Zero]
    BY <1>7 DEF BeginRequest, conn
  <2>2. request_buf' = [i \in 1..Cap |-> IF i <= 0 THEN [turn |-> turn, unit |-> Body[i]]
                                                 ELSE Zero]
    BY <2>1
  <2>3. Announced \in 1..Least(Cap, client.body) => 0 <= Announced
    OBVIOUS
  <2> QED BY <2>1, <2>2, <2>3 DEF BodyOK, BodyArrivesExactly, Announced
<1>8. CASE ReadSome \/ ReadEnds \/ ReadStopped
  BY <1>8, BodyReads
<1>9. CASE Pull
  BY <1>1, <1>9 DEF Pull
<1>10. CASE Accept
  BY <1>1, <1>10 DEF Accept
<1>11. CASE GetReqFails
  BY <1>1, <1>11 DEF GetReqFails
<1>12. CASE InvalidLine
  BY <1>1, <1>12 DEF InvalidLine
<1>13. CASE ParseAndReply
  BY <1>1, <1>13 DEF ParseAndReply
<1>14. CASE NotServed
  BY <1>1, <1>14 DEF NotServed
<1>15. CASE Discard
  BY <1>1, <1>15 DEF Discard
<1>16. CASE Close
  BY <1>1, <1>16 DEF Close
<1> QED BY <1>3, <1>4, <1>5, <1>6, <1>7, <1>8, <1>9, <1>10, <1>11, <1>12, <1>13, <1>14, <1>15,
           <1>16 DEF Next, Worker

-----------------------------------------------------------------------------
(* The URI *)

\* Induction from the end of a text to its beginning.
LEMMA Downwards ==
  ASSUME NEW n \in Nat, NEW S, n \in S, \A k \in 1..n - 1 : k + 1 \in S => k \in S
  PROVE  1..n \subseteq S
<1> DEFINE Bad == {m \in Nat : m < n /\ n - m \notin S}
<1>1. SUFFICES ASSUME Bad # {} PROVE FALSE
  <2>1. \A k \in 1..n : k \notin S => n - k \in Bad
    OBVIOUS
  <2> QED BY <2>1
<1> DEFINE least == Min(Bad)
<1>2. least \in Bad /\ \A m \in Bad : least <= m
  BY <1>1, MinIsLeast
<1> HIDE DEF least
<1>3. least # 0
  BY <1>2
<1>4. least - 1 \in Nat /\ least - 1 < n /\ least - 1 \notin Bad
  BY <1>2, <1>3
<1>5. n - (least - 1) \in S
  BY <1>4
<1>6. n - least \in 1..n - 1 /\ (n - least) + 1 = n - (least - 1)
  BY <1>2, <1>3
<1> QED BY <1>2, <1>5, <1>6

\* The tables of Behind and of RemoveDoubleDots, from k on.
IsBehind(s, f, k) ==
  f = [i \in k..Len(s) + 1 |->
         CASE i <= Len(s) /\ s[i] \in Slashes                    -> f[i + 1]
           [] i < Len(s)  /\ s[i] = "." /\ s[i + 1] = "."        -> f[i + 2]
           [] OTHER                                              -> i]
IsCleaned(s, f, k) ==
  f = [i \in k..Len(s) + 1 |->
         IF i > Len(s) THEN <<>>
         ELSE <<s[i]>> \o f[IF s[i] \in Slashes THEN Behind(s)[i + 1] ELSE i + 1]]

LEMMA BehindTable ==
  ASSUME NEW X, NEW s \in Seq(X)
  PROVE  IsBehind(s, Behind(s), 1)
<1> DEFINE n    == Len(s) + 1
           Some == {k \in 1..n : \E f : IsBehind(s, f, k)}
<1>1. Len(s) \in Nat /\ n \in Nat /\ n >= 1
  OBVIOUS
<1>2. n \in Some
  <2> DEFINE f == [i \in n..n |-> i]
  <2>1. IsBehind(s, f, n)
    BY <1>1 DEF IsBehind
  <2> QED BY <1>1, <2>1
<1>3. ASSUME NEW k \in 1..n - 1, k + 1 \in Some PROVE k \in Some
  <2>1. PICK f : IsBehind(s, f, k + 1)
    BY <1>3
  <2> DEFINE first == CASE s[k] \in Slashes                               -> f[k + 1]
                        [] k < Len(s) /\ s[k] = "." /\ s[k + 1] = "."     -> f[k + 2]
                        [] OTHER                                          -> k
             g     == [i \in k..n |-> IF i = k THEN first ELSE f[i]]
  <2>2. k <= Len(s) /\ k \in k..n /\ \A i \in k..n : i = k \/ i \in k + 1..n
    BY <1>1
  <2>3. ASSUME NEW i \in k..n
        PROVE  g[i] = CASE i <= Len(s) /\ s[i] \in Slashes             -> g[i + 1]
                        [] i < Len(s) /\ s[i] = "." /\ s[i + 1] = "."  -> g[i + 2]
                        [] OTHER                                       -> i
    <3>1. /\ i <= Len(s) => g[i + 1] = f[i + 1]
          /\ i < Len(s) => g[i + 2] = f[i + 2]
      BY <1>1
    <3> HIDE DEF g, first
    <3>2. CASE i = k
      <4>1. g[i] = first
        BY <2>2, <3>2 DEF g
      <4> QED BY <2>2, <3>1, <3>2, <4>1 DEF first
    <3>3. CASE i \in k + 1..n
      <4>1. g[i] = f[i]
        BY <3>3 DEF g
      <4>2. f[i] = CASE i <= Len(s) /\ s[i] \in Slashes             -> f[i + 1]
                     [] i < Len(s) /\ s[i] = "." /\ s[i + 1] = "."  -> f[i + 2]
                     [] OTHER                                       -> i
        BY <2>1, <3>3 DEF IsBehind
      <4> QED BY <3>1, <4>1, <4>2
    <3> QED BY <2>2, <3>2, <3>3
  <2>4. IsBehind(s, g, k)
    <3> HIDE DEF first
    <3>1. g = [i \in k..n |-> g[i]]
      OBVIOUS
    <3> HIDE DEF g
    <3> QED BY <2>3, <3>1 DEF IsBehind
  <2> QED BY <2>4
<1>4. 1 \in Some
  <2> HIDE DEF Some
  <2>1. 1..n \subseteq Some
    BY <1>1, <1>2, <1>3, Downwards
  <2> QED BY <1>1, <2>1
<1>5. \E f : IsBehind(s, f, 1)
  BY <1>4
<1>6. Behind(s) = CHOOSE f : IsBehind(s, f, 1)
  BY DEF Behind, IsBehind
<1> QED BY <1>5, <1>6

\* Behind stops at a character that is no slash and begins no pair of dots.
LEMMA BehindLands ==
  ASSUME NEW X, NEW s \in Seq(X), NEW i \in 1..Len(s) + 1
  PROVE  /\ Behind(s)[i] \in i..Len(s) + 1
         /\ Behind(s)[i] <= Len(s) => s[Behind(s)[i]] \notin Slashes
         /\ Behind(s)[i] < Len(s) => ~(s[Behind(s)[i]] = "." /\ s[Behind(s)[i] + 1] = ".")
<1> DEFINE n       == Len(s) + 1
           next    == Behind(s)
           Ends(j) == /\ next[j] \in j..n
                      /\ next[j] <= Len(s) => s[next[j]] \notin Slashes
                      /\ next[j] < Len(s) => ~(s[next[j]] = "." /\ s[next[j] + 1] = ".")
           Good    == {k \in 1..n : \A j \in k..n : Ends(j)}
<1>1. Len(s) \in Nat /\ n \in Nat /\ n >= 1
  OBVIOUS
<1>2. \A j \in 1..n : next[j] = CASE j <= Len(s) /\ s[j] \in Slashes             -> next[j + 1]
                                  [] j < Len(s) /\ s[j] = "." /\ s[j + 1] = "."  -> next[j + 2]
                                  [] OTHER                                       -> j
  BY BehindTable DEF IsBehind
<1> HIDE DEF next
<1>3. ASSUME NEW j \in 1..n, \A m \in j + 1..n : Ends(m) PROVE Ends(j)
  <2>1. CASE j <= Len(s) /\ s[j] \in Slashes
    <3>1. next[j] = next[j + 1]
      BY <1>2, <2>1 DEF Slashes
    <3>2. j + 1 \in j + 1..n
      BY <1>1, <2>1
    <3> QED BY <1>1, <1>3, <3>1, <3>2
  <2>2. CASE j < Len(s) /\ s[j] = "." /\ s[j + 1] = "."
    <3>1. next[j] = next[j + 2]
      BY <1>2, <2>2 DEF Slashes
    <3>2. j + 2 \in j + 1..n
      BY <1>1, <2>2
    <3> QED BY <1>1, <1>3, <3>1, <3>2
  <2>3. CASE ~(j <= Len(s) /\ s[j] \in Slashes) /\ ~(j < Len(s) /\ s[j] = "." /\ s[j + 1] = ".")
    <3>1. next[j] = j
      BY <1>2, <2>3
    <3> QED BY <1>1, <2>3, <3>1
  <2> QED BY <2>1, <2>2, <2>3
<1> HIDE DEF Ends
<1>4. n \in Good
  <2>1. \A m \in n + 1..n : Ends(m)
    BY <1>1
  <2>2. n \in 1..n /\ n..n = {n}
    BY <1>1
  <2> QED BY <1>3, <2>1, <2>2
<1>5. ASSUME NEW k \in 1..n - 1, k + 1 \in Good PROVE k \in Good
  <2>1. k \in 1..n /\ \A j \in k..n : j = k \/ j \in k + 1..n
    BY <1>1
  <2>2. Ends(k)
    BY <1>3, <1>5, <2>1
  <2> QED BY <1>5, <2>1, <2>2
<1>6. 1..n \subseteq Good
  <2> HIDE DEF Good
  <2> QED BY <1>1, <1>4, <1>5, Downwards
<1>7. Ends(i)
  <2>1. i \in Good /\ i \in i..n
    BY <1>1, <1>6
  <2> QED BY <2>1
<1> QED BY <1>7 DEF Ends, next

LEMMA CleanedTable ==
  ASSUME NEW X, NEW s \in Seq(X)
  PROVE  \E f : IsCleaned(s, f, 1) /\ RemoveDoubleDots(s) = f[1]
<1> DEFINE n     == Len(s) + 1
           To(i) == IF s[i] \in Slashes THEN Behind(s)[i + 1] ELSE i + 1
           Some  == {k \in 1..n : \E f : IsCleaned(s, f, k)}
<1>1. Len(s) \in Nat /\ n \in Nat /\ n >= 1
  OBVIOUS
<1>2. \A i \in 1..Len(s) : To(i) \in i + 1..n
  <2> TAKE i \in 1..Len(s)
  <2>1. i + 1 \in 1..n /\ i + 1 \in i + 1..n
    BY <1>1
  <2> QED BY <2>1, BehindLands
<1>3. n \in Some
  <2> DEFINE f == [i \in n..n |-> <<>>]
  <2>1. \A i \in n..n : i > Len(s)
    BY <1>1
  <2>2. IsCleaned(s, f, n)
    BY <2>1 DEF IsCleaned
  <2> QED BY <1>1, <2>2
<1>4. ASSUME NEW k \in 1..n - 1, k + 1 \in Some PROVE k \in Some
  <2>1. PICK f : IsCleaned(s, f, k + 1)
    BY <1>4
  <2> DEFINE first == <<s[k]>> \o f[To(k)]
             g     == [i \in k..n |-> IF i = k THEN first ELSE f[i]]
  <2>2. k <= Len(s) /\ k \in k..n /\ \A i \in k..n : i = k \/ i \in k + 1..n
    BY <1>1
  <2>3. ASSUME NEW i \in k..n
        PROVE  g[i] = IF i > Len(s) THEN <<>> ELSE <<s[i]>> \o g[To(i)]
    <3>1. i <= Len(s) => g[To(i)] = f[To(i)]
      <4>1. i <= Len(s) => To(i) \in k + 1..n
        BY <1>1, <1>2
      <4> HIDE DEF To, first
      <4> QED BY <1>1, <4>1
    <3>2. CASE i = k
      <4>1. g[i] = <<s[i]>> \o f[To(i)]
        BY <2>2, <3>2
      <4>2. i <= Len(s) /\ ~(i > Len(s))
        BY <1>1, <2>2, <3>2
      <4> HIDE DEF g, To
      <4> QED BY <3>1, <4>1, <4>2
    <3>3. CASE i \in k + 1..n
      <4>1. g[i] = f[i]
        BY <3>3
      <4>2. f[i] = IF i > Len(s) THEN <<>> ELSE <<s[i]>> \o f[To(i)]
        BY <2>1, <3>3 DEF IsCleaned
      <4> HIDE DEF g, To
      <4> QED BY <1>1, <3>1, <4>1, <4>2
    <3> QED BY <2>2, <3>2, <3>3
  <2>4. IsCleaned(s, g, k)
    BY <2>3 DEF IsCleaned
  <2> QED BY <2>4
<1>5. 1 \in Some
  <2> HIDE DEF Some
  <2>1. 1..n \subseteq Some
    BY <1>1, <1>3, <1>4, Downwards
  <2> QED BY <1>1, <2>1
<1>6. \E f : IsCleaned(s, f, 1)
  BY <1>5
<1> DEFINE clean == CHOOSE f : IsCleaned(s, f, 1)
<1>7. RemoveDoubleDots(s) = clean[1]
  BY DEF RemoveDoubleDots, IsCleaned
<1> QED BY <1>6, <1>7

\* No slash with another one or with two dots behind it.
Clean(t) == \A i \in 1..Len(t) - 1 :
              t[i] \in Slashes => /\ t[i + 1] \notin Slashes
                                  /\ ~(t[i + 1] = "." /\ i + 2 <= Len(t) /\ t[i + 2] = ".")

\* What Behind skips makes a clean text cleaner by one character.
LEMMA CleanOneMore ==
  ASSUME NEW X, NEW c \in X, NEW t \in Seq(X), Clean(t),
         c \in Slashes /\ t # <<>> => t[1] \notin Slashes /\ ~(t[1] = "." /\ Len(t) > 1 /\ t[2] = ".")
  PROVE  Clean(<<c>> \o t)
<1> DEFINE u == <<c>> \o t
<1>1. Len(t) \in Nat /\ Len(u) = Len(t) + 1 /\ u[1] = c /\ \A i \in 1..Len(t) : u[i + 1] = t[i]
  OBVIOUS
<1> HIDE DEF u
<1>2. ASSUME NEW i \in 1..Len(u) - 1, u[i] \in Slashes
      PROVE  u[i + 1] \notin Slashes /\ ~(u[i + 1] = "." /\ i + 2 <= Len(u) /\ u[i + 2] = ".")
  <2>1. i \in 1..Len(t) /\ u[i + 1] = t[i] /\ (i + 2 <= Len(u) => i + 1 <= Len(t) /\ u[i + 2] = t[i + 1])
    <3>1. i \in 1..Len(t) /\ (i + 2 <= Len(u) => i + 1 \in 1..Len(t))
      BY <1>1
    <3> QED BY <1>1, <3>1
  <2>2. CASE i = 1
    <3>1. t # <<>> /\ c \in Slashes
      BY <1>1, <1>2, <2>1, <2>2
    <3> QED BY <1>1, <2>1, <2>2, <3>1
  <2>3. CASE i # 1
    <3>1. i - 1 \in 1..Len(t) - 1 /\ u[i] = t[i - 1]
      <4>1. i - 1 \in 1..Len(t) - 1
        BY <1>1, <2>1, <2>3
      <4>2. u[(i - 1) + 1] = t[i - 1]
        BY <1>1, <4>1
      <4> QED BY <4>1, <4>2
    <3>2. t[i - 1] \in Slashes
      BY <1>2, <3>1
    <3>3. /\ t[(i - 1) + 1] \notin Slashes
          /\ ~(t[(i - 1) + 1] = "." /\ (i - 1) + 2 <= Len(t) /\ t[(i - 1) + 2] = ".")
      BY <3>1, <3>2 DEF Clean
    <3>4. (i - 1) + 1 = i /\ (i - 1) + 2 = i + 1
      BY <2>1
    <3> QED BY <2>1, <3>3, <3>4
  <2> QED BY <2>2, <2>3
<1> QED BY <1>2 DEF Clean, u

\* remove_double_dots_and_double_slashes does both, for any text.
LEMMA DoubleDotsRemoved ==
  ASSUME NEW X, NEW s \in Seq(X)
  PROVE  Clean(RemoveDoubleDots(s))
<1> DEFINE n     == Len(s) + 1
           To(i) == IF s[i] \in Slashes THEN Behind(s)[i + 1] ELSE i + 1
<1>1. Len(s) \in Nat /\ n \in Nat /\ n >= 1
  OBVIOUS
<1>2. PICK f : IsCleaned(s, f, 1) /\ RemoveDoubleDots(s) = f[1]
  BY CleanedTable
<1>3. \A i \in 1..n : f[i] = IF i > Len(s) THEN <<>> ELSE <<s[i]>> \o f[To(i)]
  BY <1>2 DEF IsCleaned
<1>4. ASSUME NEW i \in 1..Len(s)
      PROVE  /\ To(i) \in i + 1..n
             /\ s[i] \notin Slashes => To(i) = i + 1
             /\ s[i] \in Slashes =>
                  /\ To(i) <= Len(s) => s[To(i)] \notin Slashes
                  /\ To(i) < Len(s) => ~(s[To(i)] = "." /\ s[To(i) + 1] = ".")
  <2>1. i + 1 \in 1..n /\ i + 1 \in i + 1..n
    BY <1>1
  <2> QED BY <2>1, BehindLands
<1> HIDE DEF To
<1> DEFINE Right(i) == /\ f[i] \in Seq(X) /\ Clean(f[i])
                       /\ i = n => f[i] = <<>>
                       /\ i < n => Len(f[i]) > 0 /\ f[i][1] = s[i]
                       /\ Len(f[i]) > 1 /\ s[i] = "." => i < Len(s) /\ f[i][2] = s[i + 1]
           Good     == {k \in 1..n : \A i \in k..n : Right(i)}
<1>5. Right(n)
  <2>1. f[n] = <<>> /\ Len(f[n]) = 0
    <3>1. n \in 1..n /\ n > Len(s)
      BY <1>1
    <3>2. f[n] = <<>>
      BY <1>3, <3>1
    <3> QED BY <3>2
  <2> QED BY <1>1, <2>1 DEF Clean
<1>6. ASSUME NEW i \in 1..n - 1, \A j \in i + 1..n : Right(j) PROVE Right(i)
  <2> DEFINE j == To(i)
             t == f[j]
  <2>1. i \in 1..Len(s) /\ s[i] \in X /\ ~(i > Len(s)) /\ i < n /\ i # n
    BY <1>1
  <2>2. j \in i + 1..n /\ j \in 1..n /\ (s[i] \notin Slashes => j = i + 1)
    BY <1>1, <1>4, <2>1
  <2>3. f[i] = <<s[i]>> \o t
    <3>1. i \in 1..n
      OBVIOUS
    <3> HIDE DEF n
    <3> QED BY <1>3, <2>1, <3>1
  <2>4. Right(j)
    BY <1>6, <2>2
  <2>5. t \in Seq(X) /\ Clean(t)
    BY <2>4
  <2>6. t # <<>> => /\ j <= Len(s) /\ t[1] = s[j]
                    /\ Len(t) > 1 /\ s[j] = "." => j < Len(s) /\ t[2] = s[j + 1]
    BY <1>1, <2>2, <2>4
  <2> HIDE DEF t, Right
  <2>7. s[i] \in Slashes /\ t # <<>> => /\ t[1] \notin Slashes
                                       /\ ~(t[1] = "." /\ Len(t) > 1 /\ t[2] = ".")
    BY <1>4, <2>1, <2>6
  <2>8. Clean(<<s[i]>> \o t)
    BY <2>1, <2>5, <2>7, CleanOneMore
  <2>9. /\ <<s[i]>> \o t \in Seq(X) /\ Len(<<s[i]>> \o t) = Len(t) + 1
        /\ (<<s[i]>> \o t)[1] = s[i] /\ (t # <<>> => (<<s[i]>> \o t)[2] = t[1])
    BY <2>1, <2>5
  <2>10. Len(t) + 1 > 1 /\ s[i] = "." => t # <<>> /\ i < Len(s) /\ t[1] = s[i + 1]
    <3> SUFFICES ASSUME Len(t) + 1 > 1, s[i] = "." PROVE t # <<>> /\ i < Len(s) /\ t[1] = s[i + 1]
      OBVIOUS
    <3>1. t # <<>> /\ j = i + 1
      BY <2>2, <2>5 DEF Slashes
    <3> QED BY <1>1, <2>1, <2>6, <3>1
  <2>11. Len(t) \in Nat
    BY <2>5
  <2> QED BY <2>1, <2>3, <2>8, <2>9, <2>10, <2>11 DEF Right
<1> HIDE DEF Right
<1>7. n \in Good /\ \A k \in 1..n - 1 : k + 1 \in Good => k \in Good
  <2>1. n \in 1..n /\ n..n = {n}
    BY <1>1
  <2>2. \A k \in 1..n - 1 : k \in 1..n /\ \A i \in k..n : i = k \/ i \in k + 1..n
    BY <1>1
  <2> QED BY <1>5, <1>6, <2>1, <2>2
<1>8. 1 \in Good
  <2> HIDE DEF Good
  <2>1. 1..n \subseteq Good
    BY <1>1, <1>7, Downwards
  <2> QED BY <1>1, <2>1
<1>9. Right(1)
  <2>1. 1 \in 1..n
    BY <1>1
  <2> QED BY <1>8, <2>1
<1> QED BY <1>2, <1>9 DEF Right

LEMMA SkipType ==
  ASSUME NEW text \in Seq(STRING), NEW delimiters, NEW white
  PROVE  /\ Skip(delimiters, white)[text].word \in Seq(STRING)
         /\ Skip(delimiters, white)[text].rest \in Seq(STRING)
<1> DEFINE n     == Len(text)
           end   == Min({i \in DOMAIN text : text[i] \in delimiters} \cup {n + 1})
           next  == Min({i \in end + 1..n : text[i] \notin white} \cup {n + 1})
<1>1. n \in Nat /\ DOMAIN text = 1..n
  OBVIOUS
<1>2. end \in 1..n + 1
  <2>1. {i \in DOMAIN text : text[i] \in delimiters} \cup {n + 1} \subseteq 1..n + 1
    BY <1>1
  <2> QED BY <1>1, <2>1, MinIsLeast
<1>3. next \in 1..n + 1
  <2> HIDE DEF end
  <2> DEFINE S == {i \in end + 1..n : text[i] \notin white} \cup {n + 1}
  <2>1. S \subseteq 1..n + 1 /\ S \subseteq Nat /\ S # {}
    BY <1>1, <1>2
  <2>2. next = Min(S)
    OBVIOUS
  <2> HIDE DEF S, next
  <2> QED BY <2>1, <2>2, MinIsLeast
<1>4. /\ Skip(delimiters, white)[text].word = SubSeq(text, 1, end - 1)
      /\ Skip(delimiters, white)[text].rest = SubSeq(text, next, n)
  BY DEF Skip
<1> HIDE DEF end, next
<1> QED BY <1>1, <1>2, <1>3, <1>4

\* Whatever the text of a request is: callbacks see a clean URI.
LEMMA CallbackUriIsClean ==
  ASSUME NEW uri \in Seq(STRING)
  PROVE  Clean(CallbackUri(uri))
<1> DEFINE word == Skip({"?"}, {})[uri].word
           Y    == STRING \cup {".", "/"}
<1>1. word \in Seq(STRING)
  BY SkipType
<1> HIDE DEF word
<1>2. UrlDecode(word) \in Seq(Y)
  <2>1. DOMAIN word = 1..Len(word) /\ Len(word) \in Nat /\ \A i \in 1..Len(word) : word[i] \in STRING
    BY <1>1
  <2> DEFINE At(i) == CASE word[i] = Escapes.dot   -> "."
                        [] word[i] = Escapes.slash -> "/"
                        [] OTHER                   -> word[i]
  <2>2. \A i \in 1..Len(word) : At(i) \in Y
    BY <2>1 DEF Escapes
  <2>3. UrlDecode(word) = [i \in 1..Len(word) |-> At(i)]
    BY <2>1 DEF UrlDecode
  <2> HIDE DEF At, Y
  <2> QED BY <2>1, <2>2, <2>3
<1> HIDE DEF Y
<1> QED BY <1>2, DoubleDotsRemoved DEF CallbackUri, word

LEMMA UriType ==
  ASSUME NEW head \in Seq(STRING)
  PROVE  ParseMessage(head).uri \in Seq(STRING)
<1> DEFINE first  == Min({i \in DOMAIN head : head[i] \notin LineEnd \cup {"SP"}} \cup {Len(head) + 1})
           method == Skip({"SP"}, {"SP"})[SubSeq(head, first, Len(head))]
<1>1. first \in 1..Len(head) + 1
  <2>1. /\ {i \in DOMAIN head : head[i] \notin LineEnd \cup {"SP"}} \cup {Len(head) + 1}
             \subseteq 1..Len(head) + 1
        /\ Len(head) \in Nat
    OBVIOUS
  <2> QED BY <2>1, MinIsLeast
<1>2. ParseMessage(head).uri = Skip({"SP"}, {"SP"})[method.rest].word
  BY DEF ParseMessage
<1> HIDE DEF first
<1>3. SubSeq(head, first, Len(head)) \in Seq(STRING)
  BY <1>1
<1>4. method.rest \in Seq(STRING)
  BY <1>3, SkipType
<1> HIDE DEF method
<1> QED BY <1>2, <1>4, SkipType

\* What was parsed is the text of a request, and the callback's URI is cleaned from one.
UriInv == /\ pc = "parsed" => \E text \in Seq(STRING) : ri = ParseMessage(text)
          /\ pc = "begin" => Clean(ri.uri)

LEMMA UriNext == CoreInv /\ UriInv /\ [Next]_vars => UriInv'
<1> SUFFICES ASSUME CoreInv, UriInv, [Next]_vars PROVE UriInv'
  OBVIOUS
<1>1. CASE Parse
  <2>1. /\ pc' = "parsed" /\ request_len > 0 /\ pc = "parsehead"
        /\ ri' = ParseMessage(SubSeq(Buf, 1, request_len - 1))
    BY <1>1 DEF Parse
  <2>2. Buf \in Seq(STRING) /\ Len(Buf) = data_len
    BY BufFacts, CoreNumbers DEF CoreInv, LengthsOK
  <2>3. request_len \in 1..data_len
    BY <2>1, CoreNumbers DEF CoreInv, LengthsOK
  <2>4. SubSeq(Buf, 1, request_len - 1) \in Seq(STRING)
    BY <2>2, <2>3, CoreNumbers
  <2> QED BY <2>1, <2>4 DEF UriInv
<1>2. CASE HandleRequest
  <2>1. pc = "parsed" /\ pc' = "begin" /\ ri' = [ri EXCEPT !.uri = CallbackUri(@)]
    BY <1>2 DEF HandleRequest
  <2>2. PICK text \in Seq(STRING) : ri = ParseMessage(text)
    BY <2>1 DEF UriInv
  <2>3. ri.uri \in Seq(STRING)
    BY <2>2, UriType
  <2>4. ri'.uri = CallbackUri(ri.uri)
    BY <2>1, <2>2 DEF ParseMessage
  <2>5. Clean(ri'.uri)
    BY <2>3, <2>4, CallbackUriIsClean
  <2> QED BY <2>1, <2>5 DEF UriInv, Clean
<1>3. CASE Start \/ Stop \/ UNCHANGED vars
  <2>1. UNCHANGED <<pc, ri>>
    BY <1>3 DEF Start, Stop, vars, conn
  <2> QED BY <2>1 DEF UriInv, Clean
<1>4. CASE Accept \/ Pull \/ ReadRequest \/ GetReqFails \/ InvalidLine \/ BeginRequest
           \/ ReadSome \/ ReadEnds \/ ReadStopped \/ ParseAndReply \/ NotServed \/ Discard \/ Close
  <2>1. pc' \notin {"parsed", "begin"}
    BY <1>4 DEF Accept, Pull, ReadRequest, GetReqFails, InvalidLine, BeginRequest, ReadSome,
                ReadEnds, ReadStopped, ParseAndReply, NotServed, Discard, Close
  <2> QED BY <2>1 DEF UriInv
<1> QED BY <1>1, <1>2, <1>3, <1>4 DEF Next, Worker

-----------------------------------------------------------------------------
(* The theorems *)

LEMMA StartIsStart == Spec => StartInit /\ [][StartNext]_server
<1>1. Init => StartInit
  BY DEF Init
<1>2. [Next]_vars => [StartNext]_server
  BY DEF Next, Worker, vars, Start, Stop, Accept, Pull, ReadRequest, Parse, GetReqFails,
         InvalidLine, HandleRequest, BeginRequest, ReadSome, ReadEnds, ReadStopped,
         ParseAndReply, NotServed, Discard, Close
<1> QED BY <1>1, <1>2, PTL DEF Spec

\* mg_start within the server: the worker and mg_stop leave the ports alone.
THEOREM PortsOfServer == Spec => []AllPortsOrNone
  BY StartIsStart, StartsWhole, PTL

\* The numbers, the replies and the buffer together; the parts only need each other's
\* numbers.
ExchangeInv == CoreInv /\ CellsOK /\ RepliesInv /\ BufferOK /\ BodyOK

LEMMA ExchangeAlways == Spec => []ExchangeInv
<1>1. Init => ExchangeInv
  <2> SUFFICES ASSUME Init PROVE ExchangeInv
    OBVIOUS
  <2>1. CellsOK
    BY CellType DEF Init, CellsOK
  <2>2. BufferOK /\ BodyOK
    BY DEF Init, BufferOK, BodyOK, BodyArrivesExactly
  <2> QED BY <2>1, <2>2, CoreInit, RepliesInit DEF ExchangeInv
<1>2. ExchangeInv /\ [Next]_vars => ExchangeInv'
  BY CoreNext, CellsKeep, RepliesNext, BufferNext, BodyNext DEF ExchangeInv
<1> QED BY <1>1, <1>2, PTL DEF Spec

\* The variables keep their types: no read stores behind conn->buf or request_buf_, and
\* no length leaves its range.
THEOREM TypeCorrect == Spec => []TypeOK
<1>1. ExchangeInv => TypeOK
  <2> SUFFICES ASSUME ExchangeInv PROVE TypeOK
    OBVIOUS
  <2>1. \A i \in DOMAIN replies :
          replies[i].what \in {"error", "refused", "result", "options", "not found"}
    <3>1. \A reply \in Replies :
            reply.what \in {"error", "refused", "result", "options", "not found"}
      BY DEF Replies
    <3>2. \A i \in DOMAIN replies : replies[i] \in Replies
      BY DEF ExchangeInv, RepliesInv, RepliesType
    <3> QED BY <3>1, <3>2
  <2>2. request_buf \in [1..Cap -> [turn : 0..2, unit : {""} \cup Units]]
    BY DEF ExchangeInv, CellsOK, Cell
  <2>3. NumbersOK
    BY DEF ExchangeInv, CoreInv
  <2> QED BY <2>1, <2>2, <2>3 DEF TypeOK, NumbersOK, Lengths
<1> QED BY <1>1, ExchangeAlways, PTL

\* begin_request and mg_read: whatever the sizes of the buffers, the body, its length and
\* the pieces it comes in, a body that was announced, sent and fits is parsed as it is.
THEOREM BodyArrives == Spec => []BodyArrivesExactly
<1>1. ExchangeInv => BodyArrivesExactly
  BY DEF ExchangeInv, BodyOK, BodyArrivesExactly
<1> QED BY <1>1, ExchangeAlways, PTL

\* begin_request zeros the buffer before it reads: for any clients, one after the other,
\* nothing of one is parsed for another.
THEOREM NothingStale == Spec => []NoStaleBytes
<1>1. ExchangeInv => NoStaleBytes
  BY DEF ExchangeInv, BufferOK, NoStaleBytes
<1> QED BY <1>1, ExchangeAlways, PTL

\* mg_vprintf: for a buffer and a result of any length, the client gets all of the result.
THEOREM ResultWhole == Spec => []ResultArrivesWhole
<1>1. ExchangeInv => ResultArrivesWhole
  BY DEF ExchangeInv, RepliesInv, RepliesOK
<1> QED BY <1>1, ExchangeAlways, PTL

\* process_new_connection: what it discards is in the buffer, for every content length.
THEOREM DiscardsInBuffer == Spec => DiscardStaysInBuffer
<1>1. ExchangeInv /\ [Next]_vars => [Discard => data_len' \in 0..data_len]_vars
  BY DiscardTypes DEF ExchangeInv
<1> QED BY <1>1, ExchangeAlways, PTL DEF Spec, DiscardStaysInBuffer

\* process_new_connection: every way to the end of a connection passes a reply.
THEOREM AnswersFirst == Spec => AnsweredBeforeClose
<1>1. ExchangeInv /\ [Next]_vars => [Close => replies # <<>>]_vars
  BY DEF ExchangeInv, RepliesInv, RepliesOK, Close
<1> QED BY <1>1, ExchangeAlways, PTL DEF Spec, AnsweredBeforeClose

\* handle_request: whatever a client sends for a URI, escaped or not, the callbacks see none
\* with an empty segment or one that begins with two dots.
THEOREM UriIsClean == Spec => []CleanUri
<1>1. Init => UriInv
  BY DEF Init, UriInv
<1>2. ExchangeInv /\ UriInv /\ [Next]_vars => UriInv'
  BY UriNext DEF ExchangeInv
<1>3. UriInv => CleanUri
  BY DEF UriInv, CleanUri, Clean
<1> QED BY <1>1, <1>2, <1>3, ExchangeAlways, PTL DEF Spec
=============================================================================
