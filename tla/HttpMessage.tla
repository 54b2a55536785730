---------------------------- MODULE HttpMessage ----------------------------
(***************************************************************************)
(* How mongoose reads a request: where its head ends, what is in it, and   *)
(* what becomes of its URI.                                                *)
(*                                                                         *)
(* A text is a sequence of tokens: a word, a separator, "SP", "CR" or "LF" *)
(* is one; "CTL" is a control character.                                   *)
(***************************************************************************)
EXTENDS Integers, Sequences, SequencesExt

CONSTANT MaxHeaders    \* 64, the size of mg_request_info::http_headers

ASSUME MaxHeadersAssumption == MaxHeaders \in Nat

LineEnd == {"CR", "LF"}

\* Mutant of GetRequestLen: the empty line of a client that ends its lines with CR LF
\* is found when its CR is there.
GetRequestLenEarly(buf) ==
  LET e       == Len(buf)
      blank   == {s \in 1..e - 1 : buf[s] = "LF" /\ buf[s + 1] \in LineEnd}
      control == {s \in 1..e - 1 : buf[s] = "CTL"}
      events  == blank \cup control
  IN IF events = {} THEN 0
     ELSE IF Min(events) \in control THEN -1
     ELSE Min(events) + 1

\* -1: malformed; 0: the empty line is not there yet; or the length of the head.  The
\* last character is not looked at until there is one behind it.
GetRequestLen(buf) ==
  LET e       == Len(buf)
      bare    == {s \in 1..e - 1 : buf[s] = "LF" /\ buf[s + 1] = "LF"}
      crlf    == {s \in 1..e - 2 : buf[s] = "LF" /\ buf[s + 1] = "CR" /\ buf[s + 2] = "LF"}
      control == {s \in 1..e - 1 : buf[s] = "CTL"}
      events  == bare \cup crlf \cup control
  IN CASE events = {}             -> 0
       [] Min(events) \in control -> -1
       [] Min(events) \in bare    -> Min(events) + 1
       [] OTHER                   -> Min(events) + 2

\* The word before the first delimiter, and what follows the delimiter and the white
\* space behind it.
Skip(delimiters, white) ==
  [text \in Seq(STRING) |->
     LET ends  == {i \in DOMAIN text : text[i] \in delimiters}
         end   == Min(ends \cup {Len(text) + 1})
         start == Min({i \in end + 1..Len(text) : text[i] \notin white} \cup {Len(text) + 1})
     IN [word |-> SubSeq(text, 1, end - 1), rest |-> SubSeq(text, start, Len(text))]]

\* Name and value of each line, up to the first empty name and to MaxHeaders.
ParseHeaders(text) ==
  LET Line(acc, i) ==
        LET name  == Skip({":"}, {"SP"})[acc.rest]
            value == Skip(LineEnd, LineEnd)[name.rest]
        IN IF acc.rest = <<>> \/ name.word = <<>> THEN [acc EXCEPT !.rest = <<>>]
           ELSE [rest |-> value.rest,
                 headers |-> Append(acc.headers, [name |-> name.word, value |-> value.word])]
  IN FoldLeft(Line, [rest |-> text, headers |-> <<>>], [i \in 1..MaxHeaders |-> i]).headers

Methods == {"GET", "POST", "HEAD", "CONNECT", "PUT", "DELETE", "OPTIONS", "PROPFIND", "MKCOL"}

\* Does the text begin with HTTP/?
IsHttp(word) == word # <<>> /\ Head(word) = "HTTP/"

\* mg_request_info of a head; a response is let through as well.
ParseMessage(head) ==
  LET first   == Min({i \in DOMAIN head : head[i] \notin LineEnd \cup {"SP"}}
                     \cup {Len(head) + 1})
      method  == Skip({"SP"}, {"SP"})[SubSeq(head, first, Len(head))]
      uri     == Skip({"SP"}, {"SP"})[method.rest]
      version == Skip(LineEnd, LineEnd)[uri.rest]
      request == method.word \in {<<name>> : name \in Methods}
  IN [valid        |-> IsHttp(IF request THEN version.word ELSE method.word),
      method       |-> method.word,
      uri          |-> uri.word,
      http_version |-> IF request /\ IsHttp(version.word) THEN Tail(version.word)
                       ELSE version.word,
      headers      |-> ParseHeaders(version.rest)]

\* The first header with that name, or none.
Header(ri, name) == SelectSeq(ri.headers, LAMBDA header : header.name = <<name>>)

IsValidUri(uri) == uri # <<>> /\ (Head(uri) = "/" \/ uri = <<"*">>)

-----------------------------------------------------------------------------
(* handle_request: the URI as callbacks see it *)

Escapes == [dot |-> "%2e", slash |-> "%2f"]
UrlDecode(uri) ==
  [i \in DOMAIN uri |-> CASE uri[i] = Escapes.dot   -> "."
                          [] uri[i] = Escapes.slash -> "/"
                          [] OTHER                  -> uri[i]]

Slashes == {"/", "\\"}

\* Behind a slash: over the slashes and the pairs of dots.
Behind(s) ==
  LET next[i \in 1..Len(s) + 1] ==
        CASE i <= Len(s) /\ s[i] \in Slashes                    -> next[i + 1]
          [] i < Len(s)  /\ s[i] = "." /\ s[i + 1] = "."        -> next[i + 2]
          [] OTHER                                              -> i
  IN next

\* Mutant of RemoveDoubleDots: it skips once instead of again and again.
RemoveDoubleDotsOnce(s) ==
  LET Skip1(i) == CASE i <= Len(s) /\ s[i] \in Slashes             -> i + 1
                    [] i < Len(s)  /\ s[i] = "." /\ s[i + 1] = "." -> i + 2
                    [] OTHER                                       -> i
      clean[i \in 1..Len(s) + 1] ==
        IF i > Len(s) THEN <<>>
        ELSE <<s[i]>> \o clean[IF s[i] \in Slashes THEN Skip1(i + 1) ELSE i + 1]
  IN clean[1]

RemoveDoubleDots(s) ==
  LET clean[i \in 1..Len(s) + 1] ==
        IF i > Len(s) THEN <<>>
        ELSE <<s[i]>> \o clean[IF s[i] \in Slashes THEN Behind(s)[i + 1] ELSE i + 1]
  IN clean[1]

\* Without the query string, decoded and cleaned.
CallbackUri(uri) == RemoveDoubleDots(UrlDecode(Skip({"?"}, {})[uri].word))
=============================================================================
