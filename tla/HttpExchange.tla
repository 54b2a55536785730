--------------------------- MODULE HttpExchange ---------------------------
(***************************************************************************)
(* The web server once mg_start has set it up: one worker thread and the   *)
(* connections it serves, one after the other.  process_new_connection,    *)
(* getreq, handle_request and mg_read of mongoose, with the begin_request  *)
(* callback of the service between them.                                   *)
(*                                                                         *)
(* What a client sends is its head and the units of a body; it arrives in  *)
(* pieces of any size.  A cell of the request buffer is a unit and the     *)
(* number of the connection it came with.  The process exit inside Process *)
(* and the result of a query are the matter of other modules.              *)
(***************************************************************************)
EXTENDS HttpMessage, MgStart

CONSTANTS BufSize,      \* MAX_REQUEST_SIZE: conn->buf
          Cap,          \* request_buffer_size: the buffer of the service
          MemSize,      \* MG_BUF_LEN: the buffer of mg_vprintf
          Body,         \* bound: the units of the longest body that a client sends
          Clients,      \* what clients do: see below
          ResultText,   \* bound: the longest result, in characters that differ
          MayStop       \* does somebody call mg_stop?

\* A client sends head and the first units of Body, and then closes its side or
\* stalls; reads: it takes the answer.
ASSUME HttpExchangeAssumption ==
         /\ BufSize \in Nat \ {0} /\ Cap \in Nat \ {0} /\ MemSize \in Nat \ {0}
         /\ Body \in Seq(STRING) /\ ResultText \in Seq(STRING) /\ MayStop \in BOOLEAN
         /\ \A c \in Clients : /\ c.head \in Seq(STRING) /\ c.body \in 0..Len(Body)
                               /\ c.closes \in BOOLEAN /\ c.reads \in BOOLEAN

Zero == [turn |-> 0, unit |-> ""]

VARIABLES
  stop_flag,     \* of the context: mg_stop was called
  pc,            \* where the worker is
  client,        \* the client it serves
  turn,          \* which connection that is, modulo 2: 1 or 2
  data_len, request_len, content_len, consumed, must_close,   \* of the mg_connection
  ri,            \* request_info of the connection
  fill,          \* how far begin_request has filled request_buf_ (buf_beg)
  request_buf,   \* RequestHandler::request_buf_
  status,        \* status_code of the connection
  replies        \* responses written to this connection, in order

conn  == <<client, turn, data_len, request_len, content_len, consumed, must_close, ri>>
vars  == <<server, stop_flag, pc, conn, fill, request_buf, status, replies>>

Least(a, b)    == IF a < b THEN a ELSE b
Greatest(a, b) == IF a > b THEN a ELSE b

\* What this client sends, how much of it was received, and what of it is in conn->buf.
Stream   == client.head \o SubSeq(Body, 1, client.body)
Received == Greatest(data_len, request_len + consumed)
Buf      == SubSeq(Stream, 1, data_len)

\* More than any client sends: INT64_MAX, or a number with many digits.
Infinite == Len(Body) + BufSize + Cap + 1
Strtoll(word) == CASE word = <<"2">> -> 2  [] word = <<"3">> -> 3
                   [] word = <<"9">> -> Infinite [] word = <<"-99">> -> -99
                   [] OTHER -> 0

NoClient == [head |-> <<>>, body |-> 0, closes |-> TRUE, reads |-> TRUE]

\* Nothing parsed.
NoMessage == ParseMessage(<<>>)

Init == /\ StartInit
        /\ stop_flag = 0 /\ pc = "idle" /\ turn = 1
        /\ client = NoClient
        /\ data_len = 0 /\ request_len = 0 /\ content_len = 0 /\ consumed = 0
        /\ must_close = FALSE /\ ri = NoMessage
        /\ fill = 0 /\ request_buf = [i \in 1..Cap |-> Zero]
        /\ status = -1 /\ replies = <<>>

-----------------------------------------------------------------------------
(* Writing *)

\* mg_vprintf: a text as long as its buffer loses the last character, for the zero that
\* vsnprintf ends it with; for a longer one a buffer of its own is allocated.
Printed(text) == IF Len(text) = MemSize THEN [text EXCEPT ![MemSize] = "NUL"] ELSE text

\* mg_write, push: all of it, unless the client does not take it.
Sent(text) == IF client.reads THEN {text} ELSE {SubSeq(text, 1, n) : n \in 0..Len(text)}

Reply(what) == replies' = Append(replies, [what |-> what])

\* Mutant of ResponseText: without the line end behind the result.
ResponseTextBare(result) == <<"header">> \o result

\* The headers, among them the length of the result, the result and a line end.
ResponseText(result) == <<"header">> \o result \o <<"LF">>

\* A result of n characters.
Result(n) == SubSeq(ResultText, 1, n)

\* The text of Content-Length that the client sees behind the headers.
ReplyResult(n) ==
  \E text \in Sent(Printed(ResponseText(Result(n)))) :
    replies' = Append(replies, [what |-> "result", length |-> n,
                                text |-> SubSeq(text, 2, Least(n + 1, Len(text)))])

-----------------------------------------------------------------------------
(* mongoose: take the connection, read and parse its request               *)

Start == /\ StartNext
         /\ UNCHANGED <<stop_flag, pc, conn, fill, request_buf, status, replies>>

\* mg_stop from another thread, at any time.
Stop == /\ MayStop /\ start = "started" /\ stop_flag = 0
        /\ stop_flag' = 1
        /\ UNCHANGED <<server, pc, conn, fill, request_buf, status, replies>>

\* consume_socket, then reset_per_request_attributes; content_len of the connection
\* before stays.
Accept == /\ pc = "idle" /\ start = "started" /\ listening # <<>>
          /\ stop_flag = 0
          /\ client' \in Clients
          /\ pc' = "getreq"
          /\ data_len' = 0 /\ request_len' = 0 /\ consumed' = 0
          /\ must_close' = FALSE /\ status' = -1
          /\ UNCHANGED <<server, stop_flag, turn, content_len, ri, fill, request_buf, replies>>

\* read_request: the buffer is neither full nor is there a whole head in it.
Incomplete == GetRequestLen(Buf) = 0 /\ data_len < BufSize

\* pull: some of what the client has sent.
Pull == /\ pc = "getreq" /\ stop_flag = 0
        /\ Incomplete
        /\ \E n \in 1..Least(BufSize - data_len, Len(Stream) - data_len) :
             data_len' = data_len + n
        /\ UNCHANGED <<server, stop_flag, pc, client, turn, request_len, content_len, consumed,
                       must_close, ri, fill, request_buf, status, replies>>

\* The end of reading: a head, a malformed one, a full buffer without one, the end of
\* what the client sends before it closes or the timeout, or the end of the server.
ReadRequest == /\ pc = "getreq"
               /\ ~Incomplete \/ data_len = Len(Stream) \/ stop_flag # 0
               /\ request_len' = IF Incomplete THEN -1 ELSE GetRequestLen(Buf)
               /\ pc' = "parsehead"
               /\ UNCHANGED <<server, stop_flag, client, turn, data_len, content_len, consumed,
                              must_close, ri, fill, request_buf, status, replies>>

\* parse_http_message, with a zero for the last character of the head.
Parse == /\ pc = "parsehead" /\ request_len > 0
         /\ ri' = ParseMessage(SubSeq(Buf, 1, request_len - 1))
         /\ pc' = "parsed"
         /\ UNCHANGED <<server, stop_flag, client, turn, data_len, request_len, content_len,
                        consumed, must_close, fill, request_buf, status, replies>>

NotARequest == \/ pc = "parsehead" /\ request_len <= 0
               \/ pc = "parsed" /\ ~ri.valid

\* Mutant of GetReqFails: close the connection without a word.
GetReqSilent == /\ NotARequest
                /\ must_close' = TRUE
                /\ pc' = "discard"
                /\ UNCHANGED <<server, stop_flag, client, turn, data_len, request_len,
                               content_len, consumed, ri, fill, request_buf, status, replies>>

\* getreq: "Request Too Large", "Client closed connection" or "Bad request".
GetReqFails == /\ NotARequest
               /\ Reply("error") /\ status' = 500
               /\ must_close' = TRUE
               /\ pc' = "discard"
               /\ UNCHANGED <<server, stop_flag, client, turn, data_len, request_len,
                              content_len, consumed, ri, fill, request_buf>>

\* content_len by the headers; -1 means that there is nothing to read.
ContentLen(info) ==
  LET header == Header(info, "Content-Length")
  IN IF header # <<>> THEN Strtoll(Head(header).value)
     ELSE IF info.method \in {<<"POST">>, <<"PUT">>} THEN -1
     ELSE 0

\* The head can be parsed, the URI or the version in it is not a valid one.
InvalidLine == /\ pc = "parsed" /\ ri.valid
               /\ \/ ~IsValidUri(ri.uri) /\ status' = 400
                  \/ /\ IsValidUri(ri.uri)
                     /\ ri.http_version \notin {<<"1.0">>, <<"1.1">>}
                     /\ status' = 505
               /\ Reply("error")
               /\ content_len' = ContentLen(ri)
               /\ pc' = "discard"
               /\ UNCHANGED <<server, stop_flag, client, turn, data_len, request_len, consumed,
                              must_close, ri, fill, request_buf>>

\* handle_request up to the callback.  There is no document root, so that the URI names
\* no file; no password file; and no listener with SSL to redirect to.
HandleRequest == /\ pc = "parsed" /\ ri.valid
                 /\ IsValidUri(ri.uri)
                 /\ ri.http_version \in {<<"1.0">>, <<"1.1">>}
                 /\ content_len' = ContentLen(ri)
                 /\ ri' = [ri EXCEPT !.uri = CallbackUri(@)]
                 /\ pc' = "begin"
                 /\ UNCHANGED <<server, stop_flag, client, turn, data_len, request_len, consumed,
                                must_close, fill, request_buf, status, replies>>

-----------------------------------------------------------------------------
(* The service: begin_request                                              *)

Method == Head(ri.method)

\* Mutant of BeginRequest: the buffer keeps the last request.
BeginRequestDirty == /\ pc = "begin"
                     /\ fill' = 0
                     /\ \/ Method = "GET" /\ Reply("refused") /\ pc' = "unserved"
                        \/ Method # "GET" /\ pc' = "read" /\ UNCHANGED replies
                     /\ UNCHANGED <<server, stop_flag, conn, status, request_buf>>

\* Zero the request buffer; GET is refused with a reply.
BeginRequest == /\ pc = "begin"
                /\ request_buf' = [i \in 1..Cap |-> Zero]
                /\ fill' = 0
                /\ \/ /\ Method = "GET"
                      /\ Reply("refused")
                      /\ pc' = "unserved"
                   \/ /\ Method # "GET"
                      /\ pc' = "read"
                      /\ UNCHANGED replies
                /\ UNCHANGED <<server, stop_flag, conn, status>>

\* Mutant of Room: buf_size -= read_size is forgotten.
WholeBuffer == Cap

\* buf_size: what is left of the buffer.
Room == Cap - fill

\* "If Content-Length is not set, read until socket is closed".
Unset == consumed = 0 /\ content_len = 0
Limit == IF Unset THEN Infinite ELSE content_len

\* mg_read wants no more than fits and no more than the rest of the content.  First
\* comes what is in conn->buf behind the head, then what the socket has.
Want     == Greatest(0, Least(Room, Limit - consumed))
Buffered == Least(Want, Greatest(0, data_len - (request_len + consumed)))
Coming   == IF stop_flag # 0 THEN 0 ELSE Least(Want - Buffered, Len(Stream) - Received)

\* n units of the content go to the buffer, at buf_beg.
Store(n) ==
  request_buf' = [i \in 1..Cap |->
                    IF i \in fill + 1..fill + n
                    THEN [turn |-> turn,
                          unit |-> Stream[request_len + consumed + i - fill]]
                    ELSE request_buf[i]]

SetLimit == content_len' = Limit /\ must_close' = (must_close \/ Unset)

\* A positive result: read on behind it.
ReadSome == /\ pc = "read"
            /\ LET n == Buffered + Coming
               IN /\ n > 0 /\ (n = Want \/ client.closes \/ stop_flag # 0)
                  /\ Store(n)
                  /\ consumed' = consumed + n
                  /\ fill' = fill + n
            /\ SetLimit
            /\ UNCHANGED <<server, stop_flag, pc, client, turn, data_len, request_len, ri,
                           status, replies>>

\* Mutant of ReadEnds: while (read_size >= 0).
ReadEndsNever == /\ pc = "read"
                 /\ LET n == Buffered + Coming
                    IN /\ n = 0 \/ (n < Want /\ ~client.closes /\ stop_flag = 0)
                       /\ Store(n)
                       /\ consumed' = consumed + n
                       /\ pc' = IF n = 0 /\ (Want = 0 \/ client.closes) THEN pc ELSE "parse"
                 /\ SetLimit
                 /\ UNCHANGED <<server, stop_flag, client, turn, data_len, request_len, ri,
                                fill, status, replies>>

\* 0: no room, no content left or closed.  -1: the rest did not come in time, though
\* what did come is in the buffer.
ReadEnds == /\ pc = "read"
            /\ LET n == Buffered + Coming
               IN /\ n = 0 \/ (n < Want /\ ~client.closes /\ stop_flag = 0)
                  /\ Store(n)
                  /\ consumed' = consumed + n
            /\ SetLimit
            /\ pc' = "parse"
            /\ UNCHANGED <<server, stop_flag, client, turn, data_len, request_len, ri, fill,
                           status, replies>>

\* The server stops while recv waits: -1, and what came is in the buffer, uncounted.
ReadStopped == /\ pc = "read"
               /\ MayStop /\ stop_flag = 0
               /\ Want > Buffered
               /\ stop_flag' = 1
               /\ \E n \in 0..Coming : Store(Buffered + n)
               /\ consumed' = consumed + Buffered
               /\ SetLimit
               /\ pc' = "parse"
               /\ UNCHANGED <<server, client, turn, data_len, request_len, ri, fill, status,
                              replies>>

\* The parser refuses the text; or the query is processed, and Process begins with
\* Clear, which zeros the buffer again.  One reply either way, and return 0.
ParseAndReply == /\ pc = "parse"
                 /\ \/ Reply("error") /\ UNCHANGED request_buf
                    \/ /\ \E n \in 0..Len(ResultText) : ReplyResult(n)
                       /\ request_buf' = [i \in 1..Cap |-> Zero]
                 /\ pc' = "unserved"
                 /\ UNCHANGED <<server, stop_flag, conn, fill, status>>

-----------------------------------------------------------------------------
(* mongoose again: begin_request returned 0, so handle_request goes on      *)

NotServed == /\ pc = "unserved"
             /\ \/ Method = "OPTIONS" /\ Reply("options") /\ status' = 200
                \/ /\ Method # "OPTIONS" /\ config.document_root = ""
                   /\ Reply("not found") /\ status' = 404
             /\ pc' = "discard"
             /\ UNCHANGED <<server, stop_flag, conn, fill, request_buf>>

\* Mutant of DiscardLen: the sign of the length is not looked at.
DiscardLenSigned == IF request_len > 0 /\ request_len + content_len < data_len
                    THEN {request_len + content_len} ELSE {data_len}

\* discard_len: the request, if there is something behind it, or all of the buffer.  The
\* sum of the lengths overflows when mg_read has set content_len to INT64_MAX.
DiscardLen ==
  IF content_len < 0 \/ request_len <= 0 THEN {data_len}
  ELSE IF content_len = Infinite THEN {data_len, request_len - 1}
  ELSE {Least(data_len, request_len + content_len)}

Discard == /\ pc = "discard"
           /\ \E len \in DiscardLen : data_len' = data_len - len
           /\ pc' = "close"
           /\ UNCHANGED <<server, stop_flag, client, turn, request_len, content_len, consumed,
                          must_close, ri, fill, request_buf, status, replies>>

\* enable_keep_alive is not "yes": the loop of process_new_connection ends.  The client
\* is gone and with it all that nobody reads before it is set again.
Close == /\ pc = "close"
         /\ config.enable_keep_alive # "yes"
         /\ pc' = "idle"
         /\ turn' = 3 - turn
         /\ must_close' = TRUE
         /\ client' = NoClient /\ replies' = <<>>
         /\ data_len' = 0 /\ request_len' = 0 /\ consumed' = 0
         /\ ri' = NoMessage /\ fill' = 0 /\ status' = -1
         /\ UNCHANGED <<server, stop_flag, content_len, request_buf>>

Worker == \/ Pull \/ ReadRequest \/ Parse \/ GetReqFails \/ InvalidLine \/ HandleRequest
          \/ BeginRequest \/ ReadSome \/ ReadEnds \/ ParseAndReply \/ NotServed \/ Discard
          \/ Close

Next == Start \/ Stop \/ Accept \/ Worker \/ ReadStopped

Spec == Init /\ [][Next]_vars

\* The worker runs, and a read ends: the socket has a timeout
\* (request_timeout_ms).  Clients need not come.
FairSpec == Spec /\ WF_vars(Worker)

-----------------------------------------------------------------------------
(* Properties *)

\* What clients send.
Units == ToSet(Body) \cup UNION {ToSet(c.head) : c \in Clients}

\* The types of the variables; no read ever stores behind a buffer.
TypeOK ==
  /\ stop_flag \in {0, 1}
  /\ pc \in {"idle", "getreq", "parsehead", "parsed", "begin", "read", "parse", "unserved", "discard",
             "close"}
  /\ turn \in {1, 2}
  /\ data_len \in 0..BufSize /\ request_len \in -1..BufSize
  /\ content_len \in {-99, -1} \cup 0..Infinite
  /\ consumed \in 0..Cap /\ must_close \in BOOLEAN
  /\ fill \in 0..Cap
  /\ request_buf \in [1..Cap -> [turn : 0..2, unit : {""} \cup Units]]
  /\ status \in {-1, 200, 400, 404, 500, 505}
  /\ \A i \in DOMAIN replies :
       replies[i].what \in {"error", "refused", "result", "options", "not found"}

\* A head of characters, up to and with its first empty line.
EmptyLine(text, s, e) == SubSeq(text, s, e) \in {<<"LF", "LF">>, <<"LF", "CR", "LF">>}
IsHead(head) == /\ "CTL" \notin ToSet(head)
                /\ \E s \in 1..Len(head) : EmptyLine(head, s, Len(head))
                /\ \A s \in 1..Len(head), e \in 1..Len(head) - 1 : ~EmptyLine(head, s, e)

\* The units that the client announced, in the header that comes first; the line end
\* that ends the head is no part of a header.
Announced == ContentLen(ParseMessage(SubSeq(client.head, 1, Len(client.head) - 1)))

\* In whatever pieces head and body arrive, however many reads it takes, and whatever
\* the client sends behind it: a body that is announced, that is sent in full and that
\* fits is in the buffer at its place when it is parsed, and behind it are the zeros
\* that end the text.
BodyArrivesExactly ==
  pc = "parse" /\ stop_flag = 0 /\ IsHead(client.head)
  /\ Announced \in 1..Least(Cap, client.body) =>
    request_buf = [i \in 1..Cap |-> IF i <= Announced THEN [turn |-> turn, unit |-> Body[i]]
                                                      ELSE Zero]

\* Whatever goes wrong with its own body, the server's stop included, a request is never
\* answered from what an earlier client left in the buffer of the worker.
NoStaleBytes == pc = "parse" => \A i \in 1..Cap : request_buf[i].turn \in {0, turn}

\* A client that reads gets its result to the last character, also when the response is
\* as long as the buffer of mg_vprintf.
ResultArrivesWhole ==
  \A i \in DOMAIN replies :
    replies[i].what = "result" /\ client.reads => replies[i].text = Result(replies[i].length)

\* "Protect against directory disclosure": the URI that callbacks see has neither an
\* empty segment nor one that begins with two dots, whatever was escaped in it.
CleanUri ==
  pc = "begin" =>
    \A i \in 1..Len(ri.uri) - 1 :
      ri.uri[i] \in Slashes => /\ ri.uri[i + 1] \notin Slashes
                            /\ ~(ri.uri[i + 1] = "." /\ i + 2 <= Len(ri.uri) /\ ri.uri[i + 2] = ".")

\* assert(discard_len >= 0), assert(conn->data_len >= 0): what is discarded is in the
\* buffer, whatever length the client announced and for all that is left of the
\* connection before.
DiscardStaysInBuffer == [][Discard => data_len' \in 0..data_len]_vars

\* No connection is closed without an answer, whichever check turned it away.
AnsweredBeforeClose == [][Close => replies # <<>>]_vars

\* Every connection is closed again, so that the worker can take the next one.
ConnectionEnds == pc # "idle" ~> pc = "idle"
=============================================================================
