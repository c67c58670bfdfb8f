---------------------------- MODULE HttpRequest ----------------------------
(***************************************************************************)
(* One HTTP proxy connection up to the end of its request                  *)
(* (src/http_proxy.rs): the head is read, checked, authenticated and       *)
(* rewritten, the upstream is opened, and forward_body passes on the body  *)
(* as the framing headers delimit it.  What follows on a tunnel, and the   *)
(* response, is in SnellSession.  A header line is what the proxy takes    *)
(* for one: a name with the list of its comma-separated tokens, and what   *)
(* other lines a reader finds in it that also ends lines at a bare LF.  A  *)
(* body is a sequence of symbols, of which "cr", "lf", "semicolon",        *)
(* "blank" (a blank or a tab) and the digits matter to the chunked coding. *)
(***************************************************************************)
EXTENDS Integers, Sequences, FiniteSets, SequencesExt

CONSTANTS
    Heads,         \* request heads: [method, target, version, headers]
    Streams,       \* what the client sends after the head
    Credentials,   \* Proxy-Authorization values that authenticate accepts
    ChunkLineLimit, TrailerLimit,   \* CHUNK_LINE_LIMIT, TRAILER_LIMIT
    BodyBatch,     \* BODY_BATCH_SIZE
    Radix,         \* chunk sizes are hexadecimal
    DigitValues,   \* the value of each digit of a chunk size
    MaxSizeDigits, \* parse_chunk_size takes 15 digits
    Numerals,      \* the number that each token of decimal digits denotes
    LengthLimit,   \* the first number beyond u64
    OriginWidth    \* origins compute with numbers modulo OriginWidth

\* split: the lines that a bare LF makes of it, if there is one.
HeaderLines ==
    [name : STRING, tokens : Seq(STRING), split : Seq([name : STRING, tokens : Seq(STRING)])]

\* The number of sizes of d digits.
SizeCount[d \in 0..MaxSizeDigits] == IF d = 0 THEN 1 ELSE Radix * SizeCount[d - 1]

\* What the proxy accepts fits the numbers of the origin.
ASSUME HttpAssumption ==
    /\ \A head \in Heads : head.headers \in Seq(HeaderLines)
    /\ Streams \subseteq Seq(STRING)
    /\ Radix \in Nat \ {0}
    /\ \A c \in DOMAIN DigitValues : DigitValues[c] \in 0..Radix - 1
    /\ DOMAIN DigitValues \cap {"cr", "lf", "semicolon", "blank"} = {}
    /\ MaxSizeDigits \in Nat
    /\ \A t \in DOMAIN Numerals : Numerals[t] \in Nat
    /\ LengthLimit \in Nat /\ OriginWidth \in Nat \ {0}
    /\ LengthLimit <= OriginWidth /\ SizeCount[MaxSizeDigits] <= OriginWidth

VARIABLES
    httpAuth,   \* requires_auth(options.mode)
    httpPc,
    httpStatus, \* the status written for a request that is refused
    forwarded,  \* ForwardedRequest: [version, headers, framing, upgrade]
    stream,     \* everything the client sends after the head
    leftover,   \* the part of it that was read with the head
    unread,     \* the part that has not been read
    buffered,   \* BufReader::buffer
    pending,    \* forward_body's output
    line,       \* read_body_line's line
    stage,      \* where forward_body is
    remaining,  \* copy_body_bytes
    trailers,   \* trailer_bytes
    sent        \* what the upstream got; "head" stands for the head

bodyVars == <<leftover, unread, buffered, pending, line, stage, remaining, trailers>>
httpVars == <<httpAuth, httpPc, httpStatus, forwarded, stream, bodyVars, sent>>

NotForwarded ==
    [version |-> "1.1", headers |-> <<>>, framing |-> [kind |-> "empty", length |-> 0],
     upgrade |-> FALSE]

HttpInit ==
    /\ httpAuth \in BOOLEAN
    /\ httpPc = "head" /\ httpStatus = 0
    /\ forwarded = NotForwarded
    /\ stream = <<>> /\ leftover = <<>> /\ unread = <<>> /\ buffered = <<>>
    /\ pending = <<>> /\ line = <<>> /\ stage = "none" /\ remaining = 0 /\ trailers = 0
    /\ sent = <<>>

-----------------------------------------------------------------------------
(***************************************************************************)
(* The head.                                                               *)
(***************************************************************************)
\* rewrite_absolute_request: the tokens of the headers of one name, with those
\* of one more header, of the first i headers and of all.
WithTokens(tokens, h, name) == IF h.name = name THEN tokens \o h.tokens ELSE tokens
TokensUpTo(headers, name) ==
    LET tokens[i \in 0..Len(headers)] ==
            IF i = 0 THEN <<>> ELSE WithTokens(tokens[i - 1], headers[i], name)
    IN  tokens
Named(headers, name) == TokensUpTo(headers, name)[Len(headers)]

Has(headers, name) == \E i \in 1..Len(headers) : headers[i].name = name

\* "a `Connection` option may never remove these headers".
IsFramingHeader(name) == name \in {"host", "content-length", "transfer-encoding"}

IsHopByHop(name, upgrade) ==
    \/ name \in {"connection", "keep-alive", "proxy-connection", "proxy-authorization", "te"}
    \/ ~upgrade /\ name = "upgrade"

Framing(kind, length) == [kind |-> kind, length |-> length]

\* request_framing: "reject" for every request it refuses.
RequestFraming(version, lengths, codings) ==
    IF codings # <<>>
    THEN IF /\ lengths = <<>> /\ version = "1.1"
            /\ ~Contains(codings, "")
            /\ Cardinality({i \in 1..Len(codings) : codings[i] = "chunked"}) = 1
            /\ Last(codings) = "chunked"
         THEN Framing("chunked", 0) ELSE Framing("reject", 0)
    ELSE IF lengths = <<>> THEN Framing("empty", 0)
    ELSE IF \/ Head(lengths) \notin DOMAIN Numerals
            \/ ToSet(lengths) # {Head(lengths)}
            \/ Numerals[Head(lengths)] >= LengthLimit
         THEN Framing("reject", 0)
    ELSE IF Numerals[Head(lengths)] = 0 THEN Framing("empty", 0)
    ELSE Framing("length", Numerals[Head(lengths)])

IsUpgrade(headers) == Contains(Named(headers, "connection"), "upgrade") /\ Has(headers, "upgrade")

\* The headers that go upstream: hop-by-hop ones and those Connection names
\* are dropped, except the ones that frame the body.
Forwards(headers, h) ==
    LET upgrade == IsUpgrade(headers)
    IN  /\ ~IsHopByHop(h.name, upgrade)
        /\ \/ upgrade /\ h.name = "upgrade"
           \/ IsFramingHeader(h.name)
           \/ ~Contains(Named(headers, "connection"), h.name)

\* Those among the first i headers, in their order, and all of them.
WithForwarded(kept, headers, h) == IF Forwards(headers, h) THEN Append(kept, h) ELSE kept
ForwardedUpTo(headers) ==
    LET kept[i \in 0..Len(headers)] ==
            IF i = 0 THEN <<>> ELSE WithForwarded(kept[i - 1], headers, headers[i])
    IN  kept
ForwardedHeaders(headers) == ForwardedUpTo(headers)[Len(headers)]

\* rewrite_absolute_request, for an http:// URL with a host.
Rewritten(head) ==
    [version |-> head.version,
     headers |-> ForwardedHeaders(head.headers),
     framing |-> RequestFraming(head.version, Named(head.headers, "content-length"),
                                Named(head.headers, "transfer-encoding")),
     upgrade |-> IsUpgrade(head.headers)]

\* parse_basic_proxy_auth: the first Basic credentials, if they decode.
ProxyAuth(headers) ==
    LET basic == SelectSeq(headers, LAMBDA h : h.name = "proxy-authorization"
                                                /\ h.tokens # <<"bearer">>)
    IN  IF basic = <<>> THEN "none" ELSE Head(basic).tokens[1]

\* parse_request_line, parse_connect_target, and the URL and header checks.
WellFormed(head) ==
    /\ head.target = "good"
    /\ head.method # "connect" =>
          /\ ~Has(head.headers, "folded")
          /\ Rewritten(head).framing.kind # "reject"

HttpRefuse(status) ==
    /\ httpPc' = "closed"
    /\ httpStatus' = status
    /\ UNCHANGED <<httpAuth, forwarded, stream, bodyVars, sent>>

\* read_proxy_request fails: the client leaves, sends too much, or nothing
\* until the handshake timeout, which gets no answer.
HeadUnread(status) == httpPc = "head" /\ HttpRefuse(status)

HeadRefused(head) == httpPc = "head" /\ ~WellFormed(head) /\ HttpRefuse(400)

Authenticated(head) == ~httpAuth \/ ProxyAuth(head.headers) \in Credentials

Unauthenticated(head) ==
    httpPc = "head" /\ WellFormed(head) /\ ~Authenticated(head) /\ HttpRefuse(407)

\* The last read of the head may bring a part of what follows.
HeadAccepted(head, s, k) ==
    /\ httpPc = "head" /\ WellFormed(head) /\ Authenticated(head)
    /\ httpPc' = IF head.method = "connect" THEN "connect" ELSE "dialing"
    /\ forwarded' = IF head.method = "connect" THEN NotForwarded ELSE Rewritten(head)
    /\ stream' = s
    /\ leftover' = SubSeq(s, 1, k)
    /\ unread' = SubSeq(s, k + 1, Len(s))
    /\ UNCHANGED <<httpAuth, httpStatus, buffered, pending, line, stage, remaining, trailers, sent>>

UpstreamFails == httpPc \in {"connect", "dialing"} /\ HttpRefuse(502)

\* A CONNECT or an upgrade becomes a tunnel; leftover goes first.
Tunnel ==
    /\ httpPc = "connect" \/ (httpPc = "dialing" /\ forwarded.upgrade)
    /\ httpPc' = "tunnel"
    /\ sent' = (IF httpPc = "connect" THEN <<>> ELSE <<"head">>) \o leftover
    /\ leftover' = <<>>
    /\ UNCHANGED <<httpAuth, httpStatus, forwarded, stream, unread, buffered, pending, line,
                   stage, remaining, trailers>>

\* relay_one_request: forward_body starts with the head in its output.
RelayOneRequest ==
    /\ httpPc = "dialing" /\ ~forwarded.upgrade
    /\ httpPc' = "body"
    /\ pending' = <<"head">>
    /\ stage' = CASE forwarded.framing.kind = "empty"   -> "end"
                  [] forwarded.framing.kind = "length"  -> "length"
                  [] forwarded.framing.kind = "chunked" -> "size"
    /\ remaining' = forwarded.framing.length
    /\ UNCHANGED <<httpAuth, httpStatus, forwarded, stream, leftover, unread, buffered, line,
                   trailers, sent>>

-----------------------------------------------------------------------------
(***************************************************************************)
(* forward_body.                                                           *)
(***************************************************************************)
Forwarding == httpPc = "body" /\ stage # "end"

\* fill_body: what is pending is sent before a read that has to wait.
SendPending ==
    /\ Forwarding /\ buffered = <<>> /\ pending # <<>>
    /\ sent' = sent \o pending
    /\ pending' = <<>>
    /\ UNCHANGED <<httpAuth, httpPc, httpStatus, forwarded, stream, leftover, unread, buffered,
                   line, stage, remaining, trailers>>

\* The reader gives the leftover first, then what the client sends.
FillLeftover ==
    /\ Forwarding /\ buffered = <<>> /\ pending = <<>> /\ leftover # <<>>
    /\ buffered' = leftover
    /\ leftover' = <<>>
    /\ UNCHANGED <<httpAuth, httpPc, httpStatus, forwarded, stream, unread, pending, line, stage,
                   remaining, trailers, sent>>

FillBuf(n) ==
    /\ Forwarding /\ buffered = <<>> /\ pending = <<>> /\ leftover = <<>>
    /\ buffered' = SubSeq(unread, 1, n)
    /\ unread' = SubSeq(unread, n + 1, Len(unread))
    /\ UNCHANGED <<httpAuth, httpPc, httpStatus, forwarded, stream, leftover, pending, line,
                   stage, remaining, trailers, sent>>

BodyFails(how) ==
    /\ httpPc' = how
    /\ UNCHANGED <<httpAuth, httpStatus, forwarded, stream, bodyVars, sent>>

\* The client closes inside the body.
BodyEof ==
    /\ Forwarding /\ buffered = <<>> /\ pending = <<>> /\ leftover = <<>> /\ unread = <<>>
    /\ BodyFails("refused")

\* The upstream fails under a write, also under the first one of a tunnel.
SinkFails ==
    /\ \/ httpPc = "body" /\ pending # <<>>
       \/ httpPc = "connect" \/ (httpPc = "dialing" /\ forwarded.upgrade)
    /\ BodyFails("aborted")

\* Puts more output behind what is pending, and sends a full batch.
Push(symbols) ==
    LET output == pending \o symbols
    IN  IF stage \in {"length", "data"} /\ Len(output) >= BodyBatch
        THEN sent' = sent \o output /\ pending' = <<>>
        ELSE pending' = output /\ UNCHANGED sent

\* copy_body_bytes, one turn of its loop.
CopyBodyBytes ==
    /\ httpPc = "body" /\ stage \in {"length", "data"} /\ buffered # <<>>
    /\ LET take == IF Len(buffered) < remaining THEN Len(buffered) ELSE remaining
       IN  /\ Push(SubSeq(buffered, 1, take))
           /\ buffered' = SubSeq(buffered, take + 1, Len(buffered))
           /\ remaining' = remaining - take
           /\ stage' = IF take < remaining THEN stage
                       ELSE IF stage = "length" THEN "end" ELSE "terminator"
    /\ UNCHANGED <<httpAuth, httpPc, httpStatus, forwarded, stream, leftover, unread, line, trailers>>

\* What the next turn of read_body_line takes, and whether it ends the line.
LineTake ==
    IF Contains(buffered, "lf") THEN Min({i \in 1..Len(buffered) : buffered[i] = "lf"})
    ELSE Len(buffered)
LineSoFar == line \o SubSeq(buffered, 1, LineTake)
LineDone  == Contains(buffered, "lf")
LineLimit ==
    CASE stage = "size"       -> ChunkLineLimit
      [] stage = "trailer"    -> TrailerLimit
      [] stage = "terminator" -> 2
InLine    == httpPc = "body" /\ stage \in {"size", "terminator", "trailer"} /\ buffered # <<>>

\* "!line.ends_with(b"\r\n")" refuses a line that ends in a bare LF.
EndsInCrlf(l) == Len(l) >= 2 /\ l[Len(l) - 1] = "cr" /\ l[Len(l)] = "lf"
EmptyLine == <<"cr", "lf">>

\* The number that digits denote.
DigitValue(c) == IF c \in DOMAIN DigitValues THEN DigitValues[c] ELSE 0
ValueUpTo(digits) ==
    LET value[i \in 0..Len(digits)] ==
            IF i = 0 THEN 0 ELSE Radix * value[i - 1] + DigitValue(digits[i])
    IN  value
Value(digits) == ValueUpTo(digits)[Len(digits)]

\* parse_chunk_size: the size stands before the first semicolon or the CRLF,
\* and blanks may follow it.
Invalid == -1
ExtensionAt(l) == Min({i \in 1..Len(l) - 1 : i = Len(l) - 1 \/ l[i] = "semicolon"})
SizeDigits(l) ==
    Min({k \in 0..ExtensionAt(l) - 1 : \A i \in k + 1..ExtensionAt(l) - 1 : l[i] = "blank"})
IsSize(l, k) == k \in 1..MaxSizeDigits /\ \A i \in 1..k : l[i] \in DOMAIN DigitValues

\* Mutant: a size may have any number of digits.
ChunkSizeOfAnyLength(l) ==
    IF SizeDigits(l) > 0 /\ \A i \in 1..SizeDigits(l) : l[i] \in DOMAIN DigitValues
    THEN Value(SubSeq(l, 1, SizeDigits(l))) ELSE Invalid

ChunkSize(l) == IF IsSize(l, SizeDigits(l)) THEN Value(SubSeq(l, 1, SizeDigits(l))) ELSE Invalid

\* The line does not end in this buffer.
ReadPartOfLine ==
    /\ InLine /\ ~LineDone /\ Len(LineSoFar) <= LineLimit
    /\ line' = LineSoFar
    /\ buffered' = <<>>
    /\ UNCHANGED <<httpAuth, httpPc, httpStatus, forwarded, stream, leftover, unread, pending,
                   stage, remaining, trailers, sent>>

\* The line is complete: a chunk size, the end of a chunk or a trailer.
ReadBodyLine ==
    /\ InLine /\ LineDone /\ Len(LineSoFar) <= LineLimit /\ EndsInCrlf(LineSoFar)
    /\ CASE stage = "size" ->
              /\ ChunkSize(LineSoFar) # Invalid
              /\ remaining' = ChunkSize(LineSoFar)
              /\ stage' = IF ChunkSize(LineSoFar) = 0 THEN "trailer" ELSE "data"
              /\ trailers' = 0
         [] stage = "terminator" ->
              /\ LineSoFar = EmptyLine
              /\ stage' = "size"
              /\ UNCHANGED <<remaining, trailers>>
         [] stage = "trailer" ->
              /\ trailers + Len(LineSoFar) <= TrailerLimit
              /\ trailers' = trailers + Len(LineSoFar)
              /\ stage' = IF LineSoFar = EmptyLine THEN "end" ELSE "trailer"
              /\ UNCHANGED remaining
    /\ pending' = pending \o LineSoFar
    /\ line' = <<>>
    /\ buffered' = SubSeq(buffered, LineTake + 1, Len(buffered))
    /\ UNCHANGED <<httpAuth, httpPc, httpStatus, forwarded, stream, leftover, unread, sent>>

LineMalformed ==
    /\ InLine /\ LineDone /\ Len(LineSoFar) <= LineLimit
    /\ \/ ~EndsInCrlf(LineSoFar)
       \/ EndsInCrlf(LineSoFar) /\ stage = "size" /\ ChunkSize(LineSoFar) = Invalid
       \/ EndsInCrlf(LineSoFar) /\ stage = "terminator" /\ LineSoFar # EmptyLine
    /\ BodyFails("refused")

\* A line, or the trailers together, beyond the limit; what should end a
\* chunk is malformed if it is longer than a line end.
LineTooLong ==
    /\ InLine
    /\ \/ Len(LineSoFar) > LineLimit
       \/ LineDone /\ stage = "trailer" /\ trailers + Len(LineSoFar) > TrailerLimit
    /\ BodyFails(IF stage = "terminator" THEN "refused" ELSE "aborted")

\* The rest of the output is sent; what the client sent beyond the body is
\* discarded after the response.
ForwardBodyEnds ==
    /\ httpPc = "body" /\ stage = "end"
    /\ sent' = sent \o pending
    /\ pending' = <<>>
    /\ httpPc' = "forwarded"
    /\ UNCHANGED <<httpAuth, httpStatus, forwarded, stream, leftover, unread, buffered, line,
                   stage, remaining, trailers>>

-----------------------------------------------------------------------------
Handshake ==
    /\ httpPc = "head"
    /\ \E head \in Heads :
          \/ HeadRefused(head) \/ Unauthenticated(head)
          \/ \E s \in Streams : \E k \in 0..Len(s) : HeadAccepted(head, s, k)

HttpNext ==
    \/ \E status \in {0, 400} : HeadUnread(status)
    \/ Handshake
    \/ UpstreamFails \/ Tunnel \/ RelayOneRequest
    \/ SendPending \/ FillLeftover \/ BodyEof \/ SinkFails \/ CopyBodyBytes \/ ReadPartOfLine
    \/ ReadBodyLine \/ LineMalformed \/ LineTooLong \/ ForwardBodyEnds
    \/ \E n \in 1..Len(unread) : FillBuf(n)

HttpSpec == HttpInit /\ [][HttpNext]_httpVars

-----------------------------------------------------------------------------
(***************************************************************************)
(* How origins read the forwarded request.  What RFC 9112 leaves open, or  *)
(* servers do all the same, differs between them:                          *)
(*   lines   a line ends at every LF ("lf"), at CRLF only ("crlf"), or a   *)
(*           bare LF and a chunk size outside the grammar are errors, that *)
(*           of more than MaxSizeDigits digits included ("strict");        *)
(*   old     Transfer-Encoding counts only in an HTTP/1.1 request without  *)
(*           Content-Length, else it decides over Content-Length;          *)
(*   last    the last of several Content-Length counts, else the first.    *)
(***************************************************************************)
Readers == [lines : {"lf", "crlf", "strict"}, old : BOOLEAN, last : BOOLEAN]

\* A header holds a bare LF, and the lines that a reader sees for that.
Split(headers) == \E i \in 1..Len(headers) : headers[i].split # <<>>
OriginLines(reader, headers) ==
    IF reader.lines = "lf" /\ Split(headers)
    THEN FlattenSeq([i \in 1..Len(headers) |->
             IF headers[i].split = <<>> THEN <<headers[i]>> ELSE headers[i].split])
    ELSE headers

OriginFraming(reader, request) ==
    LET lines   == OriginLines(reader, request.headers)
        codings == Named(lines, "transfer-encoding")
        lengths == Named(lines, "content-length")
        token   == IF reader.last THEN Last(lengths) ELSE Head(lengths)
    IN  IF codings # <<>> /\ (reader.old => lengths = <<>> /\ request.version = "1.1")
        THEN Framing(IF Last(codings) = "chunked" THEN "chunked" ELSE "reject", 0)
        ELSE IF lengths = <<>> THEN Framing("length", 0)
        ELSE IF token \in DOMAIN Numerals THEN Framing("length", Numerals[token] % OriginWidth)
        ELSE Framing("reject", 0)

Incomplete == -1

\* The LF that ends the line at position i.
LineEnd(reader, s, i) ==
    LET crlf(j) == j > i /\ s[j - 1] = "cr"
        ends    == {j \in i..Len(s) : s[j] = "lf" /\ (reader.lines = "crlf" => crlf(j))}
    IN  IF ends = {} \/ (reader.lines = "strict" /\ ~crlf(Min(ends))) THEN Incomplete ELSE Min(ends)

IsEmptyLine(s, i, j) == j = i \/ (j = i + 1 /\ s[i] = "cr")

\* Where trailers that start at a position end: at an empty line.
TrailersGoOn(reader, s, i) ==
    LineEnd(reader, s, i) # Incomplete /\ ~IsEmptyLine(s, i, LineEnd(reader, s, i))
TrailerEnds(reader, s) ==
    LET end[i \in 1..(Len(s) + 1)] ==
            IF TrailersGoOn(reader, s, i) THEN end[LineEnd(reader, s, i) + 1]
            ELSE LineEnd(reader, s, i)
    IN  end

\* The digits at position i end before this position.
DigitsEnd(s, i) == Min({e \in i..Len(s) + 1 : e = Len(s) + 1 \/ s[e] \notin DOMAIN DigitValues})

\* chunk-size BWS [ chunk-ext ], for a line from i to the LF at j.
InGrammar(s, i, j) ==
    \E e \in i + 1..i + MaxSizeDigits : \E m \in e..j - 1 :
        /\ \A k \in i..e - 1 : s[k] \in DOMAIN DigitValues
        /\ \A k \in e..m - 1 : s[k] = "blank"
        /\ m = j - 1 \/ s[m] = "semicolon"

\* The size of the chunk at position i is what its leading digits denote;
\* and where the next one starts, if there is one and a line end follows the
\* data.
SizeAt(reader, s, i) ==
    LET j == LineEnd(reader, s, i)
    IN  IF j = Incomplete \/ DigitsEnd(s, i) = i \/ (reader.lines = "strict" /\ ~InGrammar(s, i, j))
        THEN Invalid ELSE Value(SubSeq(s, i, DigitsEnd(s, i) - 1)) % OriginWidth
AfterData(reader, s, i) ==
    LET j == LineEnd(reader, s, i)
    IN  IF j # Incomplete /\ IsEmptyLine(s, i, j) THEN j + 1 ELSE 0
NextChunk(reader, s, i) ==
    IF SizeAt(reader, s, i) \in {0, Invalid} THEN 0
    ELSE AfterData(reader, s, LineEnd(reader, s, i) + SizeAt(reader, s, i) + 1)

\* Where a chunked body ends whose next chunk starts at a position.
ChunkEnds(reader, s) ==
    LET end[i \in 1..(Len(s) + 1)] ==
            IF NextChunk(reader, s, i) # 0 THEN end[NextChunk(reader, s, i)]
            ELSE IF SizeAt(reader, s, i) = 0 THEN TrailerEnds(reader, s)[LineEnd(reader, s, i) + 1]
            ELSE Incomplete
    IN  end

\* The number of symbols of the body in what the client sends.
OriginEnd(reader, request, s) ==
    LET framing == OriginFraming(reader, request)
    IN  CASE framing.kind = "chunked" -> ChunkEnds(reader, s)[1]
          [] framing.kind = "length"  -> IF framing.length <= Len(s) THEN framing.length ELSE Incomplete
          [] framing.kind = "reject"  -> 0

\* An origin gets the head and what the client sent after it, in order, up to
\* the end that it sees of the body and not beyond it; all of it once the
\* body is forwarded; and a body is refused as malformed only if a strict
\* reader finds no end of it.
AgreesWith(reader) ==
    LET end == OriginEnd(reader, forwarded, stream)
    IN  httpPc \in {"body", "refused", "aborted", "forwarded"} =>
            /\ IsPrefix(sent, <<"head">> \o stream)
            /\ end # Incomplete => Len(sent) <= end + 1
            /\ httpPc = "forwarded" => Len(sent) = end + 1
            /\ httpPc = "refused" /\ reader.lines = "strict" => end = Incomplete

\* A bare LF inside a header, which the proxy forwards as it is, is left to
\* readers that end no line there.
SeesSameLines(reader) == reader.lines = "lf" => ~Split(forwarded.headers)

(***************************************************************************)
(* "The proxy and the origin must agree on where the request body ends"    *)
(* (http_proxy.rs is_framing_header, request_framing, forward_body): for   *)
(* every reader that sees the header lines the proxy sees, whichever       *)
(* header it follows, wherever it ends a line of the body, and with its    *)
(* own reading of the numbers, the origin gets the body as it delimits it. *)
(* Nothing read is held back while the proxy waits for the client, and the *)
(* credentials stay with the proxy.                                        *)
(***************************************************************************)
OriginAgrees ==
    /\ \A reader \in Readers : SeesSameLines(reader) => AgreesWith(reader)
    /\ Forwarding /\ buffered = <<>> /\ pending = <<>> =>
          sent \o line \o leftover \o unread = <<"head">> \o stream
    /\ ~Has(forwarded.headers, "proxy-authorization")
=============================================================================
