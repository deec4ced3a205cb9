------------------------------- MODULE Client -------------------------------
(***************************************************************************)
(* How class Client turns the bytes of a connection into requests:         *)
(* readRequest cuts, decodes and completes, processClientEvent hands the   *)
(* buffer over and erases what it used.  The peer's bytes arrive cut into  *)
(* reads in every possible way.                                            *)
(*                                                                         *)
(* Bytes are tokens: "N" is CRLF, the hexadecimal digits are themselves,   *)
(* "G" is a request line, "T" the header Transfer-Encoding: chunked, "L0", *)
(* "L1", ... the header Content-Length with that value, and every other    *)
(* token is some text without meaning here.  Integers have IntWidth and    *)
(* SizeWidth bits, which stand for 32 and 64.                              *)
(***************************************************************************)
EXTENDS Strings

CONSTANTS
  Requests,   \* the requests a peer may send: records as in RequestOK
  Extras,     \* what a peer may send right behind it (pipelining)
  ReadMax,    \* tokens one read() takes at most (CLIENT_READ_REQUEST_BUFFER_SIZE)
  Declared,   \* the value of each Content-Length token
  Digit,      \* the value of each digit token
  IntWidth, SizeWidth

VARIABLES
  request,           \* what the peer sends, first ...
  extra,             \* ... and then
  taken,             \* how many tokens of it were read
  request_buffer,
  request_complete,
  content_length,
  content_parsed,
  handed             \* the buffers processHttpRequest got: none or one

vars == <<request, extra, taken, request_buffer, request_complete,
          content_length, content_parsed, handed>>
-----------------------------------------------------------------------------
(* The peer. *)

CRLF == <<"N">>
EndOfHeaders == <<"N", "N">>
LastChunk == <<"0", "N", "N">>

HeadOf(q) ==
  <<"G">> \o CRLF \o q.first
    \o (CASE q.kind = "none" -> <<>>
          [] q.kind = "length" -> <<q.length>> \o CRLF
          [] q.kind = "chunked" -> <<"T">> \o CRLF)
    \o q.last \o CRLF

Body(q) == FlattenSeq(q.chunks)

\* The body as it is sent.
Sent(q) ==
  LET chunk(k) == q.sizes[k] \o CRLF \o q.chunks[k] \o CRLF
  IN  IF q.kind = "chunked"
      THEN FlattenSeq([k \in DOMAIN q.chunks |-> chunk(k)]) \o LastChunk
      ELSE Body(q)

Encode(q) == HeadOf(q) \o Sent(q)

Stream == Encode(request) \o extra
-----------------------------------------------------------------------------
(* std::string and the C library. *)

\* string::erase(0, n).
EraseFront(s, n) == SubSeq(s, n + 1, Len(s))

\* Conversions to int (atoi) and to size_t.
ToInt(v) ==
  LET low == v % 2^IntWidth
  IN  IF low >= 2^(IntWidth - 1) THEN low - 2^IntWidth ELSE low
ToSize(v) == v % 2^SizeWidth

\* strtoul(s, &end, 16): the digits in front, 0 without any.
strtoul(s) ==
  LET digits == {n \in 0..Len(s) : \A k \in 1..n : s[k] \in DOMAIN Digit}
  IN  FoldLeft(LAMBDA v, d : 16 * v + Digit[d], 0, SubSeq(s, 1, Max(digits)))
-----------------------------------------------------------------------------
(* What a peer may send. *)

Token == STRING
Text == Seq(Token)
Framing == {"T"} \cup DOMAIN Declared    \* the headers that frame a body

\* kind: how the body is framed.  first, last: other headers, before and
\* after the one that frames; with it they end with the first empty line.
\* length: the Content-Length token, which tells the truth as long as an int
\* can hold it.  chunks: the body, in the pieces it is sent in (one piece
\* unless chunked), none of them empty.  sizes: the line that announces each
\* piece of a chunked body, its length in hexadecimal and what may follow.
RequestOK(q) ==
  /\ q.kind \in {"none", "length", "chunked"}
  /\ q.first \in Text /\ q.last \in Text /\ Sent(q) \in Text
  /\ (ToSet(q.first) \cup ToSet(q.last)) \cap Framing = {}
  /\ Find(HeadOf(q), EndOfHeaders) = Len(HeadOf(q)) - 1
  /\ q.kind = "none" => Sent(q) = <<>>
  /\ q.kind = "chunked" =>
       /\ q.chunks \in Seq(Text) /\ q.sizes \in Seq(Text)
       /\ \A k \in DOMAIN q.chunks :
            /\ k \in DOMAIN q.sizes /\ "N" \notin ToSet(q.sizes[k])
            /\ q.chunks[k] # <<>> /\ strtoul(q.sizes[k]) = Len(q.chunks[k])
  /\ q.kind = "length" =>
       /\ q.length \in DOMAIN Declared
       /\ Declared[q.length] < 2^(IntWidth - 1) => Declared[q.length] = Len(Sent(q))
  /\ Len(Encode(q)) < 2^SizeWidth

ASSUME ClientAssumption ==
  /\ \A q \in Requests : RequestOK(q)
  /\ Extras \subseteq Text
  /\ {"G", "N", "T", "0"} \cup DOMAIN Declared \subseteq Token
  /\ {"G", "N", "T"} \cap DOMAIN Declared = {}
  /\ \A t \in DOMAIN Declared : Declared[t] \in Nat
  /\ \A d \in DOMAIN Digit : Digit[d] \in Nat
  /\ "N" \notin DOMAIN Digit /\ "0" \in DOMAIN Digit /\ Digit["0"] = 0
  /\ ReadMax \in Nat \ {0}
  /\ IntWidth \in Nat /\ SizeWidth \in Nat /\ 0 < IntWidth /\ IntWidth < SizeWidth

\* Arithmetic that the provers do not have.
ASSUME PowersAssumption ==
  /\ 2^IntWidth \in Nat /\ 2^SizeWidth \in Nat /\ 2^(IntWidth - 1) \in Nat
  /\ 2^(IntWidth - 1) < 2^IntWidth /\ 2^IntWidth < 2^SizeWidth
-----------------------------------------------------------------------------
(* Client. *)

isChunkedTransfer(headers) == Contains(headers, "T")

\* Looks in the whole buffer, headers included.
isChunkedComplete(buffer) == Find(buffer, LastChunk) # 0

\* Slip: the CRLF behind a chunk is not skipped.
DecodeWithoutSkip(data) ==
  LET from[pos \in Nat \ {0}] ==
        LET eol == FindFrom(data, CRLF, pos)
            size == strtoul(SubSeq(data, pos, eol - 1))
        IN  IF eol = 0 \/ size = 0 \/ eol + size > Len(data) THEN <<>>
            ELSE SubSeq(data, eol + 1, eol + size) \o from[eol + size + 1]
  IN  from[1]

\* A chunk that is not all there is left out, the ones before it are kept.
decodeChunkedBody(data) ==
  LET from[pos \in Nat \ {0}] ==
        LET eol == FindFrom(data, CRLF, pos)
            size == strtoul(SubSeq(data, pos, eol - 1))
            chunk == IF eol + size <= Len(data)
                     THEN SubSeq(data, eol + 1, eol + size) ELSE <<>>
        IN  IF pos > Len(data) \/ eol = 0 \/ size = 0 THEN <<>>
            ELSE chunk \o from[eol + size + 2]
  IN  from[1]

parseContentLength(headers) ==
  LET at == SelectInSeq(headers, LAMBDA t : t \in DOMAIN Declared)
  IN  IF at = 0 THEN 0 ELSE ToSize(ToInt(Declared[headers[at]]))

\* Slip: one token more is expected.
ExpectOneMore(headers, length) == ToSize(Len(headers) + length + 1)

totalExpected(headers, length) == ToSize(Len(headers) + length)

\* Slip: content_parsed is not reset for the next request.
StaysParsed(parsed, complete) == parsed

parsedAfter(parsed, complete) == parsed /\ ~complete

Init ==
  /\ request \in Requests /\ extra \in Extras
  /\ taken = 0
  /\ request_buffer = <<>> /\ handed = <<>>
  /\ request_complete = FALSE
  /\ content_length = 0 /\ content_parsed = FALSE

\* One read(), then PHASE 1 (parse once) and PHASE 2 (check completion).
readRequest ==
  /\ ~request_complete /\ handed = <<>>
  /\ \E n \in 1..ReadMax :
       /\ taken + n <= Len(Stream)
       /\ taken' = taken + n
       /\ LET buffer == request_buffer \o SubSeq(Stream, taken + 1, taken + n)
              headers_end == Find(buffer, EndOfHeaders)
              headers == SubSeq(buffer, 1, headers_end + 1)
              chunked == isChunkedTransfer(headers)
              parsed == content_parsed \/ ~chunked \/ isChunkedComplete(buffer)
              length == IF chunked \/ content_parsed THEN content_length
                        ELSE parseContentLength(headers)
              complete == /\ parsed
                          /\ \/ chunked
                             \/ Len(buffer) >= totalExpected(headers, length)
          IN  IF headers_end = 0
              THEN /\ request_buffer' = buffer
                   /\ UNCHANGED <<request_complete, content_length, content_parsed>>
              ELSE /\ request_buffer' =
                        IF chunked /\ parsed /\ ~content_parsed
                        THEN headers \o decodeChunkedBody(EraseFront(buffer, headers_end + 1))
                        ELSE buffer
                   /\ request_complete' = complete
                   /\ content_length' = IF complete THEN 0 ELSE length
                   /\ content_parsed' = parsedAfter(parsed, complete)
  /\ UNCHANGED <<request, extra, handed>>

\* "Keep rest of buffer".  A chunked body was decoded in place, so that its
\* last chunk is not found: npos + 5 wraps around to 4.
NposPlus5 == 4

\* Slip: only the body's length is erased, not the headers'.
EraseBodyOnly(buffer) ==
  LET headers_end == Find(buffer, EndOfHeaders)
      headers == SubSeq(buffer, 1, headers_end + 1)
  IN  EraseFront(buffer, totalExpected(<<>>, parseContentLength(headers)))

eraseRequest(buffer) ==
  LET headers_end == Find(buffer, EndOfHeaders)
      headers == SubSeq(buffer, 1, headers_end + 1)
      chunk_end == Find(EraseFront(buffer, headers_end + 1), LastChunk)
  IN  EraseFront(buffer,
        IF ~isChunkedTransfer(headers)
        THEN totalExpected(headers, parseContentLength(headers))
        ELSE Len(headers) + (IF chunk_end = 0 THEN NposPlus5
                             ELSE chunk_end - 1 + Len(LastChunk)))

\* The whole buffer is the request that is parsed: whatever follows the
\* headers is its body.
processClientEvent ==
  /\ request_complete
  /\ handed' = <<request_buffer>>
  /\ request_buffer' = eraseRequest(request_buffer)
  /\ request_complete' = FALSE
  /\ UNCHANGED <<request, extra, taken, content_length, content_parsed>>

Next == readRequest \/ processClientEvent

Spec == Init /\ [][Next]_vars
-----------------------------------------------------------------------------
(* Properties. *)

\* Type correctness: a length is a size_t, a complete request leaves nothing
\* behind for the next one.
TypeOK ==
  /\ request \in Requests /\ extra \in Extras
  /\ taken \in 0..Len(Stream)
  /\ Len(request_buffer) <= taken
  /\ request_complete \in BOOLEAN /\ content_parsed \in BOOLEAN
  /\ content_length \in 0..(2^SizeWidth - 1)
  /\ request_complete => ~content_parsed /\ content_length = 0
  /\ \A buffer \in ToSet(handed) : Len(buffer) <= taken

\* The requests the code is right about: a declared length that is an int,
\* and no "0" CRLF CRLF before the last chunk (a last header that ends in 0,
\* such as Host: localhost:8080, or a chunk that holds these bytes).
Understood(q) ==
  /\ q.kind = "length" => Declared[q.length] < 2^(IntWidth - 1)
  /\ q.kind = "chunked" => Find(Encode(q), LastChunk) = Len(Encode(q)) - 2

\* However the bytes are cut into reads, the request is complete with its
\* last byte, not before and not later.
CompleteWithLastByte ==
  Understood(request) /\ handed = <<>> =>
    (request_complete <=> taken >= Len(Encode(request)))

\* ... and the handler gets the headers and the body the peer meant; behind
\* a body that is not chunked it gets what else was read by then.
BodyIsReassembled ==
  Understood(request) /\ handed # <<>> =>
    LET meant == HeadOf(request) \o Body(request)
    IN  IF request.kind = "chunked" THEN handed[1] = meant
        ELSE IsPrefix(meant, handed[1]) /\ IsPrefix(handed[1], meant \o extra)

Rest == SubSeq(Stream, Len(Encode(request)) + 1, taken)

\* After a request with a Content-Length, or without body, exactly the bytes
\* behind it stay in the buffer.
RestIsKept ==
  Understood(request) /\ handed # <<>> /\ request.kind # "chunked"
    => request_buffer = Rest

\* "Keep rest of buffer": the same of every request, chunked ones too.
KeepRestOfBuffer ==
  Understood(request) /\ handed # <<>> => request_buffer = Rest
=============================================================================
