-------------------------------- MODULE HttpBody --------------------------------
(***************************************************************************)
(* Requests on one connection, from the bytes the client sends to the calls *)
(* of the payload and request handlers: http_parser::parse and its phases  *)
(* (src/http_parser.cpp), consume_bytes and receive of http_request_reader *)
(* and handle_request_after_headers_parsed of http_server.                 *)
(*                                                                         *)
(* The stream is a sequence of symbols.  The header section of the i-th    *)
(* message is the one symbol <<"head", i>> (HttpHeaders has its syntax);   *)
(* the rest are characters: <<"hex", d>>, <<"cr">>, <<"lf">>, <<"sp">>,    *)
(* <<";">> and <<"x">>.  The bytes of a body may be any of them.           *)
(* They arrive in reads of any size.                                       *)
(***************************************************************************)
EXTENDS Naturals, Sequences

CONSTANTS
  Messages,     \* what the client may send
  MaxMessages,  \* bound: messages on the connection
  ReadMax,      \* bound: bytes of one read (the size of the read buffer)
  Base          \* base of chunk sizes (16 in the code)

ASSUME ReadMaxAssumption == ReadMax \in Nat

(***************************************************************************)
(* A message is a record: framing ("none", "length", "chunked", or "bad"   *)
(* for a Content-Length that is no number and "malformed" for headers with *)
(* an error), length (its Content-Length), keep (does check_keep_alive     *)
(* hold?), handler (is there a payload handler for its resource?), wire    *)
(* (the bytes after its headers), payload (the bytes these stand for) and  *)
(* chunks (where in the wire the client has put the chunks).               *)
(***************************************************************************)

VARIABLES
  sent,       \* the messages the client has sent
  stream,     \* their bytes
  pos, end,   \* m_read_ptr, m_read_end_ptr: bytes consumed, bytes received
  mstate,     \* m_message_parse_state
  cstate,     \* m_chunked_content_parse_state
  digits,     \* m_chunk_size_str
  left,       \* bytes left of the content, or of the current chunk
  msg,        \* the message that the headers describe
  delivered,  \* the bytes given to the payload handler
  handled,    \* number of requests given to handle_request as valid
  lifecycle,  \* the connection's lifecycle
  phase       \* "receive", "reading", "parsing", "handling" or "closed"

input == <<sent, stream>>
parser == <<mstate, cstate, digits, left, msg, delivered>>
bodyVars == <<input, pos, end, parser, handled, lifecycle, phase>>

NoMessage == [framing |-> "none", length |-> 0, keep |-> FALSE, handler |-> FALSE,
              wire |-> <<>>, payload |-> <<>>, chunks |-> {}]

BodyInit ==
  /\ sent = <<>> /\ stream = <<>>
  /\ pos = 0 /\ end = 0
  /\ mstate = "HEADERS" /\ cstate = "SIZE_START"
  /\ digits = <<>> /\ left = 0
  /\ msg = NoMessage /\ delivered = <<>>
  /\ handled = 0
  /\ lifecycle = "close"
  /\ phase = "receive"

-----------------------------------------------------------------------------
(* The client and the socket                                               *)

\* The client may send a message before the one before it is answered.
Send(m) ==
  /\ Len(sent) < MaxMessages
  /\ sent' = Append(sent, m)
  /\ stream' = stream \o <<<<"head", Len(sent) + 1>>>> \o m.wire
  /\ UNCHANGED <<pos, end, parser, handled, lifecycle, phase>>

\* Faulty variant: pipelined bytes are dropped for a new read.
ReceiveDropping ==
  /\ phase = "receive"
  /\ phase' = "reading"
  /\ lifecycle' = "close"
  /\ mstate' = "HEADERS" /\ cstate' = "SIZE_START"
  /\ digits' = <<>> /\ left' = 0
  /\ msg' = NoMessage /\ delivered' = <<>>
  /\ UNCHANGED <<input, pos, end, handled>>

\* handle_connection: a new reader, and so a new parser.  Pipelined bytes are
\* parsed first; else it reads.
Receive ==
  /\ phase = "receive"
  /\ phase' = IF lifecycle = "pipelined" THEN "parsing" ELSE "reading"
  /\ lifecycle' = "close"
  /\ mstate' = "HEADERS" /\ cstate' = "SIZE_START"
  /\ digits' = <<>> /\ left' = 0
  /\ msg' = NoMessage /\ delivered' = <<>>
  /\ UNCHANGED <<input, pos, end, handled>>

\* A read overwrites the buffer, so that parsing starts at the new bytes.
Read(n) ==
  /\ phase = "reading"
  /\ end + n <= Len(stream)
  /\ pos' = end /\ end' = end + n
  /\ phase' = "parsing"
  /\ UNCHANGED <<input, parser, handled, lifecycle>>

\* An error, the client's end of stream or the timeout: the connection is closed.
ReadError ==
  /\ phase = "reading"
  /\ phase' = "closed"
  /\ UNCHANGED <<input, pos, end, parser, handled, lifecycle>>

-----------------------------------------------------------------------------
(* The result of a step of parse(), and what consume_bytes does with it    *)

\* rc = false: handle_request closes the connection, with or without an answer.
Failed ==
  /\ phase' = "closed"
  /\ UNCHANGED <<input, pos, end, parser, handled, lifecycle>>

\* rc = true: the request is complete and n more bytes are consumed.  Bytes
\* that are left are the next, pipelined, request.
Complete(m, n) ==
  /\ pos' = pos + n
  /\ mstate' = "END"
  /\ lifecycle' = IF ~m.keep THEN "close"
                  ELSE IF pos' = end THEN "keepalive" ELSE "pipelined"
  /\ handled' = handled + 1
  /\ phase' = "handling"
  /\ UNCHANGED <<input, end>>

\* indeterminate: the loop goes on while there are bytes, then more are read.
Continue(n) ==
  /\ pos' = pos + n
  /\ phase' = IF pos' = end THEN "reading" ELSE "parsing"
  /\ UNCHANGED <<input, end, handled, lifecycle>>

Char == stream[pos + 1]
Avail == end - pos

-----------------------------------------------------------------------------
(* The phases of parse()                                                   *)

\* finish_header_parsing: the phase that the headers call for, and whether the
\* message has a body.
NextState(m) ==
  CASE m.framing = "chunked" -> "CHUNKS"
    [] m.framing = "length" /\ m.length > 0 -> "CONTENT"
    [] OTHER -> "END"

\* finish_header_parsing and handle_request_after_headers_parsed: without a
\* payload handler the request is complete, whatever its headers announce.
FinishHeaderParsing(m) ==
  /\ msg' = m
  /\ left' = m.length
  /\ UNCHANGED <<cstate, digits, delivered>>
  /\ \/ /\ NextState(m) = "END" \/ ~m.handler
        /\ Complete(m, 1)
     \/ /\ NextState(m) # "END" /\ m.handler
        /\ mstate' = NextState(m)
        /\ Continue(1)

\* PARSE_START, PARSE_HEADERS: ends of lines before a request are skipped.
ParseHead ==
  /\ phase = "parsing" /\ mstate = "HEADERS"
  /\ \/ Char[1] \in {"sp", "cr", "lf"} /\ Continue(1) /\ UNCHANGED parser
     \/ /\ Char[1] = "head"
        /\ sent[Char[2]].framing \notin {"bad", "malformed"}
        /\ FinishHeaderParsing(sent[Char[2]])
     \/ /\ Char[1] = "head" => sent[Char[2]].framing \in {"bad", "malformed"}
        /\ Char[1] \notin {"sp", "cr", "lf"}
        /\ Failed

\* The payload handler gets the next n bytes.
Deliver(n) == delivered' = delivered \o SubSeq(stream, pos + 1, pos + n)

\* Faulty variant: the content that was all in one read is not the last.
ConsumeContentEager ==
  /\ phase = "parsing" /\ mstate = "CONTENT"
  /\ LET n == IF Avail > left THEN left ELSE Avail IN
       /\ Deliver(n)
       /\ left' = left - n
       /\ UNCHANGED <<cstate, digits, msg>>
       /\ \/ Avail > left /\ Complete(msg, n)
          \/ Avail <= left /\ Continue(n) /\ UNCHANGED mstate

\* PARSE_CONTENT: as much of the content as is there.
ConsumeContent ==
  /\ phase = "parsing" /\ mstate = "CONTENT"
  /\ LET n == IF Avail >= left THEN left ELSE Avail IN
       /\ Deliver(n)
       /\ left' = left - n
       /\ UNCHANGED <<cstate, digits, msg>>
       /\ \/ Avail >= left /\ Complete(msg, n)
          \/ Avail < left /\ Continue(n) /\ UNCHANGED mstate

-----------------------------------------------------------------------------
(* PARSE_CHUNKS                                                            *)

InChunks(s) == phase = "parsing" /\ mstate = "CHUNKS" /\ cstate = s

\* The character is consumed and the machine goes to state s.
ChunkGoto(s) == cstate' = s /\ Continue(1) /\ UNCHANGED <<mstate, msg, delivered>>

\* One character c that must follow in state s.
Expect(s, c, t) ==
  /\ InChunks(s)
  /\ \/ Char[1] = c /\ ChunkGoto(t) /\ UNCHANGED <<digits, left>>
     \/ Char[1] # c /\ Failed

ChunkSizeStart ==
  /\ InChunks("SIZE_START")
  /\ \/ Char[1] = "hex" /\ digits' = <<Char[2]>> /\ ChunkGoto("SIZE") /\ UNCHANGED left
     \/ Char[1] \in {"sp", "cr", "lf"} /\ ChunkGoto(cstate) /\ UNCHANGED <<digits, left>>
     \/ Char[1] \notin {"hex", "sp", "cr", "lf"} /\ Failed

ChunkSize ==
  /\ InChunks("SIZE")
  /\ \/ Char[1] = "hex" /\ digits' = Append(digits, Char[2]) /\ ChunkGoto(cstate)
        /\ UNCHANGED left
     \/ \E t \in {<<"cr", "LF_AFTER_SIZE">>, <<"sp", "CR_AFTER_SIZE">>,
                  <<";", "IGNORED_TEXT">>} :
          Char[1] = t[1] /\ ChunkGoto(t[2]) /\ UNCHANGED <<digits, left>>
     \/ Char[1] \notin {"hex", "cr", "sp", ";"} /\ Failed

\* A chunk extension is skipped up to the CR.
IgnoredText ==
  /\ InChunks("IGNORED_TEXT")
  /\ ChunkGoto(IF Char[1] = "cr" THEN "LF_AFTER_SIZE" ELSE cstate)
  /\ UNCHANGED <<digits, left>>

CrAfterSize ==
  /\ InChunks("CR_AFTER_SIZE")
  /\ \/ Char[1] = "cr" /\ ChunkGoto("LF_AFTER_SIZE") /\ UNCHANGED <<digits, left>>
     \/ Char[1] = "sp" /\ ChunkGoto(cstate) /\ UNCHANGED <<digits, left>>
     \/ Char[1] \notin {"cr", "sp"} /\ Failed

\* strtol of digits.  Its limit LONG_MAX is out of reach: all the bytes of a chunk
\* are sent (DataChunk).
SizeValue(ds) ==
  LET value[i \in 0 .. Len(ds)] == IF i = 0 THEN 0 ELSE value[i - 1] * Base + ds[i]
  IN  value[Len(ds)]

ChunkLength == SizeValue(digits)

LfAfterSize ==
  /\ InChunks("LF_AFTER_SIZE")
  /\ \/ /\ Char[1] = "lf"
        /\ left' = ChunkLength
        /\ ChunkGoto(IF left' = 0 THEN "FINAL_CR_OR_FOOTERS" ELSE "CHUNK")
        /\ UNCHANGED digits
     \/ Char[1] # "lf" /\ Failed

\* Faulty variant: a read that ends inside the chunk ends the chunk.
ChunkForgetful ==
  /\ InChunks("CHUNK")
  /\ LET n == IF left > Avail THEN Avail ELSE left IN
       /\ Deliver(n)
       /\ left' = 0
       /\ cstate' = "CR_AFTER_CHUNK"
       /\ Continue(n)
       /\ UNCHANGED <<mstate, digits, msg>>

\* PARSE_CHUNK: as much of the chunk as is there.
Chunk ==
  /\ InChunks("CHUNK")
  /\ LET n == IF left > Avail THEN Avail ELSE left IN
       /\ Deliver(n)
       /\ left' = left - n
       /\ cstate' = IF n = left THEN "CR_AFTER_CHUNK" ELSE cstate
       /\ Continue(n)
       /\ UNCHANGED <<mstate, digits, msg>>

\* With a payload handler the message is complete when footers follow: they
\* are not read (parse() goes on to PARSE_FOOTERS only without a handler).
FinalCrOrFooters ==
  /\ InChunks("FINAL_CR_OR_FOOTERS")
  /\ \/ Char[1] = "cr" /\ ChunkGoto("FINAL_LF") /\ UNCHANGED <<digits, left>>
     \/ Char[1] # "cr" /\ Complete(msg, 0)
        /\ UNCHANGED <<cstate, digits, left, msg, delivered>>

FinalLf ==
  /\ InChunks("FINAL_LF")
  /\ \/ Char[1] = "lf" /\ Complete(msg, 1)
        /\ UNCHANGED <<cstate, digits, left, msg, delivered>>
     \/ Char[1] # "lf" /\ Failed

ParseChunks ==
  \/ ChunkSizeStart \/ ChunkSize \/ IgnoredText \/ CrAfterSize \/ LfAfterSize
  \/ Chunk
  \/ Expect("CR_AFTER_CHUNK", "cr", "LF_AFTER_CHUNK")
  \/ Expect("LF_AFTER_CHUNK", "lf", "SIZE_START")
  \/ FinalCrOrFooters \/ FinalLf

\* The payload handler throws: the exception is caught and rc is false.
HandlerThrows ==
  /\ phase = "parsing"
  /\ mstate = "CONTENT" \/ InChunks("CHUNK")
  /\ Failed

-----------------------------------------------------------------------------
\* The request handler sends its response and the connection is finished: it
\* is handed to a new reader, unless its lifecycle is close, the writer made it
\* so or the server is stopping.
Respond ==
  /\ phase = "handling"
  /\ phase' \in IF lifecycle = "close" THEN {"closed"} ELSE {"receive", "closed"}
  /\ UNCHANGED <<input, pos, end, parser, handled, lifecycle>>

Server ==
  \/ Receive \/ (\E n \in 1 .. ReadMax : Read(n))
  \/ ParseHead \/ ConsumeContent \/ ParseChunks \/ Respond

BodyNext ==
  \/ Server
  \/ ReadError \/ HandlerThrows
  \/ \E m \in Messages : Send(m)

BodySpec == BodyInit /\ [][BodyNext]_bodyVars

\* The scheduler's workers run; bytes that were sent arrive.
BodyFairSpec == BodySpec /\ WF_bodyVars(Server)

-----------------------------------------------------------------------------
(* Well-formed messages (external): what a client that keeps to the rules  *)
(* may put on the wire, in the framings that a payload handler is served.  *)

Symbols == {<<"cr">>, <<"lf">>, <<"sp">>, <<";">>, <<"x">>} \cup ({"hex"} \X Nat)

CrLf(w, n) == n + 2 <= Len(w) /\ w[n + 1][1] = "cr" /\ w[n + 2][1] = "lf"

\* After the first n bytes of its wire the message has ends of lines only.
BlankAfter(m, n) == \A i \in n + 1 .. Len(m.wire) : m.wire[i][1] \in {"sp", "cr", "lf"}

\* A chunk is the numbers of the bytes of the wire in front of it (at), of its
\* size, of its extension (ext) and of the CR LF after that (crlf), the number
\* of the bytes of the payload in front of it (paid), and its length.
Layout(m, c) ==
  /\ {c.at, c.size, c.ext, c.crlf, c.paid, c.length} \subseteq Nat
  /\ c.at <= c.size /\ c.size < c.ext /\ c.ext <= c.crlf
  /\ \A i \in c.at + 1 .. c.size : m.wire[i][1] \in {"sp", "cr", "lf"}
  /\ \A i \in c.size + 1 .. c.ext : m.wire[i][1] = "hex"
  /\ \/ \A i \in c.ext + 1 .. c.crlf : m.wire[i][1] = "sp"
     \/ c.ext < c.crlf /\ m.wire[c.ext + 1][1] = ";"
        /\ \A i \in c.ext + 1 .. c.crlf : m.wire[i][1] # "cr"
  /\ CrLf(m.wire, c.crlf)
  /\ c.length = SizeValue([i \in 1 .. c.ext - c.size |-> m.wire[c.size + i][2]])

\* The last chunk has the length 0.  Where the connection is not kept, footers
\* may follow it, and anything at all follow the end.
LastChunk(m, c) ==
  /\ c.length = 0
  /\ c.paid = Len(m.payload)
  /\ \/ CrLf(m.wire, c.crlf + 2) /\ (m.keep => BlankAfter(m, c.crlf + 4))
     \/ ~m.keep /\ c.crlf + 2 < Len(m.wire) /\ m.wire[c.crlf + 3][1] # "cr"

DataChunk(m, c) ==
  /\ c.length > 0
  /\ c.paid + c.length <= Len(m.payload)
  /\ CrLf(m.wire, c.crlf + 2 + c.length)
  /\ \A i \in 1 .. c.length : m.wire[c.crlf + 2 + i] = m.payload[c.paid + i]
  /\ \E d \in m.chunks : d.at = c.crlf + c.length + 4 /\ d.paid = c.paid + c.length

\* A body that no payload handler takes has to be empty where the connection is
\* kept (http_body_ignored has one that is not).
WellFormed(m) ==
  /\ m.wire \in Seq(Symbols) /\ m.payload \in Seq(Symbols)
  /\ m.keep \in BOOLEAN /\ m.handler \in BOOLEAN
  /\ \/ m.framing \in {"bad", "malformed"}
     \/ /\ m.framing = "none"
        /\ m.payload = <<>>
        /\ m.keep => BlankAfter(m, 0)
     \/ /\ m.framing = "length"
        /\ m.length = Len(m.payload) /\ m.length <= Len(m.wire)
        /\ \A i \in 1 .. m.length : m.wire[i] = m.payload[i]
        /\ m.keep => BlankAfter(m, IF m.handler THEN m.length ELSE 0)
     \/ /\ m.framing = "chunked"
        /\ \E c \in m.chunks : c.at = 0 /\ c.paid = 0
        /\ \A c \in m.chunks : Layout(m, c) /\ (LastChunk(m, c) \/ DataChunk(m, c))
        /\ m.keep => m.handler \/ BlankAfter(m, 0)

-----------------------------------------------------------------------------
(* Properties                                                              *)

\* The server takes for a request what the client sent as one: whatever the
\* bytes of the bodies and the sizes of the reads are, parse() looks for the
\* next request exactly where the client's next message begins.
RequestsAligned ==
  phase = "parsing" /\ mstate = "HEADERS" /\ Char[1] \notin {"sp", "cr", "lf"}
    => Char = <<"head", handled + 1>>

\* The payload handler gets the bytes of the body, in order and once, without
\* any of its framing; when the request handler is called it has had them all.
PayloadExact ==
  /\ mstate \in {"CONTENT", "CHUNKS"} =>
       \A i \in DOMAIN delivered : i <= Len(msg.payload) /\ delivered[i] = msg.payload[i]
  /\ phase = "handling" /\ msg.handler => delivered = msg.payload

\* Every request that is sent is handled, unless its connection is closed: the
\* parser never waits for a byte beyond the end of the message.
RequestsHandled ==
  \A i \in 1 .. MaxMessages :
    Len(sent) >= i ~> handled >= i \/ phase = "closed"
=============================================================================
