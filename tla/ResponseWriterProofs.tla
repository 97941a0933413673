------------------------ MODULE ResponseWriterProofs ------------------------
(***************************************************************************)
(* Proofs about a response, for every set of requests, every size and      *)
(* number of pieces, and every number of chunks and of responses on a      *)
(* connection.                                                             *)
(*                                                                         *)
(* A response gives its connection back once, whatever the handler does    *)
(* (FinishedOnce).  A handler that keeps to the rules has what it wrote     *)
(* decoded by a client of HTTP/1.0 or later (ResponseDecodable) under a     *)
(* header block that says what becomes of the connection and what the       *)
(* handler set (HeaderKeepsWord).  The inductive invariant of the last two, *)
(* DecodeInv, says that at every step what the client has decoded, what is  *)
(* on its way, by where the client is in the framing, and what the writer   *)
(* still holds make up the pieces written.                                  *)
(***************************************************************************)
EXTENDS ResponseWriter, SequenceTheorems, TLAPS

\* send_more_data, called while the handler has the writer, starts a write or
\* finishes the connection.
LEMMA SendMoreDataFinishes ==
  ASSUME FinishedOnce, pc = "user", NEW w, NEW cycle, NEW final,
         NEW handler \in {"chunk", "last"}, SendMoreData(w, cycle, final, handler)
  PROVE  FinishedOnce'
  BY DEF FinishedOnce, SendMoreData, Finish

LEMMA StepFinishes == FinishedOnce /\ [Next]_vars => FinishedOnce'
<1> SUFFICES ASSUME FinishedOnce, [Next]_vars PROVE FinishedOnce'
  BY Zenon
<1>1. ASSUME NEW n \in PieceSizes, Write(n) PROVE FinishedOnce'
  BY <1>1, Zenon DEF Write, FinishedOnce
<1>2. ASSUME NEW b \in BOOLEAN, Override(b) PROVE FinishedOnce'
  BY <1>2, Zenon DEF Override, FinishedOnce
<1>3. CASE Send
  BY <1>3, SendMoreDataFinishes, Zenon DEF Send
<1>4. CASE SendChunk
  <2> DEFINE w == [writer EXCEPT !.sending_chunks = TRUE]
  <2>1. pc = "user" /\ (SendMoreData(w, lifecycle', FALSE, "chunk") \/ Finish(1))
    BY <1>4, Zenon DEF SendChunk
  <2>2. CASE SendMoreData(w, lifecycle', FALSE, "chunk")
    BY <2>1, <2>2, SendMoreDataFinishes, Zenon
  <2>3. CASE Finish(1)
    BY <2>1, <2>3 DEF Finish, FinishedOnce
  <2> QED
    BY <2>1, <2>2, <2>3, Zenon
<1>5. CASE SendFinalChunk
  BY <1>5, SendMoreDataFinishes, Zenon DEF SendFinalChunk
<1>6. ASSUME NEW ok \in BOOLEAN, HandleChunk(ok) PROVE FinishedOnce'
  BY <1>6, Zenon DEF HandleChunk, FinishedOnce
<1>7. ASSUME NEW ok \in BOOLEAN, HandleWrite(ok) PROVE FinishedOnce'
  BY <1>7 DEF HandleWrite, Finish, FinishedOnce
<1>8. CASE Lose
  BY <1>8, Zenon DEF Lose, FinishedOnce
<1>9. ASSUME NEW r \in Requests, NextRequest(r) PROVE FinishedOnce'
  BY <1>9, Zenon DEF NextRequest, FinishedOnce
<1>10. CASE EditResponse
  BY <1>10, Zenon DEF EditResponse, FinishedOnce
<1>11. CASE Arrive
  BY <1>11, Zenon DEF Arrive, FinishedOnce
<1>12. CASE UNCHANGED vars
  BY <1>12, Zenon DEF vars, FinishedOnce
<1> QED
  BY <1>1, <1>2, <1>3, <1>4, <1>5, <1>6, <1>7, <1>8, <1>9, <1>10, <1>11, <1>12, Zenon
     DEF Next, User, Complete

\* FinishedOnce: whatever mix of writes, chunks and sends a handler uses, on a
\* connection that may be lost or fail at any point, finish() is called once for
\* its response, and not before the handler has given up the writer.
THEOREM FinishedOnceHolds == Spec => []FinishedOnce
<1>1. Init => FinishedOnce
  BY Zenon DEF Init, FinishedOnce
<1> QED
  BY <1>1, StepFinishes, PTL DEF Spec

-----------------------------------------------------------------------------
(* What the client decodes.                                                *)

Words == {"close", "Keep-Alive", "chunked", "set", "deleted", "", "OK", "Made"}
Values == Nat \cup Words

ResponseType ==
  [version : Nat \X Nat, status_code : Nat, status_message : Words,
   first_line : {NoLine} \cup ((Nat \X Nat) \X Nat \X Words),
   chunks_supported : BOOLEAN, headers : [HeaderNames -> Seq(Values)],
   cookies : SUBSET Words, content_length : Nat, do_not_send_content_length : BOOLEAN]

WriterType ==
  [content : Seq(Nat \X Nat), content_length : Nat, client_supports_chunks : BOOLEAN,
   sending_chunks : BOOLEAN, sent_headers : BOOLEAN]

Positions == {"head", "length", "length_end", "chunk", "chunk_end", "last_length_end",
              "trailer", "fixed", "until_close", "done"}

ClientType(Heads) ==
  [request : Requests, at : Positions, left : Nat, head : Heads, body : Seq(Nat \X Nat)]

\* A response in chunks: it may have a body, and the client understands them or
\* has the connection closed after it.
ChunkedInv ==
  writer.sending_chunks =>
    /\ BodyAllowed
    /\ response.status_code # 204
    /\ writer.client_supports_chunks = ChunksSupported(request)
    /\ ~writer.client_supports_chunks => lifecycle = "close"

\* Who has the writer, and what that says of it.
StageInv ==
  /\ pc \in {"user", "chunk", "last", "finished"}
  /\ chunks \in Nat
  /\ pc \in {"user", "finished"} => sending = <<>>
  /\ pc = "user" =>
       /\ writer.sent_headers <=> writer.sending_chunks
       /\ writer.sent_headers <=> chunks > 0
  /\ pc \in {"chunk", "last"} => writer.sent_headers
  /\ pc = "chunk" => writer.sending_chunks /\ chunks > 0

\* The type of the state, and what a response is before and after its headers
\* are sent.
ResponseInv ==
  /\ request \in Requests
  /\ lifecycle \in {"close", "keepalive"}
  /\ is_open \in BOOLEAN /\ broken \in BOOLEAN
  /\ response \in ResponseType
  /\ writer \in WriterType
  /\ response.chunks_supported = ChunksSupported(request)
  /\ response.first_line \in {NoLine, UpdatedFirstLine(response)}
  /\ response.headers["Set-Cookie"] = jar
  /\ response.status_code = 204 => written = <<>>
  /\ request.major = 0 => lifecycle = "close"
  /\ ~writer.sent_headers =>
       /\ response.headers["Transfer-Encoding"] = <<>>
       /\ BodyAllowed => response.content_length = 0
       /\ response.do_not_send_content_length =>
            /\ ~BodyAllowed \/ lifecycle = "close"
            /\ ~OwnLength
  /\ writer.sent_headers =>
       /\ response.first_line = UpdatedFirstLine(response)
       /\ response.headers["Connection"] =
            <<IF lifecycle = "close" THEN "close" ELSE "Keep-Alive">>

\* Where each piece begins and ends.
PiecesInv ==
  /\ written \in Seq(Nat \X Nat)
  /\ \A i \in DOMAIN written : written[i][1] = WrittenTo(i - 1)
  /\ \A i, j \in 0..Len(written) : i < j => WrittenTo(i) < WrittenTo(j)

Taken == Len(client.body)

Content(p) == [unit |-> "content", piece |-> p]

\* The pieces of B after the first t, as units.
UnitsOf(B, t) == [k \in 1..(Len(B) - t) |-> Content(B[t + k])]

\* The bytes after the first t pieces.
BytesFrom(t) == WrittenTo(Len(Body)) - WrittenTo(t)

LastChunk == IF pc = "last" /\ Chunking(writer) THEN <<Length(0)>> \o (<<Crlf>> \o (<<Crlf>> \o <<>>))
             ELSE <<>>

\* What of a write has yet to arrive at a client that is at a position in the
\* content, has yet to get the units and the bytes, and then the last chunk.
Ahead(at, units, bytes, last) ==
  IF at = "length" THEN IF units = <<>> THEN last
                        ELSE <<Length(bytes)>> \o (<<Crlf>> \o (units \o (<<Crlf>> \o last)))
  ELSE IF at = "length_end" THEN <<Crlf>> \o (units \o (<<Crlf>> \o last))
  ELSE IF at = "chunk" THEN units \o (<<Crlf>> \o last)
  ELSE IF at = "chunk_end" THEN <<Crlf>> \o last
  ELSE IF at = "last_length_end" THEN <<Crlf>> \o (<<Crlf>> \o <<>>)
  ELSE IF at = "trailer" THEN <<Crlf>> \o <<>>
  ELSE IF at = "done" THEN <<>>
  ELSE units

\* Where the header block of the response takes the client.
Framing == AfterHead(request, HeaderBlock(response))

\* The client may be at a position after the header block when it has got t
\* pieces and waits for a number of bytes.
MayBeAt(at, t, left) ==
  /\ at \in Positions \ {"head"}
  /\ t \in 0..Len(Body)
  /\ at \in {"length_end", "chunk", "fixed"} => t < Len(Body) /\ left = BytesFrom(t)
  /\ at \in {"chunk_end", "last_length_end", "trailer", "done"} => t = Len(Body)
  /\ at \in {"last_length_end", "trailer", "done"} => pc \in {"last", "finished"}
  /\ at = "until_close" => lifecycle = "close"
  /\ writer.sending_chunks =>
       IF writer.client_supports_chunks
       THEN at \in {"length", "length_end", "chunk", "chunk_end", "last_length_end", "trailer",
                    "done"}
       ELSE at = "until_close"
  /\ ~writer.sending_chunks => at \in {"fixed", "until_close", "done"}

\* The client has decoded a part of the content, and is where that part ends.
ClientInv ==
  /\ client \in ClientType({client.head})
  /\ client.request = request
  /\ client.body = SubSeq(Body, 1, Taken)
  /\ client.at = "head" => Taken = 0
  /\ client.at # "head" =>
       client.head = HeaderBlock(response) /\ MayBeAt(client.at, Taken, client.left)

\* The content that the writer holds is what the client has not got.
ContentInv ==
  /\ writer.content = SubSeq(Body, Taken + 1, Len(Body))
  /\ writer.content_length = BytesFrom(Taken)

\* What the framing promises is what is on its way.
SendingInv ==
  /\ pc = "user" =>
       /\ ~writer.sent_headers => client.at = "head"
       /\ writer.sent_headers =>
            client.at = IF writer.client_supports_chunks THEN "length" ELSE "until_close"
       /\ ContentInv
  /\ pc \in {"chunk", "last"} =>
       IF client.at = "head"
       THEN /\ MayBeAt(Framing, 0, response.headers["Content-Length"][1])
            /\ sending = <<HeaderBlock(response)>>
                           \o Ahead(Framing, UnitsOf(Body, 0), BytesFrom(0), LastChunk)
       ELSE sending = Ahead(client.at, UnitsOf(Body, Taken), BytesFrom(Taken), LastChunk)
  /\ pc = "finished" =>
       /\ writer.sent_headers
       /\ Taken = Len(Body)
       /\ client.at \in {"done", "until_close"}

DecodeInv ==
  /\ ResponseInv
  /\ ChunkedInv
  /\ StageInv
  /\ PiecesInv
  /\ is_open /\ ~broken /\ request.major # 0 => ClientInv /\ SendingInv

WriterInv == ResponseInv /\ ChunkedInv /\ StageInv

ByRules == Liberties = {}

\* What a handler can do to a message leaves its type alone.
LEMMA HeaderEditsTyped ==
  ASSUME NEW msg \in ResponseType, NEW name \in HeaderNames, NEW value \in Values
  PROVE  /\ AddHeader(msg, name, value) \in ResponseType
         /\ ChangeHeader(msg, name, value) \in ResponseType
         /\ DeleteHeader(msg, name) \in ResponseType
<1>1. msg.headers \in [HeaderNames -> Seq(Values)] /\ msg.headers[name] \in Seq(Values)
  BY Zenon DEF ResponseType
<1>2. /\ Append(msg.headers[name], value) \in Seq(Values)
      /\ <<value>> \in Seq(Values)
      /\ <<>> \in Seq(Values)
  BY <1>1
<1>3. \A s \in Seq(Values) : [msg EXCEPT !.headers[name] = s] \in ResponseType
  BY Zenon DEF ResponseType
<1>4. AddHeader(msg, name, value) = [msg EXCEPT !.headers[name] = Append(msg.headers[name], value)]
  BY Zenon DEF AddHeader, ResponseType
<1> QED
  BY <1>2, <1>3, <1>4, Zenon DEF ChangeHeader, DeleteHeader

LEMMA FirstLineTyped ==
  ASSUME NEW msg \in ResponseType
  PROVE  GetFirstLine(msg) \in ResponseType
<1>1. UpdatedFirstLine(msg) \in (Nat \X Nat) \X Nat \X Words
  BY Zenon DEF UpdatedFirstLine, ResponseType
<1> QED
  BY <1>1, Zenon DEF GetFirstLine, ResponseType

\* p is the message msg with the headers that prepare_headers_for_send gives it.
HeadersOf(p, msg, keep, chunked) ==
  /\ p \in ResponseType
  /\ p = [msg EXCEPT !.headers = p.headers]
  /\ p.headers["Connection"] = <<IF keep THEN "Keep-Alive" ELSE "close">>
  /\ p.headers["Transfer-Encoding"] =
       IF chunked /\ msg.chunks_supported THEN <<"chunked">>
       ELSE msg.headers["Transfer-Encoding"]
  /\ p.headers["Content-Length"] =
       IF chunked \/ msg.do_not_send_content_length THEN msg.headers["Content-Length"]
       ELSE <<msg.content_length>>
  /\ p.headers["Set-Cookie"] = msg.headers["Set-Cookie"]

LEMMA HeadersPrepared ==
  ASSUME NEW msg \in ResponseType, NEW keep \in BOOLEAN, NEW chunked \in BOOLEAN
  PROVE  HeadersOf(PrepareHeadersForSend(msg, keep, chunked), msg, keep, chunked)
<1> DEFINE told == ChangeHeader(msg, "Connection", IF keep THEN "Keep-Alive" ELSE "close")
<1>0. /\ {"Connection", "Transfer-Encoding", "Content-Length", "Set-Cookie"} \subseteq HeaderNames
      /\ "Keep-Alive" \in Values /\ "close" \in Values /\ "chunked" \in Values
      /\ msg.content_length \in Values
      /\ msg.chunks_supported \in BOOLEAN /\ msg.do_not_send_content_length \in BOOLEAN
  <2>1. /\ msg.content_length \in Nat
        /\ msg.chunks_supported \in BOOLEAN /\ msg.do_not_send_content_length \in BOOLEAN
    BY Zenon DEF ResponseType
  <2>2. {"Connection", "Transfer-Encoding", "Content-Length", "Set-Cookie"} \subseteq HeaderNames
    BY Zenon DEF HeaderNames
  <2>3. "Keep-Alive" \in Values /\ "close" \in Values /\ "chunked" \in Values
    BY Zenon DEF Values, Words
  <2>4. msg.content_length \in Values
    BY <2>1, Zenon DEF Values
  <2> QED
    BY <2>1, <2>2, <2>3, <2>4, Zenon
<1>1. /\ told \in ResponseType
      /\ told = [msg EXCEPT !.headers = told.headers]
      /\ told.headers["Connection"] = <<IF keep THEN "Keep-Alive" ELSE "close">>
      /\ told.headers["Transfer-Encoding"] = msg.headers["Transfer-Encoding"]
      /\ told.headers["Content-Length"] = msg.headers["Content-Length"]
      /\ told.headers["Set-Cookie"] = msg.headers["Set-Cookie"]
  <2>1. told \in ResponseType
    BY <1>0, HeaderEditsTyped, Zenon
  <2> QED
    BY <1>0, <2>1, Zenon DEF ChangeHeader, ResponseType
<1> HIDE DEF told
<1>2. \A n \in {"Transfer-Encoding", "Content-Length"}, v \in Values :
        LET c == ChangeHeader(told, n, v)
        IN  /\ c \in ResponseType
            /\ c = [msg EXCEPT !.headers = c.headers]
            /\ \A m \in HeaderNames : c.headers[m] = IF m = n THEN <<v>> ELSE told.headers[m]
  <2> SUFFICES ASSUME NEW n \in {"Transfer-Encoding", "Content-Length"}, NEW v \in Values
               PROVE  LET c == ChangeHeader(told, n, v)
                      IN  /\ c \in ResponseType
                          /\ c = [msg EXCEPT !.headers = c.headers]
                          /\ \A m \in HeaderNames :
                               c.headers[m] = IF m = n THEN <<v>> ELSE told.headers[m]
    BY Zenon
  <2>1. ChangeHeader(told, n, v) \in ResponseType
    BY <1>0, <1>1, HeaderEditsTyped, Zenon
  <2>2. ChangeHeader(told, n, v) = [told EXCEPT !.headers = [told.headers EXCEPT ![n] = <<v>>]]
    BY <1>1, Zenon DEF ChangeHeader, ResponseType
  <2>3. told.headers \in [HeaderNames -> Seq(Values)]
    BY <1>1, Zenon DEF ResponseType
  <2> QED
    BY <1>0, <1>1, <2>1, <2>2, <2>3 DEF ResponseType
<1>3. PrepareHeadersForSend(msg, keep, chunked) =
        IF chunked
        THEN IF msg.chunks_supported THEN ChangeHeader(told, "Transfer-Encoding", "chunked") ELSE told
        ELSE IF msg.do_not_send_content_length THEN told
        ELSE ChangeHeader(told, "Content-Length", msg.content_length)
  BY Zenon DEF PrepareHeadersForSend, told
<1> QED
  BY <1>0, <1>1, <1>2, <1>3 DEF HeadersOf

\* p is the response as send_more_data leaves it when it sends the headers, for
\* the writer w and a connection that is kept alive or not.
SentAs(p, w, keep) ==
  /\ p \in ResponseType
  /\ p.first_line = UpdatedFirstLine(p)
  /\ p.status_code = response.status_code
  /\ p.headers["Set-Cookie"] = response.headers["Set-Cookie"]
  /\ p.chunks_supported = response.chunks_supported
  /\ p.headers["Connection"] = <<IF keep THEN "Keep-Alive" ELSE "close">>
  /\ p.headers["Transfer-Encoding"] =
       IF w.sending_chunks /\ response.chunks_supported THEN <<"chunked">>
       ELSE response.headers["Transfer-Encoding"]
  /\ p.headers["Content-Length"] =
       IF w.sending_chunks \/ response.do_not_send_content_length
       THEN response.headers["Content-Length"]
       ELSE <<IF w.content_length > 0 THEN w.content_length ELSE response.content_length>>

LEMMA PreparedResponse ==
  ASSUME ResponseInv, NEW w \in WriterType, NEW keep \in BOOLEAN
  PROVE  SentAs(Prepared(w, keep), w, keep)
<1> DEFINE m == IF w.content_length > 0 THEN SetContentLength(response, w.content_length)
                ELSE response
           q == PrepareHeadersForSend(m, keep, w.sending_chunks)
<1>1. /\ m \in ResponseType
      /\ m = [response EXCEPT !.content_length =
                IF w.content_length > 0 THEN w.content_length ELSE response.content_length]
  BY Zenon DEF SetContentLength, ResponseType, WriterType, ResponseInv
<1> HIDE DEF m
<1>2. HeadersOf(q, m, keep, w.sending_chunks)
  <2>1. w.sending_chunks \in BOOLEAN
    BY Zenon DEF WriterType
  <2>2. m \in ResponseType
    BY <1>1, Zenon
  <2> QED
    BY <2>1, <2>2, HeadersPrepared, Zenon
<1> HIDE DEF q
<1>3. Prepared(w, keep) = GetFirstLine(q)
  BY Zenon DEF Prepared, PrepareBuffersForSend, AppendCookieHeaders, q, m
<1>4. GetFirstLine(q) \in ResponseType
  BY <1>2, FirstLineTyped, Zenon DEF HeadersOf
<1>5. /\ q.first_line = response.first_line /\ q.status_code = response.status_code
      /\ q.version = response.version /\ q.status_message = response.status_message
      /\ q.chunks_supported = response.chunks_supported
      /\ m.headers = response.headers /\ m.chunks_supported = response.chunks_supported
      /\ m.do_not_send_content_length = response.do_not_send_content_length
      /\ m.content_length = IF w.content_length > 0 THEN w.content_length
                            ELSE response.content_length
  BY <1>1, <1>2, Zenon DEF ResponseInv, ResponseType, HeadersOf
<1>6. GetFirstLine(q) = [q EXCEPT !.first_line = UpdatedFirstLine(q)]
  <2>1. q.first_line \in {NoLine, UpdatedFirstLine(q)}
    BY <1>5, Zenon DEF ResponseInv, UpdatedFirstLine
  <2>2. q.first_line = UpdatedFirstLine(q) => q = [q EXCEPT !.first_line = UpdatedFirstLine(q)]
    BY <1>2, Zenon DEF ResponseType, HeadersOf
  <2> QED
    BY <2>1, <2>2, Zenon DEF GetFirstLine
<1> DEFINE p == Prepared(w, keep)
<1>7. /\ p.first_line = UpdatedFirstLine(q) /\ p.status_code = q.status_code
      /\ p.version = q.version /\ p.status_message = q.status_message
      /\ p.chunks_supported = q.chunks_supported
      /\ p.headers = q.headers
  BY <1>2, <1>3, <1>6 DEF ResponseType, HeadersOf
<1>8. UpdatedFirstLine(p) = UpdatedFirstLine(q)
  BY <1>7, Zenon DEF UpdatedFirstLine
<1> HIDE DEF p
<1>9. /\ p \in ResponseType
      /\ p.first_line = UpdatedFirstLine(p)
      /\ p.status_code = response.status_code
      /\ p.chunks_supported = response.chunks_supported
  BY <1>3, <1>4, <1>5, <1>7, <1>8, Zenon DEF p
<1>10. /\ p.headers["Connection"] = <<IF keep THEN "Keep-Alive" ELSE "close">>
       /\ p.headers["Set-Cookie"] = response.headers["Set-Cookie"]
       /\ p.headers["Transfer-Encoding"] =
            IF w.sending_chunks /\ response.chunks_supported THEN <<"chunked">>
            ELSE response.headers["Transfer-Encoding"]
       /\ p.headers["Content-Length"] =
            IF w.sending_chunks \/ response.do_not_send_content_length
            THEN response.headers["Content-Length"]
            ELSE <<IF w.content_length > 0 THEN w.content_length ELSE response.content_length>>
  BY <1>2, <1>5, <1>7, Zenon DEF HeadersOf
<1> QED
  BY <1>9, <1>10, Zenon DEF p, SentAs

\* send_more_data, called for a response that is not in chunks or may be, on a
\* writer that differs from the old one in sending_chunks at most.
SendsRightly(w, cycle, final, handler) ==
  /\ pc = "user"
  /\ w \in WriterType
  /\ w = [writer EXCEPT !.sending_chunks = w.sending_chunks]
  /\ cycle \in {"close", "keepalive"} /\ lifecycle' = cycle
  /\ writer.sent_headers \/ lifecycle = "close" => cycle = lifecycle
  /\ w.sending_chunks =>
       /\ BodyAllowed
       /\ response.status_code # 204
       /\ w.client_supports_chunks = ChunksSupported(request)
       /\ ~w.client_supports_chunks => cycle = "close" /\ (~writer.sent_headers => ~OwnLength)
  /\ writer.sending_chunks => w.sending_chunks
  /\ handler \in {"chunk", "last"} /\ final \in BOOLEAN
  /\ handler = "chunk" => w.sending_chunks /\ ~final /\ chunks' > 0
  /\ handler = "last" /\ w.sending_chunks => final
  /\ SendMoreData(w, cycle, final, handler)
  /\ chunks' \in Nat
  /\ UNCHANGED <<request, is_open, broken, written, jar, client>>

LEMMA SendMoreDataWriter ==
  ASSUME WriterInv, NEW w, NEW cycle, NEW final, NEW handler,
         SendsRightly(w, cycle, final, handler)
  PROVE  WriterInv'
<1> USE DEF SendsRightly, WriterInv
<1> DEFINE keep == cycle # "close"
<1>1. CASE is_open /\ ~w.sent_headers
  <2>1. /\ response' = Prepared(w, keep)
        /\ writer' = [w EXCEPT !.sent_headers = TRUE]
        /\ pc' = handler
    BY <1>1, Zenon DEF SendMoreData
  <2>2. SentAs(response', w, keep)
    BY <2>1, PreparedResponse, Zenon
  <2>3. /\ writer' \in WriterType /\ writer'.sent_headers
        /\ writer'.sending_chunks = w.sending_chunks
        /\ writer'.client_supports_chunks = w.client_supports_chunks
    BY <2>1, Zenon DEF WriterType
  <2>4. ResponseInv'
    BY <2>2, <2>3 DEF ResponseInv, SentAs, ChunksSupported
  <2>5. ChunkedInv'
    BY <2>2, <2>3, Zenon DEF ChunkedInv, SentAs, BodyAllowed
  <2>6. StageInv'
    BY <2>1, <2>3, Zenon DEF StageInv
  <2> QED
    BY <2>4, <2>5, <2>6, Zenon
<1>2. CASE is_open /\ w.sent_headers
  <2>1. /\ response' = response
        /\ writer' = [w EXCEPT !.sent_headers = TRUE]
        /\ pc' = handler
    BY <1>2, Zenon DEF SendMoreData
  <2>2. /\ writer' \in WriterType /\ writer'.sent_headers /\ writer.sent_headers
        /\ writer'.sending_chunks = w.sending_chunks
        /\ writer'.client_supports_chunks = w.client_supports_chunks
    BY <1>2, <2>1, Zenon DEF WriterType, ResponseInv
  <2>3. ResponseInv'
    BY <2>1, <2>2 DEF ResponseInv, UpdatedFirstLine
  <2>4. ChunkedInv'
    BY <2>1, <2>2, Zenon DEF ChunkedInv, BodyAllowed
  <2>5. StageInv'
    BY <2>1, <2>2, Zenon DEF StageInv
  <2> QED
    BY <2>3, <2>4, <2>5, Zenon
<1>3. CASE ~is_open
  <2>1. response' = response /\ writer' = w /\ pc' = "finished" /\ sending' = sending
    BY <1>3, Zenon DEF SendMoreData, Finish
  <2>2. /\ w.sent_headers = writer.sent_headers
        /\ w.client_supports_chunks = writer.client_supports_chunks
    BY Zenon DEF WriterType, ResponseInv
  <2>3. ResponseInv'
    BY <2>1, <2>2 DEF ResponseInv, UpdatedFirstLine, BodyAllowed, OwnLength
  <2>4. ChunkedInv'
    BY <2>1, <2>2, Zenon DEF ChunkedInv, BodyAllowed
  <2>5. StageInv'
    BY <2>1, <2>2, Zenon DEF StageInv
  <2> QED
    BY <2>3, <2>4, <2>5, Zenon
<1> QED
  BY <1>1, <1>2, <1>3, Zenon DEF ResponseInv, WriterType

\* The three ways to send, by a handler that keeps to the rules.
LEMMA SendIsRight ==
  ASSUME WriterInv, Send
  PROVE  SendsRightly(writer, lifecycle, FALSE, "last")
<1>1. ~writer.sending_chunks
  BY DEF Send, WriterInv, StageInv, ResponseInv, WriterType
<1>2. writer = [writer EXCEPT !.sending_chunks = writer.sending_chunks]
  BY Zenon DEF WriterInv, ResponseInv, WriterType
<1> QED
  BY <1>1, <1>2, Zenon DEF Send, SendsRightly, WriterInv, StageInv, ResponseInv

LEMMA ChunkWriter ==
  ASSUME WriterInv, NEW w, w = [writer EXCEPT !.sending_chunks = TRUE]
  PROVE  /\ w \in WriterType
         /\ w = [writer EXCEPT !.sending_chunks = w.sending_chunks]
         /\ w.sending_chunks
         /\ w.client_supports_chunks = writer.client_supports_chunks
         /\ w.sent_headers = writer.sent_headers
  BY Zenon DEF WriterInv, ResponseInv, WriterType

LEMMA SendChunkIsRight ==
  ASSUME WriterInv, ByRules, SendChunk
  PROVE  SendsRightly([writer EXCEPT !.sending_chunks = TRUE], lifecycle', FALSE, "chunk")
<1> DEFINE w == [writer EXCEPT !.sending_chunks = TRUE]
<1>1. SendMoreData(w, lifecycle', FALSE, "chunk")
  BY Zenon DEF SendChunk, SendMoreData
<1>2. /\ w \in WriterType
      /\ w = [writer EXCEPT !.sending_chunks = w.sending_chunks]
      /\ w.sending_chunks
      /\ w.client_supports_chunks = writer.client_supports_chunks
  BY ChunkWriter, Zenon
<1> HIDE DEF w
<1>3. /\ lifecycle' \in {"close", "keepalive"}
      /\ writer.sent_headers \/ lifecycle = "close" => lifecycle' = lifecycle
      /\ ~writer.client_supports_chunks => lifecycle' = "close"
  <2>1. lifecycle' = IF writer.client_supports_chunks THEN lifecycle ELSE "close"
    BY Zenon DEF SendChunk, ChunkLifecycle
  <2>2. writer.sent_headers => writer.sending_chunks
    BY Zenon DEF SendChunk, WriterInv, StageInv
  <2>3. writer.sent_headers /\ ~writer.client_supports_chunks => lifecycle = "close"
    BY <2>2, Zenon DEF WriterInv, ChunkedInv
  <2> QED
    BY <2>1, <2>3, Zenon DEF WriterInv, ResponseInv
<1>4. /\ BodyAllowed
      /\ response.status_code # 204
      /\ writer.client_supports_chunks = ChunksSupported(request)
      /\ ~writer.client_supports_chunks => ~OwnLength
  BY Zenon DEF SendChunk, MayChunk, ByRules
<1>5. chunks' \in Nat /\ chunks' > 0
  BY DEF SendChunk, WriterInv, StageInv
<1>6. pc = "user" /\ UNCHANGED <<request, is_open, broken, written, jar, client>>
  BY Zenon DEF SendChunk
<1> QED
  BY <1>1, <1>2, <1>3, <1>4, <1>5, <1>6, Zenon DEF SendsRightly, w

LEMMA SendFinalChunkIsRight ==
  ASSUME WriterInv, ByRules, SendFinalChunk
  PROVE  SendsRightly([writer EXCEPT !.sending_chunks = TRUE], lifecycle, TRUE, "last")
<1> DEFINE w == [writer EXCEPT !.sending_chunks = TRUE]
<1>1. SendMoreData(w, lifecycle, TRUE, "last")
  BY Zenon DEF SendFinalChunk
<1>2. /\ w \in WriterType
      /\ w = [writer EXCEPT !.sending_chunks = w.sending_chunks]
      /\ w.sending_chunks
      /\ w.client_supports_chunks = writer.client_supports_chunks
  BY ChunkWriter, Zenon
<1> HIDE DEF w
<1>3. /\ BodyAllowed
      /\ response.status_code # 204
      /\ writer.client_supports_chunks = ChunksSupported(request)
      /\ ~writer.client_supports_chunks => chunks # 0 /\ ~OwnLength
      /\ pc = "user"
  BY Zenon DEF SendFinalChunk, MayChunk, ByRules
<1>4. ~writer.client_supports_chunks => lifecycle = "close"
  <2>1. ~writer.client_supports_chunks => writer.sending_chunks
    BY <1>3 DEF WriterInv, StageInv
  <2> QED
    BY <2>1, Zenon DEF WriterInv, ChunkedInv
<1>5. /\ UNCHANGED <<request, lifecycle, is_open, broken, written, chunks, jar, client>>
      /\ lifecycle \in {"close", "keepalive"} /\ chunks \in Nat
  BY Zenon DEF SendFinalChunk, WriterInv, ResponseInv, StageInv
<1> QED
  BY <1>1, <1>2, <1>3, <1>4, <1>5, Zenon DEF SendsRightly, w

\* What the handler changes of a response before it is sent.
LEMMA EditResponseWriter ==
  ASSUME WriterInv, ByRules, EditResponse
  PROVE  WriterInv'
<1> USE DEF WriterInv
<1>1. /\ pc = "user" /\ ~writer.sent_headers /\ ~writer.sending_chunks
      /\ UNCHANGED <<request, lifecycle, is_open, broken, writer, pc, sending, written, chunks>>
  BY Zenon DEF EditResponse, StageInv, ResponseInv, WriterType
<1>2. ChunkedInv' /\ StageInv'
  BY <1>1, Zenon DEF ChunkedInv, StageInv
<1> DEFINE Kept(r, c) ==
      /\ r \in ResponseType
      /\ r.chunks_supported = response.chunks_supported
      /\ r.first_line \in {NoLine, UpdatedFirstLine(r)}
      /\ r.headers["Set-Cookie"] = c
      /\ r.status_code = 204 => written = <<>>
      /\ r.headers["Transfer-Encoding"] = <<>>
      /\ BodyAllowed => r.content_length = 0
      /\ r.do_not_send_content_length =>
           /\ ~BodyAllowed \/ lifecycle = "close"
           /\ r.headers["Content-Length"] = <<>>
<1>3. Kept(response', jar')
  <2>0. /\ Kept(response, jar)
        /\ {"Connection", "Content-Length", "Set-Cookie", "Transfer-Encoding"} \subseteq HeaderNames
        /\ {"close", "set", "deleted"} \subseteq Values /\ 1 \in Values
        /\ response.headers \in [HeaderNames -> Seq(Values)]
    <3>1. Kept(response, jar)
      BY <1>1, Zenon DEF ResponseInv, OwnLength
    <3>2. response.headers \in [HeaderNames -> Seq(Values)]
      BY Zenon DEF ResponseInv, ResponseType
    <3> QED
      BY <3>1, <3>2, Zenon DEF HeaderNames, Values, Words
  <2>1. CASE response' = GetFirstLine(response) /\ UNCHANGED jar
    <3>1. response' \in ResponseType
      BY <2>0, <2>1, FirstLineTyped, Zenon
    <3> QED
      BY <2>0, <2>1, <3>1, Zenon DEF GetFirstLine, ResponseType, UpdatedFirstLine
  <2>2. CASE written = <<>> /\ response' = SetStatusCode(response, 204) /\ UNCHANGED jar
    <3>1. response' = [response EXCEPT !.status_code = 204, !.first_line = NoLine]
      BY <2>2, Zenon DEF SetStatusCode
    <3>2. response \in ResponseType
      BY <2>0, Zenon
    <3>3. \A n \in Nat : [response EXCEPT !.status_code = n, !.first_line = NoLine] \in ResponseType
      BY <3>2, Zenon DEF ResponseType
    <3>4. response' \in ResponseType
      <4>1. PICK n \in Nat : n = 204
        OBVIOUS
      <4>2. [response EXCEPT !.status_code = n, !.first_line = NoLine] \in ResponseType
        BY <3>3, Zenon
      <4> QED
        BY <3>1, <4>1, <4>2, Zenon
    <3> QED
      BY <2>0, <2>2, <3>1, <3>4, Zenon DEF ResponseType
  <2>3. CASE response' = SetStatusMessage(response, "Made") /\ UNCHANGED jar
    BY <2>0, <2>3, Zenon DEF SetStatusMessage, ResponseType, UpdatedFirstLine, Words
  <2>4. CASE /\ UNCHANGED jar
             /\ response' \in {AddHeader(response, "Connection", "close"),
                               ChangeHeader(response, "Connection", "close"),
                               DeleteHeader(response, "Connection")}
    <3>1. response' \in ResponseType
      BY <2>0, <2>4, HeaderEditsTyped, Zenon
    <3>2. CASE response' = AddHeader(response, "Connection", "close")
      BY <2>0, <2>4, <3>1, <3>2, Zenon DEF AddHeader, ResponseType, UpdatedFirstLine
    <3>3. CASE response' = ChangeHeader(response, "Connection", "close")
      BY <2>0, <2>4, <3>1, <3>3, Zenon DEF ChangeHeader, ResponseType, UpdatedFirstLine
    <3>4. CASE response' = DeleteHeader(response, "Connection")
      BY <2>0, <2>4, <3>1, <3>4, Zenon DEF DeleteHeader, ResponseType, UpdatedFirstLine
    <3> HIDE DEF Kept
    <3> QED
      BY <2>4, <3>2, <3>3, <3>4, Zenon
  <2>5. CASE /\ ~response.do_not_send_content_length /\ UNCHANGED jar
             /\ response' = AddHeader(response, "Content-Length", 1)
    <3>1. response' \in ResponseType
      BY <2>0, <2>5, HeaderEditsTyped, Zenon
    <3> QED
      BY <2>0, <2>5, <3>1, Zenon DEF AddHeader, ResponseType, UpdatedFirstLine
  <2>6. CASE ~BodyAllowed /\ response' = SetContentLength(response, 1) /\ UNCHANGED jar
    BY <2>0, <2>6, Zenon DEF SetContentLength, ResponseType, UpdatedFirstLine
  <2>7. CASE /\ ~OwnLength /\ ~(BodyAllowed /\ lifecycle # "close") /\ UNCHANGED jar
             /\ response' = DoNotSendContentLength(response)
    BY <2>0, <2>7, Zenon
       DEF DoNotSendContentLength, ResponseType, UpdatedFirstLine, OwnLength
  <2>8. ASSUME NEW cookie \in {"set", "deleted"}, GiveCookie(cookie)
        PROVE  Kept(response', jar')
    <3>1. /\ response' = AddHeader(response, "Set-Cookie", cookie)
          /\ jar' = Append(jar, cookie)
      BY <2>8, Zenon DEF GiveCookie, SetCookie, ByRules
    <3>2. response' \in ResponseType
      <4>1. cookie \in Values
        BY <2>0, Zenon
      <4> QED
        BY <2>0, <3>1, <4>1, HeaderEditsTyped, Zenon
    <3> QED
      BY <2>0, <3>1, <3>2, Zenon DEF AddHeader, ResponseType, UpdatedFirstLine
  <2> HIDE DEF Kept
  <2>9. \/ EditHead /\ UNCHANGED jar
        \/ \E cookie \in {"set", "deleted"} : GiveCookie(cookie)
    BY Zenon DEF EditResponse
  <2>10. CASE EditHead /\ UNCHANGED jar
    BY <2>1, <2>2, <2>3, <2>4, <2>5, <2>6, <2>7, <2>10, Zenon DEF EditHead, ByRules
  <2> QED
    BY <2>8, <2>9, <2>10, Zenon
<1>4. ResponseInv'
  BY <1>1, <1>3 DEF ResponseInv, OwnLength, BodyAllowed
<1> QED
  BY <1>2, <1>4, Zenon

\* A new response and a new writer.
LEMMA NewTyped ==
  ASSUME NEW r \in Requests
  PROVE  /\ NewResponse(r) \in ResponseType /\ NewWriter(r) \in WriterType
         /\ r.major = 0 => ~KeepAlive(r)
<1>1. r.major \in Nat /\ r.minor \in Nat
  BY InputsAssumption, Zenon
<1>3. r.major = 0 => ~KeepAlive(r)
  BY <1>1 DEF KeepAlive
<1>2. /\ (IF r.major = 0 THEN <<0, 0>> ELSE <<1, 1>>) \in Nat \X Nat
      /\ (IF r.major = 0 THEN 0 ELSE 200) \in Nat
      /\ (IF r.major = 0 THEN "" ELSE "OK") \in Words
      /\ ChunksSupported(r) \in BOOLEAN
      /\ [n \in HeaderNames |-> <<>>] \in [HeaderNames -> Seq(Values)]
      /\ <<>> \in Seq(Nat \X Nat)
  BY <1>1 DEF Words, ChunksSupported
<1> QED
  BY <1>2, <1>3, Zenon DEF NewResponse, NewWriter, ResponseType, WriterType

LEMMA WriterInit == Init => WriterInv
<1> SUFFICES ASSUME Init PROVE WriterInv
  BY Zenon
<1>1. /\ request \in Requests /\ response \in ResponseType /\ writer \in WriterType
      /\ request.major = 0 => lifecycle = "close"
  BY NewTyped, Zenon DEF Init
<1>2. ResponseInv
  BY <1>1, Zenon DEF Init, ResponseInv, NewResponse, NewWriter, HeaderNames
<1> QED
  BY <1>2 DEF Init, WriterInv, ChunkedInv, StageInv, NewWriter

\* A write or a clear(), that changes the writer's content.
LEMMA ContentWriter ==
  ASSUME WriterInv, NEW c \in Seq(Nat \X Nat), NEW n \in Nat, pc' \in {"user", "finished"},
         pc = "user" \/ pc \in {"chunk", "last"},
         pc = "last" => pc' = "finished", pc # "last" => pc' = "user",
         writer' \in {writer, [writer EXCEPT !.content = c, !.content_length = n]},
         response.status_code = 204 => written' = written,
         broken' \in BOOLEAN, sending' = <<>>,
         UNCHANGED <<request, lifecycle, is_open, response, chunks, jar>>
  PROVE  WriterInv'
<1> USE DEF WriterInv
<1>1. /\ writer' \in WriterType
      /\ writer'.client_supports_chunks = writer.client_supports_chunks
      /\ writer'.sending_chunks = writer.sending_chunks
      /\ writer'.sent_headers = writer.sent_headers
  <2>1. writer \in WriterType
    BY Zenon DEF ResponseInv
  <2>2. CASE writer' = [writer EXCEPT !.content = c, !.content_length = n]
    BY <2>1, <2>2, Zenon DEF WriterType
  <2> QED
    BY <2>1, <2>2, Zenon
<1>2. ResponseInv'
  BY <1>1 DEF ResponseInv, BodyAllowed, OwnLength
<1>3. ChunkedInv'
  BY <1>1, Zenon DEF ChunkedInv, BodyAllowed
<1>4. StageInv'
  BY <1>1, Zenon DEF StageInv
<1> QED
  BY <1>2, <1>3, <1>4, Zenon

\* Where the pieces written so far end.
LEMMA PiecesEnd ==
  ASSUME PiecesInv
  PROVE  \A i \in 0..Len(written) : WrittenTo(i) \in Nat
  BY DEF PiecesInv, WrittenTo

LEMMA WriterStep == ByRules /\ WriterInv /\ PiecesInv /\ [Next]_vars => WriterInv'
<1> SUFFICES ASSUME ByRules, WriterInv, PiecesInv, [Next]_vars PROVE WriterInv'
  BY Zenon
<1> USE DEF WriterInv
<1>1. ASSUME NEW n \in PieceSizes, Write(n) PROVE WriterInv'
  <2> DEFINE from == WrittenTo(Len(written))
  <2>1. from \in Nat /\ n \in Nat
    BY PiecesEnd, InputsAssumption
  <2>2. writer.content \in Seq(Nat \X Nat) /\ writer.content_length \in Nat
    BY Zenon DEF ResponseInv, WriterType
  <2> DEFINE c == Append(writer.content, <<from, from + n>>)
             l == writer.content_length + n
  <2>3. writer' \in {writer, [writer EXCEPT !.content = c, !.content_length = l]}
    BY <1>1, <2>2, Zenon DEF Write, ResponseInv, WriterType
  <2> HIDE DEF from
  <2>4. c \in Seq(Nat \X Nat) /\ l \in Nat
    BY <2>1, <2>2
  <2>5. /\ pc = "user" /\ pc' = "user" /\ response.status_code # 204
        /\ sending' = <<>> /\ broken' \in BOOLEAN
        /\ UNCHANGED <<request, lifecycle, is_open, response, chunks, jar>>
    BY <1>1, Zenon DEF Write, StageInv, ResponseInv
  <2> HIDE DEF c, l
  <2> QED
    BY <2>3, <2>4, <2>5, ContentWriter, Zenon
<1>2. ASSUME NEW b \in BOOLEAN, Override(b) PROVE WriterInv'
  <2>1. /\ writer' \in WriterType /\ writer'.sent_headers = writer.sent_headers
        /\ writer'.sending_chunks = writer.sending_chunks
        /\ pc = "user" /\ ~writer.sent_headers
        /\ UNCHANGED <<request, lifecycle, is_open, broken, response, pc, sending, written, chunks,
                       jar>>
    BY <1>2, Zenon DEF Override, ResponseInv, WriterType
  <2>2. ~writer.sending_chunks
    BY <2>1, Zenon DEF StageInv, ResponseInv, WriterType
  <2>3. ResponseInv'
    BY <2>1, Zenon DEF ResponseInv, BodyAllowed, OwnLength
  <2> QED
    BY <2>1, <2>2, <2>3, Zenon DEF ChunkedInv, StageInv
<1>3. CASE Send
  BY <1>3, SendIsRight, SendMoreDataWriter, Zenon
<1>4. CASE SendChunk
  BY <1>4, SendChunkIsRight, SendMoreDataWriter, Zenon
<1>5. CASE SendFinalChunk
  BY <1>5, SendFinalChunkIsRight, SendMoreDataWriter, Zenon
<1>6. ASSUME NEW ok \in BOOLEAN, HandleChunk(ok) PROVE WriterInv'
  <2>1. /\ writer' = [writer EXCEPT !.content = <<>>, !.content_length = 0]
        /\ pc = "chunk" /\ pc' = "user" /\ sending' = <<>> /\ broken' \in BOOLEAN
        /\ UNCHANGED <<request, lifecycle, is_open, response, written, chunks, jar>>
    BY <1>6, Zenon DEF HandleChunk, WriteEnds, Cleared
  <2>2. <<>> \in Seq(Nat \X Nat) /\ 0 \in Nat
    OBVIOUS
  <2> QED
    BY <2>1, <2>2, ContentWriter, Zenon
<1>7. ASSUME NEW ok \in BOOLEAN, HandleWrite(ok) PROVE WriterInv'
  <2>1. /\ pc = "last" /\ pc' = "finished" /\ sending' = <<>> /\ broken' \in BOOLEAN
        /\ UNCHANGED <<request, lifecycle, is_open, response, writer, written, chunks, jar>>
    BY <1>7, Zenon DEF HandleWrite, WriteEnds, Finish
  <2>2. <<>> \in Seq(Nat \X Nat)
    OBVIOUS
  <2> QED
    BY <2>1, <2>2, ContentWriter, Zenon
<1>8. CASE Lose
  <2>1. ResponseInv'
    BY <1>8, Zenon DEF Lose, ResponseInv, BodyAllowed, OwnLength
  <2> QED
    BY <1>8, <2>1, Zenon DEF Lose, ChunkedInv, StageInv, BodyAllowed
<1>9. ASSUME NEW r \in Requests, NextRequest(r) PROVE WriterInv'
  <2>1. /\ response' \in ResponseType /\ writer' \in WriterType
        /\ request'.major = 0 => lifecycle' = "close"
    BY <1>9, NewTyped, Zenon DEF NextRequest
  <2>2. ResponseInv'
    BY <1>9, <2>1, Zenon DEF NextRequest, ResponseInv, NewResponse, NewWriter, HeaderNames
  <2> QED
    BY <1>9, <2>2 DEF NextRequest, ChunkedInv, StageInv, NewWriter
<1>10. CASE EditResponse
  BY <1>10, EditResponseWriter, Zenon
<1>11. CASE Arrive
  <2>1. ResponseInv'
    BY <1>11, Zenon DEF Arrive, ResponseInv, BodyAllowed, OwnLength
  <2> QED
    BY <1>11, <2>1, Zenon DEF Arrive, ChunkedInv, StageInv, BodyAllowed
<1>12. CASE UNCHANGED vars
  <2>1. ResponseInv'
    BY <1>12 DEF vars, ResponseInv, BodyAllowed, OwnLength
  <2> QED
    BY <1>12, <2>1, Zenon DEF vars, ChunkedInv, StageInv, BodyAllowed
<1> QED
  BY <1>1, <1>2, <1>3, <1>4, <1>5, <1>6, <1>7, <1>8, <1>9, <1>10, <1>11, <1>12, Zenon
     DEF Next, User, Complete

LEMMA PiecesStep == PiecesInv /\ [Next]_vars => PiecesInv'
<1> SUFFICES ASSUME PiecesInv, [Next]_vars PROVE PiecesInv'
  BY Zenon
<1>1. ASSUME NEW n \in PieceSizes, Write(n), n > 0 PROVE PiecesInv'
  <2> DEFINE from == WrittenTo(Len(written))
             piece == <<from, from + n>>
  <2>0. written \in Seq(Nat \X Nat)
    BY Zenon DEF PiecesInv
  <2>1. n \in Nat \ {0} /\ from \in Nat /\ Len(written) \in Nat
    BY <1>1, <2>0, PiecesEnd, InputsAssumption
  <2>2. written' = Append(written, piece)
    BY <1>1, Zenon DEF Write
  <2> HIDE DEF from
  <2>3. piece \in Nat \X Nat /\ piece[1] = from /\ piece[2] = from + n
    BY <2>1
  <2> HIDE DEF piece
  <2>4. /\ written' \in Seq(Nat \X Nat)
        /\ Len(written') = Len(written) + 1
        /\ \A i \in 1..Len(written) : written'[i] = written[i]
        /\ written'[Len(written) + 1] = piece
    BY <2>0, <2>2, <2>3, AppendProperties
  <2>5. /\ \A i \in 0..Len(written) : WrittenTo(i)' = WrittenTo(i)
        /\ \A k \in Nat : k = Len(written) + 1 => WrittenTo(k)' = from + n
    <3>1. ASSUME NEW i \in 0..Len(written) PROVE WrittenTo(i)' = WrittenTo(i)
      <4>1. \A j \in 1..Len(written) : written'[j] = written[j]
        BY <2>4, Zenon
      <4> QED
        BY <2>1, <4>1 DEF WrittenTo
    <3>2. ASSUME NEW k \in Nat, k = Len(written) + 1 PROVE WrittenTo(k)' = from + n
      <4>1. written'[Len(written) + 1] = piece
        BY <2>4, Zenon
      <4> QED
        BY <2>1, <2>3, <3>2, <4>1 DEF WrittenTo
    <3> QED
      BY <3>1, <3>2, Zenon
  <2>6. \A i, j \in 0..Len(written) : i < j => WrittenTo(i) < WrittenTo(j)
    BY Zenon DEF PiecesInv
  <2>7. \A i, j \in 0..Len(written') : i < j => WrittenTo(i)' < WrittenTo(j)'
    <3> SUFFICES ASSUME NEW i \in 0..Len(written'), NEW j \in 0..Len(written'), i < j
                 PROVE  WrittenTo(i)' < WrittenTo(j)'
      BY Zenon
    <3>1. i \in 0..Len(written) /\ WrittenTo(i)' = WrittenTo(i) /\ WrittenTo(i) \in Nat
      BY <2>1, <2>4, <2>5, PiecesEnd
    <3>2. WrittenTo(i) <= from
      <4>1. CASE i = Len(written)
        BY <2>1, <4>1 DEF from
      <4>2. CASE i < Len(written)
        <5>1. Len(written) \in 0..Len(written)
          BY <2>1
        <5> QED
          BY <2>1, <2>6, <3>1, <4>2, <5>1 DEF from
      <4> QED
        BY <2>1, <3>1, <4>1, <4>2
    <3>3. CASE j = Len(written) + 1
      BY <2>1, <2>5, <3>1, <3>2, <3>3
    <3>4. CASE j \in 0..Len(written)
      BY <2>5, <2>6, <3>1, <3>4, Zenon
    <3> QED
      BY <2>1, <2>4, <3>3, <3>4
  <2>8. \A i \in DOMAIN written' : written'[i][1] = WrittenTo(i - 1)'
    <3> SUFFICES ASSUME NEW i \in DOMAIN written' PROVE written'[i][1] = WrittenTo(i - 1)'
      BY Zenon
    <3>1. i \in 1..(Len(written) + 1)
      BY <2>1, <2>4, <2>0, LenProperties, Zenon
    <3>2. CASE i = Len(written) + 1
      BY <2>1, <2>3, <2>4, <2>5, <3>2 DEF from
    <3>3. CASE i \in 1..Len(written)
      <4>1. i \in DOMAIN written /\ i - 1 \in 0..Len(written)
        BY <2>1, <3>3, <2>0, LenProperties
      <4>2. written[i][1] = WrittenTo(i - 1)
        BY <4>1, Zenon DEF PiecesInv
      <4> QED
        BY <2>4, <2>5, <3>3, <4>1, <4>2, Zenon
    <3> QED
      BY <2>1, <3>1, <3>2, <3>3
  <2> QED
    BY <2>4, <2>7, <2>8, Zenon DEF PiecesInv, WrittenTo
<1>2. CASE written' = <<>>
  <2>1. written' \in Seq(Nat \X Nat) /\ Len(written') = 0 /\ DOMAIN written' = {}
    BY <1>2
  <2> QED
    BY <2>1 DEF PiecesInv, WrittenTo
<1>3. CASE UNCHANGED written
  BY <1>3, Zenon DEF PiecesInv, WrittenTo
<1>4. \/ \E n \in PieceSizes : Write(n) /\ n > 0
      \/ written' = <<>>
      \/ UNCHANGED written
  BY Zenon DEF Next, User, Complete, vars, Write, EditResponse, Override, Send, SendChunk,
     SendFinalChunk, Arrive, HandleChunk, HandleWrite, Lose, NextRequest
<1> QED
  BY <1>1, <1>2, <1>3, <1>4, Zenon

\* The first element of a sequence and the rest of it.
LEMMA Cons ==
  ASSUME NEW S, NEW x \in S, NEW s \in Seq(S)
  PROVE  /\ <<x>> \o s \in Seq(S)
         /\ <<x>> \o s # <<>>
         /\ Head(<<x>> \o s) = x
         /\ Tail(<<x>> \o s) = s
<1> DEFINE c == <<x>> \o s
<1>1. <<x>> \in Seq(S) /\ Len(<<x>>) = 1 /\ <<x>>[1] = x
  OBVIOUS
<1>2. /\ c \in Seq(S)
      /\ Len(c) = 1 + Len(s)
      /\ \A i \in 1..(1 + Len(s)) : c[i] = IF i <= 1 THEN <<x>>[i] ELSE s[i - 1]
  BY <1>1, ConcatProperties, Zenon
<1>3. Len(s) \in Nat
  BY LenProperties, Zenon
<1> HIDE DEF c
<1>4. c # <<>> /\ c[1] = x
  BY <1>1, <1>2, <1>3
<1>5. /\ Tail(c) \in Seq(S)
      /\ Len(Tail(c)) = Len(s)
      /\ \A i \in 1..Len(Tail(c)) : Tail(c)[i] = c[i + 1]
  BY <1>2, <1>3, <1>4, HeadTailProperties
<1>6. \A i \in 1..Len(Tail(c)) : Tail(c)[i] = s[i]
  BY <1>2, <1>3, <1>5
<1>7. Tail(c) = s
  BY <1>5, <1>6, SeqEqual, Zenon
<1>8. Head(c) = c[1]
  BY <1>2, <1>4
<1> QED
  BY <1>2, <1>4, <1>7, <1>8, Zenon DEF c

LEMMA FunctionIsSeq ==
  ASSUME NEW S, NEW n \in Nat, NEW f \in [1..n -> S]
  PROVE  f \in Seq(S) /\ Len(f) = n
  OBVIOUS

AnyContent == {Content(p) : p \in Nat \X Nat}

\* The units of the pieces after the first t: none at the end, else the next one
\* and the others.
LEMMA UnitsOfPieces ==
  ASSUME NEW B \in Seq(Nat \X Nat), NEW t \in Nat, t <= Len(B)
  PROVE  /\ UnitsOf(B, t) \in Seq(AnyContent)
         /\ t = Len(B) <=> UnitsOf(B, t) = <<>>
         /\ t < Len(B) => /\ B[t + 1] \in Nat \X Nat
                          /\ UnitsOf(B, t) = <<Content(B[t + 1])>> \o UnitsOf(B, t + 1)
<1>1. \A u \in Nat : u <= Len(B) =>
        /\ UnitsOf(B, u) \in Seq(AnyContent)
        /\ Len(UnitsOf(B, u)) = Len(B) - u
        /\ \A k \in 1..(Len(B) - u) : UnitsOf(B, u)[k] = Content(B[u + k])
  <2> SUFFICES ASSUME NEW u \in Nat, u <= Len(B)
               PROVE  /\ UnitsOf(B, u) \in Seq(AnyContent)
                      /\ Len(UnitsOf(B, u)) = Len(B) - u
                      /\ \A k \in 1..(Len(B) - u) : UnitsOf(B, u)[k] = Content(B[u + k])
    BY Zenon
  <2>1. Len(B) \in Nat /\ Len(B) - u \in Nat
    BY LenProperties
  <2>2. \A k \in 1..(Len(B) - u) : u + k \in 1..Len(B)
    BY <2>1
  <2>3. \A k \in 1..(Len(B) - u) : Content(B[u + k]) \in AnyContent
    BY <2>2, ElementOfSeq, Zenon DEF AnyContent
  <2>4. UnitsOf(B, u) \in [1..(Len(B) - u) -> AnyContent]
    BY <2>3, Zenon DEF UnitsOf
  <2>5. UnitsOf(B, u) \in Seq(AnyContent) /\ Len(UnitsOf(B, u)) = Len(B) - u
    BY <2>1, <2>4, FunctionIsSeq, Zenon
  <2> QED
    BY <2>5, Zenon DEF UnitsOf
<1>2. Len(B) \in Nat
  BY LenProperties, Zenon
<1>3. t = Len(B) <=> UnitsOf(B, t) = <<>>
  BY <1>1, <1>2, EmptySeq
<1>4. ASSUME t < Len(B)
      PROVE  /\ B[t + 1] \in Nat \X Nat
             /\ UnitsOf(B, t) = <<Content(B[t + 1])>> \o UnitsOf(B, t + 1)
  <2>1. t + 1 \in 1..Len(B) /\ t + 1 \in Nat /\ t + 1 <= Len(B)
    BY <1>2, <1>4
  <2>2. B[t + 1] \in Nat \X Nat
    BY <2>1, ElementOfSeq, Zenon
  <2> DEFINE x == Content(B[t + 1])
             s == UnitsOf(B, t + 1)
             c == <<x>> \o s
  <2>3. x \in AnyContent
    BY <2>2, Zenon DEF AnyContent
  <2>4. /\ s \in Seq(AnyContent) /\ Len(s) = Len(B) - (t + 1)
        /\ \A k \in 1..(Len(B) - (t + 1)) : s[k] = Content(B[(t + 1) + k])
    BY <1>1, <2>1, Zenon
  <2> HIDE DEF x, s
  <2>5. <<x>> \in Seq(AnyContent) /\ Len(<<x>>) = 1 /\ <<x>>[1] = x
    BY <2>3
  <2>6. /\ c \in Seq(AnyContent)
        /\ Len(c) = 1 + Len(s)
        /\ \A i \in 1..(1 + Len(s)) : c[i] = IF i <= 1 THEN <<x>>[i] ELSE s[i - 1]
    BY <2>4, <2>5, ConcatProperties
  <2> HIDE DEF c
  <2>7. Len(c) = Len(B) - t
    BY <1>2, <2>4, <2>6
  <2>8. \A i \in 1..(Len(B) - t) : c[i] = Content(B[t + i])
    <3> SUFFICES ASSUME NEW i \in 1..(Len(B) - t) PROVE c[i] = Content(B[t + i])
      BY Zenon
    <3>1. CASE i = 1
      <4>1. Len(s) \in Nat /\ 1 \in 1..(1 + Len(s)) /\ 1 <= 1
        BY <2>4
      <4>2. c[1] = <<x>>[1]
        BY <2>6, <4>1, Zenon
      <4> QED
        BY <2>5, <3>1, <4>2, Zenon DEF x
    <3>2. CASE i > 1
      <4>1. i - 1 \in 1..(Len(B) - (t + 1)) /\ (t + 1) + (i - 1) = t + i /\ ~(i <= 1)
        BY <1>2, <3>2
      <4>2. c[i] = s[i - 1]
        BY <1>2, <2>4, <2>6, <4>1
      <4>3. s[i - 1] = Content(B[(t + 1) + (i - 1)])
        BY <2>4, <4>1, Zenon
      <4> QED
        BY <4>1, <4>2, <4>3, Zenon
    <3> QED
      BY <1>2, <3>1, <3>2
  <2>9. UnitsOf(B, t) = c
    <3> DEFINE z == UnitsOf(B, t)
    <3>1. /\ z \in Seq(AnyContent) /\ Len(z) = Len(B) - t
          /\ \A k \in 1..(Len(B) - t) : z[k] = Content(B[t + k])
      BY <1>1, Zenon
    <3> HIDE DEF z
    <3>2. \A k \in 1..Len(z) : z[k] = c[k]
      BY <2>8, <3>1, Zenon
    <3>3. z = c
      BY <2>6, <2>7, <3>1, <3>2, SeqEqual, Zenon
    <3> QED
      BY <3>3, Zenon DEF z
  <2> QED
    BY <2>2, <2>9, Zenon DEF c, x, s
<1> QED
  BY <1>1, <1>3, <1>4, Zenon

-----------------------------------------------------------------------------
(* The client.                                                             *)

\* c is the client d at another position, with other bytes to wait for and
\* another body.
Moved(c, d, at, left, body) ==
  /\ c \in ClientType({d.head})
  /\ c.request = d.request /\ c.head = d.head
  /\ c.at = at /\ c.left = left /\ c.body = body

LEMMA TakesLength ==
  ASSUME NEW Heads, NEW d \in ClientType(Heads), d.at = "length", NEW n \in Nat
  PROVE  Moved(ClientTakes(d, Length(n)), d,
               IF n = 0 THEN "last_length_end" ELSE "length_end", n, d.body)
<1> DEFINE at == IF n = 0 THEN "last_length_end" ELSE "length_end"
<1>1. ClientTakes(d, Length(n)) = [d EXCEPT !.at = at, !.left = n]
  BY Zenon DEF ClientTakes, Length
<1>2. at \in Positions /\ d.body \in Seq(Nat \X Nat)
  BY Zenon DEF Positions, ClientType
<1> QED
  BY <1>1, <1>2, Zenon DEF Moved, ClientType

LEMMA TakesCrlf ==
  ASSUME NEW Heads, NEW d \in ClientType(Heads), NEW at,
         \/ d.at = "length_end" /\ at = "chunk"
         \/ d.at = "chunk_end" /\ at = "length"
         \/ d.at = "last_length_end" /\ at = "trailer"
         \/ d.at = "trailer" /\ at = "done"
  PROVE  Moved(ClientTakes(d, Crlf), d, at, d.left, d.body)
<1>1. d.at \in DOMAIN AfterCrlf /\ AfterCrlf[d.at] = at
  BY DEF AfterCrlf
<1>2. ClientTakes(d, Crlf) = [d EXCEPT !.at = at]
  BY <1>1, Zenon DEF ClientTakes, Crlf
<1>3. at \in Positions
  BY Zenon DEF Positions
<1> QED
  BY <1>2, <1>3, Zenon DEF Moved, ClientType

LEMMA TakesContent ==
  ASSUME NEW Heads, NEW d \in ClientType(Heads), NEW p \in Nat \X Nat, p[1] <= p[2],
         \/ d.at = "until_close"
         \/ d.at \in {"fixed", "chunk"} /\ p[2] - p[1] <= d.left
  PROVE  Moved(ClientTakes(d, Content(p)), d,
               IF d.at = "until_close" \/ p[2] - p[1] < d.left THEN d.at
               ELSE IF d.at = "fixed" THEN "done" ELSE "chunk_end",
               IF d.at = "until_close" THEN d.left ELSE d.left - (p[2] - p[1]),
               Append(d.body, p))
<1>0. /\ Append(d.body, p) \in Seq(Nat \X Nat)
      /\ d.left \in Nat /\ d.at \in Positions
      /\ p[2] - p[1] \in Nat
  BY DEF ClientType
<1>1. CASE d.at = "until_close"
  <2>1. ClientTakes(d, Content(p)) = [d EXCEPT !.body = Append(d.body, p)]
    BY <1>1, Zenon DEF ClientTakes, Content, AfterCrlf, AfterContent
  <2>2. Moved([d EXCEPT !.body = Append(d.body, p)], d, d.at, d.left, Append(d.body, p))
    BY <1>0, Zenon DEF Moved, ClientType
  <2> QED
    BY <1>1, <2>1, <2>2, Zenon
<1>2. CASE d.at \in {"fixed", "chunk"}
  <2> DEFINE at == IF p[2] - p[1] < d.left THEN d.at
                   ELSE IF d.at = "fixed" THEN "done" ELSE "chunk_end"
             left == d.left - (p[2] - p[1])
  <2>0. p[2] - p[1] <= d.left
    BY <1>2, Zenon
  <2>1. d.at \in DOMAIN AfterContent
        /\ AfterContent[d.at] = IF d.at = "fixed" THEN "done" ELSE "chunk_end"
    BY <1>2 DEF AfterContent
  <2>2. ClientTakes(d, Content(p)) =
          [d EXCEPT !.at = IF PieceSize(p) = d.left THEN AfterContent[d.at] ELSE d.at,
                    !.left = d.left - PieceSize(p), !.body = Append(d.body, p)]
    BY <1>2, <2>0, <2>1, Zenon DEF ClientTakes, Content, PieceSize, ClientType, AfterCrlf
  <2>3. /\ at = IF PieceSize(p) = d.left THEN AfterContent[d.at] ELSE d.at
        /\ left = d.left - PieceSize(p)
    BY <1>0, <2>0, <2>1 DEF PieceSize
  <2>4. at \in Positions /\ left \in Nat
    BY <1>0, <1>2, <2>0 DEF Positions
  <2> HIDE DEF at, left
  <2> DEFINE body == Append(d.body, p)
  <2>5. ClientTakes(d, Content(p)) = [d EXCEPT !.at = at, !.left = left, !.body = body]
    BY <2>2, <2>3, Zenon
  <2>6. body \in Seq(Nat \X Nat)
    BY <1>0, Zenon
  <2> HIDE DEF body
  <2>7. Moved(ClientTakes(d, Content(p)), d, at, left, body)
    BY <2>4, <2>5, <2>6, Zenon DEF Moved, ClientType
  <2> QED
    BY <1>2, <2>7, Zenon DEF at, left, body
<1> QED
  BY <1>1, <1>2, Zenon

\* A unit has arrived, and the client is where the units that are left begin.
LEMMA Landed ==
  ASSUME pc \in {"chunk", "last"},
         UNCHANGED <<request, lifecycle, response, writer, pc, written>>,
         NEW at, NEW t, NEW left,
         client' \in ClientType({client'.head}), client'.request = request,
         client'.head = HeaderBlock(response), client'.at = at, client'.left = left,
         client'.body = SubSeq(Body, 1, t), Len(client'.body) = t,
         MayBeAt(at, t, left),
         sending' = Ahead(at, UnitsOf(Body, t), BytesFrom(t), LastChunk)
  PROVE  ClientInv' /\ SendingInv'
<1>1. Body' = Body /\ LastChunk' = LastChunk /\ HeaderBlock(response)' = HeaderBlock(response)
  BY Zenon DEF Body, BodyAllowed, LastChunk, Chunking, HeaderBlock
<1>2. BytesFrom(t)' = BytesFrom(t)
  BY <1>1, Zenon DEF BytesFrom, WrittenTo
<1>3. MayBeAt(at, t, left)'
  BY <1>1, <1>2, Zenon DEF MayBeAt
<1>4. Taken' = t /\ at # "head"
  BY Zenon DEF Taken, MayBeAt
<1>5. ClientInv'
  BY <1>1, <1>3, <1>4, Zenon DEF ClientInv
<1>6. SendingInv'
  BY <1>1, <1>2, <1>4, Zenon DEF SendingInv
<1> QED
  BY <1>5, <1>6, Zenon

\* The pieces that the client has not got, in bytes.
LEMMA BytesLeft ==
  ASSUME PiecesInv
  PROVE  /\ Body \in Seq(Nat \X Nat) /\ Len(Body) \in Nat
         /\ \A t \in 0..Len(Body) : BytesFrom(t) \in Nat /\ (BytesFrom(t) = 0 <=> t = Len(Body))
         /\ \A t \in 0..Len(Body) : t < Len(Body) =>
              /\ Body[t + 1][1] < Body[t + 1][2]
              /\ Body[t + 1][2] - Body[t + 1][1] = BytesFrom(t) - BytesFrom(t + 1)
<1>1. Body \in Seq(Nat \X Nat) /\ written \in Seq(Nat \X Nat)
  BY EmptySeq, Zenon DEF PiecesInv, Body
<1>2. Len(Body) \in Nat /\ Len(Body) <= Len(written) /\ Len(written) \in Nat
  BY <1>1, EmptySeq DEF Body
<1>3. \A i, j \in 0..Len(Body) : i < j => WrittenTo(i) < WrittenTo(j)
  <2>1. \A i, j \in 0..Len(written) : i < j => WrittenTo(i) < WrittenTo(j)
    BY Zenon DEF PiecesInv
  <2>2. \A i \in 0..Len(Body) : i \in 0..Len(written)
    BY <1>2
  <2> QED
    BY <2>1, <2>2, Zenon
<1>4. \A i \in 0..Len(Body) : WrittenTo(i) \in Nat
  BY <1>2, PiecesEnd
<1>5. ASSUME NEW t \in 0..Len(Body) PROVE BytesFrom(t) \in Nat /\ (BytesFrom(t) = 0 <=> t = Len(Body))
  <2>1. Len(Body) \in 0..Len(Body)
    BY <1>2
  <2>2. t < Len(Body) \/ t = Len(Body)
    BY <1>2
  <2>3. t < Len(Body) => WrittenTo(t) < WrittenTo(Len(Body))
    BY <1>3, <2>1, Zenon
  <2>4. WrittenTo(t) \in Nat /\ WrittenTo(Len(Body)) \in Nat
    BY <1>4, <2>1, Zenon
  <2>5. t = Len(Body) => WrittenTo(t) = WrittenTo(Len(Body))
    BY Zenon
  <2> QED
    BY <1>2, <2>2, <2>3, <2>4, <2>5 DEF BytesFrom
<1>6. ASSUME NEW t \in 0..Len(Body), t < Len(Body)
      PROVE  /\ Body[t + 1][1] < Body[t + 1][2]
             /\ Body[t + 1][2] - Body[t + 1][1] = BytesFrom(t) - BytesFrom(t + 1)
  <2>1. t + 1 \in 1..Len(written) /\ t + 1 \in 0..Len(Body)
    BY <1>2, <1>6
  <2>2. Body = written
    BY <1>2, <1>6, EmptySeq DEF Body
  <2>3. written[t + 1][1] = WrittenTo(t)
    <3>1. t + 1 \in DOMAIN written /\ (t + 1) - 1 = t
      BY <1>1, <2>1, LenProperties
    <3> QED
      BY <3>1, Zenon DEF PiecesInv
  <2>4. written[t + 1][2] = WrittenTo(t + 1)
    BY <1>2 DEF WrittenTo
  <2>5. WrittenTo(t) < WrittenTo(t + 1)
    BY <1>2, <1>3, <2>1
  <2>6. WrittenTo(t) \in Nat /\ WrittenTo(t + 1) \in Nat /\ WrittenTo(Len(Body)) \in Nat
    BY <1>2, <1>4, <2>1
  <2> QED
    BY <2>2, <2>3, <2>4, <2>5, <2>6 DEF BytesFrom
<1> QED
  BY <1>1, <1>2, <1>5, <1>6, Zenon

AnyUnit == AnyContent \cup {Crlf} \cup {Length(n) : n \in Nat}

LEMMA AheadIsUnits ==
  ASSUME NEW at, NEW units \in Seq(AnyContent), NEW bytes \in Nat, NEW last \in Seq(AnyUnit)
  PROVE  /\ Crlf \in AnyUnit /\ Length(bytes) \in AnyUnit
         /\ units \in Seq(AnyUnit) /\ units \o (<<Crlf>> \o last) \in Seq(AnyUnit)
         /\ <<Crlf>> \o (units \o (<<Crlf>> \o last)) \in Seq(AnyUnit)
         /\ <<Crlf>> \o <<>> \in Seq(AnyUnit)
         /\ Ahead(at, units, bytes, last) \in Seq(AnyUnit)
<1>1. Crlf \in AnyUnit /\ Length(bytes) \in AnyUnit /\ <<>> \in Seq(AnyUnit)
  BY EmptySeq, Zenon DEF AnyUnit
<1>2. units \in Seq(AnyUnit)
  BY SeqMonotonic, Zenon DEF AnyUnit
<1>3. <<Crlf>> \o last \in Seq(AnyUnit) /\ <<Crlf>> \o <<>> \in Seq(AnyUnit)
  BY <1>1, Cons, Zenon
<1>4. units \o (<<Crlf>> \o last) \in Seq(AnyUnit)
  BY <1>2, <1>3, ConcatProperties, Zenon
<1>5. <<Crlf>> \o (units \o (<<Crlf>> \o last)) \in Seq(AnyUnit)
  BY <1>1, <1>4, Cons, Zenon
<1>6. <<Length(bytes)>> \o (<<Crlf>> \o (units \o (<<Crlf>> \o last))) \in Seq(AnyUnit)
  BY <1>1, <1>5, Cons, Zenon
<1>7. <<Crlf>> \o (<<Crlf>> \o <<>>) \in Seq(AnyUnit)
  BY <1>1, <1>3, Cons, Zenon
<1> QED
  BY <1>1, <1>2, <1>3, <1>4, <1>5, <1>6, <1>7, Zenon DEF Ahead

LEMMA LastIsUnits ==
  <<>> \in Seq(AnyUnit) /\ <<Length(0)>> \o (<<Crlf>> \o (<<Crlf>> \o <<>>)) \in Seq(AnyUnit)
<1>1. Crlf \in AnyUnit /\ Length(0) \in AnyUnit /\ <<>> \in Seq(AnyUnit)
  BY EmptySeq, Zenon DEF AnyUnit
<1>2. <<Crlf>> \o (<<Crlf>> \o <<>>) \in Seq(AnyUnit)
  BY <1>1, Cons, Zenon
<1> QED
  BY <1>1, <1>2, Cons, Zenon

LEMMA LastChunkIsUnits == LastChunk \in Seq(AnyUnit)
  BY LastIsUnits, Zenon DEF LastChunk

LEMMA NextPiece ==
  ASSUME NEW S, NEW B \in Seq(S), NEW t \in Nat, t < Len(B)
  PROVE  /\ Append(SubSeq(B, 1, t), B[t + 1]) = SubSeq(B, 1, t + 1)
         /\ Len(SubSeq(B, 1, t + 1)) = t + 1
<1>1. Len(B) \in Nat /\ t + 1 \in 1..Len(B) /\ (t + 1) - 1 = t /\ 1 \in 1..Len(B)
  BY LenProperties
<1>2. SubSeq(B, 1, t + 1) = SubSeq(B, 1, t) \o <<B[t + 1]>>
  BY <1>1, SubSeqRecursiveSecond, Zenon
<1>3. \A i \in 1..(t + 1) : B[i] \in S
  BY <1>1, ElementOfSeq
<1>4. SubSeq(B, 1, t) \in Seq(S)
  BY <1>3, SubSeqProperties
<1>5. Append(SubSeq(B, 1, t), B[t + 1]) = SubSeq(B, 1, t) \o <<B[t + 1]>>
  BY <1>1, <1>3, <1>4, AppendIsConcat
<1>6. Len(SubSeq(B, 1, t + 1)) = t + 1
  BY <1>1, <1>3, SubSeqProperties
<1> QED
  BY <1>2, <1>5, <1>6, Zenon

\* The next unit of a write that has one, by where the client is.
\* Where the client may be after the next piece.
LEMMA GoesOn ==
  ASSUME pc \in {"chunk", "last"}, Len(Body) \in Nat,
         NEW at \in {"chunk", "fixed", "until_close"}, NEW t \in Nat, NEW left,
         t < Len(Body), MayBeAt(at, t, left), at = "fixed" => pc = "last",
         NEW next, next = IF at = "until_close" \/ t + 1 < Len(Body) THEN at
                          ELSE IF at = "fixed" THEN "done" ELSE "chunk_end",
         NEW rest, at # "until_close" => rest = BytesFrom(t + 1)
  PROVE  MayBeAt(next, t + 1, rest)
<1>1. t + 1 \in 0..Len(Body) /\ (t + 1 < Len(Body) \/ t + 1 = Len(Body))
  OBVIOUS
<1>2. CASE next = at
  <2>1. at # "until_close" => t + 1 < Len(Body)
    BY <1>2, Zenon
  <2> QED
    BY <1>1, <1>2, <2>1, Zenon DEF MayBeAt
<1>3. CASE next # at
  <2>1. at # "until_close" /\ t + 1 = Len(Body)
    BY <1>1, <1>3, Zenon
  <2>2. /\ next = IF at = "fixed" THEN "done" ELSE "chunk_end"
        /\ next \in Positions \ {"head"}
    BY <2>1 DEF Positions
  <2> QED
    BY <1>1, <2>1, <2>2, Zenon DEF MayBeAt
<1> QED
  BY <1>2, <1>3, Zenon

LEMMA ArriveStream ==
  ASSUME StageInv, PiecesInv, ClientInv, SendingInv, Arrive
  PROVE  ClientInv' /\ SendingInv'
<1>0. /\ pc \in {"chunk", "last"} /\ sending # <<>>
      /\ client' = ClientTakes(client, Head(sending)) /\ sending' = Tail(sending)
      /\ UNCHANGED <<request, lifecycle, response, writer, pc, written>>
  BY Zenon DEF Arrive, StageInv
<1>1. PICK B : B = Body
  BY Zenon
<1>2. PICK t : t = Taken
  BY Zenon
<1>3. /\ B \in Seq(Nat \X Nat) /\ Len(B) \in Nat
      /\ \A k \in 0..Len(B) : BytesFrom(k) \in Nat /\ (BytesFrom(k) = 0 <=> k = Len(B))
      /\ \A k \in 0..Len(B) : k < Len(B) =>
           /\ B[k + 1][1] < B[k + 1][2]
           /\ B[k + 1][2] - B[k + 1][1] = BytesFrom(k) - BytesFrom(k + 1)
  BY <1>1, BytesLeft, Zenon
<1> DEFINE last == LastChunk
<1>4. last \in Seq(AnyUnit)
  BY LastChunkIsUnits, Zenon
<1>5. client \in ClientType({client.head}) /\ client.body \in Seq(Nat \X Nat) /\ t \in Nat
  BY <1>2 DEF ClientInv, ClientType, Taken
<1>6. CASE client.at = "head"
  <2>1. /\ t = 0 /\ client.body = SubSeq(B, 1, 0) /\ client.request = request
        /\ MayBeAt(Framing, 0, response.headers["Content-Length"][1])
        /\ sending = <<HeaderBlock(response)>>
                       \o Ahead(Framing, UnitsOf(B, 0), BytesFrom(0), last)
    BY <1>0, <1>1, <1>2, <1>6, Zenon DEF ClientInv, SendingInv
  <2> DEFINE head == HeaderBlock(response)
             rest == Ahead(Framing, UnitsOf(B, 0), BytesFrom(0), last)
             All == AnyUnit \cup {head}
             left == IF Framing = "fixed" THEN response.headers["Content-Length"][1] ELSE 0
  <2>2. rest \in Seq(AnyUnit)
    <3>1. UnitsOf(B, 0) \in Seq(AnyContent) /\ BytesFrom(0) \in Nat
      <4>1. 0 \in Nat /\ 0 <= Len(B) /\ 0 \in 0..Len(B)
        BY <1>3
      <4>2. UnitsOf(B, 0) \in Seq(AnyContent)
        BY <1>3, <4>1, UnitsOfPieces, Zenon
      <4> QED
        BY <1>3, <4>1, <4>2, Zenon
    <3> QED
      BY <1>4, <3>1, AheadIsUnits, Zenon
  <2> HIDE DEF rest
  <2>3. rest \in Seq(All) /\ head \in All
    BY <2>2, SeqMonotonic, Zenon
  <2>4. Head(sending) = head /\ sending' = rest
    BY <1>0, <2>1, <2>3, Cons, Zenon DEF rest
  <2>5. client' = [client EXCEPT !.at = Framing, !.head = head, !.left = left]
    <3>1. head.unit = "head" /\ head.headers = response.headers
      BY Zenon DEF HeaderBlock
    <3> QED
      BY <1>0, <1>6, <2>1, <2>4, <3>1, Zenon DEF ClientTakes, TakesHead, Framing
  <2>6. left \in Nat /\ Framing \in Positions
    <3>1. BytesFrom(0) \in Nat
      BY <1>3
    <3> QED
      BY <2>1, <3>1, Zenon DEF MayBeAt
  <2> HIDE DEF left, head
  <2>7. /\ client' \in ClientType({client'.head}) /\ client'.request = request
        /\ client'.head = head /\ client'.at = Framing /\ client'.left = left
        /\ client'.body = SubSeq(B, 1, 0) /\ Len(client'.body) = 0
    <3>1. client.head \in {client.head} /\ Len(client.body) = 0
      BY <1>2, <2>1, Zenon DEF Taken
    <3> QED
      BY <1>5, <2>1, <2>5, <2>6, <3>1, Zenon DEF ClientType
  <2>8. MayBeAt(Framing, 0, left)
    <3>1. Framing \notin {"length_end", "chunk"}
      BY Zenon DEF Framing, AfterHead
    <3> QED
      BY <2>1, <3>1, Zenon DEF MayBeAt, left
  <2> QED
    BY <1>0, <1>1, <2>4, <2>7, <2>8, Landed, Zenon DEF rest, head
<1>7. CASE client.at # "head"
  <2>1. /\ MayBeAt(client.at, t, client.left) /\ client.head = HeaderBlock(response)
        /\ client.body = SubSeq(B, 1, t) /\ client.request = request
        /\ sending = Ahead(client.at, UnitsOf(B, t), BytesFrom(t), last)
        /\ t \in 0..Len(B)
    BY <1>0, <1>1, <1>2, <1>7, Zenon DEF ClientInv, SendingInv, MayBeAt
  <2> DEFINE units == UnitsOf(B, t)
  <2>2. /\ units \in Seq(AnyContent) /\ (t = Len(B) <=> units = <<>>)
        /\ t < Len(B) => /\ B[t + 1] \in Nat \X Nat
                         /\ UnitsOf(B, t + 1) \in Seq(AnyContent)
                         /\ units = <<Content(B[t + 1])>> \o UnitsOf(B, t + 1)
    <3>1. t \in Nat /\ t <= Len(B) /\ t + 1 \in Nat /\ (t < Len(B) => t + 1 <= Len(B))
      BY <1>3, <2>1
    <3> QED
      BY <1>3, <3>1, UnitsOfPieces, Zenon
  <2>3. ASSUME NEW at, NEW k, NEW left, NEW body,
               Moved(client', client, at, left, body), body = SubSeq(B, 1, k), Len(body) = k,
               MayBeAt(at, k, left),
               sending' = Ahead(at, UnitsOf(B, k), BytesFrom(k), last)
        PROVE  ClientInv' /\ SendingInv'
    <3>1. /\ client' \in ClientType({client'.head}) /\ client'.request = request
          /\ client'.head = HeaderBlock(response) /\ client'.at = at /\ client'.left = left
          /\ client'.body = SubSeq(Body, 1, k) /\ Len(client'.body) = k
      BY <1>1, <2>1, <2>3, Zenon DEF Moved
    <3>2. sending' = Ahead(at, UnitsOf(Body, k), BytesFrom(k), LastChunk)
      BY <1>1, <2>3, Zenon
    <3> QED
      BY <1>0, <2>3, <3>1, <3>2, Landed, Zenon
  <2> HIDE DEF last, units
  <2>a. /\ units \in Seq(AnyUnit) /\ units \o (<<Crlf>> \o last) \in Seq(AnyUnit)
        /\ <<Crlf>> \o (units \o (<<Crlf>> \o last)) \in Seq(AnyUnit)
        /\ <<Crlf>> \o <<>> \in Seq(AnyUnit) /\ <<>> \in Seq(AnyUnit)
        /\ Crlf \in AnyUnit /\ Length(BytesFrom(t)) \in AnyUnit /\ Length(0) \in AnyUnit
    <3>1. BytesFrom(t) \in Nat
      BY <1>3, <2>1, Zenon
    <3>2. Length(0) \in AnyUnit
      BY Zenon DEF AnyUnit
    <3> QED
      BY <1>4, <2>2, <3>1, <3>2, AheadIsUnits, EmptySeq, Zenon
  <2>b. Len(client.body) = t
    BY <1>2, Zenon DEF Taken
  <2>4. CASE client.at = "length" /\ t = Len(B)
    <3>1. sending = last
      BY <2>1, <2>2, <2>4, Zenon DEF Ahead, units
    <3>2. /\ pc = "last" /\ Chunking(writer)
          /\ sending = <<Length(0)>> \o (<<Crlf>> \o (<<Crlf>> \o <<>>))
      BY <1>0, <3>1, Zenon DEF last, LastChunk
    <3>3. <<Crlf>> \o (<<Crlf>> \o <<>>) \in Seq(AnyUnit)
      BY <2>a, Cons, Zenon
    <3>4. Head(sending) = Length(0) /\ sending' = <<Crlf>> \o (<<Crlf>> \o <<>>)
      BY <1>0, <2>a, <3>2, <3>3, Cons
    <3>5. Moved(client', client, "last_length_end", 0, client.body)
      BY <1>0, <1>5, <2>4, <3>4, TakesLength, Zenon
    <3>6. MayBeAt("last_length_end", t, 0)
      BY <1>1, <2>1, <2>4, <3>2, Zenon DEF MayBeAt, Positions, Chunking
    <3>7. sending' = Ahead("last_length_end", UnitsOf(B, t), BytesFrom(t), last)
      BY <3>4, Zenon DEF Ahead
    <3> QED
      BY <2>1, <2>3, <2>b, <3>5, <3>6, <3>7, Zenon
  <2>5. CASE client.at = "length" /\ t < Len(B)
    <3>1. BytesFrom(t) \in Nat \ {0}
      BY <1>3, <2>1, <2>5
    <3>2. sending = <<Length(BytesFrom(t))>> \o (<<Crlf>> \o (units \o (<<Crlf>> \o last)))
      <4>1. units # <<>>
        BY <1>3, <2>1, <2>2, <2>5
      <4> QED
        BY <2>1, <2>5, <4>1, Zenon DEF Ahead, units
    <3>3. Head(sending) = Length(BytesFrom(t)) /\ sending' = <<Crlf>> \o (units \o (<<Crlf>> \o last))
      BY <1>0, <2>a, <3>2, Cons
    <3>4. Moved(client', client, "length_end", BytesFrom(t), client.body)
      BY <1>0, <1>5, <2>5, <3>1, <3>3, TakesLength, Zenon
    <3>5. MayBeAt("length_end", t, BytesFrom(t))
      BY <1>1, <2>1, <2>5, Zenon DEF MayBeAt, Positions
    <3>6. sending' = Ahead("length_end", UnitsOf(B, t), BytesFrom(t), last)
      BY <3>3, Zenon DEF Ahead, units
    <3> QED
      BY <2>1, <2>3, <2>b, <3>4, <3>5, <3>6, Zenon
  <2>6. CASE client.at = "length_end"
    <3>1. sending = <<Crlf>> \o (units \o (<<Crlf>> \o last))
      BY <2>1, <2>6, Zenon DEF Ahead, units
    <3>2. Head(sending) = Crlf /\ sending' = (units \o (<<Crlf>> \o last))
      <4> DEFINE rest == units \o (<<Crlf>> \o last)
      <4>1. rest \in Seq(AnyUnit) /\ sending = <<Crlf>> \o rest /\ Crlf \in AnyUnit
        BY <1>4, <2>a, <3>1, Zenon
      <4> HIDE DEF rest
      <4>2. Head(sending) = Crlf /\ Tail(sending) = rest
        BY <4>1, Cons, Zenon
      <4> QED
        BY <1>0, <4>2, Zenon DEF rest
    <3>3. Moved(client', client, "chunk", client.left, client.body)
      BY <1>0, <1>5, <2>6, <3>2, TakesCrlf, Zenon
    <3>4. MayBeAt("chunk", t, client.left)
      BY <1>1, <2>1, <2>6, Zenon DEF MayBeAt, Positions
    <3>5. sending' = Ahead("chunk", UnitsOf(B, t), BytesFrom(t), last)
      BY <2>1, <2>2, <2>6, <3>2, Zenon DEF Ahead, units
    <3> QED
      BY <2>1, <2>3, <2>b, <3>3, <3>4, <3>5, Zenon
  <2>7. CASE client.at = "chunk_end"
    <3>1. sending = <<Crlf>> \o last
      BY <2>1, <2>7, Zenon DEF Ahead, units
    <3>2. Head(sending) = Crlf /\ sending' = last
      BY <1>0, <1>4, <2>a, <3>1, Cons, Zenon
    <3>3. Moved(client', client, "length", client.left, client.body)
      BY <1>0, <1>5, <2>7, <3>2, TakesCrlf, Zenon
    <3>4. MayBeAt("length", t, client.left)
      BY <1>1, <2>1, <2>7, Zenon DEF MayBeAt, Positions
    <3>5. sending' = Ahead("length", UnitsOf(B, t), BytesFrom(t), last)
      BY <1>1, <2>1, <2>2, <2>7, <3>2, Zenon DEF Ahead, units, MayBeAt
    <3> QED
      BY <2>1, <2>3, <2>b, <3>3, <3>4, <3>5, Zenon
  <2>8. CASE client.at = "last_length_end"
    <3>1. sending = <<Crlf>> \o (<<Crlf>> \o <<>>)
      BY <2>1, <2>8, Zenon DEF Ahead, units
    <3>2. Head(sending) = Crlf /\ sending' = (<<Crlf>> \o <<>>)
      BY <1>0, <1>4, <2>a, <3>1, Cons, Zenon
    <3>3. Moved(client', client, "trailer", client.left, client.body)
      BY <1>0, <1>5, <2>8, <3>2, TakesCrlf, Zenon
    <3>4. MayBeAt("trailer", t, client.left)
      BY <1>1, <2>1, <2>8, Zenon DEF MayBeAt, Positions
    <3>5. sending' = Ahead("trailer", UnitsOf(B, t), BytesFrom(t), last)
      BY <2>1, <2>2, <2>8, <3>2, Zenon DEF Ahead, units
    <3> QED
      BY <2>1, <2>3, <2>b, <3>3, <3>4, <3>5, Zenon
  <2>9. CASE client.at = "trailer"
    <3>1. sending = <<Crlf>> \o <<>>
      BY <2>1, <2>9, Zenon DEF Ahead, units
    <3>2. Head(sending) = Crlf /\ sending' = <<>>
      BY <1>0, <1>4, <2>a, <3>1, Cons, Zenon
    <3>3. Moved(client', client, "done", client.left, client.body)
      BY <1>0, <1>5, <2>9, <3>2, TakesCrlf, Zenon
    <3>4. MayBeAt("done", t, client.left)
      BY <1>1, <2>1, <2>9, Zenon DEF MayBeAt, Positions
    <3>5. sending' = Ahead("done", UnitsOf(B, t), BytesFrom(t), last)
      BY <2>1, <2>2, <2>9, <3>2, Zenon DEF Ahead, units
    <3> QED
      BY <2>1, <2>3, <2>b, <3>3, <3>4, <3>5, Zenon
  <2>10. CASE client.at \in {"chunk", "fixed", "until_close"}
    <3> DEFINE end == IF client.at = "chunk" THEN <<Crlf>> \o last ELSE <<>>
               p == B[t + 1]
               rest == UnitsOf(B, t + 1)
    <3>1. end \in Seq(AnyUnit) /\ sending = units \o end
      <4>1. <<Crlf>> \o last \in Seq(AnyUnit)
        BY <1>4, <2>a, Cons, Zenon
      <4>2. units \o <<>> = units
        BY <2>a, ConcatEmptySeq, Zenon
      <4>3. sending = IF client.at = "chunk" THEN units \o (<<Crlf>> \o last) ELSE units
        BY <2>1, <2>10, Zenon DEF Ahead, units
      <4> QED
        BY <2>a, <4>1, <4>2, <4>3, Zenon
    <3>2. t < Len(B)
      <4>1. CASE client.at = "until_close"
        <5>1. units # <<>>
          BY <1>0, <2>1, <4>1, Zenon DEF Ahead, units
        <5> QED
          BY <1>3, <2>1, <2>2, <5>1 DEF units
      <4> QED
        BY <1>1, <2>1, <2>10, <4>1, Zenon DEF MayBeAt
    <3>3. /\ p \in Nat \X Nat /\ rest \in Seq(AnyContent)
          /\ units = <<Content(p)>> \o rest
      BY <2>2, <3>2, Zenon DEF units
    <3> HIDE DEF p, rest, end
    <3>4. Content(p) \in AnyUnit /\ rest \in Seq(AnyUnit) /\ <<Content(p)>> \in Seq(AnyUnit)
      <4>1. Content(p) \in AnyUnit
        BY <3>3, Zenon DEF AnyUnit, AnyContent
      <4> QED
        BY <3>3, <4>1, SeqMonotonic DEF AnyUnit
    <3>5. sending = <<Content(p)>> \o (rest \o end) /\ rest \o end \in Seq(AnyUnit)
      BY <3>1, <3>3, <3>4, ConcatAssociative, ConcatProperties
    <3>6. Head(sending) = Content(p) /\ sending' = rest \o end
      BY <1>0, <3>4, <3>5, Cons
    <3> DEFINE size == p[2] - p[1]
               at == IF client.at = "until_close" \/ size < client.left THEN client.at
                     ELSE IF client.at = "fixed" THEN "done" ELSE "chunk_end"
               left == IF client.at = "until_close" THEN client.left ELSE client.left - size
    <3>7. /\ p[1] < p[2] /\ size = BytesFrom(t) - BytesFrom(t + 1)
          /\ BytesFrom(t) \in Nat /\ BytesFrom(t + 1) \in Nat
          /\ BytesFrom(t + 1) = 0 <=> t + 1 = Len(B)
          /\ t + 1 \in 0..Len(B)
      <4>1. Len(B) \in Nat
        BY <1>3, Zenon
      <4>2. t + 1 \in 0..Len(B)
        BY <2>1, <3>2, <4>1
      <4> QED
        BY <1>3, <2>1, <3>2, <4>2, Zenon DEF p
    <3>8. client.at # "until_close" => client.left = BytesFrom(t)
      BY <1>1, <2>1, <2>10, Zenon DEF MayBeAt
    <3>9. Moved(client', client, at, left, Append(client.body, p))
      <4>1. /\ p[1] <= p[2]
            /\ \/ client.at = "until_close"
               \/ client.at \in {"fixed", "chunk"} /\ p[2] - p[1] <= client.left
        <5>1. p[1] \in Nat /\ p[2] \in Nat
          BY <3>3, Zenon
        <5> QED
          BY <2>10, <3>7, <3>8, <5>1
      <4> QED
        BY <1>0, <1>5, <3>3, <3>6, <4>1, TakesContent, Zenon
    <3>10. Append(client.body, p) = SubSeq(B, 1, t + 1) /\ Len(SubSeq(B, 1, t + 1)) = t + 1
      BY <1>3, <1>5, <2>1, <3>2, NextPiece, Zenon DEF p
    <3>11. /\ at = IF client.at = "until_close" \/ t + 1 < Len(B) THEN client.at
                   ELSE IF client.at = "fixed" THEN "done" ELSE "chunk_end"
           /\ client.at # "until_close" => left = BytesFrom(t + 1)
      <4> HIDE DEF size
      <4>1. t + 1 < Len(B) <=> BytesFrom(t + 1) # 0
        BY <1>3, <2>1, <3>2, <3>7
      <4>2. client.at # "until_close" =>
              (size < client.left <=> BytesFrom(t + 1) # 0) /\ client.left - size = BytesFrom(t + 1)
        BY <3>7, <3>8
      <4> QED
        BY <4>1, <4>2, Zenon
    <3> HIDE DEF at, left
    <3>12. MayBeAt(at, t + 1, left)
      <4>1. MayBeAt(client.at, t, client.left)
        BY <2>1, Zenon
      <4>2. client.at = "fixed" => pc = "last"
        BY <1>0, <4>1, Zenon DEF MayBeAt, StageInv
      <4> QED
        <5>1. pc \in {"chunk", "last"} /\ Len(Body) \in Nat /\ t \in Nat /\ t < Len(Body)
          BY <1>0, <1>1, <1>3, <2>1, <3>2
        <5>2. /\ at = IF client.at = "until_close" \/ t + 1 < Len(Body) THEN client.at
                      ELSE IF client.at = "fixed" THEN "done" ELSE "chunk_end"
              /\ client.at # "until_close" => left = BytesFrom(t + 1)
              /\ client.at \in {"chunk", "fixed", "until_close"}
          BY <1>1, <2>10, <3>11, Zenon
        <5> QED
          BY <4>1, <4>2, <5>1, <5>2, GoesOn, Zenon
    <3>13. sending' = Ahead(at, UnitsOf(B, t + 1), BytesFrom(t + 1), last)
      <4>1. t + 1 = Len(B) => rest = <<>>
        <5>1. t + 1 \in Nat /\ t + 1 <= Len(B)
          BY <1>3, <2>1, <3>2
        <5> QED
          BY <1>3, <5>1, UnitsOfPieces, Zenon DEF rest
      <4>2. rest \o <<>> = rest /\ <<>> \o end = end
        BY <3>1, <3>4, ConcatEmptySeq, Zenon
      <4>3. CASE client.at = "chunk"
        <5>1. end = <<Crlf>> \o last
          BY <4>3, Zenon DEF end
        <5>2. CASE t + 1 < Len(B)
          BY <3>6, <3>11, <4>3, <5>1, <5>2, Zenon DEF Ahead, rest
        <5>3. CASE t + 1 = Len(B)
          <6>1. at = "chunk_end"
            BY <1>3, <3>11, <4>3, <5>3
          <6>2. sending' = end
            BY <3>6, <4>1, <4>2, <5>3, Zenon
          <6> QED
            BY <5>1, <6>1, <6>2, Zenon DEF Ahead
        <5> QED
          BY <1>3, <3>7, <5>2, <5>3
      <4>4. CASE client.at # "chunk"
        <5>1. sending' = rest
          BY <3>6, <4>2, <4>4, Zenon DEF end
        <5>2. CASE at = "done"
          <6>1. t + 1 = Len(B)
            BY <1>3, <2>10, <3>7, <3>11, <5>2
          <6> QED
            BY <4>1, <5>1, <5>2, <6>1, Zenon DEF Ahead
        <5>3. CASE at # "done"
          <6>1. at \in {"fixed", "until_close"}
            BY <2>10, <3>11, <4>4, <5>3, Zenon
          <6> QED
            BY <5>1, <6>1, Zenon DEF Ahead, rest
        <5> QED
          BY <5>2, <5>3, Zenon
      <4> QED
        BY <4>3, <4>4, Zenon
    <3> QED
      BY <2>3, <3>9, <3>10, <3>12, <3>13, Zenon
  <2>11. client.at # "done"
    BY <1>0, <2>1, Zenon DEF Ahead
  <2> QED
    BY <1>3, <1>7, <2>1, <2>4, <2>5, <2>6, <2>7, <2>8, <2>9, <2>10, <2>11 DEF MayBeAt, Positions
<1> QED
  BY <1>6, <1>7, Zenon
=============================================================================
