--------------------------- MODULE ResponseWriter ---------------------------
(***************************************************************************)
(* http_response_writer: how a response is framed and sent, from the       *)
(* moment a request handler gets the writer to the moment the connection   *)
(* is finished.  The handler is the writer's user: it keeps to the         *)
(* comments of http_response_writer.hpp and is free otherwise.  The client *)
(* is the reference: it decodes what arrives the way its version of HTTP   *)
(* frames a message, and the properties compare what it decodes with what  *)
(* the handler wrote and set.                                              *)
(*                                                                         *)
(* What is written is a sequence of pieces, each the place of its first    *)
(* byte and of the one after its last among the bytes written.  What is    *)
(* sent is a sequence of units: a header block, the length of a chunk, a   *)
(* CRLF, or a piece of content.                                            *)
(***************************************************************************)
EXTENDS HttpResponse, Functions

CONSTANTS
  Requests,   \* the requests answered: method and version
  PieceSizes, \* the lengths of the pieces a handler writes, 0 included
  MaxPieces,  \* bound on the pieces written for a response
  MaxChunks,  \* bound on the calls of send_chunk for a response
  MaxEdits,   \* bound on the calls that change the response itself
  Liberties   \* what a handler may do beyond the rules

(* "head_in_chunks": answer a HEAD request, or with a status that has no     *)
(*                   body, in chunks;                                      *)
(* "override":       send in chunks after supports_chunked_messages(b) with  *)
(*                   another value than the response has;                  *)
(* "bare_final":     call send_final_chunk without send_chunk where the      *)
(*                   client does not support chunks;                       *)
(* "own_length":     give a length of its own, or none, where the client     *)
(*                   relies on it;                                         *)
(* "cookies":        put cookies into the message's dictionary of them.      *)

ASSUME InputsAssumption ==
  /\ Requests \subseteq [method : {"GET", "HEAD"}, major : Nat, minor : Nat]
  /\ PieceSizes \subseteq Nat
  /\ {MaxPieces, MaxChunks, MaxEdits} \subseteq Nat
  /\ Liberties \subseteq {"head_in_chunks", "override", "bare_final", "own_length", "cookies"}

VARIABLES
  request,   \* the request being answered
  lifecycle, \* tcp_connection::lifecycle_m: "close", or not
  is_open,   \* is the connection's socket open?
  broken,    \* has a write on the connection failed?
  response,  \* the http_response of the writer
  writer,    \* the other fields of the http_response_writer
  pc,        \* "user": the handler holds the writer; "chunk", "last": a write
             \* is outstanding that calls the user's handler, handle_write;
             \* "finished": finish() was called
  sending,   \* the units of the outstanding write that have not arrived
  written,   \* the pieces, none of them empty, the handler wrote
  chunks,    \* the calls of send_chunk for this response
  edits,     \* the calls that changed the response
  jar,       \* the cookies the handler gave the response
  finishes,  \* the calls of finish() for this response
  client     \* where the client is in the response

vars == <<request, lifecycle, is_open, broken, response, writer, pc, sending, written,
          chunks, edits, jar, finishes, client>>

-----------------------------------------------------------------------------
(* The client.                                                             *)

\* Does the client of request r understand a chunked body?
UnderstandsChunks(r) == r.major > 1 \/ (r.major = 1 /\ r.minor >= 1)

\* Where the header block u of a response to r takes the client: one to HEAD, or
\* with the status No Content, has no body; else the headers say where it ends.
AfterHead(r, u) ==
  IF r.method = "HEAD" \/ u.line[2] = 204 THEN "done"
  ELSE IF u.headers["Transfer-Encoding"] # <<>>
       THEN IF UnderstandsChunks(r) THEN "length" ELSE "lost"
  ELSE IF u.headers["Content-Length"] = <<>> THEN "until_close"
  ELSE IF Len(u.headers["Content-Length"]) > 1 THEN "lost"
  ELSE IF u.headers["Content-Length"] = <<0>> THEN "done" ELSE "fixed"

\* The client takes the header block.
TakesHead(c, u) ==
  LET next == AfterHead(c.request, u)
  IN  [c EXCEPT !.at = next, !.head = u,
                !.left = IF next = "fixed" THEN u.headers["Content-Length"][1] ELSE 0]

\* Where a CRLF takes the client, by where it is.
AfterCrlf == [length_end |-> "chunk", chunk_end |-> "length",
              last_length_end |-> "trailer", trailer |-> "done"]

\* Where the last byte of a piece of known length takes it.
AfterContent == [fixed |-> "done", chunk |-> "chunk_end"]

PieceSize(p) == p[2] - p[1]

\* The client takes one unit; one that has no place where it is loses it.
ClientTakes(c, u) ==
  CASE c.at = "head" /\ u.unit = "head" ->
         TakesHead(c, u)
    [] c.at = "length" /\ u.unit = "length" ->
         [c EXCEPT !.at = IF u.length = 0 THEN "last_length_end" ELSE "length_end",
                   !.left = u.length]
    [] c.at \in DOMAIN AfterCrlf /\ u.unit = "crlf" ->
         [c EXCEPT !.at = AfterCrlf[c.at]]
    [] c.at = "until_close" /\ u.unit = "content" ->
         [c EXCEPT !.body = Append(@, u.piece)]
    [] c.at \in DOMAIN AfterContent /\ u.unit = "content" /\ PieceSize(u.piece) <= c.left ->
         [c EXCEPT !.at = IF PieceSize(u.piece) = c.left THEN AfterContent[@] ELSE @,
                   !.left = @ - PieceSize(u.piece), !.body = Append(@, u.piece)]
    [] OTHER -> [c EXCEPT !.at = "lost"]

NoHead == [unit |-> "none"]

\* The client has sent request r and waits for the response to it: a header
\* block, or, to the simple request of HTTP 0.9, content and nothing else.  Bytes
\* that a response has left over, or that it still waits for, it cannot tell
\* from the next response.
Expecting(c, r) ==
  [request |-> r,
   at |-> IF c.at # "done" THEN "lost" ELSE IF r.major = 0 THEN "until_close" ELSE "head",
   left |-> 0, head |-> NoHead, body |-> <<>>]

-----------------------------------------------------------------------------
(* The writer.                                                             *)

\* http_message::check_keep_alive, for a request with no Connection header.
KeepAlive(r) == r.major > 1 \/ (r.major >= 1 /\ r.minor >= 1)

NewWriter(r) ==
  [content |-> <<>>, content_length |-> 0, client_supports_chunks |-> ChunksSupported(r),
   sending_chunks |-> FALSE, sent_headers |-> FALSE]

\* clear()
Cleared(w) == [w EXCEPT !.content = <<>>, !.content_length = 0]

\* http_response::is_body_allowed
BodyAllowed == request.method # "HEAD"

\* prepare_buffers_for_send: the response as it is left, for the writer w.
Prepared(w, keep) ==
  PrepareBuffersForSend(
    IF w.content_length > 0 THEN SetContentLength(response, w.content_length) ELSE response,
    keep, w.sending_chunks)

Length(n) == [unit |-> "length", length |-> n]
Crlf == [unit |-> "crlf"]
Contents(w) == [i \in DOMAIN w.content |-> [unit |-> "content", piece |-> w.content[i]]]

Chunking(w) == w.client_supports_chunks /\ w.sending_chunks

\* prepare_write_buffers that sends an empty chunk where there is no content,
\* which ends the body.
PrepareWriteBuffersEmptyChunk(w, keep, final) ==
  (IF w.sent_headers THEN <<>> ELSE <<HeaderBlock(Prepared(w, keep))>>)
  \o (IF Chunking(w) THEN <<Length(w.content_length), Crlf>> \o Contents(w) \o <<Crlf>>
      ELSE Contents(w))
  \o (IF final /\ Chunking(w) THEN <<Length(0), Crlf, Crlf>> ELSE <<>>)

\* prepare_write_buffers: the headers once, the content as a chunk or as it
\* is, and the zero-byte chunk at the end.
PrepareWriteBuffers(w, keep, final) ==
  (IF w.sent_headers THEN <<>> ELSE <<HeaderBlock(Prepared(w, keep))>>)
  \o (IF w.content_length = 0 THEN <<>>
      ELSE IF Chunking(w) THEN <<Length(w.content_length), Crlf>> \o Contents(w) \o <<Crlf>>
      ELSE Contents(w))
  \o (IF final /\ Chunking(w) THEN <<Length(0), Crlf, Crlf>> ELSE <<>>)

\* tcp_connection::finish(): the connection goes back to the server.
Finish(n) ==
  /\ finishes' = finishes + n
  /\ pc' = "finished"

\* send_more_data(final, handler), called on the writer w when the lifecycle is
\* cycle; the outstanding write calls handler.
SendMoreData(w, cycle, final, handler) ==
  IF is_open
  THEN /\ sending' = PrepareWriteBuffers(w, cycle # "close", final)
       /\ response' = IF w.sent_headers THEN response ELSE Prepared(w, cycle # "close")
       /\ writer' = [w EXCEPT !.sent_headers = TRUE]
       /\ pc' = handler
       /\ UNCHANGED finishes
  ELSE /\ Finish(1)
       /\ writer' = w
       /\ UNCHANGED <<response, sending>>

-----------------------------------------------------------------------------
Init ==
  /\ request \in Requests
  /\ lifecycle = IF KeepAlive(request) THEN "keepalive" ELSE "close"
  /\ is_open = TRUE
  /\ broken = FALSE
  /\ response = NewResponse(request)
  /\ writer = NewWriter(request)
  /\ pc = "user"
  /\ sending = <<>>
  /\ written = <<>>
  /\ chunks = 0
  /\ edits = 0
  /\ jar = <<>>
  /\ finishes = 0
  /\ client = Expecting([at |-> "done"], request)

\* The bytes in the first i pieces.
WrittenTo(i) == IF i = 0 THEN 0 ELSE written[i][2]

\* write() and write_nocopy(): a piece of n bytes; what is not allowed or empty
\* is ignored.  The handler writes no content for the status No Content.
Write(n) ==
  /\ pc = "user"
  /\ response.status_code # 204
  /\ Len(written) < MaxPieces
  /\ LET from == WrittenTo(Len(written))
         piece == <<from, from + n>>
     IN  /\ written' = IF n > 0 THEN Append(written, piece) ELSE written
         /\ writer' = IF BodyAllowed /\ n > 0
                      THEN [writer EXCEPT !.content = Append(@, piece), !.content_length = @ + n]
                      ELSE writer
  /\ UNCHANGED <<request, lifecycle, is_open, broken, response, pc, sending, chunks, edits,
                 jar, finishes, client>>

\* The handler has set a Content-Length header itself.
OwnLength == response.headers["Content-Length"] # <<>>

\* A change of the response other than its cookies.  prepare_headers_for_send
\* puts its own Connection and Content-Length in the place of the handler's;
\* where it does not, the handler leaves them alone.
EditHead ==
  \/ response' = GetFirstLine(response)
  \/ /\ written = <<>>
     /\ response' = SetStatusCode(response, 204)
  \/ response' = SetStatusMessage(response, "Made")
  \/ response' \in {AddHeader(response, "Connection", "close"),
                    ChangeHeader(response, "Connection", "close"),
                    DeleteHeader(response, "Connection")}
  \/ /\ response.do_not_send_content_length => "own_length" \in Liberties
     /\ response' = AddHeader(response, "Content-Length", 1)
  \/ /\ BodyAllowed => "own_length" \in Liberties
     /\ response' = SetContentLength(response, 1)
  \/ /\ OwnLength \/ (BodyAllowed /\ lifecycle # "close") => "own_length" \in Liberties
     /\ response' = DoNotSendContentLength(response)

\* The handler gives the response a cookie, or takes one from the client.
GiveCookie(cookie) ==
  /\ jar' = Append(jar, cookie)
  /\ \/ response' = SetCookie(response, cookie)
     \/ /\ "cookies" \in Liberties
        /\ response' = AddCookie(response, cookie)

\* The handler changes the response through get_response(), before it is sent.
EditResponse ==
  /\ pc = "user"
  /\ ~writer.sent_headers
  /\ edits < MaxEdits
  /\ edits' = edits + 1
  /\ \/ EditHead /\ UNCHANGED jar
     \/ \E cookie \in {"set", "deleted"} : GiveCookie(cookie)
  /\ UNCHANGED <<request, lifecycle, is_open, broken, writer, pc, sending, written, chunks,
                 finishes, client>>

\* supports_chunked_messages(b)
Override(b) ==
  /\ pc = "user"
  /\ ~writer.sent_headers
  /\ writer' = [writer EXCEPT !.client_supports_chunks = b]
  /\ UNCHANGED <<request, lifecycle, is_open, broken, response, pc, sending, written, chunks,
                 edits, jar, finishes, client>>

\* send(): the whole response, not in chunks.
Send ==
  /\ pc = "user"
  /\ chunks = 0
  /\ SendMoreData(writer, lifecycle, FALSE, "last")
  /\ UNCHANGED <<request, lifecycle, is_open, broken, written, chunks, edits, jar, client>>

\* When the handler may send in chunks.
MayChunk ==
  /\ ~BodyAllowed \/ response.status_code = 204 => "head_in_chunks" \in Liberties
  /\ OwnLength /\ ~writer.client_supports_chunks => "own_length" \in Liberties
  /\ writer.client_supports_chunks # ChunksSupported(request) => "override" \in Liberties

\* The lifecycle that send_chunk leaves: a client that does not support chunks
\* has the connection closed when all is done.
ChunkLifecycle(w) == IF w.client_supports_chunks THEN lifecycle ELSE "close"

\* send_chunk whose own test of the connection does not keep it from going on
\* to send_more_data.
SendChunkFinishesTwice ==
  /\ pc = "user"
  /\ MayChunk
  /\ chunks < MaxChunks
  /\ chunks' = chunks + 1
  /\ lifecycle' = ChunkLifecycle(writer)
  /\ LET w == [writer EXCEPT !.sending_chunks = TRUE] IN
       IF is_open
       THEN SendMoreData(w, lifecycle', FALSE, "chunk")
       ELSE Finish(2) /\ writer' = w /\ UNCHANGED <<response, sending>>
  /\ UNCHANGED <<request, is_open, broken, written, edits, jar, client>>

\* send_chunk(handler)
SendChunk ==
  /\ pc = "user"
  /\ MayChunk
  /\ chunks < MaxChunks
  /\ chunks' = chunks + 1
  /\ lifecycle' = ChunkLifecycle(writer)
  /\ LET w == [writer EXCEPT !.sending_chunks = TRUE] IN
       IF is_open
       THEN SendMoreData(w, lifecycle', FALSE, "chunk")
       ELSE Finish(1) /\ writer' = w /\ UNCHANGED <<response, sending>>
  /\ UNCHANGED <<request, is_open, broken, written, edits, jar, client>>

\* send_final_chunk()
SendFinalChunk ==
  /\ pc = "user"
  /\ MayChunk
  /\ chunks = 0 /\ ~writer.client_supports_chunks => "bare_final" \in Liberties
  /\ SendMoreData([writer EXCEPT !.sending_chunks = TRUE], lifecycle, TRUE, "last")
  /\ UNCHANGED <<request, lifecycle, is_open, broken, written, chunks, edits, jar, client>>

\* The next unit of the outstanding write arrives at the client.
Arrive ==
  /\ ~broken
  /\ sending # <<>>
  /\ client' = ClientTakes(client, Head(sending))
  /\ sending' = Tail(sending)
  /\ UNCHANGED <<request, lifecycle, is_open, broken, response, writer, pc, written, chunks,
                 edits, jar, finishes>>

\* The outstanding write ends: the client has all of it, or the connection is
\* broken, with a part of it underway; a write on a broken connection fails
\* again.
WriteEnds(ok) ==
  /\ ok => ~broken /\ sending = <<>>
  /\ broken' = ~ok
  /\ sending' = <<>>

\* The user's handler of send_chunk runs, after a failure too, and begins by
\* clearing the writer.
HandleChunk(ok) ==
  /\ pc = "chunk"
  /\ WriteEnds(ok)
  /\ writer' = Cleared(writer)
  /\ pc' = "user"
  /\ UNCHANGED <<request, lifecycle, is_open, response, written, chunks, edits, jar,
                 finishes, client>>

\* handle_write that finishes the connection only when the write succeeded.
HandleWriteOnSuccess(ok) ==
  /\ pc = "last"
  /\ WriteEnds(ok)
  /\ IF ok THEN Finish(1) ELSE UNCHANGED <<finishes, pc>>
  /\ UNCHANGED <<request, lifecycle, is_open, response, writer, written, chunks, edits, jar,
                 client>>

\* handle_write: the response is sent, or could not be.
HandleWrite(ok) ==
  /\ pc = "last"
  /\ WriteEnds(ok)
  /\ Finish(1)
  /\ UNCHANGED <<request, lifecycle, is_open, response, writer, written, chunks, edits, jar,
                 client>>

\* The connection is closed under the writer: by stop(), or by the server's
\* own end of the connection.
Lose ==
  /\ is_open
  /\ pc # "finished"
  /\ is_open' = FALSE
  /\ UNCHANGED <<request, lifecycle, broken, response, writer, pc, sending, written, chunks,
                 edits, jar, finishes, client>>

\* A finished connection that is kept alive brings the next request and a new
\* writer.
NextRequest(r) ==
  /\ pc = "finished"
  /\ is_open /\ ~broken
  /\ lifecycle = "keepalive"
  /\ request' = r
  /\ lifecycle' = IF KeepAlive(r) THEN "keepalive" ELSE "close"
  /\ response' = NewResponse(r)
  /\ writer' = NewWriter(r)
  /\ pc' = "user"
  /\ written' = <<>>
  /\ chunks' = 0
  /\ edits' = 0
  /\ jar' = <<>>
  /\ finishes' = 0
  /\ client' = Expecting(client, r)
  /\ UNCHANGED <<is_open, broken, sending>>

User ==
  \/ \E n \in PieceSizes : Write(n)
  \/ EditResponse
  \/ \E b \in BOOLEAN : Override(b)
  \/ Send
  \/ SendChunk
  \/ SendFinalChunk

Complete == \E ok \in BOOLEAN : HandleChunk(ok) \/ HandleWrite(ok)

Next ==
  \/ User
  \/ Arrive
  \/ Complete
  \/ Lose
  \/ \E r \in Requests : NextRequest(r)

Spec == Init /\ [][Next]_vars

\* The io_service completes every write, with an error where it must, and a
\* handler ends its response, as the comment of send_chunk asks of it.
FairSpec ==
  /\ Spec
  /\ WF_vars(Send \/ SendChunk \/ SendFinalChunk)
  /\ WF_vars(Complete)

-----------------------------------------------------------------------------
TypeOK ==
  /\ request \in Requests
  /\ lifecycle \in {"close", "keepalive"}
  /\ {is_open, broken} \subseteq BOOLEAN
  /\ pc \in {"user", "chunk", "last", "finished"}
  /\ DOMAIN writer = DOMAIN NewWriter(request)
  /\ chunks \in 0..MaxChunks
  /\ edits \in 0..MaxEdits
  /\ DOMAIN response = DOMAIN NewResponse(request)

\* The bytes that a response on this connection has to carry.
Body == IF BodyAllowed THEN written ELSE <<>>

Delivered == pc = "finished" /\ is_open /\ ~broken

\* When a response to a request of HTTP/1.0 or later has been sent, the client
\* has decoded exactly the pieces that the handler passed to write(), in order,
\* whatever mix of send_chunk, send_final_chunk and send it used, and knows that
\* the response has ended: from its framing, or because the connection is closed
\* after it.  A simple request of HTTP 0.9 is not answered as its client expects:
\* see SimpleResponse.
ResponseDecodable ==
  Delivered /\ request.major # 0 =>
    /\ client.body = Body
    /\ \/ client.at = "done"
       \/ client.at = "until_close" /\ lifecycle = "close"

\* "the request is likely HTTP 0.9 "simple-request", so expect the response to
\* contain no header and no version info" (http_response.hpp:123).  The code
\* violates it: prepare_buffers_for_send sends the first line and the headers to
\* every client.
SimpleResponse ==
  Delivered /\ request.major = 0 => client.at = "until_close" /\ client.body = Body

\* The header block tells a client of HTTP/1.0 or later what becomes of the
\* connection (the change of the lifecycle by send_chunk comes before it, and a
\* Connection header of the handler does not go out beside it), the status that
\* the handler set last, also after a look at the first line, and each of the
\* cookies that set_cookie and delete_cookie gave the response, and no other.
HeaderKeepsWord ==
  Delivered /\ request.major # 0 =>
    /\ "close" \in Range(client.head.headers["Connection"]) <=> lifecycle = "close"
    /\ client.head.line = UpdatedFirstLine(response)
    /\ Range(client.head.headers["Set-Cookie"]) = Range(jar)

\* However a response ends (sent, failed, or found closed at any of the tests of
\* is_open), finish() is called once for it: a second call would give the
\* connection to two readers.
FinishedOnce ==
  finishes = IF pc = "finished" THEN 1 ELSE 0

\* A response whose handler keeps to the rules gives the connection back, also
\* when a write fails or the connection is closed under it.
ResponseFinishes ==
  pc # "finished" ~> pc = "finished"
=============================================================================
