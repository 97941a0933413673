------------------------------ MODULE MCHttpBody ------------------------------
(***************************************************************************)
(* The messages a client sends, for TLC.                                   *)
(***************************************************************************)
EXTENDS HttpBody, SequencesExt

CRLF == <<<<"cr">>, <<"lf">>>>

Request(framing, length, wire, payload) ==
  [framing |-> framing, length |-> length, keep |-> TRUE, handler |-> TRUE,
   wire |-> wire, payload |-> payload, chunks |-> {}]

Plain == Request("none", 0, <<>>, <<>>)
WithLength(body) == Request("length", Len(body), body, body)

\* The digits of a size below Base^2.
Hex(n) == IF n < Base THEN <<<<"hex", n>>>> ELSE <<<<"hex", n \div Base>>, <<"hex", n % Base>>>>

ChunkOf(body, ext) == Hex(Len(body)) \o ext \o CRLF \o body \o CRLF

\* Where a chunk of this length is when n bytes and k of the payload are before it.
ChunkAt(n, k, length, ext) ==
  LET size == n + Len(Hex(length)) IN
  [at |-> n, size |-> n, ext |-> size, crlf |-> size + Len(ext), paid |-> k, length |-> length]

\* Chunks with the same extension, and what comes before the last CR LF.
Chunked(bodies, ext, footers) ==
  LET wires == [i \in DOMAIN bodies |-> ChunkOf(bodies[i], ext)]
      all == Append(bodies, <<>>)
  IN  [Request("chunked", 0,
               FlattenSeq(wires) \o Hex(0) \o ext \o CRLF \o footers \o CRLF,
               FlattenSeq(bodies))
       EXCEPT !.chunks = {ChunkAt(Len(FlattenSeq(SubSeq(wires, 1, i - 1))),
                                  Len(FlattenSeq(SubSeq(bodies, 1, i - 1))),
                                  Len(all[i]), ext) : i \in DOMAIN all}]

Raw(wire, payload) == Request("chunked", 0, wire, payload)

X == <<<<"x">>>>
SP == <<<<"sp">>>>
Ext == <<<<";">>, <<"x">>>>

\* A body that looks like the last chunk of a message.
Tricky == <<<<"hex", 0>>>> \o CRLF

Ordinary ==
  {Plain, [Plain EXCEPT !.keep = FALSE], [Plain EXCEPT !.handler = FALSE],
   WithLength(<<>>), WithLength(Tricky),
   [WithLength(X) EXCEPT !.wire = X \o CRLF],
   Chunked(<<Tricky>>, <<>>, <<>>), Chunked(<<X, CRLF>>, Ext, <<>>),
   Chunked(<<X>>, SP \o SP, <<>>), [Raw(SP \o Hex(0) \o CRLF \o CRLF, <<>>)
      EXCEPT !.chunks = {[ChunkAt(1, 0, 0, <<>>) EXCEPT !.at = 0]}]}

\* Bytes that the parser leaves in the stream, on connections that are closed
\* after the request: footers, a body without a payload handler.
Closing ==
  {[Chunked(<<X>>, <<>>, X) EXCEPT !.keep = FALSE],
   [WithLength(X) EXCEPT !.keep = FALSE, !.handler = FALSE]}

Refused == {Request("bad", 0, <<>>, <<>>), Request("malformed", 0, <<>>, <<>>)}

\* These messages are what the theorems about HttpBody assume.
ASSUME MessagesAreWellFormed == \A m \in Ordinary \cup Closing \cup Refused : WellFormed(m)

\* Bodies that the parser refuses, at their sizes or their ends.
Malformed ==
  {Raw(X, <<>>), Raw(Hex(1) \o X, <<>>), Raw(Hex(1) \o SP \o X, <<>>),
   Raw(Hex(1) \o <<<<"cr">>>> \o X, <<>>), Raw(Hex(1) \o CRLF \o X \o X, X),
   Raw(Hex(1) \o CRLF \o X \o <<<<"cr">>>> \o X, X),
   Raw(Hex(0) \o CRLF \o <<<<"cr">>>> \o X, <<>>)}

Served == Ordinary \cup Closing \cup Refused \cup Malformed

\* A body for a resource without a payload handler.
Ignored == {[WithLength(X) EXCEPT !.handler = FALSE], Plain}
=============================================================================
