------------------------ MODULE ResponseStreamProofs ------------------------
(***************************************************************************)
(* What a response looks like to the client, continued: every step of the  *)
(* handler, of the writer and of the connection keeps DecodeInv, and the    *)
(* properties that follow from it.                                         *)
(***************************************************************************)
EXTENDS ResponseWriterProofs

LEMMA Three ==
  ASSUME NEW S, NEW a \in S, NEW b \in S, NEW c \in S
  PROVE  <<a, b, c>> = <<a>> \o (<<b>> \o (<<c>> \o <<>>))
<1> DEFINE z == <<c>> \o <<>>
           y == <<b>> \o z
           x == <<a>> \o y
           s == <<a, b, c>>
<1>1. /\ <<>> \in Seq(S) /\ Len(<<>>) = 0
      /\ \A e \in S : <<e>> \in Seq(S) /\ Len(<<e>>) = 1 /\ <<e>>[1] = e
  OBVIOUS
<1>2. z \in Seq(S) /\ Len(z) = 1 /\ z[1] = c
  BY <1>1, ConcatProperties
<1> HIDE DEF z
<1>3. y \in Seq(S) /\ Len(y) = 2 /\ y[1] = b /\ y[2] = c
  <2>1. <<b>> \in Seq(S) /\ Len(<<b>>) = 1 /\ <<b>>[1] = b
    BY <1>1, Zenon
  <2>2. /\ y \in Seq(S)
        /\ Len(y) = Len(<<b>>) + Len(z)
        /\ \A i \in 1..(Len(<<b>>) + Len(z)) :
             y[i] = IF i <= Len(<<b>>) THEN <<b>>[i] ELSE z[i - Len(<<b>>)]
    BY <1>2, <2>1, ConcatProperties, Zenon
  <2> QED
    BY <1>2, <2>1, <2>2
<1> HIDE DEF y
<1>4. x \in Seq(S) /\ Len(x) = 3 /\ x[1] = a /\ x[2] = b /\ x[3] = c
  <2>1. <<a>> \in Seq(S) /\ Len(<<a>>) = 1 /\ <<a>>[1] = a
    BY <1>1, Zenon
  <2>2. /\ x \in Seq(S)
        /\ Len(x) = Len(<<a>>) + Len(y)
        /\ \A i \in 1..(Len(<<a>>) + Len(y)) :
             x[i] = IF i <= Len(<<a>>) THEN <<a>>[i] ELSE y[i - Len(<<a>>)]
    BY <1>3, <2>1, ConcatProperties, Zenon
  <2> QED
    BY <1>3, <2>1, <2>2
<1> HIDE DEF x
<1>5. s \in Seq(S) /\ Len(s) = 3 /\ s[1] = a /\ s[2] = b /\ s[3] = c
  OBVIOUS
<1> HIDE DEF s
<1>6. \A i \in 1..Len(s) : s[i] = x[i]
  BY <1>4, <1>5
<1>7. s = x
  BY <1>4, <1>5, <1>6, SeqEqual, Zenon
<1> QED
  BY <1>7, Zenon DEF s, x, y, z

LEMMA Two ==
  ASSUME NEW S, NEW a \in S, NEW b \in S
  PROVE  <<a, b>> \in Seq(S) /\ <<a, b>> = <<a>> \o <<b>>
<1> DEFINE x == <<a>> \o <<b>>
           s == <<a, b>>
<1>1. \A e \in S : <<e>> \in Seq(S) /\ Len(<<e>>) = 1 /\ <<e>>[1] = e
  OBVIOUS
<1>2. x \in Seq(S) /\ Len(x) = 2 /\ x[1] = a /\ x[2] = b
  BY <1>1, ConcatProperties
<1> HIDE DEF x
<1>3. s \in Seq(S) /\ Len(s) = 2 /\ s[1] = a /\ s[2] = b
  OBVIOUS
<1> HIDE DEF s
<1>4. \A i \in 1..Len(s) : s[i] = x[i]
  BY <1>2, <1>3
<1>5. s = x
  BY <1>2, <1>3, <1>4, SeqEqual, Zenon
<1> QED
  BY <1>3, <1>5, Zenon DEF s, x

\* The writer's content, as units.
LEMMA ContentsAreUnits ==
  ASSUME NEW B \in Seq(Nat \X Nat), NEW t \in 0..Len(B), NEW w,
         w.content = SubSeq(B, t + 1, Len(B))
  PROVE  Contents(w) = UnitsOf(B, t)
<1>1. Len(B) \in Nat /\ t \in Nat /\ t + 1 \in Int /\ Len(B) \in Int
  BY LenProperties
<1>2. \A i \in (t + 1)..Len(B) : B[i] \in Nat \X Nat
  BY <1>1, ElementOfSeq
<1> DEFINE c == SubSeq(B, t + 1, Len(B))
<1>3. /\ c \in Seq(Nat \X Nat)
      /\ Len(c) = IF t + 1 <= Len(B) THEN Len(B) - (t + 1) + 1 ELSE 0
      /\ \A i \in 1..(Len(B) - (t + 1) + 1) : c[i] = B[(t + 1) + i - 1]
  BY <1>1, <1>2, SubSeqProperties
<1> HIDE DEF c
<1>4. Len(c) = Len(B) - t /\ DOMAIN c = 1..(Len(B) - t)
  BY <1>1, <1>3, LenProperties
<1>5. \A i \in 1..(Len(B) - t) : c[i] = B[t + i]
  <2> SUFFICES ASSUME NEW i \in 1..(Len(B) - t) PROVE c[i] = B[t + i]
    BY Zenon
  <2>1. i \in 1..(Len(B) - (t + 1) + 1) /\ (t + 1) + i - 1 = t + i
    BY <1>1
  <2> QED
    BY <1>3, <2>1, Zenon
<1> QED
  BY <1>4, <1>5, Zenon DEF Contents, UnitsOf, Content, c

\* Concatenation, kept as an operator of its own where only its laws matter.
Cat(p, q) == p \o q

LEMMA CatLaws ==
  ASSUME NEW S, NEW p \in Seq(S), NEW q \in Seq(S), NEW r \in Seq(S)
  PROVE  Cat(p, q) \in Seq(S) /\ Cat(Cat(p, q), r) = Cat(p, Cat(q, r))
  BY ConcatProperties, ConcatAssociative DEF Cat

Regrouped(h, a, b, u, l) ==
  (h \o (((a \o b) \o u) \o b)) \o l = h \o (a \o (b \o (u \o (b \o l))))

LEMMA Regroup ==
  ASSUME NEW S, NEW h \in Seq(S), NEW a \in Seq(S), NEW b \in Seq(S), NEW u \in Seq(S),
         NEW l \in Seq(S)
  PROVE  Regrouped(h, a, b, u, l)
<1>1. \A p, q, r \in Seq(S) : Cat(p, q) \in Seq(S) /\ Cat(Cat(p, q), r) = Cat(p, Cat(q, r))
  BY ONLY CatLaws
<1>2. /\ Cat(a, b) \in Seq(S) /\ Cat(b, l) \in Seq(S)
      /\ Cat(Cat(a, b), u) \in Seq(S) /\ Cat(u, Cat(b, l)) \in Seq(S)
      /\ Cat(Cat(Cat(a, b), u), b) \in Seq(S)
  BY <1>1, Zenon
<1>3. Cat(Cat(h, Cat(Cat(Cat(a, b), u), b)), l) = Cat(h, Cat(Cat(Cat(Cat(a, b), u), b), l))
  BY <1>1, <1>2
<1>4. Cat(Cat(Cat(Cat(a, b), u), b), l) = Cat(Cat(Cat(a, b), u), Cat(b, l))
  BY <1>1, <1>2
<1>5. Cat(Cat(Cat(a, b), u), Cat(b, l)) = Cat(Cat(a, b), Cat(u, Cat(b, l)))
  BY <1>1, <1>2
<1>6. Cat(Cat(a, b), Cat(u, Cat(b, l))) = Cat(a, Cat(b, Cat(u, Cat(b, l))))
  BY <1>1, <1>2
<1>7. Cat(Cat(h, Cat(Cat(Cat(a, b), u), b)), l) = Cat(h, Cat(a, Cat(b, Cat(u, Cat(b, l)))))
  BY <1>3, <1>4, <1>5, <1>6, Zenon
<1> QED
  BY ONLY <1>7, Zenon DEF Cat, Regrouped

Grouped(head, units, n, last) ==
  /\ (head \o (<<Length(n), Crlf>> \o units \o <<Crlf>>)) \o last
       = head \o (<<Length(n)>> \o (<<Crlf>> \o (units \o (<<Crlf>> \o last))))
  /\ (head \o <<>>) \o last = head \o last
  /\ (head \o units) \o <<>> = head \o units

\* What prepare_write_buffers puts together, in the order in which the client
\* takes it.
LEMMA ChunkAhead ==
  ASSUME NEW U, AnyUnit \subseteq U, NEW head \in Seq(U), NEW units \in Seq(AnyContent),
         NEW n \in Nat, NEW last \in Seq(AnyUnit)
  PROVE  Grouped(head, units, n, last)
<1>1. Crlf \in U /\ Length(n) \in U
  BY Zenon DEF AnyUnit
<1>2. units \in Seq(U) /\ last \in Seq(U)
  BY SeqMonotonic DEF AnyUnit
<1>3. <<>> \in Seq(U) /\ <<Crlf>> \in Seq(U) /\ <<Length(n)>> \in Seq(U)
  BY <1>1
<1>5. <<Length(n), Crlf>> = <<Length(n)>> \o <<Crlf>>
  BY <1>1, Two, Zenon
<1> DEFINE a == <<Length(n)>>
           b == <<Crlf>>
<1>6. a \in Seq(U) /\ b \in Seq(U)
  BY <1>3, Zenon
<1> HIDE DEF a, b
<1>7. head \o units \in Seq(U)
  BY <1>2, ConcatProperties, Zenon
<1>8. Regrouped(head, a, b, units, last)
  BY <1>2, <1>6, Regroup, Zenon
<1>10. \A x \in Seq(U) : x \o <<>> = x /\ <<>> \o x = x
  BY ConcatEmptySeq, Zenon
<1> QED
  BY <1>2, <1>5, <1>7, <1>8, <1>10, Zenon DEF a, b, Grouped, Regrouped

\* The units of a write by send_more_data.
BuffersAre(w, keep, final, t, head, last) ==
  PrepareWriteBuffers(w, keep, final) =
    IF Chunking(w) THEN head \o Ahead("length", UnitsOf(Body, t), BytesFrom(t), last)
    ELSE head \o UnitsOf(Body, t)

LEMMA BuffersAhead ==
  ASSUME PiecesInv, NEW w, NEW keep, NEW final, NEW t \in 0..Len(Body),
         w.content = SubSeq(Body, t + 1, Len(Body)), w.content_length = BytesFrom(t),
         NEW head, head = IF w.sent_headers THEN <<>> ELSE <<HeaderBlock(Prepared(w, keep))>>,
         NEW last, last = IF final /\ Chunking(w)
                          THEN <<Length(0)>> \o (<<Crlf>> \o (<<Crlf>> \o <<>>)) ELSE <<>>
  PROVE  BuffersAre(w, keep, final, t, head, last)
<1> DEFINE B == Body
           units == UnitsOf(B, t)
           n == BytesFrom(t)
           h == HeaderBlock(Prepared(w, keep))
<1>1. /\ B \in Seq(Nat \X Nat) /\ Len(B) \in Nat
      /\ n \in Nat /\ (n = 0 <=> t = Len(B))
  BY BytesLeft, Zenon
<1>2. Contents(w) = units
  BY <1>1, ContentsAreUnits, Zenon
<1>3. t \in Nat /\ t <= Len(B)
  BY <1>1
<1>4. units \in Seq(AnyContent) /\ (n = 0 <=> units = <<>>)
  BY <1>1, <1>3, UnitsOfPieces, Zenon
<1>5. Crlf \in AnyUnit /\ Length(0) \in AnyUnit
  BY Zenon DEF AnyUnit
<1>6. <<Length(0), Crlf, Crlf>> = <<Length(0)>> \o (<<Crlf>> \o (<<Crlf>> \o <<>>))
  BY <1>5, Three, Zenon
<1>7. last \in Seq(AnyUnit)
  BY LastIsUnits, Zenon
<1> DEFINE U == AnyUnit \cup {h}
<1>8. AnyUnit \subseteq U /\ head \in Seq(U)
  <2>1. h \in U
    BY Zenon
  <2> HIDE DEF U, h
  <2>2. <<>> \in Seq(U) /\ <<h>> \in Seq(U)
    BY <2>1
  <2> QED
    BY <2>2, Zenon DEF h, U
<1>9. PrepareWriteBuffers(w, keep, final) =
        (head \o (IF n = 0 THEN <<>>
                  ELSE IF Chunking(w) THEN <<Length(n), Crlf>> \o units \o <<Crlf>>
                  ELSE units)) \o last
  BY <1>2, <1>6, Zenon DEF PrepareWriteBuffers
<1> HIDE DEF units, n, h, B, U
<1>10. Grouped(head, units, n, last)
  BY <1>1, <1>4, <1>7, <1>8, ChunkAhead, Zenon
<1>11. PrepareWriteBuffers(w, keep, final) =
         IF Chunking(w) THEN head \o Ahead("length", units, n, last) ELSE head \o units
  <2>1. CASE Chunking(w)
    BY <1>4, <1>9, <1>10, <2>1, Zenon DEF Ahead, Grouped
  <2>2. CASE ~Chunking(w)
    <3>1. last = <<>>
      BY <2>2, Zenon
    <3> QED
      BY <1>4, <1>9, <1>10, <2>2, <3>1, Zenon DEF Grouped
  <2> QED
    BY <2>1, <2>2, Zenon
<1> QED
  BY <1>11, Zenon DEF BuffersAre, units, n, B

\* Where the header block that send_more_data sends takes the client, by how the
\* body is sent.
LEMMA FramingRight ==
  ASSUME WriterInv, PiecesInv, is_open, NEW w, NEW cycle, NEW final, NEW handler,
         SendsRightly(w, cycle, final, handler), ~writer.sent_headers,
         w.content_length = BytesFrom(0)
  PROVE  /\ Chunking(w) => Framing' = "length"
         /\ w.sending_chunks /\ ~Chunking(w) => Framing' = "until_close"
         /\ ~w.sending_chunks =>
              \/ Framing' = "done" /\ Len(Body) = 0
              \/ Framing' = "until_close" /\ lifecycle' = "close"
              \/ /\ Framing' = "fixed" /\ Len(Body) > 0
                 /\ response'.headers["Content-Length"][1] = BytesFrom(0)
<1> DEFINE keep == cycle # "close"
           cl == response'.headers["Content-Length"]
           te == response'.headers["Transfer-Encoding"]
<1>1. /\ w \in WriterType /\ ~w.sent_headers /\ UNCHANGED <<request, written>>
      /\ lifecycle' = cycle /\ (lifecycle = "close" => cycle = "close")
      /\ SendMoreData(w, cycle, final, handler)
  BY Zenon DEF SendsRightly, WriterType, WriterInv, ResponseInv
<1>2. response' = Prepared(w, keep)
  BY <1>1, Zenon DEF SendMoreData
<1>3. SentAs(response', w, keep)
  BY <1>1, <1>2, PreparedResponse, Zenon DEF WriterInv
<1>4. /\ Body \in Seq(Nat \X Nat) /\ Len(Body) \in Nat
      /\ BytesFrom(0) \in Nat /\ (BytesFrom(0) = 0 <=> 0 = Len(Body))
  <2>1. Len(Body) \in Nat /\ 0 \in 0..Len(Body)
    BY BytesLeft
  <2> QED
    BY <2>1, BytesLeft, Zenon
<1>5. /\ HeaderBlock(response)'.line[2] = response.status_code
      /\ HeaderBlock(response)'.headers = response'.headers
  BY <1>3 DEF HeaderBlock, SentAs, UpdatedFirstLine
<1>6. Framing' = IF ~BodyAllowed \/ response.status_code = 204 THEN "done"
                 ELSE IF te # <<>> THEN IF UnderstandsChunks(request) THEN "length" ELSE "lost"
                 ELSE IF cl = <<>> THEN "until_close"
                 ELSE IF Len(cl) > 1 THEN "lost"
                 ELSE IF cl = <<0>> THEN "done" ELSE "fixed"
  BY <1>1, <1>5 DEF Framing, AfterHead, BodyAllowed
<1>7. /\ te = IF w.sending_chunks /\ response.chunks_supported THEN <<"chunked">> ELSE <<>>
      /\ cl = IF w.sending_chunks \/ response.do_not_send_content_length
              THEN response.headers["Content-Length"]
              ELSE <<IF w.content_length > 0 THEN w.content_length ELSE response.content_length>>
  BY <1>3, Zenon DEF SentAs, WriterInv, ResponseInv
<1>8. CASE w.sending_chunks
  <2>1. /\ BodyAllowed /\ response.status_code # 204
        /\ response.chunks_supported = w.client_supports_chunks
        /\ w.client_supports_chunks = ChunksSupported(request)
        /\ ~w.client_supports_chunks => response.headers["Content-Length"] = <<>>
    BY <1>8, Zenon DEF SendsRightly, WriterInv, ResponseInv, OwnLength
  <2>2. Chunking(w) <=> w.client_supports_chunks
    BY <1>8, Zenon DEF Chunking
  <2>3. CASE w.client_supports_chunks
    <3>1. UnderstandsChunks(request)
      BY <2>1, <2>3, Zenon DEF ChunksSupported, UnderstandsChunks
    <3>2. te # <<>>
      BY <1>7, <1>8, <2>1, <2>3
    <3> QED
      BY <1>6, <1>8, <2>1, <2>2, <2>3, <3>1, <3>2, Zenon
  <2>4. CASE ~w.client_supports_chunks
    <3>1. te = <<>> /\ cl = <<>>
      BY <1>7, <1>8, <2>1, <2>4, Zenon
    <3> QED
      BY <1>6, <1>8, <2>1, <2>2, <2>4, <3>1, Zenon
  <2> QED
    BY <2>3, <2>4, Zenon
<1>9. CASE ~w.sending_chunks
  <2>1. ~Chunking(w) /\ te = <<>>
    BY <1>7, <1>9, Zenon DEF Chunking
  <2>2. CASE ~BodyAllowed \/ response.status_code = 204
    <3>1. Framing' = "done" /\ Len(Body) = 0
      BY <1>6, <2>2, EmptySeq, Zenon DEF Body, WriterInv, ResponseInv
    <3> QED
      BY <1>9, <2>1, <3>1, Zenon
  <2>3. CASE BodyAllowed /\ response.status_code # 204 /\ response.do_not_send_content_length
    <3>1. lifecycle = "close" /\ response.headers["Content-Length"] = <<>>
      BY <2>3, Zenon DEF WriterInv, ResponseInv, OwnLength
    <3>2. Framing' = "until_close" /\ lifecycle' = "close"
      BY <1>1, <1>6, <1>7, <2>1, <2>3, <3>1, Zenon
    <3> QED
      BY <1>9, <2>1, <3>2, Zenon
  <2>4. CASE BodyAllowed /\ response.status_code # 204 /\ ~response.do_not_send_content_length
    <3>1. response.content_length = 0
      BY <2>4, Zenon DEF WriterInv, ResponseInv
    <3>2. cl = <<BytesFrom(0)>>
      BY <1>4, <1>7, <1>9, <2>4, <3>1
    <3>3. cl # <<>> /\ Len(cl) = 1 /\ cl[1] = BytesFrom(0)
      BY <3>2
    <3>4. cl = <<0>> <=> BytesFrom(0) = 0
      BY <3>2
    <3>5. Framing' = IF BytesFrom(0) = 0 THEN "done" ELSE "fixed"
      <4> HIDE DEF cl, te
      <4> QED
        BY <1>6, <2>1, <2>4, <3>3, <3>4
    <3>6. CASE BytesFrom(0) = 0
      BY <1>4, <1>9, <2>1, <3>5, <3>6, Zenon
    <3>7. CASE BytesFrom(0) # 0
      <4>1. Len(Body) > 0
        BY <1>4, <3>7
      <4> QED
        BY <1>9, <2>1, <3>3, <3>5, <3>7, <4>1, Zenon
    <3> QED
      BY <3>6, <3>7, Zenon
  <2> QED
    BY <2>2, <2>3, <2>4, Zenon
<1> QED
  BY <1>8, <1>9, Zenon

LEMMA SendMoreDataStream ==
  ASSUME WriterInv, PiecesInv, ClientInv, SendingInv, is_open, NEW w, NEW cycle, NEW final,
         NEW handler, SendsRightly(w, cycle, final, handler)
  PROVE  ClientInv' /\ SendingInv'
<1> DEFINE keep == cycle # "close"
           B == Body
<1>1. /\ pc = "user" /\ w \in WriterType /\ w.sent_headers = writer.sent_headers
      /\ w.content = writer.content /\ w.content_length = writer.content_length
      /\ w.client_supports_chunks = writer.client_supports_chunks
      /\ UNCHANGED <<request, written, client>> /\ lifecycle' = cycle
      /\ SendMoreData(w, cycle, final, handler)
      /\ handler \in {"chunk", "last"} /\ final \in BOOLEAN
  BY Zenon DEF SendsRightly, WriterType, WriterInv, ResponseInv
<1>2. /\ sending' = PrepareWriteBuffers(w, keep, final)
      /\ response' = IF w.sent_headers THEN response ELSE Prepared(w, keep)
      /\ writer' = [w EXCEPT !.sent_headers = TRUE]
      /\ pc' = handler
  BY <1>1, Zenon DEF SendMoreData
<1>3. /\ writer'.sending_chunks = w.sending_chunks
      /\ writer'.client_supports_chunks = w.client_supports_chunks
      /\ Chunking(w) \in BOOLEAN
      /\ Chunking(writer)' = Chunking(w)
  BY <1>1, <1>2, Zenon DEF WriterType, Chunking
<1>4. PICK last : last = IF final /\ Chunking(w)
                         THEN <<Length(0)>> \o (<<Crlf>> \o (<<Crlf>> \o <<>>)) ELSE <<>>
  BY Zenon
<1>5. LastChunk' = last
  <2>1. final /\ Chunking(w) <=> handler = "last" /\ Chunking(w)
    BY <1>1, Zenon DEF SendsRightly, Chunking
  <2> QED
    BY <1>2, <1>3, <1>4, <2>1, Zenon DEF LastChunk
<1>6. PICK t : t = Taken
  BY Zenon
<1>7. /\ B \in Seq(Nat \X Nat) /\ Len(B) \in Nat /\ Body' = B
      /\ t \in 0..Len(B) /\ t \in Nat /\ Taken' = t
      /\ client.at = "head" => t = 0
  <2>1. Body' = B /\ Taken' = t
    BY <1>1, <1>6, Zenon DEF Body, BodyAllowed, Taken
  <2>2. client.at = "head" => t = 0
    BY <1>6, Zenon DEF ClientInv
  <2>3. B \in Seq(Nat \X Nat) /\ Len(B) \in Nat
    BY BytesLeft, Zenon
  <2>4. t \in 0..Len(B)
    <3>1. CASE client.at = "head"
      BY <2>2, <2>3, <3>1
    <3>2. CASE client.at # "head"
      BY <1>6, <3>2, Zenon DEF ClientInv, MayBeAt
    <3> QED
      BY <3>1, <3>2, Zenon
  <2> QED
    BY <2>1, <2>2, <2>3, <2>4
<1>8. /\ w.content = SubSeq(B, t + 1, Len(B)) /\ w.content_length = BytesFrom(t)
      /\ ~writer.sent_headers => client.at = "head"
      /\ writer.sent_headers =>
           client.at = IF writer.client_supports_chunks THEN "length" ELSE "until_close"
  BY <1>1, <1>6, Zenon DEF SendingInv, ContentInv
<1>9. BytesFrom(t)' = BytesFrom(t) /\ BytesFrom(t) \in Nat
  BY <1>1, <1>7, BytesLeft, Zenon DEF BytesFrom, WrittenTo
<1>10. PICK head : head = IF w.sent_headers THEN <<>> ELSE <<HeaderBlock(Prepared(w, keep))>>
  BY Zenon
<1>11. sending' = IF Chunking(w) THEN head \o Ahead("length", UnitsOf(B, t), BytesFrom(t), last)
                  ELSE head \o UnitsOf(B, t)
  <2>1. BuffersAre(w, keep, final, t, head, last)
    BY <1>4, <1>7, <1>8, <1>10, BuffersAhead, Zenon
  <2> QED
    BY <1>2, <2>1, Zenon DEF BuffersAre
<1>12. UnitsOf(B, t) \in Seq(AnyContent) /\ (t = Len(B) => UnitsOf(B, t) = <<>>)
  <2>1. t <= Len(B)
    BY <1>7
  <2> QED
    BY <1>7, <2>1, UnitsOfPieces, Zenon
<1>13. CASE ~writer.sent_headers
  <2>1. client.at = "head" /\ t = 0
    BY <1>7, <1>8, <1>13, Zenon
  <2>2. ClientInv'
    <3>1. client' \in ClientType({client.head}) /\ client'.request = request'
      BY <1>1, Zenon DEF ClientInv
    <3>2. client'.body = SubSeq(Body', 1, Taken')
      BY <1>1, <1>6, <1>7, Zenon DEF ClientInv
    <3> QED
      BY <1>1, <1>7, <2>1, <3>1, <3>2, Zenon DEF ClientInv
  <2>3. head = <<HeaderBlock(response)'>>
    BY <1>1, <1>2, <1>10, <1>13, Zenon DEF HeaderBlock
  <2>4. /\ Chunking(w) => Framing' = "length"
        /\ w.sending_chunks /\ ~Chunking(w) => Framing' = "until_close"
        /\ ~w.sending_chunks =>
             \/ Framing' = "done" /\ Len(B) = 0
             \/ Framing' = "until_close" /\ lifecycle' = "close"
             \/ /\ Framing' = "fixed" /\ Len(B) > 0
                /\ response'.headers["Content-Length"][1] = BytesFrom(0)
    BY <1>8, <1>13, <2>1, FramingRight, Zenon
  <2>5. /\ w.sending_chunks => (Chunking(w) <=> w.client_supports_chunks)
        /\ w.sending_chunks /\ ~Chunking(w) => lifecycle' = "close"
        /\ ~w.sending_chunks => handler = "last" /\ ~Chunking(w)
    BY <1>1, Zenon DEF Chunking, SendsRightly
  <2>6. Framing' \in {"length", "until_close", "done", "fixed"}
    BY <1>3, <2>4, <2>5, Zenon
  <2>7. MayBeAt(Framing, 0, response.headers["Content-Length"][1])'
    BY <1>2, <1>3, <1>7, <1>9, <2>1, <2>4, <2>5, <2>6, Zenon DEF MayBeAt, Positions
  <2>8. sending' = <<HeaderBlock(response)'>>
                     \o Ahead(Framing', UnitsOf(B, 0), BytesFrom(0), last)
    <3>1. CASE Chunking(w)
      BY <1>11, <2>1, <2>3, <2>4, <3>1, Zenon
    <3>2. CASE ~Chunking(w)
      <4>1. Ahead(Framing', UnitsOf(B, 0), BytesFrom(0), last) = UnitsOf(B, 0)
        BY <1>7, <1>12, <2>1, <2>4, <2>6, <3>2, Zenon DEF Ahead
      <4> QED
        BY <1>11, <2>1, <2>3, <3>2, <4>1, Zenon
    <3> QED
      BY <3>1, <3>2, Zenon
  <2>9. SendingInv'
    BY <1>1, <1>2, <1>5, <1>7, <1>9, <2>1, <2>7, <2>8, Zenon DEF SendingInv
  <2> QED
    BY <2>2, <2>9, Zenon
<1>14. CASE writer.sent_headers
  <2>1. /\ w.sending_chunks /\ (Chunking(w) <=> w.client_supports_chunks)
        /\ lifecycle' = lifecycle /\ response' = response
    <3>1. writer.sending_chunks
      BY <1>1, <1>14, Zenon DEF WriterInv, StageInv
    <3> QED
      BY <1>1, <1>2, <1>14, <3>1, Zenon DEF SendsRightly, Chunking
  <2>2. client.at = IF Chunking(w) THEN "length" ELSE "until_close"
    BY <1>1, <1>8, <1>14, <2>1, Zenon
  <2>3. client.head = HeaderBlock(response) /\ MayBeAt(client.at, t, client.left)
    BY <1>6, <2>2, Zenon DEF ClientInv
  <2> DEFINE at == client.at
             left == client.left
  <2>4. HeaderBlock(response)' = HeaderBlock(response)
    BY <2>1, Zenon DEF HeaderBlock
  <2>5. MayBeAt(client.at, t, client.left)'
    BY <1>1, <1>2, <1>3, <1>7, <2>1, <2>2, <2>3, Zenon DEF MayBeAt, Chunking
  <2>6. ClientInv'
    <3>1. client' \in ClientType({client.head}) /\ client'.request = request'
      BY <1>1, Zenon DEF ClientInv
    <3>2. client'.body = SubSeq(Body', 1, Taken')
      BY <1>1, <1>6, <1>7, Zenon DEF ClientInv
    <3>3. client'.at # "head"
      BY <1>1, <2>2, Zenon
    <3> QED
      BY <1>1, <1>7, <2>3, <2>4, <2>5, <3>1, <3>2, <3>3, Zenon DEF ClientInv
  <2>7. sending' = Ahead(client.at, UnitsOf(B, t), BytesFrom(t), last)
    <3>1. last \in Seq(AnyUnit)
      BY <1>4, LastIsUnits, Zenon
    <3>2. /\ UnitsOf(B, t) \in Seq(AnyUnit)
          /\ Ahead("length", UnitsOf(B, t), BytesFrom(t), last) \in Seq(AnyUnit)
      BY <1>9, <1>12, <3>1, AheadIsUnits, Zenon
    <3>3. head = <<>>
      BY <1>1, <1>10, <1>14, Zenon
    <3>4. \A s \in Seq(AnyUnit) : <<>> \o s = s
      BY ONLY ConcatEmptySeq, Zenon
    <3> QED
      BY <1>11, <2>2, <3>2, <3>3, <3>4, Zenon DEF Ahead
  <2>8. SendingInv'
    BY <1>1, <1>2, <1>5, <1>7, <1>9, <2>2, <2>7, Zenon DEF SendingInv
  <2> QED
    BY <2>6, <2>8, Zenon
<1> QED
  BY <1>13, <1>14, Zenon

\* A new writer, and a client that waits for the response.
Fresh ==
  /\ request \in Requests
  /\ request.major # 0
  /\ writer = NewWriter(request)
  /\ pc = "user"
  /\ written = <<>>
  /\ \E c : c.at = "done" /\ client = Expecting(c, request)

LEMMA FreshStream == Fresh => ClientInv /\ SendingInv
<1> SUFFICES ASSUME Fresh PROVE ClientInv /\ SendingInv
  BY Zenon
<1>1. client = [request |-> request, at |-> "head", left |-> 0, head |-> NoHead, body |-> <<>>]
  BY Zenon DEF Fresh, Expecting
<1>2. Body = <<>> /\ Taken = 0 /\ Len(Body) = 0
  BY <1>1, Zenon DEF Fresh, Body, Taken
<1>3. SubSeq(Body, 1, 0) = <<>>
  <2>1. SubSeq(<<>>, 1, 0) = <<>>
    BY SubSeqEmpty
  <2> QED
    BY <1>2, <2>1, Zenon
<1>4. ClientInv
  BY <1>1, <1>2, <1>3 DEF Fresh, ClientInv, ClientType, Positions
<1>5. BytesFrom(0) = 0
  BY <1>2 DEF BytesFrom, WrittenTo
<1>6. /\ pc = "user" /\ ~writer.sent_headers
      /\ writer.content = <<>> /\ writer.content_length = 0
  BY Zenon DEF Fresh, NewWriter
<1>7. ContentInv
  BY <1>2, <1>3, <1>5, <1>6 DEF ContentInv
<1>8. SendingInv
  BY <1>1, <1>6, <1>7, Zenon DEF SendingInv
<1> QED
  BY <1>4, <1>8, Zenon

\* Nothing that the client's part of the response depends on changes while the
\* handler works on a response that is not sent.
LEMMA UnsentStream ==
  ASSUME ClientInv, SendingInv, pc = "user", pc' = "user",
         ~writer.sent_headers, ~writer'.sent_headers,
         writer'.content = writer.content, writer'.content_length = writer.content_length,
         UNCHANGED <<request, written, client>>
  PROVE  ClientInv' /\ SendingInv'
<1>1. client.at = "head" /\ ContentInv
  BY Zenon DEF SendingInv
<1>2. Body' = Body /\ Taken' = Taken
  BY Zenon DEF Body, BodyAllowed, Taken
<1>3. BytesFrom(Taken)' = BytesFrom(Taken)
  BY <1>2, Zenon DEF BytesFrom, WrittenTo
<1>4. ClientInv'
  BY <1>1, <1>2, Zenon DEF ClientInv
<1>5. SendingInv'
  BY <1>1, <1>2, <1>3, Zenon DEF SendingInv, ContentInv
<1> QED
  BY <1>4, <1>5, Zenon

LEMMA StillStream ==
  ASSUME ClientInv, SendingInv,
         UNCHANGED <<request, lifecycle, response, writer, pc, sending, written, client>>
  PROVE  ClientInv' /\ SendingInv'
<1>1. /\ Body' = Body /\ Taken' = Taken /\ LastChunk' = LastChunk
      /\ HeaderBlock(response)' = HeaderBlock(response) /\ Framing' = Framing
  BY Zenon DEF Body, BodyAllowed, Taken, LastChunk, Chunking, HeaderBlock, Framing
<1>2. \A t : BytesFrom(t)' = BytesFrom(t)
  BY <1>1, Zenon DEF BytesFrom, WrittenTo
<1>3. \A at, t, left : MayBeAt(at, t, left)' = MayBeAt(at, t, left)
  BY <1>1, <1>2 DEF MayBeAt
<1>4. ClientInv'
  BY <1>1, <1>3, Zenon DEF ClientInv
<1>5. ContentInv' = ContentInv
  BY <1>1, <1>2, Zenon DEF ContentInv
<1>6. SendingInv'
  BY <1>1, <1>2, <1>3, <1>5, Zenon DEF SendingInv
<1> QED
  BY <1>4, <1>6, Zenon

\* When all of a write has arrived, the client has all that was written so far.
LEMMA Drained ==
  ASSUME StageInv, PiecesInv, ClientInv, SendingInv, pc \in {"chunk", "last"}, sending = <<>>
  PROVE  /\ Taken = Len(Body) /\ Len(Body) \in Nat
         /\ client.at \in {"length", "until_close", "done"}
         /\ pc = "last" => client.at # "length"
         /\ pc = "chunk" => client.at # "done"
<1> DEFINE B == Body
           t == Taken
<1>1. B \in Seq(Nat \X Nat) /\ Len(B) \in Nat
  BY BytesLeft, Zenon
<1>2. client.at # "head"
  <2>1. SUFFICES ASSUME client.at = "head" PROVE FALSE
    BY Zenon
  <2> DEFINE U == AnyUnit \cup {HeaderBlock(response)}
             ahead == Ahead(Framing, UnitsOf(B, 0), BytesFrom(0), LastChunk)
  <2>2. 0 \in 0..Len(B) /\ 0 \in Nat /\ 0 <= Len(B)
    BY <1>1
  <2>3. UnitsOf(B, 0) \in Seq(AnyContent) /\ BytesFrom(0) \in Nat
    BY <1>1, <2>2, UnitsOfPieces, BytesLeft, Zenon
  <2>4. ahead \in Seq(AnyUnit)
    BY <2>3, LastChunkIsUnits, AheadIsUnits, Zenon
  <2>5. sending = <<HeaderBlock(response)>> \o ahead
    BY <2>1, Zenon DEF SendingInv
  <2> HIDE DEF ahead
  <2>6. ahead \in Seq(U) /\ HeaderBlock(response) \in U
    BY <2>4, SeqMonotonic, Zenon
  <2> HIDE DEF U
  <2>7. <<HeaderBlock(response)>> \o ahead # <<>>
    BY <2>6, Cons, Zenon
  <2> QED
    BY <2>5, <2>7, Zenon
<1>3. /\ MayBeAt(client.at, t, client.left)
      /\ sending = Ahead(client.at, UnitsOf(B, t), BytesFrom(t), LastChunk)
  BY <1>2, Zenon DEF ClientInv, SendingInv
<1>4. t \in Nat /\ t \in 0..Len(B) /\ t <= Len(B)
  BY <1>1, <1>3 DEF MayBeAt
<1> HIDE DEF t, B
<1>5. /\ UnitsOf(B, t) \in Seq(AnyContent) /\ BytesFrom(t) \in Nat
      /\ t = Len(B) <=> UnitsOf(B, t) = <<>>
  BY <1>1, <1>4, UnitsOfPieces, BytesLeft, Zenon DEF B
<1>6. LastChunk \in Seq(AnyUnit)
  BY LastChunkIsUnits, Zenon
<1> DEFINE units == UnitsOf(B, t)
           bytes == BytesFrom(t)
<1>7. /\ Crlf \in AnyUnit /\ Length(bytes) \in AnyUnit /\ units \in Seq(AnyUnit)
      /\ units \o (<<Crlf>> \o LastChunk) \in Seq(AnyUnit)
      /\ <<Crlf>> \o (units \o (<<Crlf>> \o LastChunk)) \in Seq(AnyUnit)
      /\ <<Crlf>> \o <<>> \in Seq(AnyUnit) /\ <<>> \in Seq(AnyUnit)
  BY <1>5, <1>6, AheadIsUnits, EmptySeq, Zenon
<1>8. units # <<>> => units \o (<<Crlf>> \o LastChunk) # <<>>
  <2>1. <<Crlf>> \o LastChunk \in Seq(AnyUnit) /\ <<Crlf>> \o LastChunk # <<>>
    BY <1>6, <1>7, Cons, Zenon
  <2> DEFINE rest == <<Crlf>> \o LastChunk
  <2>2. rest \in Seq(AnyUnit) /\ rest # <<>>
    BY <2>1, Zenon
  <2> HIDE DEF units, rest
  <2>3. units \o rest # <<>>
    BY <1>7, <2>2, ConcatEqualIffEmpty
  <2> QED
    BY <2>3, Zenon DEF rest
<1>9. client.at \notin {"length_end", "chunk_end", "last_length_end", "trailer"}
  <2>1. /\ <<Crlf>> \o (units \o (<<Crlf>> \o LastChunk)) # <<>>
        /\ <<Crlf>> \o LastChunk # <<>>
        /\ <<Crlf>> \o (<<Crlf>> \o <<>>) # <<>>
        /\ <<Crlf>> \o <<>> # <<>>
    BY <1>6, <1>7, Cons, Zenon
  <2> HIDE DEF units
  <2> QED
    BY <1>3, <2>1, Zenon DEF Ahead, units
<1>10. client.at = "chunk" => t < Len(B)
  BY <1>3, Zenon DEF MayBeAt, B
<1>11. client.at # "chunk"
  <2>1. client.at = "chunk" => units # <<>>
    BY <1>1, <1>4, <1>5, <1>10
  <2> HIDE DEF units
  <2> QED
    BY <1>3, <1>8, <2>1, Zenon DEF Ahead, units
<1>12. client.at # "fixed"
  BY <1>1, <1>3, <1>4, <1>5 DEF Ahead, MayBeAt, B
<1>13. client.at = "until_close" => t = Len(B)
  BY <1>3, <1>5, Zenon DEF Ahead
<1>14. client.at = "done" => t = Len(B) /\ pc = "last"
  BY <1>3, Zenon DEF MayBeAt, B
<1>15. client.at = "length" => t = Len(B) /\ LastChunk = <<>>
  <2>1. <<Length(bytes)>> \o (<<Crlf>> \o (units \o (<<Crlf>> \o LastChunk))) # <<>>
    BY <1>7, Cons, Zenon
  <2> HIDE DEF units
  <2> QED
    BY <1>3, <1>5, <2>1, Zenon DEF Ahead, units
<1>16. client.at = "length" => pc # "last"
  <2>1. client.at = "length" => Chunking(writer)
    BY <1>3, Zenon DEF MayBeAt, Chunking
  <2>2. <<Length(0)>> \o (<<Crlf>> \o (<<Crlf>> \o <<>>)) # <<>>
    BY <1>7, Cons DEF AnyUnit
  <2> QED
    BY <1>15, <2>1, <2>2, Zenon DEF LastChunk
<1>17. client.at \in {"length", "until_close", "done"}
  BY <1>3, <1>9, <1>11, <1>12, Zenon DEF MayBeAt, Positions
<1> QED
  BY <1>1, <1>13, <1>14, <1>15, <1>16, <1>17, Zenon DEF t, B

LEMMA HandleChunkStream ==
  ASSUME WriterInv, PiecesInv, ClientInv, SendingInv, HandleChunk(TRUE)
  PROVE  ClientInv' /\ SendingInv'
<1>1. /\ pc = "chunk" /\ sending = <<>> /\ pc' = "user" /\ writer' = Cleared(writer)
      /\ UNCHANGED <<request, lifecycle, response, written, client>>
  BY Zenon DEF HandleChunk, WriteEnds
<1>2. /\ Taken = Len(Body) /\ Len(Body) \in Nat
      /\ client.at \in {"length", "until_close"}
  BY <1>1, Drained, Zenon DEF WriterInv
<1>3. /\ writer'.content = <<>> /\ writer'.content_length = 0
      /\ writer'.sent_headers = writer.sent_headers
      /\ writer'.sending_chunks = writer.sending_chunks
      /\ writer'.client_supports_chunks = writer.client_supports_chunks
  BY <1>1, Zenon DEF Cleared, WriterInv, ResponseInv, WriterType
<1>4. writer.sending_chunks
  BY <1>1, Zenon DEF WriterInv, StageInv
<1>5. /\ Body' = Body /\ Taken' = Taken /\ HeaderBlock(response)' = HeaderBlock(response)
  BY <1>1, Zenon DEF Body, BodyAllowed, Taken, HeaderBlock
<1>6. client.head = HeaderBlock(response) /\ MayBeAt(client.at, Taken, client.left)
  BY <1>2, Zenon DEF ClientInv
<1>7. MayBeAt(client.at, Taken, client.left)'
  BY <1>1, <1>2, <1>3, <1>5, <1>6, Zenon DEF MayBeAt
<1>8. ClientInv'
  BY <1>1, <1>2, <1>5, <1>6, <1>7, Zenon DEF ClientInv
<1>9. ContentInv'
  <2>1. BytesFrom(Taken)' = 0
    <3>1. \A k \in Nat : WrittenTo(k)' = WrittenTo(k)
      BY <1>1, Zenon DEF WrittenTo
    <3>2. Len(Body) <= Len(written) /\ Len(written) \in Nat
      BY DEF Body, PiecesInv
    <3>3. WrittenTo(Len(Body)) \in Nat
      BY <1>2, <3>2, PiecesEnd
    <3>4. BytesFrom(Taken)' = WrittenTo(Len(Body)) - WrittenTo(Len(Body))
      BY <1>2, <1>5, <3>1, Zenon DEF BytesFrom
    <3> QED
      BY <3>3, <3>4
  <2>2. SubSeq(Body, Len(Body) + 1, Len(Body)) = <<>>
    BY <1>2, SubSeqEmpty
  <2> QED
    BY <1>2, <1>3, <1>5, <2>1, <2>2, Zenon DEF ContentInv
<1>10. client.at = IF writer.client_supports_chunks THEN "length" ELSE "until_close"
  BY <1>2, <1>4, <1>6, Zenon DEF MayBeAt
<1>11. writer.sent_headers
  BY <1>1, Zenon DEF WriterInv, StageInv
<1>12. SendingInv'
  BY <1>1, <1>3, <1>9, <1>10, <1>11, Zenon DEF SendingInv
<1> QED
  BY <1>8, <1>12, Zenon

LEMMA HandleWriteStream ==
  ASSUME WriterInv, PiecesInv, ClientInv, SendingInv, HandleWrite(TRUE)
  PROVE  ClientInv' /\ SendingInv'
<1>1. /\ pc = "last" /\ sending = <<>> /\ pc' = "finished"
      /\ UNCHANGED <<request, lifecycle, response, writer, written, client>>
  BY Zenon DEF HandleWrite, WriteEnds, Finish
<1>2. Taken = Len(Body) /\ client.at \in {"until_close", "done"}
  BY <1>1, Drained, Zenon DEF WriterInv
<1>3. /\ Body' = Body /\ Taken' = Taken /\ HeaderBlock(response)' = HeaderBlock(response)
  BY <1>1, Zenon DEF Body, BodyAllowed, Taken, HeaderBlock
<1>4. client.head = HeaderBlock(response) /\ MayBeAt(client.at, Taken, client.left)
  BY <1>2, Zenon DEF ClientInv
<1>5. MayBeAt(client.at, Taken, client.left)'
  BY <1>1, <1>2, <1>3, <1>4, Zenon DEF MayBeAt
<1>6. ClientInv'
  BY <1>1, <1>2, <1>3, <1>4, <1>5, Zenon DEF ClientInv
<1>7. SendingInv'
  BY <1>1, <1>2, <1>3, Zenon DEF SendingInv, WriterInv, StageInv
<1> QED
  BY <1>6, <1>7, Zenon

LEMMA NextRequestStream ==
  ASSUME ClientInv, SendingInv, NEW r \in Requests, NextRequest(r), r.major # 0
  PROVE  ClientInv' /\ SendingInv'
<1>1. client.at = "done"
  BY Zenon DEF NextRequest, SendingInv, ClientInv, MayBeAt
<1>2. Fresh'
  BY <1>1, Zenon DEF Fresh, NextRequest
<1>3. (Fresh => ClientInv /\ SendingInv)'
  BY FreshStream, PTL
<1> QED
  BY <1>2, <1>3, Zenon

\* One more element, and what follows the first t of them.
LEMMA SubSeqAppend ==
  ASSUME NEW S, NEW B \in Seq(S), NEW e \in S, NEW t \in 0..Len(B)
  PROVE  /\ SubSeq(Append(B, e), 1, t) = SubSeq(B, 1, t)
         /\ SubSeq(Append(B, e), t + 1, Len(B) + 1) = Append(SubSeq(B, t + 1, Len(B)), e)
<1> DEFINE A == Append(B, e)
<1>1. /\ A \in Seq(S) /\ Len(A) = Len(B) + 1 /\ A[Len(B) + 1] = e
      /\ \A i \in 1..Len(B) : A[i] = B[i] /\ B[i] \in S
      /\ Len(B) \in Nat
  BY AppendProperties, ElementOfSeq, LenProperties
<1> HIDE DEF A
<1>2. \A i \in 1..Len(A) : A[i] \in S
  BY <1>1
<1>3. SubSeq(A, 1, t) = SubSeq(B, 1, t)
  <2>1. /\ SubSeq(A, 1, t) = [i \in 1..t |-> A[i]]
        /\ SubSeq(B, 1, t) = [i \in 1..t |-> B[i]]
    BY <1>1
  <2> QED
    BY <1>1, <2>1
<1>4. SubSeq(A, t + 1, Len(B) + 1) = SubSeq(A, t + 1, Len(B)) \o <<A[Len(B) + 1]>>
  <2>1. /\ t + 1 \in 1..Len(A) /\ Len(B) + 1 \in (t + 1)..Len(A)
        /\ (Len(B) + 1) - 1 = Len(B)
    BY <1>1
  <2>2. SubSeq(A, t + 1, Len(B) + 1) = SubSeq(A, t + 1, (Len(B) + 1) - 1) \o <<A[Len(B) + 1]>>
    BY <1>1, <2>1, SubSeqRecursiveSecond, Zenon
  <2> QED
    BY <2>1, <2>2, Zenon
<1>5. SubSeq(A, t + 1, Len(B)) = SubSeq(B, t + 1, Len(B))
  <2>1. \A i \in 1..(Len(B) - t) : A[t + 1 + i - 1] = B[t + 1 + i - 1]
    BY <1>1
  <2>2. /\ SubSeq(A, t + 1, Len(B)) = [i \in 1..(Len(B) - t) |-> A[t + 1 + i - 1]]
        /\ SubSeq(B, t + 1, Len(B)) = [i \in 1..(Len(B) - t) |-> B[t + 1 + i - 1]]
    BY <1>1
  <2> QED
    BY <2>1, <2>2, Zenon
<1>6. SubSeq(B, t + 1, Len(B)) \in Seq(S)
  <2>1. \A i \in (t + 1)..Len(B) : B[i] \in S
    BY <1>1
  <2> QED
    BY <1>1, <2>1, SubSeqProperties
<1> QED
  BY <1>1, <1>3, <1>4, <1>5, <1>6, AppendIsConcat, Zenon DEF A

LEMMA WriteStream ==
  ASSUME WriterInv, PiecesInv, ClientInv, SendingInv, NEW n \in PieceSizes, Write(n)
  PROVE  ClientInv' /\ SendingInv'
<1>1. n \in Nat
  BY InputsAssumption, Zenon
<1>2. /\ pc = "user" /\ UNCHANGED <<request, lifecycle, response, pc, client, sending>>
  BY Zenon DEF Write
<1>3. CASE n = 0
  <2>1. UNCHANGED <<written, writer>>
    BY <1>3 DEF Write
  <2> QED
    BY <1>2, <2>1, StillStream, Zenon
<1>4. CASE n > 0
  <2> DEFINE from == WrittenTo(Len(written))
             piece == <<from, from + n>>
             B == Body
  <2>0. PICK t : t = Taken
    BY Zenon
  <2>1. /\ written' = Append(written, piece)
        /\ writer' = IF BodyAllowed
                     THEN [writer EXCEPT !.content = Append(@, piece), !.content_length = @ + n]
                     ELSE writer
    BY <1>4, Zenon DEF Write
  <2>2. /\ written \in Seq(Nat \X Nat) /\ Len(written) \in Nat /\ from \in Nat
        /\ piece \in Nat \X Nat /\ piece[2] = from + n
    BY <1>1, PiecesEnd DEF PiecesInv
  <2>3. /\ written' \in Seq(Nat \X Nat) /\ Len(written') = Len(written) + 1
        /\ \A k \in 1..Len(written) : written'[k] = written[k]
        /\ written'[Len(written) + 1] = piece
    BY <2>1, <2>2, AppendProperties
  <2>4. /\ \A k \in 0..Len(written) : WrittenTo(k)' = WrittenTo(k)
        /\ \A k : k = Len(written) + 1 => WrittenTo(k)' = from + n
    <3>1. ASSUME NEW k \in 0..Len(written) PROVE WrittenTo(k)' = WrittenTo(k)
      <4>1. k = 0 \/ k \in 1..Len(written)
        BY <2>2
      <4> QED
        BY <2>3, <4>1, Zenon DEF WrittenTo
    <3>2. ASSUME NEW k, k = Len(written) + 1 PROVE WrittenTo(k)' = from + n
      <4>1. k # 0 /\ written'[k][2] = from + n
        <5> HIDE DEF piece
        <5> QED
          BY <2>2, <2>3, <3>2
      <4> HIDE DEF from
      <4> QED
        BY <4>1, Zenon DEF WrittenTo
    <3> HIDE DEF from
    <3> QED
      BY <3>1, <3>2, Zenon
  <2>5. /\ writer'.sent_headers = writer.sent_headers
        /\ writer'.sending_chunks = writer.sending_chunks
        /\ writer'.client_supports_chunks = writer.client_supports_chunks
        /\ writer'.content = IF BodyAllowed THEN Append(writer.content, piece)
                             ELSE writer.content
        /\ writer'.content_length = IF BodyAllowed THEN writer.content_length + n
                                    ELSE writer.content_length
    BY <2>1, Zenon DEF WriterInv, ResponseInv, WriterType
  <2>6. /\ client.at = IF ~writer.sent_headers THEN "head"
                       ELSE IF writer.client_supports_chunks THEN "length" ELSE "until_close"
        /\ writer.content = SubSeq(B, t + 1, Len(B)) /\ writer.content_length = BytesFrom(t)
    BY <1>2, <2>0, Zenon DEF SendingInv, ContentInv
  <2>7. /\ B \in Seq(Nat \X Nat) /\ Len(B) \in Nat /\ t \in 0..Len(B) /\ t \in Nat
    <3>1. B \in Seq(Nat \X Nat) /\ Len(B) \in Nat
      BY BytesLeft, Zenon
    <3>2. t \in 0..Len(B)
      BY <2>0, <2>6, <3>1 DEF ClientInv, MayBeAt
    <3> QED
      BY <3>1, <3>2
  <2>8. Taken' = t
    BY <1>2, <2>0, Zenon DEF Taken
  <2>9. /\ client.body = SubSeq(B, 1, t) /\ client \in ClientType({client.head})
        /\ client.request = request
        /\ client.at = "head" => t = 0
        /\ client.at # "head" => client.head = HeaderBlock(response) /\ MayBeAt(client.at, t, client.left)
    BY <2>0, Zenon DEF ClientInv
  <2>10. /\ Body' = IF BodyAllowed THEN Append(B, piece) ELSE B
         /\ SubSeq(Body', 1, t) = SubSeq(B, 1, t)
         /\ Len(Body') = IF BodyAllowed THEN Len(B) + 1 ELSE Len(B)
         /\ Len(Body') \in Nat
    <3>1. Body' = IF BodyAllowed THEN Append(B, piece) ELSE B
      BY <1>2, <2>1, Zenon DEF Body, BodyAllowed
    <3>2. SubSeq(Append(B, piece), 1, t) = SubSeq(B, 1, t)
      BY <2>2, <2>7, SubSeqAppend, Zenon
    <3>3. Len(Append(B, piece)) = Len(B) + 1
      BY <2>2, <2>7, AppendProperties
    <3> HIDE DEF B, piece
    <3> QED
      BY <2>7, <3>1, <3>2, <3>3
  <2>11. client.at # "head" => MayBeAt(client.at, t, client.left)'
    <3>1. t \in 0..Len(Body')
      BY <2>7, <2>10
    <3> QED
      BY <1>2, <2>5, <2>6, <2>9, <3>1, Zenon DEF MayBeAt
  <2>12. ClientInv'
    <3>1. HeaderBlock(response)' = HeaderBlock(response)
      BY <1>2, Zenon DEF HeaderBlock
    <3> QED
      BY <1>2, <2>8, <2>9, <2>10, <2>11, <3>1, Zenon DEF ClientInv
  <2>13. ContentInv'
    <3>1. CASE ~BodyAllowed
      <4>1. B = <<>> /\ Len(B) = 0 /\ t = 0
        BY <2>7, <3>1 DEF Body
      <4>2. BytesFrom(t)' = BytesFrom(t)
        BY <2>4, <2>10, <3>1, <4>1, Zenon DEF BytesFrom, WrittenTo
      <4> QED
        BY <2>5, <2>6, <2>8, <2>10, <3>1, <4>2, Zenon DEF ContentInv
    <3>2. CASE BodyAllowed
      <4>1. SubSeq(Append(B, piece), t + 1, Len(B) + 1) = Append(SubSeq(B, t + 1, Len(B)), piece)
        BY <2>2, <2>7, SubSeqAppend, Zenon
      <4>2. writer'.content = SubSeq(Body', t + 1, Len(Body'))
        <5> HIDE DEF B, piece
        <5> QED
          BY <2>5, <2>6, <2>10, <3>2, <4>1, Zenon
      <4>3. Len(B) = Len(written)
        BY <3>2, Zenon DEF Body
      <4>4. WrittenTo(t) \in Nat /\ WrittenTo(Len(written)) \in Nat /\ WrittenTo(t)' = WrittenTo(t)
        BY <2>4, <2>7, <4>3, PiecesEnd
      <4>5. WrittenTo(Len(Body))' = from + n
        <5>1. Len(Body') = Len(written) + 1
          BY <2>10, <3>2, <4>3, Zenon
        <5> QED
          BY <2>4, <5>1, Zenon
      <4>6. BytesFrom(t)' = (from + n) - WrittenTo(t) /\ BytesFrom(t) = from - WrittenTo(t)
        BY <4>3, <4>4, <4>5, Zenon DEF BytesFrom
      <4>7. writer'.content_length = BytesFrom(t)'
        BY <1>1, <2>2, <2>5, <2>6, <3>2, <4>4, <4>6
      <4> QED
        BY <2>8, <4>2, <4>7, Zenon DEF ContentInv
    <3> QED
      BY <3>1, <3>2, Zenon
  <2>14. SendingInv'
    BY <1>2, <2>5, <2>6, <2>13, Zenon DEF SendingInv
  <2> QED
    BY <2>12, <2>14, Zenon
<1> QED
  BY <1>1, <1>3, <1>4

LEMMA StreamStep ==
  ASSUME ByRules, DecodeInv, [Next]_vars, is_open', ~broken', request'.major # 0
  PROVE  ClientInv' /\ SendingInv'
<1>1. is_open /\ ~broken /\ request.major # 0
  <2>1. ASSUME NEW ok \in BOOLEAN, HandleChunk(ok) \/ HandleWrite(ok)
        PROVE  is_open /\ ~broken /\ request.major # 0
    BY <2>1, Zenon DEF HandleChunk, HandleWrite, WriteEnds
  <2>2. CASE Lose
    BY <2>2, Zenon DEF Lose
  <2>3. CASE User \/ Arrive \/ UNCHANGED vars
    <3>1. UNCHANGED <<request, is_open, broken>>
      BY <2>3, Zenon
         DEF User, Write, EditResponse, Override, Send, SendChunk, SendFinalChunk, Arrive, vars
    <3> QED
      BY <3>1, Zenon
  <2>4. ASSUME NEW r \in Requests, NextRequest(r) PROVE is_open /\ ~broken /\ request.major # 0
    BY <2>4, Zenon DEF NextRequest, DecodeInv, ResponseInv
  <2> QED
    BY <2>1, <2>2, <2>3, <2>4, Zenon DEF Next, Complete
<1>2. WriterInv /\ PiecesInv /\ ClientInv /\ SendingInv
  BY <1>1, Zenon DEF DecodeInv, WriterInv
<1>3. ASSUME NEW n \in PieceSizes, Write(n) PROVE ClientInv' /\ SendingInv'
  BY <1>2, <1>3, WriteStream, Zenon
<1>4. CASE EditResponse
  BY <1>2, <1>4, UnsentStream, Zenon DEF EditResponse
<1>5. ASSUME NEW b \in BOOLEAN, Override(b) PROVE ClientInv' /\ SendingInv'
  <2>1. /\ writer'.content = writer.content /\ writer'.content_length = writer.content_length
        /\ writer'.sent_headers = writer.sent_headers
    BY <1>2, <1>5, Zenon DEF Override, WriterInv, ResponseInv, WriterType
  <2> QED
    BY <1>2, <1>5, <2>1, UnsentStream, Zenon DEF Override
<1>6. CASE Send
  BY <1>1, <1>2, <1>6, SendIsRight, SendMoreDataStream, Zenon
<1>7. CASE SendChunk
  BY <1>1, <1>2, <1>7, SendChunkIsRight, SendMoreDataStream, Zenon
<1>8. CASE SendFinalChunk
  BY <1>1, <1>2, <1>8, SendFinalChunkIsRight, SendMoreDataStream, Zenon
<1>9. CASE Arrive
  BY <1>2, <1>9, ArriveStream, Zenon DEF WriterInv
<1>10. ASSUME NEW ok \in BOOLEAN, HandleChunk(ok) PROVE ClientInv' /\ SendingInv'
  <2>1. ok = TRUE
    BY <1>10, Zenon DEF HandleChunk, WriteEnds
  <2> QED
    BY <1>2, <1>10, <2>1, HandleChunkStream, Zenon
<1>11. ASSUME NEW ok \in BOOLEAN, HandleWrite(ok) PROVE ClientInv' /\ SendingInv'
  <2>1. ok = TRUE
    BY <1>11, Zenon DEF HandleWrite, WriteEnds
  <2> QED
    BY <1>2, <1>11, <2>1, HandleWriteStream, Zenon
<1>12. CASE Lose
  BY <1>12, Zenon DEF Lose
<1>13. ASSUME NEW r \in Requests, NextRequest(r) PROVE ClientInv' /\ SendingInv'
  <2>1. r.major # 0
    BY <1>13, Zenon DEF NextRequest
  <2> QED
    BY <1>2, <1>13, <2>1, NextRequestStream, Zenon
<1>14. CASE UNCHANGED vars
  BY <1>2, <1>14, StillStream, Zenon DEF vars
<1> QED
  BY <1>3, <1>4, <1>5, <1>6, <1>7, <1>8, <1>9, <1>10, <1>11, <1>12, <1>13, <1>14, Zenon
     DEF Next, User, Complete

\* From the first request of a connection on, by the rules, the client and what
\* is on its way to it make up what was written.
LEMMA Decodes == ByRules => (Spec => []DecodeInv)
<1> SUFFICES ASSUME ByRules PROVE Spec => []DecodeInv
  BY Zenon
<1>1. Init => DecodeInv
  <2> SUFFICES ASSUME Init PROVE DecodeInv
    BY Zenon
  <2>1. WriterInv
    BY WriterInit, Zenon
  <2>2. PiecesInv
    BY EmptySeq DEF Init, PiecesInv
  <2>3. request.major # 0 => Fresh
    BY Zenon DEF Init, Fresh
  <2> QED
    BY <2>1, <2>2, <2>3, FreshStream, Zenon DEF DecodeInv, WriterInv
<1>2. DecodeInv /\ [Next]_vars => DecodeInv'
  <2> SUFFICES ASSUME DecodeInv, [Next]_vars PROVE DecodeInv'
    BY Zenon
  <2>1. WriterInv' /\ PiecesInv'
    BY WriterStep, PiecesStep, Zenon DEF DecodeInv, WriterInv
  <2>2. (is_open /\ ~broken /\ request.major # 0 => ClientInv /\ SendingInv)'
    BY StreamStep, Zenon
  <2> QED
    BY <2>1, <2>2, Zenon DEF DecodeInv, WriterInv
<1> QED
  BY <1>1, <1>2, PTL DEF Spec

\* Whatever mix of send_chunk, send_final_chunk and send a handler that keeps to
\* the comments of http_response_writer.hpp uses, for pieces of any sizes and any
\* number of responses on a connection, a client of HTTP/1.0 or later decodes what
\* was passed to write() and knows where it ends.
THEOREM ResponseDecodableHolds == ByRules => (Spec => []ResponseDecodable)
<1> SUFFICES ASSUME ByRules PROVE Spec => []ResponseDecodable
  BY Zenon
<1>1. DecodeInv => ResponseDecodable
  <2> SUFFICES ASSUME DecodeInv, Delivered, request.major # 0 PROVE ResponseDecodable
    BY Zenon DEF ResponseDecodable
  <2>1. /\ PiecesInv /\ ClientInv /\ Taken = Len(Body) /\ client.at \in {"done", "until_close"}
    BY Zenon DEF DecodeInv, Delivered, SendingInv
  <2>2. Body \in Seq(Nat \X Nat)
    BY <2>1, BytesLeft, Zenon
  <2>3. SubSeq(Body, 1, Len(Body)) = Body
    BY <2>2, SubSeqFull, Zenon
  <2>4. client.at = "until_close" => lifecycle = "close"
    BY <2>1, Zenon DEF ClientInv, MayBeAt
  <2> QED
    BY <2>1, <2>3, <2>4, Zenon DEF ResponseDecodable, ClientInv
<1> QED
  BY <1>1, Decodes, PTL

\* The header block that a client of HTTP/1.0 or later gets with a response tells
\* it whether the connection is closed after it, the status that the handler set
\* last, and all the cookies of set_cookie and delete_cookie.
THEOREM HeaderKeepsWordHolds == ByRules => (Spec => []HeaderKeepsWord)
<1> SUFFICES ASSUME ByRules PROVE Spec => []HeaderKeepsWord
  BY Zenon
<1>1. DecodeInv => HeaderKeepsWord
  <2> SUFFICES ASSUME DecodeInv, Delivered, request.major # 0 PROVE HeaderKeepsWord
    BY Zenon DEF HeaderKeepsWord
  <2>1. /\ ResponseInv /\ ClientInv /\ client.at \in {"done", "until_close"}
        /\ writer.sent_headers
    BY Zenon DEF DecodeInv, Delivered, SendingInv
  <2>2. client.head = HeaderBlock(response)
    BY <2>1, Zenon DEF ClientInv
  <2>3. /\ client.head.line = UpdatedFirstLine(response)
        /\ client.head.headers["Connection"] =
             <<IF lifecycle = "close" THEN "close" ELSE "Keep-Alive">>
        /\ client.head.headers["Set-Cookie"] = jar
    BY <2>1, <2>2 DEF ResponseInv, HeaderBlock
  <2>4. \A x : Range(<<x>>) = {x}
    BY DEF Range
  <2> QED
    BY <2>3, <2>4 DEF HeaderKeepsWord
<1> QED
  BY <1>1, Decodes, PTL
=============================================================================
