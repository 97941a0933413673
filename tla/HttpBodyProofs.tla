---------------------------- MODULE HttpBodyProofs ----------------------------
(***************************************************************************)
(* Proofs about HttpBody, for every number of messages, size of reads and  *)
(* base, and for every set of messages that keep to the rules that         *)
(* WellFormed states.  The inductive invariant says where in the client's  *)
(* messages the parser stands (Place): between two of them, in a content,  *)
(* or in which part of which chunk.  The lemmas before it are about        *)
(* streams and places alone, one for each way a place moves on.            *)
(***************************************************************************)
EXTENDS HttpBody, TLAPS

-----------------------------------------------------------------------------
(* The bytes of the messages in the stream of the connection               *)

\* The length of a sequence; the steps of the proofs know no more of it than that.
Size(s) == Len(s)

Letters == Symbols \cup ({"head"} \X Nat)

\* In the stream st of the messages ms, message i has its headers at k.
At(st, ms, k, i) ==
  /\ i \in 1 .. Size(ms) /\ k \in 1 .. Size(st)
  /\ k + Size(ms[i].wire) <= Size(st)
  /\ st[k] = <<"head", i>>
  /\ \A j \in 1 .. Size(ms[i].wire) : st[k + j] = ms[i].wire[j]

\* After it comes the next message, or nothing.
Followed(st, ms, k, i) ==
  IF i = Size(ms) THEN k + Size(ms[i].wire) = Size(st)
                 ELSE At(st, ms, k + Size(ms[i].wire) + 1, i + 1)

\* The stream is the messages, one after the other.
StreamOf(st, ms) ==
  /\ st \in Seq(Letters) /\ ms \in Seq(Messages)
  /\ IF ms = <<>> THEN st = <<>> ELSE At(st, ms, 1, 1)
  /\ \A k \in 1 .. Size(st) :
       st[k][1] = "head" => At(st, ms, k, st[k][2]) /\ Followed(st, ms, k, st[k][2])

Blank(st, p, q) == \A j \in p + 1 .. q : st[j][1] \in {"sp", "cr", "lf"}

\* After p bytes there are ends of lines only, up to message i.
Gap(st, ms, p, i) ==
  \/ i = Size(ms) + 1 /\ Blank(st, p, Size(st))
  \/ \E k \in p + 1 .. Size(st) : At(st, ms, k, i) /\ Blank(st, p, k - 1)

\* The stream st and messages ms after m is sent.
Sent(st, ms, m, st2, ms2) ==
  /\ st2 = st \o <<<<"head", Size(ms) + 1>>>> \o m.wire
  /\ ms2 = Append(ms, m)

AllWellFormed == \A m \in Messages : WellFormed(m)

LEMMA SizeFacts ==
  ASSUME NEW S, NEW s \in Seq(S)
  PROVE  /\ Size(s) \in Nat
         /\ \A j \in 1 .. Size(s) : s[j] \in S
         /\ s = <<>> <=> Size(s) = 0
  BY DEF Size

LEMMA LetterKinds ==
  /\ \A x \in Symbols : x[1] # "head"
  /\ \A i : <<"head", i>>[1] = "head" /\ <<"head", i>>[2] = i
  /\ \A i \in Nat : <<"head", i>> \in Letters
  /\ Symbols \subseteq Letters
<1>1. ASSUME NEW x \in Symbols PROVE x[1] # "head"
  <2>1. CASE x \in {"hex"} \X Nat
    BY <2>1, Zenon
  <2>2. CASE x \in {<<"cr">>, <<"lf">>, <<"sp">>, <<";">>, <<"x">>}
    <3>1. /\ <<"cr">>[1] = "cr" /\ <<"lf">>[1] = "lf" /\ <<"sp">>[1] = "sp"
          /\ <<";">>[1] = ";" /\ <<"x">>[1] = "x"
      BY Zenon
    <3>2. \/ x = <<"cr">> \/ x = <<"lf">> \/ x = <<"sp">> \/ x = <<";">> \/ x = <<"x">>
      BY <2>2, Zenon
    <3> QED
      BY <3>1, <3>2, Zenon
  <2> QED
    BY <2>1, <2>2, Zenon DEF Symbols
<1>2. \A i : <<"head", i>>[1] = "head" /\ <<"head", i>>[2] = i
  BY Zenon
<1>3. \A i \in Nat : <<"head", i>> \in Letters
  BY Zenon DEF Letters
<1>4. Symbols \subseteq Letters
  BY Zenon DEF Letters
<1> QED
  BY <1>1, <1>2, <1>3, <1>4, Zenon

LEMMA WiresAreSymbols ==
  ASSUME AllWellFormed, NEW m \in Messages
  PROVE  m.wire \in Seq(Symbols) /\ Size(m.wire) \in Nat
  BY DEF AllWellFormed, WellFormed, Size

LEMMA SentIs ==
  ASSUME NEW st \in Seq(Letters), NEW ms \in Seq(Messages), NEW m \in Messages,
         m.wire \in Seq(Symbols), NEW st2, NEW ms2, Sent(st, ms, m, st2, ms2)
  PROVE  /\ st2 \in Seq(Letters) /\ ms2 \in Seq(Messages)
         /\ Size(st) \in Nat /\ Size(ms) \in Nat /\ Size(m.wire) \in Nat
         /\ Size(st2) = Size(st) + 1 + Size(m.wire)
         /\ \A j \in 1 .. Size(st) : st2[j] = st[j]
         /\ st2[Size(st) + 1] = <<"head", Size(ms) + 1>>
         /\ \A j \in 1 .. Size(m.wire) : st2[Size(st) + 1 + j] = m.wire[j]
         /\ Size(ms2) = Size(ms) + 1
         /\ \A i \in 1 .. Size(ms) : ms2[i] = ms[i]
         /\ ms2[Size(ms) + 1] = m
<1>1. /\ ms2 \in Seq(Messages) /\ Size(ms2) = Size(ms) + 1
      /\ \A i \in 1 .. Size(ms) : ms2[i] = ms[i]
      /\ ms2[Size(ms) + 1] = m
  BY DEF Sent, Size
<1> DEFINE h == <<"head", Size(ms) + 1>>
           a == st \o <<h>>
<1>2. h \in Letters
  BY LetterKinds, SizeFacts
<1>3. m.wire \in Seq(Letters)
  BY LetterKinds
<1> HIDE DEF h
<1>4. /\ a \in Seq(Letters) /\ Size(a) = Size(st) + 1
      /\ \A j \in 1 .. Size(st) : a[j] = st[j]
      /\ a[Size(st) + 1] = h
  BY <1>2 DEF Size
<1>5. st2 = a \o m.wire
  BY Zenon DEF Sent, h
<1> HIDE DEF a
<1>6. /\ st2 \in Seq(Letters) /\ Size(st2) = Size(a) + Size(m.wire)
      /\ \A j \in 1 .. Size(a) : st2[j] = a[j]
      /\ \A j \in 1 .. Size(m.wire) : st2[Size(a) + j] = m.wire[j]
  <2> HIDE <1>4
  <2>1. a \in Seq(Letters)
    BY <1>4, Zenon
  <2> QED
    BY <1>3, <1>5, <2>1 DEF Size
<1>7. Size(st) \in Nat /\ Size(m.wire) \in Nat /\ Size(ms) \in Nat
  BY SizeFacts, Zenon
<1>8. Size(a) = Size(st) + 1 /\ Size(st2) = Size(st) + 1 + Size(m.wire)
  BY <1>4, <1>6, <1>7, Zenon
<1>9. \A j \in 1 .. Size(st) : j \in 1 .. Size(a)
  BY <1>7, <1>8
<1>10. Size(st) + 1 \in 1 .. Size(a)
  BY <1>7, <1>8
<1>11. \A j \in 1 .. Size(st) : st2[j] = st[j]
  BY <1>4, <1>6, <1>9, Zenon
<1>12. st2[Size(st) + 1] = <<"head", Size(ms) + 1>>
  BY <1>4, <1>6, <1>10, Zenon DEF h
<1>13. \A j \in 1 .. Size(m.wire) : st2[Size(st) + 1 + j] = m.wire[j]
  BY <1>6, <1>8, Zenon
<1> QED
  BY <1>1, <1>6, <1>7, <1>8, <1>11, <1>12, <1>13, Zenon

LEMMA AtGrows ==
  ASSUME AllWellFormed, NEW st \in Seq(Letters), NEW ms \in Seq(Messages),
         NEW m \in Messages, NEW st2, NEW ms2, Sent(st, ms, m, st2, ms2),
         NEW k, NEW i, At(st, ms, k, i)
  PROVE  At(st2, ms2, k, i)
<1>0. i \in 1 .. Size(ms) /\ ms[i] \in Messages /\ Size(ms) \in Nat /\ Size(st) \in Nat
  BY SizeFacts, Zenon DEF At
<1>1. m.wire \in Seq(Symbols) /\ Size(ms[i].wire) \in Nat
  BY <1>0, WiresAreSymbols, Zenon
<1>2. /\ i \in 1 .. Size(ms) /\ k \in 1 .. Size(st) /\ Size(ms[i].wire) \in Nat
      /\ k + Size(ms[i].wire) <= Size(st)
  BY <1>0, <1>1, Zenon DEF At
<1>3. /\ Size(st2) = Size(st) + 1 + Size(m.wire) /\ Size(m.wire) \in Nat
      /\ \A j \in 1 .. Size(st) : st2[j] = st[j]
      /\ Size(ms2) = Size(ms) + 1
      /\ ms2[i] = ms[i]
  <2>1. /\ Size(st2) = Size(st) + 1 + Size(m.wire) /\ Size(m.wire) \in Nat
        /\ \A j \in 1 .. Size(st) : st2[j] = st[j]
    BY <1>1, SentIs
  <2>2. Size(ms2) = Size(ms) + 1 /\ \A j \in 1 .. Size(ms) : ms2[j] = ms[j]
    BY <1>1, SentIs
  <2> QED
    BY <1>2, <2>1, <2>2, Zenon
<1>4. \A j \in 1 .. Size(ms[i].wire) : k + j \in 1 .. Size(st)
  BY <1>0, <1>2
<1>5. i \in 1 .. Size(ms2) /\ k \in 1 .. Size(st2) /\ k + Size(ms2[i].wire) <= Size(st2)
  BY <1>0, <1>2, <1>3
<1>6. st[k] = <<"head", i>> /\ \A j \in 1 .. Size(ms[i].wire) : st[k + j] = ms[i].wire[j]
  BY Zenon DEF At
<1> QED
  BY <1>2, <1>3, <1>4, <1>5, <1>6, Zenon DEF At

LEMMA NewAt ==
  ASSUME AllWellFormed, NEW st \in Seq(Letters), NEW ms \in Seq(Messages),
         NEW m \in Messages, NEW st2, NEW ms2, Sent(st, ms, m, st2, ms2)
  PROVE  /\ At(st2, ms2, Size(st) + 1, Size(ms) + 1)
         /\ Followed(st2, ms2, Size(st) + 1, Size(ms) + 1)
<1>1. m.wire \in Seq(Symbols) /\ Size(m.wire) \in Nat
  BY WiresAreSymbols, Zenon
<1>2. /\ Size(st) \in Nat /\ Size(ms) \in Nat
      /\ Size(st2) = Size(st) + 1 + Size(m.wire)
      /\ st2[Size(st) + 1] = <<"head", Size(ms) + 1>>
      /\ \A j \in 1 .. Size(m.wire) : st2[Size(st) + 1 + j] = m.wire[j]
      /\ Size(ms2) = Size(ms) + 1
      /\ ms2[Size(ms) + 1] = m
  BY <1>1, SentIs
<1> HIDE DEF Sent
<1>3. /\ Size(ms) + 1 \in 1 .. Size(ms2) /\ Size(st) + 1 \in 1 .. Size(st2)
      /\ Size(st) + 1 + Size(m.wire) <= Size(st2)
  BY <1>1, <1>2
<1> QED
  BY <1>1, <1>2, <1>3, Zenon DEF At, Followed

LEMMA GapGrows ==
  ASSUME AllWellFormed, NEW st, NEW ms, StreamOf(st, ms),
         NEW m \in Messages, NEW st2, NEW ms2, Sent(st, ms, m, st2, ms2),
         NEW p \in Nat, p <= Size(st), NEW i, Gap(st, ms, p, i)
  PROVE  Gap(st2, ms2, p, i)
<1>1. st \in Seq(Letters) /\ ms \in Seq(Messages)
  BY Zenon DEF StreamOf
<1>2. /\ Size(st) \in Nat /\ Size(m.wire) \in Nat
      /\ Size(st2) = Size(st) + 1 + Size(m.wire)
      /\ \A j \in 1 .. Size(st) : st2[j] = st[j]
  BY <1>1, WiresAreSymbols, SentIs
<1>3. \A q \in Nat : q <= Size(st) /\ Blank(st, p, q) => Blank(st2, p, q)
  BY <1>2 DEF Blank
<1>4. CASE i = Size(ms) + 1 /\ Blank(st, p, Size(st))
  <2>1. At(st2, ms2, Size(st) + 1, i)
    BY <1>1, <1>4, NewAt, Zenon
  <2>2. PICK k \in Nat : k = Size(st) + 1
    BY <1>2
  <2>3. k \in p + 1 .. Size(st2) /\ k - 1 = Size(st)
    BY <1>2, <2>2
  <2>4. Blank(st2, p, k - 1)
    BY <1>2, <1>3, <1>4, <2>3
  <2> QED
    BY <2>1, <2>2, <2>3, <2>4, Zenon DEF Gap
<1>5. CASE \E k \in p + 1 .. Size(st) : At(st, ms, k, i) /\ Blank(st, p, k - 1)
  <2>1. PICK k \in p + 1 .. Size(st) : At(st, ms, k, i) /\ Blank(st, p, k - 1)
    BY <1>5, Zenon
  <2>2. At(st2, ms2, k, i)
    BY <1>1, <2>1, AtGrows, Zenon
  <2>3. k - 1 \in Nat /\ k - 1 <= Size(st) /\ k \in p + 1 .. Size(st2)
    BY <1>2
  <2> QED
    BY <1>3, <2>1, <2>2, <2>3, Zenon DEF Gap
<1> QED
  BY <1>4, <1>5, Zenon DEF Gap

LEMMA StreamGrows ==
  ASSUME AllWellFormed, NEW st, NEW ms, StreamOf(st, ms),
         NEW m \in Messages, NEW st2, NEW ms2, Sent(st, ms, m, st2, ms2)
  PROVE  StreamOf(st2, ms2)
<1>1. st \in Seq(Letters) /\ ms \in Seq(Messages) /\ m.wire \in Seq(Symbols)
  BY WiresAreSymbols, Zenon DEF StreamOf
<1>2. /\ st2 \in Seq(Letters) /\ ms2 \in Seq(Messages)
      /\ Size(st) \in Nat /\ Size(ms) \in Nat /\ Size(m.wire) \in Nat
      /\ Size(st2) = Size(st) + 1 + Size(m.wire)
      /\ \A j \in 1 .. Size(st) : st2[j] = st[j]
      /\ st2[Size(st) + 1] = <<"head", Size(ms) + 1>>
      /\ \A j \in 1 .. Size(m.wire) : st2[Size(st) + 1 + j] = m.wire[j]
      /\ Size(ms2) = Size(ms) + 1
      /\ \A i \in 1 .. Size(ms) : ms2[i] = ms[i]
      /\ ms2[Size(ms) + 1] = m
  BY <1>1, SentIs
<1>3. ms2 # <<>>
  BY <1>2, SizeFacts
<1>4. At(st2, ms2, 1, 1)
  <2>1. CASE ms = <<>>
    <3>1. Size(st) + 1 = 1 /\ Size(ms) + 1 = 1
      <4>1. st = <<>>
        BY <2>1, Zenon DEF StreamOf
      <4>2. Size(st) = 0 /\ Size(ms) = 0
        BY <1>1, <2>1, <4>1, SizeFacts, Zenon
      <4> QED
        BY <4>2
    <3> QED
      BY <1>1, <3>1, NewAt, Zenon
  <2>2. CASE ms # <<>>
    BY <1>1, <2>2, AtGrows, Zenon DEF StreamOf
  <2> QED
    BY <2>1, <2>2, Zenon
<1>5. ASSUME NEW k \in 1 .. Size(st2), st2[k][1] = "head"
      PROVE  At(st2, ms2, k, st2[k][2]) /\ Followed(st2, ms2, k, st2[k][2])
  <2>1. CASE k \in 1 .. Size(st)
    <3>1. PICK i : i = st[k][2]
      BY Zenon
    <3>2. st2[k] = st[k] /\ At(st, ms, k, i) /\ Followed(st, ms, k, i)
      BY <1>2, <1>5, <2>1, <3>1, Zenon DEF StreamOf
    <3>3. At(st2, ms2, k, i) /\ i \in 1 .. Size(ms) /\ ms2[i] = ms[i]
      <4>1. i \in 1 .. Size(ms)
        BY <3>2, Zenon DEF At
      <4> QED
        BY <1>1, <1>2, <3>2, <4>1, AtGrows, Zenon
    <3>4. CASE i = Size(ms)
      <4>1. k + Size(ms2[i].wire) + 1 = Size(st) + 1 /\ i + 1 = Size(ms) + 1
        BY <3>2, <3>3, <3>4, Zenon DEF Followed
      <4>2. At(st2, ms2, k + Size(ms2[i].wire) + 1, i + 1)
        BY <1>1, <4>1, NewAt, Zenon
      <4> QED
        BY <1>2, <3>1, <3>2, <3>3, <3>4, <4>2 DEF Followed
    <3>5. CASE i # Size(ms)
      <4>1. At(st, ms, k + Size(ms[i].wire) + 1, i + 1)
        BY <3>2, <3>5, Zenon DEF Followed
      <4>2. At(st2, ms2, k + Size(ms[i].wire) + 1, i + 1)
        BY <1>1, <4>1, AtGrows, Zenon
      <4>3. i # Size(ms2)
        BY <1>2, <3>3
      <4> QED
        BY <3>1, <3>2, <3>3, <4>2, <4>3, Zenon DEF Followed
    <3> QED
      BY <3>4, <3>5, Zenon
  <2>2. CASE k = Size(st) + 1
    <3>1. st2[k][2] = Size(ms) + 1
      BY <1>2, <2>2, LetterKinds, Zenon
    <3> QED
      BY <1>1, <2>2, <3>1, NewAt, Zenon
  <2>3. CASE k > Size(st) + 1
    <3>1. PICK j \in 1 .. Size(m.wire) : k = Size(st) + 1 + j
      <4>0. /\ Size(st) \in Nat /\ Size(m.wire) \in Nat
            /\ k \in 1 .. Size(st) + 1 + Size(m.wire)
        BY <1>2, <1>5, Zenon
      <4>1. k - (Size(st) + 1) \in 1 .. Size(m.wire)
        BY <2>3, <4>0
      <4>2. k = Size(st) + 1 + (k - (Size(st) + 1))
        BY <1>2
      <4> QED
        BY <4>1, <4>2, Zenon
    <3>2. st2[k] = m.wire[j] /\ m.wire[j] \in Symbols
      BY <1>1, <1>2, <3>1, SizeFacts, Zenon
    <3> QED
      BY <1>5, <3>2, LetterKinds, Zenon
  <2> QED
    BY <1>2, <2>1, <2>2, <2>3
<1> QED
  BY <1>2, <1>3, <1>4, <1>5, Zenon DEF StreamOf

\* In front of the next message there are ends of lines, then its headers.
LEMMA GapStep ==
  ASSUME AllWellFormed, NEW st, NEW ms, StreamOf(st, ms), NEW p \in Nat, p < Size(st),
         NEW i, Gap(st, ms, p, i)
  PROVE  \/ st[p + 1][1] \in {"sp", "cr", "lf"} /\ Gap(st, ms, p + 1, i)
         \/ At(st, ms, p + 1, i)
<1>0. Size(st) \in Nat
  BY SizeFacts, Zenon DEF StreamOf
<1>1. \A q \in Nat : p < q /\ Blank(st, p, q)
        => Blank(st, p + 1, q) /\ st[p + 1][1] \in {"sp", "cr", "lf"}
  BY DEF Blank
<1>2. CASE i = Size(ms) + 1 /\ Blank(st, p, Size(st))
  BY <1>0, <1>1, <1>2, Zenon DEF Gap
<1>3. CASE \E k \in p + 1 .. Size(st) : At(st, ms, k, i) /\ Blank(st, p, k - 1)
  <2>1. PICK k \in p + 1 .. Size(st) : At(st, ms, k, i) /\ Blank(st, p, k - 1)
    BY <1>3, Zenon
  <2>2. CASE k = p + 1
    BY <2>1, <2>2, Zenon
  <2>3. CASE k # p + 1
    <3>1. k - 1 \in Nat /\ p < k - 1 /\ k \in (p + 1) + 1 .. Size(st)
      BY <1>0, <2>3
    <3> QED
      BY <1>1, <2>1, <3>1, Zenon DEF Gap
  <2> QED
    BY <2>2, <2>3, Zenon
<1> QED
  BY <1>2, <1>3, Zenon DEF Gap

\* The rest of the wire of a message, when it is ends of lines, is a gap.
LEMMA GapAfter ==
  ASSUME AllWellFormed, NEW st, NEW ms, StreamOf(st, ms), NEW k, NEW i, At(st, ms, k, i),
         NEW n \in Nat, n <= Size(ms[i].wire), BlankAfter(ms[i], n)
  PROVE  Gap(st, ms, k + n, i + 1)
<1>1. /\ Size(st) \in Nat /\ i \in 1 .. Size(ms) /\ ms[i] \in Messages
      /\ Size(ms) \in Nat
  BY SizeFacts, Zenon DEF StreamOf, At
<1>2. PICK e \in Nat : e = Size(ms[i].wire)
  BY <1>1, WiresAreSymbols, Zenon
<1>3. /\ Size(st) \in Nat /\ k \in 1 .. Size(st) /\ i \in 1 .. Size(ms) /\ Size(ms) \in Nat
      /\ k + e <= Size(st)
      /\ \A j \in 1 .. e : st[k + j] = ms[i].wire[j]
  BY <1>1, <1>2, Zenon DEF At
<1>4. Followed(st, ms, k, i)
  BY <1>3, LetterKinds DEF StreamOf, At
<1>0. \A j \in n + 1 .. e : ms[i].wire[j][1] \in {"sp", "cr", "lf"}
  BY <1>2, Zenon DEF BlankAfter, Size
<1>5. Blank(st, k + n, k + e)
  <2> SUFFICES ASSUME NEW j \in (k + n) + 1 .. k + e
               PROVE  st[j][1] \in {"sp", "cr", "lf"}
    BY Zenon DEF Blank
  <2>1. PICK d \in Nat : d = j - k
    BY <1>3
  <2>2. d \in n + 1 .. e /\ d \in 1 .. e /\ j = k + d
    BY <1>3, <2>1
  <2> QED
    BY <1>0, <1>3, <2>2, Zenon
<1>6. CASE i = Size(ms)
  BY <1>2, <1>4, <1>5, <1>6, Zenon DEF Followed, Gap
<1>7. CASE i # Size(ms)
  <2>1. At(st, ms, k + e + 1, i + 1)
    BY <1>2, <1>4, <1>7, Zenon DEF Followed
  <2>2. PICK q \in Nat : q = k + e + 1
    BY <1>3
  <2>3. q \in (k + n) + 1 .. Size(st) /\ q - 1 = k + e
    <3>1. q <= Size(st)
      BY <2>1, <2>2 DEF At
    <3> QED
      BY <1>2, <1>3, <2>2, <3>1
  <2> QED
    BY <1>5, <2>1, <2>2, <2>3, Zenon DEF Gap
<1> QED
  BY <1>6, <1>7, Zenon
-----------------------------------------------------------------------------
(* Places in the body of a message m, after n bytes of its wire            *)

First(s, n) == SubSeq(s, 1, n)

\* The bytes dl, and the next q after p bytes of the stream st.
Extended(dl, st, p, q) == dl \o SubSeq(st, p + 1, p + q)

\* After p bytes of the stream st come the q bytes that are after n in s.
Carries(st, p, s, n, q) ==
  /\ st \in Seq(Letters) /\ p + q <= Size(st)
  /\ \A j \in 1 .. q : st[p + j] = s[n + j]

DigitsOf(m, c, n) == [i \in 1 .. n - c.size |-> m.wire[c.size + i][2]]

\* In its content, with lf bytes left and dl delivered.
InContent(m, n, lf, dl) ==
  /\ m.framing = "length"
  /\ n \in Nat /\ n < m.length
  /\ lf = m.length - n
  /\ dl = First(m.payload, n)

\* In front of the data of chunk c, in the state cs with the digits ds.
InHead(m, c, n, cs, ds, dl) ==
  /\ dl = First(m.payload, c.paid)
  /\ \/ cs = "SIZE_START" /\ n \in c.at .. c.size
     \/ cs = "SIZE" /\ n \in c.size + 1 .. c.ext /\ ds = DigitsOf(m, c, n)
     \/ /\ cs = "CR_AFTER_SIZE" /\ n \in c.ext + 1 .. c.crlf
        /\ ds = DigitsOf(m, c, c.ext)
        /\ \A i \in c.ext + 1 .. c.crlf : m.wire[i][1] = "sp"
     \/ /\ cs = "IGNORED_TEXT" /\ n \in c.ext + 1 .. c.crlf
        /\ ds = DigitsOf(m, c, c.ext)
        /\ \A i \in c.ext + 1 .. c.crlf : m.wire[i][1] # "cr"
     \/ cs = "LF_AFTER_SIZE" /\ n = c.crlf + 1 /\ ds = DigitsOf(m, c, c.ext)

\* In its data, or after them.
InData(m, c, n, cs, lf, dl) ==
  /\ DataChunk(m, c)
  /\ \/ /\ cs = "CHUNK" /\ n \in c.crlf + 2 .. c.crlf + c.length + 1
        /\ lf = c.crlf + 2 + c.length - n
        /\ dl = First(m.payload, c.paid + (n - (c.crlf + 2)))
     \/ /\ cs = "CR_AFTER_CHUNK" /\ n = c.crlf + 2 + c.length
        /\ dl = First(m.payload, c.paid + c.length)
     \/ /\ cs = "LF_AFTER_CHUNK" /\ n = c.crlf + 3 + c.length
        /\ dl = First(m.payload, c.paid + c.length)

\* After the last chunk.
InLast(m, c, n, cs, dl) ==
  /\ LastChunk(m, c)
  /\ dl = m.payload
  /\ \/ cs = "FINAL_CR_OR_FOOTERS" /\ n = c.crlf + 2
     \/ cs = "FINAL_LF" /\ n = c.crlf + 3 /\ CrLf(m.wire, c.crlf + 2)

InChunk(m, c, n, cs, ds, lf, dl) ==
  InHead(m, c, n, cs, ds, dl) \/ InData(m, c, n, cs, lf, dl) \/ InLast(m, c, n, cs, dl)

ChunkedWell(m) ==
  /\ m.wire \in Seq(Symbols) /\ m.payload \in Seq(Symbols)
  /\ \A c \in m.chunks : Layout(m, c) /\ (LastChunk(m, c) \/ DataChunk(m, c))

LEMMA FirstFacts ==
  ASSUME NEW S, NEW s \in Seq(S)
  PROVE  /\ First(s, 0) = <<>>
         /\ First(s, Size(s)) = s
         /\ \A n \in Nat : n <= Size(s) =>
              \A i \in DOMAIN First(s, n) : i <= Len(s) /\ First(s, n)[i] = s[i]
<1>1. First(s, 0) = <<>>
  BY DEF First
<1>2. First(s, Size(s)) = s
  BY DEF First, Size
<1>3. ASSUME NEW n \in Nat, n <= Size(s), NEW i \in DOMAIN First(s, n)
      PROVE  i <= Len(s) /\ First(s, n)[i] = s[i]
  BY <1>3 DEF First, Size
<1> QED
  BY <1>1, <1>2, <1>3, Zenon

LEMMA ConcatIs ==
  ASSUME NEW U, NEW f \in Seq(U), NEW g \in Seq(U)
  PROVE  /\ f \o g \in Seq(U) /\ Len(f \o g) = Len(f) + Len(g)
         /\ \A i \in 1 .. Len(f) : (f \o g)[i] = f[i]
         /\ \A i \in Len(f) + 1 .. Len(f) + Len(g) : (f \o g)[i] = g[i - Len(f)]
  OBVIOUS

LEMMA FirstGrows ==
  ASSUME NEW s \in Seq(Symbols), NEW t, NEW a \in Nat, NEW q \in Nat,
         NEW p \in Nat, a + q <= Size(s), Carries(t, p, s, a, q)
  PROVE  Extended(First(s, a), t, p, q) = First(s, a + q)
<1> DEFINE f == First(s, a)
           g == SubSeq(t, p + 1, p + q)
           h == First(s, a + q)
<1>1. f \in Seq(Symbols) /\ Len(f) = a /\ \A i \in 1 .. a : f[i] = s[i]
  BY DEF First, Size
<1>2. g \in Seq(Letters) /\ Len(g) = q /\ \A i \in 1 .. q : g[i] = s[a + i]
  <2>0. t \in Seq(Letters) /\ p + q <= Len(t)
    BY Zenon DEF Carries, Size
  <2>1. g \in Seq(Letters) /\ Len(g) = q /\ \A i \in 1 .. q : g[i] = t[p + 1 + i - 1]
    BY <2>0
  <2> HIDE DEF g
  <2>2. ASSUME NEW i \in 1 .. q PROVE g[i] = s[a + i]
    <3>1. p + 1 + i - 1 = p + i
      OBVIOUS
    <3>2. g[i] = t[p + i]
      BY <2>1, <3>1, Zenon
    <3> QED
      BY <3>2, Zenon DEF Carries
  <2> QED
    BY <2>1, <2>2, Zenon
<1>3. h \in Seq(Symbols) /\ Len(h) = a + q /\ \A i \in 1 .. a + q : h[i] = s[i]
  BY DEF First, Size
<1> HIDE DEF f, g, h
<1>4. /\ f \o g \in Seq(Symbols \cup Letters) /\ Len(f \o g) = a + q
      /\ \A i \in 1 .. a : (f \o g)[i] = f[i]
      /\ \A i \in a + 1 .. a + q : (f \o g)[i] = g[i - a]
  <2>1. f \in Seq(Symbols \cup Letters) /\ g \in Seq(Symbols \cup Letters)
    BY <1>1, <1>2
  <2>2. Len(f) = a /\ Len(g) = q
    BY <1>1, <1>2, Zenon
  <2> HIDE <1>1, <1>2, <1>3
  <2>3. /\ f \o g \in Seq(Symbols \cup Letters) /\ Len(f \o g) = Len(f) + Len(g)
        /\ \A i \in 1 .. Len(f) : (f \o g)[i] = f[i]
        /\ \A i \in Len(f) + 1 .. Len(f) + Len(g) : (f \o g)[i] = g[i - Len(f)]
    BY <2>1, ConcatIs, Zenon
  <2> QED
    BY <2>2, <2>3, Zenon
<1>5. \A i \in 1 .. a + q : (f \o g)[i] = h[i]
  <2> TAKE i \in 1 .. a + q
  <2>1. CASE i \in 1 .. a
    BY <1>1, <1>3, <1>4, <2>1, Zenon
  <2>2. CASE i \in a + 1 .. a + q
    <3>1. i - a \in 1 .. q /\ a + (i - a) = i
      BY <2>2
    <3> QED
      BY <1>2, <1>3, <1>4, <2>2, <3>1, Zenon
  <2>3. i \in 1 .. a \/ i \in a + 1 .. a + q
    OBVIOUS
  <2> QED
    BY <2>1, <2>2, <2>3, Zenon
<1>6. h \in Seq(Symbols \cup Letters)
  BY <1>3
<1>7. f \o g = h
  <2>1. Len(f \o g) = Len(h)
    BY <1>3, <1>4, Zenon
  <2>2. PICK u \in Seq(Symbols \cup Letters) : u = f \o g
    BY <1>4, Zenon
  <2>3. Len(u) = Len(h) /\ \A i \in 1 .. Len(h) : u[i] = h[i]
    BY <1>3, <1>5, <2>1, <2>2, Zenon
  <2>4. u = h
    BY <1>6, <2>3
  <2> QED
    BY <2>2, <2>4, Zenon
<1> QED
  BY <1>7, Zenon DEF f, g, h, Extended

LEMMA LayoutIs ==
  ASSUME NEW m, NEW c, Layout(m, c)
  PROVE  /\ c.at \in Nat /\ c.size \in Nat /\ c.ext \in Nat /\ c.crlf \in Nat
         /\ c.paid \in Nat /\ c.length \in Nat
         /\ c.at <= c.size /\ c.size < c.ext /\ c.ext <= c.crlf
         /\ c.crlf + 2 <= Size(m.wire)
         /\ m.wire[c.crlf + 1][1] = "cr" /\ m.wire[c.crlf + 2][1] = "lf"
         /\ c.length = SizeValue(DigitsOf(m, c, c.ext))
<1>1. /\ {c.at, c.size, c.ext, c.crlf, c.paid, c.length} \subseteq Nat
      /\ c.at <= c.size /\ c.size < c.ext /\ c.ext <= c.crlf
      /\ CrLf(m.wire, c.crlf)
      /\ c.length = SizeValue(DigitsOf(m, c, c.ext))
  BY Zenon DEF Layout, DigitsOf
<1> QED
  BY <1>1, Zenon DEF CrLf, Size

LEMMA DigitsGrow ==
  ASSUME NEW m, NEW c, c.size \in Nat, NEW n \in Nat, c.size <= n, NEW d, d = m.wire[n + 1][2]
  PROVE  /\ n = c.size => <<d>> = DigitsOf(m, c, n + 1)
         /\ n > c.size => Append(DigitsOf(m, c, n), d) = DigitsOf(m, c, n + 1)
<1>1. PICK z \in Nat : z = n - c.size
  OBVIOUS
<1>2. (n + 1) - c.size = z + 1 /\ c.size + (z + 1) = n + 1 /\ n = c.size + z
  BY <1>1
<1> DEFINE F(j) == m.wire[c.size + j][2]
           f == [i \in 1 .. z |-> F(i)]
           g == [i \in 1 .. z + 1 |-> F(i)]
<1>3. DigitsOf(m, c, n) = f /\ DigitsOf(m, c, n + 1) = g
  BY <1>1, <1>2, Zenon DEF DigitsOf
<1>4. F(z + 1) = d
  BY <1>2, Zenon
<1> HIDE DEF F
<1>5. z = 0 => <<d>> = g
  BY <1>4
<1>6. Append(f, d) = g
  <2> DEFINE T == {F(i) : i \in 1 .. z + 1}
  <2>1. f \in Seq(T) /\ g \in Seq(T) /\ d \in T /\ Len(f) = z /\ Len(g) = z + 1
    BY <1>4
  <2>2. Append(f, d) \in Seq(T) /\ Len(Append(f, d)) = z + 1
        /\ Append(f, d)[z + 1] = d /\ \A i \in 1 .. z : Append(f, d)[i] = f[i]
    BY <2>1
  <2>3. \A i \in 1 .. z + 1 : Append(f, d)[i] = g[i]
    BY <1>4, <2>2
  <2> HIDE DEF f, g, T
  <2>4. PICK u \in Seq(T) : u = Append(f, d)
    BY <2>2, Zenon
  <2>5. Len(u) = Len(g) /\ \A i \in 1 .. Len(g) : u[i] = g[i]
    BY <2>1, <2>2, <2>3, <2>4, Zenon
  <2>6. u = g
    BY <2>1, <2>5
  <2> QED
    BY <2>4, <2>6, Zenon
<1>7. (n = c.size => z = 0) /\ (n > c.size => Append(f, d) = g)
  <2>1. n = c.size => z = 0
    BY <1>1
  <2> QED
    BY <1>6, <2>1, Zenon
<1> QED
  BY <1>3, <1>5, <1>7, Zenon
-----------------------------------------------------------------------------
(* The states of PARSE_CHUNKS, in a body of the right form                 *)

LEMMA WellSize ==
  ASSUME NEW m, ChunkedWell(m)
  PROVE  Size(m.wire) \in Nat
  BY SizeFacts, Zenon DEF ChunkedWell

LEMMA StartStep ==
  ASSUME NEW m, ChunkedWell(m), NEW c \in m.chunks, NEW n, NEW ds, NEW lf, NEW dl,
         InChunk(m, c, n, "SIZE_START", ds, lf, dl)
  PROVE  /\ n \in Nat /\ n < Size(m.wire)
         /\ m.wire[n + 1][1] = "hex" =>
              InChunk(m, c, n + 1, "SIZE", <<m.wire[n + 1][2]>>, lf, dl)
         /\ m.wire[n + 1][1] # "hex" => InChunk(m, c, n + 1, "SIZE_START", ds, lf, dl)
<1>1. Layout(m, c)
  BY Zenon DEF ChunkedWell
<1>2. dl = First(m.payload, c.paid) /\ n \in c.at .. c.size
  BY Zenon DEF InChunk, InHead, InData, InLast
<1>3. n \in Nat /\ n < Size(m.wire)
  BY <1>1, <1>2, LayoutIs, WellSize
<1>4. CASE n < c.size
  <2>1. n + 1 \in c.at .. c.size /\ n + 1 \in c.at + 1 .. c.size
    BY <1>1, <1>2, <1>4, LayoutIs
  <2>2. m.wire[n + 1][1] # "hex"
    BY <1>1, <2>1, Zenon DEF Layout
  <2>3. InHead(m, c, n + 1, "SIZE_START", ds, dl)
    BY <1>2, <2>1, Zenon DEF InHead
  <2> QED
    BY <1>3, <2>2, <2>3, Zenon DEF InChunk
<1>5. CASE n = c.size
  <2>1. n + 1 \in c.size + 1 .. c.ext
    BY <1>1, <1>3, <1>5, LayoutIs
  <2>2. m.wire[n + 1][1] = "hex"
    BY <1>1, <2>1, Zenon DEF Layout
  <2>3. <<m.wire[n + 1][2]>> = DigitsOf(m, c, n + 1)
    <3>1. c.size \in Nat /\ c.size <= n
      BY <1>1, <1>5, LayoutIs
    <3> QED
      BY <1>3, <1>5, <3>1, DigitsGrow, Zenon
  <2>4. InHead(m, c, n + 1, "SIZE", <<m.wire[n + 1][2]>>, dl)
    BY <1>2, <2>1, <2>3, Zenon DEF InHead
  <2> QED
    BY <1>3, <2>2, <2>4, Zenon DEF InChunk
<1>6. n < c.size \/ n = c.size
  BY <1>1, <1>2, LayoutIs
<1> QED
  BY <1>4, <1>5, <1>6, Zenon

LEMMA SizeStep ==
  ASSUME NEW m, ChunkedWell(m), NEW c \in m.chunks, NEW n, NEW ds, NEW lf, NEW dl,
         InChunk(m, c, n, "SIZE", ds, lf, dl)
  PROVE  /\ n \in Nat /\ n < Size(m.wire)
         /\ m.wire[n + 1][1] = "hex" =>
              InChunk(m, c, n + 1, "SIZE", Append(ds, m.wire[n + 1][2]), lf, dl)
         /\ m.wire[n + 1][1] = "cr" => InChunk(m, c, n + 1, "LF_AFTER_SIZE", ds, lf, dl)
         /\ m.wire[n + 1][1] = "sp" => InChunk(m, c, n + 1, "CR_AFTER_SIZE", ds, lf, dl)
         /\ m.wire[n + 1][1] = ";" => InChunk(m, c, n + 1, "IGNORED_TEXT", ds, lf, dl)
<1>1. Layout(m, c)
  BY Zenon DEF ChunkedWell
<1>2. /\ dl = First(m.payload, c.paid) /\ n \in c.size + 1 .. c.ext
      /\ ds = DigitsOf(m, c, n)
  BY Zenon DEF InChunk, InHead, InData, InLast
<1>3. n \in Nat /\ n < Size(m.wire)
  BY <1>1, <1>2, LayoutIs, WellSize
<1>4. CASE n < c.ext
  <2>1. n + 1 \in c.size + 1 .. c.ext
    BY <1>1, <1>2, <1>4, LayoutIs
  <2>2. m.wire[n + 1][1] = "hex"
    BY <1>1, <2>1, Zenon DEF Layout
  <2>3. Append(ds, m.wire[n + 1][2]) = DigitsOf(m, c, n + 1)
    <3>1. c.size \in Nat /\ c.size <= n /\ n > c.size
      BY <1>1, <1>2, LayoutIs
    <3> QED
      BY <1>2, <1>3, <3>1, DigitsGrow, Zenon
  <2>4. InHead(m, c, n + 1, "SIZE", Append(ds, m.wire[n + 1][2]), dl)
    BY <1>2, <2>1, <2>3, Zenon DEF InHead
  <2> QED
    BY <1>3, <2>2, <2>4, Zenon DEF InChunk
<1>5. CASE n = c.ext
  <2>1. CASE c.ext = c.crlf
    <3>1. m.wire[n + 1][1] = "cr"
      BY <1>1, <1>5, <2>1, LayoutIs, Zenon
    <3>2. InHead(m, c, n + 1, "LF_AFTER_SIZE", ds, dl)
      BY <1>2, <1>5, <2>1, Zenon DEF InHead
    <3> QED
      BY <1>3, <3>1, <3>2, Zenon DEF InChunk
  <2>2. CASE c.ext # c.crlf
    <3>1. n + 1 \in c.ext + 1 .. c.crlf
      BY <1>1, <1>3, <1>5, <2>2, LayoutIs
    <3>2. CASE \A i \in c.ext + 1 .. c.crlf : m.wire[i][1] = "sp"
      <4>1. m.wire[n + 1][1] = "sp"
        BY <3>1, <3>2, Zenon
      <4>2. InHead(m, c, n + 1, "CR_AFTER_SIZE", ds, dl)
        BY <1>2, <1>5, <3>1, <3>2, Zenon DEF InHead
      <4> QED
        BY <1>3, <4>1, <4>2, Zenon DEF InChunk
    <3>3. CASE /\ m.wire[c.ext + 1][1] = ";"
               /\ \A i \in c.ext + 1 .. c.crlf : m.wire[i][1] # "cr"
      <4>1. InHead(m, c, n + 1, "IGNORED_TEXT", ds, dl)
        BY <1>2, <1>5, <3>1, <3>3, Zenon DEF InHead
      <4> QED
        BY <1>3, <1>5, <3>3, <4>1, Zenon DEF InChunk
    <3> QED
      BY <1>1, <3>2, <3>3, Zenon DEF Layout
  <2> QED
    BY <2>1, <2>2, Zenon
<1>6. n < c.ext \/ n = c.ext
  BY <1>1, <1>2, LayoutIs
<1> QED
  BY <1>4, <1>5, <1>6, Zenon

LEMMA TextStep ==
  ASSUME NEW m, ChunkedWell(m), NEW c \in m.chunks, NEW n, NEW ds, NEW lf, NEW dl,
         NEW cs \in {"CR_AFTER_SIZE", "IGNORED_TEXT"}, InChunk(m, c, n, cs, ds, lf, dl)
  PROVE  /\ n \in Nat /\ n < Size(m.wire)
         /\ m.wire[n + 1][1] = "cr" => InChunk(m, c, n + 1, "LF_AFTER_SIZE", ds, lf, dl)
         /\ m.wire[n + 1][1] # "cr" => InChunk(m, c, n + 1, cs, ds, lf, dl)
<1>1. Layout(m, c)
  BY Zenon DEF ChunkedWell
<1>2. InHead(m, c, n, cs, ds, dl)
  BY Zenon DEF InChunk, InData, InLast
<1>3. /\ dl = First(m.payload, c.paid) /\ n \in c.ext + 1 .. c.crlf
      /\ ds = DigitsOf(m, c, c.ext)
      /\ cs = "CR_AFTER_SIZE" => \A i \in c.ext + 1 .. c.crlf : m.wire[i][1] = "sp"
      /\ cs = "IGNORED_TEXT" => \A i \in c.ext + 1 .. c.crlf : m.wire[i][1] # "cr"
  BY <1>2, Zenon DEF InHead
<1>4. n \in Nat /\ n < Size(m.wire)
  BY <1>1, <1>3, LayoutIs, WellSize
<1>5. CASE n < c.crlf
  <2>1. n + 1 \in c.ext + 1 .. c.crlf
    BY <1>1, <1>3, <1>5, LayoutIs
  <2>2. m.wire[n + 1][1] # "cr"
    BY <1>3, <2>1, Zenon
  <2>3. InHead(m, c, n + 1, cs, ds, dl)
    BY <1>3, <2>1, Zenon DEF InHead
  <2> QED
    BY <1>4, <2>2, <2>3, Zenon DEF InChunk
<1>6. CASE n = c.crlf
  <2>1. m.wire[n + 1][1] = "cr"
    BY <1>1, <1>6, LayoutIs, Zenon
  <2>2. InHead(m, c, n + 1, "LF_AFTER_SIZE", ds, dl)
    BY <1>3, <1>6, Zenon DEF InHead
  <2> QED
    BY <1>4, <2>1, <2>2, Zenon DEF InChunk
<1>7. n < c.crlf \/ n = c.crlf
  BY <1>1, <1>3, LayoutIs
<1> QED
  BY <1>5, <1>6, <1>7, Zenon
LEMMA LfStep ==
  ASSUME NEW m, ChunkedWell(m), NEW c \in m.chunks, NEW n, NEW ds, NEW lf, NEW dl,
         InChunk(m, c, n, "LF_AFTER_SIZE", ds, lf, dl), NEW z, z = SizeValue(ds)
  PROVE  /\ n \in Nat /\ n < Size(m.wire)
         /\ z = 0 => InChunk(m, c, n + 1, "FINAL_CR_OR_FOOTERS", ds, z, dl)
         /\ z # 0 => InChunk(m, c, n + 1, "CHUNK", ds, z, dl)
<1>1. Layout(m, c) /\ (LastChunk(m, c) \/ DataChunk(m, c))
  BY Zenon DEF ChunkedWell
<1>2. InHead(m, c, n, "LF_AFTER_SIZE", ds, dl)
  BY Zenon DEF InChunk, InData, InLast
<1>3. /\ dl = First(m.payload, c.paid) /\ n = c.crlf + 1
      /\ ds = DigitsOf(m, c, c.ext)
  BY <1>2, Zenon DEF InHead
<1>4. z = c.length /\ c.crlf \in Nat /\ c.paid \in Nat /\ c.length \in Nat
  BY <1>1, <1>3, LayoutIs, Zenon
<1>5. n \in Nat /\ n < Size(m.wire)
  BY <1>1, <1>3, LayoutIs, WellSize
<1>6. ASSUME z = 0 PROVE InLast(m, c, n + 1, "FINAL_CR_OR_FOOTERS", dl)
  <2>1. LastChunk(m, c)
    BY <1>1, <1>4, <1>6 DEF DataChunk
  <2>2. dl = m.payload
    BY <1>3, <2>1, FirstFacts, Zenon DEF LastChunk, Size, ChunkedWell
  <2>3. n + 1 = c.crlf + 2
    BY <1>3, <1>4
  <2> QED
    BY <2>1, <2>2, <2>3, Zenon DEF InLast
<1>7. ASSUME z # 0 PROVE InData(m, c, n + 1, "CHUNK", z, dl)
  <2>1. DataChunk(m, c)
    BY <1>1, <1>4, <1>7, Zenon DEF LastChunk
  <2>2. /\ n + 1 \in c.crlf + 2 .. c.crlf + c.length + 1
        /\ z = c.crlf + 2 + c.length - (n + 1)
        /\ c.paid + ((n + 1) - (c.crlf + 2)) = c.paid
    BY <1>3, <1>4, <1>7
  <2> QED
    BY <1>3, <2>1, <2>2, Zenon DEF InData
<1> QED
  BY <1>5, <1>6, <1>7, Zenon DEF InChunk

LEMMA DataIs ==
  ASSUME NEW m, ChunkedWell(m), NEW c \in m.chunks, DataChunk(m, c)
  PROVE  /\ Size(m.payload) \in Nat
         /\ c.length > 0 /\ c.paid + c.length <= Size(m.payload)
         /\ c.crlf + 4 + c.length <= Size(m.wire)
         /\ m.wire[c.crlf + 3 + c.length][1] = "cr"
         /\ m.wire[c.crlf + 4 + c.length][1] = "lf"
         /\ \A i \in 1 .. c.length : m.wire[c.crlf + 2 + i] = m.payload[c.paid + i]
         /\ \E d \in m.chunks : d.at = c.crlf + 4 + c.length /\ d.paid = c.paid + c.length
<1>1. Layout(m, c) /\ Size(m.payload) \in Nat /\ Size(m.wire) \in Nat
  BY SizeFacts, Zenon DEF ChunkedWell
<1>2. c.crlf \in Nat /\ c.paid \in Nat /\ c.length \in Nat
  BY <1>1, LayoutIs, Zenon
<1>3. /\ (c.crlf + 2 + c.length) + 1 = c.crlf + 3 + c.length
      /\ (c.crlf + 2 + c.length) + 2 = c.crlf + 4 + c.length
      /\ c.crlf + c.length + 4 = c.crlf + 4 + c.length
  BY <1>2
<1>4. /\ c.length > 0 /\ c.paid + c.length <= Size(m.payload)
      /\ CrLf(m.wire, c.crlf + 2 + c.length)
      /\ \A i \in 1 .. c.length : m.wire[c.crlf + 2 + i] = m.payload[c.paid + i]
      /\ \E d \in m.chunks : d.at = c.crlf + c.length + 4 /\ d.paid = c.paid + c.length
  BY Zenon DEF DataChunk, Size
<1>5. /\ (c.crlf + 2 + c.length) + 2 <= Size(m.wire)
      /\ m.wire[(c.crlf + 2 + c.length) + 1][1] = "cr"
      /\ m.wire[(c.crlf + 2 + c.length) + 2][1] = "lf"
  BY <1>4, Zenon DEF CrLf, Size
<1> QED
  BY <1>1, <1>3, <1>4, <1>5, Zenon

LEMMA DataStep ==
  ASSUME NEW m, ChunkedWell(m), NEW c \in m.chunks, NEW n, NEW ds, NEW lf, NEW dl,
         InChunk(m, c, n, "CHUNK", ds, lf, dl)
  PROVE  /\ n \in Nat /\ lf \in Nat /\ lf > 0 /\ n + lf < Size(m.wire)
         /\ \A st : \A p \in Nat, q \in 1 .. lf : Carries(st, p, m.wire, n, q)
              => InChunk(m, c, n + q, IF q = lf THEN "CR_AFTER_CHUNK" ELSE "CHUNK", ds,
                         lf - q, Extended(dl, st, p, q))
<1>1. Layout(m, c) /\ Size(m.wire) \in Nat /\ m.payload \in Seq(Symbols)
  BY WellSize, Zenon DEF ChunkedWell
<1>2. c.crlf \in Nat /\ c.paid \in Nat /\ c.length \in Nat
  BY <1>1, LayoutIs, Zenon
<1>3. /\ DataChunk(m, c) /\ n \in c.crlf + 2 .. c.crlf + c.length + 1
      /\ lf = c.crlf + 2 + c.length - n
      /\ dl = First(m.payload, c.paid + (n - (c.crlf + 2)))
  BY Zenon DEF InChunk, InHead, InData, InLast
<1>4. PICK b \in Nat : b = n - (c.crlf + 2)
  BY <1>2, <1>3
<1>5. /\ n \in Nat /\ n = c.crlf + 2 + b /\ b < c.length /\ lf = c.length - b
      /\ lf \in Nat /\ lf > 0
  BY <1>2, <1>3, <1>4
<1>0. c.crlf + 4 + c.length <= Size(m.wire)
  BY <1>3, DataIs, Zenon
<1>6. n + lf < Size(m.wire)
  <2>1. n + lf = c.crlf + 2 + c.length
    BY <1>2, <1>5
  <2>2. Size(m.wire) \in Nat
    BY <1>1, Zenon
  <2> QED
    BY <1>0, <1>2, <2>1, <2>2
<1>7. ASSUME NEW st, NEW p \in Nat, NEW q \in 1 .. lf, Carries(st, p, m.wire, n, q)
      PROVE  InData(m, c, n + q, IF q = lf THEN "CR_AFTER_CHUNK" ELSE "CHUNK", lf - q,
                    Extended(dl, st, p, q))
  <2>0. PICK a \in Nat : a = c.paid + b
    BY <1>2
  <2>9. Size(m.payload) \in Nat /\ c.paid + c.length <= Size(m.payload)
    BY <1>3, DataIs, Zenon
  <2>1. q \in Nat /\ b + q <= c.length /\ a + q <= Size(m.payload)
    BY <1>2, <1>5, <2>0, <2>9
  <2>2. ASSUME NEW j \in 1 .. q PROVE st[p + j] = m.payload[a + j]
    <3>1. b + j \in 1 .. c.length /\ n + j = c.crlf + 2 + (b + j) /\ a + j = c.paid + (b + j)
      BY <1>2, <1>5, <2>0, <2>1
    <3>2. m.wire[n + j] = m.payload[a + j]
      BY <1>3, <3>1, DataIs
    <3> QED
      BY <1>7, <3>2, Zenon DEF Carries
  <2>3. Extended(dl, st, p, q) = First(m.payload, a + q)
    <3>1. Carries(st, p, m.payload, a, q)
      BY <1>7, <2>2, Zenon DEF Carries
    <3>2. dl = First(m.payload, a)
      BY <1>3, <1>4, <2>0, Zenon
    <3> QED
      BY <1>1, <2>1, <3>1, <3>2, FirstGrows
  <2>4. CASE q = lf
    <3>1. n + q = c.crlf + 2 + c.length /\ a + q = c.paid + c.length
      BY <1>2, <1>5, <2>0, <2>4
    <3> QED
      BY <1>3, <2>3, <2>4, <3>1, Zenon DEF InData
  <2>5. CASE q # lf
    <3>1. /\ n + q \in c.crlf + 2 .. c.crlf + c.length + 1
          /\ lf - q = c.crlf + 2 + c.length - (n + q)
          /\ a + q = c.paid + ((n + q) - (c.crlf + 2))
      <4>1. b + q < c.length /\ n + q = c.crlf + 2 + (b + q)
        BY <1>2, <1>5, <2>1, <2>5
      <4>2. n + q \in c.crlf + 2 .. c.crlf + c.length + 1
        BY <1>2, <2>1, <4>1
      <4>3. lf - q = c.crlf + 2 + c.length - (n + q)
        BY <1>2, <1>5, <2>1, <4>1
      <4>4. (n + q) - (c.crlf + 2) = b + q
        BY <1>2, <2>1, <4>1
      <4>5. a + q = c.paid + (b + q)
        BY <1>2, <2>0, <2>1
      <4> QED
        BY <4>2, <4>3, <4>4, <4>5, Zenon
    <3> QED
      BY <1>3, <2>3, <2>5, <3>1, Zenon DEF InData
  <2> QED
    BY <2>4, <2>5, Zenon
<1> QED
  BY <1>5, <1>6, <1>7, Zenon DEF InChunk

LEMMA AfterDataStep ==
  ASSUME NEW m, ChunkedWell(m), NEW c \in m.chunks, NEW n, NEW ds, NEW lf, NEW dl
  PROVE  /\ InChunk(m, c, n, "CR_AFTER_CHUNK", ds, lf, dl) =>
              /\ n \in Nat /\ n < Size(m.wire)
              /\ InChunk(m, c, n + 1, "LF_AFTER_CHUNK", ds, lf, dl)
         /\ InChunk(m, c, n, "LF_AFTER_CHUNK", ds, lf, dl) =>
              /\ n \in Nat /\ n < Size(m.wire)
              /\ \E d \in m.chunks : InChunk(m, d, n + 1, "SIZE_START", ds, lf, dl)
<1>1. Layout(m, c) /\ Size(m.wire) \in Nat
  BY WellSize, Zenon DEF ChunkedWell
<1>2. c.crlf \in Nat /\ c.paid \in Nat /\ c.length \in Nat
  BY <1>1, LayoutIs, Zenon
<1>3. ASSUME InChunk(m, c, n, "CR_AFTER_CHUNK", ds, lf, dl)
      PROVE  /\ n \in Nat /\ n < Size(m.wire)
             /\ InChunk(m, c, n + 1, "LF_AFTER_CHUNK", ds, lf, dl)
  <2>1. /\ DataChunk(m, c) /\ n = c.crlf + 2 + c.length
        /\ dl = First(m.payload, c.paid + c.length)
    BY <1>3, Zenon DEF InChunk, InHead, InData, InLast
  <2>2. n \in Nat /\ n < Size(m.wire) /\ n + 1 = c.crlf + 3 + c.length
    BY <1>1, <1>2, <2>1, DataIs
  <2>3. InData(m, c, n + 1, "LF_AFTER_CHUNK", lf, dl)
    BY <2>1, <2>2, Zenon DEF InData
  <2> QED
    BY <2>2, <2>3, Zenon DEF InChunk
<1>4. ASSUME InChunk(m, c, n, "LF_AFTER_CHUNK", ds, lf, dl)
      PROVE  /\ n \in Nat /\ n < Size(m.wire)
             /\ \E d \in m.chunks : InChunk(m, d, n + 1, "SIZE_START", ds, lf, dl)
  <2>1. /\ DataChunk(m, c) /\ n = c.crlf + 3 + c.length
        /\ dl = First(m.payload, c.paid + c.length)
    BY <1>4, Zenon DEF InChunk, InHead, InData, InLast
  <2>2. n \in Nat /\ n < Size(m.wire) /\ n + 1 = c.crlf + 4 + c.length
    BY <1>1, <1>2, <2>1, DataIs
  <2>3. PICK d \in m.chunks : d.at = n + 1 /\ d.paid = c.paid + c.length
    BY <2>1, <2>2, DataIs
  <2>4. Layout(m, d)
    BY Zenon DEF ChunkedWell
  <2>5. n + 1 \in d.at .. d.size
    BY <2>2, <2>3, <2>4, LayoutIs
  <2>6. InHead(m, d, n + 1, "SIZE_START", ds, dl)
    BY <2>1, <2>3, <2>5, Zenon DEF InHead
  <2> QED
    BY <2>2, <2>6, Zenon DEF InChunk
<1> QED
  BY <1>3, <1>4, Zenon

LEMMA LastIs ==
  ASSUME NEW m, ChunkedWell(m), NEW c \in m.chunks
  PROVE  /\ CrLf(m.wire, c.crlf + 2) =>
              /\ c.crlf + 4 <= Size(m.wire)
              /\ m.wire[c.crlf + 3][1] = "cr" /\ m.wire[c.crlf + 4][1] = "lf"
         /\ LastChunk(m, c) =>
              /\ c.crlf + 2 < Size(m.wire)
              /\ m.keep \/ m.wire[c.crlf + 3][1] = "cr" => CrLf(m.wire, c.crlf + 2)
              /\ m.keep => BlankAfter(m, c.crlf + 4)
         /\ c.crlf \in Nat /\ Size(m.wire) \in Nat
<1>1. c.crlf \in Nat /\ Size(m.wire) \in Nat
  BY WellSize, LayoutIs, Zenon DEF ChunkedWell
<1>2. ASSUME CrLf(m.wire, c.crlf + 2)
      PROVE  /\ c.crlf + 4 <= Size(m.wire)
             /\ m.wire[c.crlf + 3][1] = "cr" /\ m.wire[c.crlf + 4][1] = "lf"
  <2>1. (c.crlf + 2) + 2 = c.crlf + 4 /\ (c.crlf + 2) + 1 = c.crlf + 3
    BY <1>1
  <2>2. /\ (c.crlf + 2) + 2 <= Size(m.wire)
        /\ m.wire[(c.crlf + 2) + 1][1] = "cr" /\ m.wire[(c.crlf + 2) + 2][1] = "lf"
    BY <1>2, Zenon DEF CrLf, Size
  <2> QED
    BY <2>1, <2>2, Zenon
<1>3. ASSUME LastChunk(m, c)
      PROVE  /\ c.crlf + 2 < Size(m.wire)
             /\ m.keep \/ m.wire[c.crlf + 3][1] = "cr" => CrLf(m.wire, c.crlf + 2)
             /\ m.keep => BlankAfter(m, c.crlf + 4)
  <2>1. \/ CrLf(m.wire, c.crlf + 2) /\ (m.keep => BlankAfter(m, c.crlf + 4))
        \/ ~m.keep /\ c.crlf + 2 < Size(m.wire) /\ m.wire[c.crlf + 3][1] # "cr"
    BY <1>3, Zenon DEF LastChunk, Size
  <2>2. CrLf(m.wire, c.crlf + 2) => c.crlf + 2 < Size(m.wire)
    BY <1>1, <1>2
  <2> QED
    BY <2>1, <2>2, Zenon
<1> QED
  BY <1>1, <1>2, <1>3, Zenon

LEMMA FinalStep ==
  ASSUME NEW m, ChunkedWell(m), NEW c \in m.chunks, NEW n, NEW ds, NEW lf, NEW dl,
         InChunk(m, c, n, "FINAL_CR_OR_FOOTERS", ds, lf, dl)
  PROVE  /\ n \in Nat /\ n < Size(m.wire) /\ dl = m.payload
         /\ m.keep => m.wire[n + 1][1] = "cr"
         /\ m.wire[n + 1][1] = "cr" => InChunk(m, c, n + 1, "FINAL_LF", ds, lf, dl)
<1>1. LastChunk(m, c) /\ n = c.crlf + 2 /\ dl = m.payload
  BY Zenon DEF InChunk, InHead, InData, InLast
<1>2. n \in Nat /\ n + 1 = c.crlf + 3
  BY <1>1, LastIs
<1>3. m.wire[n + 1][1] = "cr" => InLast(m, c, n + 1, "FINAL_LF", dl)
  BY <1>1, <1>2, LastIs, Zenon DEF InLast
<1>4. n < Size(m.wire) /\ (m.keep => m.wire[n + 1][1] = "cr")
  BY <1>1, <1>2, LastIs, Zenon
<1> QED
  BY <1>1, <1>2, <1>3, <1>4, Zenon DEF InChunk

LEMMA FinalLfStep ==
  ASSUME NEW m, ChunkedWell(m), NEW c \in m.chunks, NEW n, NEW ds, NEW lf, NEW dl,
         InChunk(m, c, n, "FINAL_LF", ds, lf, dl)
  PROVE  /\ n \in Nat /\ n < Size(m.wire) /\ n + 1 <= Size(m.wire) /\ dl = m.payload
         /\ m.wire[n + 1][1] = "lf"
         /\ m.keep => BlankAfter(m, n + 1)
<1>1. LastChunk(m, c) /\ n = c.crlf + 3 /\ dl = m.payload /\ CrLf(m.wire, c.crlf + 2)
  BY Zenon DEF InChunk, InHead, InData, InLast
<1>2. n \in Nat /\ n + 1 = c.crlf + 4 /\ Size(m.wire) \in Nat
  BY <1>1, LastIs
<1>3. n + 1 <= Size(m.wire) /\ m.wire[n + 1][1] = "lf" /\ (m.keep => BlankAfter(m, n + 1))
  BY <1>1, <1>2, LastIs, Zenon
<1>4. n < Size(m.wire)
  BY <1>2, <1>3
<1> QED
  BY <1>1, <1>2, <1>3, <1>4, Zenon

\* In whatever part of a chunk, there is a next character, and it is one that
\* the state goes on with.
LEMMA NextChar ==
  ASSUME NEW m, ChunkedWell(m), NEW c \in m.chunks, NEW n, NEW cs, NEW ds, NEW lf, NEW dl,
         InChunk(m, c, n, cs, ds, lf, dl)
  PROVE  /\ n \in Nat /\ n < Size(m.wire)
         /\ cs = "SIZE_START" => m.wire[n + 1][1] \in {"hex", "sp", "cr", "lf"}
         /\ cs = "SIZE" => m.wire[n + 1][1] \in {"hex", "cr", "sp", ";"}
         /\ cs = "CR_AFTER_SIZE" => m.wire[n + 1][1] \in {"cr", "sp"}
         /\ cs = "CR_AFTER_CHUNK" => m.wire[n + 1][1] = "cr"
         /\ cs \in {"LF_AFTER_SIZE", "LF_AFTER_CHUNK", "FINAL_LF"} => m.wire[n + 1][1] = "lf"
<1>0. Layout(m, c) /\ Size(m.wire) \in Nat
  BY WellSize, Zenon DEF ChunkedWell
<1>1. CASE cs = "SIZE_START"
  <2>1. n \in c.at .. c.size /\ n \in Nat /\ n < Size(m.wire)
    BY <1>1, StartStep, Zenon DEF InChunk, InHead, InData, InLast
  <2>2. n + 1 \in c.at + 1 .. c.size \/ n + 1 \in c.size + 1 .. c.ext
    BY <1>0, <2>1, LayoutIs
  <2> QED
    BY <1>0, <1>1, <2>1, <2>2, Zenon DEF Layout
<1>2. CASE cs = "SIZE"
  <2>1. n \in c.size + 1 .. c.ext /\ n \in Nat /\ n < Size(m.wire)
    BY <1>2, SizeStep, Zenon DEF InChunk, InHead, InData, InLast
  <2>2. CASE n < c.ext
    <3>1. n + 1 \in c.size + 1 .. c.ext
      BY <1>0, <2>1, <2>2, LayoutIs
    <3> QED
      BY <1>0, <1>2, <2>1, <3>1, Zenon DEF Layout
  <2>3. CASE n = c.ext /\ n = c.crlf
    <3>1. m.wire[n + 1][1] = "cr"
      BY <1>0, <2>3, LayoutIs, Zenon
    <3> QED
      BY <1>2, <2>1, <3>1, Zenon
  <2>4. CASE n = c.ext /\ n < c.crlf
    <3>1. n + 1 \in c.ext + 1 .. c.crlf
      BY <1>0, <2>1, <2>4, LayoutIs
    <3> QED
      BY <1>0, <1>2, <2>1, <2>4, <3>1, Zenon DEF Layout
  <2>5. n < c.ext \/ (n = c.ext /\ n = c.crlf) \/ (n = c.ext /\ n < c.crlf)
    <3>1. c.size \in Nat /\ c.ext \in Nat /\ c.crlf \in Nat /\ c.ext <= c.crlf
      BY <1>0, LayoutIs, Zenon
    <3> QED
      BY <2>1, <3>1
  <2> QED
    BY <2>2, <2>3, <2>4, <2>5, Zenon
<1>3. CASE cs \in {"CR_AFTER_SIZE", "IGNORED_TEXT"}
  <2>1. n \in c.ext + 1 .. c.crlf /\ n \in Nat /\ n < Size(m.wire)
    BY <1>3, TextStep, Zenon DEF InChunk, InHead, InData, InLast
  <2>2. cs = "CR_AFTER_SIZE" => \A i \in c.ext + 1 .. c.crlf : m.wire[i][1] = "sp"
    BY Zenon DEF InChunk, InHead, InData, InLast
  <2>3. n = c.crlf \/ n + 1 \in c.ext + 1 .. c.crlf
    BY <1>0, <2>1, LayoutIs
  <2>4. n = c.crlf => m.wire[n + 1][1] = "cr"
    BY <1>0, LayoutIs, Zenon
  <2> QED
    BY <1>3, <2>1, <2>2, <2>3, <2>4, Zenon
<1>4. CASE cs = "LF_AFTER_SIZE"
  <2>1. n = c.crlf + 1 /\ n \in Nat /\ n < Size(m.wire)
    BY <1>4, LfStep, Zenon DEF InChunk, InHead, InData, InLast
  <2>2. n + 1 = c.crlf + 2
    BY <1>0, <2>1, LayoutIs
  <2> QED
    BY <1>0, <1>4, <2>1, <2>2, LayoutIs, Zenon
<1>5. CASE cs = "CHUNK"
  <2>1. n \in Nat /\ lf \in Nat /\ n + lf < Size(m.wire)
    BY <1>5, DataStep, Zenon
  <2>2. n < Size(m.wire)
    BY <1>0, <2>1
  <2> QED
    BY <1>5, <2>1, <2>2, Zenon
<1>6. CASE cs = "CR_AFTER_CHUNK"
  <2>1. n = c.crlf + 2 + c.length /\ DataChunk(m, c) /\ n \in Nat /\ n < Size(m.wire)
    BY <1>6, AfterDataStep, Zenon DEF InChunk, InHead, InData, InLast
  <2>2. n + 1 = c.crlf + 3 + c.length
    BY <1>0, <2>1, LayoutIs
  <2>3. m.wire[n + 1][1] = "cr"
    <3>1. m.wire[c.crlf + 3 + c.length][1] = "cr"
      BY <2>1, DataIs
    <3> QED
      BY <2>2, <3>1, Zenon
  <2> QED
    BY <1>6, <2>1, <2>3, Zenon
<1>7. CASE cs = "LF_AFTER_CHUNK"
  <2>1. n = c.crlf + 3 + c.length /\ DataChunk(m, c) /\ n \in Nat /\ n < Size(m.wire)
    BY <1>7, AfterDataStep, Zenon DEF InChunk, InHead, InData, InLast
  <2>2. n + 1 = c.crlf + 4 + c.length
    BY <1>0, <2>1, LayoutIs
  <2>3. m.wire[n + 1][1] = "lf"
    <3>1. m.wire[c.crlf + 4 + c.length][1] = "lf"
      BY <2>1, DataIs
    <3> QED
      BY <2>2, <3>1, Zenon
  <2> QED
    BY <1>7, <2>1, <2>3, Zenon
<1>8. CASE cs = "FINAL_CR_OR_FOOTERS"
  <2>1. n \in Nat /\ n < Size(m.wire)
    BY <1>8, FinalStep, Zenon
  <2> QED
    BY <1>8, <2>1, Zenon
<1>9. CASE cs = "FINAL_LF"
  <2>1. n \in Nat /\ n < Size(m.wire) /\ m.wire[n + 1][1] = "lf"
    BY <1>9, FinalLfStep, Zenon
  <2> QED
    BY <1>9, <2>1, Zenon
<1> QED
  BY <1>1, <1>2, <1>3, <1>4, <1>5, <1>6, <1>7, <1>8, <1>9, Zenon
     DEF InChunk, InHead, InData, InLast
-----------------------------------------------------------------------------
(* The headers and the content of a message of the right form              *)

LEMMA HeadStep ==
  ASSUME NEW m, WellFormed(m), m.framing \notin {"bad", "malformed"}, NEW ds, NEW lf
  PROVE  /\ NextState(m) \in {"END", "CONTENT", "CHUNKS"}
         /\ NextState(m) = "END" \/ ~m.handler => (m.keep => BlankAfter(m, 0))
         /\ NextState(m) = "END" => m.payload = <<>>
         /\ NextState(m) = "CONTENT" => InContent(m, 0, m.length, <<>>)
         /\ NextState(m) = "CHUNKS" =>
              /\ m.framing = "chunked"
              /\ \E c \in m.chunks : InChunk(m, c, 0, "SIZE_START", ds, lf, <<>>)
<1>0. m.payload \in Seq(Symbols)
  BY Zenon DEF WellFormed
<1>1. CASE m.framing = "none"
  <2>1. NextState(m) = "END"
    BY <1>1, Zenon DEF NextState
  <2>2. m.payload = <<>> /\ (m.keep => BlankAfter(m, 0))
    BY <1>1, Zenon DEF WellFormed
  <2> QED
    BY <2>1, <2>2, Zenon
<1>2. CASE m.framing = "length"
  <2>1. /\ m.length = Size(m.payload) /\ m.length \in Nat
        /\ m.keep => BlankAfter(m, IF m.handler THEN m.length ELSE 0)
    BY <1>0, <1>2, SizeFacts, Zenon DEF WellFormed, Size
  <2>2. CASE m.length = 0
    <3>1. NextState(m) = "END"
      BY <1>2, <2>2 DEF NextState
    <3>2. m.payload = <<>>
      BY <1>0, <2>1, <2>2, SizeFacts, Zenon
    <3>3. m.keep => BlankAfter(m, 0)
      BY <2>1, <2>2, Zenon
    <3> QED
      BY <3>1, <3>2, <3>3, Zenon
  <2>3. CASE m.length > 0
    <3>1. NextState(m) = "CONTENT"
      BY <1>2, <2>3, Zenon DEF NextState
    <3>2. ~m.handler => (m.keep => BlankAfter(m, 0))
      BY <2>1, Zenon
    <3>3. InContent(m, 0, m.length, <<>>)
      BY <1>0, <1>2, <2>1, <2>3, FirstFacts DEF InContent
    <3> QED
      BY <3>1, <3>2, <3>3, Zenon
  <2>4. m.length = 0 \/ m.length > 0
    BY <2>1
  <2> QED
    BY <2>2, <2>3, <2>4, Zenon
<1>3. CASE m.framing = "chunked"
  <2>1. NextState(m) = "CHUNKS"
    BY <1>3, Zenon DEF NextState
  <2>2. /\ \E c \in m.chunks : c.at = 0 /\ c.paid = 0
        /\ \A c \in m.chunks : Layout(m, c)
        /\ m.keep => m.handler \/ BlankAfter(m, 0)
    BY <1>3, Zenon DEF WellFormed
  <2>3. PICK c \in m.chunks : c.at = 0 /\ c.paid = 0
    BY <2>2, Zenon
  <2>4. 0 \in c.at .. c.size /\ First(m.payload, c.paid) = <<>>
    BY <1>0, <2>2, <2>3, LayoutIs, FirstFacts
  <2>5. InChunk(m, c, 0, "SIZE_START", ds, lf, <<>>)
    BY <2>4, Zenon DEF InChunk, InHead
  <2> QED
    BY <1>3, <2>1, <2>2, <2>5, Zenon
<1>4. m.framing = "none" \/ m.framing = "length" \/ m.framing = "chunked"
  BY Zenon DEF WellFormed
<1> QED
  BY <1>1, <1>2, <1>3, <1>4, Zenon

LEMMA ContentStep ==
  ASSUME NEW m, WellFormed(m), NEW n, NEW lf, NEW dl, InContent(m, n, lf, dl)
  PROVE  /\ n \in Nat /\ lf \in Nat /\ lf > 0 /\ n + lf <= Size(m.wire)
         /\ m.handler /\ m.keep => BlankAfter(m, n + lf)
         /\ \A st : \A p \in Nat, q \in 1 .. lf : Carries(st, p, m.wire, n, q) =>
              /\ q = lf => Extended(dl, st, p, q) = m.payload
              /\ q < lf => InContent(m, n + q, lf - q, Extended(dl, st, p, q))
<1>1. /\ m.framing = "length" /\ n \in Nat /\ n < m.length
      /\ lf = m.length - n /\ dl = First(m.payload, n)
  BY Zenon DEF InContent
<1>2. /\ m.payload \in Seq(Symbols) /\ m.wire \in Seq(Symbols)
      /\ m.length = Size(m.payload) /\ m.length <= Size(m.wire)
      /\ \A i \in 1 .. m.length : m.wire[i] = m.payload[i]
      /\ m.keep => BlankAfter(m, IF m.handler THEN m.length ELSE 0)
  BY <1>1, Zenon DEF WellFormed, Size
<1>3. m.length \in Nat /\ Size(m.wire) \in Nat
  BY <1>2, SizeFacts, Zenon
<1>4. lf \in Nat /\ lf > 0 /\ n + lf = m.length
  BY <1>1, <1>3
<1>5. ASSUME NEW st, NEW p \in Nat, NEW q \in 1 .. lf, Carries(st, p, m.wire, n, q)
      PROVE  /\ q = lf => Extended(dl, st, p, q) = m.payload
             /\ q < lf => InContent(m, n + q, lf - q, Extended(dl, st, p, q))
  <2>1. q \in Nat /\ n + q <= m.length
    BY <1>1, <1>3, <1>4
  <2>2. \A j \in 1 .. q : n + j \in 1 .. m.length
    BY <1>1, <1>3, <2>1
  <2>3. Carries(st, p, m.payload, n, q)
    BY <1>2, <1>5, <2>2, Zenon DEF Carries
  <2>4. Extended(dl, st, p, q) = First(m.payload, n + q)
    BY <1>1, <1>2, <2>1, <2>3, FirstGrows
  <2>5. q = lf => Extended(dl, st, p, q) = m.payload
    BY <1>2, <1>4, <2>4, FirstFacts
  <2>6. q < lf => n + q \in Nat /\ n + q < m.length /\ lf - q = m.length - (n + q)
    BY <1>1, <1>3, <1>4, <2>1
  <2> QED
    BY <1>1, <2>4, <2>5, <2>6, Zenon DEF InContent
<1>6. m.handler /\ m.keep => BlankAfter(m, n + lf)
  BY <1>2, <1>4, Zenon
<1> QED
  BY <1>1, <1>2, <1>4, <1>5, <1>6, Zenon

LEMMA WireCarries ==
  ASSUME NEW st, NEW ms, StreamOf(st, ms), NEW k, NEW i, At(st, ms, k, i),
         Size(ms[i].wire) \in Nat,
         NEW n \in Nat, NEW q \in Nat, n + q <= Size(ms[i].wire)
  PROVE  Carries(st, k + n, ms[i].wire, n, q)
<1>1. st \in Seq(Letters) /\ Size(st) \in Nat
  BY SizeFacts, Zenon DEF StreamOf
<1>2. /\ k \in 1 .. Size(st) /\ k + Size(ms[i].wire) <= Size(st)
      /\ \A j \in 1 .. Size(ms[i].wire) : st[k + j] = ms[i].wire[j]
  BY Zenon DEF At
<1>3. (k + n) + q <= Size(st)
  BY <1>1, <1>2
<1>4. ASSUME NEW j \in 1 .. q PROVE st[(k + n) + j] = ms[i].wire[n + j]
  <2>1. n + j \in 1 .. Size(ms[i].wire) /\ (k + n) + j = k + (n + j)
    BY <1>1, <1>2
  <2> QED
    BY <1>2, <2>1, Zenon
<1> QED
  BY <1>1, <1>3, <1>4, Zenon DEF Carries
-----------------------------------------------------------------------------
(* The invariant of a connection                                           *)

Buffer == pos \in Nat /\ end \in Nat /\ handled \in Nat /\ pos <= end /\ end <= Size(stream)

\* The parser looks for the headers of the next message.
InHeaders ==
  /\ mstate = "HEADERS" /\ cstate = "SIZE_START" /\ delivered = <<>>
  /\ Gap(stream, sent, pos, handled + 1)

Body(m, n, s, cs, ds, lf, dl) ==
  \/ s = "CONTENT" /\ InContent(m, n, lf, dl)
  \/ /\ s = "CHUNKS" /\ m.framing = "chunked"
     /\ \E c \in m.chunks : InChunk(m, c, n, cs, ds, lf, dl)

\* The message that comes next has its headers at k and n bytes of its wire are
\* consumed.
BodyAt(k, n) ==
  /\ pos = k + n
  /\ At(stream, sent, k, handled + 1)
  /\ msg = sent[handled + 1] /\ msg.handler
  /\ Body(msg, n, mstate, cstate, digits, left, delivered)

InBody == \E k, n \in Nat : BodyAt(k, n)

\* The connection can be handed to a new reader.
Ready ==
  /\ Gap(stream, sent, pos, handled + 1)
  /\ IF lifecycle = "pipelined" THEN pos < end ELSE pos = end

Place ==
  \/ phase = "reading" /\ pos = end /\ (InHeaders \/ InBody)
  \/ phase = "parsing" /\ pos < end /\ (InHeaders \/ InBody)
  \/ /\ phase = "handling" /\ mstate = "END"
     /\ msg.handler => delivered = msg.payload
     /\ lifecycle # "close" => Ready
  \/ phase = "receive" /\ mstate \in {"HEADERS", "END"} /\ Ready
  \/ phase = "closed" /\ (mstate \in {"HEADERS", "END"} \/ InBody)

BodyInv == StreamOf(stream, sent) /\ Buffer /\ Place

LEMMA BodyInvInit == BodyInit => BodyInv
<1> SUFFICES ASSUME BodyInit PROVE BodyInv
  BY Zenon
<1> USE DEF BodyInit
<1>1. Size(<<>>) = 0
  BY Zenon DEF Size
<1>2. StreamOf(stream, sent)
  BY <1>1 DEF StreamOf
<1>3. Buffer
  BY <1>1 DEF Buffer
<1>4. Ready
  BY <1>1 DEF Ready, Gap, Blank
<1> QED
  BY <1>2, <1>3, <1>4, Zenon DEF BodyInv, Place

\* The places do not change when nothing of theirs does.
LEMMA SameBody ==
  ASSUME UNCHANGED <<input, pos, parser, handled>>, InBody
  PROVE  InBody'
<1>1. PICK k \in Nat, n \in Nat : BodyAt(k, n)
  BY Zenon DEF InBody
<1>2. BodyAt(k, n)'
  BY <1>1, Zenon DEF BodyAt, input, parser
<1> QED
  BY <1>2, Zenon DEF InBody

LEMMA StepContinue ==
  ASSUME BodyInv, phase = "parsing", NEW q \in Nat, pos + q <= end, Continue(q),
         InHeaders' \/ InBody'
  PROVE  BodyInv'
<1>1. StreamOf(stream', sent') /\ Buffer'
  BY DEF BodyInv, Buffer, Continue, input
<1>2. pos' = pos + q /\ pos' <= end' /\ pos' \in Nat /\ end' \in Nat
  BY <1>1, Zenon DEF BodyInv, Buffer, Continue
<1>3. \/ phase' = "reading" /\ pos' = end'
      \/ phase' = "parsing" /\ pos' < end'
  BY <1>2 DEF Continue
<1> QED
  BY <1>1, <1>3, Zenon DEF BodyInv, Place

LEMMA StepComplete ==
  ASSUME BodyInv, phase = "parsing", NEW q \in Nat, pos + q <= end, NEW m,
         Complete(m, q), msg' = m, m.handler => delivered' = m.payload,
         m.keep => Gap(stream, sent, pos + q, handled + 2)
  PROVE  BodyInv'
<1>1. /\ UNCHANGED <<stream, sent, end>> /\ pos' = pos + q /\ handled' = handled + 1
      /\ mstate' = "END" /\ phase' = "handling"
      /\ lifecycle' = IF ~m.keep THEN "close"
                      ELSE IF pos' = end THEN "keepalive" ELSE "pipelined"
  BY Zenon DEF Complete, input
<1>2. pos \in Nat /\ end \in Nat /\ handled \in Nat /\ end <= Size(stream)
  BY Zenon DEF BodyInv, Buffer
<1>3. StreamOf(stream', sent') /\ Buffer'
  BY <1>1, <1>2 DEF BodyInv, Buffer
<1>4. ASSUME lifecycle' # "close" PROVE Ready'
  <2>1. Gap(stream, sent, pos + q, handled + 2)
    BY <1>1, <1>4, Zenon
  <2>2. handled' + 1 = handled + 2
    BY <1>1, <1>2
  <2>3. Gap(stream', sent', pos', handled' + 1)
    BY <1>1, <2>1, <2>2, Zenon
  <2>4. IF lifecycle' = "pipelined" THEN pos' < end' ELSE pos' = end'
    BY <1>1, <1>2, <1>4
  <2> QED
    BY <2>3, <2>4, Zenon DEF Ready
<1> QED
  BY <1>1, <1>3, <1>4, Zenon DEF BodyInv, Place

LEMMA StepFailed ==
  ASSUME BodyInv, phase \in {"parsing", "reading"}, phase' = "closed",
         UNCHANGED <<input, pos, end, parser, handled>>
  PROVE  BodyInv'
<1>1. StreamOf(stream', sent') /\ Buffer'
  BY Zenon DEF BodyInv, Buffer, input
<1>2. InHeaders \/ InBody
  BY Zenon DEF BodyInv, Place
<1>3. mstate' \in {"HEADERS", "END"} \/ InBody'
  BY <1>2, SameBody, Zenon DEF InHeaders, parser
<1> QED
  BY <1>1, <1>3, Zenon DEF BodyInv, Place

LEMMA StepSend ==
  ASSUME AllWellFormed, BodyInv, NEW m \in Messages, Send(m)
  PROVE  BodyInv'
<1>1. /\ Sent(stream, sent, m, stream', sent')
      /\ UNCHANGED <<pos, end, parser, handled, lifecycle, phase>>
  BY Zenon DEF Send, Sent, Size
<1>2. StreamOf(stream, sent) /\ Buffer /\ stream \in Seq(Letters) /\ sent \in Seq(Messages)
  BY Zenon DEF BodyInv, StreamOf
<1>3. StreamOf(stream', sent')
  BY <1>1, <1>2, StreamGrows, Zenon
<1>4. Size(stream) <= Size(stream') /\ Size(stream) \in Nat /\ Size(stream') \in Nat
  BY <1>1, <1>2, SentIs, WiresAreSymbols
<1>5. Buffer'
  BY <1>1, <1>2, <1>4 DEF Buffer
<1>6. PICK p \in Nat, i \in Nat : p = pos /\ i = handled + 1 /\ p <= Size(stream)
  BY <1>2, <1>4 DEF Buffer
<1>7. Gap(stream, sent, p, i) => Gap(stream', sent', p, i)
  BY <1>1, <1>2, <1>6, GapGrows, Zenon
<1>8. p = pos' /\ i = handled' + 1
  BY <1>1, <1>6, Zenon
<1>9. InHeaders => InHeaders'
  BY <1>1, <1>6, <1>7, <1>8, Zenon DEF InHeaders, parser
<1>10. Ready => Ready'
  BY <1>1, <1>6, <1>7, <1>8, Zenon DEF Ready
<1>11. ASSUME InBody PROVE InBody'
  <2>1. PICK k \in Nat, n \in Nat : BodyAt(k, n)
    BY <1>11, Zenon DEF InBody
  <2>2. At(stream, sent, k, i) /\ msg = sent[i]
    BY <1>6, <2>1, Zenon DEF BodyAt
  <2>3. At(stream', sent', k, i)
    BY <1>1, <1>2, <2>2, AtGrows, Zenon
  <2>4. sent'[i] = sent[i]
    <3>1. i \in 1 .. Size(sent)
      BY <2>2, Zenon DEF At
    <3> QED
      BY <1>1, <1>2, <3>1, SentIs, WiresAreSymbols
  <2>5. BodyAt(k, n)'
    BY <1>1, <1>8, <2>1, <2>2, <2>3, <2>4, Zenon DEF BodyAt, parser
  <2> QED
    BY <2>5, Zenon DEF InBody
<1>12. Place'
  <2>1. Place
    BY Zenon DEF BodyInv
  <2>2. UNCHANGED <<pos, end, mstate, msg, delivered, lifecycle, phase>>
    BY <1>1, Zenon DEF parser
  <2> HIDE <1>1
  <2> QED
    BY <1>9, <1>10, <1>11, <2>1, <2>2, Zenon DEF Place
<1> QED
  BY <1>3, <1>5, <1>12, Zenon DEF BodyInv

LEMMA StepReceive ==
  ASSUME BodyInv, Receive
  PROVE  BodyInv'
<1>1. StreamOf(stream', sent') /\ Buffer'
  BY Zenon DEF BodyInv, Buffer, Receive, input
<1>2. Ready
  BY Zenon DEF BodyInv, Place, Receive
<1>3. InHeaders'
  BY <1>2, Zenon DEF Receive, Ready, InHeaders, input
<1>4. \/ phase' = "reading" /\ pos' = end'
      \/ phase' = "parsing" /\ pos' < end'
  BY <1>2, Zenon DEF Receive, Ready
<1> QED
  BY <1>1, <1>3, <1>4, Zenon DEF BodyInv, Place

LEMMA StepRead ==
  ASSUME BodyInv, NEW n \in 1 .. ReadMax, ReadMax \in Nat, Read(n)
  PROVE  BodyInv'
<1>1. pos = end /\ pos \in Nat /\ handled \in Nat /\ n \in Nat /\ n > 0 /\ (InHeaders \/ InBody)
  BY DEF BodyInv, Buffer, Place, Read
<1>2. /\ pos' = pos /\ end' = end + n /\ end + n <= Size(stream) /\ phase' = "parsing"
      /\ UNCHANGED <<input, parser, handled, lifecycle>>
  BY <1>1, Zenon DEF Read, Size
<1>3. StreamOf(stream', sent') /\ Buffer'
  BY <1>1, <1>2 DEF BodyInv, Buffer, input
<1>4. InHeaders => InHeaders'
  BY <1>2, Zenon DEF InHeaders, input, parser
<1>5. InBody => InBody'
  BY <1>2, SameBody, Zenon
<1>6. pos' < end'
  BY <1>1, <1>2
<1> QED
  BY <1>1, <1>2, <1>3, <1>4, <1>5, <1>6, Zenon DEF BodyInv, Place

LEMMA StepRespond ==
  ASSUME BodyInv, Respond
  PROVE  BodyInv'
<1>1. StreamOf(stream', sent') /\ Buffer'
  BY Zenon DEF BodyInv, Buffer, Respond, input
<1>2. mstate = "END" /\ (lifecycle # "close" => Ready)
  BY Zenon DEF BodyInv, Place, Respond
<1>3. Ready => Ready'
  BY Zenon DEF Respond, Ready, input
<1>4. mstate' = "END" /\ phase' \in IF lifecycle = "close" THEN {"closed"} ELSE {"receive", "closed"}
  BY <1>2, Zenon DEF Respond, parser
<1> QED
  BY <1>1, <1>2, <1>3, <1>4, Zenon DEF BodyInv, Place
-----------------------------------------------------------------------------
(* The steps of the parser                                                 *)

LEMMA SentWellFormed ==
  ASSUME AllWellFormed, StreamOf(stream, sent), NEW k, NEW i, At(stream, sent, k, i)
  PROVE  WellFormed(sent[i]) /\ Size(sent[i].wire) \in Nat
<1>1. i \in 1 .. Size(sent) /\ sent[i] \in Messages
  BY SizeFacts, Zenon DEF StreamOf, At
<1> QED
  BY <1>1, WiresAreSymbols, Zenon DEF AllWellFormed

\* The parser is in a message: the character it has next is of its wire.
LEMMA BodyFacts ==
  ASSUME AllWellFormed, BodyInv, NEW k \in Nat, NEW n \in Nat, BodyAt(k, n)
  PROVE  /\ WellFormed(msg) /\ msg.handler
         /\ n < Size(msg.wire) => Char = msg.wire[n + 1]
         /\ \A q \in Nat : n + q <= Size(msg.wire) => Carries(stream, pos, msg.wire, n, q)
         /\ \A q \in Nat : n + q <= Size(msg.wire) /\ BlankAfter(msg, n + q)
              => Gap(stream, sent, pos + q, handled + 2)
         /\ Size(msg.wire) \in Nat
<1>1. PICK i \in Nat : i = handled + 1
  BY DEF BodyInv, Buffer
<1>2. /\ pos = k + n /\ At(stream, sent, k, i) /\ msg = sent[i] /\ msg.handler
      /\ StreamOf(stream, sent)
  BY <1>1, Zenon DEF BodyAt, BodyInv
<1>3. WellFormed(msg) /\ Size(msg.wire) \in Nat
  BY <1>2, SentWellFormed, Zenon
<1>4. \A q \in Nat : n + q <= Size(msg.wire) => Carries(stream, pos, msg.wire, n, q)
  BY <1>2, <1>3, WireCarries, Zenon
<1>5. ASSUME n < Size(msg.wire) PROVE Char = msg.wire[n + 1]
  <2>1. Carries(stream, pos, msg.wire, n, 1)
    BY <1>3, <1>4, <1>5
  <2> QED
    BY <2>1 DEF Carries, Char
<1>6. ASSUME NEW q \in Nat, n + q <= Size(msg.wire), BlankAfter(msg, n + q)
      PROVE  Gap(stream, sent, pos + q, handled + 2)
  <2>1. n + q \in Nat /\ k + (n + q) = pos + q /\ i + 1 = handled + 2
    <3>1. handled \in Nat
      BY Zenon DEF BodyInv, Buffer
    <3> QED
      BY <1>1, <1>2, <3>1
  <2>2. Gap(stream, sent, k + (n + q), i + 1)
    BY <1>2, <1>6, <2>1, GapAfter, Zenon
  <2> QED
    BY <2>1, <2>2, Zenon
<1> QED
  BY <1>2, <1>3, <1>4, <1>5, <1>6, Zenon

\* A step of q bytes that stays in the message.
LEMMA StepInBody ==
  ASSUME BodyInv, phase = "parsing", NEW k \in Nat, NEW n \in Nat, BodyAt(k, n),
         NEW q \in Nat, pos + q <= end, Continue(q), msg' = msg,
         Body(msg, n + q, mstate', cstate', digits', left', delivered')
  PROVE  BodyInv'
<1>1. pos' = k + (n + q) /\ UNCHANGED <<stream, sent, handled>>
  BY DEF BodyAt, Continue, input
<1>2. BodyAt(k, n + q)'
  <2>1. PICK n2 \in Nat : n2 = n + q
    OBVIOUS
  <2> QED
    BY <1>1, Zenon DEF BodyAt
<1>3. InBody'
  <2>1. PICK n2 \in Nat : n2 = n + q
    OBVIOUS
  <2>2. BodyAt(k, n2)'
    BY <1>2, <2>1, Zenon
  <2> QED
    BY <2>2, Zenon DEF InBody
<1> QED
  BY <1>3, StepContinue, Zenon

LEMMA StepHead ==
  ASSUME AllWellFormed, BodyInv, ParseHead
  PROVE  BodyInv'
<1>1. /\ phase = "parsing" /\ mstate = "HEADERS" /\ pos < end
      /\ pos \in Nat /\ end \in Nat /\ handled \in Nat /\ end <= Size(stream)
      /\ StreamOf(stream, sent)
  BY Zenon DEF ParseHead, BodyInv, Buffer, Place
<1>2. InHeaders
  <2>1. ~InBody
    BY <1>1, Zenon DEF InBody, BodyAt, Body
  <2> QED
    BY <1>1, <2>1, Zenon DEF BodyInv, Place
<1>3. pos < Size(stream) /\ pos + 1 <= end /\ Size(stream) \in Nat
  BY <1>1, SizeFacts DEF StreamOf
<1>4. \/ Char[1] \in {"sp", "cr", "lf"} /\ Gap(stream, sent, pos + 1, handled + 1)
      \/ At(stream, sent, pos + 1, handled + 1)
  BY <1>1, <1>2, <1>3, GapStep, Zenon DEF InHeaders, Char
<1>5. CASE Char[1] \in {"sp", "cr", "lf"} /\ Gap(stream, sent, pos + 1, handled + 1)
  <2>1. Continue(1) /\ UNCHANGED parser
    BY <1>5, Zenon DEF ParseHead
  <2>2. InHeaders'
    BY <1>2, <1>5, <2>1, Zenon DEF InHeaders, Continue, input, parser
  <2> QED
    BY <1>1, <1>3, <2>1, <2>2, StepContinue, Zenon
<1>6. CASE At(stream, sent, pos + 1, handled + 1)
  <2>1. Char = <<"head", handled + 1>>
    BY <1>6, Zenon DEF At, Char
  <2>2. Char[1] = "head" /\ Char[2] = handled + 1
    BY <2>1, Zenon
  <2>3. PICK m : m = sent[handled + 1]
    BY Zenon
  <2>4. WellFormed(m) /\ Size(m.wire) \in Nat
    BY <1>1, <1>6, <2>3, SentWellFormed, Zenon
  <2>5. CASE Failed
    <3>1. phase' = "closed" /\ UNCHANGED <<input, pos, end, parser, handled>>
      BY <2>5, Zenon DEF Failed
    <3> QED
      BY <1>1, <3>1, StepFailed, Zenon
  <2>6. CASE m.framing \notin {"bad", "malformed"} /\ FinishHeaderParsing(m)
    <3>1. /\ msg' = m /\ left' = m.length
          /\ UNCHANGED <<cstate, digits, delivered>>
          /\ cstate = "SIZE_START" /\ delivered = <<>>
      BY <1>2, <2>6, Zenon DEF FinishHeaderParsing, InHeaders
    <3>2. CASE (NextState(m) = "END" \/ ~m.handler) /\ Complete(m, 1)
      <4>1. m.handler => delivered' = m.payload
        BY <2>4, <2>6, <3>1, <3>2, HeadStep, Zenon
      <4>2. ASSUME m.keep PROVE Gap(stream, sent, pos + 1, handled + 2)
        <5>1. BlankAfter(m, 0)
          BY <2>4, <2>6, <3>2, <4>2, HeadStep, Zenon
        <5>2. PICK p \in Nat, i \in Nat : p = pos + 1 /\ i = handled + 1
          BY <1>1
        <5>3. p + 0 = p /\ i + 1 = handled + 2 /\ 0 <= Size(m.wire)
          BY <1>1, <2>4, <5>2
        <5>4. Gap(stream, sent, p + 0, i + 1)
          BY <1>1, <1>6, <2>3, <5>1, <5>2, <5>3, GapAfter, Zenon
        <5> QED
          BY <5>2, <5>3, <5>4, Zenon
      <4> QED
        BY <1>1, <1>3, <3>1, <3>2, <4>1, <4>2, StepComplete, Zenon
    <3>3. CASE /\ NextState(m) # "END" /\ m.handler
               /\ mstate' = NextState(m) /\ Continue(1)
      <4>1. Body(m, 0, mstate', cstate', digits', left', delivered')
        BY <2>4, <2>6, <3>1, <3>3, HeadStep, Zenon DEF Body
      <4>2. PICK p \in Nat : p = pos + 1
        BY <1>1
      <4>3. /\ pos' = p + 0 /\ UNCHANGED <<stream, sent, handled>>
        BY <3>3, <4>2 DEF Continue, input
      <4>4. BodyAt(p, 0)'
        BY <1>6, <2>3, <3>1, <3>3, <4>1, <4>2, <4>3, Zenon DEF BodyAt
      <4>5. InBody'
        BY <4>4, Zenon DEF InBody
      <4> QED
        BY <1>1, <1>3, <3>3, <4>5, StepContinue, Zenon
    <3> QED
      BY <2>6, <3>2, <3>3, Zenon DEF FinishHeaderParsing
  <2> QED
    BY <2>2, <2>3, <2>5, <2>6, Zenon DEF ParseHead
<1> QED
  BY <1>4, <1>5, <1>6, Zenon

LEMMA StepContent ==
  ASSUME AllWellFormed, BodyInv, ConsumeContent
  PROVE  BodyInv'
<1>1. /\ phase = "parsing" /\ mstate = "CONTENT" /\ pos < end
      /\ pos \in Nat /\ end \in Nat /\ StreamOf(stream, sent)
  BY Zenon DEF ConsumeContent, BodyInv, Buffer, Place
<1>2. InBody
  BY <1>1, Zenon DEF BodyInv, Place, InHeaders
<1>3. PICK k \in Nat, n \in Nat : BodyAt(k, n)
  BY <1>2, Zenon DEF InBody
<1>4. InContent(msg, n, left, delivered)
  BY <1>1, <1>3, Zenon DEF BodyAt, Body
<1>5. WellFormed(msg) /\ msg.handler /\ Size(msg.wire) \in Nat
  BY <1>3, BodyFacts, Zenon
<1>6. left \in Nat /\ left > 0 /\ n + left <= Size(msg.wire)
  BY <1>4, <1>5, ContentStep, Zenon
<1>7. PICK q \in Nat : q = IF Avail >= left THEN left ELSE Avail
  <2>1. Avail \in Nat
    BY <1>1 DEF Avail
  <2> QED
    BY <1>6, <2>1, Zenon
<1>8. /\ q \in 1 .. left /\ pos + q <= end /\ n + q <= Size(msg.wire)
      /\ Avail >= left => q = left
      /\ Avail < left => q < left
  BY <1>1, <1>5, <1>6, <1>7 DEF Avail
<1>9. /\ delivered' = Extended(delivered, stream, pos, q)
      /\ left' = left - q /\ UNCHANGED <<cstate, digits, msg>>
      /\ \/ Avail >= left /\ Complete(msg, q)
         \/ Avail < left /\ Continue(q) /\ UNCHANGED mstate
  BY <1>7, Zenon DEF ConsumeContent, Deliver, Extended
<1>10. Carries(stream, pos, msg.wire, n, q)
  BY <1>3, <1>8, BodyFacts, Zenon
<1>11. /\ q = left => delivered' = msg.payload
       /\ q < left => InContent(msg, n + q, left', delivered')
  <2>1. \A st : \A p \in Nat, y \in 1 .. left : Carries(st, p, msg.wire, n, y) =>
          /\ y = left => Extended(delivered, st, p, y) = msg.payload
          /\ y < left => InContent(msg, n + y, left - y, Extended(delivered, st, p, y))
    BY <1>4, <1>5, ContentStep, Zenon
  <2>2. /\ q = left => Extended(delivered, stream, pos, q) = msg.payload
        /\ q < left => InContent(msg, n + q, left - q, Extended(delivered, stream, pos, q))
    BY <1>1, <1>8, <1>10, <2>1, Zenon
  <2> QED
    BY <1>9, <2>2, Zenon
<1>12. CASE Avail >= left /\ Complete(msg, q)
  <2>1. ASSUME msg.keep PROVE Gap(stream, sent, pos + q, handled + 2)
    <3>1. BlankAfter(msg, n + q)
      BY <1>4, <1>5, <1>8, <1>12, <2>1, ContentStep, Zenon
    <3> QED
      BY <1>3, <1>8, <3>1, BodyFacts, Zenon
  <2> QED
    BY <1>1, <1>8, <1>9, <1>11, <1>12, <2>1, StepComplete, Zenon
<1>13. CASE Avail < left /\ Continue(q) /\ UNCHANGED mstate
  <2>1. Body(msg, n + q, mstate', cstate', digits', left', delivered')
    BY <1>1, <1>8, <1>11, <1>13, Zenon DEF Body
  <2> QED
    BY <1>1, <1>3, <1>8, <1>9, <1>13, <2>1, StepInBody, Zenon
<1> QED
  BY <1>9, <1>12, <1>13, Zenon
-----------------------------------------------------------------------------
(* The states of PARSE_CHUNKS                                              *)

\* The parser is in chunk c of the message, n bytes after its headers.
ChunkPlace(k, n, c) ==
  /\ BodyAt(k, n) /\ c \in msg.chunks
  /\ InChunk(msg, c, n, cstate, digits, left, delivered)

LEMMA ChunkFacts ==
  ASSUME AllWellFormed, BodyInv, NEW s, InChunks(s)
  PROVE  /\ pos \in Nat /\ end \in Nat /\ pos < end /\ pos + 1 <= end
         /\ \E k \in Nat, n \in Nat, c \in msg.chunks : ChunkPlace(k, n, c)
<1>1. pos \in Nat /\ end \in Nat /\ pos < end /\ mstate = "CHUNKS" /\ (InHeaders \/ InBody)
  BY Zenon DEF BodyInv, Buffer, Place, InChunks
<1>2. PICK k \in Nat, n \in Nat : BodyAt(k, n)
  BY <1>1, Zenon DEF InHeaders, InBody
<1>3. PICK c \in msg.chunks : InChunk(msg, c, n, cstate, digits, left, delivered)
  BY <1>1, <1>2, Zenon DEF BodyAt, Body
<1>4. ChunkPlace(k, n, c)
  BY <1>2, <1>3, Zenon DEF ChunkPlace
<1> QED
  BY <1>1, <1>4

LEMMA PlaceFacts ==
  ASSUME AllWellFormed, BodyInv, NEW s, InChunks(s), NEW k \in Nat, NEW n \in Nat, NEW c,
         ChunkPlace(k, n, c)
  PROVE  /\ ChunkedWell(msg) /\ c \in msg.chunks /\ BodyAt(k, n) /\ msg.framing = "chunked"
         /\ InChunk(msg, c, n, s, digits, left, delivered)
         /\ n < Size(msg.wire) => Char = msg.wire[n + 1]
<1>1. BodyAt(k, n) /\ c \in msg.chunks /\ cstate = s /\ mstate = "CHUNKS"
  BY Zenon DEF ChunkPlace, InChunks
<1>2. msg.framing = "chunked"
  BY <1>1, Zenon DEF BodyAt, Body
<1>3. WellFormed(msg) /\ (n < Size(msg.wire) => Char = msg.wire[n + 1])
  BY <1>1, BodyFacts, Zenon
<1>4. ChunkedWell(msg)
  BY <1>2, <1>3, Zenon DEF WellFormed, ChunkedWell
<1> QED
  BY <1>1, <1>2, <1>3, <1>4, Zenon DEF ChunkPlace

\* The machine goes on, in chunk d of the message.
LEMMA StepInChunks ==
  ASSUME AllWellFormed, BodyInv, NEW s, InChunks(s), NEW k \in Nat, NEW n \in Nat, NEW c,
         ChunkPlace(k, n, c), NEW q \in Nat, pos + q <= end, Continue(q),
         UNCHANGED <<mstate, msg>>,
         NEW d \in msg.chunks, InChunk(msg, d, n + q, cstate', digits', left', delivered')
  PROVE  BodyInv'
<1>1. phase = "parsing" /\ mstate' = "CHUNKS" /\ msg' = msg
  BY Zenon DEF InChunks
<1>2. msg.framing = "chunked" /\ BodyAt(k, n)
  BY PlaceFacts, Zenon
<1>3. Body(msg, n + q, mstate', cstate', digits', left', delivered')
  BY <1>1, <1>2, Zenon DEF Body
<1> QED
  BY <1>1, <1>2, <1>3, StepInBody, Zenon

LEMMA ChunksFailed ==
  ASSUME BodyInv, NEW s, InChunks(s), Failed
  PROVE  BodyInv'
  BY StepFailed, Zenon DEF InChunks, Failed

LEMMA StepStart ==
  ASSUME AllWellFormed, BodyInv, ChunkSizeStart
  PROVE  BodyInv'
<1>1. InChunks("SIZE_START")
  BY Zenon DEF ChunkSizeStart
<1>2. pos + 1 <= end
  BY <1>1, ChunkFacts, Zenon
<1>3. PICK k \in Nat, n \in Nat, c \in msg.chunks : ChunkPlace(k, n, c)
  BY <1>1, ChunkFacts, Zenon
<1>4. /\ ChunkedWell(msg) /\ c \in msg.chunks
      /\ InChunk(msg, c, n, "SIZE_START", digits, left, delivered)
      /\ n < Size(msg.wire) => Char = msg.wire[n + 1]
  BY <1>1, <1>3, PlaceFacts, Zenon
<1>5. /\ Char[1] = "hex" => InChunk(msg, c, n + 1, "SIZE", <<Char[2]>>, left, delivered)
      /\ Char[1] # "hex" => InChunk(msg, c, n + 1, "SIZE_START", digits, left, delivered)
  BY <1>4, StartStep, Zenon
<1>6. CASE /\ Char[1] = "hex" /\ digits' = <<Char[2]>> /\ ChunkGoto("SIZE")
           /\ UNCHANGED left
  <2>1. Continue(1) /\ cstate' = "SIZE" /\ UNCHANGED <<mstate, msg, delivered>>
    BY <1>6, Zenon DEF ChunkGoto
  <2>2. InChunk(msg, c, n + 1, cstate', digits', left', delivered')
    BY <1>5, <1>6, <2>1, Zenon
  <2> QED
    BY <1>1, <1>2, <1>3, <1>4, <2>1, <2>2, StepInChunks, Zenon
<1>7. CASE /\ Char[1] \in {"sp", "cr", "lf"} /\ ChunkGoto(cstate)
           /\ UNCHANGED <<digits, left>>
  <2>1. Continue(1) /\ cstate' = "SIZE_START" /\ UNCHANGED <<mstate, msg, delivered>>
    BY <1>1, <1>7, Zenon DEF ChunkGoto, InChunks
  <2>2. InChunk(msg, c, n + 1, cstate', digits', left', delivered')
    BY <1>5, <1>7, <2>1, Zenon
  <2> QED
    BY <1>1, <1>2, <1>3, <1>4, <2>1, <2>2, StepInChunks, Zenon
<1>8. CASE Failed
  BY <1>1, <1>8, ChunksFailed, Zenon
<1> QED
  BY <1>6, <1>7, <1>8, Zenon DEF ChunkSizeStart

LEMMA StepSize ==
  ASSUME AllWellFormed, BodyInv, ChunkSize
  PROVE  BodyInv'
<1>1. InChunks("SIZE")
  BY Zenon DEF ChunkSize
<1>2. pos + 1 <= end
  BY <1>1, ChunkFacts, Zenon
<1>3. PICK k \in Nat, n \in Nat, c \in msg.chunks : ChunkPlace(k, n, c)
  BY <1>1, ChunkFacts, Zenon
<1>4. /\ ChunkedWell(msg) /\ c \in msg.chunks
      /\ InChunk(msg, c, n, "SIZE", digits, left, delivered)
      /\ n < Size(msg.wire) => Char = msg.wire[n + 1]
  BY <1>1, <1>3, PlaceFacts, Zenon
<1>5. /\ Char[1] = "hex" =>
           InChunk(msg, c, n + 1, "SIZE", Append(digits, Char[2]), left, delivered)
      /\ Char[1] = "cr" => InChunk(msg, c, n + 1, "LF_AFTER_SIZE", digits, left, delivered)
      /\ Char[1] = "sp" => InChunk(msg, c, n + 1, "CR_AFTER_SIZE", digits, left, delivered)
      /\ Char[1] = ";" => InChunk(msg, c, n + 1, "IGNORED_TEXT", digits, left, delivered)
  BY <1>4, SizeStep, Zenon
<1>6. CASE /\ Char[1] = "hex" /\ digits' = Append(digits, Char[2]) /\ ChunkGoto(cstate)
           /\ UNCHANGED left
  <2>1. Continue(1) /\ cstate' = "SIZE" /\ UNCHANGED <<mstate, msg, delivered>>
    BY <1>1, <1>6, Zenon DEF ChunkGoto, InChunks
  <2>2. InChunk(msg, c, n + 1, cstate', digits', left', delivered')
    BY <1>5, <1>6, <2>1, Zenon
  <2> QED
    BY <1>1, <1>2, <1>3, <1>4, <2>1, <2>2, StepInChunks, Zenon
<1>7. CASE \E t \in {<<"cr", "LF_AFTER_SIZE">>, <<"sp", "CR_AFTER_SIZE">>,
                     <<";", "IGNORED_TEXT">>} :
             Char[1] = t[1] /\ ChunkGoto(t[2]) /\ UNCHANGED <<digits, left>>
  <2>1. /\ \/ Char[1] = "cr" /\ ChunkGoto("LF_AFTER_SIZE")
           \/ Char[1] = "sp" /\ ChunkGoto("CR_AFTER_SIZE")
           \/ Char[1] = ";" /\ ChunkGoto("IGNORED_TEXT")
        /\ UNCHANGED <<digits, left>>
    <3>1. PICK t \in {<<"cr", "LF_AFTER_SIZE">>, <<"sp", "CR_AFTER_SIZE">>,
                      <<";", "IGNORED_TEXT">>} :
            Char[1] = t[1] /\ ChunkGoto(t[2]) /\ UNCHANGED <<digits, left>>
      BY <1>7, Zenon
    <3>2. CASE t = <<"cr", "LF_AFTER_SIZE">>
      BY <3>1, <3>2, Zenon
    <3>3. CASE t = <<"sp", "CR_AFTER_SIZE">>
      BY <3>1, <3>3, Zenon
    <3>4. CASE t = <<";", "IGNORED_TEXT">>
      BY <3>1, <3>4, Zenon
    <3> QED
      BY <3>2, <3>3, <3>4, Zenon
  <2>2. Continue(1) /\ UNCHANGED <<mstate, msg, delivered>>
    BY <2>1, Zenon DEF ChunkGoto
  <2>3. InChunk(msg, c, n + 1, cstate', digits', left', delivered')
    BY <1>5, <2>1, <2>2, Zenon DEF ChunkGoto
  <2> QED
    BY <1>1, <1>2, <1>3, <1>4, <2>2, <2>3, StepInChunks, Zenon
<1>8. CASE Failed
  BY <1>1, <1>8, ChunksFailed, Zenon
<1> QED
  BY <1>6, <1>7, <1>8, Zenon DEF ChunkSize

LEMMA StepText ==
  ASSUME AllWellFormed, BodyInv, IgnoredText \/ CrAfterSize
  PROVE  BodyInv'
<1>1. PICK s \in {"CR_AFTER_SIZE", "IGNORED_TEXT"} : InChunks(s)
  BY Zenon DEF IgnoredText, CrAfterSize
<1>2. pos + 1 <= end
  BY <1>1, ChunkFacts, Zenon
<1>3. PICK k \in Nat, n \in Nat, c \in msg.chunks : ChunkPlace(k, n, c)
  BY <1>1, ChunkFacts, Zenon
<1>4. /\ ChunkedWell(msg) /\ c \in msg.chunks
      /\ InChunk(msg, c, n, s, digits, left, delivered)
      /\ n < Size(msg.wire) => Char = msg.wire[n + 1]
  BY <1>1, <1>3, PlaceFacts, Zenon
<1>5. /\ Char[1] = "cr" => InChunk(msg, c, n + 1, "LF_AFTER_SIZE", digits, left, delivered)
      /\ Char[1] # "cr" => InChunk(msg, c, n + 1, s, digits, left, delivered)
  BY <1>4, TextStep, Zenon
<1>6. \/ Failed
      \/ /\ \/ Char[1] = "cr" /\ ChunkGoto("LF_AFTER_SIZE")
            \/ Char[1] # "cr" /\ ChunkGoto(s)
         /\ UNCHANGED <<digits, left>>
  BY <1>1, Zenon DEF IgnoredText, CrAfterSize, InChunks
<1>7. CASE Failed
  BY <1>1, <1>7, ChunksFailed, Zenon
<1>8. CASE /\ \/ Char[1] = "cr" /\ ChunkGoto("LF_AFTER_SIZE")
              \/ Char[1] # "cr" /\ ChunkGoto(s)
           /\ UNCHANGED <<digits, left>>
  <2>1. Continue(1) /\ UNCHANGED <<mstate, msg, delivered>>
    BY <1>8, Zenon DEF ChunkGoto
  <2>2. InChunk(msg, c, n + 1, cstate', digits', left', delivered')
    BY <1>5, <1>8, <2>1, Zenon DEF ChunkGoto
  <2> QED
    BY <1>1, <1>2, <1>3, <1>4, <2>1, <2>2, StepInChunks, Zenon
<1> QED
  BY <1>6, <1>7, <1>8, Zenon

LEMMA StepLf ==
  ASSUME AllWellFormed, BodyInv, LfAfterSize
  PROVE  BodyInv'
<1>1. InChunks("LF_AFTER_SIZE")
  BY Zenon DEF LfAfterSize
<1>2. pos + 1 <= end
  BY <1>1, ChunkFacts, Zenon
<1>3. PICK k \in Nat, n \in Nat, c \in msg.chunks : ChunkPlace(k, n, c)
  BY <1>1, ChunkFacts, Zenon
<1>4. /\ ChunkedWell(msg) /\ c \in msg.chunks
      /\ InChunk(msg, c, n, "LF_AFTER_SIZE", digits, left, delivered)
  BY <1>1, <1>3, PlaceFacts, Zenon
<1>5. CASE Failed
  BY <1>1, <1>5, ChunksFailed, Zenon
<1>6. CASE /\ left' = ChunkLength /\ UNCHANGED digits
           /\ ChunkGoto(IF left' = 0 THEN "FINAL_CR_OR_FOOTERS" ELSE "CHUNK")
  <2>1. Continue(1) /\ UNCHANGED <<mstate, msg, delivered>>
    BY <1>6, Zenon DEF ChunkGoto
  <2>2. PICK z : z = SizeValue(digits)
    BY Zenon
  <2>3. /\ left' = z /\ digits' = digits
        /\ z = 0 => cstate' = "FINAL_CR_OR_FOOTERS"
        /\ z # 0 => cstate' = "CHUNK"
    BY <1>6, <2>2, Zenon DEF ChunkGoto, ChunkLength
  <2>4. /\ z = 0 => InChunk(msg, c, n + 1, "FINAL_CR_OR_FOOTERS", digits, z, delivered)
        /\ z # 0 => InChunk(msg, c, n + 1, "CHUNK", digits, z, delivered)
    BY <1>4, <2>2, LfStep, Zenon
  <2>5. InChunk(msg, c, n + 1, cstate', digits', left', delivered')
    BY <2>1, <2>3, <2>4, Zenon
  <2> QED
    BY <1>1, <1>2, <1>3, <1>4, <2>1, <2>5, StepInChunks, Zenon
<1> QED
  BY <1>5, <1>6, Zenon DEF LfAfterSize

LEMMA StepChunk ==
  ASSUME AllWellFormed, BodyInv, Chunk
  PROVE  BodyInv'
<1>1. InChunks("CHUNK") /\ cstate = "CHUNK"
  BY Zenon DEF Chunk, InChunks
<1>2. pos \in Nat /\ end \in Nat /\ pos < end
  BY <1>1, ChunkFacts, Zenon
<1>3. PICK k \in Nat, n \in Nat, c \in msg.chunks : ChunkPlace(k, n, c)
  BY <1>1, ChunkFacts, Zenon
<1>4. /\ ChunkedWell(msg) /\ c \in msg.chunks /\ BodyAt(k, n)
      /\ InChunk(msg, c, n, "CHUNK", digits, left, delivered)
  BY <1>1, <1>3, PlaceFacts, Zenon
<1>5. left \in Nat /\ left > 0 /\ n + left < Size(msg.wire) /\ Size(msg.wire) \in Nat
  BY <1>4, DataStep, WellSize, Zenon
<1>6. PICK q \in Nat : q = IF left > Avail THEN Avail ELSE left
  <2>1. Avail \in Nat
    BY <1>2 DEF Avail
  <2> QED
    BY <1>5, <2>1, Zenon
<1>7. q \in 1 .. left /\ pos + q <= end /\ n + q <= Size(msg.wire)
  BY <1>2, <1>5, <1>6 DEF Avail
<1>8. /\ delivered' = Extended(delivered, stream, pos, q)
      /\ left' = left - q
      /\ cstate' = IF q = left THEN "CR_AFTER_CHUNK" ELSE "CHUNK"
      /\ Continue(q) /\ UNCHANGED <<mstate, digits, msg>>
  BY <1>1, <1>6, Zenon DEF Chunk, Deliver, Extended
<1>9. Carries(stream, pos, msg.wire, n, q)
  BY <1>4, <1>7, BodyFacts, Zenon
<1>10. InChunk(msg, c, n + q, cstate', digits', left', delivered')
  <2>1. \A st : \A p \in Nat, y \in 1 .. left : Carries(st, p, msg.wire, n, y)
          => InChunk(msg, c, n + y, IF y = left THEN "CR_AFTER_CHUNK" ELSE "CHUNK", digits,
                     left - y, Extended(delivered, st, p, y))
    BY <1>4, DataStep, Zenon
  <2>2. InChunk(msg, c, n + q, IF q = left THEN "CR_AFTER_CHUNK" ELSE "CHUNK", digits,
                left - q, Extended(delivered, stream, pos, q))
    BY <1>2, <1>7, <1>9, <2>1, Zenon
  <2> QED
    BY <1>8, <2>2, Zenon
<1> QED
  BY <1>1, <1>3, <1>4, <1>7, <1>8, <1>10, StepInChunks, Zenon

LEMMA StepExpect ==
  ASSUME AllWellFormed, BodyInv,
         \/ Expect("CR_AFTER_CHUNK", "cr", "LF_AFTER_CHUNK")
         \/ Expect("LF_AFTER_CHUNK", "lf", "SIZE_START")
  PROVE  BodyInv'
<1>1. ASSUME Expect("CR_AFTER_CHUNK", "cr", "LF_AFTER_CHUNK")
      PROVE  BodyInv'
  <2>1. InChunks("CR_AFTER_CHUNK")
    BY <1>1, Zenon DEF Expect
  <2>2. pos + 1 <= end
    BY <2>1, ChunkFacts, Zenon
  <2>3. PICK k \in Nat, n \in Nat, c \in msg.chunks : ChunkPlace(k, n, c)
    BY <2>1, ChunkFacts, Zenon
  <2>4. /\ ChunkedWell(msg) /\ c \in msg.chunks
        /\ InChunk(msg, c, n, "CR_AFTER_CHUNK", digits, left, delivered)
    BY <2>1, <2>3, PlaceFacts, Zenon
  <2>5. CASE Failed
    BY <2>1, <2>5, ChunksFailed, Zenon
  <2>6. CASE ChunkGoto("LF_AFTER_CHUNK") /\ UNCHANGED <<digits, left>>
    <3>1. /\ Continue(1) /\ cstate' = "LF_AFTER_CHUNK"
          /\ UNCHANGED <<mstate, msg, delivered>>
      BY <2>6, Zenon DEF ChunkGoto
    <3>2. InChunk(msg, c, n + 1, "LF_AFTER_CHUNK", digits, left, delivered)
      BY <2>4, AfterDataStep, Zenon
    <3>3. InChunk(msg, c, n + 1, cstate', digits', left', delivered')
      BY <2>6, <3>1, <3>2, Zenon
    <3> QED
      BY <2>1, <2>2, <2>3, <2>4, <3>1, <3>3, StepInChunks, Zenon
  <2> QED
    BY <1>1, <2>5, <2>6, Zenon DEF Expect
<1>2. ASSUME Expect("LF_AFTER_CHUNK", "lf", "SIZE_START")
      PROVE  BodyInv'
  <2>1. InChunks("LF_AFTER_CHUNK")
    BY <1>2, Zenon DEF Expect
  <2>2. pos + 1 <= end
    BY <2>1, ChunkFacts, Zenon
  <2>3. PICK k \in Nat, n \in Nat, c \in msg.chunks : ChunkPlace(k, n, c)
    BY <2>1, ChunkFacts, Zenon
  <2>4. /\ ChunkedWell(msg) /\ c \in msg.chunks
        /\ InChunk(msg, c, n, "LF_AFTER_CHUNK", digits, left, delivered)
    BY <2>1, <2>3, PlaceFacts, Zenon
  <2>5. CASE Failed
    BY <2>1, <2>5, ChunksFailed, Zenon
  <2>6. CASE ChunkGoto("SIZE_START") /\ UNCHANGED <<digits, left>>
    <3>1. Continue(1) /\ cstate' = "SIZE_START" /\ UNCHANGED <<mstate, msg, delivered>>
      BY <2>6, Zenon DEF ChunkGoto
    <3>2. PICK d \in msg.chunks :
            InChunk(msg, d, n + 1, "SIZE_START", digits, left, delivered)
      BY <2>4, AfterDataStep, Zenon
    <3>3. InChunk(msg, d, n + 1, cstate', digits', left', delivered')
      BY <2>6, <3>1, <3>2, Zenon
    <3> QED
      BY <2>1, <2>2, <2>3, <3>1, <3>3, StepInChunks, Zenon
  <2> QED
    BY <1>2, <2>5, <2>6, Zenon DEF Expect
<1> QED
  BY <1>1, <1>2, Zenon

LEMMA StepFinal ==
  ASSUME AllWellFormed, BodyInv, FinalCrOrFooters
  PROVE  BodyInv'
<1>1. InChunks("FINAL_CR_OR_FOOTERS")
  BY Zenon DEF FinalCrOrFooters
<1>2. pos \in Nat /\ end \in Nat /\ pos + 1 <= end /\ phase = "parsing"
  BY <1>1, ChunkFacts, Zenon DEF InChunks
<1>3. PICK k \in Nat, n \in Nat, c \in msg.chunks : ChunkPlace(k, n, c)
  BY <1>1, ChunkFacts, Zenon
<1>4. /\ ChunkedWell(msg) /\ c \in msg.chunks
      /\ InChunk(msg, c, n, "FINAL_CR_OR_FOOTERS", digits, left, delivered)
      /\ n < Size(msg.wire) => Char = msg.wire[n + 1]
  BY <1>1, <1>3, PlaceFacts, Zenon
<1>5. /\ delivered = msg.payload
      /\ msg.keep => Char[1] = "cr"
      /\ Char[1] = "cr" => InChunk(msg, c, n + 1, "FINAL_LF", digits, left, delivered)
  <2>1. /\ n < Size(msg.wire) /\ delivered = msg.payload
        /\ msg.keep => msg.wire[n + 1][1] = "cr"
        /\ msg.wire[n + 1][1] = "cr" =>
             InChunk(msg, c, n + 1, "FINAL_LF", digits, left, delivered)
    BY <1>4, FinalStep, Zenon
  <2>2. Char = msg.wire[n + 1]
    BY <1>4, <2>1, Zenon
  <2> QED
    BY <2>1, <2>2, Zenon
<1>6. CASE Char[1] = "cr" /\ ChunkGoto("FINAL_LF") /\ UNCHANGED <<digits, left>>
  <2>1. Continue(1) /\ cstate' = "FINAL_LF" /\ UNCHANGED <<mstate, msg, delivered>>
    BY <1>6, Zenon DEF ChunkGoto
  <2>2. InChunk(msg, c, n + 1, cstate', digits', left', delivered')
    BY <1>5, <1>6, <2>1, Zenon
  <2> QED
    BY <1>1, <1>2, <1>3, <1>4, <2>1, <2>2, StepInChunks, Zenon
<1>7. CASE Char[1] # "cr" /\ Complete(msg, 0) /\ UNCHANGED <<cstate, digits, left, msg, delivered>>
  <2>1. ~msg.keep
    BY <1>5, <1>7, Zenon
  <2>2. pos + 0 <= end
    BY <1>2
  <2> QED
    BY <1>2, <1>5, <1>7, <2>1, <2>2, StepComplete, Zenon
<1> QED
  BY <1>6, <1>7, Zenon DEF FinalCrOrFooters

LEMMA StepFinalLf ==
  ASSUME AllWellFormed, BodyInv, FinalLf
  PROVE  BodyInv'
<1>1. InChunks("FINAL_LF")
  BY Zenon DEF FinalLf
<1>2. pos \in Nat /\ end \in Nat /\ pos + 1 <= end /\ phase = "parsing"
  BY <1>1, ChunkFacts, Zenon DEF InChunks
<1>3. PICK k \in Nat, n \in Nat, c \in msg.chunks : ChunkPlace(k, n, c)
  BY <1>1, ChunkFacts, Zenon
<1>4. /\ ChunkedWell(msg) /\ c \in msg.chunks /\ BodyAt(k, n)
      /\ InChunk(msg, c, n, "FINAL_LF", digits, left, delivered)
  BY <1>1, <1>3, PlaceFacts, Zenon
<1>5. /\ delivered = msg.payload
      /\ msg.keep => n + 1 <= Size(msg.wire) /\ BlankAfter(msg, n + 1)
  BY <1>4, FinalLfStep, Zenon
<1>6. msg.keep => Gap(stream, sent, pos + 1, handled + 2)
  BY <1>4, <1>5, BodyFacts, Zenon
<1>7. CASE Failed
  BY <1>1, <1>7, ChunksFailed, Zenon
<1>8. CASE Complete(msg, 1) /\ UNCHANGED <<cstate, digits, left, msg, delivered>>
  BY <1>2, <1>5, <1>6, <1>8, StepComplete, Zenon
<1> QED
  BY <1>7, <1>8, Zenon DEF FinalLf

-----------------------------------------------------------------------------
LEMMA BodyStep ==
  ASSUME AllWellFormed, BodyInv, [BodyNext]_bodyVars
  PROVE  BodyInv'
<1>1. CASE UNCHANGED bodyVars
  <2>1. UNCHANGED <<input, pos, end, parser, handled, lifecycle, phase>>
    BY <1>1, Zenon DEF bodyVars
  <2>2. InBody => InBody'
    BY <2>1, SameBody, Zenon
  <2>3. (InHeaders => InHeaders') /\ (Ready => Ready')
    BY <2>1, Zenon DEF InHeaders, Ready, input, parser
  <2>4. Place'
    BY <2>1, <2>2, <2>3, Zenon DEF BodyInv, Place, parser
  <2> QED
    BY <2>1, <2>4, Zenon DEF BodyInv, Buffer, input
<1>2. CASE Receive
  BY <1>2, StepReceive, Zenon
<1>3. CASE \E n \in 1 .. ReadMax : Read(n)
  BY <1>3, StepRead, ReadMaxAssumption, Zenon
<1>4. CASE ParseHead
  BY <1>4, StepHead, Zenon
<1>5. CASE ConsumeContent
  BY <1>5, StepContent, Zenon
<1>6. CASE ParseChunks
  BY <1>6, StepStart, StepSize, StepText, StepLf, StepChunk, StepExpect, StepFinal,
     StepFinalLf, Zenon DEF ParseChunks
<1>7. CASE Respond
  BY <1>7, StepRespond, Zenon
<1>8. CASE ReadError
  BY <1>8, StepFailed, Zenon DEF ReadError
<1>9. CASE HandlerThrows
  BY <1>9, StepFailed, Zenon DEF HandlerThrows, Failed
<1>10. CASE \E m \in Messages : Send(m)
  BY <1>10, StepSend, Zenon
<1> QED
  BY <1>1, <1>2, <1>3, <1>4, <1>5, <1>6, <1>7, <1>8, <1>9, <1>10, Zenon
     DEF BodyNext, Server

LEMMA BodyAligned ==
  ASSUME AllWellFormed, BodyInv
  PROVE  RequestsAligned
<1> SUFFICES ASSUME phase = "parsing", mstate = "HEADERS",
                    Char[1] \notin {"sp", "cr", "lf"}
             PROVE  Char = <<"head", handled + 1>>
  BY Zenon DEF RequestsAligned
<1>1. InHeaders
  <2>1. ~InBody
    BY Zenon DEF InBody, BodyAt, Body
  <2> QED
    BY <2>1, Zenon DEF BodyInv, Place
<1>2. /\ StreamOf(stream, sent) /\ pos \in Nat /\ end \in Nat /\ pos < end
      /\ end <= Size(stream)
  BY Zenon DEF BodyInv, Buffer, Place
<1>3. pos < Size(stream)
  BY <1>2, SizeFacts DEF StreamOf
<1>4. At(stream, sent, pos + 1, handled + 1)
  BY <1>1, <1>2, <1>3, GapStep, Zenon DEF InHeaders, Char
<1> QED
  BY <1>4, Zenon DEF At, Char

LEMMA BodyDelivered ==
  ASSUME AllWellFormed, BodyInv, mstate \in {"CONTENT", "CHUNKS"}
  PROVE  \A i \in DOMAIN delivered : i <= Len(msg.payload) /\ delivered[i] = msg.payload[i]
<1>1. PICK k \in Nat, n \in Nat : BodyAt(k, n)
  BY Zenon DEF BodyInv, Place, InHeaders, InBody
<1>2. WellFormed(msg) /\ msg.payload \in Seq(Symbols) /\ Size(msg.payload) \in Nat
  BY <1>1, BodyFacts, SizeFacts, Zenon DEF WellFormed
<1>3. \E a \in Nat : a <= Size(msg.payload) /\ delivered = First(msg.payload, a)
  <2>1. CASE mstate = "CONTENT" /\ InContent(msg, n, left, delivered)
    <3>1. n < msg.length /\ delivered = First(msg.payload, n) /\ msg.framing = "length"
      BY <2>1, Zenon DEF InContent
    <3>2. msg.length = Size(msg.payload)
      BY <1>2, <3>1, Zenon DEF WellFormed, Size
    <3> QED
      BY <1>2, <3>1, <3>2
  <2>2. CASE /\ mstate = "CHUNKS" /\ msg.framing = "chunked"
             /\ \E c \in msg.chunks : InChunk(msg, c, n, cstate, digits, left, delivered)
    <3>1. PICK c \in msg.chunks : InChunk(msg, c, n, cstate, digits, left, delivered)
      BY <2>2, Zenon
    <3>2. ChunkedWell(msg)
      BY <1>2, <2>2, Zenon DEF WellFormed, ChunkedWell
    <3>3. Layout(msg, c) /\ (LastChunk(msg, c) \/ DataChunk(msg, c))
      BY <3>2, Zenon DEF ChunkedWell
    <3>4. /\ c.paid \in Nat /\ c.length \in Nat /\ c.crlf \in Nat
      BY <3>3, LayoutIs, Zenon
    <3>5. c.paid <= Size(msg.payload)
      <4>1. CASE LastChunk(msg, c)
        BY <1>2, <4>1 DEF LastChunk, Size
      <4>2. CASE DataChunk(msg, c)
        BY <1>2, <3>2, <3>4, <4>2, DataIs
      <4> QED
        BY <3>3, <4>1, <4>2, Zenon
    <3>6. CASE InHead(msg, c, n, cstate, digits, delivered)
      BY <3>4, <3>5, <3>6, Zenon DEF InHead
    <3>7. CASE InData(msg, c, n, cstate, left, delivered)
      <4>1. c.paid + c.length <= Size(msg.payload)
        BY <3>2, <3>7, DataIs, Zenon DEF InData
      <4>2. CASE /\ n \in c.crlf + 2 .. c.crlf + c.length + 1
                 /\ delivered = First(msg.payload, c.paid + (n - (c.crlf + 2)))
        <5>1. PICK a \in Nat : a = c.paid + (n - (c.crlf + 2))
          BY <3>4, <4>2
        <5>2. a <= Size(msg.payload)
          BY <1>2, <3>4, <4>1, <4>2, <5>1
        <5> QED
          BY <4>2, <5>1, <5>2, Zenon
      <4>3. CASE delivered = First(msg.payload, c.paid + c.length)
        BY <3>4, <4>1, <4>3
      <4> QED
        BY <3>7, <4>2, <4>3, Zenon DEF InData
    <3>8. CASE InLast(msg, c, n, cstate, delivered)
      BY <1>2, <3>8, FirstFacts DEF InLast
    <3> QED
      BY <3>1, <3>6, <3>7, <3>8, Zenon DEF InChunk
  <2> QED
    BY <1>1, <2>1, <2>2, Zenon DEF BodyAt, Body
<1> QED
  BY <1>2, <1>3, FirstFacts

LEMMA BodyPayload ==
  ASSUME AllWellFormed, BodyInv
  PROVE  PayloadExact
<1>1. phase = "handling" /\ msg.handler => delivered = msg.payload
  BY Zenon DEF BodyInv, Place
<1> QED
  BY <1>1, BodyDelivered, Zenon DEF PayloadExact

\* The parser reads on only where there is nothing more that it has to answer:
\* it never waits for a byte beyond the end of a message.
NeverWaits == phase = "reading" /\ end = Len(stream) => handled = Len(sent)

\* A step of parse() refuses only a request whose headers are in error.
OnlyErrorsRefused ==
  ParseHead \/ ConsumeContent \/ ParseChunks =>
    (phase' = "closed" => sent[handled + 1].framing \in {"bad", "malformed"})

LEMMA MoreToCome ==
  ASSUME AllWellFormed, BodyInv, NEW k \in Nat, NEW n \in Nat, BodyAt(k, n)
  PROVE  n < Size(msg.wire) /\ Char = msg.wire[n + 1]
<1>1. WellFormed(msg) /\ Size(msg.wire) \in Nat /\ (n < Size(msg.wire) => Char = msg.wire[n + 1])
  BY BodyFacts, Zenon
<1>2. CASE InContent(msg, n, left, delivered)
  <2>1. n < msg.length /\ msg.framing = "length"
    BY <1>2, Zenon DEF InContent
  <2>2. msg.payload \in Seq(Symbols) /\ msg.length = Size(msg.payload) /\ msg.length <= Size(msg.wire)
    BY <1>1, <2>1, Zenon DEF WellFormed, Size
  <2>3. n < Size(msg.wire)
    BY <1>1, <2>1, <2>2, SizeFacts
  <2> QED
    BY <1>1, <2>3, Zenon
<1>3. CASE /\ msg.framing = "chunked"
           /\ \E c \in msg.chunks : InChunk(msg, c, n, cstate, digits, left, delivered)
  <2>1. ChunkedWell(msg)
    BY <1>1, <1>3, Zenon DEF WellFormed, ChunkedWell
  <2> QED
    BY <1>1, <1>3, <2>1, NextChar, Zenon
<1> QED
  BY <1>2, <1>3, Zenon DEF BodyAt, Body

LEMMA BodyWaits ==
  ASSUME AllWellFormed, BodyInv
  PROVE  NeverWaits
<1> SUFFICES ASSUME phase = "reading", end = Size(stream)
             PROVE  handled = Size(sent)
  BY Zenon DEF NeverWaits, Size
<1>1. /\ pos = Size(stream) /\ pos \in Nat /\ handled \in Nat /\ (InHeaders \/ InBody)
      /\ StreamOf(stream, sent)
  BY Zenon DEF BodyInv, Place, Buffer
<1>2. Size(sent) \in Nat
  BY <1>1, SizeFacts, Zenon DEF StreamOf
<1>3. CASE InHeaders
  <2>1. ~ \E k \in pos + 1 .. Size(stream) : TRUE
    BY <1>1
  <2>2. handled + 1 = Size(sent) + 1
    BY <1>3, <2>1, Zenon DEF InHeaders, Gap
  <2> QED
    BY <1>1, <1>2, <2>2
<1>4. CASE InBody
  <2>1. PICK k \in Nat, n \in Nat : BodyAt(k, n)
    BY <1>4, Zenon DEF InBody
  <2>2. n < Size(msg.wire) /\ Size(msg.wire) \in Nat
    BY <2>1, MoreToCome, BodyFacts, Zenon
  <2>3. pos = k + n /\ k + Size(msg.wire) <= Size(stream)
    BY <2>1, Zenon DEF BodyAt, At
  <2> QED
    BY <1>1, <2>2, <2>3
<1> QED
  BY <1>1, <1>3, <1>4, Zenon

\* No character of the body of a message is refused.
LEMMA ChunksAccepted ==
  ASSUME AllWellFormed, BodyInv, ParseChunks
  PROVE  phase' # "closed"
<1>1. PICK s : InChunks(s)
  BY Zenon DEF ParseChunks, ChunkSizeStart, ChunkSize, IgnoredText, CrAfterSize, LfAfterSize,
     Chunk, Expect, FinalCrOrFooters, FinalLf
<1>2. PICK k \in Nat, n \in Nat, c \in msg.chunks : ChunkPlace(k, n, c)
  BY <1>1, ChunkFacts, Zenon
<1>3. /\ ChunkedWell(msg) /\ c \in msg.chunks
      /\ InChunk(msg, c, n, s, digits, left, delivered)
      /\ BodyAt(k, n)
  BY <1>1, <1>2, PlaceFacts, Zenon
<1>4. Char = msg.wire[n + 1] /\ cstate = s
  BY <1>1, <1>3, MoreToCome, Zenon DEF InChunks
<1>5. /\ cstate = "SIZE_START" => Char[1] \in {"hex", "sp", "cr", "lf"}
      /\ cstate = "SIZE" => Char[1] \in {"hex", "cr", "sp", ";"}
      /\ cstate = "CR_AFTER_SIZE" => Char[1] \in {"cr", "sp"}
      /\ cstate = "CR_AFTER_CHUNK" => Char[1] = "cr"
      /\ cstate \in {"LF_AFTER_SIZE", "LF_AFTER_CHUNK", "FINAL_LF"} => Char[1] = "lf"
  BY <1>3, <1>4, NextChar, Zenon
<1>6. \A i : Continue(i) => phase' # "closed"
  BY Zenon DEF Continue
<1>7. \A t : ChunkGoto(t) => phase' # "closed"
  BY <1>6, Zenon DEF ChunkGoto
<1>8. \A m, i : Complete(m, i) => phase' # "closed"
  BY Zenon DEF Complete
<1>9. CASE ChunkSizeStart
  BY <1>5, <1>7, <1>9, Zenon DEF ChunkSizeStart, InChunks
<1>10. CASE ChunkSize
  BY <1>5, <1>7, <1>10, Zenon DEF ChunkSize, InChunks
<1>11. CASE IgnoredText
  BY <1>7, <1>11, Zenon DEF IgnoredText
<1>12. CASE CrAfterSize
  BY <1>5, <1>7, <1>12, Zenon DEF CrAfterSize, InChunks
<1>13. CASE LfAfterSize
  BY <1>5, <1>7, <1>13, Zenon DEF LfAfterSize, InChunks
<1>14. CASE Chunk
  BY <1>6, <1>14, Zenon DEF Chunk
<1>15. CASE Expect("CR_AFTER_CHUNK", "cr", "LF_AFTER_CHUNK")
  BY <1>5, <1>7, <1>15, Zenon DEF Expect, InChunks
<1>16. CASE Expect("LF_AFTER_CHUNK", "lf", "SIZE_START")
  BY <1>5, <1>7, <1>16, Zenon DEF Expect, InChunks
<1>17. CASE FinalCrOrFooters
  BY <1>7, <1>8, <1>17, Zenon DEF FinalCrOrFooters
<1>18. CASE FinalLf
  BY <1>5, <1>8, <1>18, Zenon DEF FinalLf, InChunks
<1> QED
  BY <1>9, <1>10, <1>11, <1>12, <1>13, <1>14, <1>15, <1>16, <1>17, <1>18, Zenon
     DEF ParseChunks

LEMMA BodyRefuses ==
  ASSUME AllWellFormed, BodyInv
  PROVE  OnlyErrorsRefused
<1>1. ASSUME ParseHead, phase' = "closed"
      PROVE  sent[handled + 1].framing \in {"bad", "malformed"}
  <2>1. Failed /\ Char[1] \notin {"sp", "cr", "lf"}
           /\ (Char[1] = "head" => sent[Char[2]].framing \in {"bad", "malformed"})
    BY <1>1, Zenon DEF ParseHead, FinishHeaderParsing, Complete, Continue
  <2>2. Char = <<"head", handled + 1>>
    BY <1>1, <2>1, BodyAligned, Zenon DEF RequestsAligned, ParseHead
  <2>3. Char[1] = "head" /\ Char[2] = handled + 1
    BY <2>2
  <2> QED
    BY <2>1, <2>3, Zenon
<1>2. ConsumeContent => phase' # "closed"
  BY Zenon DEF ConsumeContent, Complete, Continue
<1> QED
  BY <1>1, <1>2, ChunksAccepted, Zenon DEF OnlyErrorsRefused

LEMMA BodyInvariant == AllWellFormed => (BodySpec => []BodyInv)
<1> SUFFICES ASSUME AllWellFormed PROVE BodySpec => []BodyInv
  BY Zenon
<1>1. BodyInit => BodyInv
  BY BodyInvInit, Zenon
<1>2. BodyInv /\ [BodyNext]_bodyVars => BodyInv'
  BY BodyStep, Zenon
<1> QED
  BY <1>1, <1>2, PTL DEF BodySpec

\* Whatever messages of the right form the client sends, and however the bytes
\* arrive, the parser begins a request only where the next message begins.
THEOREM RequestsAlignedHolds == AllWellFormed => (BodySpec => []RequestsAligned)
<1> SUFFICES ASSUME AllWellFormed PROVE BodySpec => []RequestsAligned
  BY Zenon
<1>1. BodyInv => RequestsAligned
  BY BodyAligned, Zenon
<1> QED
  BY <1>1, BodyInvariant, PTL

\* The payload handler gets the payloads of those messages, whole and in order.
THEOREM PayloadExactHolds == AllWellFormed => (BodySpec => []PayloadExact)
<1> SUFFICES ASSUME AllWellFormed PROVE BodySpec => []PayloadExact
  BY Zenon
<1>1. BodyInv => PayloadExact
  BY BodyPayload, Zenon
<1> QED
  BY <1>1, BodyInvariant, PTL

\* Of those messages the server answers all that have come: once it has got
\* every byte that was sent, it goes on reading (consume_bytes starts another read)
\* only with every message handled.
THEOREM NeverWaitsHolds == AllWellFormed => (BodySpec => []NeverWaits)
<1> SUFFICES ASSUME AllWellFormed PROVE BodySpec => []NeverWaits
  BY Zenon
<1>1. BodyInv => NeverWaits
  BY BodyWaits, Zenon
<1> QED
  BY <1>1, BodyInvariant, PTL

\* And parse() refuses none of them, in whatever pieces they come, but those
\* whose headers are in error: every part of every body is accepted.
THEOREM OnlyErrorsRefusedHolds ==
  AllWellFormed => (BodySpec => [][OnlyErrorsRefused]_bodyVars)
<1> SUFFICES ASSUME AllWellFormed PROVE BodySpec => [][OnlyErrorsRefused]_bodyVars
  BY Zenon
<1>1. BodyInv => OnlyErrorsRefused
  BY BodyRefuses, Zenon
<1> QED
  BY <1>1, BodyInvariant, PTL
=============================================================================
