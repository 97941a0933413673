---------------------------- MODULE WebSocketProofs ----------------------------
(***************************************************************************)
(* Proofs about WebSocket, for every size of frames and reads and every    *)
(* value of receive_buffer_max_size and frames_max_count.                  *)
(***************************************************************************)
EXTENDS WebSocket, SequenceTheorems, TLAPS

-----------------------------------------------------------------------------
(* What comes in.                                                          *)

Numbers == 1 .. Len(sent)

InputType ==
  /\ sent \in Seq(Frame)
  /\ wire \in Seq(Numbers) /\ buffer \in Seq(Numbers) /\ frames \in Seq(Numbers)

\* The fragments are counted where on_continuation and the final frame add to
\* them: while the websocket reads, or process_receive_buffer is posted, there
\* is room for the final one.
Room == holder \in {"reading", "posted_process"} => Len(frames) <= frames_max_count

Input == InputType /\ Room /\ StorageBounded

LEMMA FrameSize ==
  ASSUME InputType, NEW i \in Numbers
  PROVE  sent[i].size \in Nat \ {0} /\ sent[i] \in Frame
<1>1. sent[i] \in Frame
  BY DEF InputType, Numbers
<1>2. \A f \in Frame : f.size \in Sizes
  BY Zenon DEF Frame
<1> QED
  BY <1>1, <1>2, LimitsAssumption, Zenon

\* Removing bytes from the front of a buffer.
LEMMA Behind ==
  ASSUME NEW S, NEW b \in Seq(S), NEW k \in Nat \ {0}
  PROVE  /\ SubSeq(b, k + 1, Len(b)) \in Seq(S)
         /\ Len(SubSeq(b, k + 1, Len(b))) <= Len(b)
  OBVIOUS

LEMMA ClearedShrinks ==
  ASSUME Input
  PROVE  Cleared \in Seq(Numbers) /\ Len(Cleared) <= receive_buffer_max_size
<1>1. CASE frames = <<>>
  BY <1>1, Zenon DEF Cleared, Input, InputType, StorageBounded
<1>2. CASE frames # <<>>
  <2>1. frames[Len(frames)] \in Numbers
    BY <1>2 DEF Input, InputType
  <2>2. sent[frames[Len(frames)]].size \in Nat \ {0}
    BY <2>1, FrameSize, Zenon DEF Input
  <2>3. /\ Cleared \in Seq(Numbers) /\ Len(Cleared) <= Len(buffer)
    BY <1>2, <2>2, Behind, Zenon DEF Cleared, Input, InputType
  <2> QED
    BY <2>3, LimitsAssumption DEF Input, InputType, StorageBounded
<1> QED
  BY <1>1, <1>2, Zenon

\* process_receive_buffer keeps the limits, from a buffer and fragments that do.
LEMMA ProcessKeeps ==
  ASSUME InputType, NEW b \in Seq(Numbers), Len(b) <= receive_buffer_max_size,
         NEW fs \in Seq(Numbers), Len(fs) <= frames_max_count,
         NEW out, ProcessReceiveBuffer(b, fs, out)
  PROVE  /\ buffer' \in Seq(Numbers) /\ frames' \in Seq(Numbers)
         /\ Len(buffer') <= receive_buffer_max_size
         /\ Len(frames') <= frames_max_count + 1
         /\ holder' \in {"reading", "posted_process"} => Len(frames') <= frames_max_count
<1> USE LimitsAssumption
<1>1. CASE buffer' = b /\ frames' = fs
  BY <1>1
<1>2. CASE IsComplete(b)
  <2>1. b[1] \in Numbers
    BY <1>2 DEF IsComplete
  <2> DEFINE i == b[1]
  <2>2. CASE ~sent[i].final /\ OnContinuation(b, fs, i, out)
    <3>1. CASE OnClose(b, fs, out)
      BY <1>1, <3>1, Zenon DEF OnClose
    <3>2. CASE ~OnClose(b, fs, out)
      <4>1. /\ Len(fs) < frames_max_count
            /\ buffer' = SubSeq(b, sent[i].size + 1, Len(b))
            /\ frames' = Append(fs, i)
        BY <2>2, <3>2, Zenon DEF OnContinuation
      <4>2. buffer' \in Seq(Numbers) /\ Len(buffer') <= Len(b)
        BY <2>1, <4>1, FrameSize, Behind, Zenon
      <4>3. frames' \in Seq(Numbers) /\ Len(frames') = Len(fs) + 1
        BY <2>1, <4>1
      <4> QED
        BY <4>1, <4>2, <4>3
    <3> QED
      BY <3>1, <3>2, Zenon
  <2>3. CASE ProcessFinalFrame(b, fs, i, out)
    <3>1. /\ buffer' = b /\ frames' = Append(fs, i)
          /\ holder' \in {"user", "pinging", "closing"}
      BY <2>3, Zenon DEF ProcessFinalFrame, OnPing, OnClose
    <3>2. frames' \in Seq(Numbers) /\ Len(frames') = Len(fs) + 1
      BY <2>1, <3>1
    <3> QED
      BY <3>1, <3>2
  <2>4. CASE OnClose(b, fs, out)
    BY <1>1, <2>4, Zenon DEF OnClose
  <2> QED
    BY <1>1, <1>2, <2>2, <2>3, <2>4, Zenon DEF ProcessReceiveBuffer
<1> QED
  BY <1>1, <1>2, Zenon DEF ProcessReceiveBuffer, OnClose

LEMMA StepInput == Input /\ [Next]_vars => Input'
<1> SUFFICES ASSUME Input, [Next]_vars PROVE Input'
  BY Zenon
<1> USE LimitsAssumption
<1>1. ASSUME UNCHANGED <<sent, buffer, frames>>, wire' = wire,
             holder' \notin {"reading", "posted_process"} \/ holder' = holder
      PROVE  Input'
  BY <1>1, Zenon DEF Input, InputType, Numbers, Room, StorageBounded
<1>2. ASSUME NEW b \in Seq(Numbers), Len(b) <= receive_buffer_max_size,
             NEW fs \in Seq(Numbers), Len(fs) <= frames_max_count,
             NEW out, ProcessReceiveBuffer(b, fs, out),
             sent' = sent, wire' \in Seq(Numbers)
      PROVE  Input'
  <2>1. /\ buffer' \in Seq(Numbers) /\ frames' \in Seq(Numbers)
        /\ Len(buffer') <= receive_buffer_max_size
        /\ Len(frames') <= frames_max_count + 1
        /\ holder' \in {"reading", "posted_process"} => Len(frames') <= frames_max_count
    BY <1>2, ProcessKeeps, Zenon DEF Input
  <2> QED
    BY <1>2, <2>1, Zenon DEF Input, InputType, Numbers, Room, StorageBounded
<1>3. ASSUME NEW out, Receive(out), sent' = sent, wire' = wire PROVE Input'
  <2>1. Cleared \in Seq(Numbers) /\ Len(Cleared) <= receive_buffer_max_size
    BY ClearedShrinks, Zenon
  <2>2. <<>> \in Seq(Numbers) /\ Len(<<>>) <= frames_max_count
    OBVIOUS
  <2> QED
    BY <1>2, <1>3, <2>1, <2>2, Zenon DEF Receive, Input, InputType
<1>4. ASSUME NEW f \in Frame, SendFrame(f) PROVE Input'
  <2>1. /\ sent' = Append(sent, f) /\ wire' = wire \o [i \in 1 .. f.size |-> Len(sent) + 1]
        /\ UNCHANGED <<buffer, frames, holder>>
    BY <1>4, Zenon DEF SendFrame
  <2>2. f.size \in Nat
    BY Zenon DEF Frame
  <2>3. sent' \in Seq(Frame) /\ Len(sent') = Len(sent) + 1 /\ Len(sent) \in Nat
    BY <2>1 DEF Input, InputType
  <2>4. Numbers \subseteq Numbers' /\ Len(sent) + 1 \in Numbers'
    BY <2>3 DEF Numbers
  <2>5. wire' \in Seq(Numbers') /\ buffer \in Seq(Numbers') /\ frames \in Seq(Numbers')
    <3>1. \A q \in Seq(Numbers) : q \in Seq(Numbers')
      BY <2>4
    <3> DEFINE bytes == [i \in 1 .. f.size |-> Len(sent) + 1]
    <3>2. bytes \in Seq(Numbers') /\ wire' = wire \o bytes
      <4>1. bytes \in [1 .. f.size -> Numbers']
        BY <2>4, Zenon
      <4>2. wire' = wire \o bytes
        BY <2>1, Zenon
      <4> HIDE DEF bytes
      <4> QED
        BY <2>2, <4>1, <4>2, SeqDef, Zenon
    <3>3. wire \in Seq(Numbers') /\ buffer \in Seq(Numbers') /\ frames \in Seq(Numbers')
      BY <3>1, Zenon DEF Input, InputType
    <3> HIDE DEF bytes
    <3> QED
      BY <3>2, <3>3
  <2> QED
    BY <2>1, <2>3, <2>5, Zenon DEF Input, InputType, Room, StorageBounded
<1>5. ASSUME NEW n \in 1 .. ReadMax, Consume(n) PROVE Input'
  <2>1. /\ holder = "reading" /\ n <= Len(wire)
        /\ wire' = SubSeq(wire, n + 1, Len(wire)) /\ sent' = sent
    BY <1>5, Zenon DEF Consume
  <2>2. wire' \in Seq(Numbers)
    BY <2>1, Behind DEF Input, InputType
  <2>3. CASE OnClose(buffer, frames, payload)
    BY <2>1, <2>2, <2>3, Zenon
       DEF OnClose, Input, InputType, Numbers, Room, StorageBounded
  <2>4. CASE ~OnClose(buffer, frames, payload)
    <3> DEFINE b == buffer \o SubSeq(wire, 1, n)
    <3>1. /\ Len(buffer) + n <= receive_buffer_max_size
          /\ ProcessReceiveBuffer(b, frames, payload)
      BY <1>5, <2>4, Zenon DEF Consume
    <3>2. SubSeq(wire, 1, n) \in Seq(Numbers) /\ Len(SubSeq(wire, 1, n)) = n
      BY <2>1 DEF Input, InputType
    <3>3. b \in Seq(Numbers) /\ Len(b) <= receive_buffer_max_size
      BY <3>1, <3>2 DEF Input, InputType
    <3>4. frames \in Seq(Numbers) /\ Len(frames) <= frames_max_count
      BY <2>1, Zenon DEF Input, InputType, Room
    <3> HIDE DEF b
    <3> QED
      BY <1>2, <2>1, <2>2, <3>1, <3>3, <3>4, Zenon
  <2> QED
    BY <2>3, <2>4, Zenon
<1>6. CASE ProcessPosted
  <2>1. /\ frames \in Seq(Numbers) /\ Len(frames) <= frames_max_count
        /\ buffer \in Seq(Numbers) /\ Len(buffer) <= receive_buffer_max_size
        /\ wire \in Seq(Numbers)
    BY <1>6, Zenon DEF ProcessPosted, Input, InputType, Room, StorageBounded
  <2> QED
    BY <1>2, <1>6, <2>1, Zenon DEF ProcessPosted, Passed
<1>7. CASE UserReceives \/ Written
  BY <1>3, <1>7, Zenon DEF UserReceives, Written, Passed
<1>8. CASE \/ OnOpen \/ UserSends \/ UserCloses \/ UserDrops \/ SendInternal \/ CloseWritten
           \/ UserWrites \/ WriteFails \/ ReadFails \/ SendBroadcast \/ TakeWhole \/ TakePart
           \/ UNCHANGED vars
  <2>1. /\ UNCHANGED <<sent, wire, buffer, frames>>
        /\ holder' \notin {"reading", "posted_process"} \/ holder' = holder
    BY <1>8, Zenon
       DEF OnOpen, UserSends, UserCloses, UserDrops, SendInternal, CloseWritten,
       UserWrites, WriteFails, ReadFails, SendBroadcast, TakeWhole, TakePart, OnClose,
       Passed, vars
  <2> QED
    BY <1>1, <2>1, Zenon
<1> QED
  BY <1>4, <1>5, <1>6, <1>7, <1>8, Zenon DEF Next, Steps

\* The limits hold for every client, whatever it sends and however its bytes
\* are split into reads.
THEOREM StorageBoundedHolds == Spec => []StorageBounded
<1>1. Init => Input
  BY LimitsAssumption DEF Init, Input, InputType, Numbers, Room, StorageBounded
<1>2. Input => StorageBounded
  BY Zenon DEF Input
<1> QED
  BY <1>1, <1>2, StepInput, PTL DEF Spec

-----------------------------------------------------------------------------
(* The messages.                                                           *)

\* The bytes s are whole frames, one after the other, up to the last of fr.
Whole(s, fr) ==
  \A k \in DOMAIN s : k = 1 \/ s[k - 1] # s[k] =>
    LET end == k + fr[s[k]].size - 1 IN
      /\ end <= Len(s)
      /\ \A j \in k .. end : s[j] = s[k]
      /\ end = Len(s) => s[k] = Len(fr)
      /\ end < Len(s) => s[end + 1] = s[k] + 1

\* The frame that the bytes s begin with: the next one, if there are none.
FirstOf(s, fr) == IF s = <<>> THEN Len(fr) + 1 ELSE s[1]

\* The cache fs holds all data frames behind frame `last' and in front of frame
\* `next', of which none ends a message.
Gathered(fs, last, next, fr) ==
  /\ last < next
  /\ Range(fs) = {k \in last + 1 .. next - 1 : fr[k].type \in Data}
  /\ \A i, j \in DOMAIN fs : i < j => fs[i] < fs[j]
  /\ \A k \in last + 1 .. next - 1 : fr[k].type \in Data => ~fr[k].final
  /\ fs # <<>> => fs[Len(fs)] = next - 1

\* A frame that is answered or given to a handler is the first in the buffer,
\* and the last in the cache; no fragment is in front of it.
Answered(fs, last, b, next, fr) ==
  /\ fs # <<>> /\ fs[Len(fs)] = next
  /\ last <= next
  /\ b # <<>> /\ b[1] = next /\ fr[next].size <= Len(b)
  /\ \A k \in last + 1 .. next : fr[k].type \notin Data

LastEnd == EndOf(Len(delivered))
First == FirstOf(buffer \o wire, sent)

\* What the buffer, the cache and the wire hold while the websocket is used.
Position ==
  holder \notin {"closing", "gone"} =>
    /\ Whole(buffer \o wire, sent)
    /\ \/ /\ holder \in {"reading", "posted_process"} \/ frames = <<>>
          /\ Gathered(frames, LastEnd, First, sent)
       \/ /\ holder \in {"user", "posted_send", "sending", "pinging"}
          /\ Answered(frames, LastEnd, buffer, First, sent)

\* No ping or pong follows a fragment.
PingsOutside ==
  \A k \in 1 .. Len(sent) - 1 :
    sent[k].type \in Data /\ ~sent[k].final => sent[k + 1].type \notin {"ping", "pong"}

\* What the message handler has got.
Handled == Seq(Seq(Numbers) \ {<<>>})

Messages ==
  /\ InputType /\ delivered \in Handled
  /\ PingsOutside /\ Position /\ MessagesWhole

LEMMA FrameFields ==
  \A f \in Frame :
    /\ f.size \in Nat \ {0} /\ f.final \in BOOLEAN
    /\ f.type \in Data \cup {"ping", "pong", "close", "bad"}
    /\ ~f.final => f.type \in Data
<1> SUFFICES ASSUME NEW f \in Frame
             PROVE  /\ f.size \in Nat \ {0} /\ f.final \in BOOLEAN
                    /\ f.type \in Data \cup {"ping", "pong", "close", "bad"}
                    /\ ~f.final => f.type \in Data
  BY Zenon
<1>1. f.size \in Sizes
  BY Zenon DEF Frame
<1>2. f.final \in BOOLEAN
  BY Zenon DEF Frame
<1>3. f.type \in Data \cup {"ping", "pong", "close", "bad"}
  BY Zenon DEF Frame
<1>4. ~f.final => f.type \in Data
  BY Zenon DEF Frame
<1> QED
  BY <1>1, <1>2, <1>3, <1>4, LimitsAssumption, Zenon

Sized(fr) == Len(fr) \in Nat /\ \A k \in 1 .. Len(fr) : fr[k].size \in Nat \ {0}
Bytes(s, fr) == /\ Len(s) \in Nat /\ DOMAIN s = 1 .. Len(s)
                /\ \A j \in 1 .. Len(s) : s[j] \in 1 .. Len(fr)

\* The frame that is at places k to e of the bytes s is all of it.
At(s, fr, k, e) ==
  /\ e <= Len(s)
  /\ \A j \in k .. e : s[j] = s[k]
  /\ e = Len(s) => s[k] = Len(fr)
  /\ e < Len(s) => s[e + 1] = s[k] + 1

LEMMA WholeAt ==
  ASSUME NEW fr, NEW s, Bytes(s, fr)
  PROVE  Whole(s, fr) <=>
           \A k \in 1 .. Len(s) : k = 1 \/ s[k - 1] # s[k] => At(s, fr, k, k + fr[s[k]].size - 1)
  BY Zenon DEF Whole, At, Bytes

\* t is s without its first n places.
Shifted(t, s, n) ==
  Len(t) = Len(s) - n /\ \A j \in Nat, k \in Nat : j \in 1 .. Len(t) /\ k = j + n => t[j] = s[k]

LEMMA AtBehind ==
  ASSUME NEW fr, NEW s, Bytes(s, fr), NEW t, Bytes(t, fr), NEW n \in Nat \ {0}, Shifted(t, s, n),
         NEW k \in Nat, NEW e \in Nat, 1 <= k, k <= e, At(s, fr, k + n, e + n)
  PROVE  At(t, fr, k, e)
<1>1. Len(t) \in Nat /\ Len(s) \in Nat /\ Len(t) = Len(s) - n
  BY Zenon DEF Bytes, Shifted
<1>2. e <= Len(t) /\ (e = Len(t) <=> e + n = Len(s)) /\ (e < Len(t) <=> e + n < Len(s))
  BY <1>1 DEF At
<1>3. \A j \in Nat : 1 <= j /\ j <= Len(t) => t[j] = s[j + n]
  BY <1>1 DEF Shifted
<1>4. t[k] = s[k + n]
  BY <1>2, <1>3, <1>1
<1>5. ASSUME NEW j \in k .. e PROVE t[j] = t[k]
  <2>1. j \in Nat /\ 1 <= j /\ j <= Len(t) /\ j + n \in k + n .. e + n
    BY <1>1, <1>2
  <2>2. s[j + n] = s[k + n]
    BY <2>1, Zenon DEF At
  <2> QED
    BY <1>3, <1>4, <2>1, <2>2, Zenon
<1>6. ASSUME e < Len(t) PROVE t[e + 1] = t[k] + 1
  <2>1. e + 1 \in Nat /\ 1 <= e + 1 /\ e + 1 <= Len(t) /\ (e + 1) + n = (e + n) + 1
    BY <1>1, <1>6
  <2>2. s[(e + n) + 1] = s[k + n] + 1
    BY <1>2, <1>6, Zenon DEF At
  <2> QED
    BY <1>3, <1>4, <2>1, <2>2, Zenon
<1>7. e = Len(t) => t[k] = Len(fr)
  BY <1>2, <1>4, Zenon DEF At
<1> QED
  BY <1>2, <1>5, <1>6, <1>7, Zenon DEF At

\* Behind the first frame, of n bytes, the bytes are whole frames as well.
LEMMA WholeBehind ==
  ASSUME NEW fr, Sized(fr), NEW s, Bytes(s, fr), Whole(s, fr),
         NEW n \in Nat \ {0}, At(s, fr, 1, n),
         NEW t, Bytes(t, fr), Shifted(t, s, n)
  PROVE  Whole(t, fr)
<1> SUFFICES ASSUME NEW k \in 1 .. Len(t), k = 1 \/ t[k - 1] # t[k]
             PROVE  At(t, fr, k, k + fr[t[k]].size - 1)
  BY WholeAt, Zenon
<1>1. Len(t) \in Nat /\ Len(s) \in Nat /\ Len(t) = Len(s) - n /\ t[k] \in 1 .. Len(fr)
  BY Zenon DEF Bytes, Shifted
<1>2. k + n \in 1 .. Len(s) /\ k + n # 1 /\ k \in Nat
  BY <1>1
<1>3. t[k] = s[k + n]
  BY <1>1, <1>2 DEF Shifted
<1>4. s[k + n - 1] # s[k + n]
  <2>1. CASE k = 1
    <3>1. k + n - 1 = n /\ n \in 1 .. n /\ k + n = n + 1 /\ n < Len(s)
      BY <1>1, <2>1
    <3>2. s[n] = s[1] /\ s[n + 1] = s[1] + 1
      BY <1>1, <3>1, Zenon DEF At
    <3>3. 1 \in 1 .. Len(s)
      BY <1>1, <3>1
    <3>4. s[1] \in Nat
      BY <3>3 DEF Bytes, Sized
    <3> QED
      BY <3>1, <3>2, <3>4
  <2>2. CASE k # 1
    <3> DEFINE j == k - 1
               m == k + n - 1
    <3>1. j \in Nat /\ j \in 1 .. Len(t)
      BY <1>1, <1>2, <2>2
    <3>2. m \in Nat /\ m = j + n
      BY <1>2
    <3> HIDE DEF j, m
    <3>3. t[j] = s[m]
      BY <3>1, <3>2, Zenon DEF Shifted
    <3> QED
      BY <1>3, <2>2, <3>3, Zenon DEF j, m
  <2> QED
    BY <2>1, <2>2, Zenon
<1>5. At(s, fr, k + n, (k + n) + fr[s[k + n]].size - 1)
  BY <1>2, <1>4, WholeAt
<1>6. PICK size \in Nat \ {0} : size = fr[t[k]].size
  BY <1>1, Zenon DEF Sized
<1>7. PICK e \in Nat : e = k + size - 1
  BY <1>2
<1>8. k <= e /\ e + n = (k + n) + size - 1
  BY <1>2, <1>7
<1>9. At(s, fr, k + n, e + n)
  BY <1>3, <1>5, <1>6, <1>8, Zenon
<1>10. At(t, fr, k, e)
  <2>1. 1 <= k /\ k <= e /\ k \in Nat
    BY <1>1, <1>8
  <2> QED
    BY <1>9, <2>1, AtBehind, Zenon
<1> QED
  BY <1>6, <1>7, <1>10, Zenon

\* The first frame is removed from the bytes.
LEMMA DropFirst ==
  ASSUME NEW fr \in Seq(Frame), NEW s \in Seq(1 .. Len(fr)), s # <<>>, Whole(s, fr)
  PROVE  LET n == fr[s[1]].size
             t == SubSeq(s, n + 1, Len(s)) IN
           /\ n \in Nat \ {0} /\ n <= Len(s)
           /\ t \in Seq(1 .. Len(fr)) /\ Whole(t, fr)
           /\ FirstOf(t, fr) = s[1] + 1
<1> DEFINE n == fr[s[1]].size
           t == SubSeq(s, n + 1, Len(s))
<1>1. s[1] \in 1 .. Len(fr) /\ 1 \in DOMAIN s
  OBVIOUS
<1>2. n \in Nat \ {0}
  BY <1>1, FrameFields
<1>3. /\ n <= Len(s) /\ \A j \in 1 .. n : s[j] = s[1]
      /\ n = Len(s) => s[1] = Len(fr)
      /\ n < Len(s) => s[n + 1] = s[1] + 1
  <2>1. LET end == 1 + n - 1 IN
          /\ end <= Len(s)
          /\ \A j \in 1 .. end : s[j] = s[1]
          /\ end = Len(s) => s[1] = Len(fr)
          /\ end < Len(s) => s[end + 1] = s[1] + 1
    BY <1>1, Zenon DEF Whole
  <2> HIDE DEF n
  <2> QED
    BY <1>2, <2>1
<1> HIDE DEF n
<1>4. /\ t \in Seq(1 .. Len(fr)) /\ Len(t) = Len(s) - n
      /\ \A j \in 1 .. Len(t) : t[j] = s[j + n]
  BY <1>2, <1>3
<1> HIDE DEF t
<1>9. Shifted(t, s, n) /\ At(s, fr, 1, n)
  BY <1>3, <1>4, Zenon DEF Shifted, At
<1>5. FirstOf(t, fr) = s[1] + 1
  <2>1. CASE n = Len(s)
    BY <1>3, <1>4, <2>1 DEF FirstOf
  <2>2. CASE n < Len(s)
    <3>1. 1 \in 1 .. Len(t) /\ 1 + n = n + 1 /\ t # <<>>
      BY <1>2, <1>4, <2>2
    <3> QED
      BY <1>3, <1>4, <2>2, <3>1, Zenon DEF FirstOf
  <2> QED
    BY <1>2, <1>3, <2>1, <2>2
<1>6. Sized(fr)
  BY FrameFields DEF Sized
<1>7. Bytes(s, fr) /\ Bytes(t, fr)
  BY <1>4 DEF Bytes
<1>8. Whole(t, fr)
  BY <1>2, <1>6, <1>7, <1>9, WholeBehind, Zenon
<1> QED
  BY <1>2, <1>3, <1>4, <1>5, <1>8, Zenon DEF n, t

\* A frame is added behind the bytes.
LEMMA AddLast ==
  ASSUME NEW fr \in Seq(Frame), NEW s \in Seq(1 .. Len(fr)), Whole(s, fr),
         NEW f \in Frame, NEW bytes, bytes = [i \in 1 .. f.size |-> Len(fr) + 1]
  PROVE  /\ Whole(s \o bytes, Append(fr, f))
         /\ FirstOf(s \o bytes, Append(fr, f)) = FirstOf(s, fr)
<1> DEFINE n == f.size
           N == Len(fr) + 1
           t == s \o bytes
           fr2 == Append(fr, f)
<1>1. n \in Nat \ {0} /\ N \in Nat
  BY FrameFields
<1>2. bytes \in Seq({N}) /\ Len(bytes) = n /\ \A j \in 1 .. n : bytes[j] = N
  <2>1. bytes \in [1 .. n -> {N}]
    BY Zenon
  <2> QED
    BY <1>1, <2>1, SeqDef
<1>3. /\ Len(fr2) = N /\ fr2[N] = f
      /\ \A k \in 1 .. Len(fr) : fr2[k] = fr[k]
  OBVIOUS
<1>4. /\ Len(t) = Len(s) + n /\ DOMAIN t = 1 .. Len(s) + n
      /\ \A j \in 1 .. Len(s) : t[j] = s[j] /\ s[j] \in 1 .. Len(fr)
      /\ \A j \in Len(s) + 1 .. Len(s) + n : t[j] = N
  <2>1. Len(t) = Len(s) + n /\ DOMAIN t = 1 .. Len(s) + n
    BY <1>1, <1>2
  <2>2. \A j \in 1 .. Len(s) : t[j] = s[j] /\ s[j] \in 1 .. Len(fr)
    BY <1>1, <1>2
  <2>3. \A j \in Len(s) + 1 .. Len(s) + n : t[j] = bytes[j - Len(s)] /\ j - Len(s) \in 1 .. n
    BY <1>1, <1>2
  <2> QED
    BY <1>2, <2>1, <2>2, <2>3, Zenon
<1> HIDE DEF n, N, t, fr2
<1>5. FirstOf(t, fr2) = FirstOf(s, fr)
  <2>1. t # <<>>
    BY <1>1, <1>4
  <2>2. CASE s = <<>>
    BY <1>1, <1>4, <2>1, <2>2 DEF FirstOf, N
  <2>3. CASE s # <<>>
    <3>1. 1 \in 1 .. Len(s)
      BY <2>3
    <3> QED
      BY <1>4, <2>1, <2>3, <3>1, Zenon DEF FirstOf
  <2> QED
    BY <2>2, <2>3, Zenon
<1>6. /\ Bytes(s, fr) /\ Bytes(t, fr2) /\ Sized(fr) /\ Len(s) \in Nat
  <2>1. Bytes(s, fr) /\ Sized(fr) /\ Len(s) \in Nat
    BY FrameFields DEF Bytes, Sized
  <2>2. \A j \in 1 .. Len(s) + n : t[j] \in 1 .. N
    <3>1. \A j \in 1 .. Len(s) + n : j \in 1 .. Len(s) \/ j \in Len(s) + 1 .. Len(s) + n
      BY <1>1, <2>1
    <3>2. 1 .. Len(fr) \subseteq 1 .. N /\ N \in 1 .. N
      BY DEF N
    <3> QED
      BY <1>4, <3>1, <3>2, Zenon
  <2> QED
    BY <1>1, <1>3, <1>4, <2>1, <2>2 DEF Bytes
<1>7. ASSUME NEW k \in 1 .. Len(s), k = 1 \/ t[k - 1] # t[k]
      PROVE  At(t, fr2, k, k + fr2[t[k]].size - 1)
  <2>1. t[k] = s[k] /\ s[k] \in 1 .. Len(fr) /\ fr2[t[k]] = fr[s[k]] /\ k \in Nat \ {0}
    BY <1>3, <1>4, <1>6, <1>7
  <2>2. k = 1 \/ s[k - 1] # s[k]
    <3>1. k # 1 => k - 1 \in 1 .. Len(s)
      BY <1>6, <1>7, <2>1
    <3> QED
      BY <1>4, <1>7, <2>1, <3>1, Zenon
  <2>3. At(s, fr, k, k + fr[s[k]].size - 1)
    BY <1>6, <1>7, <2>2, WholeAt, Zenon
  <2>4. PICK e \in Nat : e = k + fr[s[k]].size - 1 /\ k <= e
    BY <1>6, <2>1 DEF Sized
  <2>5. At(s, fr, k, e)
    BY <2>3, <2>4, Zenon
  <2>6. e <= Len(s) /\ e < Len(t)
    BY <1>1, <1>4, <1>6, <2>5 DEF At
  <2>7. \A j \in k .. e : t[j] = t[k]
    <3> SUFFICES ASSUME NEW j \in k .. e PROVE t[j] = t[k]
      BY Zenon
    <3>1. j \in 1 .. Len(s)
      BY <1>6, <2>1, <2>6
    <3> QED
      BY <1>4, <2>1, <2>5, <3>1, Zenon DEF At
  <2>8. t[e + 1] = t[k] + 1
    <3>1. CASE e = Len(s)
      <4>1. e + 1 \in Len(s) + 1 .. Len(s) + n
        BY <1>1, <1>6, <3>1
      <4> QED
        BY <1>4, <2>1, <2>5, <3>1, <4>1, Zenon DEF At, N
    <3>2. CASE e < Len(s)
      <4>1. e + 1 \in 1 .. Len(s)
        BY <1>6, <3>2
      <4> QED
        BY <1>4, <2>1, <2>5, <3>2, <4>1, Zenon DEF At
    <3> QED
      BY <1>6, <2>6, <3>1, <3>2
  <2>9. At(t, fr2, k, e)
    BY <1>4, <1>6, <2>6, <2>7, <2>8 DEF At
  <2> QED
    BY <2>1, <2>4, <2>9, Zenon
<1>8. ASSUME NEW k \in Len(s) + 1 .. Len(s) + n, k = 1 \/ t[k - 1] # t[k]
      PROVE  At(t, fr2, k, k + fr2[t[k]].size - 1)
  <2>1. t[k] = N /\ fr2[t[k]].size = n /\ k \in Nat
    BY <1>1, <1>3, <1>4, <1>6, <1>8 DEF n
  <2>2. k = Len(s) + 1
    <3> SUFFICES ASSUME k # Len(s) + 1 PROVE FALSE
      BY Zenon
    <3>1. k - 1 \in Len(s) + 1 .. Len(s) + n /\ k # 1
      BY <1>1, <1>6, <1>8, <2>1
    <3> QED
      BY <1>4, <1>8, <2>1, <3>1, Zenon
  <2>3. k + fr2[t[k]].size - 1 = Len(s) + n
    BY <1>1, <1>6, <2>1, <2>2
  <2>4. \A j \in k .. Len(s) + n : t[j] = t[k]
    BY <1>4, <2>1, <2>2, Zenon
  <2>5. At(t, fr2, k, Len(s) + n)
    BY <1>1, <1>3, <1>4, <1>6, <2>1, <2>4 DEF At
  <2> QED
    BY <2>3, <2>5, Zenon
<1>9. Whole(t, fr2)
  <2>1. \A k \in 1 .. Len(t) : k \in 1 .. Len(s) \/ k \in Len(s) + 1 .. Len(s) + n
    BY <1>1, <1>4, <1>6
  <2>2. \A k \in 1 .. Len(t) : k = 1 \/ t[k - 1] # t[k] => At(t, fr2, k, k + fr2[t[k]].size - 1)
    BY <1>7, <1>8, <2>1, Zenon
  <2> QED
    BY <1>6, <2>2, WholeAt, Zenon
<1> QED
  BY <1>5, <1>9, Zenon DEF t, fr2

\* Removing bytes of the buffer removes them from all that is to be read.
LEMMA FrontRemoved ==
  ASSUME NEW S, NEW b \in Seq(S), NEW w \in Seq(S), NEW n \in Nat, n <= Len(b)
  PROVE  SubSeq(b, n + 1, Len(b)) \o w = SubSeq(b \o w, n + 1, Len(b \o w))
<1> DEFINE p == SubSeq(b, n + 1, Len(b))
           q == SubSeq(b \o w, n + 1, Len(b \o w))
<1>1. /\ p \in Seq(S) /\ Len(p) = Len(b) - n
      /\ \A j \in 1 .. Len(b) - n : p[j] = b[j + n]
  OBVIOUS
<1>0. p \in Seq(S) /\ Len(p) = Len(b) - n
  BY <1>1, Zenon
<1>2. /\ b \o w \in Seq(S) /\ Len(b \o w) = Len(b) + Len(w)
      /\ \A j \in 1 .. Len(b) + Len(w) :
           (b \o w)[j] = IF j <= Len(b) THEN b[j] ELSE w[j - Len(b)]
  OBVIOUS
<1>3. /\ q \in Seq(S) /\ Len(q) = Len(b) + Len(w) - n
      /\ \A j \in 1 .. Len(b) + Len(w) - n : q[j] = (b \o w)[j + n]
  <2> DEFINE s == b \o w
  <2>1. s \in Seq(S) /\ Len(s) = Len(b) + Len(w) /\ q = SubSeq(s, n + 1, Len(s))
    BY <1>2, Zenon
  <2> HIDE DEF s, q
  <2>2. /\ q \in Seq(S) /\ Len(q) = Len(s) - n
        /\ \A j \in 1 .. Len(s) - n : q[j] = s[j + n]
    <3>1. n <= Len(s) /\ Len(s) \in Nat
      BY <2>1
    <3> DEFINE u == SubSeq(s, n + 1, Len(s))
    <3>2. u \in Seq(S) /\ Len(u) = Len(s) - n /\ \A j \in 1 .. Len(s) - n : u[j] = s[j + n]
      BY <2>1, <3>1
    <3> QED
      BY <2>1, <3>2, Zenon
  <2>3. Len(s) - n = Len(b) + Len(w) - n
    <3>1. Len(b) \in Nat /\ Len(w) \in Nat
      OBVIOUS
    <3> QED
      BY <2>1, <3>1
  <2>4. /\ q \in Seq(S) /\ Len(q) = Len(b) + Len(w) - n
        /\ \A j \in 1 .. Len(b) + Len(w) - n : q[j] = s[j + n]
    BY <2>2, <2>3, Zenon
  <2> QED
    BY <2>4, Zenon DEF s
<1> HIDE DEF p, q
<1>4. p \o w \in Seq(S) /\ Len(p \o w) = Len(q)
  <2>1. p \o w \in Seq(S) /\ Len(p \o w) = Len(p) + Len(w) /\ Len(b) \in Nat /\ Len(w) \in Nat
    BY <1>0
  <2> QED
    BY <1>1, <1>3, <2>1
<1>5. ASSUME NEW j \in 1 .. Len(p \o w) PROVE (p \o w)[j] = q[j]
  <2>1. j \in 1 .. Len(b) + Len(w) - n /\ j + n \in 1 .. Len(b) + Len(w)
    BY <1>1, <1>3, <1>4
  <2>2. q[j] = IF j + n <= Len(b) THEN b[j + n] ELSE w[j + n - Len(b)]
    <3>1. q[j] = (b \o w)[j + n]
      BY <1>3, <2>1, Zenon
    <3> QED
      BY <1>2, <2>1, <3>1
  <2>3. (p \o w)[j] = IF j <= Len(p) THEN p[j] ELSE w[j - Len(p)]
    BY <1>1, <1>5
  <2>4. CASE j <= Len(p)
    BY <1>1, <2>1, <2>2, <2>3, <2>4
  <2>5. CASE j > Len(p)
    BY <1>1, <2>1, <2>2, <2>3, <2>5
  <2> QED
    BY <1>1, <2>1, <2>4, <2>5
<1>6. p \o w = q
  BY <1>3, <1>4, <1>5, SeqEqual, Zenon
<1> QED
  BY <1>6, Zenon DEF p, q

\* A frame that is sent changes nothing of what was sent before it.
LEMMA GatheredStays ==
  ASSUME NEW fr \in Seq(Frame), NEW f \in Frame, NEW fs, NEW last \in Nat,
         NEW next \in 1 .. Len(fr) + 1, Gathered(fs, last, next, fr)
  PROVE  Gathered(fs, last, next, Append(fr, f))
<1>1. \A k \in last + 1 .. next - 1 : Append(fr, f)[k] = fr[k]
  OBVIOUS
<1>2. {k \in last + 1 .. next - 1 : Append(fr, f)[k].type \in Data} =
      {k \in last + 1 .. next - 1 : fr[k].type \in Data}
  BY <1>1, Zenon
<1> HIDE DEF Data
<1> QED
  BY <1>1, <1>2, Zenon DEF Gathered

LEMMA AppendRange ==
  ASSUME NEW fs \in Seq(Nat), NEW i \in Nat
  PROVE  /\ Range(Append(fs, i)) = Range(fs) \cup {i}
         /\ Len(Append(fs, i)) = Len(fs) + 1 /\ Append(fs, i)[Len(fs) + 1] = i
         /\ \A j \in 1 .. Len(fs) : Append(fs, i)[j] = fs[j]
         /\ DOMAIN Append(fs, i) = 1 .. Len(fs) + 1
         /\ Append(fs, i) # <<>>
<1>1. /\ Len(Append(fs, i)) = Len(fs) + 1 /\ Append(fs, i)[Len(fs) + 1] = i
      /\ \A j \in 1 .. Len(fs) : Append(fs, i)[j] = fs[j]
      /\ DOMAIN Append(fs, i) = 1 .. Len(fs) + 1
      /\ DOMAIN fs = 1 .. Len(fs) /\ Len(fs) \in Nat
  OBVIOUS
<1>2. 1 .. Len(fs) + 1 = (1 .. Len(fs)) \cup {Len(fs) + 1}
  BY <1>1
<1>3. Range(Append(fs, i)) = Range(fs) \cup {i}
  BY <1>1, <1>2 DEF Range
<1> QED
  BY <1>1, <1>3

\* The frames fs and then frame i are in the order in which they were sent.
LEMMA InOrder ==
  ASSUME NEW fs \in Seq(Nat), NEW i \in Nat, \A j \in Range(fs) : j < i,
         \A j, k \in DOMAIN fs : j < k => fs[j] < fs[k]
  PROVE  \A j, k \in DOMAIN Append(fs, i) : j < k => Append(fs, i)[j] < Append(fs, i)[k]
<1> SUFFICES ASSUME NEW j \in DOMAIN Append(fs, i), NEW k \in DOMAIN Append(fs, i), j < k
             PROVE  Append(fs, i)[j] < Append(fs, i)[k]
  BY Zenon
<1>1. Len(fs) \in Nat /\ DOMAIN fs = 1 .. Len(fs)
  OBVIOUS
<1>2. j \in 1 .. Len(fs) /\ k \in 1 .. Len(fs) + 1
  BY <1>1, AppendRange
<1>3. Append(fs, i)[j] = fs[j] /\ fs[j] \in Range(fs)
  BY <1>1, <1>2, AppendRange, Zenon DEF Range
<1>4. CASE k = Len(fs) + 1
  BY <1>3, <1>4, AppendRange, Zenon
<1>5. CASE k \in 1 .. Len(fs)
  BY <1>1, <1>2, <1>3, <1>5, AppendRange, Zenon
<1> QED
  BY <1>1, <1>2, <1>4, <1>5

\* The fragment that comes next is added to the cache.
LEMMA FragmentGathered ==
  ASSUME NEW fr, NEW fs \in Seq(Nat), NEW last \in Nat, NEW i \in Nat,
         Gathered(fs, last, i, fr), fr[i].type \in Data, ~fr[i].final
  PROVE  Gathered(Append(fs, i), last, i + 1, fr)
<1>1. last < i /\ last + 1 .. (i + 1) - 1 = (last + 1 .. i - 1) \cup {i} /\ last < i + 1
  BY DEF Gathered
<1>2. \A j \in Range(fs) : j < i
  BY <1>1 DEF Gathered
<1>3. \A j, k \in DOMAIN Append(fs, i) : j < k => Append(fs, i)[j] < Append(fs, i)[k]
  BY <1>2, InOrder, Zenon DEF Gathered
<1>4. Range(Append(fs, i)) = {k \in last + 1 .. (i + 1) - 1 : fr[k].type \in Data}
  <2>1. Range(fs) = {k \in last + 1 .. i - 1 : fr[k].type \in Data}
    BY Zenon DEF Gathered
  <2> QED
    BY <1>1, <2>1, AppendRange
<1>5. \A k \in last + 1 .. (i + 1) - 1 : fr[k].type \in Data => ~fr[k].final
  BY <1>1, Zenon DEF Gathered
<1>6. Append(fs, i)[Len(Append(fs, i))] = (i + 1) - 1
  BY AppendRange
<1> QED
  BY <1>1, <1>3, <1>4, <1>5, <1>6, Zenon DEF Gathered

\* What process_receive_buffer needs of bytes b in front of w, and fragments fs.
Ready(b, w, fs) ==
  /\ Whole(b \o w, sent)
  /\ Gathered(fs, LastEnd, FirstOf(b \o w, sent), sent)

LEMMA EndsNumbers ==
  ASSUME InputType, delivered \in Handled
  PROVE  /\ LastEnd \in 0 .. Len(sent)
         /\ \A n \in 0 .. Len(delivered) : EndOf(n) \in 0 .. Len(sent)
         /\ DOMAIN delivered = 1 .. Len(delivered) /\ Len(delivered) \in Nat
<1>1. DOMAIN delivered = 1 .. Len(delivered) /\ Len(delivered) \in Nat /\ Len(sent) \in Nat
  BY DEF Handled, InputType
<1>2. ASSUME NEW n \in 0 .. Len(delivered) PROVE EndOf(n) \in 0 .. Len(sent)
  <2>1. CASE n = 0
    BY <1>1, <2>1 DEF EndOf
  <2>2. CASE n # 0
    <3>1. n \in 1 .. Len(delivered)
      BY <1>1, <1>2, <2>2
    <3>2. delivered[n] \in Seq(Numbers) /\ delivered[n] # <<>>
      BY <3>1 DEF Handled
    <3>3. \A m \in Seq(Numbers) : m # <<>> => m[Len(m)] \in Numbers
      OBVIOUS
    <3> QED
      BY <1>1, <2>2, <3>2, <3>3 DEF EndOf, Numbers
  <2> QED
    BY <2>1, <2>2, Zenon
<1> QED
  BY <1>1, <1>2 DEF LastEnd

\* The handler gets the fragments and the frame that ends the message.
LEMMA MessageEnded ==
  ASSUME InputType, delivered \in Handled, MessagesWhole,
         NEW fs \in Seq(Numbers), NEW i \in Numbers, Gathered(fs, LastEnd, i, sent),
         sent[i].type \in Data, sent[i].final,
         delivered' = Append(delivered, Append(fs, i)), sent' = sent
  PROVE  MessagesWhole' /\ delivered' \in Handled' /\ LastEnd' = i
<1> DEFINE m == Append(fs, i)
<1>0. PICK d \in Nat : d = Len(delivered)
  BY EndsNumbers, Zenon
<1>1. /\ d \in Nat /\ DOMAIN delivered = 1 .. d /\ Len(sent) \in Nat
      /\ LastEnd \in Nat /\ i \in Nat /\ i <= Len(sent) /\ fs \in Seq(Nat)
  BY <1>0, EndsNumbers DEF Numbers, InputType
<1>2. m \in Seq(Numbers) /\ m # <<>> /\ m[Len(m)] = i
  OBVIOUS
<1>3. /\ delivered' \in Handled' /\ Len(delivered') = d + 1 /\ DOMAIN delivered' = 1 .. d + 1
      /\ delivered'[d + 1] = m
      /\ \A n \in 1 .. d : delivered'[n] = delivered[n]
  <2>1. delivered' = Append(delivered, m)
    BY Zenon
  <2> HIDE DEF m
  <2> QED
    BY <1>0, <1>1, <1>2, <2>1 DEF Handled, Numbers
<1>4. EndOf(d + 1)' = i /\ LastEnd' = i
  BY <1>1, <1>2, <1>3 DEF EndOf, LastEnd
<1>5. ASSUME NEW n \in 0 .. d PROVE EndOf(n)' = EndOf(n)
  BY <1>1, <1>3, <1>5 DEF EndOf
<1>6. MessageEnds' = MessageEnds
  BY Zenon DEF MessageEnds
<1> HIDE DEF m
<1>7. ASSUME NEW n \in 1 .. d
      PROVE  MessageWhole(n)'
  <2>1. n - 1 \in 0 .. d /\ n \in 0 .. d
    BY <1>1
  <2>2. EndOf(n - 1)' = EndOf(n - 1) /\ EndOf(n)' = EndOf(n) /\ delivered'[n] = delivered[n]
    BY <1>3, <1>5, <2>1, Zenon
  <2>3. MessageWhole(n)
    BY <1>1, Zenon DEF MessagesWhole
  <2> QED
    BY <1>6, <2>2, <2>3, Zenon DEF MessageWhole
<1>8. MessageWhole(d + 1)'
  <2> DEFINE extent == LastEnd + 1 .. i
  <2>1. EndOf(d)' = LastEnd
    BY <1>0, <1>1, <1>5 DEF LastEnd
  <2>2. LastEnd < i /\ extent = (LastEnd + 1 .. i - 1) \cup {i}
    BY <1>1 DEF Gathered
  <2>3. Range(m) = {k \in extent : sent[k].type \in Data}
    <3>1. Range(fs) = {k \in LastEnd + 1 .. i - 1 : sent[k].type \in Data}
      BY Zenon DEF Gathered
    <3> QED
      BY <1>1, <2>2, <3>1, AppendRange DEF m
  <2>4. \A k, j \in DOMAIN m : k < j => m[k] < m[j]
    <3>1. \A j \in Range(fs) : j < i
      BY <1>1 DEF Gathered
    <3> QED
      BY <1>1, <3>1, InOrder, Zenon DEF Gathered, m
  <2>5. extent \cap MessageEnds = {i}
    <3>1. i \in MessageEnds /\ i \in extent
      BY <1>1, <2>2 DEF MessageEnds, InputType
    <3>2. \A k \in LastEnd + 1 .. i - 1 : k \notin MessageEnds
      BY Zenon DEF Gathered, MessageEnds
    <3> QED
      BY <2>2, <3>1, <3>2, Zenon
  <2> HIDE DEF extent
  <2>6. (d + 1) - 1 = d
    BY <1>1
  <2>7. extent = EndOf((d + 1) - 1)' + 1 .. EndOf(d + 1)'
    BY <1>4, <2>1, <2>6, Zenon DEF extent
  <2> QED
    BY <1>3, <1>4, <1>6, <2>3, <2>4, <2>5, <2>7 DEF MessageWhole
<1>9. MessagesWhole'
  <2>1. \A n \in 1 .. d + 1 : n \in 1 .. d \/ n = d + 1
    BY <1>1
  <2> QED
    BY <1>3, <1>7, <1>8, <2>1, Zenon DEF MessagesWhole
<1> QED
  BY <1>3, <1>4, <1>9, Zenon

LEMMA Splits ==
  ASSUME NEW S, NEW w \in Seq(S), NEW n \in Nat \ {0}, n <= Len(w)
  PROVE  /\ SubSeq(w, 1, n) \in Seq(S) /\ SubSeq(w, n + 1, Len(w)) \in Seq(S)
         /\ w = SubSeq(w, 1, n) \o SubSeq(w, n + 1, Len(w))
<1> DEFINE p == SubSeq(w, 1, n)
           q == SubSeq(w, n + 1, Len(w))
<1>1. p \in Seq(S) /\ Len(p) = n /\ \A j \in 1 .. n : p[j] = w[j]
  OBVIOUS
<1>2. /\ q \in Seq(S) /\ Len(q) = Len(w) - n
      /\ \A j \in 1 .. Len(w) - n : q[j] = w[j + n]
  OBVIOUS
<1> HIDE DEF p, q
<1>3. p \in Seq(S) /\ q \in Seq(S) /\ Len(p) = n /\ Len(q) = Len(w) - n /\ Len(w) \in Nat
  BY <1>1, <1>2
<1>4. p \o q \in Seq(S) /\ Len(p \o q) = Len(w)
  BY <1>3
<1>5. \A j \in 1 .. Len(w) : (p \o q)[j] = IF j <= n THEN p[j] ELSE q[j - n]
  BY <1>3
<1>6. ASSUME NEW j \in 1 .. Len(w) PROVE (p \o q)[j] = w[j]
  <2>1. CASE j <= n
    <3>1. j \in 1 .. n
      BY <1>3, <2>1
    <3> QED
      BY <1>1, <1>5, <2>1, <3>1, Zenon
  <2>2. CASE j > n
    <3>1. j - n \in 1 .. Len(w) - n /\ (j - n) + n = j
      BY <1>3, <2>2
    <3>2. (p \o q)[j] = q[j - n]
      BY <1>3, <1>5, <2>2
    <3> QED
      BY <1>2, <3>1, <3>2, Zenon
  <2> QED
    BY <1>3, <2>1, <2>2
<1>7. p \o q = w
  BY <1>4, <1>6, SeqEqual, Zenon
<1> QED
  BY <1>1, <1>2, <1>7, Zenon DEF p, q

Cat(p, q) == p \o q

LEMMA CatLaws ==
  ASSUME NEW S, NEW p \in Seq(S), NEW q \in Seq(S), NEW r \in Seq(S)
  PROVE  Cat(p, q) \in Seq(S) /\ Cat(Cat(p, q), r) = Cat(p, Cat(q, r))
  BY ConcatProperties, ConcatAssociative DEF Cat

LEMMA CatAssociates ==
  \A p, q, r \in Seq(Nat) : Cat(Cat(p, q), r) = Cat(p, Cat(q, r))
  BY CatLaws

LEMMA LastAppended ==
  \A fs \in Seq(Nat), i \in Nat :
    Append(fs, i) # <<>> /\ Append(fs, i)[Len(Append(fs, i))] = i
  OBVIOUS

LEMMA BufferFirst ==
  ASSUME InputType, NEW b \in Seq(Numbers), NEW w \in Seq(Numbers)
  PROVE  /\ b \o w \in Seq(Numbers)
         /\ FirstOf(b \o w, sent) \in 1 .. Len(sent) + 1
         /\ b # <<>> => /\ b \o w # <<>> /\ (b \o w)[1] = b[1]
                        /\ FirstOf(b \o w, sent) = b[1] /\ b[1] \in Numbers
<1>1. b \o w \in Seq(Numbers) /\ Len(sent) \in Nat
  BY DEF InputType
<1>2. \A s \in Seq(Numbers) : s # <<>> => s[1] \in Numbers
  OBVIOUS
<1>3. b # <<>> => b \o w # <<>> /\ (b \o w)[1] = b[1]
  OBVIOUS
<1>4. FirstOf(b \o w, sent) \in 1 .. Len(sent) + 1
  <2>1. CASE b \o w = <<>>
    BY <1>1, <2>1 DEF FirstOf
  <2>2. CASE b \o w # <<>>
    <3>1. (b \o w)[1] \in Numbers
      BY <1>1, <1>2, <2>2, Zenon
    <3> QED
      BY <1>1, <2>2, <3>1 DEF FirstOf, Numbers
  <2> QED
    BY <2>1, <2>2, Zenon
<1>5. ASSUME b # <<>> PROVE FirstOf(b \o w, sent) = b[1] /\ b[1] \in Numbers
  BY <1>2, <1>3, <1>5, Zenon DEF FirstOf
<1> QED
  BY <1>1, <1>3, <1>4, <1>5, Zenon

\* The buffer without the frame that begins it.
LEMMA FirstRemoved ==
  ASSUME InputType, NEW b \in Seq(Numbers), NEW w \in Seq(Numbers), b # <<>>,
         Whole(b \o w, sent), sent[b[1]].size <= Len(b)
  PROVE  LET rest == SubSeq(b, sent[b[1]].size + 1, Len(b)) IN
           /\ rest \in Seq(Numbers) /\ Whole(rest \o w, sent)
           /\ FirstOf(rest \o w, sent) = b[1] + 1
<1> DEFINE rest == SubSeq(b, sent[b[1]].size + 1, Len(b))
           s == b \o w
<1>1. s \in Seq(1 .. Len(sent)) /\ s # <<>> /\ s[1] = b[1] /\ b[1] \in Numbers
  BY BufferFirst, Zenon DEF Numbers
<1>2. sent[b[1]].size \in Nat \ {0}
  BY <1>1, FrameSize, Zenon
<1>3. rest \o w = SubSeq(s, sent[s[1]].size + 1, Len(s))
  BY <1>1, <1>2, FrontRemoved, Zenon
<1>4. rest \in Seq(Numbers)
  BY <1>2, Behind, Zenon
<1> HIDE DEF rest, s
<1>5. sent \in Seq(Frame) /\ Whole(s, sent)
  BY Zenon DEF InputType, s
<1>6. LET n == sent[s[1]].size
          t == SubSeq(s, n + 1, Len(s)) IN
        Whole(t, sent) /\ FirstOf(t, sent) = s[1] + 1
  BY <1>1, <1>5, DropFirst, Zenon
<1>7. Whole(rest \o w, sent) /\ FirstOf(rest \o w, sent) = b[1] + 1
  BY <1>1, <1>3, <1>6, Zenon
<1> QED
  BY <1>4, <1>7, Zenon DEF rest

\* receive(): the frame that was handled is removed, and the next one is first.
LEMMA ClearedReady ==
  ASSUME InputType, delivered \in Handled, Position, holder \in {"user", "sending", "pinging"}
  PROVE  Cleared \in Seq(Numbers) /\ Ready(Cleared, wire, <<>>)
<1>1. Whole(buffer \o wire, sent)
  BY Zenon DEF Position
<1>2. CASE frames = <<>>
  <2>1. Gathered(<<>>, LastEnd, First, sent)
    BY <1>2, Zenon DEF Position, Answered
  <2> QED
    BY <1>1, <1>2, <2>1, Zenon DEF Cleared, Ready, First, InputType
<1>3. CASE frames # <<>>
  <2> DEFINE i == First
  <2>1. /\ frames[Len(frames)] = i /\ LastEnd <= i
        /\ buffer # <<>> /\ buffer[1] = i /\ sent[i].size <= Len(buffer)
        /\ \A k \in LastEnd + 1 .. i : sent[k].type \notin Data
    BY <1>3, Zenon DEF Position, Answered
  <2>2. buffer \in Seq(Numbers) /\ wire \in Seq(Numbers)
    BY Zenon DEF InputType
  <2>3. /\ Cleared = SubSeq(buffer, sent[buffer[1]].size + 1, Len(buffer))
        /\ sent[buffer[1]].size <= Len(buffer)
    BY <1>3, <2>1, Zenon DEF Cleared
  <2>4. /\ Cleared \in Seq(Numbers) /\ Whole(Cleared \o wire, sent)
        /\ FirstOf(Cleared \o wire, sent) = buffer[1] + 1
    BY <1>1, <2>1, <2>2, <2>3, FirstRemoved, Zenon
  <2>5. i \in Nat /\ LastEnd \in Nat
    BY <2>1, <2>2, BufferFirst, EndsNumbers DEF Numbers
  <2> HIDE DEF i
  <2>6. LastEnd < i + 1 /\ LastEnd + 1 .. (i + 1) - 1 = LastEnd + 1 .. i
    BY <2>1, <2>5
  <2>7. Range(<<>>) = {}
    BY DEF Range
  <2>8. {k \in LastEnd + 1 .. (i + 1) - 1 : sent[k].type \in Data} = {}
    BY <2>1, <2>6, Zenon
  <2>9. Gathered(<<>>, LastEnd, i + 1, sent)
    <3>1. \A k \in LastEnd + 1 .. (i + 1) - 1 : sent[k].type \notin Data
      BY <2>1, <2>6, Zenon
    <3>2. \A j \in DOMAIN <<>> : FALSE
      OBVIOUS
    <3> QED
      BY <2>6, <2>7, <2>8, <3>1, <3>2, Zenon DEF Gathered
  <2> QED
    BY <2>1, <2>4, <2>9, Zenon DEF Ready
<1> QED
  BY <1>2, <1>3, Zenon

\* process_receive_buffer keeps the messages whole, from bytes and fragments
\* that it can be called with.
LEMMA ProcessMessages ==
  ASSUME InputType, delivered \in Handled, MessagesWhole, PingsOutside,
         NEW b \in Seq(Numbers), wire' \in Seq(Numbers), NEW fs \in Seq(Numbers), NEW out,
         Ready(b, wire', fs), sent' = sent, ProcessReceiveBuffer(b, fs, out)
  PROVE  delivered' \in Handled' /\ MessagesWhole' /\ Position'
<1> DEFINE w == wire'
<1>1. ASSUME delivered' = delivered
      PROVE  delivered' \in Handled' /\ MessagesWhole' /\ LastEnd' = LastEnd
  BY <1>1, Zenon
     DEF Handled, Numbers, MessagesWhole, MessageWhole, MessageEnds, EndOf, LastEnd
<1>2. ASSUME delivered' = delivered, holder' = "closing"
      PROVE  delivered' \in Handled' /\ MessagesWhole' /\ Position'
  BY <1>1, <1>2, Zenon DEF Position
<1>3. CASE /\ holder' = "reading" /\ buffer' = b /\ frames' = fs
           /\ UNCHANGED delivered
  <2>1. First' = FirstOf(b \o w, sent) /\ Whole(buffer' \o wire', sent')
    BY <1>3, Zenon DEF First, Ready
  <2>2. Gathered(frames', LastEnd', First', sent')
    BY <1>1, <1>3, <2>1, Zenon DEF Ready
  <2> QED
    BY <1>1, <1>3, <2>1, <2>2, Zenon DEF Position
<1>4. CASE IsComplete(b)
  <2> DEFINE i == b[1]
  <2>1. b # <<>> /\ sent[i].size <= Len(b)
    BY <1>4, Zenon DEF IsComplete
  <2>2. FirstOf(b \o w, sent) = i /\ i \in Numbers /\ b \o w \in Seq(Numbers)
    BY <2>1, BufferFirst, Zenon
  <2>3. /\ Whole(b \o w, sent) /\ Gathered(fs, LastEnd, i, sent)
        /\ LastEnd \in Nat /\ i \in Nat /\ fs \in Seq(Nat)
    BY <2>2, EndsNumbers DEF Ready, Numbers
  <2>4. sent[i] \in Frame
    BY <2>2 DEF InputType, Numbers
  <2> HIDE DEF i
  <2>5. CASE ~sent[i].final /\ OnContinuation(b, fs, i, out) /\ ~OnClose(b, fs, out)
    <3>1. /\ buffer' = SubSeq(b, sent[i].size + 1, Len(b)) /\ frames' = Append(fs, i)
          /\ holder' = "posted_process" /\ UNCHANGED delivered
      BY <2>5, Zenon DEF OnContinuation
    <3>2. /\ Whole(buffer' \o w, sent)
          /\ FirstOf(buffer' \o w, sent) = i + 1
      BY <2>1, <2>3, <3>1, FirstRemoved, Zenon DEF i
    <3>3. sent[i].type \in Data
      BY <2>4, <2>5, FrameFields, Zenon
    <3>4. Gathered(Append(fs, i), LastEnd, i + 1, sent)
      BY <2>3, <2>5, <3>3, FragmentGathered, Zenon
    <3>5. First' = i + 1 /\ Whole(buffer' \o wire', sent')
      BY <3>2, Zenon DEF First
    <3>6. Gathered(frames', LastEnd', First', sent')
      BY <1>1, <3>1, <3>4, <3>5, Zenon
    <3> QED
      BY <1>1, <3>1, <3>5, <3>6, Zenon DEF Position
  <2>6. CASE sent[i].final /\ ProcessFinalFrame(b, fs, i, out) /\ sent[i].type \in Data
    <3>1. /\ buffer' = b /\ frames' = Append(fs, i) /\ holder' = "user"
          /\ delivered' = Append(delivered, Append(fs, i))
      <4>1. Data \cap {"ping", "pong", "close"} = {}
        BY Zenon DEF Data
      <4> QED
        BY <2>6, <4>1, Zenon DEF ProcessFinalFrame
    <3>2. MessagesWhole' /\ delivered' \in Handled' /\ LastEnd' = i
      BY <2>2, <2>3, <2>6, <3>1, MessageEnded, Zenon
    <3>3. First' = i /\ Whole(buffer' \o wire', sent')
      BY <2>2, <2>3, <3>1, Zenon DEF First
    <3>4. frames' # <<>> /\ frames'[Len(frames')] = i
      BY <2>3, <3>1, LastAppended, Zenon
    <3>5. LastEnd' + 1 .. First' = {}
      BY <2>3, <3>2, <3>3
    <3>6. Answered(frames', LastEnd', buffer', First', sent')
      BY <2>1, <2>3, <3>1, <3>2, <3>3, <3>4, <3>5 DEF Answered, i
    <3> QED
      BY <3>1, <3>2, <3>3, <3>6, Zenon DEF Position
  <2>7. CASE sent[i].final /\ ProcessFinalFrame(b, fs, i, out) /\ sent[i].type = "ping"
    <3>1. /\ buffer' = b /\ frames' = Append(fs, i) /\ holder' = "pinging"
          /\ UNCHANGED delivered
      BY <2>7, Zenon DEF ProcessFinalFrame, OnPing, Data
    <3>2. \A k \in LastEnd + 1 .. i : sent[k].type \notin Data
      <4>1. fs = <<>>
        <5> SUFFICES ASSUME fs # <<>> PROVE FALSE
          BY Zenon
        <5>1. i - 1 \in Range(fs)
          BY <2>3 DEF Gathered, Range
        <5>2. i - 1 \in LastEnd + 1 .. i - 1 /\ sent[i - 1].type \in Data /\ ~sent[i - 1].final
          BY <5>1, <2>3, Zenon DEF Gathered
        <5>3. i - 1 \in 1 .. Len(sent) - 1 /\ (i - 1) + 1 = i
          BY <2>2, <2>3, <5>2 DEF Numbers
        <5> QED
          BY <2>7, <5>2, <5>3, Zenon DEF PingsOutside
      <4>2. {k \in LastEnd + 1 .. i - 1 : sent[k].type \in Data} = {}
        BY <2>3, <4>1 DEF Gathered, Range
      <4>3. \A k \in LastEnd + 1 .. i : k = i \/ k \in LastEnd + 1 .. i - 1
        BY <2>3
      <4> QED
        BY <2>7, <4>2, <4>3, Zenon DEF Data
    <3>3. First' = i /\ Whole(buffer' \o wire', sent')
      BY <2>2, <2>3, <3>1, Zenon DEF First
    <3>4. frames' # <<>> /\ frames'[Len(frames')] = i
      BY <2>3, <3>1, LastAppended, Zenon
    <3>5. LastEnd' = LastEnd /\ LastEnd <= i
      BY <1>1, <2>3, <3>1 DEF Gathered
    <3>6. Answered(frames', LastEnd', buffer', First', sent')
      BY <2>1, <2>3, <3>1, <3>2, <3>3, <3>4, <3>5, Zenon DEF Answered, i
    <3> QED
      BY <1>1, <3>1, <3>3, <3>6, Zenon DEF Position
  <2>8. CASE \E fs1 : OnClose(b, fs1, out)
    BY <1>2, <2>8, Zenon DEF OnClose
  <2> QED
    BY <1>3, <1>4, <2>5, <2>6, <2>7, <2>8, Zenon
       DEF ProcessReceiveBuffer, ProcessFinalFrame, i
<1>5. CASE OnClose(b, fs, out)
  BY <1>2, <1>5, Zenon DEF OnClose
<1> QED
  BY <1>3, <1>4, <1>5, Zenon DEF ProcessReceiveBuffer

\* A frame that the client sends comes behind all that is on its way.
LEMMA SendMessages ==
  ASSUME Messages, "ping_inside" \notin Liberties, NEW f \in Frame, SendFrame(f)
  PROVE  delivered' \in Handled' /\ PingsOutside' /\ MessagesWhole' /\ Position'
<1> DEFINE N == Len(sent)
           bytes == [i \in 1 .. f.size |-> N + 1]
<1>1. /\ sent' = Append(sent, f) /\ wire' = wire \o bytes
      /\ UNCHANGED <<buffer, frames, holder, delivered>>
  BY Zenon DEF SendFrame
<1>2. /\ sent \in Seq(Frame) /\ wire \in Seq(Numbers) /\ buffer \in Seq(Numbers)
      /\ delivered \in Handled /\ N \in Nat /\ InputType
  BY DEF Messages, InputType, Handled
<1>3. /\ Len(sent') = N + 1 /\ sent'[N + 1] = f
      /\ \A k \in 1 .. N : sent'[k] = sent[k]
      /\ DOMAIN sent = 1 .. N /\ DOMAIN sent' = 1 .. N + 1
  BY <1>1, <1>2
<1>4. \A n \in 0 .. Len(delivered) : EndOf(n) \in 0 .. N
  BY <1>2, EndsNumbers, Zenon
<1>5. LastEnd \in 0 .. N /\ DOMAIN delivered = 1 .. Len(delivered) /\ Len(delivered) \in Nat
  BY <1>2, EndsNumbers, Zenon
<1>6. LastEnd' = LastEnd
  BY <1>1, Zenon DEF LastEnd, EndOf
<1>7. delivered' \in Handled'
  <2>1. Numbers \subseteq Numbers'
    BY <1>2, <1>3 DEF Numbers
  <2>2. \A m \in Seq(Numbers) : m \in Seq(Numbers')
    BY <2>1
  <2>3. \A n \in 1 .. Len(delivered) : delivered[n] \in Seq(Numbers) \ {<<>>}
    BY <1>2 DEF Handled
  <2>4. delivered \in [1 .. Len(delivered) -> Seq(Numbers') \ {<<>>}]
    BY <1>2, <2>2, <2>3 DEF Handled
  <2>5. delivered \in Seq(Seq(Numbers') \ {<<>>})
    BY <1>5, <2>4, SeqDef, Zenon
  <2> QED
    BY <1>1, <2>5, Zenon DEF Handled
<1>8. PingsOutside'
  <2> SUFFICES ASSUME NEW k \in 1 .. N, sent'[k].type \in Data, ~sent'[k].final
               PROVE  sent'[k + 1].type \notin {"ping", "pong"}
    BY <1>2, <1>3 DEF PingsOutside
  <2>1. sent[k].type \in Data /\ ~sent[k].final
    BY <1>3, Zenon
  <2>2. CASE k = N
    <3>1. k \in DOMAIN sent /\ \A j \in k + 1 .. N : FALSE
      BY <1>2, <1>3, <2>2
    <3>2. InMessage
      BY <2>1, <3>1, Zenon DEF InMessage
    <3>3. f.type \notin {"ping", "pong"}
      BY <3>2, Zenon DEF SendFrame
    <3> QED
      BY <1>3, <2>2, <3>3, Zenon
  <2>3. CASE k # N
    <3>1. k \in 1 .. N - 1 /\ k + 1 \in 1 .. N
      BY <1>2, <2>3
    <3> QED
      BY <1>3, <2>1, <3>1, Zenon DEF Messages, PingsOutside
  <2> QED
    BY <2>2, <2>3, Zenon
<1>9. MessagesWhole'
  <2> SUFFICES ASSUME NEW n \in 1 .. Len(delivered) PROVE MessageWhole(n)'
    BY <1>1, <1>5, Zenon DEF MessagesWhole
  <2>1. MessageWhole(n)
    BY <1>5, Zenon DEF Messages, MessagesWhole
  <2>2. EndOf(n - 1)' = EndOf(n - 1) /\ EndOf(n)' = EndOf(n) /\ delivered'[n] = delivered[n]
    BY <1>1, Zenon DEF EndOf
  <2>3. EndOf(n - 1) \in 0 .. N /\ EndOf(n) \in 0 .. N
    BY <1>4, <1>5
  <2>4. \A k \in EndOf(n - 1) + 1 .. EndOf(n) : k \in 1 .. N
    BY <1>2, <2>3
  <2>5. \A k \in EndOf(n - 1) + 1 .. EndOf(n) :
          sent'[k] = sent[k] /\ (k \in MessageEnds' <=> k \in MessageEnds)
    BY <1>2, <1>3, <2>4 DEF MessageEnds
  <2>6. {k \in EndOf(n - 1) + 1 .. EndOf(n) : sent'[k].type \in Data} =
        {k \in EndOf(n - 1) + 1 .. EndOf(n) : sent[k].type \in Data}
    BY <2>5, Zenon
  <2>7. (EndOf(n - 1) + 1 .. EndOf(n)) \cap MessageEnds' =
        (EndOf(n - 1) + 1 .. EndOf(n)) \cap MessageEnds
    BY <2>5, Zenon
  <2> QED
    BY <2>1, <2>2, <2>6, <2>7, Zenon DEF MessageWhole
<1>10. ASSUME holder \notin {"closing", "gone"} PROVE Position'
  <2> DEFINE s == buffer \o wire
  <2>1. s \in Seq(1 .. N) /\ Whole(s, sent) /\ First = FirstOf(s, sent) /\ First \in 1 .. N + 1
    BY <1>2, <1>10, BufferFirst, Zenon DEF Messages, Position, First, Numbers
  <2>2. buffer' \o wire' = s \o bytes
    <3>1. bytes \in Seq({N + 1})
      <4>1. f.size \in Nat
        BY FrameFields, Zenon
      <4>2. bytes \in [1 .. f.size -> {N + 1}]
        BY Zenon
      <4> HIDE DEF bytes
      <4> QED
        BY <4>1, <4>2, SeqDef, Zenon
    <3>3. buffer \in Seq(Nat) /\ wire \in Seq(Nat) /\ bytes \in Seq(Nat)
      <4>1. Numbers \subseteq Nat /\ {N + 1} \subseteq Nat
        BY <1>2 DEF Numbers
      <4> HIDE DEF bytes
      <4> QED
        BY <1>2, <3>1, <4>1, SeqMonotonic, Zenon
    <3> HIDE DEF bytes
    <3>4. Cat(Cat(buffer, wire), bytes) = Cat(buffer, Cat(wire, bytes))
      BY <3>3, CatAssociates, Zenon
    <3> QED
      BY <1>1, <3>4, Zenon DEF Cat
  <2> HIDE DEF s
  <2>3. Whole(s \o bytes, sent') /\ FirstOf(s \o bytes, sent') = FirstOf(s, sent)
    <3>1. Whole(s \o bytes, Append(sent, f)) /\ FirstOf(s \o bytes, Append(sent, f)) = FirstOf(s, sent)
      BY <1>2, <2>1, AddLast, Zenon
    <3> QED
      BY <1>1, <3>1, Zenon
  <2>4. First' = First /\ Whole(buffer' \o wire', sent')
    BY <2>1, <2>2, <2>3, Zenon DEF First
  <2>5. ASSUME Gathered(frames, LastEnd, First, sent)
        PROVE  Gathered(frames', LastEnd', First', sent')
    <3>1. LastEnd \in Nat
      BY <1>2, <1>5
    <3> QED
      BY <1>1, <1>2, <1>6, <2>1, <2>4, <2>5, <3>1, GatheredStays, Zenon
  <2>6. ASSUME Answered(frames, LastEnd, buffer, First, sent)
        PROVE  Answered(frames', LastEnd', buffer', First', sent')
    <3>1. First \in 1 .. N
      BY <1>2, <2>6, BufferFirst, Zenon DEF Answered, Numbers
    <3>2. sent'[First] = sent[First]
      BY <1>3, <3>1, Zenon
    <3>3. \A k \in LastEnd + 1 .. First : sent'[k] = sent[k]
      BY <1>2, <1>3, <1>5, <3>1
    <3> QED
      BY <1>1, <1>6, <2>4, <2>6, <3>2, <3>3, Zenon DEF Answered
  <2>7. \/ /\ holder \in {"reading", "posted_process"} \/ frames = <<>>
           /\ Gathered(frames, LastEnd, First, sent)
        \/ /\ holder \in {"user", "posted_send", "sending", "pinging"}
           /\ Answered(frames, LastEnd, buffer, First, sent)
    BY <1>10, Zenon DEF Messages, Position
  <2> QED
    BY <1>1, <2>4, <2>5, <2>6, <2>7, Zenon DEF Position
<1>11. ASSUME holder \in {"closing", "gone"} PROVE Position'
  <2>1. holder' \in {"closing", "gone"}
    BY <1>1, <1>11, Zenon
  <2> QED
    BY <2>1, Zenon DEF Position
<1> QED
  BY <1>7, <1>8, <1>9, <1>10, <1>11, Zenon

LEMMA StepMessages ==
  ASSUME "ping_inside" \notin Liberties, Messages, Input, Input', [Next]_vars
  PROVE  Messages'
<1> USE DEF Messages
<1>1. ASSUME UNCHANGED <<sent, delivered>>
      PROVE  delivered' \in Handled' /\ PingsOutside' /\ MessagesWhole' /\ LastEnd' = LastEnd
  BY <1>1, Zenon
     DEF Handled, Numbers, PingsOutside, MessagesWhole, MessageWhole, MessageEnds, EndOf,
     LastEnd
<1>2. ASSUME UNCHANGED <<sent, delivered, wire, buffer, frames>>,
             \/ holder' \in {"closing", "gone"} \/ holder' = holder
             \/ holder = "handshake" /\ holder' = "user"
             \/ holder = "user" /\ holder' = "posted_send"
             \/ holder = "posted_send" /\ holder' = "sending"
      PROVE  Messages'
  <2>1. First' = First
    BY <1>2, Zenon DEF First
  <2>2. Position'
    BY <1>1, <1>2, <2>1, Zenon DEF Position
  <2> QED
    BY <1>1, <1>2, <2>2, Zenon DEF Input, Handled
<1>3. ASSUME NEW b \in Seq(Numbers), wire' \in Seq(Numbers), NEW fs \in Seq(Numbers), NEW out,
             Ready(b, wire', fs), sent' = sent, ProcessReceiveBuffer(b, fs, out)
      PROVE  Messages'
  <2>1. delivered' \in Handled' /\ MessagesWhole' /\ Position'
    BY <1>3, ProcessMessages, Zenon DEF Handled
  <2>2. PingsOutside'
    BY <1>3, Zenon DEF PingsOutside
  <2> QED
    BY <2>1, <2>2, Zenon DEF Input, Handled
<1>4. ASSUME NEW f \in Frame, SendFrame(f) PROVE Messages'
  <2>1. delivered' \in Handled' /\ PingsOutside' /\ MessagesWhole' /\ Position'
    BY <1>4, SendMessages, Zenon
  <2> QED
    BY <2>1, Zenon DEF Input, Handled
<1>5. ASSUME NEW n \in 1 .. ReadMax, Consume(n) PROVE Messages'
  <2>1. /\ holder = "reading" /\ n <= Len(wire) /\ sent' = sent
        /\ wire' = SubSeq(wire, n + 1, Len(wire))
        /\ wire \in Seq(Numbers) /\ buffer \in Seq(Numbers) /\ frames \in Seq(Numbers)
    BY <1>5, Zenon DEF Consume, InputType
  <2>2. CASE OnClose(buffer, frames, payload)
    BY <1>1, <2>1, <2>2, Zenon DEF OnClose, Position, Input, Handled
  <2>3. CASE ProcessReceiveBuffer(buffer \o SubSeq(wire, 1, n), frames, payload)
    <3> DEFINE got == SubSeq(wire, 1, n)
    <3>1. got \in Seq(Numbers) /\ wire' \in Seq(Numbers) /\ wire = got \o wire'
      <4>1. n \in Nat \ {0} /\ n <= Len(wire)
        BY <2>1
      <4> QED
        BY <2>1, <4>1, Splits, Zenon
    <3> HIDE DEF got
    <3>2. buffer \o got \in Seq(Numbers) /\ (buffer \o got) \o wire' = buffer \o wire
      <4>1. buffer \o got \in Seq(Numbers)
        BY <2>1, <3>1, ConcatProperties, Zenon
      <4>2. buffer \in Seq(Nat) /\ got \in Seq(Nat) /\ wire' \in Seq(Nat)
        <5>1. Numbers \subseteq Nat
          BY DEF InputType, Numbers
        <5> QED
          BY <2>1, <3>1, <5>1, SeqMonotonic, Zenon
      <4>3. Cat(Cat(buffer, got), wire') = Cat(buffer, Cat(got, wire'))
        BY <4>2, CatAssociates, Zenon
      <4> QED
        BY <3>1, <4>1, <4>3, Zenon DEF Cat
    <3>3. Ready(buffer \o got, wire', frames)
      BY <2>1, <3>2, Zenon DEF Ready, Position, First, Answered
    <3> QED
      BY <1>3, <2>1, <2>3, <3>1, <3>2, <3>3, Zenon DEF got
  <2> QED
    BY <1>5, <2>2, <2>3, Zenon DEF Consume
<1>6. CASE ProcessPosted
  <2>1. /\ Ready(buffer, wire, frames) /\ wire' = wire /\ sent' = sent
        /\ ProcessReceiveBuffer(buffer, frames, payload)
    BY <1>6, Zenon DEF ProcessPosted, Passed, Ready, Position, First
  <2>2. buffer \in Seq(Numbers) /\ frames \in Seq(Numbers) /\ wire' \in Seq(Numbers)
    BY <2>1, Zenon DEF InputType
  <2> QED
    BY <1>3, <2>1, <2>2, Zenon
<1>7. CASE UserReceives \/ Written
  <2>1. PICK out : ProcessReceiveBuffer(Cleared, <<>>, out)
    BY <1>7, Zenon DEF UserReceives, Written, Receive
  <2>2. holder \in {"user", "sending", "pinging"} /\ wire' = wire /\ sent' = sent
    BY <1>7, Zenon DEF UserReceives, Written, Passed
  <2>3. Cleared \in Seq(Numbers) /\ Ready(Cleared, wire, <<>>)
    BY <2>2, ClearedReady, Zenon DEF Handled
  <2>4. wire' \in Seq(Numbers) /\ <<>> \in Seq(Numbers)
    BY <2>2 DEF InputType
  <2> QED
    BY <1>3, <2>1, <2>2, <2>3, <2>4, Zenon
<1>8. CASE \/ OnOpen \/ UserSends \/ UserCloses \/ UserDrops \/ SendInternal \/ CloseWritten
           \/ UserWrites \/ WriteFails \/ ReadFails \/ SendBroadcast \/ TakeWhole \/ TakePart
           \/ UNCHANGED vars
  <2>1. /\ UNCHANGED <<sent, delivered, wire, buffer, frames>>
        /\ \/ holder' \in {"closing", "gone"} \/ holder' = holder
           \/ holder = "handshake" /\ holder' = "user"
           \/ holder = "user" /\ holder' = "posted_send"
           \/ holder = "posted_send" /\ holder' = "sending"
    BY <1>8, Zenon
       DEF OnOpen, UserSends, UserCloses, UserDrops, SendInternal, CloseWritten,
       UserWrites, WriteFails, ReadFails, SendBroadcast, TakeWhole, TakePart, OnClose,
       Passed, vars
  <2> QED
    BY <1>2, <2>1, Zenon
<1> QED
  BY <1>4, <1>5, <1>6, <1>7, <1>8, Zenon DEF Next, Steps

\* A client that sends no control frame between the fragments of a message gets
\* each of its messages to the handler whole, in order and once, for all sizes
\* of frames and buffers and however the bytes are split into reads: the frame
\* that process_receive_buffer looks at is always the first that is not in the
\* cache, handled or answered.
THEOREM MessagesWholeHolds == "ping_inside" \notin Liberties => (Spec => []MessagesWhole)
<1> SUFFICES ASSUME "ping_inside" \notin Liberties PROVE Spec => []MessagesWhole
  BY Zenon
<1>1. Init => Input /\ Messages
  <2> SUFFICES ASSUME Init PROVE Input /\ Messages
    BY Zenon
  <2>1. Input
    BY LimitsAssumption DEF Init, Input, InputType, Numbers, Room, StorageBounded
  <2>2. /\ sent = <<>> /\ delivered = <<>> /\ frames = <<>> /\ buffer \o wire = <<>>
        /\ holder = "handshake" /\ Len(sent) = 0 /\ DOMAIN delivered = {}
    BY DEF Init
  <2>3. LastEnd = 0 /\ First = 1
    BY <2>2 DEF LastEnd, EndOf, First, FirstOf
  <2>4. Gathered(frames, LastEnd, First, sent)
    BY <2>2, <2>3 DEF Gathered, Range
  <2>5. Whole(buffer \o wire, sent)
    BY <2>2, Zenon DEF Whole
  <2>6. delivered \in Handled
    BY <2>2 DEF Handled
  <2> QED
    BY <2>1, <2>2, <2>4, <2>5, <2>6 DEF Messages, Input, PingsOutside, Position, MessagesWhole
<1>2. (Input /\ Messages) /\ [Next]_vars => (Input /\ Messages)'
  BY StepInput, StepMessages, Zenon
<1>3. Messages => MessagesWhole
  BY Zenon DEF Messages
<1> QED
  BY <1>1, <1>2, <1>3, PTL DEF Spec

-----------------------------------------------------------------------------
(* What goes out.                                                          *)

\* The owner and a broadcast have a write each at most.
Queues == {<<>>, <<"own">>, <<"broadcast">>, <<"own", "broadcast">>, <<"broadcast", "own">>}

Writers == {"handshake", "sending", "pinging", "closing"}

\* The payload has a place for the header and the pieces that it counts.
Counted(out) ==
  /\ out \in [buffers : Seq([kind : {"none", "data"}]), length : Nat]
  /\ Len(out.buffers) = out.length + 1
  /\ out.buffers[1] = [kind |-> "none"]

\* The same with the header in its place.
Headed(out) ==
  /\ Len(out.buffers) > 0
  /\ out.buffers[1] = [kind |-> "header", length |-> Len(out.buffers) - 1]

\* What the payload is, by who holds the websocket.
Payload ==
  /\ holder = "handshake" => payload = Handshake
  /\ holder = "user" => Counted(payload)
  /\ holder \in {"reading", "posted_process", "pinging"} => Counted(payload) /\ payload.length = 0
  /\ holder \in {"posted_send", "sending"} => Headed(payload)

\* The owner writes only where it waits for the write; until the client has all
\* of the handshake, nothing else can come first without cutting it in two.
Output ==
  /\ queue \in Queues
  /\ cut \subseteq Range(queue)
  /\ "own" \in Range(queue) => holder \in Writers
  /\ stream \in {"http", "frames", "mixed", "lost"}
  /\ stream = "http" =>
       /\ holder = "handshake"
       /\ \/ queue \in {<<"own">>, <<"own", "broadcast">>}
          \/ queue = <<"broadcast", "own">> /\ "own" \in cut
  /\ holder = "handshake" /\ stream = "frames" => "own" \notin Range(queue)

LEMMA QueueSets ==
  /\ Range(<<>>) = {} /\ Range(<<"own">>) = {"own"} /\ Range(<<"broadcast">>) = {"broadcast"}
  /\ Range(<<"own", "broadcast">>) = {"own", "broadcast"}
  /\ Range(<<"broadcast", "own">>) = {"own", "broadcast"}
<1>1. Range(<<>>) = {}
  BY DEF Range
<1>2. ASSUME NEW a PROVE Range(<<a>>) = {a}
  BY DEF Range
<1>3. ASSUME NEW a, NEW b PROVE Range(<<a, b>>) = {a, b}
  <2>1. DOMAIN <<a, b>> = {1, 2}
    OBVIOUS
  <2> QED
    BY <2>1 DEF Range
<1> QED
  BY <1>1, <1>2, <1>3

LEMMA WriteCounts ==
  ASSUME NEW out, Counted(out)
  PROVE  Counted(Write(out))
  BY DEF Counted, Write

LEMMA HeaderCounts ==
  ASSUME NEW out, Counted(out)
  PROVE  Headed(PrepareHeader(out))
  BY DEF Counted, Headed, PrepareHeader

LEMMA ClearCounts ==
  ASSUME NEW out
  PROVE  Counted(ClearPayload(out)) /\ ClearPayload(out).length = 0
  BY DEF Counted, ClearPayload

\* A client, handlers and a build without the liberties that concern the output.
ByTheRules == Liberties \cap {"ping_payload", "unsent", "stack_reused"} = {}

\* process_receive_buffer, with nothing in the payload, reads on, gives the
\* websocket to the user, or starts a write.
LEMMA ProcessOut ==
  ASSUME ByTheRules, NEW b, NEW fs, NEW out, Counted(out), out.length = 0,
         ProcessReceiveBuffer(b, fs, out)
  PROVE  /\ Payload'
         /\ \/ holder' \in {"reading", "posted_process", "user"} /\ queue' = queue
            \/ holder' \in {"pinging", "closing"} /\ queue' = OwnStarted
<1>1. CASE OnClose(b, fs, out)
  BY <1>1, Zenon DEF OnClose, Payload
<1>2. CASE \E g, i : ProcessFinalFrame(b, g, i, out)
  <2> PICK g, i : ProcessFinalFrame(b, g, i, out)
    BY <1>2, Zenon
  <2>1. \/ holder' = "user" /\ payload' = out /\ queue' = queue
        \/ holder' = "pinging" /\ payload' = out /\ queue' = OwnStarted
        \/ holder' = "closing" /\ queue' = OwnStarted
    BY Zenon DEF ProcessFinalFrame, OnPing, OnClose, ByTheRules
  <2> QED
    BY <2>1, Zenon DEF Payload
<1>3. CASE holder' \in {"reading", "posted_process"} /\ payload' = out /\ queue' = queue
  BY <1>3, Zenon DEF Payload
<1> QED
  BY <1>1, <1>2, <1>3, Zenon DEF ProcessReceiveBuffer, OnContinuation

\* The owner, which has no write pending, starts one, or none.
LEMMA OwnerStep ==
  ASSUME Output, "own" \notin Range(queue), stream # "http",
         UNCHANGED <<cut, stream>>, holder' # "handshake",
         \/ queue' = queue
         \/ holder' \in Writers /\ queue' = OwnStarted
  PROVE  Output'
<1> USE QueueSets
<1>1. CASE queue' = queue
  BY <1>1, Zenon DEF Output
<1>2. CASE holder' \in Writers /\ queue' = OwnStarted
  <2>1. queue' \in Queues /\ Range(queue) \subseteq Range(queue')
    BY <1>2, Zenon DEF Output, OwnStarted, Queues
  <2> QED
    BY <1>2, <2>1, Zenon DEF Output
<1> QED
  BY <1>1, <1>2, Zenon

\* What the socket takes from the front of the queue is what the client expects,
\* or comes between two parts of another write.
LEMMA TakenIsExpected ==
  ASSUME ByTheRules, Payload, Output, queue # <<>>, NEW s \in Received(Head(queue))
  PROVE  /\ s \in {stream, "mixed"}
         /\ stream = "http" /\ Head(queue) = "broadcast" => s = "mixed"
<1> USE QueueSets
<1> DEFINE w == Head(queue)
<1>1. w \in {"own", "broadcast"} /\ w \in Range(queue)
  BY DEF Output, Queues
<1>2. CASE stream \notin {"http", "frames"}
  BY <1>2, Zenon DEF Received
<1>3. CASE stream \in {"http", "frames"} /\ cut \ {w} # {}
  BY <1>3, Zenon DEF Received
<1>4. CASE stream \in {"http", "frames"} /\ cut \ {w} = {}
  <2>1. stream = "http" => w = "own"
    BY <1>4 DEF Output
  <2>2. Expected(w)
    <3>1. CASE w = "broadcast"
      BY <1>4, <2>1, <3>1, Zenon DEF Expected
    <3>2. CASE w = "own" /\ holder = "closing"
      BY <1>4, <3>2, Zenon DEF Expected, Output
    <3>3. CASE w = "own" /\ holder \in {"sending", "pinging"}
      <4>1. stream = "frames"
        BY <1>4, <3>3, Zenon DEF Output
      <4>2. CASE holder = "sending"
        <5>1. Headed(payload)
          BY <4>2, Zenon DEF Payload
        <5> QED
          BY <3>3, <4>1, <4>2, <5>1 DEF Expected, Framed, Headed
      <4>3. CASE holder = "pinging"
        <5>1. Counted(payload) /\ payload.length = 0
          BY <4>3, Zenon DEF Payload
        <5>2. payload.buffers[1].kind = "none" /\ Len(payload.buffers) = 1
          BY <5>1 DEF Counted
        <5> QED
          BY <3>3, <4>3, <5>2, Zenon DEF Expected, Framed
      <4> QED
        BY <3>3, <4>2, <4>3, Zenon
    <3>4. CASE w = "own" /\ holder = "handshake"
      <4>1. stream = "http" /\ payload = Handshake
        BY <1>1, <1>4, <3>4, Zenon DEF Output, Payload
      <4> QED
        BY <3>4, <4>1, Zenon DEF Expected, Framed, Handshake
    <3> QED
      BY <1>1, <3>1, <3>2, <3>3, <3>4, Zenon DEF Output, Writers
  <2> QED
    BY <1>4, <2>1, <2>2, Zenon DEF Received, ByTheRules
<1> QED
  BY <1>2, <1>3, <1>4, Zenon

\* The queue turned and shortened.
LEMMA QueueMoves ==
  ASSUME NEW a \in {"own", "broadcast"}, NEW b \in {"own", "broadcast"}
  PROVE  /\ Head(<<a>>) = a /\ Tail(<<a>>) = <<>>
         /\ Head(<<a, b>>) = a /\ Tail(<<a, b>>) = <<b>>
         /\ Append(<<>>, a) = <<a>> /\ Append(<<b>>, a) = <<b, a>>
<1>1. Tail(<<a>>) = <<>>
  OBVIOUS
<1>2. Tail(<<a, b>>) = <<b>>
  OBVIOUS
<1>3. Append(<<>>, a) = <<a>>
  OBVIOUS
<1>4. Append(<<b>>, a) = <<b, a>>
  <2> DEFINE S == {"own", "broadcast"}
  <2>1. <<b>> \in Seq(S) /\ <<b, a>> \in Seq(S)
    OBVIOUS
  <2>2. Append(<<b>>, a) \in Seq(S) /\ Len(Append(<<b>>, a)) = 2
    BY <2>1
  <2>3. Append(<<b>>, a)[1] = b /\ Append(<<b>>, a)[2] = a
    BY <2>1
  <2>4. Len(<<b, a>>) = 2 /\ <<b, a>>[1] = b /\ <<b, a>>[2] = a
    BY Zenon
  <2> HIDE DEF S
  <2>5. \A i \in 1 .. 2 : Append(<<b>>, a)[i] = <<b, a>>[i]
    BY <2>3, <2>4
  <2> QED
    BY <2>1, <2>2, <2>4, <2>5, SeqEqual, Zenon
<1> QED
  BY <1>1, <1>2, <1>3, <1>4

LEMMA SocketStep ==
  ASSUME ByTheRules, Payload, Output, TakeWhole \/ TakePart
  PROVE  Output'
<1> USE QueueSets
<1>1. queue # <<>> /\ holder' = holder
  BY Zenon DEF TakeWhole, TakePart
<1>2. queue \in Queues \ {<<>>}
  BY <1>1, Zenon DEF Output
<1>3. CASE TakeWhole
  <2>1. PICK s \in Received(Head(queue)) : stream' = IF s = "http" THEN "frames" ELSE s
    BY <1>3, Zenon DEF TakeWhole
  <2>2. stream' \in {"frames", "mixed", "lost"}
    BY <1>1, <2>1, TakenIsExpected, Zenon DEF Output
  <2>3. stream' = "frames" => stream = "frames" \/ Head(queue) = "own"
    BY <1>1, <1>2, <2>1, TakenIsExpected DEF Output, Queues
  <2>4. queue' = Tail(queue) /\ cut' = cut \ {Head(queue)}
    BY <1>3, Zenon DEF TakeWhole
  <2>5. queue' \in Queues /\ Range(queue') = Range(queue) \ {Head(queue)}
    BY <1>2, <2>4, QueueMoves DEF Queues
  <2> QED
    BY <1>1, <2>2, <2>3, <2>4, <2>5, Zenon DEF Output
<1>4. CASE TakePart
  <2>1. stream' \in {stream, "mixed"} /\ (stream = "http" /\ Head(queue) = "broadcast" => stream' = "mixed")
    BY <1>1, <1>4, TakenIsExpected, Zenon DEF TakePart
  <2>2. queue' = Append(Tail(queue), Head(queue)) /\ cut' = cut \cup {Head(queue)}
    BY <1>4, Zenon DEF TakePart
  <2>3. /\ queue' \in Queues /\ Range(queue') = Range(queue)
        /\ Head(queue) \in Range(queue)
        /\ queue = <<"own">> => queue' = <<"own">> /\ Head(queue) = "own"
        /\ queue = <<"own", "broadcast">> => queue' = <<"broadcast", "own">> /\ Head(queue) = "own"
        /\ queue = <<"broadcast", "own">> => Head(queue) = "broadcast"
    BY <1>2, <2>2, QueueMoves, Zenon DEF Queues
  <2> QED
    BY <1>1, <2>1, <2>2, <2>3, Zenon DEF Output
<1> QED
  BY <1>3, <1>4, Zenon

LEMMA BroadcastStep ==
  ASSUME Output, SendBroadcast
  PROVE  Output'
<1> USE QueueSets
<1>1. queue \in {<<>>, <<"own">>} /\ queue' = Append(queue, "broadcast")
  BY Zenon DEF Output, Queues, SendBroadcast
<1>2. /\ queue = <<>> => queue' = <<"broadcast">>
      /\ queue = <<"own">> => queue' = <<"own", "broadcast">>
  BY <1>1, QueueMoves, Zenon
<1> QED
  BY <1>1, <1>2, Zenon DEF Output, Queues, SendBroadcast, socket

LEMMA FailStep ==
  ASSUME Output, WriteFails
  PROVE  Output'
<1> USE QueueSets
<1>1. /\ holder' = "closing" /\ queue' = OwnStarted
      /\ cut' = cut \ {"own"} /\ stream' = "lost"
  BY Zenon DEF WriteFails, OnClose
<1>2. queue' \in Queues /\ Range(queue) \subseteq Range(queue')
  BY <1>1, Zenon DEF Output, OwnStarted, Queues
<1> QED
  BY <1>1, <1>2, Zenon DEF Output, Writers

\* Every step keeps the payload in order and the writes in theirs.
LEMMA StepOutput ==
  ASSUME ByTheRules, Payload, Output, [Next]_vars
  PROVE  Payload' /\ Output'
<1>1. ASSUME UNCHANGED <<holder, output>>
      PROVE  Payload' /\ Output'
  BY <1>1, Zenon DEF output, Payload, Output
<1>2. holder \notin Writers => "own" \notin Range(queue) /\ stream # "http"
  BY Zenon DEF Output, Writers
<1>3. holder # "handshake" => stream # "http"
  BY Zenon DEF Output
<1>4. holder \in Writers \ {"handshake"} => holder \in {"sending", "pinging", "closing"}
  BY Zenon DEF Writers
<1>5. ASSUME NEW b, NEW fs, NEW out, Counted(out), out.length = 0,
             ProcessReceiveBuffer(b, fs, out), UNCHANGED socket,
             "own" \notin Range(queue), stream # "http"
      PROVE  Payload' /\ Output'
  <2>1. /\ Payload'
        /\ \/ holder' \in {"reading", "posted_process", "user"} /\ queue' = queue
           \/ holder' \in {"pinging", "closing"} /\ queue' = OwnStarted
    BY <1>5, ProcessOut, Zenon
  <2> QED
    BY <1>5, <2>1, OwnerStep, Zenon DEF socket, Writers
<1>6. ASSUME NEW b, NEW fs, NEW out, OnClose(b, fs, out), UNCHANGED socket,
             "own" \notin Range(queue), stream # "http"
      PROVE  Payload' /\ Output'
  <2>1. holder' = "closing" /\ queue' = OwnStarted
    BY <1>6, Zenon DEF OnClose
  <2> QED
    BY <1>6, <2>1, OwnerStep, Zenon DEF socket, Writers, Payload
<1>7. CASE OnOpen
  <2>1. Payload'
    BY <1>7, ClearCounts, Zenon DEF OnOpen, Payload
  <2>2. stream # "http"
    BY <1>7, QueueSets, Zenon DEF OnOpen, WriteDone, Output
  <2> QED
    BY <1>7, <2>1, <2>2, OwnerStep, Zenon DEF OnOpen, WriteDone, Passed, socket
<1>8. CASE UserWrites
  BY <1>8, WriteCounts, Zenon DEF UserWrites, Payload, Output, Passed, socket
<1>9. CASE UserReceives
  <2>1. Counted(payload) /\ payload.length = 0 /\ ProcessReceiveBuffer(Cleared, <<>>, payload)
    BY <1>9, Zenon DEF UserReceives, Receive, Payload, ByTheRules
  <2> QED
    BY <1>9, <1>2, <2>1, <1>5, Zenon DEF UserReceives, Passed, socket, Writers
<1>10. CASE UserSends
  <2>1. Payload'
    BY <1>10, HeaderCounts, Zenon DEF UserSends, Payload
  <2> QED
    BY <1>2, <1>10, <2>1, OwnerStep, Zenon DEF UserSends, Passed, socket, Writers
<1>11. CASE UserCloses
  BY <1>2, <1>6, <1>11, Zenon DEF UserCloses, Passed, socket, Writers
<1>12. CASE UserDrops
  BY <1>12, Zenon DEF UserDrops, Payload, Output, Writers
<1>13. CASE SendInternal
  <2>1. Payload'
    BY <1>13, Zenon DEF SendInternal, Payload
  <2> QED
    BY <1>2, <1>13, <2>1, OwnerStep, Zenon DEF SendInternal, Passed, socket, Writers
<1>14. CASE Written
  <2>1. /\ ProcessReceiveBuffer(Cleared, <<>>, ClearPayload(payload))
        /\ "own" \notin Range(queue) /\ stream # "http" /\ UNCHANGED socket
    BY <1>3, <1>14, Zenon DEF Written, Receive, WriteDone, Passed, socket
  <2> QED
    BY <2>1, <1>5, ClearCounts, Zenon
<1>15. CASE ProcessPosted
  <2>1. Counted(payload) /\ payload.length = 0
    BY <1>15, Zenon DEF ProcessPosted, Payload
  <2> QED
    BY <1>2, <1>5, <1>15, <2>1, Zenon DEF ProcessPosted, Passed, socket, Writers
<1>16. CASE CloseWritten
  BY <1>16, Zenon DEF CloseWritten, WriteDone, Payload, Output
<1>17. ASSUME NEW n \in 1 .. ReadMax, Consume(n)
       PROVE  Payload' /\ Output'
  <2>1. Counted(payload) /\ payload.length = 0 /\ "own" \notin Range(queue)
        /\ stream # "http" /\ UNCHANGED socket
    BY <1>2, <1>17, Zenon DEF Consume, Payload, Writers
  <2>2. CASE OnClose(buffer, frames, payload)
    BY <1>6, <2>1, <2>2, Zenon
  <2>3. CASE ProcessReceiveBuffer(buffer \o SubSeq(wire, 1, n), frames, payload)
    BY <1>5, <2>1, <2>3, Zenon
  <2> QED
    BY <1>17, <2>2, <2>3, Zenon DEF Consume
<1>18. CASE ReadFails
  BY <1>2, <1>6, <1>18, Zenon DEF ReadFails, Passed, socket, Writers
<1>19. CASE WriteFails
  BY <1>19, FailStep, Zenon DEF WriteFails, OnClose, Payload
<1>20. CASE SendBroadcast
  BY <1>20, BroadcastStep, Zenon DEF SendBroadcast, Payload
<1>21. CASE TakeWhole \/ TakePart
  BY <1>21, SocketStep, Zenon DEF TakeWhole, TakePart, Payload
<1>22. ASSUME NEW f \in Frame, SendFrame(f)
       PROVE  Payload' /\ Output'
  BY <1>1, <1>22, Zenon DEF SendFrame, output
<1>23. CASE UNCHANGED vars
  BY <1>1, <1>23, Zenon DEF vars, output
<1> QED
  BY <1>7, <1>8, <1>9, <1>10, <1>11, <1>12, <1>13, <1>14, <1>15, <1>16, <1>17,
     <1>18, <1>19, <1>20, <1>21, <1>22, <1>23, Zenon DEF Next, Steps

\* FramesOut, for every size and any number of frames, pieces and parts: while
\* pings carry no payload, handlers send what they write before they receive, and
\* the status of a close frame outlives the call, the websocket writes nothing
\* that is not the handshake or a frame as its header says.
THEOREM FramesOutHolds ==
  ASSUME ByTheRules
  PROVE  Spec => []FramesOut
<1>1. Init => Payload /\ Output
  BY QueueSets, Zenon DEF Init, Payload, Output, Queues, Writers, Handshake
<1>2. Payload /\ Output /\ [Next]_vars => Payload' /\ Output'
  BY StepOutput, Zenon
<1>3. Output => FramesOut
  BY Zenon DEF Output, FramesOut
<1> QED
  BY <1>1, <1>2, <1>3, PTL DEF Spec
=============================================================================
