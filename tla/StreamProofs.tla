----------------------------- MODULE StreamProofs -----------------------------
(***************************************************************************)
(* Proofs about the two modules of a stream that arrival cuts up and       *)
(* client::recv puts together again: Framing, for any number of messages   *)
(* of any sizes and any sizes of the buffer and the connection, and then   *)
(* Http, for any number of requests.                                       *)
(***************************************************************************)
EXTENDS Framing, Http, Integers, TLAPS

-----------------------------------------------------------------------------
(* Framing: types *)

\* With what the types leave open: the buffer holds bytes that were taken, and
\* client::recv goes to the socket only when the front is no whole message.
TypeInv ==
  /\ TypeOK
  /\ Avail <= taken
  /\ pc \in {"idle", "append"} => ~Whole

LEMMA Sizes ==
  /\ Header \in Nat /\ Header > 0 /\ Block \in Nat /\ Block > 0 /\ Capacity \in Nat /\ MaxMsgs \in Nat
  /\ \A m \in Msgs : m \in Nat /\ Size[m] \in Nat /\ Size[m] >= Header /\ Size[m] > 0
<1>1. \A m \in Msgs : Size[m] \in Nat /\ Size[m] >= Header
  BY FramingAssumption
<1> QED
  BY <1>1, FramingAssumption DEF Msgs

LEMMA InitTypes == Init => TypeInv
<1> SUFFICES ASSUME Init
             PROVE  TypeInv
  OBVIOUS
<1>1. /\ <<>> \in Seq(Msgs) /\ <<>> \in Seq(Bytes) /\ Len(<<>>) = 0
  OBVIOUS
<1>2. Avail = 0 /\ taken = 0
  BY DEF Init, Avail
<1>3. Avail <= taken /\ ~Whole
  BY <1>2, Sizes DEF Whole
<1>4. /\ sent \in 0 .. MaxMsgs /\ arrived \in 0 .. 0 /\ taken \in 0 .. arrived
      /\ m_max \in Nat /\ m_size \in 0 .. m_max /\ m_Pos \in 0 .. m_size
  BY Sizes DEF Init
<1>5. TypeOK
  BY <1>1, <1>4 DEF Init, TypeOK
<1> QED
  BY <1>3, <1>5 DEF TypeInv

\* How far the buffer and the reader are.
LEMMA Counts ==
  ASSUME TypeInv
  PROVE  /\ taken \in Nat /\ arrived \in Nat /\ Len(stream) \in Nat /\ taken <= arrived /\ arrived <= Len(stream)
         /\ m_size \in Nat /\ m_Pos \in Nat /\ m_max \in Nat /\ m_Pos <= m_size /\ m_size <= m_max
         /\ Avail \in Nat /\ Avail <= taken /\ taken - Avail \in Nat /\ sent \in Nat
         /\ Avail = m_size - m_Pos
<1>1. Len(stream) \in Nat
  BY DEF TypeInv, TypeOK
<1> QED
  BY <1>1, Sizes DEF TypeInv, TypeOK, Avail

LEMMA Queues ==
  ASSUME TypeInv
  PROVE  stream \in Seq(Bytes) /\ m_wbuffer \in Seq(Msgs) /\ got \in Seq(Msgs)
BY DEF TypeInv, TypeOK

\* The front of a buffer that is not empty is a byte of the stream.
LEMMA FrontByte ==
  ASSUME TypeInv, Avail > 0
  PROVE  /\ taken - Avail + 1 \in 1 .. Len(stream)
         /\ NextByte \in Bytes /\ NextByte.msg \in Msgs
<1>1. taken - Avail + 1 \in 1 .. Len(stream)
  <2>1. Len(stream) \in Nat /\ taken \in 0 .. Len(stream) /\ Avail \in 1 .. taken
    <3>1. Len(stream) \in Nat /\ taken \in Nat /\ taken <= Len(stream)
      BY Counts
    <3> QED
      BY <3>1, Counts
  <2>2. \A l \in Nat : \A m \in 0 .. l : \A a \in 1 .. m : m - a + 1 \in 1 .. l
    OBVIOUS
  <2> QED
    BY <2>1, <2>2
<1>2. NextByte \in Bytes
  <2>1. PICK f : f = taken - Avail + 1
    OBVIOUS
  <2>2. stream[f] \in Bytes
    BY <1>1, <2>1, Queues
  <2> QED
    BY <2>1, <2>2 DEF NextByte
<1> QED
  BY <1>1, <1>2 DEF Bytes

\* ::send of m: the bytes that the socket took are the first of m.
LEMMA WriteAppends ==
  ASSUME TypeInv, NEW m \in Msgs, Write(m)
  PROVE  \E k \in 1 .. Size[m] :
           /\ stream' \in Seq(Bytes) /\ Len(stream') = Len(stream) + k
           /\ \A j \in 1 .. Len(stream) : stream'[j] = stream[j]
           /\ \A i \in 1 .. k : stream'[Len(stream) + i] = [msg |-> m, at |-> i]
           /\ cut' = (cut \/ k < Size[m])
<1>1. PICK k : k = Least(Room, Size[m])
  OBVIOUS
<1>2. k \in 1 .. Size[m]
  <2>1. Room \in Int /\ k > 0
    <3>1. Len(stream) \in Nat /\ taken \in Nat /\ Capacity \in Nat
      BY Counts, Sizes
    <3>2. Room \in Int
      BY <3>1 DEF Room
    <3> QED
      BY <1>1, <3>2 DEF Write
  <2> QED
    BY <1>1, <2>1, Sizes DEF Least
<1> DEFINE piece == [i \in 1 .. k |-> [msg |-> m, at |-> i]]
<1>3. stream' = stream \o piece /\ cut' = (cut \/ k < Size[m])
  BY <1>1 DEF Write
<1>4. piece \in Seq(Bytes) /\ Len(piece) = k /\ \A i \in 1 .. k : piece[i] = [msg |-> m, at |-> i]
  <2>1. k \in Nat
    BY <1>2, Sizes
  <2>2. \A i \in 1 .. k : [msg |-> m, at |-> i] \in Bytes
    BY <2>1 DEF Bytes
  <2> QED
    BY <2>1, <2>2
<1> HIDE DEF piece
<1>5. /\ stream' \in Seq(Bytes) /\ Len(stream') = Len(stream) + k
      /\ \A j \in 1 .. Len(stream) : stream'[j] = stream[j]
      /\ \A i \in 1 .. k : stream'[Len(stream) + i] = piece[i]
  <2>1. stream \in Seq(Bytes) /\ Len(stream) \in Nat /\ k \in Nat
    BY <1>2, Counts, Queues, Sizes
  <2>2. ASSUME NEW a \in Seq(Bytes), NEW b \in Seq(Bytes)
        PROVE  /\ a \o b \in Seq(Bytes) /\ Len(a \o b) = Len(a) + Len(b)
               /\ \A j \in 1 .. Len(a) : (a \o b)[j] = a[j]
               /\ \A i \in 1 .. Len(b) : (a \o b)[Len(a) + i] = b[i]
    OBVIOUS
  <2>3. /\ stream \o piece \in Seq(Bytes) /\ Len(stream \o piece) = Len(stream) + Len(piece)
        /\ \A j \in 1 .. Len(stream) : (stream \o piece)[j] = stream[j]
        /\ \A i \in 1 .. Len(piece) : (stream \o piece)[Len(stream) + i] = piece[i]
    BY <1>4, <2>1, <2>2
  <2> QED
    BY <1>3, <1>4, <2>3
<1> QED
  BY <1>2, <1>3, <1>4, <1>5

\* Steps of the sender do not change what the receiver sees.
LEMMA GrownStream ==
  ASSUME TypeInv, stream' \in Seq(Bytes), Len(stream') >= Len(stream),
         \A j \in 1 .. Len(stream) : stream'[j] = stream[j],
         UNCHANGED <<arrived, taken, ready, m_fd, pc, buffer, got, torn>>,
         sent' \in 0 .. MaxMsgs, m_wbuffer' \in Seq(Msgs), cut' \in BOOLEAN
  PROVE  TypeInv'
<1>1. Avail' = Avail /\ (Avail > 0 => NextByte' = NextByte)
  <2>1. Avail' = Avail
    BY DEF Avail, buffer
  <2> QED
    BY <2>1, FrontByte DEF NextByte
<1>2. Whole' <=> Whole
  <2>1. CASE Avail > 0
    BY <1>1, <2>1 DEF Whole
  <2>2. CASE ~(Avail > 0)
    BY <1>1, <2>2, Counts, Sizes DEF Whole
  <2> QED
    BY <2>1, <2>2
<1>3. arrived' \in 0 .. Len(stream') /\ taken' \in 0 .. arrived'
  <2>1. Len(stream') \in Nat
    OBVIOUS
  <2>2. arrived' = arrived /\ taken' = taken
    OBVIOUS
  <2>3. PICK l \in Nat, m \in Nat : l = Len(stream) /\ m = Len(stream') /\ l <= m
    BY <2>1, Counts
  <2>4. arrived \in 0 .. m /\ taken \in 0 .. arrived
    BY <2>3, Counts
  <2> QED
    BY <2>2, <2>3, <2>4
<1> QED
  BY <1>1, <1>2, <1>3 DEF TypeInv, TypeOK, buffer

LEMMA NextMessage ==
  ASSUME TypeInv, sent < MaxMsgs
  PROVE  sent + 1 \in Msgs /\ sent + 1 \in 0 .. MaxMsgs
BY Counts, Queues, Sizes DEF Msgs

LEMMA SendTypes == TypeInv /\ Send => TypeInv'
<1> SUFFICES ASSUME TypeInv, Send
             PROVE  TypeInv'
  OBVIOUS
<1>1. /\ sent' = sent + 1 /\ sent' \in Msgs /\ sent' \in 0 .. MaxMsgs
      /\ UNCHANGED <<arrived, taken, ready, m_fd, pc, buffer, got, torn>>
  BY NextMessage DEF Send
<1>2. cut \in BOOLEAN /\ m_wbuffer \in Seq(Msgs) /\ stream \in Seq(Bytes) /\ Len(stream) \in Nat
  BY Counts, Queues DEF TypeInv, TypeOK
<1>3. m_wbuffer' \in Seq(Msgs)
  <2>1. m_wbuffer' \in {m_wbuffer, Append(m_wbuffer, sent'), <<sent'>>}
    BY DEF Send
  <2>2. Append(m_wbuffer, sent') \in Seq(Msgs) /\ <<sent'>> \in Seq(Msgs)
    <3>1. PICK m \in Msgs : m = sent'
      BY <1>1
    <3> QED
      BY <1>2, <3>1
  <2> QED
    BY <1>2, <2>1, <2>2
<1>4. CASE UNCHANGED <<stream, cut>>
  BY <1>1, <1>2, <1>3, <1>4, GrownStream
<1>5. CASE Write(sent')
  <2>1. PICK k \in 1 .. Size[sent'] :
          /\ stream' \in Seq(Bytes) /\ Len(stream') = Len(stream) + k
          /\ \A j \in 1 .. Len(stream) : stream'[j] = stream[j]
          /\ cut' = (cut \/ k < Size[sent'])
    <3>1. PICK m : m = sent'
      OBVIOUS
    <3>2. m \in Msgs /\ Write(m)
      BY <1>1, <1>5, <3>1 DEF Write
    <3> QED
      BY <3>1, <3>2, WriteAppends
  <2>2. Len(stream') >= Len(stream) /\ cut' \in BOOLEAN
    BY <1>1, <1>2, <2>1, Sizes
  <2> QED
    BY <1>1, <1>3, <2>1, <2>2, GrownStream
<1> QED
  BY <1>4, <1>5 DEF Send, Full

LEMMA SendBufferedTypes == TypeInv /\ SendBuffered => TypeInv'
<1> SUFFICES ASSUME TypeInv, SendBuffered
             PROVE  TypeInv'
  OBVIOUS
<1>1. /\ m_wbuffer \in Seq(Msgs) /\ m_wbuffer # <<>> /\ m_wbuffer' = Tail(m_wbuffer)
      /\ UNCHANGED <<sent, arrived, taken, ready, m_fd, pc, buffer, got, torn>>
      /\ Write(Head(m_wbuffer))
  BY Counts, Queues DEF SendBuffered
<1>2. PICK m \in Msgs : m = Head(m_wbuffer)
  BY <1>1
<1>3. PICK k \in 1 .. Size[m] :
        /\ stream' \in Seq(Bytes) /\ Len(stream') = Len(stream) + k
        /\ \A j \in 1 .. Len(stream) : stream'[j] = stream[j]
        /\ cut' = (cut \/ k < Size[m])
  BY <1>1, <1>2, WriteAppends
<1>4. Len(stream') >= Len(stream) /\ cut' \in BOOLEAN
  <2>1. cut \in BOOLEAN
    BY DEF TypeInv, TypeOK
  <2> QED
    BY <1>3, <2>1, Counts, Queues, Sizes
<1>5. m_wbuffer' \in Seq(Msgs) /\ sent' \in 0 .. MaxMsgs
  BY <1>1 DEF TypeInv, TypeOK
<1> QED
  BY <1>1, <1>3, <1>4, <1>5, GrownStream

\* Steps that leave the buffer as it is.
LEMMA SameBuffer ==
  ASSUME UNCHANGED <<stream, taken, buffer>>
  PROVE  Avail' = Avail /\ NextByte' = NextByte /\ (Whole' <=> Whole)
<1>1. Avail' = Avail
  BY DEF Avail, buffer
<1>2. NextByte' = NextByte
  BY <1>1 DEF NextByte
<1> QED
  BY <1>1, <1>2 DEF Whole

LEMMA AppendTypes == TypeInv /\ AppendBytes => TypeInv'
<1> SUFFICES ASSUME TypeInv, AppendBytes
             PROVE  TypeInv'
  OBVIOUS
<1>1. PICK n : n = (IF m_fd THEN Least(arrived - taken, m_max' - m_size) ELSE 0)
  OBVIOUS
<1>2. /\ pc = "append" /\ taken' = taken + n /\ m_size' = m_size + n
      /\ pc' = (IF n > 0 THEN "dispatch" ELSE "idle")
      /\ UNCHANGED <<sender, stream, arrived, ready, m_fd, m_Pos, got, cut, torn>>
  BY <1>1 DEF AppendBytes
<1>3. m_max' \in Nat /\ m_size <= m_max'
  <2>1. m_max' = (IF m_size + Block > m_max THEN 2 * Most(m_max, Block) ELSE m_max)
    BY DEF AppendBytes
  <2>2. m_size \in Nat /\ m_max \in Nat /\ m_size <= m_max /\ Block \in Nat
    BY Counts, Sizes
  <2>3. Most(m_max, Block) \in Nat /\ m_max <= Most(m_max, Block)
    BY <2>2 DEF Most
  <2>4. 2 * Most(m_max, Block) \in Nat /\ m_max <= 2 * Most(m_max, Block)
    BY <2>2, <2>3
  <2> QED
    BY <2>1, <2>2, <2>4
<1>4. n \in Nat /\ n <= arrived - taken /\ n <= m_max' - m_size
  <2>1. PICK a \in Nat : a = arrived - taken
    BY Counts
  <2>2. PICK b \in Nat : b = m_max' - m_size
    <3>1. PICK room \in Nat : room = m_max' /\ m_size <= room
      BY <1>3
    <3>2. room - m_size \in Nat
      BY <3>1, Counts
    <3> QED
      BY <3>1, <3>2
  <2>3. n \in {a, b, 0} /\ n <= a /\ n <= b
    BY <1>1, <2>1, <2>2 DEF Least
  <2> QED
    BY <2>1, <2>2, <2>3
<1>5. taken' = taken + n /\ m_size' = m_size + n /\ arrived' = arrived /\ m_Pos' = m_Pos
  BY <1>2
<1>6. /\ taken' \in 0 .. arrived' /\ m_size' \in 0 .. m_max' /\ m_Pos' \in 0 .. m_size'
      /\ Avail' = Avail + n /\ Avail' <= taken'
  <2>1. Avail' = m_size' - m_Pos'
    BY DEF Avail
  <2>2. /\ taken \in Nat /\ arrived \in Nat /\ m_size \in Nat /\ m_Pos \in Nat /\ m_Pos <= m_size
        /\ Avail \in Nat /\ Avail <= taken /\ Avail = m_size - m_Pos
    BY Counts
  <2>3. taken + n \in 0 .. arrived
    BY <1>4, <2>2
  <2>4. m_size + n \in 0 .. m_max' /\ m_Pos \in 0 .. (m_size + n)
    <3>1. PICK room \in Nat : room = m_max'
      BY <1>3
    <3>2. n \in Nat /\ n <= room - m_size
      BY <1>4, <3>1
    <3>3. m_size + n \in 0 .. room /\ m_Pos \in 0 .. (m_size + n)
      BY <2>2, <3>2
    <3> QED
      BY <3>1, <3>3
  <2>5. Avail' = Avail + n /\ Avail + n <= taken + n
    BY <1>4, <1>5, <2>1, <2>2
  <2> QED
    BY <1>5, <2>3, <2>4, <2>5
<1>7. pc' \in {"idle", "append"} => ~Whole'
  <2>1. CASE n = 0
    <3>1. Avail' = Avail /\ taken' = taken /\ stream' = stream
      BY <1>2, <1>6, <2>1, Counts
    <3>2. Whole' <=> Whole
      BY <3>1 DEF Whole, NextByte
    <3> QED
      BY <1>2, <3>2 DEF TypeInv
  <2>2. CASE n > 0
    BY <1>2, <2>2
  <2> QED
    BY <1>4, <2>1, <2>2
<1>8. pc' \in {"idle", "dispatch"}
  BY <1>2
<1> QED
  BY <1>2, <1>3, <1>6, <1>7, <1>8 DEF TypeInv, TypeOK, sender

\* A whole message leaves the buffer.
LEMMA PopsFront ==
  ASSUME TypeInv, Whole, PopFront(Size[NextByte.msg])
  PROVE  /\ NextByte \in Bytes /\ NextByte.msg \in Msgs /\ Avail > 0 /\ Size[NextByte.msg] <= Avail
         /\ Avail' = Avail - Size[NextByte.msg] /\ Avail' \in Nat /\ Avail' <= taken
         /\ m_size' \in 0 .. m_max /\ m_Pos' \in 0 .. m_size'
         /\ m_size' > m_Pos' <=> Avail' > 0
<1>1. Avail > 0
  BY Sizes, Counts, Queues DEF Whole
<1>2. NextByte \in Bytes /\ NextByte.msg \in Msgs
  BY <1>1, FrontByte
<1>3. PICK n : n = Size[NextByte.msg]
  OBVIOUS
<1>4. n \in Nat /\ n > 0 /\ n <= Avail
  BY <1>2, <1>3, Sizes, Counts, Queues DEF Whole
<1>5. /\ m_Pos' = (IF m_Pos + n >= m_size THEN 0 ELSE m_Pos + n)
      /\ m_size' = (IF m_Pos + n >= m_size THEN 0 ELSE m_size)
  BY <1>3 DEF PopFront
<1>6. Avail = m_size - m_Pos /\ Avail' = m_size' - m_Pos'
  BY DEF Avail
<1>7. Avail' = Avail - n
  <2>1. PICK s \in Nat, p \in Nat : s = m_size /\ p = m_Pos /\ n <= s - p
    BY <1>4, <1>6, Counts
  <2>2. CASE p + n >= s
    <3>1. n = s - p
      BY <1>4, <2>1, <2>2
    <3>2. m_Pos' = 0 /\ m_size' = 0
      BY <1>5, <2>1, <2>2
    <3> QED
      BY <1>6, <2>1, <3>1, <3>2
  <2>3. CASE ~(p + n >= s)
    <3>1. m_Pos' = p + n /\ m_size' = s
      BY <1>5, <2>1, <2>3
    <3>2. s - (p + n) = (s - p) - n
      BY <1>4, <2>1
    <3> QED
      BY <1>6, <2>1, <3>1, <3>2
  <2> QED
    BY <2>2, <2>3
<1>8. m_size' \in 0 .. m_max /\ m_Pos' \in 0 .. m_size'
  <2>1. PICK s \in 0 .. m_max, p \in Nat : s = m_size /\ p = m_Pos
    BY Counts
  <2>2. CASE p + n >= s
    <3>1. m_Pos' = 0 /\ m_size' = 0
      BY <1>5, <2>1, <2>2
    <3> QED
      BY <3>1, Counts
  <2>3. CASE ~(p + n >= s)
    <3>1. m_Pos' = p + n /\ m_size' = s
      BY <1>5, <2>1, <2>3
    <3>2. p + n \in 0 .. s
      BY <1>4, <2>1, <2>3, Counts
    <3> QED
      BY <2>1, <3>1, <3>2
  <2> QED
    BY <2>2, <2>3
<1>9. m_size' > m_Pos' <=> Avail' > 0
  <2>1. m_size' \in Nat /\ m_Pos' \in Nat
    BY <1>8, Counts
  <2>2. \A s, p \in Nat : s > p <=> s - p > 0
    OBVIOUS
  <2> QED
    BY <1>6, <2>1, <2>2
<1>10. Avail' \in Nat /\ Avail' <= taken
  BY <1>4, <1>7, Counts
<1> QED
  BY <1>1, <1>2, <1>3, <1>4, <1>7, <1>8, <1>9, <1>10

LEMMA DispatchTypes == TypeInv /\ DispatchWhole => TypeInv'
<1> SUFFICES ASSUME TypeInv, DispatchWhole
             PROVE  TypeInv'
  OBVIOUS
<1>1. /\ NextByte.msg \in Msgs /\ Avail' \in Nat /\ Avail' <= taken
      /\ m_size' \in 0 .. m_max /\ m_Pos' \in 0 .. m_size' /\ (m_size' > m_Pos' <=> Avail' > 0)
  BY PopsFront DEF DispatchWhole
<1>2. /\ got' = Append(got, NextByte.msg) /\ m_fd' \in {m_fd, FALSE}
      /\ pc' \in {"dispatch", "append", "undefined"}
      /\ pc' = "append" => ~(m_size' > m_Pos')
      /\ UNCHANGED <<sender, stream, arrived, taken, ready, m_max, cut, torn>>
  BY DEF DispatchWhole
<1>3. got' \in Seq(Msgs)
  BY <1>1, <1>2, Counts, Queues
<1>4. Avail' \in Nat /\ Avail' <= taken'
  BY <1>1, <1>2
<1>5. pc' \in {"idle", "append"} => ~Whole'
  BY <1>1, <1>2, <1>4, Sizes DEF Whole
<1> QED
  BY <1>1, <1>2, <1>3, <1>4, <1>5 DEF TypeInv, TypeOK, sender

LEMMA TypeStep == TypeInv /\ [Next]_vars => TypeInv'
<1> SUFFICES ASSUME TypeInv, [Next]_vars
             PROVE  TypeInv'
  OBVIOUS
<1>1. CASE Send
  BY <1>1, SendTypes
<1>2. CASE SendBuffered
  BY <1>2, SendBufferedTypes
<1>3. CASE Arrive
  <2>1. arrived' \in 0 .. Len(stream) /\ taken \in 0 .. arrived'
    BY <1>3, Counts, Queues DEF Arrive
  <2> QED
    BY <1>3, <2>1, SameBuffer DEF Arrive, TypeInv, TypeOK, sender, buffer
<1>4. CASE AppendBytes
  BY <1>4, AppendTypes
<1>5. CASE DispatchWhole
  BY <1>5, DispatchTypes
<1>6. CASE Recv \/ DispatchPart \/ DispatchGarbage \/ UNCHANGED vars
  BY <1>6, SameBuffer DEF Recv, DispatchPart, DispatchGarbage, vars, TypeInv, TypeOK, sender, buffer
<1> QED
  BY <1>1, <1>2, <1>3, <1>4, <1>5, <1>6 DEF Next

-----------------------------------------------------------------------------
(* Framing: what makes the order inductive *)

\* Messages that were written to the socket, and bytes that left the buffer.
Written == sent - Len(m_wbuffer)
First == taken - Avail

\* Those that asyncnet keeps are the last that were sent, in order.
SendInv == \A i \in 1 .. Len(m_wbuffer) : m_wbuffer[i] = Written + i

\* The stream is made of the whole messages that were written, in order.
StreamInv ==
  LET n == Len(stream) IN
    /\ n = 0 => Written = 0
    /\ n > 0 => /\ stream[1] = [msg |-> 1, at |-> 1]
                /\ stream[n] = [msg |-> Written, at |-> Size[Written]]
    /\ \A j \in 1 .. n : stream[j].at = 1 =>
         \A i \in 1 .. Size[stream[j].msg] :
           j + i - 1 <= n /\ stream[j + i - 1] = [msg |-> stream[j].msg, at |-> i]
    /\ \A j \in 1 .. n : stream[j].at = Size[stream[j].msg] /\ j < n =>
         stream[j + 1] = [msg |-> stream[j].msg + 1, at |-> 1]

\* What left the buffer are the messages that were dispatched, in order.
FrontInv ==
  /\ \A i \in 1 .. Len(got) : got[i] = i
  /\ First = 0 => Len(got) = 0
  /\ First > 0 => stream[First] = [msg |-> Len(got), at |-> Size[Len(got)]]

OrderInv == SendInv /\ (InStep => StreamInv /\ FrontInv)

LEMMA InitOrder == Init => OrderInv
<1> SUFFICES ASSUME Init
             PROVE  OrderInv
  OBVIOUS
<1>1. Len(<<>>) = 0
  OBVIOUS
<1>2. First = 0 /\ Written = 0
  <2>1. sent = 0 /\ Len(m_wbuffer) = 0 /\ taken = 0 /\ m_size = 0 /\ m_Pos = 0
    BY <1>1 DEF Init
  <2> QED
    BY <2>1 DEF First, Avail, Written
<1> QED
  BY <1>1, <1>2 DEF Init, OrderInv, SendInv, StreamInv, FrontInv

\* The byte at the front is the first of the message after those dispatched.
LEMMA FrontIsNext ==
  ASSUME TypeInv, StreamInv, FrontInv, Avail > 0
  PROVE  NextByte = [msg |-> Len(got) + 1, at |-> 1]
<1>1. First \in Nat /\ First + 1 \in 1 .. Len(stream) /\ NextByte = stream[First + 1]
  BY FrontByte, Counts, Queues DEF First, NextByte
<1>2. CASE First = 0
  <2>1. Len(stream) > 0 /\ Len(got) = 0
    BY <1>1, <1>2 DEF FrontInv
  <2> QED
    BY <1>1, <1>2, <2>1 DEF StreamInv
<1>3. CASE First > 0
  <2>1. First \in 1 .. Len(stream) /\ First < Len(stream)
    BY <1>1, <1>3
  <2>2. stream[First].msg = Len(got) /\ stream[First].at = Size[Len(got)]
    BY <1>3 DEF FrontInv
  <2> QED
    BY <1>1, <2>1, <2>2 DEF StreamInv
<1> QED
  BY <1>1, <1>2, <1>3

\* A whole message is added to a stream of whole messages.
LEMMA WholeMessage ==
  ASSUME TypeInv, NEW m \in Msgs, m = Written + 1, Write(m), Written' = m, ~cut',
         InStep => StreamInv, torn' = torn
  PROVE  InStep' => StreamInv'
<1> SUFFICES ASSUME ~torn
             PROVE  StreamInv'
  BY DEF InStep
<1>1. PICK k \in 1 .. Size[m] :
        /\ stream' \in Seq(Bytes) /\ Len(stream') = Len(stream) + k
        /\ \A j \in 1 .. Len(stream) : stream'[j] = stream[j]
        /\ \A i \in 1 .. k : stream'[Len(stream) + i] = [msg |-> m, at |-> i]
        /\ cut' = (cut \/ k < Size[m])
  BY WriteAppends
<1>2. k = Size[m] /\ ~cut /\ k \in Nat /\ k > 0
  <2>1. ~cut /\ ~(k < Size[m])
    BY <1>1
  <2> QED
    BY <2>1, Sizes
<1>3. StreamInv
  BY <1>2 DEF InStep
<1>4. PICK n \in Nat : n = Len(stream)
  BY Counts, Queues
<1>5. /\ Len(stream') = n + k /\ n + k > 0
      /\ \A j \in 1 .. n : stream'[j] = stream[j]
      /\ \A j \in n + 1 .. n + k : stream'[j] = [msg |-> m, at |-> j - n]
  <2>1. ASSUME NEW j \in n + 1 .. n + k
        PROVE  stream'[j] = [msg |-> m, at |-> j - n]
    <3>1. j - n \in 1 .. k /\ n + (j - n) = j
      BY <1>2, <1>4
    <3> QED
      BY <1>1, <1>4, <3>1
  <2> QED
    BY <1>1, <1>2, <1>4, <2>1
<1>6. stream'[n + k] = [msg |-> m, at |-> Size[m]]
  <2>1. n + k \in n + 1 .. n + k /\ (n + k) - n = k
    BY <1>2, <1>4
  <2> QED
    BY <1>2, <1>5, <2>1
<1>7. stream'[n + 1] = [msg |-> m, at |-> 1]
  <2>1. n + 1 \in n + 1 .. n + k /\ (n + 1) - n = 1
    BY <1>2, <1>4
  <2> QED
    BY <1>5, <2>1
<1>8. stream'[1] = [msg |-> 1, at |-> 1]
  <2>1. CASE n = 0
    <3>1. m = 1
      BY <1>3, <1>4, <2>1 DEF StreamInv
    <3> QED
      BY <1>7, <2>1, <3>1
  <2>2. CASE n > 0
    <3>1. 1 \in 1 .. n
      BY <1>4, <2>2
    <3> QED
      BY <1>3, <1>4, <1>5, <2>2, <3>1 DEF StreamInv
  <2> QED
    BY <1>4, <2>1, <2>2
<1>9. ASSUME NEW j \in 1 .. n + k, stream'[j].at = 1, NEW i \in 1 .. Size[stream'[j].msg]
      PROVE  j + i - 1 <= n + k /\ stream'[j + i - 1] = [msg |-> stream'[j].msg, at |-> i]
  <2>1. CASE j \in 1 .. n
    <3>1. stream'[j] = stream[j]
      BY <1>5, <2>1
    <3>2. j + i - 1 <= n /\ stream[j + i - 1] = [msg |-> stream[j].msg, at |-> i]
      BY <1>3, <1>4, <1>9, <2>1, <3>1 DEF StreamInv
    <3>3. j + i - 1 \in 1 .. n
      <4>1. stream[j] \in Bytes
        BY <1>4, <2>1, Queues
      <4>2. Size[stream'[j].msg] \in Nat
        BY <3>1, <4>1, Sizes DEF Bytes
      <4>3. i \in Nat /\ i >= 1 /\ j \in Nat /\ j >= 1
        BY <1>4, <1>9, <2>1, <4>2
      <4> QED
        BY <1>4, <3>2, <4>3
    <3>4. stream'[j + i - 1] = stream[j + i - 1]
      BY <1>5, <3>3
    <3>5. j + i - 1 <= n + k
      <4>1. PICK x : x = j + i - 1
        OBVIOUS
      <4>2. x \in 1 .. n /\ k \in Nat
        BY <1>2, <1>4, <3>3, <4>1
      <4> QED
        BY <1>4, <4>1, <4>2
    <3> QED
      BY <3>1, <3>2, <3>4, <3>5
  <2>2. CASE j \in n + 1 .. n + k
    <3>1. stream'[j] = [msg |-> m, at |-> j - n]
      BY <1>5, <2>2
    <3>2. j = n + 1 /\ i \in 1 .. k
      BY <1>2, <1>4, <1>9, <2>2, <3>1
    <3>3. j + i - 1 \in n + 1 .. n + k /\ (j + i - 1) - n = i
      BY <1>2, <1>4, <3>2
    <3>4. stream'[j + i - 1] = [msg |-> m, at |-> i]
      BY <1>5, <3>3
    <3> QED
      BY <1>2, <1>4, <3>1, <3>2, <3>3, <3>4
  <2> QED
    BY <1>2, <1>4, <2>1, <2>2
<1>10. ASSUME NEW j \in 1 .. n + k, stream'[j].at = Size[stream'[j].msg], j < n + k
       PROVE  stream'[j + 1] = [msg |-> stream'[j].msg + 1, at |-> 1]
  <2>1. CASE j < n
    <3>1. j \in 1 .. n /\ j + 1 \in 1 .. n
      BY <1>4, <2>1
    <3>2. stream'[j] = stream[j] /\ stream'[j + 1] = stream[j + 1]
      BY <1>5, <3>1
    <3> QED
      BY <1>3, <1>4, <1>10, <2>1, <3>1, <3>2 DEF StreamInv
  <2>2. CASE j = n
    <3>1. j \in 1 .. n /\ n > 0
      BY <1>4, <2>2
    <3>2. stream'[j].msg = Written
      BY <1>3, <1>4, <1>5, <2>2, <3>1 DEF StreamInv
    <3> QED
      BY <1>7, <2>2, <3>2
  <2>3. CASE j > n
    <3>1. j \in n + 1 .. n + k
      BY <1>2, <1>4, <2>3
    <3>2. stream'[j] = [msg |-> m, at |-> j - n]
      BY <1>5, <3>1
    <3> QED
      BY <1>2, <1>4, <1>10, <3>1, <3>2
  <2> QED
    BY <1>4, <2>1, <2>2, <2>3
<1> QED
  BY <1>5, <1>6, <1>8, <1>9, <1>10 DEF StreamInv

\* The front of the buffer where the sender only adds to the stream.
LEMMA FrontStays ==
  ASSUME TypeInv, \A j \in 1 .. Len(stream) : stream'[j] = stream[j],
         UNCHANGED <<taken, buffer, got>>, FrontInv
  PROVE  FrontInv'
<1>1. First' = First
  BY DEF First, Avail, buffer
<1>2. First > 0 => First \in 1 .. Len(stream)
  BY Counts, Queues DEF First
<1> QED
  BY <1>1, <1>2 DEF FrontInv

LEMMA SendOrder == TypeInv /\ OrderInv /\ Send => OrderInv'
<1> SUFFICES ASSUME TypeInv, OrderInv, Send
             PROVE  OrderInv'
  OBVIOUS
<1>1. /\ sent' = sent + 1 /\ sent + 1 \in Msgs /\ torn' = torn /\ sent \in Nat
      /\ UNCHANGED <<taken, buffer, got>> /\ m_wbuffer \in Seq(Msgs) /\ Len(m_wbuffer) \in Nat
  BY NextMessage, Counts, Queues DEF Send
<1>2. CASE UNCHANGED <<stream, cut>> /\ m_wbuffer' = Append(m_wbuffer, sent')
  <2>1. /\ Len(m_wbuffer') = Len(m_wbuffer) + 1 /\ m_wbuffer'[Len(m_wbuffer) + 1] = sent + 1
        /\ \A i \in 1 .. Len(m_wbuffer) : m_wbuffer'[i] = m_wbuffer[i]
    BY <1>1, <1>2
  <2>2. Written' = Written /\ Written = sent - Len(m_wbuffer)
    BY <1>1, <2>1 DEF Written
  <2>3. SendInv'
    <3>1. ASSUME NEW i \in 1 .. Len(m_wbuffer) + 1
          PROVE  m_wbuffer'[i] = Written + i
      <4>1. CASE i \in 1 .. Len(m_wbuffer)
        BY <2>1, <4>1 DEF OrderInv, SendInv
      <4>2. CASE i = Len(m_wbuffer) + 1
        BY <1>1, <2>1, <2>2, <4>2
      <4> QED
        BY <1>1, <4>1, <4>2
    <3> QED
      BY <2>1, <2>2, <3>1 DEF SendInv
  <2>4. StreamInv => StreamInv'
    BY <1>2, <2>2 DEF StreamInv
  <2> QED
    BY <1>1, <1>2, <2>3, <2>4, FrontStays DEF OrderInv, InStep
<1>3. CASE m_wbuffer = <<>> /\ Write(sent') /\ UNCHANGED m_wbuffer
  <2>1. PICK m \in Msgs : m = sent + 1
    BY <1>1
  <2>2. Write(m)
    BY <1>1, <1>3, <2>1 DEF Write
  <2>3. Len(m_wbuffer) = 0 /\ Len(m_wbuffer') = 0
    BY <1>3
  <2>4. Written = sent /\ Written' = m
    BY <1>1, <2>1, <2>3 DEF Written
  <2>5. SendInv'
    BY <2>3 DEF SendInv
  <2>6. \A j \in 1 .. Len(stream) : stream'[j] = stream[j]
    BY <2>2, WriteAppends
  <2>7. InStep' => InStep
    BY <1>1, <2>2 DEF InStep, Write
  <2>8. InStep' => StreamInv'
    BY <1>1, <2>1, <2>2, <2>4, WholeMessage DEF InStep, OrderInv
  <2> QED
    BY <1>1, <2>5, <2>6, <2>7, <2>8, FrontStays DEF OrderInv
<1>4. CASE m_wbuffer = <<>> /\ Full(sent') /\ m_wbuffer' = <<sent'>>
  <2>1. m_wbuffer' = Append(m_wbuffer, sent') /\ UNCHANGED <<stream, cut>>
    BY <1>4 DEF Full
  <2> QED
    BY <1>2, <2>1
<1> QED
  BY <1>2, <1>3, <1>4 DEF Send

LEMMA SendBufferedOrder == TypeInv /\ OrderInv /\ SendBuffered => OrderInv'
<1> SUFFICES ASSUME TypeInv, OrderInv, SendBuffered
             PROVE  OrderInv'
  OBVIOUS
<1>1. /\ m_wbuffer \in Seq(Msgs) /\ m_wbuffer # <<>> /\ m_wbuffer' = Tail(m_wbuffer)
      /\ UNCHANGED <<sent, torn, taken, buffer, got>> /\ Write(Head(m_wbuffer)) /\ sent \in Nat
  BY Counts, Queues DEF SendBuffered
<1>2. /\ Len(m_wbuffer) \in Nat /\ Len(m_wbuffer) > 0 /\ Len(m_wbuffer') = Len(m_wbuffer) - 1
      /\ \A i \in 1 .. Len(m_wbuffer) - 1 : m_wbuffer'[i] = m_wbuffer[i + 1]
      /\ Head(m_wbuffer) = m_wbuffer[1]
  BY <1>1
<1>3. PICK m \in Msgs : m = Head(m_wbuffer)
  BY <1>1
<1>4. Written = sent - Len(m_wbuffer) /\ Written' = Written + 1
  BY <1>1, <1>2 DEF Written
<1>5. m = Written + 1
  BY <1>2, <1>3 DEF OrderInv, SendInv
<1>6. SendInv'
  BY <1>1, <1>2, <1>4 DEF OrderInv, SendInv
<1>7. \A j \in 1 .. Len(stream) : stream'[j] = stream[j]
  BY <1>1, <1>3, WriteAppends
<1>8. InStep' => InStep
  BY <1>1 DEF InStep, Write
<1>9. InStep' => StreamInv'
  BY <1>1, <1>3, <1>4, <1>5, WholeMessage DEF InStep, OrderInv
<1> QED
  BY <1>1, <1>6, <1>7, <1>8, <1>9, FrontStays DEF OrderInv

\* A message is dispatched: the front moves to the end of it.
LEMMA DispatchOrder == TypeInv /\ OrderInv /\ DispatchWhole => OrderInv'
<1> SUFFICES ASSUME TypeInv, OrderInv, DispatchWhole
             PROVE  OrderInv'
  OBVIOUS
<1>1. /\ NextByte \in Bytes /\ NextByte.msg \in Msgs /\ Avail > 0 /\ Size[NextByte.msg] <= Avail
      /\ Avail' = Avail - Size[NextByte.msg]
  BY PopsFront DEF DispatchWhole
<1>2. /\ got' = Append(got, NextByte.msg) /\ NextByte.at = 1
      /\ UNCHANGED <<sender, stream, taken, cut, torn>>
  BY DEF DispatchWhole
<1>3. UNCHANGED <<Written, stream, InStep, SendInv, StreamInv>>
  BY <1>2 DEF Written, sender, InStep, SendInv, StreamInv
<1>4. ASSUME InStep
      PROVE  FrontInv'
  <2>1. StreamInv /\ FrontInv
    BY <1>4 DEF OrderInv
  <2>2. PICK g \in Nat : g = Len(got)
    BY Counts, Queues
  <2>3. NextByte = [msg |-> g + 1, at |-> 1] /\ g + 1 \in Msgs
    BY <1>1, <2>1, <2>2, FrontIsNext
  <2>4. /\ Len(got') = g + 1 /\ got'[g + 1] = g + 1
        /\ \A i \in 1 .. g : got'[i] = i
    BY <1>2, <2>1, <2>2, <2>3, Counts, Queues DEF FrontInv
  <2>5. PICK k \in Nat : k = Size[g + 1] /\ k > 0
    BY <2>3, Sizes
  <2>6. First' = First + k /\ First \in Nat /\ First + 1 \in 1 .. Len(stream)
    <3>1. taken' = taken /\ Avail' = Avail - k
      BY <1>1, <1>2, <2>3, <2>5
    <3>2. First = taken - Avail /\ First' = taken' - Avail'
      BY DEF First
    <3>3. taken \in Nat /\ Avail \in Nat /\ First \in Nat
      BY <3>2, Counts
    <3>4. First + 1 \in 1 .. Len(stream)
      BY <1>1, <3>2, FrontByte
    <3> QED
      BY <3>1, <3>2, <3>3, <3>4
  <2>7. stream[First + 1] = [msg |-> g + 1, at |-> 1]
    BY <2>3 DEF NextByte, First
  <2>8. k \in 1 .. Size[stream[First + 1].msg] /\ stream[First + 1].at = 1 /\ stream[First + 1].msg = g + 1
    BY <2>5, <2>7
  <2>9. stream[First + 1 + k - 1] = [msg |-> g + 1, at |-> k]
    BY <2>1, <2>6, <2>8 DEF StreamInv
  <2>10. stream[First + k] = [msg |-> g + 1, at |-> k]
    <3>1. \A f, j \in Nat : f + 1 + j - 1 = f + j
      OBVIOUS
    <3> QED
      BY <2>5, <2>6, <2>9, <3>1
  <2>11. First' > 0 /\ stream'[First'] = [msg |-> Len(got'), at |-> Size[Len(got')]]
    BY <1>3, <2>4, <2>5, <2>6, <2>10
  <2>12. \A i \in 1 .. Len(got') : got'[i] = i
    BY <2>2, <2>4
  <2> QED
    BY <2>11, <2>12 DEF FrontInv
<1> QED
  BY <1>3, <1>4 DEF OrderInv

LEMMA OrderStep == TypeInv /\ OrderInv /\ [Next]_vars => OrderInv'
<1> SUFFICES ASSUME TypeInv, OrderInv, [Next]_vars
             PROVE  OrderInv'
  OBVIOUS
<1>1. CASE Send
  BY <1>1, SendOrder
<1>2. CASE SendBuffered
  BY <1>2, SendBufferedOrder
<1>3. CASE DispatchWhole
  BY <1>3, DispatchOrder
<1>4. CASE AppendBytes
  <2>1. PICK n : taken' = taken + n /\ m_size' = m_size + n /\ n \in Int
    <3>1. m_max' \in Int
      <4>1. m_max' \in {m_max, 2 * m_max, 2 * Block}
        BY <1>4 DEF AppendBytes, Most
      <4>2. m_max \in Nat /\ Block \in Nat
        BY Counts, Sizes
      <4> QED
        BY <4>1, <4>2
    <3>2. (IF m_fd THEN Least(arrived - taken, m_max' - m_size) ELSE 0) \in Int
      <4>1. arrived - taken \in Int /\ m_size \in Int
        BY Counts
      <4>2. m_max' - m_size \in Int
        BY <3>1, <4>1
      <4> QED
        BY <4>1, <4>2 DEF Least
    <3> QED
      BY <1>4, <3>2 DEF AppendBytes
  <2>2. UNCHANGED <<sender, stream, got, cut, torn, m_Pos>>
    BY <1>4 DEF AppendBytes
  <2>3. First' = First
    <3>1. taken \in Nat /\ m_size \in Nat /\ m_Pos \in Nat
      BY Counts
    <3>2. First = taken - (m_size - m_Pos) /\ First' = (taken + n) - ((m_size + n) - m_Pos)
      BY <2>1, <2>2 DEF First, Avail
    <3>3. \A q, s, p \in Nat, d \in Int : (q + d) - ((s + d) - p) = q - (s - p)
      OBVIOUS
    <3> QED
      BY <2>1, <3>1, <3>2, <3>3
  <2>4. Written' = Written
    BY <2>2 DEF Written, sender
  <2> QED
    BY <2>2, <2>3, <2>4 DEF OrderInv, SendInv, StreamInv, FrontInv, InStep, sender
<1>5. CASE Arrive \/ Recv \/ DispatchPart \/ DispatchGarbage \/ UNCHANGED vars
  <2>1. UNCHANGED <<sender, stream, taken, buffer, got, cut>> /\ (torn => torn')
    BY <1>5 DEF Arrive, Recv, DispatchPart, DispatchGarbage, vars
  <2>2. First' = First /\ Written' = Written /\ (InStep' => InStep)
    BY <2>1 DEF First, Avail, Written, sender, buffer, InStep
  <2> QED
    BY <2>1, <2>2 DEF OrderInv, SendInv, StreamInv, FrontInv, sender
<1> QED
  BY <1>1, <1>2, <1>3, <1>4, <1>5 DEF Next

LEMMA Invariance == Spec => [](TypeInv /\ OrderInv)
<1>1. Init => TypeInv /\ OrderInv
  BY InitTypes, InitOrder
<1>2. TypeInv /\ OrderInv /\ [Next]_vars => (TypeInv /\ OrderInv)'
  BY TypeStep, OrderStep
<1> QED
  BY <1>1, <1>2, PTL DEF Spec

\* However sends, buffering, arrivals and reads are cut up, the messages of a
\* stream in step are dispatched in the order of the sends, each once; the
\* buffer's front is where the next one begins; and client::recv never leaves
\* a whole message waiting in it.
THEOREM DispatchedInOrder == Spec => []InOrder
<1>1. TypeInv /\ OrderInv => InOrder
  <2> SUFFICES ASSUME TypeInv, OrderInv, InStep
               PROVE  /\ \A i \in 1 .. Len(got) : got[i] = i
                      /\ Avail > 0 => NextByte = [msg |-> Len(got) + 1, at |-> 1]
                      /\ pc = "idle" /\ Avail > 0 => ~Whole
    BY DEF TypeInv, InOrder
  <2> QED
    BY FrontIsNext DEF TypeInv, OrderInv, FrontInv
<1> QED
  BY <1>1, Invariance, PTL

-----------------------------------------------------------------------------
(* Http: the stream *)

\* Where the parser is when it has executed n units: requests that are
\* complete, and units of the next one.
Req(n) == n \div 10
Cut(n) == n % 10

LEMMA Positions ==
  ASSUME NEW n \in Nat
  PROVE  /\ Req(n) \in Nat /\ Cut(n) \in 0 .. 9 /\ n = 10 * Req(n) + Cut(n)
         /\ Cut(n) < 9 => Cut(n + 1) = Cut(n) + 1 /\ Req(n + 1) = Req(n)
         /\ Cut(n) = 9 => Cut(n + 1) = 0 /\ Req(n + 1) = Req(n) + 1
BY DEF Req, Cut

LEMMA PartsAre ==
  /\ Len(Parts) = 10
  /\ Parts[1] = "begin" /\ Parts[2] = "url" /\ Parts[3] = "url"
  /\ Parts[4] = "field" /\ Parts[5] = "field" /\ Parts[6] = "value" /\ Parts[7] = "value"
  /\ Parts[8] = "body" /\ Parts[9] = "body" /\ Parts[10] = "complete"
BY DEF Parts

LEMMA UnitAt ==
  ASSUME NEW n \in Nat
  PROVE  /\ Unit(n + 1).req = Req(n) + 1
         /\ Unit(n + 1).part = Parts[Cut(n) + 1]
         /\ Unit(n + 1).half = 1 + ((Cut(n) + 1) % 2)
<1>1. (n + 1) - 1 = n
  OBVIOUS
<1>2. ((n + 1) - 1) \div Len(Parts) = Req(n) /\ ((n + 1) - 1) % Len(Parts) = Cut(n)
  BY <1>1, PartsAre DEF Req, Cut
<1>3. PICK r, c : r = Req(n) /\ c = Cut(n)
  OBVIOUS
<1>4. Unit(n + 1) = [req |-> r + 1, part |-> Parts[c + 1], half |-> 1 + ((c + 1) % 2)]
  BY <1>2, <1>3 DEF Unit
<1> QED
  BY <1>3, <1>4

LEMMA UnitIs ==
  ASSUME NEW n \in Nat
  PROVE  /\ Unit(n + 1).req = Req(n) + 1
         /\ Unit(n + 1).part = "begin" <=> Cut(n) = 0
         /\ Unit(n + 1).part = "url" <=> Cut(n) \in {1, 2}
         /\ Unit(n + 1).part = "field" <=> Cut(n) \in {3, 4}
         /\ Unit(n + 1).part = "value" <=> Cut(n) \in {5, 6}
         /\ Unit(n + 1).part = "body" <=> Cut(n) \in {7, 8}
         /\ Unit(n + 1).part = "complete" <=> Cut(n) = 9
         /\ Cut(n) \in {1, 3, 5, 7} => Unit(n + 1).half = 1
         /\ Cut(n) \in {2, 4, 6, 8} => Unit(n + 1).half = 2
<1>1. Cut(n) \in {0, 1, 2, 3, 4, 5, 6, 7, 8, 9}
  BY Positions
<1>2. /\ Unit(n + 1).req = Req(n) + 1 /\ Unit(n + 1).part = Parts[Cut(n) + 1]
      /\ Unit(n + 1).half = 1 + ((Cut(n) + 1) % 2)
  BY UnitAt
<1>3. /\ Cut(n) = 0 => Unit(n + 1).part = "begin"
      /\ Cut(n) \in {1, 2} => Unit(n + 1).part = "url"
      /\ Cut(n) \in {3, 4} => Unit(n + 1).part = "field"
      /\ Cut(n) \in {5, 6} => Unit(n + 1).part = "value"
      /\ Cut(n) \in {7, 8} => Unit(n + 1).part = "body"
      /\ Cut(n) = 9 => Unit(n + 1).part = "complete"
  BY <1>2, PartsAre
<1>4. Cut(n) \in {1, 3, 5, 7} => 1 + ((Cut(n) + 1) % 2) = 1
  OBVIOUS
<1>5. Cut(n) \in {2, 4, 6, 8} => 1 + ((Cut(n) + 1) % 2) = 2
  OBVIOUS
<1>6. /\ Unit(n + 1).part = "begin" <=> Cut(n) = 0
      /\ Unit(n + 1).part = "url" <=> Cut(n) \in {1, 2}
      /\ Unit(n + 1).part = "field" <=> Cut(n) \in {3, 4}
      /\ Unit(n + 1).part = "value" <=> Cut(n) \in {5, 6}
      /\ Unit(n + 1).part = "body" <=> Cut(n) \in {7, 8}
      /\ Unit(n + 1).part = "complete" <=> Cut(n) = 9
  BY <1>1, <1>3
<1>7. Cut(n) \in {1, 3, 5, 7} => Unit(n + 1).half = 1
  BY <1>2, <1>4
<1>8. Cut(n) \in {2, 4, 6, 8} => Unit(n + 1).half = 2
  BY <1>2, <1>5
<1>9. Unit(n + 1).req = Req(n) + 1
  BY <1>2
<1> QED
  BY <1>6, <1>7, <1>8, <1>9

-----------------------------------------------------------------------------
(* Http: what makes the properties inductive *)

\* The pieces a request is put together from, and the answers.
Names == {<<>>, <<1>>, <<2>>, <<1, 2>>}
UrlPieces == STRING \X {1, 2}
BodyPieces == Reqs \X {1, 2}
Headers == UNION {[D -> [req : Reqs, halves : {<<1>>, <<2>>, <<1, 2>>}]] : D \in SUBSET Names}
Handed == [req : Reqs, how : {"now", "later", "default", "throw"}, url : Seq(UrlPieces),
           header : Headers, body : Seq(BodyPieces)]
Statuses == {200, 400, 403, 404, 413, 417, 500, 505}
Heads == [req : Reqs, status : Statuses, length : {1, 2}]
Texts == [req : Reqs, size : {1, 2}]

DataInv ==
  /\ m_method \in Seq(UrlPieces) /\ m_body \in Seq(BodyPieces)
  /\ t \in Names /\ m_header \in Headers
  /\ handed \in Seq(Handed) /\ later \subseteq Reqs /\ wire \in Seq(Heads \cup Texts)

ConnInv == conn \in {"open", "closed", "gone", "undefined"}

\* The parser is at the begin of a request or in one; a part is left in two
\* only by the end of what has arrived.
PlaceInv ==
  /\ reached \in 0 .. Total /\ held \in 0 .. reached /\ base \in 0 .. held
  /\ upto \in base .. held /\ fed \in base .. upto
  /\ parser \in {"new", "in", "error", "upgrade"}
  /\ parser = "in" => Cut(fed) # 0
  /\ parser = "upgrade" => Cut(fed) = 0
  /\ parser = "in" /\ Cut(fed) \in {2, 4, 6, 8} => fed = base \/ fed = upto

\* After a callback has thrown, the parser is handed something that is no begin
\* of a request, or has been: no callback is called any more.
Lost == parser = "error" \/ (parser = "new" /\ Cut(fed) # 0)

EndsWith(s, a, b) == Len(s) >= 2 /\ s[Len(s) - 1] = a /\ s[Len(s)] = b

\* What m_request ends with: what there is so far of the request.
UrlInv ==
  parser = "in" =>
    /\ Cut(fed) = 2 => Len(m_method) >= 1 /\ m_method[Len(m_method)] = <<Path[Req(fed) + 1], 1>>
    /\ Cut(fed) \in 3 .. 9 =>
         EndsWith(m_method, <<Path[Req(fed) + 1], 1>>, <<Path[Req(fed) + 1], 2>>)

BodyInv ==
  parser = "in" =>
    /\ Cut(fed) = 8 => Len(m_body) >= 1 /\ m_body[Len(m_body)] = <<Req(fed) + 1, 1>>
    /\ Cut(fed) = 9 => EndsWith(m_body, <<Req(fed) + 1, 1>>, <<Req(fed) + 1, 2>>)

\* A name that was not cut is whole, and the header is under it or what follows
\* the cut.
NameInv ==
  parser = "in" =>
    /\ Cut(fed) = 5 => t \in {Name, <<2>>} /\ (fed >= base + 2 => t = Name)
    /\ Cut(fed) = 6 => t = <<>>
    /\ Cut(fed) \in 6 .. 9 => {Name, <<2>>} \cap DOMAIN m_header # {}

\* No header is that of a request to come: not even after a callback threw and
\* the parser went back to base, when that is the begin of a request.
HeaderInv ==
  /\ \A k \in DOMAIN m_header : m_header[k].halves = <<2>> <=> k = <<>>
  /\ ~Lost => \A k \in DOMAIN m_header : m_header[k].req <= Req(fed) + 1
  /\ ~Lost /\ Cut(base) = 0 =>
       /\ \A k \in DOMAIN m_header : m_header[k].req <= Req(base) + 1
       /\ fed >= base + 6 => Name \in DOMAIN m_header

\* What a callback was given is the request's, and whole.
GivenWhole(h) ==
  /\ EndsWith(h.url, <<Path[h.req], 1>>, <<Path[h.req], 2>>)
  /\ EndsWith(h.body, <<h.req, 1>>, <<h.req, 2>>)
  /\ {Name, <<2>>} \cap DOMAIN h.header # {}
  /\ \A k \in DOMAIN h.header :
       h.header[k].req <= h.req /\ (h.header[k].halves = <<2>> <=> k = <<>>)

HandedInv == \A i \in DOMAIN handed : GivenWhole(handed[i])

\* Pieces of the path and of the body that there are after n units, of the request
\* under way.
UrlLen(n) == IF Cut(n) < 2 THEN 0 ELSE IF Cut(n) = 2 THEN 1 ELSE 2
BodyLen(n) == IF Cut(n) < 8 THEN 0 ELSE IF Cut(n) = 8 THEN 1 ELSE 2

\* A request that asked for another protocol was handed over.
Upgraded == \E i \in DOMAIN handed : handed[i].req \in Upgrades

UpgradeInv == parser = "upgrade" => Upgraded

\* While no callback throws, requests are handed over one after the other, and
\* none is left out before an upgrade.
InTurn(i) ==
  /\ \A j \in 1 .. i - 1 : handed[j].req < handed[i].req
  /\ (\A j \in 1 .. i - 1 : handed[j].req \notin Upgrades) => handed[i].req = i
  /\ Len(handed[i].url) = 2 * i /\ Len(handed[i].body) = 2 * i

CountInv ==
  ~Threw =>
    /\ ~Upgraded => ~Lost /\ Len(handed) = Req(fed)
    /\ ~Lost => /\ Len(m_method) = 2 * Len(handed) + UrlLen(fed)
                /\ Len(m_body) = 2 * Len(handed) + BodyLen(fed)
    /\ \A i \in DOMAIN handed : handed[i].req <= Req(fed) /\ InTurn(i)

\* A text follows its head, but for one that was lost when the connection closed.
PairInv ==
  /\ conn = "open" => \E n \in Nat : Len(wire) = 2 * n
  /\ \A i \in DOMAIN wire :
       IF i % 2 = 1
         THEN /\ wire[i] \in Heads
              /\ IF i = Len(wire) THEN conn # "open"
                 ELSE wire[i + 1] = [req |-> wire[i].req, size |-> wire[i].length]
         ELSE wire[i] \in Texts

\* No request is answered twice, nor after a later one, unless its callback waited.
AnsweredOnce ==
  \A i, j \in DOMAIN wire :
    /\ i % 2 = 1 /\ j % 2 = 1 /\ i < j => wire[i].req # wire[j].req
    /\ i < j /\ wire[j].req < wire[i].req => wire[j].req \in Waited

\* While no callback throws, no request is answered before it was handed over, nor
\* while its callback has yet to.
WireInv ==
  ~Threw =>
    /\ \A i \in DOMAIN wire : wire[i].req \in 1 .. Req(fed) /\ wire[i].req \notin later
    /\ later \subseteq Waited /\ later \subseteq 1 .. Req(fed)
    /\ AnsweredOnce

HttpInv ==
  /\ DataInv /\ PlaceInv /\ UrlInv /\ BodyInv /\ NameInv /\ HeaderInv /\ HandedInv
  /\ UpgradeInv /\ CountInv /\ ConnInv /\ PairInv /\ WireInv

-----------------------------------------------------------------------------
(* The parser *)

LEMMA Places ==
  ASSUME PlaceInv
  PROVE  /\ reached \in Nat /\ held \in Nat /\ base \in Nat /\ upto \in Nat /\ fed \in Nat
         /\ reached <= Total /\ held <= reached /\ upto <= held /\ base <= fed /\ fed <= upto
         /\ MaxReqs \in Nat /\ Total = 10 * MaxReqs /\ Total \in Nat
         /\ fed < upto => Req(fed) + 1 \in Reqs
<1>1. MaxReqs \in Nat /\ Total = 10 * MaxReqs
  BY HttpAssumption, PartsAre DEF Total
<1>2. /\ reached \in Nat /\ held \in Nat /\ base \in Nat /\ upto \in Nat /\ fed \in Nat
      /\ reached <= Total /\ held <= reached /\ upto <= held /\ base <= fed /\ fed <= upto
  BY <1>1 DEF PlaceInv
<1>3. ASSUME fed < upto
      PROVE  Req(fed) + 1 \in Reqs
  <2>1. Req(fed) \in Nat /\ Cut(fed) \in 0 .. 9 /\ fed = 10 * Req(fed) + Cut(fed)
    BY <1>2, Positions
  <2>2. PICK r \in Nat, c \in 0 .. 9 : r = Req(fed) /\ c = Cut(fed) /\ 10 * r + c < 10 * MaxReqs
    BY <1>1, <1>2, <1>3, <2>1
  <2>3. r + 1 \in 1 .. MaxReqs
    BY <1>1, <2>2
  <2> QED
    BY <2>2, <2>3 DEF Reqs
<1> QED
  BY <1>1, <1>2, <1>3

LEMMA AtBegin ==
  ASSUME PlaceInv, NEW to, At(to, "begin")
  PROVE  /\ Cut(fed) = 0 /\ fed < upto /\ fed' = fed + 1 /\ fed' <= upto
         /\ Cut(fed') = 1 /\ Req(fed') = Req(fed)
<1>1. fed \in Nat /\ upto \in Nat /\ fed < upto /\ to \in fed + 1 .. upto /\ fed' = to
  BY Places DEF At
<1>2. Cut(fed) = 0 /\ Cut(fed + 1) = 1 /\ Req(fed + 1) = Req(fed)
  <2>1. fed + 1 \in fed + 1 .. to
    BY <1>1
  <2>2. Unit(fed + 1).part = "begin"
    BY <2>1 DEF At
  <2>3. Cut(fed) = 0
    BY <1>1, <2>2, UnitIs
  <2>4. Cut(fed) < 9
    BY <2>3
  <2> QED
    BY <1>1, <2>3, <2>4, Positions
<1>3. to = fed + 1
  <2> SUFFICES ASSUME to # fed + 1
               PROVE  FALSE
    OBVIOUS
  <2>1. fed + 2 \in fed + 1 .. to /\ (fed + 1) + 1 = fed + 2 /\ fed + 1 \in Nat
    BY <1>1
  <2>2. Unit(fed + 2).part = "begin"
    BY <2>1 DEF At
  <2> QED
    BY <1>2, <2>1, <2>2, UnitIs
<1> QED
  BY <1>1, <1>2, <1>3

\* The units of one part, of which the first is the one after c of its request.
LEMMA AtHalves ==
  ASSUME PlaceInv, NEW to, NEW part, NEW c \in {1, 3, 5, 7}, At(to, part),
         \A n \in Nat : Unit(n + 1).part = part <=> Cut(n) \in {c, c + 1}
  PROVE  /\ fed < upto /\ fed' = to /\ to \in Nat /\ to <= upto
         /\ Req(to) = Req(fed) /\ Unit(to).req = Req(fed) + 1 /\ Req(fed) + 1 \in Reqs
         /\ \/ Cut(fed) = c /\ to = fed + 2 /\ Cut(to) = c + 2 /\ Halves(to) = <<1, 2>>
            \/ Cut(fed) = c /\ to = fed + 1 /\ to = upto /\ Cut(to) = c + 1 /\ Halves(to) = <<1>>
            \/ Cut(fed) = c + 1 /\ to = fed + 1 /\ Cut(to) = c + 2 /\ Halves(to) = <<2>>
<1>1. /\ fed \in Nat /\ upto \in Nat /\ fed < upto /\ to \in fed + 1 .. upto /\ fed' = to
      /\ to \in Nat /\ to <= upto /\ Req(fed) + 1 \in Reqs
  BY Places DEF At
<1>2. \A n \in fed + 1 .. to : Unit(n).part = part
  BY DEF At
<1>3. /\ (fed + 1) + 1 = fed + 2 /\ (fed + 2) + 1 = fed + 3
      /\ fed + 1 \in Nat /\ fed + 2 \in Nat
  BY <1>1
<1>4. Cut(fed) \in {c, c + 1}
  <2>1. fed + 1 \in fed + 1 .. to
    BY <1>1
  <2> QED
    BY <1>1, <1>2, <2>1
<1>5. /\ Cut(fed + 1) = Cut(fed) + 1 /\ Req(fed + 1) = Req(fed)
      /\ Cut(fed) = c => Cut(fed + 2) = c + 2 /\ Req(fed + 2) = Req(fed)
  <2>1. Cut(fed) < 9 /\ (Cut(fed) = c => Cut(fed) + 1 < 9 /\ Cut(fed) + 1 + 1 = c + 2)
    BY <1>4
  <2>2. Cut(fed + 1) = Cut(fed) + 1 /\ Req(fed + 1) = Req(fed)
    BY <1>1, <2>1, Positions
  <2> QED
    BY <1>3, <2>1, <2>2, Positions
<1>6. to \in {fed + 1, fed + 2} /\ (to = fed + 2 => Cut(fed) = c)
  <2>1. CASE to = fed + 1
    BY <1>1, <2>1
  <2>2. CASE to # fed + 1
    <3>1. fed + 2 \in fed + 1 .. to
      BY <1>1, <2>2
    <3>2. Cut(fed + 1) \in {c, c + 1}
      BY <1>2, <1>3, <3>1
    <3>3. Cut(fed) = c
      BY <1>4, <1>5, <3>2
    <3>4. to = fed + 2
      <4> SUFFICES ASSUME to # fed + 2
                   PROVE  FALSE
        OBVIOUS
      <4>1. fed + 3 \in fed + 1 .. to
        BY <1>1, <2>2
      <4>2. Cut(fed + 2) \in {c, c + 1}
        BY <1>2, <1>3, <4>1
      <4> QED
        BY <1>5, <3>3, <4>2
    <3> QED
      BY <3>3, <3>4
  <2> QED
    BY <2>1, <2>2
<1>7. to = fed + 1 /\ Cut(fed) = c => to = upto
  <2> SUFFICES ASSUME to = fed + 1, Cut(fed) = c, to # upto
               PROVE  FALSE
    OBVIOUS
  <2>1. Unit(fed + 2).part # part
    BY <1>3 DEF At
  <2>2. Cut(fed + 1) = c + 1
    BY <1>5
  <2> QED
    BY <1>3, <2>1, <2>2
<1>8. Unit(fed + 1).half = (IF Cut(fed) = c THEN 1 ELSE 2) /\ Unit(fed + 1).req = Req(fed) + 1
  <2>1. Cut(fed) = c => Unit(fed + 1).half = 1
    BY <1>1, UnitIs
  <2>2. Cut(fed) = c + 1 => Unit(fed + 1).half = 2
    BY <1>1, UnitIs
  <2>3. Unit(fed + 1).req = Req(fed) + 1
    BY <1>1, UnitIs
  <2> QED
    BY <1>4, <2>1, <2>2, <2>3
<1>9. Cut(fed) = c => Unit(fed + 2).half = 2 /\ Unit(fed + 2).req = Req(fed) + 1
  <2> SUFFICES ASSUME Cut(fed) = c
               PROVE  Unit(fed + 2).half = 2 /\ Unit(fed + 2).req = Req(fed) + 1
    OBVIOUS
  <2>1. Cut(fed + 1) \in {2, 4, 6, 8}
    BY <1>5
  <2> QED
    BY <1>3, <1>5, <2>1, UnitIs
<1>10. CASE to = fed + 2
  <2>1. to - fed = 2 /\ Cut(fed) = c
    BY <1>1, <1>6, <1>10
  <2>2. Halves(to) = [i \in 1 .. 2 |-> Unit(fed + i).half]
    BY <2>1 DEF Halves
  <2>3. Halves(to) = <<1, 2>>
    BY <1>8, <1>9, <2>1, <2>2
  <2> QED
    BY <1>1, <1>5, <1>9, <1>10, <2>1, <2>3
<1>11. CASE to = fed + 1
  <2>1. to - fed = 1
    BY <1>1, <1>11
  <2>2. Halves(to) = [i \in 1 .. 1 |-> Unit(fed + i).half]
    BY <2>1 DEF Halves
  <2>3. Halves(to) = <<(IF Cut(fed) = c THEN 1 ELSE 2)>>
    BY <1>8, <2>2
  <2>4. Cut(to) = Cut(fed) + 1 /\ Req(to) = Req(fed) /\ Unit(to).req = Req(fed) + 1
    BY <1>5, <1>8, <1>11
  <2>5. CASE Cut(fed) = c
    BY <1>1, <1>7, <1>11, <2>3, <2>4, <2>5
  <2>6. CASE Cut(fed) = c + 1
    <3>1. Cut(fed) # c /\ Cut(to) = c + 2
      BY <2>4, <2>6
    <3> QED
      BY <1>1, <1>11, <2>3, <2>4, <2>6, <3>1
  <2> QED
    BY <1>4, <2>5, <2>6
<1> QED
  BY <1>6, <1>10, <1>11

\* on_message_complete and a callback that throws.
LEMMA AtComplete ==
  ASSUME PlaceInv, NEW to, fed < upto, to = fed + 1, Unit(to).part = "complete"
  PROVE  /\ Cut(fed) = 9 /\ Cut(to) = 0 /\ Req(to) = Req(fed) + 1 /\ to \in Nat /\ to <= upto
         /\ Unit(to).req = Req(fed) + 1 /\ Req(fed) + 1 \in Reqs
<1>1. fed \in Nat /\ upto \in Nat /\ Req(fed) + 1 \in Reqs
  BY Places
<1>2. Cut(fed) = 9 /\ Unit(to).req = Req(fed) + 1
  BY <1>1, UnitIs
<1>3. Cut(to) = 0 /\ Req(to) = Req(fed) + 1
  BY <1>1, <1>2, Positions
<1>4. to \in Nat /\ to <= upto
  BY <1>1
<1> QED
  BY <1>1, <1>2, <1>3, <1>4

-----------------------------------------------------------------------------
(* What each callback of the parser adds *)

LEMMA OneMore ==
  ASSUME NEW S, NEW s \in Seq(S), NEW a \in S
  PROVE  /\ s \o <<a>> \in Seq(S) /\ Len(s \o <<a>>) = Len(s) + 1
         /\ (s \o <<a>>)[Len(s) + 1] = a
         /\ \A i \in 1 .. Len(s) : (s \o <<a>>)[i] = s[i]
OBVIOUS

LEMMA TwoMore ==
  ASSUME NEW S, NEW s \in Seq(S), NEW a \in S, NEW b \in S
  PROVE  /\ s \o <<a, b>> \in Seq(S) /\ Len(s \o <<a, b>>) = Len(s) + 2
         /\ (s \o <<a, b>>)[Len(s) + 1] = a /\ (s \o <<a, b>>)[Len(s) + 2] = b
         /\ \A i \in 1 .. Len(s) : (s \o <<a, b>>)[i] = s[i]
<1>1. <<a, b>> \in Seq(S) /\ Len(<<a, b>>) = 2 /\ <<a, b>>[1] = a /\ <<a, b>>[2] = b
  OBVIOUS
<1> QED
  BY <1>1

LEMMA EndsWithTwo ==
  ASSUME NEW S, NEW s \in Seq(S), NEW a \in S, NEW b \in S
  PROVE  EndsWith(s \o <<a, b>>, a, b)
<1>1. PICK n \in Nat : n = Len(s)
  OBVIOUS
<1>2. PICK u : u = s \o <<a, b>>
  OBVIOUS
<1>3. Len(u) = n + 2 /\ u[n + 1] = a /\ u[n + 2] = b
  BY <1>1, <1>2, TwoMore
<1>4. (n + 2) - 1 = n + 1 /\ n + 2 >= 2
  OBVIOUS
<1> QED
  BY <1>2, <1>3, <1>4 DEF EndsWith

LEMMA EndsWithOne ==
  ASSUME NEW S, NEW s \in Seq(S), NEW a \in S, NEW b \in S, Len(s) >= 1, s[Len(s)] = a
  PROVE  EndsWith(s \o <<b>>, a, b)
<1>1. PICK n \in Nat : n = Len(s) /\ n >= 1
  OBVIOUS
<1>2. PICK u : u = s \o <<b>>
  OBVIOUS
<1>3. Len(u) = n + 1 /\ u[n] = a /\ u[n + 1] = b
  BY <1>1, <1>2, OneMore
<1>4. (n + 1) - 1 = n /\ n + 1 >= 2
  BY <1>1
<1> QED
  BY <1>2, <1>3, <1>4 DEF EndsWith

LEMMA UrlPiece ==
  ASSUME NEW r \in Reqs
  PROVE  <<Path[r], 1>> \in UrlPieces /\ <<Path[r], 2>> \in UrlPieces
<1>1. Path[r] \in STRING
  BY HttpAssumption DEF Reqs
<1> QED
  BY <1>1 DEF UrlPieces

LEMMA UrlMoves ==
  ASSUME PlaceInv, NEW to, on_url(to)
  PROVE  /\ fed < upto /\ fed' = to /\ to \in Nat /\ to <= upto /\ Req(to) = Req(fed)
         /\ Req(fed) + 1 \in Reqs
         /\ \/ /\ Cut(fed) = 1 /\ to = fed + 2 /\ Cut(to) = 3
               /\ m_method' = m_method \o <<<<Path[Req(fed) + 1], 1>>, <<Path[Req(fed) + 1], 2>>>>
            \/ /\ Cut(fed) = 1 /\ to = fed + 1 /\ to = upto /\ Cut(to) = 2
               /\ m_method' = m_method \o <<<<Path[Req(fed) + 1], 1>>>>
            \/ /\ Cut(fed) = 2 /\ to = fed + 1 /\ Cut(to) = 3
               /\ m_method' = m_method \o <<<<Path[Req(fed) + 1], 2>>>>
<1>1. \A n \in Nat : Unit(n + 1).part = "url" <=> Cut(n) \in {1, 1 + 1}
  BY UnitIs
<1>2. At(to, "url")
  BY DEF on_url
<1>3. /\ fed < upto /\ fed' = to /\ to \in Nat /\ to <= upto
      /\ Req(to) = Req(fed) /\ Unit(to).req = Req(fed) + 1 /\ Req(fed) + 1 \in Reqs
      /\ \/ Cut(fed) = 1 /\ to = fed + 2 /\ Cut(to) = 1 + 2 /\ Halves(to) = <<1, 2>>
         \/ Cut(fed) = 1 /\ to = fed + 1 /\ to = upto /\ Cut(to) = 1 + 1 /\ Halves(to) = <<1>>
         \/ Cut(fed) = 1 + 1 /\ to = fed + 1 /\ Cut(to) = 1 + 2 /\ Halves(to) = <<2>>
  BY <1>1, <1>2, AtHalves
<1>4. PICK p : p = Path[Req(fed) + 1]
  OBVIOUS
<1>5. m_method' = m_method \o [i \in 1 .. to - fed |-> <<p, Halves(to)[i]>>]
  BY <1>3, <1>4 DEF on_url
<1>6. fed \in Nat
  BY Places
<1>7. CASE Cut(fed) = 1 /\ to = fed + 2 /\ Cut(to) = 1 + 2 /\ Halves(to) = <<1, 2>>
  <2>1. to - fed = 2
    BY <1>6, <1>7
  <2>2. [i \in 1 .. 2 |-> <<p, <<1, 2>>[i]>>] = <<<<p, 1>>, <<p, 2>>>>
    OBVIOUS
  <2>3. m_method' = m_method \o <<<<p, 1>>, <<p, 2>>>>
    BY <1>5, <1>7, <2>1, <2>2
  <2> QED
    BY <1>3, <1>4, <1>7, <2>3
<1>8. CASE Cut(fed) = 1 /\ to = fed + 1 /\ to = upto /\ Cut(to) = 1 + 1 /\ Halves(to) = <<1>>
  <2>1. to - fed = 1
    BY <1>6, <1>8
  <2>2. [i \in 1 .. 1 |-> <<p, <<1>>[i]>>] = <<<<p, 1>>>>
    OBVIOUS
  <2>3. m_method' = m_method \o <<<<p, 1>>>>
    BY <1>5, <1>8, <2>1, <2>2
  <2> QED
    BY <1>3, <1>4, <1>8, <2>3
<1>9. CASE Cut(fed) = 1 + 1 /\ to = fed + 1 /\ Cut(to) = 1 + 2 /\ Halves(to) = <<2>>
  <2>1. to - fed = 1
    BY <1>6, <1>9
  <2>2. [i \in 1 .. 1 |-> <<p, <<2>>[i]>>] = <<<<p, 2>>>>
    OBVIOUS
  <2>3. m_method' = m_method \o <<<<p, 2>>>>
    BY <1>5, <1>9, <2>1, <2>2
  <2> QED
    BY <1>3, <1>4, <1>9, <2>3
<1> QED
  BY <1>3, <1>7, <1>8, <1>9

LEMMA BodyMoves ==
  ASSUME PlaceInv, NEW to, on_body(to)
  PROVE  /\ fed < upto /\ fed' = to /\ to \in Nat /\ to <= upto /\ Req(to) = Req(fed)
         /\ Req(fed) + 1 \in Reqs
         /\ \/ /\ Cut(fed) = 7 /\ to = fed + 2 /\ Cut(to) = 9
               /\ m_body' = m_body \o <<<<Req(fed) + 1, 1>>, <<Req(fed) + 1, 2>>>>
            \/ /\ Cut(fed) = 7 /\ to = fed + 1 /\ to = upto /\ Cut(to) = 8
               /\ m_body' = m_body \o <<<<Req(fed) + 1, 1>>>>
            \/ /\ Cut(fed) = 8 /\ to = fed + 1 /\ Cut(to) = 9
               /\ m_body' = m_body \o <<<<Req(fed) + 1, 2>>>>
<1>1. \A n \in Nat : Unit(n + 1).part = "body" <=> Cut(n) \in {7, 7 + 1}
  BY UnitIs
<1>2. At(to, "body")
  BY DEF on_body
<1>3. /\ fed < upto /\ fed' = to /\ to \in Nat /\ to <= upto
      /\ Req(to) = Req(fed) /\ Unit(to).req = Req(fed) + 1 /\ Req(fed) + 1 \in Reqs
      /\ \/ Cut(fed) = 7 /\ to = fed + 2 /\ Cut(to) = 7 + 2 /\ Halves(to) = <<1, 2>>
         \/ Cut(fed) = 7 /\ to = fed + 1 /\ to = upto /\ Cut(to) = 7 + 1 /\ Halves(to) = <<1>>
         \/ Cut(fed) = 7 + 1 /\ to = fed + 1 /\ Cut(to) = 7 + 2 /\ Halves(to) = <<2>>
  BY <1>1, <1>2, AtHalves
<1>4. PICK p : p = Req(fed) + 1
  OBVIOUS
<1>5. m_body' = m_body \o [i \in 1 .. to - fed |-> <<p, Halves(to)[i]>>]
  BY <1>3, <1>4 DEF on_body
<1>6. fed \in Nat
  BY Places
<1>7. CASE Cut(fed) = 7 /\ to = fed + 2 /\ Cut(to) = 7 + 2 /\ Halves(to) = <<1, 2>>
  <2>1. to - fed = 2
    BY <1>6, <1>7
  <2>2. [i \in 1 .. 2 |-> <<p, <<1, 2>>[i]>>] = <<<<p, 1>>, <<p, 2>>>>
    OBVIOUS
  <2>3. m_body' = m_body \o <<<<p, 1>>, <<p, 2>>>>
    BY <1>5, <1>7, <2>1, <2>2
  <2> QED
    BY <1>3, <1>4, <1>7, <2>3
<1>8. CASE Cut(fed) = 7 /\ to = fed + 1 /\ to = upto /\ Cut(to) = 7 + 1 /\ Halves(to) = <<1>>
  <2>1. to - fed = 1
    BY <1>6, <1>8
  <2>2. [i \in 1 .. 1 |-> <<p, <<1>>[i]>>] = <<<<p, 1>>>>
    OBVIOUS
  <2>3. m_body' = m_body \o <<<<p, 1>>>>
    BY <1>5, <1>8, <2>1, <2>2
  <2> QED
    BY <1>3, <1>4, <1>8, <2>3
<1>9. CASE Cut(fed) = 7 + 1 /\ to = fed + 1 /\ Cut(to) = 7 + 2 /\ Halves(to) = <<2>>
  <2>1. to - fed = 1
    BY <1>6, <1>9
  <2>2. [i \in 1 .. 1 |-> <<p, <<2>>[i]>>] = <<<<p, 2>>>>
    OBVIOUS
  <2>3. m_body' = m_body \o <<<<p, 2>>>>
    BY <1>5, <1>9, <2>1, <2>2
  <2> QED
    BY <1>3, <1>4, <1>9, <2>3
<1> QED
  BY <1>3, <1>7, <1>8, <1>9

LEMMA FieldMoves ==
  ASSUME PlaceInv, NEW to, on_header_field(to)
  PROVE  /\ fed < upto /\ fed' = to /\ to \in Nat /\ to <= upto /\ Req(to) = Req(fed)
         /\ Req(fed) + 1 \in Reqs
         /\ \/ Cut(fed) = 3 /\ to = fed + 2 /\ Cut(to) = 5 /\ t' = <<1, 2>>
            \/ Cut(fed) = 3 /\ to = fed + 1 /\ to = upto /\ Cut(to) = 4 /\ t' = <<1>>
            \/ Cut(fed) = 4 /\ to = fed + 1 /\ Cut(to) = 5 /\ t' = <<2>>
<1>1. \A n \in Nat : Unit(n + 1).part = "field" <=> Cut(n) \in {3, 3 + 1}
  BY UnitIs
<1>2. At(to, "field") /\ t' = Halves(to)
  BY DEF on_header_field
<1>3. /\ fed < upto /\ fed' = to /\ to \in Nat /\ to <= upto
      /\ Req(to) = Req(fed) /\ Unit(to).req = Req(fed) + 1 /\ Req(fed) + 1 \in Reqs
      /\ \/ Cut(fed) = 3 /\ to = fed + 2 /\ Cut(to) = 3 + 2 /\ Halves(to) = <<1, 2>>
         \/ Cut(fed) = 3 /\ to = fed + 1 /\ to = upto /\ Cut(to) = 3 + 1 /\ Halves(to) = <<1>>
         \/ Cut(fed) = 3 + 1 /\ to = fed + 1 /\ Cut(to) = 3 + 2 /\ Halves(to) = <<2>>
  BY <1>1, <1>2, AtHalves
<1> QED
  BY <1>2, <1>3

LEMMA ValueMoves ==
  ASSUME PlaceInv, NEW to, on_header_value(to)
  PROVE  /\ fed < upto /\ fed' = to /\ to \in Nat /\ to <= upto /\ Req(to) = Req(fed)
         /\ Req(fed) + 1 \in Reqs
         /\ \E v \in {<<1>>, <<2>>, <<1, 2>>} :
              /\ m_header' = IF t \in DOMAIN m_header THEN m_header
                             ELSE [k \in DOMAIN m_header \cup {t} |->
                                     IF k = t THEN [req |-> Req(fed) + 1, halves |-> v] ELSE m_header[k]]
              /\ \/ Cut(fed) = 5 /\ to = fed + 2 /\ Cut(to) = 7 /\ v = <<1, 2>>
                 \/ Cut(fed) = 5 /\ to = fed + 1 /\ to = upto /\ Cut(to) = 6 /\ v = <<1>>
                 \/ Cut(fed) = 6 /\ to = fed + 1 /\ Cut(to) = 7 /\ v = <<2>>
<1>1. \A n \in Nat : Unit(n + 1).part = "value" <=> Cut(n) \in {5, 5 + 1}
  BY UnitIs
<1>2. At(to, "value")
  BY DEF on_header_value
<1>3. /\ fed < upto /\ fed' = to /\ to \in Nat /\ to <= upto
      /\ Req(to) = Req(fed) /\ Unit(to).req = Req(fed) + 1 /\ Req(fed) + 1 \in Reqs
      /\ \/ Cut(fed) = 5 /\ to = fed + 2 /\ Cut(to) = 5 + 2 /\ Halves(to) = <<1, 2>>
         \/ Cut(fed) = 5 /\ to = fed + 1 /\ to = upto /\ Cut(to) = 5 + 1 /\ Halves(to) = <<1>>
         \/ Cut(fed) = 5 + 1 /\ to = fed + 1 /\ Cut(to) = 5 + 2 /\ Halves(to) = <<2>>
  BY <1>1, <1>2, AtHalves
<1>4. PICK v : v = Halves(to)
  OBVIOUS
<1>5. m_header' = IF t \in DOMAIN m_header THEN m_header
                  ELSE [k \in DOMAIN m_header \cup {t} |->
                          IF k = t THEN [req |-> Req(fed) + 1, halves |-> v] ELSE m_header[k]]
  BY <1>3, <1>4 DEF on_header_value
<1>6. v \in {<<1>>, <<2>>, <<1, 2>>}
  BY <1>3, <1>4
<1> QED
  BY <1>3, <1>4, <1>5, <1>6

LEMMA ReqGrows ==
  ASSUME NEW m \in Nat, NEW n \in Nat, m <= n
  PROVE  Req(m) <= Req(n)
BY DEF Req

\* The end of a dispatch that drops what follows an upgrade.
Drops == DispatchReturns /\ parser = "upgrade"

LEMMA DropMoves ==
  ASSUME PlaceInv, Drops
  PROVE  /\ UNCHANGED <<m_method, m_header, m_body, t, handed, later, wire, conn>>
         /\ parser' = "new" /\ base' = fed' /\ fed' \in Nat /\ Req(fed) <= Req(fed')
         /\ ~Lost /\ Cut(fed) = 0
<1>1. /\ UNCHANGED <<m_method, m_header, m_body, t, handed, later, wire, conn>>
      /\ parser = "upgrade" /\ parser' = "new" /\ base' = upto /\ fed' = upto
  BY DEF Drops, DispatchReturns, m_request
<1>2. fed \in Nat /\ upto \in Nat /\ fed <= upto
  BY Places
<1>3. Req(fed) <= Req(upto)
  BY <1>2, ReqGrows
<1>4. Cut(fed) = 0 /\ ~Lost
  BY <1>1 DEF PlaceInv, Lost
<1> QED
  BY <1>1, <1>2, <1>3, <1>4

\* Other steps that leave requests and answers alone.
Quiet ==
  \/ UnitsArrive \/ HangsUp \/ recv \/ ParseError \/ UNCHANGED httpVars
  \/ DispatchReturns /\ parser # "upgrade"

LEMMA QuietMoves ==
  ASSUME PlaceInv, Quiet
  PROVE  /\ UNCHANGED <<m_method, m_header, m_body, t, handed, later, wire>>
         /\ parser' = "error" \/ (parser' = parser /\ fed' = fed /\ base' \in {base, fed})
         /\ Lost => Lost'
         /\ Req(fed) <= Req(fed') /\ Req(fed') \in Nat
         /\ conn' = conn \/ conn' # "open"
<1>1. fed \in Nat /\ upto \in Nat /\ fed <= upto /\ Req(fed) <= Req(upto) /\ Req(fed) <= Req(fed)
      /\ Req(fed) \in Nat /\ Req(upto) \in Nat
  BY Places, ReqGrows, Positions
<1>2. CASE UnitsArrive \/ HangsUp \/ recv \/ UNCHANGED httpVars
  <2>1. /\ UNCHANGED <<m_method, m_header, m_body, t, handed, later, wire, parser, fed, base>>
        /\ conn' = conn \/ conn' # "open"
    BY <1>2 DEF UnitsArrive, HangsUp, recv, httpVars, m_request
  <2> QED
    BY <1>1, <2>1 DEF Lost
<1>3. CASE ParseError
  BY <1>1, <1>3 DEF ParseError, m_request, Lost
<1>4. CASE DispatchReturns /\ parser # "upgrade"
  <2>1. UNCHANGED <<m_method, m_header, m_body, t, handed, later, wire, conn, parser>>
    BY <1>4 DEF DispatchReturns, m_request
  <2>2. fed' = upto /\ base' = upto /\ (fed = upto \/ parser = "error")
    BY <1>4 DEF DispatchReturns
  <2> QED
    BY <1>1, <2>1, <2>2 DEF Lost
<1> QED
  BY <1>2, <1>3, <1>4 DEF Quiet

LEMMA Steps ==
  ASSUME [HttpNext]_httpVars
  PROVE  \/ Quiet \/ Drops
         \/ \E to : \/ Begin(to) \/ on_url(to) \/ on_header_field(to) \/ on_header_value(to)
                    \/ on_body(to) \/ on_message_complete(to) \/ CallbackThrows(to)
         \/ \E r \in Reqs : Answer(r)
BY DEF HttpNext, Execute, Quiet, Drops

-----------------------------------------------------------------------------
(* The invariant holds in every reachable state *)

LEMMA InitHttp == HttpInit => HttpInv
<1> SUFFICES ASSUME HttpInit
             PROVE  HttpInv
  OBVIOUS
<1>1. MaxReqs \in Nat /\ Total \in Nat
  BY HttpAssumption, PartsAre DEF Total
<1>2. Req(0) = 0 /\ Cut(0) = 0
  BY DEF Req, Cut
<1>3. PlaceInv /\ ~Lost /\ parser = "new" /\ fed = 0
  BY <1>1, <1>2 DEF HttpInit, PlaceInv, Lost
<1>4. m_header \in Headers /\ DOMAIN m_header = {}
  <2>1. m_header = [k \in {} |-> <<>>]
    BY DEF HttpInit, NoHeader
  <2>2. m_header \in [{} -> [req : Reqs, halves : {<<1>>, <<2>>, <<1, 2>>}]]
    BY <2>1
  <2> QED
    BY <2>1, <2>2 DEF Headers
<1>5. /\ m_method = <<>> /\ m_body = <<>> /\ t = <<>> /\ handed = <<>> /\ later = {} /\ wire = <<>>
  BY DEF HttpInit
<1>6. DataInv
  <2>1. /\ m_method \in Seq(UrlPieces) /\ m_body \in Seq(BodyPieces) /\ handed \in Seq(Handed)
        /\ wire \in Seq(Heads \cup Texts)
    BY <1>5
  <2>2. t \in Names
    BY <1>5 DEF Names
  <2> QED
    BY <1>4, <1>5, <2>1, <2>2 DEF DataInv
<1>7. UrlInv /\ BodyInv /\ NameInv
  BY <1>3 DEF UrlInv, BodyInv, NameInv
<1>8. HeaderInv
  <2>1. base = 0 /\ ~(0 >= 0 + 6)
    BY DEF HttpInit
  <2> QED
    BY <1>3, <1>4, <2>1 DEF HeaderInv
<1>9. HandedInv /\ CountInv /\ UpgradeInv
  <2>1. DOMAIN handed = {} /\ Len(handed) = 0 /\ Len(m_method) = 0 /\ Len(m_body) = 0
    BY <1>5
  <2>2. UrlLen(0) = 0 /\ BodyLen(0) = 0
    BY <1>2 DEF UrlLen, BodyLen
  <2> QED
    BY <1>2, <1>3, <2>1, <2>2 DEF HandedInv, CountInv, UpgradeInv
<1>10. PairInv /\ WireInv /\ ConnInv
  <2>1. DOMAIN wire = {} /\ Len(wire) = 2 * 0 /\ 0 \in Nat
    BY <1>5
  <2> QED
    BY <1>5, <2>1 DEF PairInv, WireInv, AnsweredOnce, ConnInv, HttpInit
<1> QED
  BY <1>3, <1>6, <1>7, <1>8, <1>9, <1>10 DEF HttpInv

LEMMA PlaceStep == PlaceInv /\ [HttpNext]_httpVars => PlaceInv'
<1> SUFFICES ASSUME PlaceInv, [HttpNext]_httpVars
             PROVE  PlaceInv'
  OBVIOUS
<1>1. CASE UnitsArrive
  <2>1. PICK n \in reached + 1 .. Total : reached' = n
    BY <1>1 DEF UnitsArrive
  <2>2. UNCHANGED <<held, base, fed, upto, parser>>
    BY <1>1 DEF UnitsArrive
  <2>3. reached' \in 0 .. Total /\ held \in 0 .. reached'
    BY <2>1, Places
  <2> QED
    BY <2>2, <2>3 DEF PlaceInv
<1>2. CASE recv
  <2>1. fed = base /\ UNCHANGED <<reached, base, fed, parser>> /\ upto' = reached /\ held' = reached
    BY <1>2 DEF recv
  <2>2. reached \in 0 .. reached /\ base \in 0 .. reached /\ reached \in base .. reached /\ fed \in base .. reached
    BY <2>1, Places
  <2> QED
    BY <2>1, <2>2 DEF PlaceInv
<1>3. CASE ParseError
  BY <1>3 DEF ParseError, PlaceInv
<1>4. CASE DispatchReturns
  <2>1. /\ UNCHANGED <<reached, held, upto>> /\ base' = upto /\ fed' = upto
        /\ parser' = IF parser = "upgrade" THEN "new" ELSE parser
        /\ fed = upto \/ parser \in {"error", "upgrade"}
    BY <1>4 DEF DispatchReturns
  <2>2. upto \in 0 .. held /\ upto \in upto .. upto /\ upto \in upto .. held
    BY Places
  <2> QED
    BY <2>1, <2>2 DEF PlaceInv
<1>5. ASSUME NEW to, Begin(to)
      PROVE  PlaceInv'
  <2>1. At(to, "begin") /\ parser' = "in"
    BY <1>5 DEF Begin
  <2>2. Cut(fed') = 1 /\ fed' = fed + 1 /\ fed' <= upto
    BY <2>1, AtBegin
  <2>3. UNCHANGED <<reached, held, base, upto>>
    BY <2>1 DEF At
  <2>4. fed' \in base .. upto
    BY <2>2, Places
  <2> QED
    BY <2>1, <2>2, <2>3, <2>4 DEF PlaceInv
<1>6. ASSUME NEW to, on_url(to) \/ on_header_field(to) \/ on_header_value(to) \/ on_body(to)
      PROVE  PlaceInv'
  <2>1. UNCHANGED <<reached, held, base, upto, parser>> /\ parser = "in"
    BY <1>6 DEF on_url, on_header_field, on_header_value, on_body, At
  <2>2. /\ fed' = to /\ to \in Nat /\ to <= upto /\ to \in {fed + 1, fed + 2}
        /\ Cut(to) \in 2 .. 9 /\ (Cut(to) \in {2, 4, 6, 8} => to = upto)
    <3>1. CASE on_url(to)
      BY <3>1, UrlMoves
    <3>2. CASE on_header_field(to)
      BY <3>2, FieldMoves
    <3>3. CASE on_header_value(to)
      BY <3>3, ValueMoves
    <3>4. CASE on_body(to)
      BY <3>4, BodyMoves
    <3> QED
      BY <1>6, <3>1, <3>2, <3>3, <3>4
  <2>3. fed' \in base .. upto /\ Cut(fed') # 0
    BY <2>2, Places
  <2> QED
    BY <2>1, <2>2, <2>3 DEF PlaceInv
<1>7. ASSUME NEW to, on_message_complete(to)
      PROVE  PlaceInv'
  <2>1. /\ UNCHANGED <<reached, held, base, upto>> /\ parser' \in {"new", "upgrade"}
        /\ fed' = fed + 1 /\ fed < upto /\ fed + 1 = to /\ Unit(to).part = "complete"
    BY <1>7 DEF on_message_complete
  <2>2. fed' \in base .. upto
    BY <2>1, Places
  <2>3. Cut(fed') = 0
    BY <2>1, AtComplete
  <2> QED
    BY <2>1, <2>2, <2>3 DEF PlaceInv
<1>8. ASSUME NEW to, CallbackThrows(to)
      PROVE  PlaceInv'
  <2>1. UNCHANGED <<reached, held, base>> /\ parser' = "new" /\ fed' = base /\ upto' = base
    BY <1>8 DEF CallbackThrows
  <2>2. base \in base .. base /\ base \in base .. held
    BY Places
  <2> QED
    BY <2>1, <2>2 DEF PlaceInv
<1>9. ASSUME NEW r \in Reqs, Answer(r)
      PROVE  PlaceInv'
  BY <1>9 DEF Answer, PlaceInv
<1>10. CASE HangsUp \/ UNCHANGED httpVars
  BY <1>10 DEF HangsUp, httpVars, PlaceInv
<1> QED
  BY <1>1, <1>2, <1>3, <1>4, <1>5, <1>6, <1>7, <1>8, <1>9, <1>10, Steps DEF Quiet, Drops

-----------------------------------------------------------------------------
(* Requests that are complete, and answers *)

LEMMA Serialized ==
  ASSUME NEW r \in Reqs, NEW err, NEW body \in 0 .. 1
  PROVE  \E h \in Heads : serialize(r, err, body) = <<h, [req |-> r, size |-> h.length]>> /\ h.req = r
<1>1. http_strerror(err) \in Statuses
  BY DEF http_strerror, Statuses
<1>2. body + 1 \in {1, 2}
  OBVIOUS
<1>3. PICK st \in Statuses, n \in {1, 2} : st = http_strerror(err) /\ n = body + 1
  BY <1>1, <1>2
<1>4. PICK h : h = [req |-> r, status |-> st, length |-> n]
  OBVIOUS
<1>5. h \in Heads /\ h.req = r /\ h.length = n
  BY <1>3, <1>4 DEF Heads
<1>6. serialize(r, err, body) = <<h, [req |-> r, size |-> h.length]>>
  BY <1>3, <1>4, <1>5 DEF serialize
<1> QED
  BY <1>5, <1>6

\* What an answer to request r does to what was sent, and to the connection.
Answered(r) ==
  \/ wire' = wire /\ (conn' = conn \/ conn' # "open")
  \/ /\ conn = "open"
     /\ \E h \in Heads :
          /\ h.req = r
          /\ \/ wire' = wire \o <<h, [req |-> r, size |-> h.length]>> /\ conn' = conn
             \/ wire' = wire \o <<h>> /\ conn' # "open"

LEMMA SendMoves ==
  ASSUME NEW r \in Reqs, NEW err, NEW body \in 0 .. 1, SendList(serialize(r, err, body))
  PROVE  Answered(r) /\ (ConnInv => ConnInv')
<1>1. PICK h \in Heads :
        serialize(r, err, body) = <<h, [req |-> r, size |-> h.length]>> /\ h.req = r
  BY Serialized
<1>2. PICK ms : ms = serialize(r, err, body)
  OBVIOUS
<1>3. ms = <<h, [req |-> r, size |-> h.length]>> /\ ms[1] = h
  BY <1>1, <1>2
<1>4. SendList(ms)
  BY <1>2
<1>5. \/ conn = "open" /\ wire' = wire \o ms /\ conn' = conn
      \/ conn = "open" /\ wire' = wire \o <<h>> /\ conn' = "closed"
      \/ wire' = wire /\ conn' \in {"undefined", "gone"}
      \/ wire' = wire /\ conn' = conn
  BY <1>3, <1>4 DEF SendList
<1>6. Answered(r)
  BY <1>1, <1>3, <1>5 DEF Answered
<1>7. ConnInv => ConnInv'
  BY <1>5 DEF ConnInv
<1> QED
  BY <1>6, <1>7

\* One more call of a callback.
LEMMA HandedMore ==
  ASSUME DataInv, NEW e \in Handed, handed' = Append(handed, e)
  PROVE  /\ handed' \in Seq(Handed) /\ Len(handed') = Len(handed) + 1 /\ Len(handed) \in Nat
         /\ DOMAIN handed = 1 .. Len(handed) /\ DOMAIN handed' = 1 .. Len(handed) + 1
         /\ handed'[Len(handed) + 1] = e
         /\ \A i \in DOMAIN handed : handed'[i] = handed[i]
         /\ Threw' <=> Threw \/ e.how = "throw"
         /\ Waited \subseteq Waited' /\ (e.how = "later" => e.req \in Waited')
<1>1. handed \in Seq(Handed) /\ Len(handed) \in Nat
  BY DEF DataInv
<1>2. /\ handed' \in Seq(Handed) /\ Len(handed') = Len(handed) + 1
      /\ DOMAIN handed = 1 .. Len(handed) /\ DOMAIN handed' = 1 .. Len(handed) + 1
      /\ handed'[Len(handed) + 1] = e
      /\ \A i \in DOMAIN handed : handed'[i] = handed[i]
  BY <1>1
<1>3. /\ Len(handed) + 1 \in DOMAIN handed' /\ DOMAIN handed \subseteq DOMAIN handed'
      /\ \A i \in DOMAIN handed' : i \in DOMAIN handed \/ i = Len(handed) + 1
  BY <1>1, <1>2
<1>4. Threw' <=> Threw \/ e.how = "throw"
  BY <1>2, <1>3 DEF Threw
<1>5. Waited \subseteq Waited' /\ (e.how = "later" => e.req \in Waited')
  <2>1. ASSUME NEW i \in DOMAIN handed, handed[i].how = "later"
        PROVE  handed[i].req \in Waited'
    BY <1>2, <1>3, <2>1 DEF Waited
  <2>2. e.how = "later" => e.req \in Waited'
    BY <1>2, <1>3 DEF Waited
  <2> QED
    BY <2>1, <2>2 DEF Waited
<1> QED
  BY <1>1, <1>2, <1>4, <1>5

\* What a callback is given.
Given(r, how) == [req |-> r, how |-> how, url |-> m_method, header |-> m_header, body |-> m_body]

LEMMA GivenType ==
  ASSUME DataInv, NEW r \in Reqs, NEW how \in {"now", "later", "default", "throw"}
  PROVE  Given(r, how) \in Handed
BY DEF DataInv, Given, Handed

LEMMA CompleteMoves ==
  ASSUME PlaceInv, DataInv, NEW to, on_message_complete(to)
  PROVE  /\ parser = "in" /\ parser' \in {"new", "upgrade"} /\ Cut(fed) = 9 /\ Cut(fed') = 0
         /\ parser' = "upgrade" => Req(fed) + 1 \in Upgrades
         /\ Req(fed') = Req(fed) + 1 /\ fed < upto /\ fed' = fed + 1 /\ Req(fed) + 1 \in Reqs
         /\ UNCHANGED <<base, m_method, m_header, m_body, t>>
         /\ ConnInv => ConnInv'
         /\ \E how \in {"now", "later", "default"} :
              /\ handed' = Append(handed, Given(Req(fed) + 1, how))
              /\ Given(Req(fed) + 1, how) \in Handed
              /\ \/ /\ how = "later" /\ later' = later \cup {Req(fed) + 1}
                    /\ wire' = wire /\ conn' = conn
                 \/ how # "later" /\ later' = later /\ Answered(Req(fed) + 1)
<1>1. /\ parser = "in" /\ fed < upto /\ to = fed + 1 /\ fed' = to
      /\ parser' = IF Unit(to).req \in Upgrades THEN "upgrade" ELSE "new"
      /\ Unit(to).part = "complete" /\ UNCHANGED <<base, m_method, m_header, m_body, t>>
  BY DEF on_message_complete, m_request
<1>2. /\ Cut(fed) = 9 /\ Cut(to) = 0 /\ Req(to) = Req(fed) + 1 /\ Unit(to).req = Req(fed) + 1
      /\ Req(fed) + 1 \in Reqs
  BY <1>1, AtComplete
<1>3. PICK r \in Reqs : r = Req(fed) + 1
  BY <1>2
<1>4. PICK how \in {"now", "later", "default"} :
        /\ Callback(r, how)
        /\ \/ how = "later" /\ UNCHANGED <<wire, conn>>
           \/ how = "default" /\ SendList(serialize(r, 404, 0))
           \/ how = "now" /\ \E err \in Errors, body \in 0 .. 1 : SendList(serialize(r, err, body))
  <2>1. Unit(to).req = r
    BY <1>2, <1>3
  <2> QED
    BY <2>1 DEF on_message_complete
<1>5. handed' = Append(handed, Given(r, how)) /\ Given(r, how) \in Handed
  BY <1>4, GivenType DEF Callback, Given
<1>6. later' = IF how = "later" THEN later \cup {r} ELSE later
  BY <1>4 DEF Callback
<1>7. /\ ConnInv => ConnInv'
      /\ \/ how = "later" /\ wire' = wire /\ conn' = conn
         \/ how # "later" /\ Answered(r)
  <2>1. CASE how = "default"
    <3>1. PICK body \in 0 .. 1 : body = 0
      OBVIOUS
    <3>2. SendList(serialize(r, 404, body))
      BY <1>4, <2>1, <3>1
    <3> QED
      BY <2>1, <3>2, SendMoves
  <2>2. CASE how = "now"
    <3>1. PICK err \in Errors, body \in 0 .. 1 : SendList(serialize(r, err, body))
      BY <1>4, <2>2
    <3> QED
      BY <2>2, <3>1, SendMoves
  <2>3. CASE how = "later"
    BY <1>4, <2>3 DEF ConnInv
  <2> QED
    BY <2>1, <2>2, <2>3
<1>8. \E hw \in {"now", "later", "default"} :
        /\ handed' = Append(handed, Given(r, hw)) /\ Given(r, hw) \in Handed
        /\ \/ hw = "later" /\ later' = later \cup {r} /\ wire' = wire /\ conn' = conn
           \/ hw # "later" /\ later' = later /\ Answered(r)
  BY <1>5, <1>6, <1>7
<1> QED
  BY <1>1, <1>2, <1>3, <1>7, <1>8

LEMMA ThrowMoves ==
  ASSUME PlaceInv, DataInv, NEW to, CallbackThrows(to)
  PROVE  /\ parser = "in" /\ parser' = "new" /\ Cut(fed) = 9 /\ fed' = base /\ fed < upto
         /\ Req(fed) + 1 \in Reqs
         /\ UNCHANGED <<base, m_method, m_header, m_body, t, wire, later, conn>>
         /\ handed' = Append(handed, Given(Req(fed) + 1, "throw"))
         /\ Given(Req(fed) + 1, "throw") \in Handed
<1>1. /\ parser = "in" /\ parser' = "new" /\ fed < upto /\ to = fed + 1 /\ fed' = base
      /\ Unit(to).part = "complete" /\ UNCHANGED <<base, m_method, m_header, m_body, t, wire, conn>>
      /\ Callback(Unit(to).req, "throw")
  BY DEF CallbackThrows, m_request
<1>2. Cut(fed) = 9 /\ Unit(to).req = Req(fed) + 1 /\ Req(fed) + 1 \in Reqs
  BY <1>1, AtComplete
<1>3. handed' = Append(handed, Given(Req(fed) + 1, "throw")) /\ later' = later
  BY <1>1, <1>2 DEF Callback, Given
<1> QED
  BY <1>1, <1>2, <1>3, GivenType

LEMMA AnswerMoves ==
  ASSUME NEW r \in Reqs, Answer(r)
  PROVE  /\ r \in later /\ later' = later \ {r}
         /\ UNCHANGED <<base, fed, parser, m_method, m_header, m_body, t, handed>>
         /\ Answered(r) /\ (ConnInv => ConnInv')
<1>1. PICK err \in Errors, body \in 0 .. 1 : SendList(serialize(r, err, body))
  BY DEF Answer
<1>2. Answered(r) /\ (ConnInv => ConnInv')
  BY <1>1, SendMoves
<1> QED
  BY <1>2 DEF Answer, m_request

LEMMA ConnStep == PlaceInv /\ DataInv /\ ConnInv /\ [HttpNext]_httpVars => ConnInv'
<1> SUFFICES ASSUME PlaceInv, DataInv, ConnInv, [HttpNext]_httpVars
             PROVE  ConnInv'
  OBVIOUS
<1>1. CASE Quiet \/ Drops
  BY <1>1 DEF Quiet, Drops, UnitsArrive, HangsUp, recv, ParseError, DispatchReturns, httpVars, ConnInv
<1>2. ASSUME NEW to, \/ Begin(to) \/ on_url(to) \/ on_header_field(to) \/ on_header_value(to)
                     \/ on_body(to) \/ CallbackThrows(to)
      PROVE  ConnInv'
  BY <1>2 DEF Begin, on_url, on_header_field, on_header_value, on_body, At, CallbackThrows, ConnInv
<1>3. ASSUME NEW to, on_message_complete(to)
      PROVE  ConnInv'
  BY <1>3, CompleteMoves
<1>4. ASSUME NEW r \in Reqs, Answer(r)
      PROVE  ConnInv'
  BY <1>4, AnswerMoves
<1> QED
  BY <1>1, <1>2, <1>3, <1>4, Steps

LEMMA DataStep == PlaceInv /\ DataInv /\ [HttpNext]_httpVars => DataInv'
<1> SUFFICES ASSUME PlaceInv, DataInv, [HttpNext]_httpVars
             PROVE  DataInv'
  OBVIOUS
<1>1. CASE Quiet \/ Drops
  <2>1. UNCHANGED <<m_method, m_header, m_body, t, handed, later, wire>>
    BY <1>1, QuietMoves, DropMoves
  <2> QED
    BY <2>1 DEF DataInv
<1>2. ASSUME NEW to, Begin(to)
      PROVE  DataInv'
  BY <1>2 DEF Begin, At, m_request, DataInv
<1>3. ASSUME NEW to, on_url(to)
      PROVE  DataInv'
  <2>1. UNCHANGED <<m_header, m_body, t, handed, later, wire>>
    BY <1>3 DEF on_url, At
  <2>2. PICK a \in UrlPieces, b \in UrlPieces :
          m_method' \in {m_method \o <<a, b>>, m_method \o <<a>>, m_method \o <<b>>}
    BY <1>3, UrlMoves, UrlPiece
  <2>3. m_method' \in Seq(UrlPieces)
    <3>1. m_method \in Seq(UrlPieces)
      BY DEF DataInv
    <3>2. /\ m_method \o <<a, b>> \in Seq(UrlPieces)
          /\ m_method \o <<a>> \in Seq(UrlPieces) /\ m_method \o <<b>> \in Seq(UrlPieces)
      BY <3>1, OneMore, TwoMore
    <3> QED
      BY <2>2, <3>2
  <2> QED
    BY <2>1, <2>3 DEF DataInv
<1>4. ASSUME NEW to, on_header_field(to)
      PROVE  DataInv'
  <2>1. UNCHANGED <<m_method, m_header, m_body, handed, later, wire>>
    BY <1>4 DEF on_header_field, At
  <2>2. t' \in Names
    BY <1>4, FieldMoves DEF Names
  <2> QED
    BY <2>1, <2>2 DEF DataInv
<1>5. ASSUME NEW to, on_header_value(to)
      PROVE  DataInv'
  <2>1. UNCHANGED <<m_method, m_body, handed, later, wire>> /\ t' = <<>>
    BY <1>5 DEF on_header_value, At
  <2>2. PICK v \in {<<1>>, <<2>>, <<1, 2>>} :
          m_header' = IF t \in DOMAIN m_header THEN m_header
                      ELSE [k \in DOMAIN m_header \cup {t} |->
                              IF k = t THEN [req |-> Req(fed) + 1, halves |-> v] ELSE m_header[k]]
    BY <1>5, ValueMoves
  <2>3. PICK q \in Reqs : q = Req(fed) + 1
    BY <1>5, ValueMoves
  <2>4. PICK D \in SUBSET Names : m_header \in [D -> [req : Reqs, halves : {<<1>>, <<2>>, <<1, 2>>}]]
    BY DEF DataInv, Headers
  <2>5. m_header' \in Headers
    <3>1. CASE t \in DOMAIN m_header
      BY <2>2, <3>1 DEF DataInv
    <3>2. CASE t \notin DOMAIN m_header
      <4>1. m_header' = [k \in D \cup {t} |-> IF k = t THEN [req |-> q, halves |-> v] ELSE m_header[k]]
        BY <2>2, <2>3, <2>4, <3>2
      <4>2. m_header' \in [D \cup {t} -> [req : Reqs, halves : {<<1>>, <<2>>, <<1, 2>>}]]
        BY <2>4, <4>1
      <4>3. D \cup {t} \in SUBSET Names
        BY DEF DataInv
      <4> QED
        BY <4>2, <4>3 DEF Headers
    <3> QED
      BY <3>1, <3>2
  <2>6. t' \in Names
    BY <2>1 DEF Names
  <2> QED
    BY <2>1, <2>5, <2>6 DEF DataInv
<1>6. ASSUME NEW to, on_body(to)
      PROVE  DataInv'
  <2>1. UNCHANGED <<m_method, m_header, t, handed, later, wire>>
    BY <1>6 DEF on_body, At
  <2>2. PICK a \in BodyPieces, b \in BodyPieces :
          m_body' \in {m_body \o <<a, b>>, m_body \o <<a>>, m_body \o <<b>>}
    <3>1. PICK q \in Reqs : q = Req(fed) + 1
      BY <1>6, BodyMoves
    <3>2. <<q, 1>> \in BodyPieces /\ <<q, 2>> \in BodyPieces
      BY DEF BodyPieces
    <3> QED
      BY <1>6, <3>1, <3>2, BodyMoves
  <2>3. m_body' \in Seq(BodyPieces)
    <3>1. m_body \in Seq(BodyPieces)
      BY DEF DataInv
    <3>2. /\ m_body \o <<a, b>> \in Seq(BodyPieces)
          /\ m_body \o <<a>> \in Seq(BodyPieces) /\ m_body \o <<b>> \in Seq(BodyPieces)
      BY <3>1, OneMore, TwoMore
    <3> QED
      BY <2>2, <3>2
  <2> QED
    BY <2>1, <2>3 DEF DataInv
<1>7. ASSUME NEW r \in Reqs, Answered(r)
      PROVE  wire' \in Seq(Heads \cup Texts)
  <2>1. wire \in Seq(Heads \cup Texts)
    BY DEF DataInv
  <2>2. CASE wire' = wire
    BY <2>1, <2>2
  <2>3. CASE wire' # wire
    <3>1. PICK h \in Heads : wire' = wire \o <<h, [req |-> r, size |-> h.length]>> \/ wire' = wire \o <<h>>
      BY <1>7, <2>3 DEF Answered
    <3>2. [req |-> r, size |-> h.length] \in Texts
      BY DEF Heads, Texts
    <3>3. h \in Heads \cup Texts /\ [req |-> r, size |-> h.length] \in Heads \cup Texts
      BY <3>2
    <3>4. /\ wire \o <<h>> \in Seq(Heads \cup Texts)
          /\ wire \o <<h, [req |-> r, size |-> h.length]>> \in Seq(Heads \cup Texts)
      BY <2>1, <3>3, OneMore, TwoMore
    <3> QED
      BY <3>1, <3>4
  <2> QED
    BY <2>2, <2>3
<1>8. ASSUME NEW to, on_message_complete(to)
      PROVE  DataInv'
  <2>1. /\ UNCHANGED <<m_method, m_header, m_body, t>> /\ Req(fed) + 1 \in Reqs
        /\ \E e \in Handed : handed' = Append(handed, e)
        /\ later' \in {later, later \cup {Req(fed) + 1}}
    BY <1>8, CompleteMoves
  <2>2. wire' \in Seq(Heads \cup Texts)
    <3>1. wire' = wire \/ Answered(Req(fed) + 1)
      BY <1>8, CompleteMoves
    <3>2. PICK r \in Reqs : r = Req(fed) + 1
      BY <2>1
    <3> QED
      BY <1>7, <3>1, <3>2 DEF DataInv
  <2>3. handed' \in Seq(Handed)
    BY <2>1, HandedMore
  <2> QED
    BY <2>1, <2>2, <2>3 DEF DataInv
<1>9. ASSUME NEW to, CallbackThrows(to)
      PROVE  DataInv'
  <2>1. /\ UNCHANGED <<m_method, m_header, m_body, t, wire, later>>
        /\ \E e \in Handed : handed' = Append(handed, e)
    BY <1>9, ThrowMoves
  <2>2. handed' \in Seq(Handed)
    BY <2>1, HandedMore
  <2> QED
    BY <2>1, <2>2 DEF DataInv
<1>10. ASSUME NEW r \in Reqs, Answer(r)
       PROVE  DataInv'
  <2>1. UNCHANGED <<m_method, m_header, m_body, t, handed>> /\ later' \subseteq later
    BY <1>10, AnswerMoves
  <2>2. wire' \in Seq(Heads \cup Texts)
    <3>1. Answered(r)
      BY <1>10, AnswerMoves
    <3> QED
      BY <1>7, <3>1
  <2> QED
    BY <2>1, <2>2 DEF DataInv
<1> QED
  BY <1>1, <1>2, <1>3, <1>4, <1>5, <1>6, <1>8, <1>9, <1>10, Steps

-----------------------------------------------------------------------------
(* The request so far *)

\* Steps that neither execute units nor touch m_request.
LEMMA Rests ==
  ASSUME PlaceInv, Quiet \/ \E r \in Reqs : Answer(r)
  PROVE  /\ UNCHANGED <<m_method, m_header, m_body, t, handed>>
         /\ parser' = "error" \/ (parser' = parser /\ fed' = fed /\ base' \in {base, fed})
         /\ Lost => Lost'
         /\ Req(fed) <= Req(fed') /\ Req(fed') \in Nat
<1>1. CASE Quiet
  BY <1>1, QuietMoves
<1>2. CASE \E r \in Reqs : Answer(r)
  <2>1. UNCHANGED <<base, fed, parser, m_method, m_header, m_body, t, handed>>
    BY <1>2, AnswerMoves
  <2>2. Req(fed) \in Nat /\ Req(fed) <= Req(fed)
    BY Places, Positions
  <2> QED
    BY <2>1, <2>2 DEF Lost
<1> QED
  BY <1>1, <1>2

LEMMA UrlStep == PlaceInv /\ DataInv /\ UrlInv /\ [HttpNext]_httpVars => UrlInv'
<1> SUFFICES ASSUME PlaceInv, DataInv, UrlInv, [HttpNext]_httpVars
             PROVE  UrlInv'
  OBVIOUS
<1>0. CASE Drops
  BY <1>0, DropMoves DEF UrlInv
<1>1. CASE Quiet \/ \E r \in Reqs : Answer(r)
  BY <1>1, Rests DEF UrlInv
<1>2. ASSUME NEW to, Begin(to)
      PROVE  UrlInv'
  <2>1. Cut(fed') = 1
    BY <1>2, AtBegin DEF Begin
  <2> QED
    BY <2>1 DEF UrlInv
<1>3. ASSUME NEW to, on_url(to)
      PROVE  UrlInv'
  <2>1. PICK a \in UrlPieces, b \in UrlPieces :
          a = <<Path[Req(fed) + 1], 1>> /\ b = <<Path[Req(fed) + 1], 2>>
    BY <1>3, UrlMoves, UrlPiece
  <2>2. m_method \in Seq(UrlPieces) /\ parser = "in" /\ fed' = to /\ Req(fed') = Req(fed)
    BY <1>3, UrlMoves DEF DataInv, on_url
  <2>3. CASE Cut(to) = 3 /\ m_method' = m_method \o <<a, b>>
    <3>1. EndsWith(m_method', a, b)
      BY <2>2, <2>3, EndsWithTwo
    <3>2. EndsWith(m_method', <<Path[Req(fed') + 1], 1>>, <<Path[Req(fed') + 1], 2>>)
      BY <2>1, <2>2, <3>1
    <3>3. Cut(fed') = 3
      BY <2>2, <2>3
    <3> QED
      BY <3>2, <3>3 DEF UrlInv
  <2>4. CASE Cut(to) = 2 /\ m_method' = m_method \o <<a>>
    <3>1. Len(m_method') >= 1 /\ m_method'[Len(m_method')] = a
      BY <2>2, <2>4, OneMore
    <3> QED
      BY <2>1, <2>2, <2>4, <3>1 DEF UrlInv
  <2>5. CASE Cut(fed) = 2 /\ Cut(to) = 3 /\ m_method' = m_method \o <<b>>
    <3>1. Len(m_method) >= 1 /\ m_method[Len(m_method)] = a
      BY <2>1, <2>2, <2>5 DEF UrlInv
    <3>2. EndsWith(m_method', a, b)
      BY <2>2, <2>5, <3>1, EndsWithOne
    <3>3. EndsWith(m_method', <<Path[Req(fed') + 1], 1>>, <<Path[Req(fed') + 1], 2>>)
      BY <2>1, <2>2, <3>2
    <3>4. Cut(fed') = 3
      BY <2>2, <2>5
    <3> QED
      BY <3>3, <3>4 DEF UrlInv
  <2> QED
    BY <1>3, <2>1, <2>3, <2>4, <2>5, UrlMoves
<1>4. ASSUME NEW to, on_header_field(to) \/ on_header_value(to) \/ on_body(to)
      PROVE  UrlInv'
  <2>1. parser = "in" /\ m_method' = m_method
    BY <1>4 DEF on_header_field, on_header_value, on_body
  <2>2. Cut(fed) \in 3 .. 9 /\ Req(fed') = Req(fed) /\ Cut(fed') \in 3 .. 9
    <3>1. CASE on_header_field(to)
      BY <3>1, FieldMoves
    <3>2. CASE on_header_value(to)
      BY <3>2, ValueMoves
    <3>3. CASE on_body(to)
      BY <3>3, BodyMoves
    <3> QED
      BY <1>4, <3>1, <3>2, <3>3
  <2>3. EndsWith(m_method', <<Path[Req(fed') + 1], 1>>, <<Path[Req(fed') + 1], 2>>)
    BY <2>1, <2>2 DEF UrlInv
  <2> QED
    BY <2>2, <2>3 DEF UrlInv
<1>5. ASSUME NEW to, on_message_complete(to) \/ CallbackThrows(to)
      PROVE  UrlInv'
  BY <1>5 DEF on_message_complete, CallbackThrows, UrlInv
<1> QED
  BY <1>0, <1>1, <1>2, <1>3, <1>4, <1>5, Steps

LEMMA BodyStep == PlaceInv /\ DataInv /\ BodyInv /\ [HttpNext]_httpVars => BodyInv'
<1> SUFFICES ASSUME PlaceInv, DataInv, BodyInv, [HttpNext]_httpVars
             PROVE  BodyInv'
  OBVIOUS
<1>0. CASE Drops
  BY <1>0, DropMoves DEF BodyInv
<1>1. CASE Quiet \/ \E r \in Reqs : Answer(r)
  BY <1>1, Rests DEF BodyInv
<1>2. ASSUME NEW to, Begin(to) \/ on_url(to) \/ on_header_field(to) \/ on_header_value(to)
      PROVE  BodyInv'
  <2>1. Cut(fed') \in 1 .. 7
    <3>1. CASE Begin(to)
      BY <3>1, AtBegin DEF Begin
    <3>2. CASE on_url(to)
      BY <3>2, UrlMoves
    <3>3. CASE on_header_field(to)
      BY <3>3, FieldMoves
    <3>4. CASE on_header_value(to)
      BY <3>4, ValueMoves
    <3> QED
      BY <1>2, <3>1, <3>2, <3>3, <3>4
  <2> QED
    BY <2>1 DEF BodyInv
<1>3. ASSUME NEW to, on_body(to)
      PROVE  BodyInv'
  <2>1. PICK a \in BodyPieces, b \in BodyPieces : a = <<Req(fed) + 1, 1>> /\ b = <<Req(fed) + 1, 2>>
    <3>1. PICK q \in Reqs : q = Req(fed) + 1
      BY <1>3, BodyMoves
    <3>2. <<q, 1>> \in BodyPieces /\ <<q, 2>> \in BodyPieces
      BY DEF BodyPieces
    <3> QED
      BY <3>1, <3>2
  <2>2. m_body \in Seq(BodyPieces) /\ parser = "in" /\ fed' = to /\ Req(fed') = Req(fed)
    BY <1>3, BodyMoves DEF DataInv, on_body
  <2>3. CASE Cut(to) = 9 /\ m_body' = m_body \o <<a, b>>
    <3>1. EndsWith(m_body', a, b)
      BY <2>2, <2>3, EndsWithTwo
    <3>2. EndsWith(m_body', <<Req(fed') + 1, 1>>, <<Req(fed') + 1, 2>>)
      BY <2>1, <2>2, <3>1
    <3>3. Cut(fed') = 9
      BY <2>2, <2>3
    <3> QED
      BY <3>2, <3>3 DEF BodyInv
  <2>4. CASE Cut(to) = 8 /\ m_body' = m_body \o <<a>>
    <3>1. Len(m_body') >= 1 /\ m_body'[Len(m_body')] = a
      BY <2>2, <2>4, OneMore
    <3> QED
      BY <2>1, <2>2, <2>4, <3>1 DEF BodyInv
  <2>5. CASE Cut(fed) = 8 /\ Cut(to) = 9 /\ m_body' = m_body \o <<b>>
    <3>1. Len(m_body) >= 1 /\ m_body[Len(m_body)] = a
      BY <2>1, <2>2, <2>5 DEF BodyInv
    <3>2. EndsWith(m_body', a, b)
      BY <2>2, <2>5, <3>1, EndsWithOne
    <3>3. EndsWith(m_body', <<Req(fed') + 1, 1>>, <<Req(fed') + 1, 2>>)
      BY <2>1, <2>2, <3>2
    <3>4. Cut(fed') = 9
      BY <2>2, <2>5
    <3> QED
      BY <3>3, <3>4 DEF BodyInv
  <2> QED
    BY <1>3, <2>1, <2>3, <2>4, <2>5, BodyMoves
<1>4. ASSUME NEW to, on_message_complete(to) \/ CallbackThrows(to)
      PROVE  BodyInv'
  BY <1>4 DEF on_message_complete, CallbackThrows, BodyInv
<1> QED
  BY <1>0, <1>1, <1>2, <1>3, <1>4, Steps

LEMMA NameStep == PlaceInv /\ DataInv /\ NameInv /\ [HttpNext]_httpVars => NameInv'
<1> SUFFICES ASSUME PlaceInv, DataInv, NameInv, [HttpNext]_httpVars
             PROVE  NameInv'
  OBVIOUS
<1>0. CASE Drops
  BY <1>0, DropMoves DEF NameInv
<1>1. CASE Quiet \/ \E r \in Reqs : Answer(r)
  <2>1. /\ UNCHANGED <<m_header, t>>
        /\ parser' = "error" \/ (parser' = parser /\ fed' = fed /\ base' \in {base, fed})
    BY <1>1, Rests
  <2>2. CASE parser' = "error"
    BY <2>2 DEF NameInv
  <2>3. CASE parser' = parser /\ fed' = fed /\ base' = base
    BY <2>1, <2>3 DEF NameInv
  <2>4. CASE parser' = parser /\ fed' = fed /\ base' = fed
    <3>1. ~(fed' >= base' + 2)
      BY <2>4, Places
    <3> QED
      BY <2>1, <2>4, <3>1 DEF NameInv
  <2> QED
    BY <2>1, <2>2, <2>3, <2>4
<1>2. ASSUME NEW to, Begin(to) \/ on_url(to)
      PROVE  NameInv'
  <2>1. Cut(fed') \in 1 .. 3
    <3>1. CASE Begin(to)
      BY <3>1, AtBegin DEF Begin
    <3>2. CASE on_url(to)
      BY <3>2, UrlMoves
    <3> QED
      BY <1>2, <3>1, <3>2
  <2> QED
    BY <2>1 DEF NameInv
<1>3. ASSUME NEW to, on_header_field(to)
      PROVE  NameInv'
  <2>1. CASE Cut(to) = 5 /\ t' = <<1, 2>>
    BY <1>3, <2>1, FieldMoves DEF NameInv, Name
  <2>2. CASE Cut(to) = 4
    BY <1>3, <2>2, FieldMoves DEF NameInv
  <2>3. CASE Cut(fed) = 4 /\ to = fed + 1 /\ Cut(to) = 5 /\ t' = <<2>>
    <3>1. fed' = to /\ fed < upto /\ parser = "in" /\ base' = base
      BY <1>3, FieldMoves DEF on_header_field, At
    <3>2. fed = base
      BY <2>3, <3>1, Places DEF PlaceInv
    <3>3. ~(fed' >= base' + 2)
      BY <2>3, <3>1, <3>2, Places
    <3> QED
      BY <2>3, <3>1, <3>3 DEF NameInv
  <2> QED
    BY <1>3, <2>1, <2>2, <2>3, FieldMoves
<1>4. ASSUME NEW to, on_header_value(to)
      PROVE  NameInv'
  <2>1. fed' = to /\ Cut(to) \in {6, 7} /\ Cut(fed) \in {5, 6} /\ parser = "in" /\ t' = <<>>
    BY <1>4, ValueMoves DEF on_header_value
  <2>2. {Name, <<2>>} \cap DOMAIN m_header' # {}
    <3>1. DOMAIN m_header' = DOMAIN m_header \cup {t}
      <4>1. PICK v \in {<<1>>, <<2>>, <<1, 2>>} :
              m_header' = IF t \in DOMAIN m_header THEN m_header
                          ELSE [k \in DOMAIN m_header \cup {t} |->
                                  IF k = t THEN [req |-> Req(fed) + 1, halves |-> v] ELSE m_header[k]]
        BY <1>4, ValueMoves
      <4> QED
        BY <4>1
    <3>2. CASE Cut(fed) = 5
      BY <2>1, <3>1, <3>2 DEF NameInv
    <3>3. CASE Cut(fed) = 6
      BY <2>1, <3>1, <3>3 DEF NameInv
    <3> QED
      BY <2>1, <3>2, <3>3
  <2> QED
    BY <2>1, <2>2 DEF NameInv
<1>5. ASSUME NEW to, on_body(to)
      PROVE  NameInv'
  <2>1. fed' = to /\ Cut(to) \in {8, 9} /\ Cut(fed) \in {7, 8} /\ parser = "in" /\ m_header' = m_header
    BY <1>5, BodyMoves DEF on_body
  <2> QED
    BY <2>1 DEF NameInv
<1>6. ASSUME NEW to, on_message_complete(to) \/ CallbackThrows(to)
      PROVE  NameInv'
  BY <1>6 DEF on_message_complete, CallbackThrows, NameInv
<1> QED
  BY <1>0, <1>1, <1>2, <1>3, <1>4, <1>5, <1>6, Steps

\* Places of the request that begins at m.
LEMMA Near ==
  ASSUME NEW m \in Nat, NEW n \in Nat, Cut(m) = 0, m <= n, n < m + 10
  PROVE  Cut(n) = n - m /\ Req(n) = Req(m)
<1>1. PICK q \in Nat : q = Req(m) /\ m = 10 * q
  BY Positions
<1>2. PICK r \in Nat, c \in 0 .. 9 : r = Req(n) /\ c = Cut(n) /\ n = 10 * r + c
  BY Positions
<1>3. r = q
  BY <1>1, <1>2
<1> QED
  BY <1>1, <1>2, <1>3

LEMMA HeaderTypes ==
  ASSUME DataInv
  PROVE  /\ DOMAIN m_header \subseteq Names
         /\ \A k \in DOMAIN m_header :
              m_header[k].req \in Nat /\ m_header[k].req \in Reqs /\ m_header[k].halves \in {<<1>>, <<2>>, <<1, 2>>}
<1>1. PICK D \in SUBSET Names : m_header \in [D -> [req : Reqs, halves : {<<1>>, <<2>>, <<1, 2>>}]]
  BY DEF DataInv, Headers
<1>2. Reqs \subseteq Nat
  BY HttpAssumption DEF Reqs
<1> QED
  BY <1>1, <1>2

LEMMA HeaderStep ==
  PlaceInv /\ DataInv /\ NameInv /\ HeaderInv /\ [HttpNext]_httpVars => HeaderInv'
<1> SUFFICES ASSUME PlaceInv, DataInv, NameInv, HeaderInv, [HttpNext]_httpVars
             PROVE  HeaderInv'
  OBVIOUS
<1>1. fed \in Nat /\ base \in Nat /\ base <= fed /\ Req(fed) \in Nat /\ Req(base) \in Nat
  BY Places, Positions
<1>0. CASE Drops
  <2>1. /\ m_header' = m_header /\ base' = fed' /\ fed' \in Nat /\ ~Lost
        /\ Req(fed) <= Req(fed') /\ Req(fed') \in Nat
    <3>1. fed' \in Nat
      BY <1>0, DropMoves
    <3>2. Req(fed') \in Nat
      BY <3>1, Positions
    <3> QED
      BY <1>0, <3>1, <3>2, DropMoves
  <2>2. ~(fed' >= base' + 6)
    <3>1. \A n \in Nat : ~(n >= n + 6)
      OBVIOUS
    <3> QED
      BY <2>1, <3>1
  <2>3. ASSUME NEW k \in DOMAIN m_header
        PROVE  m_header[k].req <= Req(fed') + 1
    <3>1. m_header[k].req <= Req(fed) + 1 /\ m_header[k].req \in Nat
      BY <2>1, HeaderTypes DEF HeaderInv
    <3> QED
      BY <1>1, <2>1, <3>1
  <2> QED
    BY <2>1, <2>2, <2>3 DEF HeaderInv
<1>2. CASE Quiet \/ \E r \in Reqs : Answer(r)
  <2>1. /\ m_header' = m_header /\ (Lost => Lost')
        /\ parser' = "error" \/ (parser' = parser /\ fed' = fed /\ base' \in {base, fed})
    BY <1>2, Rests
  <2>2. CASE Lost'
    BY <2>1, <2>2 DEF HeaderInv
  <2>3. CASE ~Lost' /\ base' = base
    <3>1. fed' = fed /\ ~Lost
      BY <2>1, <2>3 DEF Lost
    <3> QED
      BY <2>1, <2>3, <3>1 DEF HeaderInv
  <2>4. CASE ~Lost' /\ base' # base
    <3>1. fed' = fed /\ base' = fed /\ ~Lost
      BY <2>1, <2>4 DEF Lost
    <3>2. ~(fed' >= base' + 6)
      BY <1>1, <3>1
    <3> QED
      BY <2>1, <3>1, <3>2 DEF HeaderInv
  <2> QED
    BY <2>2, <2>3, <2>4
<1>3. ASSUME NEW to, Begin(to) \/ on_url(to) \/ on_header_field(to) \/ on_body(to)
      PROVE  HeaderInv'
  <2>1. UNCHANGED <<base, m_header>> /\ parser' = "in" /\ ~Lost' /\ ~Lost
    <3>1. CASE Begin(to)
      BY <3>1, AtBegin DEF Begin, At, m_request, Lost
    <3>2. CASE ~Begin(to)
      BY <1>3, <3>2 DEF on_url, on_header_field, on_body, At, Lost
    <3> QED
      BY <3>1, <3>2
  <2>2. /\ fed' \in Nat /\ Req(fed') = Req(fed)
        /\ fed' <= fed + 2 /\ (Cut(fed) \in 4 .. 6 => Cut(fed) = 4 /\ fed' = fed + 1)
    <3>1. CASE Begin(to)
      BY <1>1, <3>1, AtBegin DEF Begin
    <3>2. CASE on_url(to)
      BY <1>1, <3>2, UrlMoves
    <3>3. CASE on_header_field(to)
      BY <1>1, <3>3, FieldMoves
    <3>4. CASE on_body(to)
      BY <1>1, <3>4, BodyMoves
    <3> QED
      BY <1>3, <3>1, <3>2, <3>3, <3>4
  <2>3. Cut(base) = 0 /\ fed' >= base + 6 => fed >= base + 6
    <3> SUFFICES ASSUME Cut(base) = 0, fed' >= base + 6, ~(fed >= base + 6)
                 PROVE  FALSE
      OBVIOUS
    <3>1. Cut(fed) = fed - base
      BY <1>1, Near
    <3>2. fed - base \in 4 .. 5
      BY <1>1, <2>2
    <3> QED
      BY <1>1, <2>2, <3>1, <3>2
  <2> QED
    BY <2>1, <2>2, <2>3 DEF HeaderInv
<1>4. ASSUME NEW to, on_header_value(to)
      PROVE  HeaderInv'
  <2>1. base' = base /\ parser = "in" /\ parser' = "in" /\ ~Lost /\ ~Lost'
    BY <1>4 DEF on_header_value, At, Lost
  <2>2. fed' = to /\ Req(fed') = Req(fed) /\ fed < upto /\ Cut(fed) \in {5, 6}
    BY <1>4, ValueMoves
  <2>3. PICK v \in {<<1>>, <<2>>, <<1, 2>>} :
          /\ m_header' = IF t \in DOMAIN m_header THEN m_header
                         ELSE [k \in DOMAIN m_header \cup {t} |->
                                 IF k = t THEN [req |-> Req(fed) + 1, halves |-> v] ELSE m_header[k]]
          /\ Cut(fed) = 5 => v # <<2>>
          /\ Cut(fed) = 6 => v = <<2>>
    <3>1. <<1>> # <<2>> /\ <<1, 2>> # <<2>>
      OBVIOUS
    <3> QED
      BY <1>4, <3>1, ValueMoves
  <2>4. (Cut(fed) = 5 => t # <<>>) /\ (Cut(fed) = 6 => t = <<>>)
    BY <2>1 DEF NameInv, Name
  <2>5. v = <<2>> <=> t = <<>>
    BY <2>2, <2>3, <2>4
  <2>6. ASSUME NEW k \in DOMAIN m_header'
        PROVE  \/ k \in DOMAIN m_header /\ m_header'[k] = m_header[k]
               \/ k = t /\ t \notin DOMAIN m_header /\ m_header'[k] = [req |-> Req(fed) + 1, halves |-> v]
    BY <2>3
  <2>7. \A k \in DOMAIN m_header' : m_header'[k].halves = <<2>> <=> k = <<>>
    BY <2>5, <2>6 DEF HeaderInv
  <2>8. \A k \in DOMAIN m_header' : m_header'[k].req <= Req(fed') + 1
    <3> SUFFICES ASSUME NEW k \in DOMAIN m_header'
                 PROVE  m_header'[k].req <= Req(fed) + 1
      BY <2>2
    <3>1. CASE k \in DOMAIN m_header /\ m_header'[k] = m_header[k]
      BY <2>1, <3>1 DEF HeaderInv
    <3>2. CASE m_header'[k] = [req |-> Req(fed) + 1, halves |-> v]
      BY <1>1, <3>2
    <3> QED
      BY <2>6, <3>1, <3>2
  <2>9. ASSUME Cut(base) = 0
        PROVE  /\ Name \in DOMAIN m_header'
               /\ \A k \in DOMAIN m_header' : m_header'[k].req <= Req(base) + 1
    <3>1. Cut(fed) = 5
      <4>1. Cut(fed) = 6 => fed = base
        BY <2>1, <2>2, Places DEF PlaceInv
      <4> QED
        BY <2>2, <2>9, <4>1
    <3>2. fed >= base + 2
      <4> SUFFICES ASSUME ~(fed >= base + 2)
                   PROVE  FALSE
        OBVIOUS
      <4>1. Cut(fed) = fed - base
        BY <1>1, <2>9, Near
      <4> QED
        BY <1>1, <3>1, <4>1
    <3>3. t = Name
      BY <2>1, <3>1, <3>2 DEF NameInv
    <3>4. Name \in DOMAIN m_header'
      BY <2>3, <3>3
    <3>5. ASSUME NEW k \in DOMAIN m_header'
          PROVE  m_header'[k].req <= Req(base) + 1
      <4>1. CASE k \in DOMAIN m_header /\ m_header'[k] = m_header[k]
        BY <2>1, <2>9, <4>1 DEF HeaderInv
      <4>2. CASE t \notin DOMAIN m_header /\ m_header'[k] = [req |-> Req(fed) + 1, halves |-> v]
        <5>1. ~(fed >= base + 6)
          BY <2>1, <2>9, <3>3, <4>2 DEF HeaderInv
        <5>2. Req(fed) = Req(base)
          BY <1>1, <2>9, <5>1, Near
        <5> QED
          BY <1>1, <4>2, <5>2
      <4> QED
        BY <2>6, <4>1, <4>2
    <3> QED
      BY <3>4, <3>5
  <2> QED
    BY <2>1, <2>7, <2>8, <2>9 DEF HeaderInv
<1>5. ASSUME NEW to, on_message_complete(to)
      PROVE  HeaderInv'
  <2>1. /\ UNCHANGED <<base, m_header>> /\ parser = "in" /\ Cut(fed) = 9 /\ Cut(fed') = 0
        /\ Req(fed') = Req(fed) + 1 /\ fed' = fed + 1
    BY <1>5, CompleteMoves
  <2>2. ~Lost
    BY <2>1 DEF Lost
  <2>3. \A k \in DOMAIN m_header : m_header[k].req <= Req(fed') + 1
    <3> SUFFICES ASSUME NEW k \in DOMAIN m_header
                 PROVE  m_header[k].req <= Req(fed) + 1 + 1
      BY <2>1
    <3>1. m_header[k].req <= Req(fed) + 1 /\ m_header[k].req \in Nat
      BY <2>2, HeaderTypes DEF HeaderInv
    <3> QED
      BY <1>1, <3>1
  <2>4. Cut(base) = 0 => fed >= base + 6
    <3> SUFFICES ASSUME Cut(base) = 0, ~(fed >= base + 6)
                 PROVE  FALSE
      OBVIOUS
    <3>1. Cut(fed) = fed - base
      BY <1>1, Near
    <3> QED
      BY <1>1, <2>1, <3>1
  <2> QED
    BY <2>1, <2>2, <2>3, <2>4 DEF HeaderInv
<1>6. ASSUME NEW to, CallbackThrows(to)
      PROVE  HeaderInv'
  <2>1. UNCHANGED <<base, m_header>> /\ parser = "in" /\ parser' = "new" /\ fed' = base
    BY <1>6, ThrowMoves
  <2>2. ~Lost /\ (~Lost' => Cut(base) = 0)
    BY <2>1 DEF Lost
  <2>3. ~(fed' >= base' + 6)
    BY <1>1, <2>1
  <2> QED
    BY <2>1, <2>2, <2>3 DEF HeaderInv
<1> QED
  BY <1>0, <1>2, <1>3, <1>4, <1>5, <1>6, Steps

LEMMA Completes ==
  ASSUME PlaceInv, DataInv, NEW to, on_message_complete(to) \/ CallbackThrows(to)
  PROVE  /\ parser = "in" /\ Cut(fed) = 9 /\ Req(fed) + 1 \in Reqs
         /\ UNCHANGED <<m_method, m_header, m_body>>
         /\ \E how \in {"now", "later", "default", "throw"} :
              handed' = Append(handed, Given(Req(fed) + 1, how)) /\ Given(Req(fed) + 1, how) \in Handed
<1>1. CASE on_message_complete(to)
  <2>1. PICK how \in {"now", "later", "default"} :
          handed' = Append(handed, Given(Req(fed) + 1, how)) /\ Given(Req(fed) + 1, how) \in Handed
    BY <1>1, CompleteMoves
  <2> QED
    BY <1>1, <2>1, CompleteMoves
<1>2. CASE CallbackThrows(to)
  BY <1>2, ThrowMoves
<1> QED
  BY <1>1, <1>2

\* Steps that call no callback of the router.
LEMMA HandedStays ==
  ASSUME PlaceInv,
         \/ Quiet \/ Drops \/ \E r \in Reqs : Answer(r)
         \/ \E to : \/ Begin(to) \/ on_url(to) \/ on_header_field(to) \/ on_header_value(to)
                    \/ on_body(to)
  PROVE  handed' = handed
<1>0. CASE Drops
  BY <1>0, DropMoves
<1>1. CASE Quiet \/ \E r \in Reqs : Answer(r)
  BY <1>1, Rests
<1>2. ASSUME NEW to, \/ Begin(to) \/ on_url(to) \/ on_header_field(to) \/ on_header_value(to)
                     \/ on_body(to)
      PROVE  handed' = handed
  BY <1>2 DEF Begin, on_url, on_header_field, on_header_value, on_body
<1> QED
  BY <1>0, <1>1, <1>2

LEMMA HandedStep ==
  /\ PlaceInv /\ DataInv /\ UrlInv /\ BodyInv /\ NameInv /\ HeaderInv /\ HandedInv
  /\ [HttpNext]_httpVars
  => HandedInv'
<1> SUFFICES ASSUME PlaceInv, DataInv, UrlInv, BodyInv, NameInv, HeaderInv, HandedInv,
                    [HttpNext]_httpVars
             PROVE  HandedInv'
  OBVIOUS
<1>1. CASE handed' = handed
  <2>1. ASSUME NEW i \in DOMAIN handed'
        PROVE  GivenWhole(handed'[i])
    BY <1>1, <2>1 DEF HandedInv
  <2> QED
    BY <2>1 DEF HandedInv, GivenWhole, EndsWith
<1>2. ASSUME NEW to, on_message_complete(to) \/ CallbackThrows(to)
      PROVE  HandedInv'
  <2>1. /\ parser = "in" /\ Cut(fed) = 9
        /\ \E how \in {"now", "later", "default", "throw"} :
             handed' = Append(handed, Given(Req(fed) + 1, how)) /\ Given(Req(fed) + 1, how) \in Handed
    BY <1>2, Completes
  <2>2. PICK r : r = Req(fed) + 1
    OBVIOUS
  <2>3. PICK how \in {"now", "later", "default", "throw"} :
          handed' = Append(handed, Given(r, how)) /\ Given(r, how) \in Handed
    BY <2>1, <2>2
  <2>4. PICK e \in Handed : e = Given(r, how)
    BY <2>3
  <2>5. e.req = r /\ e.url = m_method /\ e.body = m_body /\ e.header = m_header
    BY <2>4 DEF Given
  <2>6. GivenWhole(e)
    <3>1. EndsWith(e.url, <<Path[e.req], 1>>, <<Path[e.req], 2>>)
      BY <2>1, <2>2, <2>5 DEF UrlInv
    <3>2. EndsWith(e.body, <<e.req, 1>>, <<e.req, 2>>)
      BY <2>1, <2>2, <2>5 DEF BodyInv
    <3>3. {Name, <<2>>} \cap DOMAIN e.header # {}
      BY <2>1, <2>5 DEF NameInv
    <3>4. ~Lost
      BY <2>1 DEF Lost
    <3>5. \A k \in DOMAIN e.header :
            e.header[k].req <= e.req /\ (e.header[k].halves = <<2>> <=> k = <<>>)
      BY <2>2, <2>5, <3>4 DEF HeaderInv
    <3> QED
      BY <3>1, <3>2, <3>3, <3>5 DEF GivenWhole
  <2>7. /\ DOMAIN handed = 1 .. Len(handed) /\ DOMAIN handed' = 1 .. Len(handed) + 1
        /\ handed'[Len(handed) + 1] = e /\ Len(handed) \in Nat
        /\ \A i \in DOMAIN handed : handed'[i] = handed[i]
    BY <2>3, <2>4, HandedMore
  <2>8. ASSUME NEW i \in DOMAIN handed'
        PROVE  GivenWhole(handed'[i])
    <3>1. i \in DOMAIN handed \/ i = Len(handed) + 1
      BY <2>7
    <3> QED
      BY <2>6, <2>7, <3>1 DEF HandedInv
  <2> QED
    BY <2>8 DEF HandedInv, GivenWhole, EndsWith
<1> QED
  BY <1>1, <1>2, HandedStays, Steps

-----------------------------------------------------------------------------
(* While no callback throws *)

\* A parser that is not lost finds the begin of a request where it expects one.
LEMMA NotLost ==
  ASSUME PlaceInv, ~Lost, Quiet \/ \E r \in Reqs : Answer(r)
  PROVE  parser' = parser /\ fed' = fed /\ ~Lost'
<1>1. ~ParseError
  <2> SUFFICES ASSUME ParseError
               PROVE  FALSE
    OBVIOUS
  <2>1. parser = "new" /\ Unit(fed + 1).part # "begin" /\ fed \in Nat
    BY Places DEF ParseError
  <2>2. Cut(fed) # 0
    BY <2>1, UnitIs
  <2> QED
    BY <2>1, <2>2 DEF Lost
<1>2. CASE UnitsArrive \/ HangsUp \/ recv \/ UNCHANGED httpVars
  BY <1>2 DEF UnitsArrive, HangsUp, recv, httpVars, Lost
<1>3. CASE DispatchReturns /\ parser # "upgrade"
  BY <1>3 DEF DispatchReturns, Lost
<1>4. CASE \E r \in Reqs : Answer(r)
  <2>1. parser' = parser /\ fed' = fed
    BY <1>4, AnswerMoves
  <2> QED
    BY <2>1 DEF Lost
<1> QED
  BY <1>1, <1>2, <1>3, <1>4 DEF Quiet

LEMMA UrlGrows ==
  ASSUME PlaceInv, DataInv, NEW n \in Nat, Len(m_method) = n + UrlLen(fed), NEW to,
         \/ Begin(to) \/ on_url(to) \/ on_header_field(to) \/ on_header_value(to) \/ on_body(to)
  PROVE  Len(m_method') = n + UrlLen(fed') /\ Req(fed') = Req(fed)
<1>1. fed \in Nat /\ Req(fed) \in Nat
  BY Places, Positions
<1>2. CASE on_url(to)
  <2>1. PICK a \in UrlPieces, b \in UrlPieces :
          a = <<Path[Req(fed) + 1], 1>> /\ b = <<Path[Req(fed) + 1], 2>>
    BY <1>2, UrlMoves, UrlPiece
  <2>2. m_method \in Seq(UrlPieces) /\ fed' = to /\ Req(fed') = Req(fed)
    BY <1>2, UrlMoves DEF DataInv
  <2>3. CASE Cut(fed) = 1 /\ Cut(to) = 3 /\ m_method' = m_method \o <<a, b>>
    <3>1. Len(m_method') = Len(m_method) + 2
      BY <2>2, <2>3, TwoMore
    <3> QED
      BY <1>1, <2>2, <2>3, <3>1 DEF UrlLen
  <2>4. CASE Cut(fed) = 1 /\ Cut(to) = 2 /\ m_method' = m_method \o <<a>>
    <3>1. Len(m_method') = Len(m_method) + 1
      BY <2>2, <2>4, OneMore
    <3> QED
      BY <1>1, <2>2, <2>4, <3>1 DEF UrlLen
  <2>5. CASE Cut(fed) = 2 /\ Cut(to) = 3 /\ m_method' = m_method \o <<b>>
    <3>1. Len(m_method') = Len(m_method) + 1
      BY <2>2, <2>5, OneMore
    <3> QED
      BY <1>1, <2>2, <2>5, <3>1 DEF UrlLen
  <2> QED
    BY <1>2, <2>1, <2>3, <2>4, <2>5, UrlMoves
<1>3. CASE Begin(to)
  <2>1. m_method' = m_method /\ Cut(fed) = 0 /\ Cut(fed') = 1 /\ Req(fed') = Req(fed)
    BY <1>3, AtBegin DEF Begin, m_request
  <2> QED
    BY <1>1, <2>1 DEF UrlLen
<1>4. CASE on_header_field(to) \/ on_header_value(to) \/ on_body(to)
  <2>1. m_method' = m_method
    BY <1>4 DEF on_header_field, on_header_value, on_body
  <2>2. Cut(fed) \in 3 .. 9 /\ Req(fed') = Req(fed) /\ Cut(fed') \in 3 .. 9
    <3>1. CASE on_header_field(to)
      BY <3>1, FieldMoves
    <3>2. CASE on_header_value(to)
      BY <3>2, ValueMoves
    <3>3. CASE on_body(to)
      BY <3>3, BodyMoves
    <3> QED
      BY <1>4, <3>1, <3>2, <3>3
  <2> QED
    BY <1>1, <2>1, <2>2 DEF UrlLen
<1> QED
  BY <1>2, <1>3, <1>4

LEMMA BodyGrows ==
  ASSUME PlaceInv, DataInv, NEW n \in Nat, Len(m_body) = n + BodyLen(fed), NEW to,
         \/ Begin(to) \/ on_url(to) \/ on_header_field(to) \/ on_header_value(to) \/ on_body(to)
  PROVE  Len(m_body') = n + BodyLen(fed')
<1>1. fed \in Nat /\ Req(fed) \in Nat
  BY Places, Positions
<1>2. CASE on_body(to)
  <2>1. PICK a \in BodyPieces, b \in BodyPieces : a = <<Req(fed) + 1, 1>> /\ b = <<Req(fed) + 1, 2>>
    <3>1. PICK q \in Reqs : q = Req(fed) + 1
      BY <1>2, BodyMoves
    <3>2. <<q, 1>> \in BodyPieces /\ <<q, 2>> \in BodyPieces
      BY DEF BodyPieces
    <3> QED
      BY <3>1, <3>2
  <2>2. m_body \in Seq(BodyPieces) /\ fed' = to /\ Req(fed') = Req(fed)
    BY <1>2, BodyMoves DEF DataInv
  <2>3. CASE Cut(fed) = 7 /\ Cut(to) = 9 /\ m_body' = m_body \o <<a, b>>
    <3>1. Len(m_body') = Len(m_body) + 2
      BY <2>2, <2>3, TwoMore
    <3> QED
      BY <1>1, <2>2, <2>3, <3>1 DEF BodyLen
  <2>4. CASE Cut(fed) = 7 /\ Cut(to) = 8 /\ m_body' = m_body \o <<a>>
    <3>1. Len(m_body') = Len(m_body) + 1
      BY <2>2, <2>4, OneMore
    <3> QED
      BY <1>1, <2>2, <2>4, <3>1 DEF BodyLen
  <2>5. CASE Cut(fed) = 8 /\ Cut(to) = 9 /\ m_body' = m_body \o <<b>>
    <3>1. Len(m_body') = Len(m_body) + 1
      BY <2>2, <2>5, OneMore
    <3> QED
      BY <1>1, <2>2, <2>5, <3>1 DEF BodyLen
  <2> QED
    BY <1>2, <2>1, <2>3, <2>4, <2>5, BodyMoves
<1>3. CASE Begin(to) \/ on_url(to) \/ on_header_field(to) \/ on_header_value(to)
  <2>1. m_body' = m_body
    BY <1>3 DEF Begin, on_url, on_header_field, on_header_value, m_request
  <2>2. Cut(fed) \in 0 .. 7 /\ Req(fed') = Req(fed) /\ Cut(fed') \in 0 .. 7
    <3>1. CASE Begin(to)
      BY <3>1, AtBegin DEF Begin
    <3>2. CASE on_url(to)
      BY <3>2, UrlMoves
    <3>3. CASE on_header_field(to)
      BY <3>3, FieldMoves
    <3>4. CASE on_header_value(to)
      BY <3>4, ValueMoves
    <3> QED
      BY <1>3, <3>1, <3>2, <3>3, <3>4
  <2> QED
    BY <1>1, <2>1, <2>2 DEF BodyLen
<1> QED
  BY <1>2, <1>3

LEMMA HandedReqs ==
  ASSUME DataInv
  PROVE  \A i \in DOMAIN handed : handed[i].req \in Reqs
<1>1. \A i \in DOMAIN handed : handed[i] \in Handed
  BY DEF DataInv
<1> QED
  BY <1>1 DEF Handed

\* One more call of a callback, for a request behind all those that were handed over.
LEMMA NextInTurn ==
  ASSUME DataInv, NEW e \in Handed, handed' = Append(handed, e),
         e.req = Req(fed) + 1, Req(fed) \in Nat, Req(fed') = Req(fed) + 1,
         Len(e.url) = 2 * (Len(handed) + 1), Len(e.body) = 2 * (Len(handed) + 1),
         ~Upgraded => Len(handed) = Req(fed),
         \A i \in DOMAIN handed : handed[i].req <= Req(fed) /\ InTurn(i)
  PROVE  \A i \in DOMAIN handed' : handed'[i].req <= Req(fed') /\ InTurn(i)'
<1>1. /\ Len(handed) \in Nat /\ DOMAIN handed = 1 .. Len(handed)
      /\ DOMAIN handed' = 1 .. Len(handed) + 1 /\ handed'[Len(handed) + 1] = e
      /\ \A i \in DOMAIN handed : handed'[i] = handed[i]
  BY HandedMore
<1>2. \A i \in DOMAIN handed : handed[i].req \in Nat
  <2>1. \A i \in DOMAIN handed : handed[i].req \in Reqs
    BY HandedReqs
  <2> QED
    BY <2>1, HttpAssumption DEF Reqs
<1>3. ASSUME NEW i \in DOMAIN handed
      PROVE  handed'[i].req <= Req(fed') /\ InTurn(i)'
  <2>1. handed'[i] = handed[i] /\ \A j \in 1 .. i - 1 : handed'[j] = handed[j]
    BY <1>1
  <2>2. handed'[i].req <= Req(fed')
    BY <1>2, <2>1
  <2>3. InTurn(i)
    OBVIOUS
  <2> QED
    BY <2>1, <2>2, <2>3 DEF InTurn
<1>4. ASSUME NEW i, i = Len(handed) + 1
      PROVE  handed'[i].req <= Req(fed') /\ InTurn(i)'
  <2>1. handed'[i] = e /\ \A j \in 1 .. i - 1 : j \in DOMAIN handed /\ handed'[j] = handed[j]
    BY <1>1, <1>4
  <2>2. \A j \in 1 .. i - 1 : handed'[j].req < handed'[i].req
    BY <1>2, <2>1
  <2>3. (\A j \in 1 .. i - 1 : handed'[j].req \notin Upgrades) => handed'[i].req = i
    <3>1. DOMAIN handed = 1 .. i - 1
      BY <1>1, <1>4
    <3>2. (\A j \in 1 .. i - 1 : handed'[j].req \notin Upgrades) => ~Upgraded
      BY <2>1, <3>1 DEF Upgraded
    <3> QED
      BY <1>4, <2>1, <3>2
  <2>4. Len(handed'[i].url) = 2 * i /\ Len(handed'[i].body) = 2 * i
    BY <1>4, <2>1
  <2>5. handed'[i].req <= Req(fed')
    BY <2>1
  <2> QED
    BY <2>2, <2>3, <2>4, <2>5 DEF InTurn
<1> QED
  BY <1>1, <1>3, <1>4

LEMMA CountStep == PlaceInv /\ DataInv /\ UpgradeInv /\ CountInv /\ [HttpNext]_httpVars => CountInv'
<1> SUFFICES ASSUME PlaceInv, DataInv, UpgradeInv, CountInv, [HttpNext]_httpVars, ~Threw'
             PROVE  CountInv'
  BY DEF CountInv
<1>0. /\ Req(fed) \in Nat /\ Len(handed) \in Nat /\ 2 * Len(handed) \in Nat
      /\ \A i \in DOMAIN handed : handed[i].req \in Nat
  <2>1. \A i \in DOMAIN handed : handed[i].req \in Nat
    BY HandedReqs, HttpAssumption DEF Reqs
  <2>2. Len(handed) \in Nat
    BY DEF DataInv
  <2>3. Req(fed) \in Nat
    BY Places, Positions
  <2> QED
    BY <2>1, <2>2, <2>3
<1>1. ASSUME handed' = handed, Req(fed) <= Req(fed'), Req(fed') \in Nat, ~Threw
      PROVE  /\ Upgraded' = Upgraded
             /\ \A i \in DOMAIN handed' : handed'[i].req <= Req(fed') /\ InTurn(i)'
  <2>1. Upgraded' = Upgraded
    BY <1>1 DEF Upgraded
  <2>2. ASSUME NEW i \in DOMAIN handed
        PROVE  handed'[i].req <= Req(fed') /\ InTurn(i)'
    <3>1. handed[i].req <= Req(fed) /\ InTurn(i)
      BY <1>1 DEF CountInv
    <3>2. handed'[i].req <= Req(fed')
      BY <1>0, <1>1, <3>1
    <3> QED
      BY <1>1, <3>1, <3>2 DEF InTurn
  <2> QED
    BY <1>1, <2>1, <2>2
<1>2. CASE Drops
  <2>1. /\ UNCHANGED <<m_method, m_body, handed>> /\ parser = "upgrade" /\ ~Lost /\ Cut(fed) = 0
        /\ parser' = "new" /\ fed' \in Nat /\ Req(fed) <= Req(fed') /\ Req(fed') \in Nat
    BY <1>2, DropMoves, Positions DEF Drops
  <2>2. ~Threw
    BY <2>1 DEF Threw
  <2>3. Upgraded /\ Upgraded'
    BY <1>1, <2>1, <2>2 DEF UpgradeInv
  <2>4. ~Lost' => UrlLen(fed') = UrlLen(fed) /\ BodyLen(fed') = BodyLen(fed)
    BY <2>1 DEF Lost, UrlLen, BodyLen
  <2> QED
    BY <1>1, <2>1, <2>2, <2>3, <2>4 DEF CountInv
<1>3. CASE Quiet \/ \E r \in Reqs : Answer(r)
  <2>1. /\ UNCHANGED <<m_method, m_body, handed>> /\ ~Threw /\ (Lost => Lost')
        /\ Req(fed) <= Req(fed') /\ Req(fed') \in Nat
    BY <1>3, Rests DEF Threw
  <2>2. ~Lost => fed' = fed /\ ~Lost'
    BY <1>3, NotLost
  <2> QED
    BY <1>1, <2>1, <2>2 DEF CountInv
<1>4. ASSUME NEW to, \/ Begin(to) \/ on_url(to) \/ on_header_field(to) \/ on_header_value(to)
                     \/ on_body(to)
      PROVE  CountInv'
  <2>1. handed' = handed
    BY <1>4, HandedStays
  <2>2. ~Threw
    BY <2>1 DEF Threw
  <2>3. ~Lost
    <3>1. CASE Begin(to)
      BY <3>1, AtBegin DEF Begin, Lost
    <3>2. CASE ~Begin(to)
      BY <1>4, <3>2 DEF on_url, on_header_field, on_header_value, on_body, Lost
    <3> QED
      BY <3>1, <3>2
  <2>4. ~Lost'
    BY <1>4 DEF Begin, on_url, on_header_field, on_header_value, on_body, Lost
  <2>5. /\ Len(m_method) = 2 * Len(handed) + UrlLen(fed)
        /\ Len(m_body) = 2 * Len(handed) + BodyLen(fed)
    BY <2>2, <2>3 DEF CountInv
  <2>6. Len(m_method') = 2 * Len(handed) + UrlLen(fed') /\ Req(fed') = Req(fed)
    BY <1>0, <1>4, <2>5, UrlGrows
  <2>7. Len(m_body') = 2 * Len(handed) + BodyLen(fed')
    BY <1>0, <1>4, <2>5, BodyGrows
  <2>8. Req(fed) <= Req(fed') /\ Req(fed') \in Nat
    BY <1>0, <2>6
  <2> QED
    BY <1>1, <2>1, <2>2, <2>4, <2>6, <2>7, <2>8 DEF CountInv
<1>5. ASSUME NEW to, on_message_complete(to)
      PROVE  CountInv'
  <2>1. /\ parser = "in" /\ parser' \in {"new", "upgrade"} /\ Cut(fed) = 9 /\ Cut(fed') = 0
        /\ Req(fed') = Req(fed) + 1 /\ UNCHANGED <<m_method, m_body>>
    BY <1>5, CompleteMoves
  <2>2. PICK r : r = Req(fed) + 1
    OBVIOUS
  <2>3. PICK how \in {"now", "later", "default"} :
          handed' = Append(handed, Given(r, how)) /\ Given(r, how) \in Handed
    BY <1>5, <2>2, CompleteMoves
  <2>4. PICK e \in Handed : e = Given(r, how)
    BY <2>3
  <2>5. e.req = r /\ e.url = m_method /\ e.body = m_body
    BY <2>4 DEF Given
  <2>6. /\ handed' = Append(handed, e) /\ Len(handed') = Len(handed) + 1 /\ ~Threw
        /\ DOMAIN handed \subseteq DOMAIN handed' /\ \A i \in DOMAIN handed : handed'[i] = handed[i]
    BY <2>3, <2>4, HandedMore
  <2>7. ~Lost /\ ~Lost'
    BY <2>1 DEF Lost
  <2>8. /\ Len(m_method) = 2 * Len(handed) + 2 /\ Len(m_body) = 2 * Len(handed) + 2
        /\ UrlLen(fed') = 0 /\ BodyLen(fed') = 0
    BY <2>1, <2>6, <2>7 DEF CountInv, UrlLen, BodyLen
  <2>9. Len(e.url) = 2 * (Len(handed) + 1) /\ Len(e.body) = 2 * (Len(handed) + 1)
    BY <1>0, <2>5, <2>8
  <2>10. /\ ~Upgraded => Len(handed) = Req(fed)
         /\ \A i \in DOMAIN handed : handed[i].req <= Req(fed) /\ InTurn(i)
    BY <2>6 DEF CountInv
  <2>11. \A i \in DOMAIN handed' : handed'[i].req <= Req(fed') /\ InTurn(i)'
    BY <1>0, <2>1, <2>2, <2>5, <2>6, <2>9, <2>10, NextInTurn
  <2>12. ~Upgraded' => Len(handed') = Req(fed')
    <3>1. Upgraded => Upgraded'
      BY <2>6 DEF Upgraded
    <3> QED
      BY <2>1, <2>6, <2>10, <3>1
  <2>13. /\ Len(m_method') = 2 * Len(handed') + UrlLen(fed')
         /\ Len(m_body') = 2 * Len(handed') + BodyLen(fed')
    BY <1>0, <2>1, <2>6, <2>8
  <2> QED
    BY <2>7, <2>11, <2>12, <2>13 DEF CountInv
<1>6. ASSUME NEW to, CallbackThrows(to)
      PROVE  FALSE
  <2>1. PICK e : handed' = Append(handed, e) /\ e \in Handed /\ e.how = "throw"
    BY <1>6, ThrowMoves DEF Given
  <2> QED
    BY <2>1, HandedMore
<1> QED
  BY <1>2, <1>3, <1>4, <1>5, <1>6, Steps

LEMMA UpgradeStep == PlaceInv /\ DataInv /\ UpgradeInv /\ [HttpNext]_httpVars => UpgradeInv'
<1> SUFFICES ASSUME PlaceInv, DataInv, UpgradeInv, [HttpNext]_httpVars, parser' = "upgrade"
             PROVE  Upgraded'
  BY DEF UpgradeInv
<1>1. CASE Drops
  BY <1>1, DropMoves
<1>2. CASE Quiet \/ \E r \in Reqs : Answer(r)
  BY <1>2, Rests DEF UpgradeInv, Upgraded
<1>3. ASSUME NEW to, \/ Begin(to) \/ on_url(to) \/ on_header_field(to) \/ on_header_value(to)
                     \/ on_body(to) \/ CallbackThrows(to)
      PROVE  FALSE
  BY <1>3 DEF Begin, on_url, on_header_field, on_header_value, on_body, CallbackThrows
<1>4. ASSUME NEW to, on_message_complete(to)
      PROVE  Upgraded'
  <2>1. Req(fed) + 1 \in Upgrades
    BY <1>4, CompleteMoves
  <2>2. PICK e \in Handed : handed' = Append(handed, e) /\ e.req = Req(fed) + 1
    BY <1>4, CompleteMoves DEF Given
  <2>3. Len(handed) + 1 \in DOMAIN handed' /\ handed'[Len(handed) + 1] = e
    BY <2>2, HandedMore
  <2> QED
    BY <2>1, <2>2, <2>3 DEF Upgraded
<1> QED
  BY <1>1, <1>2, <1>3, <1>4, Steps

-----------------------------------------------------------------------------
(* Answers *)

\* One more answer, or the head of one.
LEMMA WireMore ==
  ASSUME DataInv, PairInv, conn = "open", NEW r \in Reqs, NEW h \in Heads, h.req = r,
         \/ wire' = wire \o <<h, [req |-> r, size |-> h.length]>>
         \/ wire' = wire \o <<h>>
  PROVE  \E n \in Nat, m \in Nat :
           /\ \/ m = 2 * n + 1 /\ wire' = wire \o <<h>>
              \/ /\ m = 2 * n + 2 /\ wire' = wire \o <<h, [req |-> r, size |-> h.length]>>
                 /\ wire'[m] = [req |-> r, size |-> h.length]
           /\ DOMAIN wire = 1 .. 2 * n /\ DOMAIN wire' = 1 .. m
           /\ Len(wire) = 2 * n /\ Len(wire') = m
           /\ \A i \in DOMAIN wire : wire'[i] = wire[i]
           /\ wire'[2 * n + 1] = h
           /\ [req |-> r, size |-> h.length] \in Texts
<1>1. PICK n \in Nat : Len(wire) = 2 * n
  BY DEF PairInv
<1>2. PICK x : x = [req |-> r, size |-> h.length]
  OBVIOUS
<1>3. x \in Texts
  BY <1>2 DEF Heads, Texts
<1>4. wire \in Seq(Heads \cup Texts) /\ h \in Heads \cup Texts /\ x \in Heads \cup Texts
  BY <1>3 DEF DataInv
<1>5. DOMAIN wire = 1 .. 2 * n /\ 2 * n + 1 \in Nat /\ 2 * n + 2 \in Nat
  BY <1>1, <1>4
<1>6. CASE wire' = wire \o <<h, x>>
  <2>1. /\ wire' \in Seq(Heads \cup Texts) /\ Len(wire') = Len(wire) + 2
        /\ wire'[Len(wire) + 1] = h /\ wire'[Len(wire) + 2] = x
        /\ \A i \in 1 .. Len(wire) : wire'[i] = wire[i]
    BY <1>4, <1>6, TwoMore
  <2>2. DOMAIN wire' = 1 .. 2 * n + 2 /\ Len(wire') = 2 * n + 2
    BY <1>1, <2>1
  <2> QED
    BY <1>1, <1>2, <1>3, <1>5, <1>6, <2>1, <2>2
<1>7. CASE wire' = wire \o <<h>>
  <2>1. /\ wire' \in Seq(Heads \cup Texts) /\ Len(wire') = Len(wire) + 1
        /\ wire'[Len(wire) + 1] = h
        /\ \A i \in 1 .. Len(wire) : wire'[i] = wire[i]
    BY <1>4, <1>7, OneMore
  <2>2. DOMAIN wire' = 1 .. 2 * n + 1 /\ Len(wire') = 2 * n + 1
    BY <1>1, <2>1
  <2> QED
    BY <1>1, <1>2, <1>3, <1>5, <1>7, <2>1, <2>2
<1> QED
  BY <1>2, <1>6, <1>7

LEMMA WireStays ==
  ASSUME PlaceInv, DataInv,
         \/ Quiet \/ Drops
         \/ \E to : \/ Begin(to) \/ on_url(to) \/ on_header_field(to) \/ on_header_value(to)
                    \/ on_body(to)
  PROVE  /\ UNCHANGED <<handed, later, wire>> /\ (conn' = conn \/ conn' # "open")
         /\ Req(fed) <= Req(fed') /\ Req(fed') \in Nat
<1>1. CASE Quiet \/ Drops
  BY <1>1, QuietMoves, DropMoves, Positions
<1>2. ASSUME NEW to, \/ Begin(to) \/ on_url(to) \/ on_header_field(to) \/ on_header_value(to)
                     \/ on_body(to)
      PROVE  /\ UNCHANGED <<handed, later, wire, conn>>
             /\ Req(fed) <= Req(fed') /\ Req(fed') \in Nat
  <2>1. UNCHANGED <<handed, later, wire, conn>>
    BY <1>2 DEF Begin, on_url, on_header_field, on_header_value, on_body, At
  <2>2. fed \in Nat /\ Req(fed) \in Nat
    BY Places, Positions
  <2>3. Req(fed') = Req(fed)
    <3>1. CASE Begin(to)
      BY <3>1, AtBegin DEF Begin
    <3>2. CASE on_url(to)
      BY <3>2, UrlMoves
    <3>3. CASE on_header_field(to)
      BY <3>3, FieldMoves
    <3>4. CASE on_header_value(to)
      BY <3>4, ValueMoves
    <3>5. CASE on_body(to)
      BY <3>5, BodyMoves
    <3> QED
      BY <1>2, <3>1, <3>2, <3>3, <3>4, <3>5
  <2> QED
    BY <2>1, <2>2, <2>3
<1> QED
  BY <1>1, <1>2

LEMMA PairStep == PlaceInv /\ DataInv /\ PairInv /\ [HttpNext]_httpVars => PairInv'
<1> SUFFICES ASSUME PlaceInv, DataInv, PairInv, [HttpNext]_httpVars
             PROVE  PairInv'
  OBVIOUS
<1>1. CASE wire' = wire /\ (conn' = conn \/ conn' # "open")
  BY <1>1 DEF PairInv
<1>2. ASSUME NEW r \in Reqs, NEW h \in Heads, h.req = r, conn = "open",
             \/ wire' = wire \o <<h, [req |-> r, size |-> h.length]>> /\ conn' = conn
             \/ wire' = wire \o <<h>> /\ conn' # "open"
      PROVE  PairInv'
  <2>1. PICK n \in Nat, m \in Nat :
          /\ \/ m = 2 * n + 1 /\ wire' = wire \o <<h>>
             \/ /\ m = 2 * n + 2 /\ wire' = wire \o <<h, [req |-> r, size |-> h.length]>>
                /\ wire'[m] = [req |-> r, size |-> h.length]
          /\ DOMAIN wire = 1 .. 2 * n /\ DOMAIN wire' = 1 .. m
          /\ Len(wire) = 2 * n /\ Len(wire') = m
          /\ \A i \in DOMAIN wire : wire'[i] = wire[i]
          /\ wire'[2 * n + 1] = h
          /\ [req |-> r, size |-> h.length] \in Texts
    BY <1>2, WireMore
  <2>2. m = 2 * n + 1 => conn' # "open"
    <3>1. wire' = wire \o <<h>> => Len(wire') = Len(wire) + 1
      <4>1. wire \in Seq(Heads \cup Texts)
        BY DEF DataInv
      <4> QED
        BY <4>1
    <3>2. CASE wire' = wire \o <<h, [req |-> r, size |-> h.length]>>
      <4>1. wire \in Seq(Heads \cup Texts) /\ h \in Heads \cup Texts
            /\ [req |-> r, size |-> h.length] \in Heads \cup Texts
        BY <2>1 DEF DataInv
      <4>2. Len(wire') = Len(wire) + 2
        BY <3>2, <4>1, TwoMore
      <4>3. m = 2 * n + 2
        <5>1. m = Len(wire') /\ 2 * n = Len(wire)
          BY <2>1
        <5> QED
          BY <4>2, <5>1
      <4> QED
        BY <4>3
    <3> QED
      BY <1>2, <3>2
  <2>3. ASSUME NEW i \in DOMAIN wire'
        PROVE  IF i % 2 = 1
                 THEN /\ wire'[i] \in Heads
                      /\ IF i = Len(wire') THEN conn' # "open"
                         ELSE wire'[i + 1] = [req |-> wire'[i].req, size |-> wire'[i].length]
                 ELSE wire'[i] \in Texts
    <3>1. \/ i \in 1 .. 2 * n
          \/ i = 2 * n + 1 /\ i % 2 = 1 /\ i + 1 = 2 * n + 2
          \/ i = 2 * n + 2 /\ i % 2 # 1 /\ m = 2 * n + 2
      <4>1. i \in 1 .. m /\ (m = 2 * n + 1 \/ m = 2 * n + 2)
        BY <2>1
      <4> QED
        BY <4>1
    <3>2. CASE i \in 1 .. 2 * n
      <4>1. i \in DOMAIN wire /\ wire'[i] = wire[i] /\ i # Len(wire')
        BY <2>1, <3>2
      <4>2. i % 2 # 1 => wire[i] \in Texts
        BY <4>1 DEF PairInv
      <4>3. i % 2 = 1 => /\ wire[i] \in Heads /\ i + 1 \in DOMAIN wire
                         /\ wire[i + 1] = [req |-> wire[i].req, size |-> wire[i].length]
        <5> SUFFICES ASSUME i % 2 = 1
                     PROVE  /\ wire[i] \in Heads /\ i + 1 \in DOMAIN wire
                            /\ wire[i + 1] = [req |-> wire[i].req, size |-> wire[i].length]
          OBVIOUS
        <5>1. i \in DOMAIN wire /\ i # Len(wire) /\ i + 1 \in DOMAIN wire
          <6>1. i \in 1 .. 2 * n - 1
            BY <3>2
          <6>2. DOMAIN wire = 1 .. 2 * n /\ Len(wire) = 2 * n
            BY <2>1
          <6> QED
            BY <6>1, <6>2
        <5>2. IF i % 2 = 1
                THEN /\ wire[i] \in Heads
                     /\ IF i = Len(wire) THEN conn # "open"
                        ELSE wire[i + 1] = [req |-> wire[i].req, size |-> wire[i].length]
                ELSE wire[i] \in Texts
          BY <5>1 DEF PairInv
        <5> QED
          BY <5>1, <5>2
      <4>4. i + 1 \in DOMAIN wire => wire'[i + 1] = wire[i + 1]
        BY <2>1
      <4> QED
        BY <4>1, <4>2, <4>3, <4>4
    <3>3. CASE i = 2 * n + 1 /\ i % 2 = 1 /\ i + 1 = 2 * n + 2
      <4>1. wire'[i] = h
        BY <2>1, <3>3
      <4>2. CASE m = 2 * n + 1
        BY <2>1, <2>2, <3>3, <4>1, <4>2
      <4>3. CASE m = 2 * n + 2
        <5>1. wire'[i + 1] = [req |-> h.req, size |-> h.length] /\ i # Len(wire')
          BY <1>2, <2>1, <3>3, <4>3
        <5> QED
          BY <3>3, <4>1, <5>1
      <4> QED
        BY <2>1, <4>2, <4>3
    <3>4. CASE i = 2 * n + 2 /\ i % 2 # 1 /\ m = 2 * n + 2
      <4>1. wire'[i] \in Texts
        BY <2>1, <3>4
      <4> QED
        BY <3>4, <4>1
    <3> QED
      BY <3>1, <3>2, <3>3, <3>4
  <2>4. conn' = "open" => \E k \in Nat : Len(wire') = 2 * k
    <3>1. n + 1 \in Nat /\ 2 * (n + 1) = 2 * n + 2
      OBVIOUS
    <3> QED
      BY <2>1, <2>2, <3>1
  <2> QED
    BY <2>3, <2>4 DEF PairInv
<1>3. ASSUME NEW r \in Reqs, Answered(r)
      PROVE  PairInv'
  BY <1>1, <1>2, <1>3 DEF Answered
<1>4. ASSUME NEW to, on_message_complete(to)
      PROVE  PairInv'
  <2>1. PICK r \in Reqs : r = Req(fed) + 1
    BY <1>4, CompleteMoves
  <2>2. Answered(r) \/ (wire' = wire /\ conn' = conn)
    BY <1>4, <2>1, CompleteMoves
  <2> QED
    BY <1>1, <1>3, <2>2
<1>5. ASSUME NEW to, CallbackThrows(to)
      PROVE  PairInv'
  BY <1>1, <1>5, ThrowMoves
<1>6. ASSUME NEW r \in Reqs, Answer(r)
      PROVE  PairInv'
  BY <1>3, <1>6, AnswerMoves
<1> QED
  BY <1>1, <1>4, <1>5, <1>6, WireStays, Steps

LEMMA AnswersStayInOrder ==
  ASSUME DataInv, PairInv, NEW r \in Reqs, Answered(r),
         AnsweredOnce, Waited \subseteq Waited',
         \A i \in DOMAIN wire :
           /\ wire[i].req \in Nat /\ wire[i].req # r
           /\ r < wire[i].req => r \in Waited'
  PROVE  /\ AnsweredOnce'
         /\ \A i \in DOMAIN wire' :
              wire'[i].req = r \/ \E k \in DOMAIN wire : wire'[i].req = wire[k].req
<1>1. CASE wire' = wire
  BY <1>1 DEF AnsweredOnce
<1>2. CASE wire' # wire
  <2>1. PICK h \in Heads :
          /\ h.req = r /\ conn = "open"
          /\ \/ wire' = wire \o <<h, [req |-> r, size |-> h.length]>>
             \/ wire' = wire \o <<h>>
    BY <1>2 DEF Answered
  <2>2. PICK n \in Nat, m \in Nat :
          /\ \/ m = 2 * n + 1 /\ wire' = wire \o <<h>>
             \/ /\ m = 2 * n + 2 /\ wire' = wire \o <<h, [req |-> r, size |-> h.length]>>
                /\ wire'[m] = [req |-> r, size |-> h.length]
          /\ DOMAIN wire = 1 .. 2 * n /\ DOMAIN wire' = 1 .. m
          /\ Len(wire) = 2 * n /\ Len(wire') = m
          /\ \A i \in DOMAIN wire : wire'[i] = wire[i]
          /\ wire'[2 * n + 1] = h
          /\ [req |-> r, size |-> h.length] \in Texts
    BY <2>1, WireMore
  <2>3. /\ \A i \in 1 .. 2 * n : wire'[i].req = wire[i].req
        /\ wire'[2 * n + 1].req = r /\ wire'[m].req = r
    <3>1. [req |-> r, size |-> h.length].req = r
      OBVIOUS
    <3>2. wire'[2 * n + 1].req = r
      BY <2>1, <2>2
    <3>3. wire'[m].req = r
      BY <2>2, <3>1, <3>2
    <3>4. \A i \in 1 .. 2 * n : wire'[i].req = wire[i].req
      BY <2>2
    <3> QED
      BY <3>2, <3>3, <3>4
  <2>4. r \in Nat
    BY HttpAssumption DEF Reqs
  <2>5. \A i \in 1 .. m : i \in 1 .. 2 * n \/ i = 2 * n + 1 \/ i = m
    BY <2>2
  <2>6. ASSUME NEW i \in DOMAIN wire', NEW j \in DOMAIN wire', i < j
        PROVE  /\ i % 2 = 1 /\ j % 2 = 1 => wire'[i].req # wire'[j].req
               /\ wire'[j].req < wire'[i].req => wire'[j].req \in Waited'
    <3>1. CASE j \in 1 .. 2 * n
      <4>1. i \in 1 .. 2 * n
        BY <2>2, <2>6, <3>1
      <4> QED
        BY <2>2, <2>3, <2>6, <3>1, <4>1 DEF AnsweredOnce
    <3>2. CASE j \notin 1 .. 2 * n /\ i \in 1 .. 2 * n
      <4>1. wire'[j].req = r /\ wire'[i].req = wire[i].req
        BY <2>2, <2>3, <2>5, <3>2
      <4> QED
        BY <2>2, <3>2, <4>1
    <3>3. CASE j \notin 1 .. 2 * n /\ i \notin 1 .. 2 * n
      <4>1. i = 2 * n + 1 /\ j = 2 * n + 2 /\ m = 2 * n + 2
        BY <2>2, <2>6, <3>3
      <4>2. j % 2 # 1
        BY <4>1
      <4>3. wire'[i].req = r /\ wire'[j].req = r /\ ~(r < r)
        BY <2>3, <2>4, <4>1
      <4> QED
        BY <4>2, <4>3
    <3> QED
      BY <3>1, <3>2, <3>3
  <2>7. AnsweredOnce'
    BY <2>6 DEF AnsweredOnce
  <2>8. \A i \in DOMAIN wire' :
          wire'[i].req = r \/ \E k \in DOMAIN wire : wire'[i].req = wire[k].req
    BY <2>2, <2>3, <2>5
  <2> QED
    BY <2>7, <2>8
<1> QED
  BY <1>1, <1>2

LEMMA WireStep ==
  PlaceInv /\ DataInv /\ PairInv /\ WireInv /\ [HttpNext]_httpVars => WireInv'
<1> SUFFICES ASSUME PlaceInv, DataInv, PairInv, WireInv, [HttpNext]_httpVars, ~Threw'
             PROVE  WireInv'
  BY DEF WireInv
<1>0. Req(fed) \in Nat
  BY Places, Positions
<1>1. CASE UNCHANGED <<handed, later, wire>> /\ Req(fed) <= Req(fed') /\ Req(fed') \in Nat
  <2>1. ~Threw /\ Waited' = Waited
    BY <1>1 DEF Threw, Waited
  <2>2. 1 .. Req(fed) \subseteq 1 .. Req(fed')
    BY <1>0, <1>1, <2>1
  <2> QED
    BY <1>1, <2>1, <2>2 DEF WireInv, AnsweredOnce
<1>2. ASSUME NEW to, on_message_complete(to)
      PROVE  WireInv'
  <2>1. PICK r \in Reqs : r = Req(fed) + 1 /\ Req(fed') = r
    BY <1>2, CompleteMoves
  <2>2. PICK how \in {"now", "later", "default"} :
          /\ handed' = Append(handed, Given(r, how)) /\ Given(r, how) \in Handed
          /\ \/ how = "later" /\ later' = later \cup {r} /\ wire' = wire
             \/ how # "later" /\ later' = later /\ Answered(r)
    BY <1>2, <2>1, CompleteMoves
  <2>3. PICK e \in Handed : e = Given(r, how)
    BY <2>2
  <2>4. e.req = r /\ e.how = how
    BY <2>3 DEF Given
  <2>5. ~Threw /\ Waited \subseteq Waited' /\ (how = "later" => r \in Waited')
    BY <2>2, <2>3, <2>4, HandedMore
  <2>6. /\ \A i \in DOMAIN wire : wire[i].req \in 1 .. Req(fed) /\ wire[i].req \notin later
        /\ later \subseteq Waited /\ later \subseteq 1 .. Req(fed) /\ AnsweredOnce
    BY <2>5 DEF WireInv, AnsweredOnce
  <2>7. /\ 1 .. Req(fed) \subseteq 1 .. Req(fed') /\ r \in 1 .. Req(fed')
        /\ r \notin 1 .. Req(fed) /\ r \notin later
        /\ \A q \in 1 .. Req(fed) : q \in Nat /\ q # r /\ ~(r < q)
    BY <1>0, <2>1, <2>6
  <2>8. CASE how = "later" /\ later' = later \cup {r} /\ wire' = wire
    <3>1. \A i \in DOMAIN wire' : wire'[i].req \in 1 .. Req(fed') /\ wire'[i].req \notin later'
      BY <2>6, <2>7, <2>8
    <3>2. later' \subseteq Waited' /\ later' \subseteq 1 .. Req(fed')
      BY <2>5, <2>6, <2>7, <2>8
    <3>3. AnsweredOnce'
      BY <2>5, <2>6, <2>8 DEF AnsweredOnce
    <3> QED
      BY <3>1, <3>2, <3>3 DEF WireInv, AnsweredOnce
  <2>9. CASE how # "later" /\ later' = later /\ Answered(r)
    <3>1. \A i \in DOMAIN wire : /\ wire[i].req \in Nat /\ wire[i].req # r
                                 /\ r < wire[i].req => r \in Waited'
      BY <2>6, <2>7
    <3>2. /\ AnsweredOnce'
          /\ \A i \in DOMAIN wire' :
               wire'[i].req = r \/ \E k \in DOMAIN wire : wire'[i].req = wire[k].req
      BY <2>5, <2>6, <2>9, <3>1, AnswersStayInOrder
    <3>3. \A i \in DOMAIN wire' : wire'[i].req \in 1 .. Req(fed') /\ wire'[i].req \notin later'
      BY <2>6, <2>7, <2>9, <3>2
    <3>4. later' \subseteq Waited' /\ later' \subseteq 1 .. Req(fed')
      BY <2>5, <2>6, <2>7, <2>9
    <3> QED
      BY <3>2, <3>3, <3>4 DEF WireInv, AnsweredOnce
  <2> QED
    BY <2>2, <2>8, <2>9
<1>3. ASSUME NEW to, CallbackThrows(to)
      PROVE  FALSE
  <2>1. PICK e : handed' = Append(handed, e) /\ e \in Handed /\ e.how = "throw"
    BY <1>3, ThrowMoves DEF Given
  <2> QED
    BY <2>1, HandedMore
<1>4. ASSUME NEW r \in Reqs, Answer(r)
      PROVE  WireInv'
  <2>1. r \in later /\ later' = later \ {r} /\ handed' = handed /\ fed' = fed /\ Answered(r)
    BY <1>4, AnswerMoves
  <2>2. Threw' = Threw /\ Waited' = Waited
    BY <2>1 DEF Threw, Waited
  <2>3. /\ \A i \in DOMAIN wire : wire[i].req \in 1 .. Req(fed) /\ wire[i].req \notin later
        /\ later \subseteq Waited /\ later \subseteq 1 .. Req(fed) /\ AnsweredOnce
    BY <2>2 DEF WireInv, AnsweredOnce
  <2>4. \A i \in DOMAIN wire : /\ wire[i].req \in Nat /\ wire[i].req # r
                               /\ r < wire[i].req => r \in Waited'
    BY <2>1, <2>2, <2>3
  <2>5. /\ AnsweredOnce'
        /\ \A i \in DOMAIN wire' :
             wire'[i].req = r \/ \E k \in DOMAIN wire : wire'[i].req = wire[k].req
    BY <2>1, <2>2, <2>3, <2>4, AnswersStayInOrder
  <2>6. \A i \in DOMAIN wire' : wire'[i].req \in 1 .. Req(fed') /\ wire'[i].req \notin later'
    BY <2>1, <2>3, <2>5
  <2>7. later' \subseteq Waited' /\ later' \subseteq 1 .. Req(fed')
    BY <2>1, <2>2, <2>3
  <2> QED
    BY <2>5, <2>6, <2>7 DEF WireInv, AnsweredOnce
<1> QED
  BY <1>1, <1>2, <1>3, <1>4, WireStays, Steps

-----------------------------------------------------------------------------
(* The theorems *)

LEMMA HttpInvariance == HttpSpec => []HttpInv
<1>1. HttpInit => HttpInv
  BY InitHttp
<1>2. HttpInv /\ [HttpNext]_httpVars => HttpInv'
  BY DataStep, PlaceStep, UrlStep, BodyStep, NameStep, HeaderStep, HandedStep, UpgradeStep,
     CountStep, ConnStep, PairStep, WireStep DEF HttpInv
<1> QED
  BY <1>1, <1>2, PTL DEF HttpSpec

LEMMA SuffixOf ==
  ASSUME NEW S, NEW s \in Seq(S), NEW a \in S, NEW b \in S, EndsWith(s, a, b)
  PROVE  IsSuffix(<<a, b>>, s)
<1>1. PICK n \in Nat : n = Len(s) /\ n >= 2 /\ s[n - 1] = a /\ s[n] = b
  BY DEF EndsWith
<1>2. Reverse(<<a, b>>) = <<b, a>>
  BY DEF Reverse
<1>3. Reverse(s) = [i \in 1 .. n |-> s[(n - i) + 1]]
  BY <1>1 DEF Reverse
<1>4. PICK u : u = Reverse(s)
  OBVIOUS
<1>5. u \in Seq(S) /\ Len(u) = n /\ u[1] = b /\ u[2] = a
  <2>1. \A i \in 1 .. n : (n - i) + 1 \in 1 .. n
    BY <1>1
  <2>2. \A i \in 1 .. n : s[(n - i) + 1] \in S
    BY <1>1, <2>1
  <2>3. (n - 1) + 1 = n /\ (n - 2) + 1 = n - 1 /\ 1 \in 1 .. n /\ 2 \in 1 .. n
    BY <1>1
  <2>4. u \in Seq(S) /\ Len(u) = n
    BY <1>3, <1>4, <2>2
  <2> QED
    BY <1>1, <1>3, <1>4, <2>3, <2>4
<1>6. ASSUME NEW w \in Seq(S), Len(w) >= 2, w[1] = b, w[2] = a
      PROVE  SubSeq(w, 1, 2) = <<b, a>>
  <2>1. SubSeq(w, 1, 2) = [i \in 1 .. 2 |-> w[i]]
    BY <1>6
  <2>2. [i \in 1 .. 2 |-> w[i]] = <<w[1], w[2]>>
    OBVIOUS
  <2>3. <<w[1], w[2]>> = <<b, a>>
    BY <1>6
  <2> QED
    BY <2>1, <2>2, <2>3
<1>7. /\ Len(<<b, a>>) = 2 /\ Len(u) >= 2
      /\ SubSeq(u, 1, 2) = <<b, a>> /\ SubSeq(<<b, a>>, 1, 2) = <<b, a>>
  <2>1. PICK v : v = <<b, a>>
    OBVIOUS
  <2>2. v \in Seq(S) /\ Len(v) = 2 /\ Len(v) >= 2 /\ v[1] = b /\ v[2] = a
    BY <2>1
  <2>3. SubSeq(v, 1, 2) = <<b, a>>
    BY <1>6, <2>2
  <2>4. Len(u) >= 2
    BY <1>1, <1>5
  <2>5. SubSeq(u, 1, 2) = <<b, a>>
    BY <1>5, <1>6, <2>4
  <2> QED
    BY <2>1, <2>2, <2>3, <2>4, <2>5
<1> QED
  BY <1>2, <1>4, <1>7 DEF IsSuffix, IsPrefix

LEMMA WholeSuffices ==
  ASSUME DataInv, HandedInv, NEW i \in DOMAIN handed
  PROVE  /\ IsSuffix(Url(handed[i].req), handed[i].url)
         /\ IsSuffix(Of(handed[i].req), handed[i].body)
         /\ {Name, <<2>>} \cap DOMAIN handed[i].header # {}
         /\ \A k \in DOMAIN handed[i].header :
              /\ handed[i].header[k].req <= handed[i].req
              /\ handed[i].header[k].halves = <<2>> <=> k = <<>>
<1>1. PICK h \in Handed : h = handed[i]
  BY DEF DataInv
<1>2. GivenWhole(h)
  BY <1>1 DEF HandedInv
<1>3. h.req \in Reqs /\ h.url \in Seq(UrlPieces) /\ h.body \in Seq(BodyPieces)
  BY DEF Handed
<1>4. IsSuffix(Url(h.req), h.url)
  <2>1. PICK a \in UrlPieces, b \in UrlPieces : a = <<Path[h.req], 1>> /\ b = <<Path[h.req], 2>>
    BY <1>3, UrlPiece
  <2>2. IsSuffix(<<a, b>>, h.url)
    BY <1>2, <1>3, <2>1, SuffixOf DEF GivenWhole
  <2> QED
    BY <2>1, <2>2 DEF Url
<1>5. IsSuffix(Of(h.req), h.body)
  <2>1. PICK a \in BodyPieces, b \in BodyPieces : a = <<h.req, 1>> /\ b = <<h.req, 2>>
    BY <1>3 DEF BodyPieces
  <2>2. IsSuffix(<<a, b>>, h.body)
    BY <1>2, <1>3, <2>1, SuffixOf DEF GivenWhole
  <2> QED
    BY <2>1, <2>2 DEF Of
<1> QED
  BY <1>1, <1>2, <1>4, <1>5 DEF GivenWhole

LEMMA HttpTypes == DataInv /\ PlaceInv /\ ConnInv => HttpTypeOK
<1> SUFFICES ASSUME DataInv, PlaceInv, ConnInv
             PROVE  HttpTypeOK
  OBVIOUS
<1>1. \A k \in DOMAIN m_header : k \in Seq({1, 2})
  <2>1. Names \subseteq Seq({1, 2})
    BY DEF Names
  <2> QED
    BY <2>1, HeaderTypes
<1>2. ASSUME NEW i \in DOMAIN handed
      PROVE  handed[i].req \in Reqs
  <2>1. handed[i] \in Handed
    BY DEF DataInv
  <2> QED
    BY <2>1 DEF Handed
<1> QED
  BY <1>1, <1>2 DEF HttpTypeOK, DataInv, PlaceInv, ConnInv

\* Whatever the cuts of the stream, and however many requests are sent: every
\* callback of the router is given the whole path and the whole body of its
\* request, once, a header of it or of an earlier one, and nothing of a request
\* to come; and while no callback throws, in the order of the requests, without a
\* gap before one that asks for another protocol, each with what m_request has
\* kept of those before it.
THEOREM RequestsHandedWhole == HttpSpec => []HandedWhole
<1>1. HttpInv => HandedWhole
  <2> SUFFICES ASSUME HttpInv
               PROVE  HandedWhole
    OBVIOUS
  <2>1. HttpTypeOK
    BY HttpTypes DEF HttpInv
  <2>2. ASSUME NEW i \in DOMAIN handed, ~Threw
        PROVE  InTurn(i)
    BY <2>2 DEF HttpInv, CountInv
  <2>3. ASSUME NEW i \in DOMAIN handed
        PROVE  /\ IsSuffix(Url(handed[i].req), handed[i].url)
               /\ IsSuffix(Of(handed[i].req), handed[i].body)
               /\ {Name, <<2>>} \cap DOMAIN handed[i].header # {}
               /\ \A k \in DOMAIN handed[i].header :
                    /\ handed[i].header[k].req <= handed[i].req
                    /\ handed[i].header[k].halves = <<2>> <=> k = <<>>
    BY WholeSuffices DEF HttpInv
  <2> QED
    BY <2>1, <2>2, <2>3 DEF HandedWhole, InTurn
<1> QED
  BY <1>1, HttpInvariance, PTL

\* However callbacks that answer at once and callbacks that answer later take
\* turns, and wherever the connection is closed: the head of an answer is followed
\* by its own text, unless the connection is closed at that; and while no
\* callback throws, no request is answered twice, and only one whose callback
\* waited is answered after one that came later.
THEOREM AnswersComeInOrder == HttpSpec => []AnswersInOrder
<1>1. HttpInv => AnswersInOrder
  <2> SUFFICES ASSUME HttpInv
               PROVE  AnswersInOrder
    OBVIOUS
  <2>1. ASSUME NEW i \in DOMAIN wire
        PROVE  IF i % 2 = 1
                 THEN /\ "length" \in DOMAIN wire[i]
                      /\ IF i = Len(wire) THEN conn # "open"
                         ELSE wire[i + 1] = [req |-> wire[i].req, size |-> wire[i].length]
                 ELSE "size" \in DOMAIN wire[i]
    BY DEF HttpInv, PairInv, Heads, Texts
  <2>2. ~Threw => AnsweredOnce
    BY DEF HttpInv, WireInv
  <2> QED
    BY <2>1, <2>2 DEF AnswersInOrder, AnsweredOnce
<1> QED
  BY <1>1, HttpInvariance, PTL
=============================================================================
