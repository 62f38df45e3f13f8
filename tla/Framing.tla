-------------------------------- MODULE Framing --------------------------------
(***************************************************************************)
(* A stream of messages: asyncnet::send and __send at one end, at the      *)
(* other client::recv, which appends what it receives to an ioBufferEx and *)
(* hands its front to dispatch until dispatch wants more.                  *)
(*                                                                         *)
(* Messages are numbered in the order of the sends.  A byte is a message's *)
(* number and its place there; Header bytes come first and tell the length.*)
(* Both ends work on different threads or hosts, so the steps of a loop of *)
(* one end may come between those of the other.                            *)
(***************************************************************************)
EXTENDS Naturals, Sequences

CONSTANTS
  MaxMsgs,    \* bound: messages that are sent
  Size,       \* [m]: bytes of message m, the header included
  Header,     \* bytes of the length field (4)
  Block,      \* m_expand_size, and the first size of a buffer (0x1000)
  Capacity    \* bytes the connection holds: what send finds full

Msgs == 1 .. MaxMsgs

ASSUME FramingAssumption ==
  /\ MaxMsgs \in Nat /\ Header \in Nat \ {0} /\ Block \in Nat \ {0} /\ Capacity \in Nat \ {0}
  /\ Size \in [Msgs -> Nat] /\ \A m \in Msgs : Size[m] >= Header

VARIABLES
  sent,        \* messages sent so far
  m_wbuffer,   \* those asyncnet keeps, the socket being full
  stream,      \* history: all the bytes the sender's socket took
  arrived,     \* how many of them the receiver's socket got
  taken,       \* how many of those recv put into its buffer
  ready,       \* the receiver's socket has EPOLLIN to report (edge triggered)
  m_fd,        \* whether the receiver's connection is open
  pc,          \* what client::recv is about to do
  m_size, m_Pos, m_max,   \* of ioBufferEx: bytes, bytes already popped, room
  got,         \* history: messages dispatched
  cut,         \* history: a send took only a part of its message
  torn         \* history: a length was read before it had arrived

sender == <<sent, m_wbuffer>>

buffer == <<m_size, m_Pos, m_max>>

vars == <<sender, stream, arrived, taken, ready, m_fd, pc, buffer, got, cut, torn>>

Bytes == [msg : Msgs, at : Nat \ {0}]

TypeOK ==
  /\ sent \in 0 .. MaxMsgs
  /\ m_wbuffer \in Seq(Msgs)
  /\ stream \in Seq(Bytes)
  /\ arrived \in 0 .. Len(stream) /\ taken \in 0 .. arrived
  /\ ready \in BOOLEAN /\ m_fd \in BOOLEAN
  /\ pc \in {"idle", "append", "dispatch", "undefined"}
  /\ m_max \in Nat /\ m_size \in 0 .. m_max /\ m_Pos \in 0 .. m_size
  /\ got \in Seq(Msgs)
  /\ cut \in BOOLEAN /\ torn \in BOOLEAN

Init ==
  /\ sent = 0 /\ m_wbuffer = <<>>
  /\ stream = <<>> /\ arrived = 0 /\ taken = 0
  /\ ready = FALSE /\ m_fd = TRUE /\ pc = "idle"
  /\ m_size = 0 /\ m_Pos = 0 /\ m_max = Block
  /\ got = <<>> /\ cut = FALSE /\ torn = FALSE

Least(a, b) == IF a < b THEN a ELSE b

Most(a, b) == IF a < b THEN b ELSE a

-----------------------------------------------------------------------------
(* The sender *)

Room == Capacity - (Len(stream) - taken)

\* ::send of m takes it whole, or as much of it as there is room for.
Write(m) ==
  LET k == Least(Room, Size[m]) IN
    /\ k > 0
    /\ stream' = stream \o [i \in 1 .. k |-> [msg |-> m, at |-> i]]
    /\ cut' = (cut \/ k < Size[m])

\* ::send of m fails with EAGAIN.
Full(m) == Room < Size[m] /\ UNCHANGED <<stream, cut>>

\* Faulty: asyncnet::send does not look whether others wait.
SendPast ==
  /\ sent < MaxMsgs /\ sent' = sent + 1
  /\ \/ Write(sent') /\ UNCHANGED m_wbuffer
     \/ Full(sent') /\ m_wbuffer' = Append(m_wbuffer, sent')
  /\ UNCHANGED <<arrived, taken, ready, m_fd, pc, buffer, got, torn>>

\* asyncnet::send.
Send ==
  /\ sent < MaxMsgs /\ sent' = sent + 1
  /\ \/ /\ m_wbuffer # <<>>
        /\ m_wbuffer' = Append(m_wbuffer, sent')
        /\ UNCHANGED <<stream, cut>>
     \/ m_wbuffer = <<>> /\ Write(sent') /\ UNCHANGED m_wbuffer
     \/ m_wbuffer = <<>> /\ Full(sent') /\ m_wbuffer' = <<sent'>>
  /\ UNCHANGED <<arrived, taken, ready, m_fd, pc, buffer, got, torn>>

\* One message of the loop of asyncnet::__send.  (When it meets a full socket
\* again, nothing changes.)
SendBuffered ==
  /\ m_wbuffer # <<>>
  /\ Write(Head(m_wbuffer))
  /\ m_wbuffer' = Tail(m_wbuffer)
  /\ UNCHANGED <<sent, arrived, taken, ready, m_fd, pc, buffer, got, torn>>

\* Bytes arrive, as many as the network likes.
Arrive ==
  /\ \E n \in arrived + 1 .. Len(stream) : arrived' = n
  /\ ready' = TRUE
  /\ UNCHANGED <<sender, stream, taken, m_fd, pc, buffer, got, cut, torn>>

-----------------------------------------------------------------------------
(* The receiver *)

\* What data() and size() show of the buffer.
Avail == m_size - m_Pos

NextByte == stream[taken - Avail + 1]

\* Whether the front of the buffer is a whole message.
Whole == Avail >= Header /\ Avail >= Size[NextByte.msg]

\* EPOLLIN is reported and client::recv called.
Recv ==
  /\ pc = "idle" /\ ready /\ m_fd
  /\ ready' = FALSE /\ pc' = "append"
  /\ UNCHANGED <<sender, stream, arrived, taken, m_fd, buffer, got, cut, torn>>

\* ioBuffer::append, which makes room whether there is something to receive or
\* not.  It is the one of the base: what was popped stays where it is.
AppendBytes ==
  /\ pc = "append"
  /\ m_max' = IF m_size + Block > m_max THEN 2 * Most(m_max, Block) ELSE m_max
  /\ LET n == IF m_fd THEN Least(arrived - taken, m_max' - m_size) ELSE 0 IN
       /\ taken' = taken + n /\ m_size' = m_size + n
       /\ pc' = IF n > 0 THEN "dispatch" ELSE "idle"
  /\ UNCHANGED <<sender, stream, arrived, ready, m_fd, m_Pos, got, cut, torn>>

\* ioBufferEx::pop_front.
PopFront(n) ==
  /\ m_Pos' = IF m_Pos + n >= m_size THEN 0 ELSE m_Pos + n
  /\ m_size' = IF m_Pos + n >= m_size THEN 0 ELSE m_size

\* dispatch (mydispatch::server, client) handles a whole message, whose
\* callbacks may close the connection: recv goes on with what is left, unless
\* nobody but the loop held the client, which is then destroyed under it.
DispatchWhole ==
  /\ pc = "dispatch" /\ Whole /\ NextByte.at = 1
  /\ got' = Append(got, NextByte.msg)
  /\ PopFront(Size[NextByte.msg])
  /\ m_fd' \in {m_fd, FALSE}
  /\ \/ pc' = IF m_size' > m_Pos' THEN "dispatch" ELSE "append"
     \/ m_fd /\ ~m_fd' /\ pc' = "undefined"
  /\ UNCHANGED <<sender, stream, arrived, taken, ready, m_max, cut, torn>>

\* Faulty: recv returns when dispatch wants more.
DispatchPartLeaves ==
  /\ pc = "dispatch" /\ ~Whole /\ (Avail >= Header => NextByte.at = 1)
  /\ pc' = "idle"
  /\ UNCHANGED <<sender, stream, arrived, taken, ready, m_fd, buffer, got, cut, torn>>

\* dispatch finds that the message is not whole.
DispatchPart ==
  /\ pc = "dispatch" /\ ~Whole /\ (Avail >= Header => NextByte.at = 1)
  /\ pc' = "append"
  /\ UNCHANGED <<sender, stream, arrived, taken, ready, m_fd, buffer, got, cut, torn>>

\* dispatch takes for a length what is none: fewer bytes than that have arrived
\* and the rest is what the buffer held before, or the stream is out of step.
DispatchGarbage ==
  /\ pc = "dispatch" /\ (Avail < Header \/ NextByte.at # 1)
  /\ pc' = "undefined" /\ torn' = TRUE
  /\ UNCHANGED <<sender, stream, arrived, taken, ready, m_fd, buffer, got, cut>>

-----------------------------------------------------------------------------
Next ==
  \/ Send \/ SendBuffered \/ Arrive
  \/ Recv \/ AppendBytes \/ DispatchWhole \/ DispatchPart \/ DispatchGarbage

\* Bytes arrive, the sockets are polled and the handlers run.
Fairness ==
  /\ WF_vars(SendBuffered) /\ WF_vars(Arrive)
  /\ WF_vars(Recv) /\ WF_vars(AppendBytes) /\ WF_vars(DispatchWhole \/ DispatchPart)

Spec == Init /\ [][Next]_vars /\ Fairness

-----------------------------------------------------------------------------
(* Properties.  They are about streams of whole messages (cut) whose lengths *)
(* were not read too early (torn).                                          *)

InStep == ~cut /\ ~torn

\* (With the types.)  Messages are dispatched in the order of the sends, each once, and the bytes
\* at the front of the buffer are the first of the next one, however sends,
\* buffering, arrivals and reads are cut up; and when client::recv has returned
\* no whole message waits in the buffer.
InOrder ==
  /\ TypeOK
  /\ InStep =>
       /\ \A i \in 1 .. Len(got) : got[i] = i
       /\ Avail > 0 => NextByte = [msg |-> Len(got) + 1, at |-> 1]
       /\ pc = "idle" /\ Avail > 0 => ~Whole

\* Every message that was sent is dispatched in the end, unless the receiver
\* closes the connection.
AllDispatched ==
  \A m \in Msgs : sent >= m ~> (Len(got) >= m \/ ~InStep \/ ~m_fd)
=============================================================================
