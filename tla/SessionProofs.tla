----------------------------- MODULE SessionProofs -----------------------------
(***************************************************************************)
(* Proofs about Session: its types, that m_notified tells whether a        *)
(* callback is queued, that whatever is parked was notified, that only a   *)
(* foreign write overtakes, and that each message is in one place.         *)
(***************************************************************************)
EXTENDS Session, SequenceTheorems, TLAPS

-----------------------------------------------------------------------------
(* The inductive invariant *)

\* The thread inside client::__realsend is the only one that holds m_mutex;
\* it found nothing parked, and the client can only be forgotten meanwhile.
SendingInv ==
  \A t \in Threads : sending[t] # NoConn =>
    /\ m_list = <<>> /\ sent > 0
    /\ m_client \in {sending[t], NoConn}
    /\ \A u \in Threads : sending[u] # NoConn => u = t

NoticeInv == SendingInv /\ FlagTellsNotice /\ ParkedIsNotified

-----------------------------------------------------------------------------
(* Types *)

Entries == [msg : Msgs, way : Ways]

\* Writing messages yields entries of the wire.
LEMMA WrittenType ==
  ASSUME NEW ms \in Seq(Msgs), NEW way \in Ways
  PROVE  /\ Written(ms, way) \in Seq(Entries)
         /\ Len(Written(ms, way)) = Len(ms)
         /\ \A i \in 1 .. Len(ms) : Written(ms, way)[i] = [msg |-> ms[i], way |-> way]
<1>1. Len(ms) \in Nat /\ \A i \in 1 .. Len(ms) : ms[i] \in Msgs
  BY LenProperties, ElementOfSeq
<1>2. \A i \in 1 .. Len(ms) : [msg |-> ms[i], way |-> way] \in Entries
  BY <1>1 DEF Entries
<1> QED
  BY <1>1, <1>2 DEF Written

\* The parts of a sequence that Hand and Writable take.
LEMMA Parts ==
  ASSUME NEW ms \in Seq(Msgs), NEW k \in 0 .. Len(ms)
  PROVE  /\ SubSeq(ms, 1, k) \in Seq(Msgs) /\ Len(SubSeq(ms, 1, k)) = k
         /\ \A i \in 1 .. k : SubSeq(ms, 1, k)[i] = ms[i]
         /\ SubSeq(ms, k + 1, Len(ms)) \in Seq(Msgs)
         /\ Len(SubSeq(ms, k + 1, Len(ms))) = Len(ms) - k
         /\ \A i \in 1 .. Len(ms) - k : SubSeq(ms, k + 1, Len(ms))[i] = ms[k + i]
<1>1. Len(ms) \in Nat /\ k \in Nat /\ \A i \in 1 .. Len(ms) : ms[i] \in Msgs
  BY LenProperties, ElementOfSeq
<1>2. /\ SubSeq(ms, 1, k) \in Seq(Msgs) /\ Len(SubSeq(ms, 1, k)) = k
      /\ \A i \in 1 .. k : SubSeq(ms, 1, k)[i] = ms[i]
  BY <1>1, SubSeqProperties
<1>3. /\ SubSeq(ms, k + 1, Len(ms)) \in Seq(Msgs)
      /\ Len(SubSeq(ms, k + 1, Len(ms))) = Len(ms) - k
      /\ \A i \in 1 .. Len(ms) - k : SubSeq(ms, k + 1, Len(ms))[i] = ms[k + i]
  BY <1>1, SubSeqProperties
<1> QED
  BY <1>2, <1>3

\* What Hand does to the types, and to the client and its parked messages:
\* all are on their way, or the connection is closed.
LEMMA HandTypes ==
  ASSUME TypeOK, NEW c \in Conns, NEW ms \in Seq(Msgs), Hand(c, ms)
  PROVE  /\ wire' \in [Conns -> Seq(Entries)]
         /\ m_wbuffer' \in [Conns -> Seq(Msgs)]
         /\ conn' \in [Conns -> {"new", "open", "closed"}]
         /\ m_list' \in Seq(Msgs)
         /\ gone' \subseteq Msgs
         /\ m_list' = <<>> \/ conn'[c] = "closed"
<1>1. PICK k \in 0 .. Len(ms) :
        /\ wire' = [wire EXCEPT ![c] = @ \o Written(SubSeq(ms, 1, k), "direct")]
        /\ \/ /\ m_wbuffer' = [m_wbuffer EXCEPT ![c] = @ \o SubSeq(ms, k + 1, Len(ms))]
              /\ conn' = [conn EXCEPT ![c] = "open"]
              /\ m_list' = <<>>
              /\ UNCHANGED gone
           \/ /\ k < Len(ms) /\ m_wbuffer[c] = <<>>
              /\ conn' = [conn EXCEPT ![c] = "closed"]
              /\ m_list' = SubSeq(ms, k + 2, Len(ms))
              /\ gone' = gone \cup {ms[k + 1]}
              /\ UNCHANGED m_wbuffer
  BY DEF Hand
<1>2. Written(SubSeq(ms, 1, k), "direct") \in Seq(Entries)
  BY Parts, WrittenType DEF Ways
<1>3. wire[c] \o Written(SubSeq(ms, 1, k), "direct") \in Seq(Entries)
  BY <1>2, ConcatProperties DEF TypeOK, Entries
<1>4. wire' \in [Conns -> Seq(Entries)]
  BY <1>1, <1>3 DEF TypeOK, Entries
<1>5. CASE m_list' = <<>> /\ m_wbuffer' = [m_wbuffer EXCEPT ![c] = @ \o SubSeq(ms, k + 1, Len(ms))]
            /\ conn' = [conn EXCEPT ![c] = "open"] /\ UNCHANGED gone
  <2>1. m_wbuffer[c] \o SubSeq(ms, k + 1, Len(ms)) \in Seq(Msgs)
    BY Parts, ConcatProperties DEF TypeOK
  <2>2. m_wbuffer' \in [Conns -> Seq(Msgs)]
    BY <1>5, <2>1 DEF TypeOK
  <2>3. m_list' \in Seq(Msgs)
    BY <1>5
  <2> QED
    BY <1>4, <1>5, <2>2, <2>3 DEF TypeOK
<1>6. CASE /\ k < Len(ms) /\ conn' = [conn EXCEPT ![c] = "closed"]
           /\ m_list' = SubSeq(ms, k + 2, Len(ms))
           /\ gone' = gone \cup {ms[k + 1]} /\ UNCHANGED m_wbuffer
  <2>1. Len(ms) \in Nat /\ k + 1 \in 0 .. Len(ms) /\ k + 1 \in 1 .. Len(ms) /\ k + 1 + 1 = k + 2
    BY <1>6, LenProperties
  <2>2. m_list' \in Seq(Msgs) /\ ms[k + 1] \in Msgs
    <3>1. SubSeq(ms, k + 1 + 1, Len(ms)) \in Seq(Msgs)
      BY <2>1, Parts
    <3> QED
      BY <1>6, <2>1, <3>1, ElementOfSeq
  <2> QED
    BY <1>4, <1>6, <2>2 DEF TypeOK
<1> QED
  BY <1>1, <1>5, <1>6

-----------------------------------------------------------------------------
(* The invariant *)

\* NotifySend keeps m_notified and the queued callbacks in step, and when it
\* returns a session with a good client has been notified.
LEMMA NotifySendTells ==
  ASSUME TypeOK, NEW flag \in BOOLEAN, NEW queued \in [Threads -> 0 .. 1],
         flag => \E t \in Threads : queued[t] = 1,
         \A t, u \in Threads :
           queued[t] = 1 /\ (u = t \/ queued[u] = 1) => flag /\ u = t,
         NotifySend(flag, queued)
  PROVE  /\ m_notified' \in BOOLEAN /\ notices' \in [Threads -> 0 .. 1] /\ lost' \in BOOLEAN
         /\ FlagTellsNotice'
         /\ Valid => m_notified'
<1>0. lost' \in BOOLEAN
  <2>1. lost \in BOOLEAN
    BY DEF TypeOK
  <2> QED
    BY <2>1 DEF NotifySend
<1>1. CASE Valid /\ ~flag
  <2>1. m_client \in Conns /\ Thd[m_client] \in Threads
    BY <1>1, SessionAssumption DEF Valid, TypeOK
  <2>2. \A t \in Threads : queued[t] = 0
    <3>1. ASSUME NEW t \in Threads, queued[t] = 1 PROVE FALSE
      <4>1. flag
        BY <3>1, Zenon
      <4> QED
        BY <1>1, <4>1, Zenon
    <3>2. \A t \in Threads : queued[t] \in 0 .. 1
      OBVIOUS
    <3>3. ASSUME NEW x \in 0 .. 1, x # 1 PROVE x = 0
      BY <3>3
    <3> QED
      BY <3>1, <3>2, <3>3, Zenon
  <2>3. m_notified' = TRUE /\ notices' = [queued EXCEPT ![Thd[m_client]] = @ + 1]
    BY <1>1 DEF NotifySend
  <2>4. notices' \in [Threads -> 0 .. 1]
    BY <2>1, <2>2, <2>3
  <2>5. \A t \in Threads : notices'[t] = IF t = Thd[m_client] THEN 1 ELSE 0
    BY <2>1, <2>2, <2>3
  <2> QED
    BY <1>0, <2>1, <2>3, <2>4, <2>5 DEF FlagTellsNotice
<1>2. CASE ~(Valid /\ ~flag)
  <2>1. m_notified' = flag /\ notices' = queued
    BY <1>2 DEF NotifySend
  <2> QED
    BY <1>0, <1>2, <2>1 DEF FlagTellsNotice
<1> QED
  BY <1>1, <1>2

\* Nobody holding m_mutex, SendingInv says nothing.
LEMMA FreeSending ==
  ASSUME \A t \in Threads : sending'[t] = NoConn
  PROVE  SendingInv'
BY DEF SendingInv

\* A step that leaves the flag and the callbacks alone.
LEMMA SameFlag ==
  ASSUME FlagTellsNotice, UNCHANGED <<m_notified, notices>>
  PROVE  FlagTellsNotice'
BY DEF FlagTellsNotice

LEMMA NoticeInit == Init => TypeOK /\ NoticeInv
<1> SUFFICES ASSUME Init PROVE TypeOK /\ NoticeInv
  OBVIOUS
<1>1. TypeOK
  <2>1. <<>> \in Seq(Msgs) /\ <<>> \in Seq([msg : Msgs, way : Ways]) /\ 0 \in 0 .. MaxMsgs
    BY SessionAssumption
  <2>2. m_list \in Seq(Msgs) /\ gone \subseteq Msgs /\ sent \in 0 .. MaxMsgs
    BY <2>1 DEF Init
  <2>3. m_wbuffer \in [Conns -> Seq(Msgs)] /\ wire \in [Conns -> Seq([msg : Msgs, way : Ways])]
    BY <2>1, SMT DEF Init
  <2>4. m_notified \in BOOLEAN /\ m_client \in Conns \cup {NoConn} /\ lost \in BOOLEAN
    BY DEF Init
  <2>5. conn \in [Conns -> {"new", "open", "closed"}] /\ broken \in [Conns -> BOOLEAN]
    <3>1. conn = [c \in Conns |-> "new"] /\ broken = [c \in Conns |-> FALSE]
      BY DEF Init
    <3> QED
      BY <3>1
  <2>6. notices \in [Threads -> 0 .. 1] /\ sending \in [Threads -> Conns \cup {NoConn}]
    <3>1. notices = [t \in Threads |-> 0] /\ sending = [t \in Threads |-> NoConn]
      BY DEF Init
    <3> QED
      BY <3>1
  <2> QED
    BY <2>2, <2>3, <2>4, <2>5, <2>6 DEF TypeOK
<1>2. SendingInv /\ ParkedIsNotified
  BY DEF Init, SendingInv, ParkedIsNotified
<1>3. FlagTellsNotice
  BY DEF Init, FlagTellsNotice
<1> QED
  BY <1>1, <1>2, <1>3 DEF NoticeInv

LEMMA NoticeStep == TypeOK /\ NoticeInv /\ [Next]_vars => TypeOK' /\ NoticeInv'
<1> SUFFICES ASSUME TypeOK, NoticeInv, [Next]_vars PROVE TypeOK' /\ NoticeInv'
  OBVIOUS
<1> USE SessionAssumption
<1>a. SendingInv /\ FlagTellsNotice /\ ParkedIsNotified
  BY DEF NoticeInv
<1>1. ASSUME NEW c \in Conns, SetClient(c) PROVE TypeOK' /\ NoticeInv'
  <2>1. m_list \in Seq(Msgs) /\ Hand(c, m_list)
    BY <1>1 DEF SetClient, TypeOK
  <2>2. /\ wire' \in [Conns -> Seq(Entries)] /\ m_wbuffer' \in [Conns -> Seq(Msgs)]
        /\ conn' \in [Conns -> {"new", "open", "closed"}] /\ m_list' \in Seq(Msgs)
        /\ gone' \subseteq Msgs /\ (m_list' = <<>> \/ conn'[c] = "closed")
    BY <2>1, HandTypes
  <2>3. TypeOK'
    BY <1>1, <2>2 DEF SetClient, TypeOK, Entries
  <2>4. SendingInv'
    BY <1>1, FreeSending DEF SetClient, MutexFree
  <2>5. FlagTellsNotice'
    BY <1>1, <1>a, SameFlag DEF SetClient
  <2>6. ParkedIsNotified'
    BY <1>1, <2>2 DEF SetClient, ParkedIsNotified, Valid
  <2> QED
    BY <2>3, <2>4, <2>5, <2>6 DEF NoticeInv
<1>2. ASSUME NEW c \in Conns, Writable(c) PROVE TypeOK' /\ NoticeInv'
  <2>1. PICK k \in 1 .. Len(m_wbuffer[c]) :
          /\ wire' = [wire EXCEPT ![c] = @ \o Written(SubSeq(m_wbuffer[c], 1, k), "buffer")]
          /\ m_wbuffer' = [m_wbuffer EXCEPT ![c] = SubSeq(@, k + 1, Len(@))]
    BY <1>2 DEF Writable
  <2>2. m_wbuffer[c] \in Seq(Msgs) /\ wire[c] \in Seq(Entries)
    BY DEF TypeOK, Entries
  <2>3. k \in 0 .. Len(m_wbuffer[c])
    BY <2>2, LenProperties
  <2>4. /\ Written(SubSeq(m_wbuffer[c], 1, k), "buffer") \in Seq(Entries)
        /\ SubSeq(m_wbuffer[c], k + 1, Len(m_wbuffer[c])) \in Seq(Msgs)
    BY <2>2, <2>3, Parts, WrittenType DEF Ways
  <2>5. wire[c] \o Written(SubSeq(m_wbuffer[c], 1, k), "buffer") \in Seq(Entries)
    BY <2>2, <2>4, ConcatProperties
  <2>6. TypeOK'
    BY <1>2, <2>1, <2>4, <2>5 DEF Writable, TypeOK, Entries
  <2>7. SendingInv' /\ ParkedIsNotified'
    BY <1>2, <1>a DEF Writable, SendingInv, ParkedIsNotified, Valid
  <2>8. FlagTellsNotice'
    BY <1>2, <1>a, SameFlag DEF Writable
  <2> QED
    BY <2>6, <2>7, <2>8 DEF NoticeInv
<1>3. ASSUME NEW c \in Conns, CloseConn(c) PROVE TypeOK' /\ NoticeInv'
  <2>1. {m_wbuffer[c][i] : i \in DOMAIN m_wbuffer[c]} \subseteq Msgs
    BY ElementOfSeq, LenProperties DEF TypeOK
  <2>2. TypeOK'
    <3>1. <<>> \in Seq(Msgs)
      OBVIOUS
    <3>2. m_wbuffer' \in [Conns -> Seq(Msgs)]
      BY <1>3, <3>1 DEF CloseConn, TypeOK
    <3>3. gone' \subseteq Msgs
      BY <1>3, <2>1 DEF CloseConn, TypeOK
    <3> QED
      BY <1>3, <3>2, <3>3 DEF CloseConn, TypeOK
  <2>3. SendingInv' /\ ParkedIsNotified'
    BY <1>3, <1>a DEF CloseConn, SendingInv, ParkedIsNotified, Valid, TypeOK
  <2>4. FlagTellsNotice'
    BY <1>3, <1>a, SameFlag DEF CloseConn
  <2> QED
    BY <2>2, <2>3, <2>4 DEF NoticeInv
<1>4. CASE Stop
  <2>1. TypeOK'
    BY <1>4 DEF Stop, TypeOK
  <2>2. SendingInv' /\ ParkedIsNotified'
    BY <1>4, <1>a DEF Stop, SendingInv, ParkedIsNotified, Valid
  <2>3. FlagTellsNotice'
    BY <1>4, <1>a, SameFlag DEF Stop
  <2> QED
    BY <2>1, <2>2, <2>3 DEF NoticeInv
<1>5. CASE SendParked
  <2>1. sent + 1 \in Msgs /\ sent + 1 \in 0 .. MaxMsgs
    BY <1>5 DEF SendParked, TypeOK, Msgs
  <2>2. m_list' \in Seq(Msgs)
    BY <1>5, <2>1 DEF SendParked, TypeOK
  <2>3. TypeOK'
    BY <1>5, <2>1, <2>2 DEF SendParked, TypeOK
  <2>4. SendingInv'
    BY <1>5, FreeSending DEF SendParked, MutexFree
  <2>5. ParkedIsNotified'
    BY <1>5, <1>a DEF SendParked, ParkedIsNotified, Valid
  <2>6. FlagTellsNotice'
    BY <1>5, <1>a, SameFlag DEF SendParked
  <2> QED
    BY <2>3, <2>4, <2>5, <2>6 DEF NoticeInv
<1>6. CASE SendOwner
  <2>1. sent + 1 \in Msgs /\ sent + 1 \in 0 .. MaxMsgs /\ m_client \in Conns
    BY <1>6 DEF SendOwner, TypeOK, Msgs, Valid
  <2>2. <<sent + 1>> \in Seq(Msgs)
    BY <2>1
  <2>3. /\ wire' \in [Conns -> Seq(Entries)] /\ m_wbuffer' \in [Conns -> Seq(Msgs)]
        /\ conn' \in [Conns -> {"new", "open", "closed"}] /\ m_list' \in Seq(Msgs)
        /\ gone' \subseteq Msgs /\ (m_list' = <<>> \/ conn'[m_client] = "closed")
    BY <1>6, <2>1, <2>2, HandTypes DEF SendOwner
  <2>4. TypeOK'
    BY <1>6, <2>1, <2>3 DEF SendOwner, TypeOK, Entries
  <2>5. SendingInv'
    BY <1>6, FreeSending DEF SendOwner, MutexFree
  <2>6. ParkedIsNotified'
    BY <1>6, <2>3 DEF SendOwner, ParkedIsNotified, Valid
  <2>7. FlagTellsNotice'
    BY <1>6, <1>a, SameFlag DEF SendOwner
  <2> QED
    BY <2>4, <2>5, <2>6, <2>7 DEF NoticeInv
<1>7. ASSUME NEW t \in Threads, SendForeign(t) PROVE TypeOK' /\ NoticeInv'
  <2>1. m_client \in Conns /\ sent + 1 \in 0 .. MaxMsgs
    BY <1>7 DEF SendForeign, Valid, TypeOK
  <2>2. TypeOK'
    BY <1>7, <2>1 DEF SendForeign, TypeOK
  <2>3. SendingInv'
    BY <1>7, <2>1 DEF SendForeign, SendingInv, MutexFree, TypeOK
  <2>4. ParkedIsNotified'
    BY <1>7, <1>a DEF SendForeign, ParkedIsNotified, Valid
  <2>5. FlagTellsNotice'
    BY <1>7, <1>a, SameFlag DEF SendForeign
  <2> QED
    BY <2>2, <2>3, <2>4, <2>5 DEF NoticeInv
<1>8. ASSUME NEW t \in Threads, ForeignEnds(t) PROVE TypeOK' /\ NoticeInv'
  <2>1. sending[t] \in Conns /\ sending' = [sending EXCEPT ![t] = NoConn]
    BY <1>8 DEF ForeignEnds, ForeignWritten, ForeignStray, ForeignFull, ForeignError, TypeOK
  <2>2. sent \in Msgs /\ m_list = <<>> /\ m_client \in {sending[t], NoConn}
    BY <2>1, <1>a DEF SendingInv, TypeOK, Msgs
  <2>3. SendingInv'
    <3>1. \A u \in Threads : sending'[u] = NoConn
      BY <2>1, <1>a DEF SendingInv, TypeOK
    <3> QED
      BY <3>1, FreeSending
  <2>4. Append(m_list, sent) \in Seq(Msgs)
    BY <2>2 DEF TypeOK
  <2>5. CASE ForeignWritten(t)
    <3>1. [msg |-> sent, way |-> "foreign"] \in Entries
      BY <2>2 DEF Entries, Ways
    <3>2. Append(wire[sending[t]], [msg |-> sent, way |-> "foreign"]) \in Seq(Entries)
      <4>1. wire[sending[t]] \in Seq(Entries)
        BY <2>1 DEF TypeOK, Entries
      <4> QED
        BY <3>1, <4>1
    <3>3. TypeOK'
      BY <2>1, <2>5, <3>2 DEF ForeignWritten, TypeOK, Entries
    <3>4. ParkedIsNotified'
      BY <2>5, <1>a DEF ForeignWritten, ParkedIsNotified, Valid
    <3>5. FlagTellsNotice'
      BY <2>5, <1>a, SameFlag DEF ForeignWritten
    <3> QED
      BY <2>3, <3>3, <3>4, <3>5 DEF NoticeInv
  <2>6. CASE ForeignStray(t)
    <3>1. TypeOK'
      BY <2>1, <2>2, <2>6 DEF ForeignStray, TypeOK
    <3>2. ParkedIsNotified'
      BY <2>6, <1>a DEF ForeignStray, ParkedIsNotified, Valid
    <3>3. FlagTellsNotice'
      BY <2>6, <1>a, SameFlag DEF ForeignStray
    <3> QED
      BY <2>3, <3>1, <3>2, <3>3 DEF NoticeInv
  <2>7. CASE ForeignFull(t)
    <3>1. /\ m_notified' \in BOOLEAN /\ notices' \in [Threads -> 0 .. 1] /\ lost' \in BOOLEAN
          /\ FlagTellsNotice' /\ (Valid => m_notified')
      <4>1. m_notified \in BOOLEAN /\ notices \in [Threads -> 0 .. 1]
            /\ NotifySend(m_notified, notices)
        BY <2>7 DEF ForeignFull, TypeOK
      <4> QED
        BY <4>1, <1>a, NotifySendTells DEF FlagTellsNotice
    <3>2. TypeOK'
      BY <2>1, <2>4, <2>7, <3>1 DEF ForeignFull, TypeOK
    <3>3. ParkedIsNotified'
      BY <2>7, <3>1 DEF ForeignFull, ParkedIsNotified, Valid
    <3> QED
      BY <2>3, <3>1, <3>2, <3>3 DEF NoticeInv
  <2>8. CASE ForeignError(t)
    <3>1. TypeOK'
      BY <2>1, <2>4, <2>8 DEF ForeignError, TypeOK
    <3>2. ParkedIsNotified'
      BY <2>1, <2>2, <2>8 DEF ForeignError, ParkedIsNotified, Valid, TypeOK
    <3>3. FlagTellsNotice'
      BY <2>8, <1>a, SameFlag DEF ForeignError
    <3> QED
      BY <2>3, <3>1, <3>2, <3>3 DEF NoticeInv
  <2> QED
    BY <1>8, <2>5, <2>6, <2>7, <2>8 DEF ForeignEnds
<1>9. ASSUME NEW t \in Threads, Notice(t) PROVE TypeOK' /\ NoticeInv'
  <2> DEFINE queued == [notices EXCEPT ![t] = @ - 1]
             pass == m_list # <<>> /\ Valid /\ Thd[m_client] # t
  <2>1. notices[t] = 1 /\ m_notified /\ \A u \in Threads : queued[u] = 0
    BY <1>9, <1>a DEF Notice, FlagTellsNotice, TypeOK
  <2>2. queued \in [Threads -> 0 .. 1]
    BY <2>1 DEF TypeOK
  <2>3. SendingInv'
    BY <1>9, FreeSending DEF Notice, MutexFree
  <2>4. CASE pass
    <3>1. NotifySend(FALSE, queued) /\ UNCHANGED <<m_list, conn, m_wbuffer, wire, gone>>
      BY <1>9, <2>4 DEF Notice
    <3>2. /\ m_notified' \in BOOLEAN /\ notices' \in [Threads -> 0 .. 1] /\ lost' \in BOOLEAN
          /\ FlagTellsNotice' /\ (Valid => m_notified')
      <4>1. /\ FALSE => \E u \in Threads : queued[u] = 1
            /\ \A u, v \in Threads : queued[u] = 1 /\ (v = u \/ queued[v] = 1) => FALSE /\ v = u
        BY <2>1
      <4>2. FALSE \in BOOLEAN
        OBVIOUS
      <4> HIDE DEF queued
      <4> QED
        BY <2>2, <3>1, <4>1, <4>2, NotifySendTells
    <3>3. TypeOK'
      BY <1>9, <3>1, <3>2 DEF Notice, TypeOK
    <3>4. ParkedIsNotified'
      BY <1>9, <2>4, <3>1, <3>2 DEF Notice, ParkedIsNotified
    <3> QED
      BY <2>3, <3>2, <3>3, <3>4 DEF NoticeInv
  <2>5. CASE ~pass
    <3>1. /\ m_notified' = FALSE /\ notices' = queued /\ lost' = FALSE
          /\ IF Valid /\ Thd[m_client] = t
               THEN Hand(m_client, m_list)
               ELSE UNCHANGED <<m_list, conn, m_wbuffer, wire, gone>>
      BY <1>9, <2>5 DEF Notice
    <3>2. FlagTellsNotice'
      BY <2>1, <3>1 DEF FlagTellsNotice
    <3>3. CASE Valid /\ Thd[m_client] = t
      <4>1. m_client \in Conns /\ m_list \in Seq(Msgs) /\ Hand(m_client, m_list)
        BY <3>1, <3>3 DEF Valid, TypeOK
      <4>2. /\ wire' \in [Conns -> Seq(Entries)] /\ m_wbuffer' \in [Conns -> Seq(Msgs)]
            /\ conn' \in [Conns -> {"new", "open", "closed"}] /\ m_list' \in Seq(Msgs)
            /\ gone' \subseteq Msgs /\ (m_list' = <<>> \/ conn'[m_client] = "closed")
        BY <4>1, HandTypes
      <4>3. TypeOK'
        BY <1>9, <2>2, <3>1, <4>2 DEF Notice, TypeOK, Entries
      <4>4. ParkedIsNotified'
        BY <1>9, <4>2 DEF Notice, ParkedIsNotified, Valid
      <4> QED
        BY <2>3, <3>2, <4>3, <4>4 DEF NoticeInv
    <3>4. CASE ~(Valid /\ Thd[m_client] = t)
      <4>1. UNCHANGED <<m_list, conn, m_wbuffer, wire, gone, m_client, broken>>
        BY <1>9, <3>1, <3>4 DEF Notice
      <4>2. TypeOK'
        BY <1>9, <2>2, <3>1, <4>1 DEF Notice, TypeOK
      <4>3. ParkedIsNotified'
        BY <2>5, <3>4, <4>1 DEF ParkedIsNotified, Valid
      <4> QED
        BY <2>3, <3>2, <4>2, <4>3 DEF NoticeInv
    <3> QED
      BY <3>3, <3>4
  <2> QED
    BY <2>4, <2>5
<1>10. CASE UNCHANGED vars
  <2>1. TypeOK' /\ SendingInv' /\ ParkedIsNotified'
    BY <1>10, <1>a DEF vars, TypeOK, SendingInv, ParkedIsNotified, Valid
  <2>2. FlagTellsNotice'
    BY <1>10, <1>a, SameFlag DEF vars
  <2> QED
    BY <2>1, <2>2 DEF NoticeInv
<1> QED
  BY <1>1, <1>2, <1>3, <1>4, <1>5, <1>6, <1>7, <1>8, <1>9, <1>10 DEF Next

LEMMA NoticeInvariance == Spec => [](TypeOK /\ NoticeInv)
<1>1. Init => TypeOK /\ NoticeInv
  BY NoticeInit
<1>2. TypeOK /\ NoticeInv /\ [Next]_vars => TypeOK' /\ NoticeInv'
  BY NoticeStep
<1> QED
  BY <1>1, <1>2, PTL DEF Spec

\* Every reachable state of Session is well typed.
THEOREM SendTypes == Spec => []TypeOK
BY NoticeInvariance, PTL

\* m_notified tells whether a callback is queued, and there is at most one.
THEOREM FlagMatchesNotice == Spec => []FlagTellsNotice
<1>1. TypeOK /\ NoticeInv => FlagTellsNotice
  BY DEF NoticeInv
<1> QED
  BY <1>1, NoticeInvariance, PTL

\* Whatever is parked in a session with a good client, its owner was told.
THEOREM ParkedWasNotified == Spec => []ParkedIsNotified
<1>1. TypeOK /\ NoticeInv => ParkedIsNotified
  BY DEF NoticeInv
<1> QED
  BY <1>1, NoticeInvariance, PTL

\* Both: a parked message has exactly one callback on its way.
THEOREM NoticesCoverParked == Spec => []NoticeCoversParked
<1>1. FlagTellsNotice /\ ParkedIsNotified => NoticeCoversParked
  BY DEF NoticeCoversParked
<1> QED
  BY <1>1, FlagMatchesNotice, ParkedWasNotified, PTL

-----------------------------------------------------------------------------
(* The order of the messages of one connection: w was written, b is in its *)
(* m_wbuffer                                                               *)

\* No message of the connection is younger than n.
Upto(w, b, n) ==
  /\ \A i \in DOMAIN w : w[i].msg <= n
  /\ \A i \in DOMAIN b : b[i] <= n

\* The messages ms are in the order of the sends.
Sorted(ms) == \A i, j \in DOMAIN ms : i <= j => ms[i] <= ms[j]

\* What is written is in order, and will be when b is written, but for what
\* foreign threads wrote.
Ordered(w, b) ==
  /\ Sorted(b)
  /\ \A i \in DOMAIN w, j \in DOMAIN b : w[i].msg > b[j] => w[i].way = "foreign"
  /\ \A i, j \in DOMAIN w :
       i < j /\ w[i].msg > w[j].msg => w[i].way = "foreign" /\ w[j].way = "buffer"

\* w, of length n, grows to w2 by the first k of the messages ms.
WireGrown(w, n, ms, k, way, w2) ==
  /\ n \in Nat /\ DOMAIN w = 1 .. n /\ DOMAIN w2 = 1 .. n + k
  /\ \A i \in 1 .. n : w2[i] = w[i]
  /\ \A i \in n + 1 .. n + k : i - n \in DOMAIN ms /\ w2[i].msg = ms[i - n] /\ w2[i].way = way

\* b, of length l, grows to b2 by the m messages ms but the first k.
BufferGrown(b, l, ms, m, k, b2) ==
  /\ l \in Nat /\ m \in Nat /\ k \in 0 .. m
  /\ DOMAIN b = 1 .. l /\ DOMAIN ms = 1 .. m /\ DOMAIN b2 = 1 .. l + (m - k)
  /\ \A i \in 1 .. l : b2[i] = b[i]
  /\ \A i \in l + 1 .. l + (m - k) : i - l + k \in DOMAIN ms /\ b2[i] = ms[i - l + k]

\* Messages are numbers.
Numbered(w, b) ==
  /\ \A i \in DOMAIN w : w[i].msg \in Nat
  /\ \A i \in DOMAIN b : b[i] \in Nat

\* The wire after the first k of the messages ms were written.
LEMMA WireGrows ==
  ASSUME NEW w \in Seq(Entries), NEW ms \in Seq(Msgs), NEW k \in 0 .. Len(ms), NEW way \in Ways,
         NEW w2, w2 = w \o Written(SubSeq(ms, 1, k), way)
  PROVE  WireGrown(w, Len(w), ms, k, way, w2)
<1> DEFINE s == Written(SubSeq(ms, 1, k), way)
<1>1. Len(w) \in Nat /\ Len(ms) \in Nat /\ k \in Nat /\ DOMAIN ms = 1 .. Len(ms) /\ DOMAIN w = 1 .. Len(w)
  BY LenProperties
<1>2. /\ SubSeq(ms, 1, k) \in Seq(Msgs) /\ Len(SubSeq(ms, 1, k)) = k
      /\ \A i \in 1 .. k : SubSeq(ms, 1, k)[i] = ms[i]
  BY Parts
<1>3. /\ s \in Seq(Entries) /\ Len(s) = k
      /\ \A i \in 1 .. k : s[i] = [msg |-> SubSeq(ms, 1, k)[i], way |-> way]
  <2> DEFINE p == SubSeq(ms, 1, k)
  <2>1. p \in Seq(Msgs) /\ Len(p) = k
    BY <1>2
  <2> HIDE DEF p
  <2>2. /\ Written(p, way) \in Seq(Entries) /\ Len(Written(p, way)) = k
        /\ \A i \in 1 .. k : Written(p, way)[i] = [msg |-> p[i], way |-> way]
    BY <2>1, WrittenType
  <2> QED
    BY <2>2 DEF p
<1>4. \A i \in 1 .. k : s[i] = [msg |-> ms[i], way |-> way]
  BY <1>2, <1>3
<1> HIDE DEF s
<1>5. /\ w \o s \in Seq(Entries) /\ Len(w \o s) = Len(w) + k
      /\ \A i \in 1 .. Len(w) + k : (w \o s)[i] = IF i <= Len(w) THEN w[i] ELSE s[i - Len(w)]
  BY <1>1, <1>3, ConcatProperties
<1>6. w2 = w \o s
  BY DEF s
<1>7. w2 \in Seq(Entries) /\ DOMAIN w2 = 1 .. Len(w) + k
  BY <1>5, <1>6, LenProperties
<1>8. \A i \in 1 .. Len(w) : w2[i] = w[i]
  BY <1>1, <1>5, <1>6
<1>9. ASSUME NEW i \in Len(w) + 1 .. Len(w) + k
      PROVE  i - Len(w) \in DOMAIN ms /\ w2[i].msg = ms[i - Len(w)] /\ w2[i].way = way
  <2>1. i - Len(w) \in 1 .. k /\ i - Len(w) \in 1 .. Len(ms) /\ i \in 1 .. Len(w) + k /\ ~(i <= Len(w))
    BY <1>1
  <2>2. w2[i] = [msg |-> ms[i - Len(w)], way |-> way]
    BY <1>4, <1>5, <1>6, <2>1
  <2>3. w2[i].msg = ms[i - Len(w)] /\ w2[i].way = way
    <3>1. ASSUME NEW e, NEW n, e = [msg |-> n, way |-> way] PROVE e.msg = n /\ e.way = way
      BY <3>1
    <3> QED
      BY <2>2, <3>1, Zenon
  <2>4. i - Len(w) \in DOMAIN ms
    BY <1>1, <2>1
  <2> QED
    BY <2>3, <2>4
<1> QED
  BY <1>1, <1>7, <1>8, <1>9 DEF WireGrown

\* m_wbuffer after the messages ms but the first k were put into it.
LEMMA BufferGrows ==
  ASSUME NEW b \in Seq(Msgs), NEW ms \in Seq(Msgs), NEW k \in 0 .. Len(ms),
         NEW b2, b2 = b \o SubSeq(ms, k + 1, Len(ms))
  PROVE  BufferGrown(b, Len(b), ms, Len(ms), k, b2)
<1> DEFINE s == SubSeq(ms, k + 1, Len(ms))
<1>1. Len(b) \in Nat /\ Len(ms) \in Nat /\ k \in Nat /\ DOMAIN ms = 1 .. Len(ms) /\ DOMAIN b = 1 .. Len(b)
  BY LenProperties
<1>2. /\ s \in Seq(Msgs) /\ Len(s) = Len(ms) - k
      /\ \A i \in 1 .. Len(ms) - k : s[i] = ms[k + i]
  BY Parts
<1> HIDE DEF s
<1>3. /\ b \o s \in Seq(Msgs) /\ Len(b \o s) = Len(b) + (Len(ms) - k)
      /\ \A i \in 1 .. Len(b) + (Len(ms) - k) : (b \o s)[i] = IF i <= Len(b) THEN b[i] ELSE s[i - Len(b)]
  <2>1. s \in Seq(Msgs) /\ Len(s) = Len(ms) - k
    BY <1>2
  <2>2. /\ b \o s \in Seq(Msgs) /\ Len(b \o s) = Len(b) + Len(s)
        /\ \A i \in 1 .. Len(b) + Len(s) : (b \o s)[i] = IF i <= Len(b) THEN b[i] ELSE s[i - Len(b)]
    BY <2>1, ConcatProperties
  <2> QED
    BY <2>1, <2>2
<1>4. b2 = b \o s
  BY DEF s
<1>5. DOMAIN b2 = 1 .. Len(b) + (Len(ms) - k)
  BY <1>3, <1>4, LenProperties
<1>6. \A i \in 1 .. Len(b) : b2[i] = b[i]
  BY <1>1, <1>3, <1>4
<1>7. ASSUME NEW i \in Len(b) + 1 .. Len(b) + (Len(ms) - k)
      PROVE  i - Len(b) + k \in DOMAIN ms /\ b2[i] = ms[i - Len(b) + k]
  <2>1. /\ i - Len(b) \in 1 .. Len(ms) - k /\ i \in 1 .. Len(b) + (Len(ms) - k) /\ ~(i <= Len(b))
        /\ i - Len(b) + k \in 1 .. Len(ms) /\ i - Len(b) + k > k /\ k + (i - Len(b)) = i - Len(b) + k
    BY <1>1
  <2> QED
    BY <1>1, <1>2, <1>3, <1>4, <2>1
<1> QED
  BY <1>1, <1>5, <1>6, <1>7 DEF BufferGrown

\* The sequences of the model hold numbers.
LEMMA Numbers ==
  ASSUME NEW w \in Seq(Entries), NEW b \in Seq(Msgs)
  PROVE  Numbered(w, b)
<1>1. \A n \in Msgs : n \in Nat
  BY SessionAssumption DEF Msgs
<1>2. \A e \in Entries : e.msg \in Msgs
  BY DEF Entries
<1>3. \A i \in DOMAIN w : w[i] \in Entries
  BY LenProperties, ElementOfSeq
<1>4. \A i \in DOMAIN b : b[i] \in Msgs
  BY LenProperties, ElementOfSeq
<1> QED
  BY <1>1, <1>2, <1>3, <1>4 DEF Numbered

\* asyncnet::send keeps the order if what it is given is younger than what
\* the connection was given before: w of length n and b of length l grow by
\* the first k of the m messages ms and by the others.
LEMMA DirectOrder ==
  ASSUME NEW n, NEW l, NEW m, NEW k, NEW w, NEW b, NEW ms, NEW w2, NEW b2,
         WireGrown(w, n, ms, k, "direct", w2), BufferGrown(b, l, ms, m, k, b2),
         Numbered(w, b), Numbered(w, ms), k # 0 => l = 0,
         Sorted(ms), Ordered(w, b), \A i \in DOMAIN ms : Upto(w, b, ms[i])
  PROVE  Ordered(w2, b2)
<1>a. /\ n \in Nat /\ l \in Nat /\ m \in Nat /\ k \in 0 .. m
      /\ DOMAIN w = 1 .. n /\ DOMAIN b = 1 .. l /\ DOMAIN ms = 1 .. m
      /\ DOMAIN w2 = 1 .. n + k /\ DOMAIN b2 = 1 .. l + (m - k)
      /\ \A i \in 1 .. n : w2[i] = w[i] /\ w[i].msg \in Nat
      /\ \A i \in 1 .. l : b2[i] = b[i] /\ b[i] \in Nat
      /\ \A i \in 1 .. m : ms[i] \in Nat
      /\ \A i \in n + 1 .. n + k : w2[i].msg = ms[i - n]
      /\ \A i \in l + 1 .. l + (m - k) : b2[i] = ms[i - l + k]
  BY DEF WireGrown, BufferGrown, Numbered
<1> USE <1>a
<1>1. /\ \A i \in 1 .. n, j \in 1 .. m : w[i].msg <= ms[j]
      /\ \A i \in 1 .. l, j \in 1 .. m : b[i] <= ms[j]
      /\ \A i, j \in 1 .. m : i <= j => ms[i] <= ms[j]
  BY DEF Upto, Sorted
<1>5. /\ \A i, j \in 1 .. l : i <= j => b[i] <= b[j]
      /\ \A i \in 1 .. n, j \in 1 .. l : w[i].msg > b[j] => w[i].way = "foreign"
  BY DEF Ordered, Sorted
<1>2. Sorted(b2)
  <2>1. SUFFICES ASSUME NEW i \in 1 .. l + (m - k), NEW j \in 1 .. l + (m - k), i <= j
                 PROVE  b2[i] <= b2[j]
    BY DEF Sorted
  <2>2. CASE j <= l
    <3>1. i \in 1 .. l /\ j \in 1 .. l /\ b2[i] = b[i] /\ b2[j] = b[j]
      BY <2>2, <2>1
    <3> QED
      BY <1>5, <2>1, <3>1
  <2>3. CASE i <= l /\ ~(j <= l)
    <3>1. i \in 1 .. l /\ j - l + k \in 1 .. m /\ j \in l + 1 .. l + (m - k)
      BY <2>3
    <3> QED
      BY <1>1, <3>1
  <2>4. CASE ~(i <= l) /\ ~(j <= l)
    <3>1. /\ i - l + k \in 1 .. m /\ i \in l + 1 .. l + (m - k)
          /\ j - l + k \in 1 .. m /\ j \in l + 1 .. l + (m - k)
          /\ i - l + k <= j - l + k
      BY <2>1, <2>4
    <3> QED
      BY <1>1, <3>1
  <2> QED
    BY <2>1, <2>2, <2>3, <2>4
<1>3. ASSUME NEW i \in 1 .. n + k, NEW j \in 1 .. l + (m - k), w2[i].msg > b2[j]
      PROVE  w2[i].way = "foreign"
  <2>1. CASE i <= n /\ j <= l
    <3>1. i \in 1 .. n /\ j \in 1 .. l /\ w2[i] = w[i] /\ b2[j] = b[j]
      BY <2>1
    <3> QED
      BY <1>3, <1>5, <3>1
  <2>2. CASE i <= n /\ ~(j <= l)
    <3>1. i \in 1 .. n /\ j - l + k \in 1 .. m /\ j \in l + 1 .. l + (m - k)
      BY <2>2
    <3>2. w2[i].msg <= b2[j] /\ w2[i].msg \in Nat /\ b2[j] \in Nat
      BY <1>1, <3>1
    <3> QED
      BY <1>3, <3>2
  <2>3. CASE ~(i <= n)
    <3>1. /\ i - n \in 1 .. m /\ i \in n + 1 .. n + k /\ l = 0
          /\ j - l + k \in 1 .. m /\ j \in l + 1 .. l + (m - k)
          /\ i - n <= j - l + k
      BY <2>3
    <3>2. w2[i].msg <= b2[j] /\ w2[i].msg \in Nat /\ b2[j] \in Nat
      BY <1>1, <3>1
    <3> QED
      BY <1>3, <3>2
  <2> QED
    BY <2>1, <2>2, <2>3
<1>4. ASSUME NEW i \in 1 .. n + k, NEW j \in 1 .. n + k, i < j, w2[i].msg > w2[j].msg
      PROVE  w2[i].way = "foreign" /\ w2[j].way = "buffer"
  <2>1. CASE j <= n
    <3>1. i \in DOMAIN w /\ j \in DOMAIN w /\ w2[i] = w[i] /\ w2[j] = w[j]
      BY <1>4, <2>1
    <3> QED
      BY <1>4, <3>1 DEF Ordered
  <2>2. CASE ~(j <= n)
    <3>1. j - n \in 1 .. m /\ j \in n + 1 .. n + k
      BY <2>2
    <3>2. w2[i].msg <= w2[j].msg /\ w2[i].msg \in Nat /\ w2[j].msg \in Nat
      <4>1. CASE i <= n
        BY <1>1, <3>1, <4>1
      <4>2. CASE ~(i <= n)
        <5>1. i - n \in 1 .. m /\ i \in n + 1 .. n + k /\ i - n <= j - n
          BY <1>4, <4>2
        <5> QED
          BY <1>1, <3>1, <5>1
      <4> QED
        BY <4>1, <4>2
    <3> QED
      BY <1>4, <3>2
  <2> QED
    BY <2>1, <2>2
<1> QED
  BY <1>2, <1>3, <1>4 DEF Ordered

\* asyncnet::__send keeps the order: the first k of the l messages b go from
\* m_wbuffer to the wire.
LEMMA BufferOrder ==
  ASSUME NEW n, NEW l \in Nat, NEW k \in 0 .. l, NEW w, NEW b, NEW w2, NEW b2,
         WireGrown(w, n, b, k, "buffer", w2), Numbered(w, b), Ordered(w, b),
         DOMAIN b = 1 .. l, DOMAIN b2 = 1 .. l - k, \A i \in 1 .. l - k : b2[i] = b[k + i]
  PROVE  Ordered(w2, b2)
<1>a. /\ n \in Nat /\ DOMAIN w = 1 .. n /\ DOMAIN w2 = 1 .. n + k
      /\ \A i \in 1 .. n : w2[i] = w[i] /\ w[i].msg \in Nat
      /\ \A i \in 1 .. l : b[i] \in Nat
      /\ \A i \in n + 1 .. n + k : w2[i].msg = b[i - n] /\ w2[i].way = "buffer"
  BY DEF WireGrown, Numbered
<1> USE <1>a
<1>1. /\ \A i, j \in 1 .. l : i <= j => b[i] <= b[j]
      /\ \A i \in 1 .. n, j \in 1 .. l : w[i].msg > b[j] => w[i].way = "foreign"
  BY DEF Ordered, Sorted
<1>2. Sorted(b2)
  <2>1. SUFFICES ASSUME NEW i \in 1 .. l - k, NEW j \in 1 .. l - k, i <= j
                 PROVE  b2[i] <= b2[j]
    BY DEF Sorted
  <2>2. k + i \in 1 .. l /\ k + j \in 1 .. l /\ k + i <= k + j
    BY <2>1
  <2> QED
    BY <1>1, <2>2
<1>3. ASSUME NEW i \in 1 .. n + k, NEW j \in 1 .. l - k, w2[i].msg > b2[j]
      PROVE  w2[i].way = "foreign"
  <2>1. k + j \in 1 .. l /\ b2[j] = b[k + j]
    OBVIOUS
  <2>2. CASE i <= n
    BY <1>1, <1>3, <2>1, <2>2
  <2>3. CASE ~(i <= n)
    <3>1. i - n \in 1 .. l /\ i \in n + 1 .. n + k /\ i - n <= k + j
      BY <2>3
    <3>2. w2[i].msg = b[i - n]
      BY <3>1
    <3> QED
      BY <1>1, <1>3, <2>1, <3>1, <3>2
  <2> QED
    BY <2>2, <2>3
<1>4. ASSUME NEW i \in 1 .. n + k, NEW j \in 1 .. n + k, i < j, w2[i].msg > w2[j].msg
      PROVE  w2[i].way = "foreign" /\ w2[j].way = "buffer"
  <2>1. CASE j <= n
    <3>1. i \in DOMAIN w /\ j \in DOMAIN w /\ w2[i] = w[i] /\ w2[j] = w[j]
      BY <1>4, <2>1
    <3> QED
      BY <1>4, <3>1 DEF Ordered
  <2>2. CASE ~(j <= n)
    <3>1. j - n \in 1 .. l /\ j \in n + 1 .. n + k
      BY <2>2
    <3>2. w2[j].msg = b[j - n] /\ w2[j].way = "buffer"
      BY <3>1
    <3>3. CASE i <= n
      BY <1>1, <1>4, <3>1, <3>2, <3>3
    <3>4. CASE ~(i <= n)
      <4>1. i - n \in 1 .. l /\ i \in n + 1 .. n + k /\ i - n <= j - n
        BY <1>4, <3>4
      <4>2. w2[i].msg = b[i - n]
        BY <4>1
      <4> QED
        BY <1>1, <1>4, <3>1, <3>2, <4>1, <4>2
    <3> QED
      BY <3>3, <3>4
  <2> QED
    BY <2>1, <2>2
<1> QED
  BY <1>2, <1>3, <1>4 DEF Ordered

\* asyncnet::send of the messages ms, of which the socket takes k.
LEMMA DirectKeeps ==
  ASSUME NEW w \in Seq(Entries), NEW b \in Seq(Msgs), NEW ms \in Seq(Msgs),
         NEW k \in 0 .. Len(ms), k # 0 => b = <<>>,
         Sorted(ms), Ordered(w, b), \A i \in DOMAIN ms : Upto(w, b, ms[i]),
         NEW w2, w2 = w \o Written(SubSeq(ms, 1, k), "direct"),
         NEW b2, b2 = b \o SubSeq(ms, k + 1, Len(ms))
  PROVE  Ordered(w2, b2)
<1>1. "direct" \in Ways
  BY DEF Ways
<1>2. WireGrown(w, Len(w), ms, k, "direct", w2)
  BY <1>1, WireGrows
<1>3. BufferGrown(b, Len(b), ms, Len(ms), k, b2)
  BY BufferGrows
<1>4. Numbered(w, b) /\ Numbered(w, ms)
  BY Numbers
<1>5. k # 0 => Len(b) = 0
  BY EmptySeq
<1> QED
  BY <1>2, <1>3, <1>4, <1>5, DirectOrder

\* Its connection gets no message younger than x, if it is given none.
LEMMA DirectUpto ==
  ASSUME NEW w \in Seq(Entries), NEW b \in Seq(Msgs), NEW ms \in Seq(Msgs),
         NEW k \in 0 .. Len(ms),
         NEW x, Upto(w, b, x), \A i \in DOMAIN ms : ms[i] <= x,
         NEW w2, w2 = w \o Written(SubSeq(ms, 1, k), "direct"),
         NEW b2, b2 = b \o SubSeq(ms, k + 1, Len(ms))
  PROVE  Upto(w2, b2, x)
<1>1. "direct" \in Ways
  BY DEF Ways
<1>2. WireGrown(w, Len(w), ms, k, "direct", w2)
  BY <1>1, WireGrows
<1>3. BufferGrown(b, Len(b), ms, Len(ms), k, b2)
  BY BufferGrows
<1>4. ASSUME NEW i \in DOMAIN w2 PROVE w2[i].msg <= x
  <2>1. (i \in DOMAIN w /\ w2[i] = w[i]) \/ (i - Len(w) \in DOMAIN ms /\ w2[i].msg = ms[i - Len(w)])
    BY <1>2, k \in Nat DEF WireGrown
  <2>2. CASE i \in DOMAIN w /\ w2[i] = w[i]
    BY <2>2 DEF Upto
  <2>3. CASE i - Len(w) \in DOMAIN ms /\ w2[i].msg = ms[i - Len(w)]
    BY <2>3
  <2> QED
    BY <2>1, <2>2, <2>3
<1>5. ASSUME NEW i \in DOMAIN b2 PROVE b2[i] <= x
  <2>1. (i \in DOMAIN b /\ b2[i] = b[i]) \/ (i - Len(b) + k \in DOMAIN ms /\ b2[i] = ms[i - Len(b) + k])
    <3>1. CASE i \in 1 .. Len(b)
      BY <1>3, <3>1 DEF BufferGrown
    <3>2. CASE i \in Len(b) + 1 .. Len(b) + (Len(ms) - k)
      BY <1>3, <3>2 DEF BufferGrown
    <3>3. i \in 1 .. Len(b) \/ i \in Len(b) + 1 .. Len(b) + (Len(ms) - k)
      BY <1>3 DEF BufferGrown
    <3> QED
      BY <3>1, <3>2, <3>3
  <2>2. CASE i \in DOMAIN b /\ b2[i] = b[i]
    BY <2>2 DEF Upto
  <2>3. CASE i - Len(b) + k \in DOMAIN ms /\ b2[i] = ms[i - Len(b) + k]
    BY <2>3
  <2> QED
    BY <2>1, <2>2, <2>3
<1> QED
  BY <1>4, <1>5 DEF Upto

\* The messages after the first k, which were written, are younger.
LEMMA DirectBelow ==
  ASSUME NEW w \in Seq(Entries), NEW b, NEW ms \in Seq(Msgs), NEW k \in 0 .. Len(ms),
         Sorted(ms), NEW j \in DOMAIN ms, k < j, Upto(w, b, ms[j]),
         NEW w2, w2 = w \o Written(SubSeq(ms, 1, k), "direct")
  PROVE  Upto(w2, <<>>, ms[j])
<1>1. "direct" \in Ways
  BY DEF Ways
<1>2. WireGrown(w, Len(w), ms, k, "direct", w2)
  BY <1>1, WireGrows
<1>3. k \in Nat /\ j \in Nat
  BY LenProperties
<1>4. ASSUME NEW i \in DOMAIN w2 PROVE w2[i].msg <= ms[j]
  <2>1. \/ i \in DOMAIN w /\ w2[i] = w[i]
        \/ i - Len(w) \in DOMAIN ms /\ w2[i].msg = ms[i - Len(w)] /\ i - Len(w) <= j
    BY <1>2, <1>3 DEF WireGrown
  <2> QED
    BY <2>1 DEF Upto, Sorted
<1>5. DOMAIN <<>> = {}
  OBVIOUS
<1> QED
  BY <1>4, <1>5 DEF Upto

\* asyncnet::__send of the first k messages of m_wbuffer.
LEMMA BufferKeeps ==
  ASSUME NEW w \in Seq(Entries), NEW b \in Seq(Msgs), NEW k \in 0 .. Len(b), Ordered(w, b),
         NEW w2, w2 = w \o Written(SubSeq(b, 1, k), "buffer"),
         NEW b2, b2 = SubSeq(b, k + 1, Len(b))
  PROVE  /\ Ordered(w2, b2)
         /\ \A x : Upto(w, b, x) => Upto(w2, b2, x)
<1>1. "buffer" \in Ways
  BY DEF Ways
<1>2. WireGrown(w, Len(w), b, k, "buffer", w2)
  BY <1>1, WireGrows
<1>3. /\ Len(b) \in Nat /\ DOMAIN b = 1 .. Len(b) /\ DOMAIN b2 = 1 .. Len(b) - k
      /\ \A i \in 1 .. Len(b) - k : b2[i] = b[k + i]
  <2>1. b2 \in Seq(Msgs) /\ Len(b2) = Len(b) - k /\ \A i \in 1 .. Len(b) - k : b2[i] = b[k + i]
    BY Parts
  <2> QED
    BY <2>1, LenProperties
<1>4. Numbered(w, b)
  BY Numbers
<1>5. Ordered(w2, b2)
  BY <1>2, <1>3, <1>4, BufferOrder
<1>6. ASSUME NEW x, Upto(w, b, x) PROVE Upto(w2, b2, x)
  <2>1. ASSUME NEW i \in DOMAIN w2 PROVE w2[i].msg <= x
    <3>1. (i \in DOMAIN w /\ w2[i] = w[i]) \/ (i - Len(w) \in DOMAIN b /\ w2[i].msg = b[i - Len(w)])
      BY <1>2, <1>3 DEF WireGrown
    <3> QED
      BY <1>6, <3>1 DEF Upto
  <2>2. ASSUME NEW i \in DOMAIN b2 PROVE b2[i] <= x
    <3>1. k + i \in DOMAIN b /\ b2[i] = b[k + i]
      BY <1>3
    <3> QED
      BY <1>6, <3>1 DEF Upto
  <2> QED
    BY <2>1, <2>2 DEF Upto
<1> QED
  BY <1>5, <1>6

\* A foreign thread writes n, the youngest message, past those in m_wbuffer.
LEMMA ForeignKeeps ==
  ASSUME NEW w \in Seq(Entries), NEW b \in Seq(Msgs), NEW n \in Msgs,
         Ordered(w, b), Upto(w, b, n),
         NEW w2, w2 = Append(w, [msg |-> n, way |-> "foreign"])
  PROVE  Ordered(w2, b) /\ Upto(w2, b, n)
<1>1. [msg |-> n, way |-> "foreign"] \in Entries /\ n \in Nat
  BY SessionAssumption DEF Entries, Ways, Msgs
<1>2. /\ w2 \in Seq(Entries) /\ Len(w2) = Len(w) + 1
      /\ \A i \in 1 .. Len(w) : w2[i] = w[i]
      /\ w2[Len(w) + 1] = [msg |-> n, way |-> "foreign"]
  BY <1>1, AppendProperties
<1>3. w2[Len(w) + 1].msg = n /\ w2[Len(w) + 1].way = "foreign"
  BY <1>2
<1>4. Len(w) \in Nat /\ DOMAIN w = 1 .. Len(w) /\ DOMAIN w2 = 1 .. Len(w) + 1
  BY <1>2, LenProperties
<1>5. Numbered(w, b)
  BY Numbers
<1>6. \A i \in DOMAIN w : w[i].msg \in Nat /\ w[i].msg <= n
  BY <1>5 DEF Upto, Numbered
<1>7. \A i \in DOMAIN w2 : (i \in DOMAIN w /\ w2[i] = w[i]) \/ i = Len(w) + 1
  BY <1>2, <1>4
<1>8. Upto(w2, b, n)
  BY <1>1, <1>3, <1>6, <1>7 DEF Upto
<1>9. \A i \in DOMAIN w2, j \in DOMAIN b : w2[i].msg > b[j] => w2[i].way = "foreign"
  BY <1>3, <1>7 DEF Ordered
<1>10. ASSUME NEW i \in DOMAIN w2, NEW j \in DOMAIN w2, i < j, w2[i].msg > w2[j].msg
       PROVE  w2[i].way = "foreign" /\ w2[j].way = "buffer"
  <2>1. i \in DOMAIN w /\ w2[i] = w[i]
    BY <1>4, <1>7, <1>10
  <2>2. j \in DOMAIN w /\ w2[j] = w[j]
    BY <1>1, <1>3, <1>6, <1>7, <1>10, <2>1
  <2> QED
    BY <1>10, <2>1, <2>2 DEF Ordered
<1> QED
  BY <1>8, <1>9, <1>10 DEF Ordered

-----------------------------------------------------------------------------
(* Only a foreign write overtakes *)

\* Parked messages and those of each connection are in order; no message of
\* a connection is younger than one that is parked, or than the last send.
OrderInv ==
  /\ Sorted(m_list)
  /\ \A i \in DOMAIN m_list : m_list[i] <= sent
  /\ \A c \in Conns :
       /\ Ordered(wire[c], m_wbuffer[c])
       /\ Upto(wire[c], m_wbuffer[c], sent)
       /\ \A i \in DOMAIN m_list : Upto(wire[c], m_wbuffer[c], m_list[i])

\* What comes later is younger still.
LEMMA UptoLater ==
  ASSUME NEW w \in Seq(Entries), NEW b \in Seq(Msgs), NEW m \in Nat, NEW n \in Nat, m <= n,
         Upto(w, b, m)
  PROVE  Upto(w, b, n)
<1>1. Numbered(w, b)
  BY Numbers
<1> QED
  BY <1>1 DEF Upto, Numbered

\* Hand keeps the order, if the messages ms come in order after those of c.
LEMMA HandKeeps ==
  ASSUME TypeOK, NEW c \in Conns, NEW ms \in Seq(Msgs), Hand(c, ms),
         Sorted(ms), NEW n, \A i \in DOMAIN ms : ms[i] <= n,
         \A d \in Conns :
           /\ Ordered(wire[d], m_wbuffer[d])
           /\ Upto(wire[d], m_wbuffer[d], n)
           /\ \A i \in DOMAIN ms : Upto(wire[d], m_wbuffer[d], ms[i])
  PROVE  /\ Sorted(m_list')
         /\ \A i \in DOMAIN m_list' : m_list'[i] <= n
         /\ \A d \in Conns :
              /\ Ordered(wire'[d], m_wbuffer'[d])
              /\ Upto(wire'[d], m_wbuffer'[d], n)
              /\ \A i \in DOMAIN m_list' : Upto(wire'[d], m_wbuffer'[d], m_list'[i])
<1>1. PICK k \in 0 .. Len(ms) :
        /\ k # 0 => m_wbuffer[c] = <<>>
        /\ wire' = [wire EXCEPT ![c] = @ \o Written(SubSeq(ms, 1, k), "direct")]
        /\ \/ /\ m_wbuffer' = [m_wbuffer EXCEPT ![c] = @ \o SubSeq(ms, k + 1, Len(ms))]
              /\ m_list' = <<>>
           \/ /\ k < Len(ms) /\ m_wbuffer[c] = <<>>
              /\ m_list' = SubSeq(ms, k + 2, Len(ms))
              /\ UNCHANGED m_wbuffer
  BY DEF Hand
<1> DEFINE w == wire[c]
           b == m_wbuffer[c]
           w2 == w \o Written(SubSeq(ms, 1, k), "direct")
           b2 == b \o SubSeq(ms, k + 1, Len(ms))
<1>2. w \in Seq(Entries) /\ b \in Seq(Msgs)
  BY DEF TypeOK, Entries
<1>3. Ordered(w2, b2) /\ Upto(w2, b2, n)
  <2>1. /\ Sorted(ms) /\ Ordered(w, b) /\ (\A i \in DOMAIN ms : Upto(w, b, ms[i]))
        /\ Upto(w, b, n) /\ (k # 0 => b = <<>>)
    BY <1>1
  <2>2. w2 = w \o Written(SubSeq(ms, 1, k), "direct") /\ b2 = b \o SubSeq(ms, k + 1, Len(ms))
    OBVIOUS
  <2> HIDE DEF w, b, w2, b2
  <2>3. Ordered(w2, b2)
    BY <1>2, <2>1, <2>2, DirectKeeps
  <2>4. Upto(w2, b2, n)
    BY <1>2, <2>1, <2>2, DirectUpto
  <2> QED
    BY <2>3, <2>4
<1>4. /\ wire'[c] = w2
      /\ \A d \in Conns \ {c} : wire'[d] = wire[d] /\ m_wbuffer'[d] = m_wbuffer[d]
  BY <1>1 DEF TypeOK
<1>5. CASE /\ m_wbuffer' = [m_wbuffer EXCEPT ![c] = @ \o SubSeq(ms, k + 1, Len(ms))]
           /\ m_list' = <<>>
  <2>1. m_wbuffer'[c] = b2
    BY <1>5 DEF TypeOK
  <2>2. Ordered(w2, b2) /\ Upto(w2, b2, n)
    BY <1>3
  <2>3. \A i \in DOMAIN m_list' : FALSE
    BY <1>5
  <2> HIDE DEF w2, b2
  <2> QED
    BY <1>4, <2>1, <2>2, <2>3, Zenon DEF Sorted
<1>6. CASE /\ k < Len(ms) /\ m_wbuffer[c] = <<>>
           /\ m_list' = SubSeq(ms, k + 2, Len(ms))
           /\ UNCHANGED m_wbuffer
  <2>1. m_wbuffer'[c] = <<>>
    BY <1>6
  <2>2. Ordered(w2, <<>>) /\ Upto(w2, <<>>, n)
    <3>1. Ordered(w2, b2) /\ Upto(w2, b2, n)
      BY <1>3
    <3>2. DOMAIN <<>> = {}
      OBVIOUS
    <3> HIDE DEF w2, b2
    <3> QED
      BY <3>1, <3>2, Zenon DEF Ordered, Sorted, Upto
  <2>3. /\ Len(ms) \in Nat /\ DOMAIN ms = 1 .. Len(ms)
        /\ k + 1 \in 0 .. Len(ms) /\ k + 1 + 1 = k + 2 /\ k + 1 \in Nat
    BY <1>6, LenProperties
  <2>4. /\ m_list' \in Seq(Msgs) /\ Len(m_list') = Len(ms) - (k + 1)
        /\ \A i \in 1 .. Len(ms) - (k + 1) : m_list'[i] = ms[k + 1 + i]
    <3>1. m_list' = SubSeq(ms, k + 1 + 1, Len(ms))
      BY <1>6, <2>3
    <3> QED
      BY <2>3, <3>1, Parts
  <2>5. /\ DOMAIN m_list' = 1 .. Len(ms) - (k + 1)
        /\ \A i \in DOMAIN m_list' : k + 1 + i \in DOMAIN ms /\ m_list'[i] = ms[k + 1 + i]
    <3>1. DOMAIN m_list' = 1 .. Len(ms) - (k + 1)
      BY <2>4, LenProperties
    <3>2. ASSUME NEW i \in DOMAIN m_list' PROVE k + 1 + i \in DOMAIN ms
      BY <2>3, <3>1
    <3> QED
      BY <2>4, <3>1, <3>2
  <2>6. Sorted(m_list')
    BY <2>3, <2>5 DEF Sorted
  <2>7. \A i \in DOMAIN m_list' : m_list'[i] <= n
    BY <2>5
  <2>8. ASSUME NEW i \in DOMAIN m_list' PROVE Upto(w2, <<>>, m_list'[i])
    <3>1. Upto(w, b, ms[k + 1 + i]) /\ k + 1 + i \in DOMAIN ms /\ k < k + 1 + i
      BY <2>3, <2>5
    <3>2. Upto(w2, <<>>, ms[k + 1 + i])
      BY <1>2, <3>1, DirectBelow
    <3> QED
      BY <2>5, <3>2
  <2> HIDE DEF w2
  <2> QED
    BY <1>4, <1>6, <2>1, <2>2, <2>6, <2>7, <2>8
<1> QED
  BY <1>1, <1>5, <1>6

\* A step that leaves what was parked, buffered and written alone.
LEMMA SameOrder ==
  ASSUME OrderInv, UNCHANGED <<m_list, m_wbuffer, wire, sent>>
  PROVE  OrderInv'
BY DEF OrderInv

\* Putting the youngest message behind those parked.
LEMMA ParkKeeps ==
  ASSUME TypeOK, NEW n \in Msgs, sent' = n, sent <= n, OrderInv,
         m_list' = Append(m_list, n), UNCHANGED <<m_wbuffer, wire>>
  PROVE  OrderInv'
<1>1. /\ Len(m_list) \in Nat /\ DOMAIN m_list = 1 .. Len(m_list)
      /\ DOMAIN m_list' = 1 .. Len(m_list) + 1
      /\ \A i \in 1 .. Len(m_list) : m_list'[i] = m_list[i] /\ m_list[i] \in Nat
      /\ m_list'[Len(m_list) + 1] = n /\ n \in Nat /\ sent \in Nat
  <2>1. m_list \in Seq(Msgs) /\ n \in Nat /\ sent \in Nat
    BY SessionAssumption DEF TypeOK, Msgs
  <2>2. /\ Append(m_list, n) \in Seq(Msgs) /\ Len(Append(m_list, n)) = Len(m_list) + 1
        /\ \A i \in 1 .. Len(m_list) : Append(m_list, n)[i] = m_list[i]
        /\ Append(m_list, n)[Len(m_list) + 1] = n
    BY <2>1, AppendProperties
  <2>3. Len(m_list) \in Nat /\ DOMAIN m_list = 1 .. Len(m_list)
        /\ DOMAIN Append(m_list, n) = 1 .. Len(m_list) + 1
    BY <2>1, <2>2, LenProperties
  <2>4. \A i \in 1 .. Len(m_list) : m_list[i] \in Nat
    <3>1. \A i \in 1 .. Len(m_list) : m_list[i] \in Msgs
      BY <2>1, ElementOfSeq
    <3>2. \A m \in Msgs : m \in Nat
      BY SessionAssumption DEF Msgs
    <3> QED
      BY <3>1, <3>2
  <2> QED
    BY <2>1, <2>2, <2>3, <2>4
<1>2. \A i \in DOMAIN m_list' : (i \in DOMAIN m_list /\ m_list'[i] = m_list[i]) \/ i = Len(m_list) + 1
  BY <1>1
<1>3. \A i \in DOMAIN m_list : m_list[i] <= sent /\ m_list[i] <= n
  BY <1>1 DEF OrderInv
<1>4. Sorted(m_list')
  <2> SUFFICES ASSUME NEW i \in DOMAIN m_list', NEW j \in DOMAIN m_list', i <= j
               PROVE  m_list'[i] <= m_list'[j]
    BY DEF Sorted
  <2>1. CASE j = Len(m_list) + 1
    BY <1>1, <1>2, <1>3, <2>1
  <2>2. CASE j # Len(m_list) + 1
    <3>1. /\ i \in DOMAIN m_list /\ j \in DOMAIN m_list
          /\ m_list'[i] = m_list[i] /\ m_list'[j] = m_list[j]
      BY <1>1, <2>2
    <3> QED
      BY <3>1 DEF OrderInv, Sorted
  <2> QED
    BY <2>1, <2>2
<1>5. \A i \in DOMAIN m_list' : m_list'[i] <= sent'
  BY <1>1, <1>2, <1>3
<1>6. ASSUME NEW c \in Conns
      PROVE  /\ Ordered(wire[c], m_wbuffer[c]) /\ Upto(wire[c], m_wbuffer[c], n)
             /\ \A i \in DOMAIN m_list' : Upto(wire[c], m_wbuffer[c], m_list'[i])
  <2>1. wire[c] \in Seq(Entries) /\ m_wbuffer[c] \in Seq(Msgs)
    BY DEF TypeOK, Entries
  <2>2. Ordered(wire[c], m_wbuffer[c]) /\ Upto(wire[c], m_wbuffer[c], sent)
    BY DEF OrderInv
  <2>3. Upto(wire[c], m_wbuffer[c], n)
    BY <1>1, <2>1, <2>2, UptoLater
  <2>4. ASSUME NEW i \in DOMAIN m_list' PROVE Upto(wire[c], m_wbuffer[c], m_list'[i])
    <3>1. CASE i \in DOMAIN m_list /\ m_list'[i] = m_list[i]
      BY <3>1 DEF OrderInv
    <3>2. CASE i = Len(m_list) + 1
      BY <1>1, <2>3, <3>2
    <3> QED
      BY <1>2, <3>1, <3>2
  <2> QED
    BY <2>2, <2>3, <2>4
<1> QED
  BY <1>4, <1>5, <1>6 DEF OrderInv

LEMMA OrderStep == TypeOK /\ NoticeInv /\ OrderInv /\ [Next]_vars => OrderInv'
<1> SUFFICES ASSUME TypeOK, NoticeInv, OrderInv, [Next]_vars PROVE OrderInv'
  OBVIOUS
<1>a. \A c \in Conns : wire[c] \in Seq(Entries) /\ m_wbuffer[c] \in Seq(Msgs)
  BY DEF TypeOK, Entries
<1>b. sent \in Nat /\ sent + 1 \in Nat /\ sent <= sent + 1
  BY SessionAssumption DEF TypeOK
<1>c. \A c \in Conns : Ordered(wire[c], m_wbuffer[c]) /\ Upto(wire[c], m_wbuffer[c], sent + 1)
  BY <1>a, <1>b, UptoLater DEF OrderInv
<1>d. ASSUME NEW c \in Conns, Hand(c, m_list), sent' = sent PROVE OrderInv'
  <2>1. m_list \in Seq(Msgs)
    BY DEF TypeOK
  <2>2. /\ Sorted(m_list')
        /\ \A i \in DOMAIN m_list' : m_list'[i] <= sent
        /\ \A d \in Conns :
             /\ Ordered(wire'[d], m_wbuffer'[d])
             /\ Upto(wire'[d], m_wbuffer'[d], sent)
             /\ \A i \in DOMAIN m_list' : Upto(wire'[d], m_wbuffer'[d], m_list'[i])
    BY <1>d, <2>1, HandKeeps DEF OrderInv
  <2> QED
    BY <1>d, <2>2 DEF OrderInv
<1>1. ASSUME NEW c \in Conns, SetClient(c) PROVE OrderInv'
  BY <1>1, <1>d DEF SetClient
<1>2. ASSUME NEW c \in Conns, Writable(c) PROVE OrderInv'
  <2>1. PICK k \in 1 .. Len(m_wbuffer[c]) :
          /\ wire' = [wire EXCEPT ![c] = @ \o Written(SubSeq(m_wbuffer[c], 1, k), "buffer")]
          /\ m_wbuffer' = [m_wbuffer EXCEPT ![c] = SubSeq(@, k + 1, Len(@))]
    BY <1>2 DEF Writable
  <2>2. k \in 0 .. Len(m_wbuffer[c])
    BY <1>a, LenProperties
  <2>3. /\ wire'[c] = wire[c] \o Written(SubSeq(m_wbuffer[c], 1, k), "buffer")
        /\ m_wbuffer'[c] = SubSeq(m_wbuffer[c], k + 1, Len(m_wbuffer[c]))
        /\ \A d \in Conns \ {c} : wire'[d] = wire[d] /\ m_wbuffer'[d] = m_wbuffer[d]
    BY <2>1 DEF TypeOK
  <2>4. Ordered(wire[c], m_wbuffer[c])
    BY DEF OrderInv
  <2>5. /\ Ordered(wire'[c], m_wbuffer'[c])
        /\ \A x : Upto(wire[c], m_wbuffer[c], x) => Upto(wire'[c], m_wbuffer'[c], x)
    BY <1>a, <2>2, <2>3, <2>4, BufferKeeps
  <2>6. UNCHANGED <<m_list, sent>>
    BY <1>2 DEF Writable
  <2> QED
    BY <2>3, <2>5, <2>6 DEF OrderInv
<1>3. ASSUME NEW c \in Conns, CloseConn(c) PROVE OrderInv'
  <2>1. /\ m_wbuffer'[c] = <<>> /\ \A d \in Conns \ {c} : m_wbuffer'[d] = m_wbuffer[d]
        /\ UNCHANGED <<m_list, wire, sent>>
    BY <1>3 DEF CloseConn, TypeOK
  <2>2. /\ Ordered(wire[c], m_wbuffer[c]) => Ordered(wire[c], <<>>)
        /\ \A x : Upto(wire[c], m_wbuffer[c], x) => Upto(wire[c], <<>>, x)
    BY DEF Ordered, Upto, Sorted
  <2> QED
    BY <2>1, <2>2 DEF OrderInv
<1>4. CASE Stop
  BY <1>4, SameOrder DEF Stop
<1>5. CASE SendParked
  <2>1. /\ sent + 1 \in Msgs /\ sent' = sent + 1
        /\ m_list' = Append(m_list, sent + 1) /\ UNCHANGED <<m_wbuffer, wire>>
    BY <1>5, <1>b, SessionAssumption DEF SendParked, Msgs
  <2> QED
    BY <1>b, <2>1, ParkKeeps
<1>6. CASE SendOwner
  <2>1. m_client \in Conns /\ sent + 1 \in Msgs /\ Hand(m_client, <<sent + 1>>) /\ sent' = sent + 1
    BY <1>6, <1>b, SessionAssumption DEF SendOwner, Valid, TypeOK, Msgs
  <2> DEFINE ms == <<sent + 1>>
  <2>2. ms \in Seq(Msgs) /\ DOMAIN ms = {1} /\ ms[1] = sent + 1
    BY <2>1
  <2>3. \A i \in DOMAIN ms : ms[i] = sent + 1
    BY <2>2
  <2>4. Sorted(ms) /\ \A i \in DOMAIN ms : ms[i] <= sent + 1
    BY <1>b, <2>3 DEF Sorted
  <2>5. Hand(m_client, ms)
    BY <2>1
  <2> HIDE DEF ms
  <2>6. /\ Sorted(m_list')
        /\ \A i \in DOMAIN m_list' : m_list'[i] <= sent + 1
        /\ \A d \in Conns :
             /\ Ordered(wire'[d], m_wbuffer'[d])
             /\ Upto(wire'[d], m_wbuffer'[d], sent + 1)
             /\ \A i \in DOMAIN m_list' : Upto(wire'[d], m_wbuffer'[d], m_list'[i])
    <3>1. \A d \in Conns :
            /\ Ordered(wire[d], m_wbuffer[d])
            /\ Upto(wire[d], m_wbuffer[d], sent + 1)
            /\ \A i \in DOMAIN ms : Upto(wire[d], m_wbuffer[d], ms[i])
      BY <1>c, <2>3
    <3> QED
      BY <2>1, <2>2, <2>4, <2>5, <3>1, HandKeeps
  <2> QED
    BY <2>1, <2>6 DEF OrderInv
<1>7. ASSUME NEW t \in Threads, SendForeign(t) PROVE OrderInv'
  <2>1. m_list = <<>> /\ sent' = sent + 1 /\ UNCHANGED <<m_list, m_wbuffer, wire>>
    BY <1>7 DEF SendForeign
  <2>2. \A i \in DOMAIN m_list : FALSE
    BY <2>1
  <2> QED
    BY <1>c, <2>1, <2>2, Zenon DEF OrderInv, Sorted
<1>8. ASSUME NEW t \in Threads, ForeignEnds(t) PROVE OrderInv'
  <2>1. sending[t] \in Conns /\ sent \in Msgs /\ m_list = <<>> /\ sent' = sent
    <3>1. sending[t] # NoConn /\ sending[t] \in Conns /\ sent' = sent
      BY <1>8 DEF ForeignEnds, ForeignWritten, ForeignStray, ForeignFull, ForeignError, TypeOK
    <3> QED
      BY <3>1 DEF NoticeInv, SendingInv, TypeOK, Msgs
  <2>2. CASE ForeignWritten(t)
    <3>1. /\ wire'[sending[t]] = Append(wire[sending[t]], [msg |-> sent, way |-> "foreign"])
          /\ \A d \in Conns \ {sending[t]} : wire'[d] = wire[d]
          /\ UNCHANGED <<m_list, m_wbuffer>>
      BY <2>1, <2>2 DEF ForeignWritten, TypeOK
    <3>2. Ordered(wire[sending[t]], m_wbuffer[sending[t]]) /\ Upto(wire[sending[t]], m_wbuffer[sending[t]], sent)
      BY <2>1 DEF OrderInv
    <3>3. Ordered(wire'[sending[t]], m_wbuffer[sending[t]]) /\ Upto(wire'[sending[t]], m_wbuffer[sending[t]], sent)
      BY <1>a, <2>1, <3>1, <3>2, ForeignKeeps
    <3>4. \A i \in DOMAIN m_list : FALSE
      BY <2>1
    <3>5. \A d \in Conns : Ordered(wire'[d], m_wbuffer'[d]) /\ Upto(wire'[d], m_wbuffer'[d], sent')
      BY <2>1, <3>1, <3>3 DEF OrderInv
    <3>6. m_list' = m_list
      BY <3>1
    <3> QED
      BY <3>4, <3>5, <3>6, Zenon DEF OrderInv, Sorted
  <2>3. CASE ForeignStray(t)
    BY <2>3, SameOrder DEF ForeignStray
  <2>4. CASE ForeignFull(t) \/ ForeignError(t)
    <3>1. m_list' = Append(m_list, sent) /\ UNCHANGED <<m_wbuffer, wire>>
      BY <2>4 DEF ForeignFull, ForeignError
    <3>2. sent <= sent
      BY <1>b
    <3> QED
      BY <2>1, <3>1, <3>2, ParkKeeps
  <2> QED
    BY <1>8, <2>2, <2>3, <2>4 DEF ForeignEnds
<1>9. ASSUME NEW t \in Threads, Notice(t) PROVE OrderInv'
  <2>1. CASE UNCHANGED <<m_list, conn, m_wbuffer, wire, gone>>
    BY <1>9, <2>1, SameOrder DEF Notice
  <2>2. CASE Valid /\ Hand(m_client, m_list)
    BY <1>9, <1>d, <2>2 DEF Notice, Valid, TypeOK
  <2> QED
    BY <1>9, <2>1, <2>2 DEF Notice
<1>10. CASE UNCHANGED vars
  BY <1>10, SameOrder DEF vars
<1> QED
  BY <1>1, <1>2, <1>3, <1>4, <1>5, <1>6, <1>7, <1>8, <1>9, <1>10 DEF Next

\* Messages arrive in the order of the sends, but that a foreign thread may
\* write past those its connection has in m_wbuffer.
THEOREM OnlyForeignReorders == Spec => []OnlyForeignOvertakes
<1>1. Init => OrderInv
  <2> SUFFICES ASSUME Init PROVE OrderInv
    OBVIOUS
  <2>1. m_list = <<>> /\ \A c \in Conns : wire[c] = <<>> /\ m_wbuffer[c] = <<>>
    BY DEF Init
  <2>2. DOMAIN <<>> = {}
    OBVIOUS
  <2> QED
    BY <2>1, <2>2 DEF OrderInv, Ordered, Sorted, Upto
<1>2. TypeOK /\ NoticeInv /\ OrderInv /\ [Next]_vars => OrderInv'
  BY OrderStep
<1>3. OrderInv => OnlyForeignOvertakes
  BY DEF OrderInv, Ordered, OnlyForeignOvertakes
<1> QED
  BY <1>1, <1>2, <1>3, NoticeInvariance, PTL DEF Spec

-----------------------------------------------------------------------------
(* Each message is in one place *)

Elems(s) == {s[i] : i \in DOMAIN s}

Once(s) == \A i, j \in DOMAIN s : s[i] = s[j] => i = j

\* The messages that were written to a connection.
Carried(w) == {w[i].msg : i \in DOMAIN w}

CarriedOnce(w) == \A i, j \in DOMAIN w : w[i].msg = w[j].msg => i = j

Disjoint(S, T) == S \cap T = {}

\* No message is twice in the sequences, nor in two of the four: ms, which
\* may still be handed to a connection, its m_wbuffer, its wire, and gone.
Separate(ms, b, w, g) ==
  /\ Once(ms) /\ Once(b) /\ CarriedOnce(w)
  /\ Disjoint(Elems(ms), Elems(b)) /\ Disjoint(Elems(ms), Carried(w)) /\ Disjoint(Elems(ms), g)
  /\ Disjoint(Elems(b), Carried(w)) /\ Disjoint(Elems(b), g) /\ Disjoint(Carried(w), g)

InConn(b, w) == Elems(b) \cup Carried(w)

\* The same for all connections, with what bs says is in their m_wbuffer and
\* ws was written.
AllSeparate(ms, bs, ws, g) ==
  /\ Once(ms) /\ Disjoint(Elems(ms), g)
  /\ \A c \in Conns : Separate(ms, bs[c], ws[c], g)
  /\ \A c, d \in Conns : c # d => Disjoint(InConn(bs[c], ws[c]), InConn(bs[d], ws[d]))

\* All messages that are in the four places.
AllOf(ms, bs, ws, g) == Elems(ms) \cup g \cup UNION {InConn(bs[c], ws[c]) : c \in Conns}

\* What is parked, or about to be written by the thread in __realsend.
Unwritten == IF MutexFree THEN m_list ELSE <<sent>>

PlaceInv ==
  /\ AllSeparate(Unwritten, m_wbuffer, wire, gone)
  /\ AllOf(Unwritten, m_wbuffer, wire, gone) = 1 .. sent

\* Some of the messages ms have gone to w2, the rest has not.
MovedApart(w, ms, w2, rest) ==
  /\ CarriedOnce(w2) /\ Once(rest) /\ Disjoint(Elems(rest), Carried(w2))
  /\ Carried(w2) \cup Elems(rest) = Carried(w) \cup Elems(ms)
  /\ Elems(rest) \subseteq Elems(ms)

\* The first k of the messages ms are written, the others are not.
LEMMA TakenApart ==
  ASSUME NEW w \in Seq(Entries), NEW ms \in Seq(Msgs), NEW k \in 0 .. Len(ms), NEW way \in Ways,
         Once(ms), CarriedOnce(w), Disjoint(Elems(ms), Carried(w)),
         NEW w2, w2 = w \o Written(SubSeq(ms, 1, k), way),
         NEW rest, rest = SubSeq(ms, k + 1, Len(ms))
  PROVE  MovedApart(w, ms, w2, rest)
<1> DEFINE n == Len(w)
           m == Len(ms)
<1>1. /\ n \in Nat /\ m \in Nat /\ k \in 0 .. m
      /\ DOMAIN w = 1 .. n /\ DOMAIN w2 = 1 .. n + k /\ DOMAIN ms = 1 .. m
      /\ \A i \in 1 .. n : w2[i] = w[i]
      /\ \A i \in n + 1 .. n + k : i - n \in DOMAIN ms /\ w2[i].msg = ms[i - n]
  <2>1. WireGrown(w, n, ms, k, way, w2)
    BY WireGrows
  <2>2. m \in Nat /\ DOMAIN ms = 1 .. m
    BY LenProperties
  <2> QED
    BY <2>1, <2>2 DEF WireGrown
<1>2. /\ DOMAIN rest = 1 .. m - k
      /\ \A i \in 1 .. m - k : rest[i] = ms[k + i]
  BY Parts, LenProperties
<1> HIDE DEF n, m
<1>3. \A i \in DOMAIN w2 :
        \/ i \in DOMAIN w /\ w2[i].msg = w[i].msg
        \/ i > n /\ i - n \in DOMAIN ms /\ i - n <= k /\ w2[i].msg = ms[i - n]
  <2> SUFFICES ASSUME NEW i \in DOMAIN w2
               PROVE  \/ i \in DOMAIN w /\ w2[i].msg = w[i].msg
                      \/ i > n /\ i - n \in DOMAIN ms /\ i - n <= k /\ w2[i].msg = ms[i - n]
    OBVIOUS
  <2>1. k \in Nat /\ i \in 1 .. n + k
    BY <1>1
  <2>2. CASE i \in 1 .. n
    BY <1>1, <2>2
  <2>3. CASE i \in n + 1 .. n + k
    <3>1. i > n /\ i - n <= k
      BY <1>1, <2>1, <2>3
    <3> QED
      BY <1>1, <2>3, <3>1
  <2>4. i \in 1 .. n \/ i \in n + 1 .. n + k
    BY <1>1, <2>1
  <2> QED
    BY <2>2, <2>3, <2>4
<1>4. \A i \in DOMAIN rest : k + i \in DOMAIN ms /\ k + i > k /\ rest[i] = ms[k + i]
  BY <1>1, <1>2
<1>5. \A i \in DOMAIN w, j \in DOMAIN ms : w[i].msg # ms[j]
  BY DEF Disjoint, Elems, Carried
<1>6. CarriedOnce(w2)
  <2> SUFFICES ASSUME NEW i \in DOMAIN w2, NEW j \in DOMAIN w2, w2[i].msg = w2[j].msg
               PROVE  i = j
    BY DEF CarriedOnce
  <2>1. CASE i \in DOMAIN w /\ w2[i].msg = w[i].msg
    <3>1. j \in DOMAIN w /\ w2[j].msg = w[j].msg
      BY <1>3, <1>5, <2>1
    <3> QED
      BY <2>1, <3>1 DEF CarriedOnce
  <2>2. CASE i > n /\ i - n \in DOMAIN ms /\ w2[i].msg = ms[i - n]
    <3>1. j > n /\ j - n \in DOMAIN ms /\ w2[j].msg = ms[j - n]
      BY <1>3, <1>5, <2>2
    <3>2. i - n = j - n
      BY <2>2, <3>1 DEF Once
    <3> QED
      BY <1>1, <3>2
  <2> QED
    BY <1>3, <2>1, <2>2
<1>7. Once(rest)
  <2> SUFFICES ASSUME NEW i \in DOMAIN rest, NEW j \in DOMAIN rest, rest[i] = rest[j]
               PROVE  i = j
    BY DEF Once
  <2>1. k + i = k + j
    BY <1>4 DEF Once
  <2> QED
    BY <1>1, <1>2, <2>1
<1>8. ASSUME NEW i \in DOMAIN rest, NEW j \in DOMAIN w2 PROVE rest[i] # w2[j].msg
  <2>1. CASE j \in DOMAIN w /\ w2[j].msg = w[j].msg
    BY <1>4, <1>5, <2>1
  <2>2. CASE j - n \in DOMAIN ms /\ j - n <= k /\ w2[j].msg = ms[j - n]
    <3>1. k + i # j - n
      BY <1>1, <1>2, <1>4, <2>2
    <3> QED
      BY <1>4, <2>2, <3>1 DEF Once
  <2> QED
    BY <1>3, <2>1, <2>2
<1>9. Carried(w) \subseteq Carried(w2)
  <2>1. \A i \in DOMAIN w : i \in DOMAIN w2 /\ w2[i].msg = w[i].msg
    BY <1>1
  <2> QED
    BY <2>1 DEF Carried
<1>10. Elems(rest) \subseteq Elems(ms)
  BY <1>4 DEF Elems
<1>11. Carried(w2) \subseteq Carried(w) \cup Elems(ms)
  <2> SUFFICES ASSUME NEW j \in DOMAIN w2 PROVE w2[j].msg \in Carried(w) \cup Elems(ms)
    BY DEF Carried
  <2> QED
    BY <1>3 DEF Carried, Elems
<1>12. Elems(ms) \subseteq Carried(w2) \cup Elems(rest)
  <2> SUFFICES ASSUME NEW i \in DOMAIN ms
               PROVE  ms[i] \in Carried(w2) \cup Elems(rest)
    BY DEF Elems
  <2>1. CASE i <= k
    <3>0. i \in 1 .. m /\ k \in 0 .. m /\ m \in Nat /\ n \in Nat /\ DOMAIN w2 = 1 .. n + k
      BY <1>1
    <3>1. n + i \in DOMAIN w2 /\ n + i \in n + 1 .. n + k /\ n + i - n = i
      BY <2>1, <3>0
    <3>2. w2[n + i].msg = ms[n + i - n]
      BY <1>1, <3>1
    <3>3. w2[n + i].msg = ms[i]
      BY <3>1, <3>2
    <3> QED
      BY <3>1, <3>3 DEF Carried
  <2>2. CASE i > k
    <3>0. i \in 1 .. m /\ k \in 0 .. m /\ m \in Nat /\ DOMAIN rest = 1 .. m - k
      BY <1>1, <1>2
    <3>1. i - k \in DOMAIN rest /\ i - k \in 1 .. m - k /\ k + (i - k) = i
      BY <2>2, <3>0
    <3>2. rest[i - k] = ms[i]
      BY <1>2, <3>1
    <3> QED
      BY <3>1, <3>2 DEF Elems
  <2> QED
    BY <1>1, <2>1, <2>2
<1>13. Disjoint(Elems(rest), Carried(w2))
  BY <1>8 DEF Disjoint, Elems, Carried
<1>14. Carried(w2) \cup Elems(rest) = Carried(w) \cup Elems(ms)
  BY <1>9, <1>10, <1>11, <1>12
<1> QED
  BY <1>6, <1>7, <1>10, <1>13, <1>14 DEF MovedApart

\* Messages s behind messages b.
LEMMA JoinedApart ==
  ASSUME NEW b \in Seq(Msgs), NEW s \in Seq(Msgs), Once(b), Once(s), Disjoint(Elems(b), Elems(s))
  PROVE  Once(b \o s) /\ Elems(b \o s) = Elems(b) \cup Elems(s)
<1> DEFINE n == Len(b)
           m == Len(s)
           j == b \o s
<1>1. /\ n \in Nat /\ m \in Nat /\ DOMAIN b = 1 .. n /\ DOMAIN s = 1 .. m /\ DOMAIN j = 1 .. n + m
      /\ \A i \in 1 .. n + m : j[i] = IF i <= n THEN b[i] ELSE s[i - n]
  BY ConcatProperties, LenProperties
<1> HIDE DEF n, m, j
<1>2. \A i \in DOMAIN j : \/ i \in DOMAIN b /\ j[i] = b[i]
                          \/ i > n /\ i - n \in DOMAIN s /\ j[i] = s[i - n]
  BY <1>1
<1>3. \A i \in DOMAIN b, h \in DOMAIN s : b[i] # s[h]
  BY DEF Disjoint, Elems
<1>4. ASSUME NEW i \in DOMAIN j, NEW h \in DOMAIN j, j[i] = j[h] PROVE i = h
  <2>1. CASE i \in DOMAIN b /\ j[i] = b[i]
    <3>1. h \in DOMAIN b /\ j[h] = b[h]
      BY <1>2, <1>3, <1>4, <2>1
    <3> QED
      BY <1>4, <2>1, <3>1 DEF Once
  <2>2. CASE i > n /\ i - n \in DOMAIN s /\ j[i] = s[i - n]
    <3>1. h > n /\ h - n \in DOMAIN s /\ j[h] = s[h - n]
      BY <1>2, <1>3, <1>4, <2>2
    <3>2. i - n = h - n
      BY <1>4, <2>2, <3>1 DEF Once
    <3> QED
      BY <1>1, <3>2
  <2> QED
    BY <1>2, <2>1, <2>2
<1>5. Elems(j) \subseteq Elems(b) \cup Elems(s)
  BY <1>2 DEF Elems
<1>6. Elems(b) \subseteq Elems(j)
  <2>1. \A i \in DOMAIN b : i \in DOMAIN j /\ j[i] = b[i]
    BY <1>1
  <2> QED
    BY <2>1 DEF Elems
<1>7. Elems(s) \subseteq Elems(j)
  <2>1. \A i \in DOMAIN s : n + i \in DOMAIN j /\ ~(n + i <= n) /\ n + i - n = i
    BY <1>1
  <2>2. \A i \in DOMAIN s : n + i \in DOMAIN j /\ j[n + i] = s[i]
    BY <1>1, <2>1
  <2> QED
    BY <2>2 DEF Elems
<1>8. Once(j) /\ Elems(j) = Elems(b) \cup Elems(s)
  BY <1>4, <1>5, <1>6, <1>7 DEF Once
<1> QED
  BY <1>8 DEF j

\* The one that fails leaves those after it.
LEMMA DroppedApart ==
  ASSUME NEW ms \in Seq(Msgs), Once(ms), NEW k \in Nat, k < Len(ms)
  PROVE  /\ SubSeq(ms, k + 2, Len(ms)) \in Seq(Msgs) /\ Once(SubSeq(ms, k + 2, Len(ms)))
         /\ ms[k + 1] \in Msgs /\ ms[k + 1] \notin Elems(SubSeq(ms, k + 2, Len(ms)))
         /\ Elems(SubSeq(ms, k + 1, Len(ms))) = {ms[k + 1]} \cup Elems(SubSeq(ms, k + 2, Len(ms)))
<1> DEFINE m == Len(ms)
           rest == SubSeq(ms, k + 1, m)
           tail == SubSeq(ms, k + 2, m)
<1>1. /\ m \in Nat /\ DOMAIN ms = 1 .. m /\ k + 1 \in 1 .. m /\ k \in 0 .. m /\ k + 1 \in 0 .. m
      /\ k + 1 + 1 = k + 2 /\ ms[k + 1] \in Msgs
  BY LenProperties, ElementOfSeq
<1>2. /\ DOMAIN rest = 1 .. m - k /\ \A i \in 1 .. m - k : rest[i] = ms[k + i]
  BY <1>1, Parts, LenProperties
<1>3. /\ tail \in Seq(Msgs)
      /\ DOMAIN tail = 1 .. m - (k + 1) /\ \A i \in 1 .. m - (k + 1) : tail[i] = ms[k + 1 + i]
  <2>1. SubSeq(ms, k + 1 + 1, m) = tail
    BY <1>1
  <2>2. /\ SubSeq(ms, k + 1 + 1, m) \in Seq(Msgs) /\ Len(SubSeq(ms, k + 1 + 1, m)) = m - (k + 1)
        /\ \A i \in 1 .. m - (k + 1) : SubSeq(ms, k + 1 + 1, m)[i] = ms[k + 1 + i]
    BY <1>1, Parts
  <2> QED
    BY <2>1, <2>2, LenProperties
<1> HIDE DEF m, rest, tail
<1>4. \A i \in DOMAIN tail : k + 1 + i \in DOMAIN ms /\ k + 1 + i # k + 1 /\ tail[i] = ms[k + 1 + i]
  <2>1. \A i \in 1 .. m - (k + 1) : k + 1 + i \in 1 .. m /\ k + 1 + i # k + 1
    BY <1>1
  <2> QED
    BY <1>1, <1>3, <2>1
<1>5. Once(tail)
  <2> SUFFICES ASSUME NEW i \in DOMAIN tail, NEW j \in DOMAIN tail, tail[i] = tail[j]
               PROVE  i = j
    BY DEF Once
  <2>1. k + 1 + i = k + 1 + j
    BY <1>4 DEF Once
  <2> QED
    BY <1>1, <1>3, <2>1
<1>6. ms[k + 1] \notin Elems(tail)
  BY <1>1, <1>4 DEF Once, Elems
<1>7. Elems(rest) \subseteq {ms[k + 1]} \cup Elems(tail)
  <2> SUFFICES ASSUME NEW i \in DOMAIN rest
               PROVE  rest[i] \in {ms[k + 1]} \cup Elems(tail)
    BY DEF Elems
  <2>1. CASE i = 1
    BY <1>1, <1>2, <2>1
  <2>2. CASE i # 1
    <3>1. i - 1 \in DOMAIN tail /\ k + 1 + (i - 1) = k + i
      BY <1>1, <1>2, <1>3, <2>2
    <3>2. tail[i - 1] = rest[i]
      BY <1>2, <1>4, <3>1
    <3> QED
      BY <3>1, <3>2 DEF Elems
  <2> QED
    BY <2>1, <2>2
<1>8. Elems(tail) \subseteq Elems(rest)
  <2>1. \A i \in DOMAIN tail : i + 1 \in DOMAIN rest /\ k + (i + 1) = k + 1 + i
    <3>1. DOMAIN rest = 1 .. m - k /\ DOMAIN tail = 1 .. m - (k + 1)
      BY <1>2, <1>3
    <3>2. m \in Nat
      BY <1>1
    <3> QED
      BY <3>1, <3>2
  <2>2. \A i \in DOMAIN tail : rest[i + 1] = tail[i]
    BY <1>2, <1>4, <2>1
  <2> QED
    BY <2>1, <2>2 DEF Elems
<1>9. ms[k + 1] \in Elems(rest)
  <2>1. 1 \in DOMAIN rest /\ rest[1] = ms[k + 1]
    BY <1>1, <1>2
  <2> QED
    BY <2>1 DEF Elems
<1>10. /\ tail \in Seq(Msgs) /\ Once(tail)
       /\ ms[k + 1] \in Msgs /\ ms[k + 1] \notin Elems(tail)
       /\ Elems(rest) = {ms[k + 1]} \cup Elems(tail)
  BY <1>1, <1>3, <1>5, <1>6, <1>7, <1>8, <1>9
<1> QED
  BY <1>10 DEF m, rest, tail

\* What connection c and the messages ms exchange between them and with those
\* gone disturbs no other connection.
LEMMA LocalMove ==
  ASSUME NEW c \in Conns, NEW ms, NEW bs, NEW ws, NEW g, AllSeparate(ms, bs, ws, g),
         NEW ms2, NEW bs2, NEW ws2, NEW g2,
         \A d \in Conns \ {c} : bs2[d] = bs[d] /\ ws2[d] = ws[d],
         Separate(ms2, bs2[c], ws2[c], g2),
         Elems(ms2) \cup g2 \cup InConn(bs2[c], ws2[c]) = Elems(ms) \cup g \cup InConn(bs[c], ws[c])
  PROVE  /\ AllSeparate(ms2, bs2, ws2, g2)
         /\ AllOf(ms2, bs2, ws2, g2) = AllOf(ms, bs, ws, g)
<1> DEFINE U == Elems(ms) \cup g \cup InConn(bs[c], ws[c])
<1>1. ASSUME NEW d \in Conns, d # c
      PROVE  /\ bs2[d] = bs[d] /\ ws2[d] = ws[d] /\ InConn(bs2[d], ws2[d]) = InConn(bs[d], ws[d])
             /\ Disjoint(InConn(bs[d], ws[d]), U)
             /\ Once(bs[d]) /\ CarriedOnce(ws[d]) /\ Disjoint(Elems(bs[d]), Carried(ws[d]))
  <2>1. bs2[d] = bs[d] /\ ws2[d] = ws[d]
    BY <1>1
  <2>2. Separate(ms, bs[d], ws[d], g) /\ Disjoint(InConn(bs[c], ws[c]), InConn(bs[d], ws[d]))
    BY <1>1 DEF AllSeparate
  <2>3. Disjoint(InConn(bs[d], ws[d]), U)
    BY <2>2 DEF Separate, Disjoint, InConn
  <2> QED
    BY <2>1, <2>2, <2>3 DEF Separate
<1>2. /\ Elems(ms2) \subseteq U /\ g2 \subseteq U /\ InConn(bs2[c], ws2[c]) \subseteq U
      /\ Once(ms2) /\ Disjoint(Elems(ms2), g2)
  BY DEF Separate
<1> HIDE DEF U
<1>3. ASSUME NEW d \in Conns PROVE Separate(ms2, bs2[d], ws2[d], g2)
  <2>1. CASE d = c
    BY <2>1
  <2>2. CASE d # c
    <3>1. /\ Disjoint(Elems(ms2), InConn(bs[d], ws[d])) /\ Disjoint(g2, InConn(bs[d], ws[d]))
      BY <1>1, <1>2, <2>2 DEF Disjoint
    <3>2. /\ Disjoint(Elems(ms2), Elems(bs[d])) /\ Disjoint(Elems(ms2), Carried(ws[d]))
          /\ Disjoint(Elems(bs[d]), g2) /\ Disjoint(Carried(ws[d]), g2)
      BY <3>1 DEF Disjoint, InConn
    <3> QED
      BY <1>1, <1>2, <2>2, <3>2 DEF Separate
  <2> QED
    BY <2>1, <2>2
<1>4. ASSUME NEW d \in Conns, NEW e \in Conns, d # e
      PROVE  Disjoint(InConn(bs2[d], ws2[d]), InConn(bs2[e], ws2[e]))
  <2>1. CASE d # c /\ e # c
    BY <1>1, <1>4, <2>1 DEF AllSeparate
  <2>2. CASE d = c
    <3>1. Disjoint(InConn(bs2[e], ws2[e]), U)
      BY <1>1, <1>4, <2>2
    <3> QED
      BY <1>2, <2>2, <3>1 DEF Disjoint
  <2>3. CASE e = c
    <3>1. Disjoint(InConn(bs2[d], ws2[d]), U)
      BY <1>1, <1>4, <2>3
    <3> QED
      BY <1>2, <2>3, <3>1 DEF Disjoint
  <2> QED
    BY <2>1, <2>2, <2>3
<1>5. AllOf(ms2, bs2, ws2, g2) = AllOf(ms, bs, ws, g)
  <2> DEFINE Others == UNION {InConn(bs[d], ws[d]) : d \in Conns \ {c}}
             Others2 == UNION {InConn(bs2[d], ws2[d]) : d \in Conns \ {c}}
  <2>1. Others2 = Others
    <3>1. \A d \in Conns \ {c} : InConn(bs2[d], ws2[d]) = InConn(bs[d], ws[d])
      BY <1>1
    <3> QED
      BY <3>1
  <2>2. UNION {InConn(bs[d], ws[d]) : d \in Conns} = InConn(bs[c], ws[c]) \cup Others
    OBVIOUS
  <2>3. UNION {InConn(bs2[d], ws2[d]) : d \in Conns} = InConn(bs2[c], ws2[c]) \cup Others2
    OBVIOUS
  <2> HIDE DEF Others, Others2
  <2> QED
    BY <2>1, <2>2, <2>3 DEF AllOf
<1> QED
  BY <1>2, <1>3, <1>4, <1>5 DEF AllSeparate

\* Hand moves each of ms to one place, and no other message.
LEMMA HandPlaces ==
  ASSUME TypeOK, NEW c \in Conns, NEW ms \in Seq(Msgs), Hand(c, ms),
         AllSeparate(ms, m_wbuffer, wire, gone)
  PROVE  /\ AllSeparate(m_list', m_wbuffer', wire', gone')
         /\ AllOf(m_list', m_wbuffer', wire', gone') = AllOf(ms, m_wbuffer, wire, gone)
<1>1. PICK k \in 0 .. Len(ms) :
        /\ wire' = [wire EXCEPT ![c] = @ \o Written(SubSeq(ms, 1, k), "direct")]
        /\ \/ /\ m_wbuffer' = [m_wbuffer EXCEPT ![c] = @ \o SubSeq(ms, k + 1, Len(ms))]
              /\ m_list' = <<>> /\ UNCHANGED gone
           \/ /\ k < Len(ms)
              /\ m_list' = SubSeq(ms, k + 2, Len(ms))
              /\ gone' = gone \cup {ms[k + 1]}
              /\ UNCHANGED m_wbuffer
  BY DEF Hand
<1> DEFINE w == wire[c]
           b == m_wbuffer[c]
           w2 == w \o Written(SubSeq(ms, 1, k), "direct")
           rest == SubSeq(ms, k + 1, Len(ms))
<1>2. w \in Seq(Entries) /\ b \in Seq(Msgs) /\ rest \in Seq(Msgs)
  BY Parts DEF TypeOK, Entries
<1>3. Separate(ms, b, w, gone)
  BY DEF AllSeparate
<1>4. /\ CarriedOnce(w2) /\ Once(rest) /\ Disjoint(Elems(rest), Carried(w2))
      /\ Carried(w2) \cup Elems(rest) = Carried(w) \cup Elems(ms)
      /\ Elems(rest) \subseteq Elems(ms)
  <2>1. Once(ms) /\ CarriedOnce(w) /\ Disjoint(Elems(ms), Carried(w)) /\ "direct" \in Ways
    BY <1>3 DEF Separate, Ways
  <2>2. w2 = w \o Written(SubSeq(ms, 1, k), "direct") /\ rest = SubSeq(ms, k + 1, Len(ms))
    OBVIOUS
  <2> HIDE DEF w, w2, rest
  <2>3. MovedApart(w, ms, w2, rest)
    BY <1>2, <2>1, <2>2, TakenApart
  <2> QED
    BY <2>3 DEF MovedApart
<1>5. /\ wire'[c] = w2
      /\ \A d \in Conns \ {c} : wire'[d] = wire[d] /\ m_wbuffer'[d] = m_wbuffer[d]
  BY <1>1 DEF TypeOK
<1>6. CASE /\ m_wbuffer' = [m_wbuffer EXCEPT ![c] = @ \o SubSeq(ms, k + 1, Len(ms))]
           /\ m_list' = <<>> /\ UNCHANGED gone
  <2>1. m_wbuffer'[c] = b \o rest
    BY <1>6 DEF TypeOK
  <2>2. Elems(m_list') = {} /\ Once(m_list')
    BY <1>6 DEF Elems, Once
  <2> HIDE DEF w, b, w2, rest
  <2>3. Once(b \o rest) /\ Elems(b \o rest) = Elems(b) \cup Elems(rest)
    <3>1. Once(b) /\ Disjoint(Elems(b), Elems(rest))
      BY <1>3, <1>4 DEF Separate, Disjoint
    <3> QED
      BY <1>2, <1>4, <3>1, JoinedApart
  <2>4. /\ Disjoint(Elems(b) \cup Elems(rest), Carried(w2))
        /\ Disjoint(Elems(b) \cup Elems(rest), gone) /\ Disjoint(Carried(w2), gone)
    BY <1>3, <1>4 DEF Separate, Disjoint
  <2>5. Separate(m_list', m_wbuffer'[c], wire'[c], gone')
    BY <1>4, <1>5, <1>6, <2>1, <2>2, <2>3, <2>4 DEF Separate, Disjoint
  <2>6. Elems(m_list') \cup gone' \cup InConn(m_wbuffer'[c], wire'[c]) = Elems(ms) \cup gone \cup InConn(b, w)
    BY <1>4, <1>5, <1>6, <2>1, <2>2, <2>3 DEF InConn
  <2> QED
    BY <1>5, <2>5, <2>6, LocalMove DEF b, w
<1>7. CASE /\ k < Len(ms)
           /\ m_list' = SubSeq(ms, k + 2, Len(ms))
           /\ gone' = gone \cup {ms[k + 1]}
           /\ UNCHANGED m_wbuffer
  <2> DEFINE x == ms[k + 1]
  <2>1. /\ Once(m_list') /\ x \notin Elems(m_list')
        /\ Elems(rest) = {x} \cup Elems(m_list')
    <3>1. k \in Nat /\ Once(ms)
      BY <1>3, LenProperties DEF Separate
    <3> QED
      BY <1>7, <3>1, DroppedApart
  <2>2. gone' = gone \cup {x} /\ m_wbuffer'[c] = b
    BY <1>7
  <2> HIDE DEF w, b, w2, rest, x
  <2>3. /\ Disjoint(Elems(m_list'), Elems(b)) /\ Disjoint(Elems(m_list'), Carried(w2))
        /\ Disjoint(Elems(m_list'), gone \cup {x})
        /\ Disjoint(Elems(b), gone \cup {x}) /\ Disjoint(Carried(w2), gone \cup {x})
        /\ Disjoint(Elems(b), Carried(w2))
    BY <1>3, <1>4, <2>1 DEF Separate, Disjoint
  <2>4. Separate(m_list', m_wbuffer'[c], wire'[c], gone')
    BY <1>3, <1>4, <1>5, <2>1, <2>2, <2>3 DEF Separate
  <2>5. Elems(m_list') \cup gone' \cup InConn(m_wbuffer'[c], wire'[c]) = Elems(ms) \cup gone \cup InConn(b, w)
    BY <1>4, <1>5, <2>1, <2>2 DEF InConn
  <2> QED
    BY <1>5, <2>4, <2>5, LocalMove DEF b, w
<1> QED
  BY <1>1, <1>6, <1>7

\* One message is a sequence in which it is once.
LEMMA OneMessage ==
  ASSUME NEW n
  PROVE  Once(<<n>>) /\ Elems(<<n>>) = {n} /\ Once(<<>>) /\ Elems(<<>>) = {}
<1>1. DOMAIN <<n>> = {1} /\ <<n>>[1] = n /\ DOMAIN <<>> = {}
  OBVIOUS
<1>2. Once(<<n>>) /\ Elems(<<n>>) = {n}
  <2> DEFINE s == <<n>>
  <2>1. \A i \in DOMAIN s : i = 1 /\ s[i] = n
    BY <1>1
  <2>2. 1 \in DOMAIN s
    BY <1>1
  <2> HIDE DEF s
  <2>3. Once(s) /\ Elems(s) = {n}
    BY <2>1, <2>2 DEF Once, Elems
  <2> QED
    BY <2>3 DEF s
<1> QED
  BY <1>1, <1>2 DEF Once, Elems

\* A new message is nowhere yet.
LEMMA FreshPlace ==
  ASSUME NEW n \in Nat, NEW ms, NEW bs, NEW ws, NEW g,
         AllSeparate(ms, bs, ws, g), AllOf(ms, bs, ws, g) = 1 .. n,
         NEW ms2, Once(ms2), Elems(ms2) = Elems(ms) \cup {n + 1}
  PROVE  /\ AllSeparate(ms2, bs, ws, g)
         /\ AllOf(ms2, bs, ws, g) = 1 .. n + 1
<1>1. n + 1 \notin 1 .. n /\ 1 .. n + 1 = (1 .. n) \cup {n + 1}
  OBVIOUS
<1>2. n + 1 \notin g /\ \A c \in Conns : n + 1 \notin InConn(bs[c], ws[c])
  BY <1>1 DEF AllOf
<1>3. Disjoint(Elems(ms2), g)
  BY <1>2 DEF AllSeparate, Disjoint
<1>4. ASSUME NEW c \in Conns PROVE Separate(ms2, bs[c], ws[c], g)
  <2>1. Separate(ms, bs[c], ws[c], g) /\ n + 1 \notin Elems(bs[c]) /\ n + 1 \notin Carried(ws[c])
    BY <1>2 DEF AllSeparate, InConn
  <2>2. Disjoint(Elems(ms2), Elems(bs[c])) /\ Disjoint(Elems(ms2), Carried(ws[c]))
    BY <2>1 DEF Separate, Disjoint
  <2> QED
    BY <1>3, <2>1, <2>2 DEF Separate
<1>5. AllOf(ms2, bs, ws, g) = 1 .. n + 1
  BY <1>1 DEF AllOf
<1> QED
  BY <1>3, <1>4, <1>5 DEF AllSeparate

\* While a thread writes, nothing is parked, and it alone has m_mutex.
LEMMA WriterAlone ==
  ASSUME TypeOK, NoticeInv, NEW t \in Threads, sending[t] # NoConn,
         sending' = [sending EXCEPT ![t] = NoConn]
  PROVE  /\ ~MutexFree /\ m_list = <<>> /\ sent \in Msgs /\ sending[t] \in Conns
         /\ MutexFree'
<1>1. m_list = <<>> /\ sent > 0 /\ \A u \in Threads : sending[u] # NoConn => u = t
  BY DEF NoticeInv, SendingInv
<1>2. sent \in Msgs /\ sending[t] \in Conns
  BY <1>1, SessionAssumption DEF TypeOK, Msgs
<1>3. \A u \in Threads : sending'[u] = NoConn
  BY <1>1 DEF TypeOK
<1> QED
  BY <1>1, <1>2, <1>3 DEF MutexFree

\* A step that leaves the places alone.
LEMMA SamePlaces ==
  ASSUME PlaceInv, UNCHANGED <<m_list, sending, m_wbuffer, wire, sent, gone>>
  PROVE  PlaceInv'
BY DEF PlaceInv, Unwritten, MutexFree, AllSeparate, AllOf, Separate, InConn

LEMMA PlaceStep == TypeOK /\ NoticeInv /\ PlaceInv /\ [Next]_vars => PlaceInv'
<1> SUFFICES ASSUME TypeOK, NoticeInv, PlaceInv, [Next]_vars PROVE PlaceInv'
  OBVIOUS
<1>a. \A c \in Conns : wire[c] \in Seq(Entries) /\ m_wbuffer[c] \in Seq(Msgs)
  BY DEF TypeOK, Entries
<1>b. sent \in Nat /\ m_list \in Seq(Msgs)
  BY SessionAssumption DEF TypeOK
<1>c. MutexFree => /\ AllSeparate(m_list, m_wbuffer, wire, gone)
                   /\ AllOf(m_list, m_wbuffer, wire, gone) = 1 .. sent
  BY DEF PlaceInv, Unwritten
<1>d. ASSUME MutexFree, sending' = sending, UNCHANGED sent, NEW c \in Conns, Hand(c, m_list)
      PROVE  PlaceInv'
  <2>1. /\ AllSeparate(m_list', m_wbuffer', wire', gone')
        /\ AllOf(m_list', m_wbuffer', wire', gone') = 1 .. sent
    BY <1>b, <1>c, <1>d, HandPlaces
  <2>2. Unwritten' = m_list'
    BY <1>d DEF Unwritten, MutexFree
  <2> QED
    BY <1>d, <2>1, <2>2 DEF PlaceInv
<1>1. ASSUME NEW c \in Conns, SetClient(c) PROVE PlaceInv'
  BY <1>1, <1>d DEF SetClient
<1>2. ASSUME NEW c \in Conns, Writable(c) PROVE PlaceInv'
  <2>1. PICK k \in 1 .. Len(m_wbuffer[c]) :
          /\ wire' = [wire EXCEPT ![c] = @ \o Written(SubSeq(m_wbuffer[c], 1, k), "buffer")]
          /\ m_wbuffer' = [m_wbuffer EXCEPT ![c] = SubSeq(@, k + 1, Len(@))]
    BY <1>2 DEF Writable
  <2>2. k \in 0 .. Len(m_wbuffer[c]) /\ "buffer" \in Ways
    BY <1>a, LenProperties DEF Ways
  <2>3. /\ wire'[c] = wire[c] \o Written(SubSeq(m_wbuffer[c], 1, k), "buffer")
        /\ m_wbuffer'[c] = SubSeq(m_wbuffer[c], k + 1, Len(m_wbuffer[c]))
        /\ \A d \in Conns \ {c} : wire'[d] = wire[d] /\ m_wbuffer'[d] = m_wbuffer[d]
    BY <2>1 DEF TypeOK
  <2>4. Separate(Unwritten, m_wbuffer[c], wire[c], gone)
    BY DEF PlaceInv, AllSeparate
  <2>5. /\ CarriedOnce(wire'[c]) /\ Once(m_wbuffer'[c]) /\ Disjoint(Elems(m_wbuffer'[c]), Carried(wire'[c]))
        /\ Carried(wire'[c]) \cup Elems(m_wbuffer'[c]) = Carried(wire[c]) \cup Elems(m_wbuffer[c])
        /\ Elems(m_wbuffer'[c]) \subseteq Elems(m_wbuffer[c])
    <3>1. Once(m_wbuffer[c]) /\ CarriedOnce(wire[c]) /\ Disjoint(Elems(m_wbuffer[c]), Carried(wire[c]))
      BY <2>4 DEF Separate
    <3>2. MovedApart(wire[c], m_wbuffer[c], wire'[c], m_wbuffer'[c])
      BY <1>a, <2>2, <2>3, <3>1, TakenApart
    <3> QED
      BY <3>2 DEF MovedApart
  <2>6. /\ UNCHANGED <<m_list, sending, sent, gone>>
        /\ Unwritten' = Unwritten
    BY <1>2 DEF Writable, Unwritten, MutexFree
  <2>7. Separate(Unwritten, m_wbuffer'[c], wire'[c], gone)
    BY <2>4, <2>5 DEF Separate, Disjoint
  <2>8. InConn(m_wbuffer'[c], wire'[c]) = InConn(m_wbuffer[c], wire[c])
    BY <2>5 DEF InConn
  <2>9. /\ AllSeparate(Unwritten, m_wbuffer', wire', gone)
        /\ AllOf(Unwritten, m_wbuffer', wire', gone) = AllOf(Unwritten, m_wbuffer, wire, gone)
    <3>1. Elems(Unwritten) \cup gone \cup InConn(m_wbuffer'[c], wire'[c])
            = Elems(Unwritten) \cup gone \cup InConn(m_wbuffer[c], wire[c])
      BY <2>8
    <3>2. AllSeparate(Unwritten, m_wbuffer, wire, gone)
      BY DEF PlaceInv
    <3>3. \A d \in Conns \ {c} : m_wbuffer'[d] = m_wbuffer[d] /\ wire'[d] = wire[d]
      BY <2>3
    <3> QED
      BY <2>7, <3>1, <3>2, <3>3, LocalMove
  <2> QED
    BY <2>6, <2>9 DEF PlaceInv
<1>3. ASSUME NEW c \in Conns, CloseConn(c) PROVE PlaceInv'
  <2>1. /\ m_wbuffer'[c] = <<>> /\ wire' = wire
        /\ \A d \in Conns \ {c} : m_wbuffer'[d] = m_wbuffer[d]
        /\ gone' = gone \cup Elems(m_wbuffer[c])
        /\ UNCHANGED <<m_list, sending, sent>> /\ Unwritten' = Unwritten
    BY <1>3 DEF CloseConn, TypeOK, Elems, Unwritten, MutexFree
  <2>2. Separate(Unwritten, m_wbuffer[c], wire[c], gone)
    BY DEF PlaceInv, AllSeparate
  <2>3. Once(m_wbuffer'[c]) /\ Elems(m_wbuffer'[c]) = {}
    BY <2>1, OneMessage
  <2>4. Separate(Unwritten, m_wbuffer'[c], wire'[c], gone')
    BY <2>1, <2>2, <2>3 DEF Separate, Disjoint
  <2>5. gone' \cup InConn(m_wbuffer'[c], wire'[c]) = gone \cup InConn(m_wbuffer[c], wire[c])
    BY <2>1, <2>3 DEF InConn
  <2>6. /\ AllSeparate(Unwritten, m_wbuffer', wire', gone')
        /\ AllOf(Unwritten, m_wbuffer', wire', gone') = AllOf(Unwritten, m_wbuffer, wire, gone)
    <3>1. /\ \A d \in Conns \ {c} : m_wbuffer'[d] = m_wbuffer[d] /\ wire'[d] = wire[d]
          /\ Elems(Unwritten) \cup gone' \cup InConn(m_wbuffer'[c], wire'[c])
               = Elems(Unwritten) \cup gone \cup InConn(m_wbuffer[c], wire[c])
      BY <2>1, <2>5
    <3> QED
      BY <2>4, <3>1, LocalMove DEF PlaceInv
  <2> QED
    BY <2>1, <2>6 DEF PlaceInv
<1>4. CASE Stop
  BY <1>4, SamePlaces DEF Stop
<1>5. CASE SendParked
  <2>1. /\ MutexFree /\ sent' = sent + 1 /\ sent + 1 \in Msgs /\ m_list' = Append(m_list, sent + 1)
        /\ UNCHANGED <<m_wbuffer, wire, gone, sending>> /\ Unwritten' = m_list'
    BY <1>5, <1>b, SessionAssumption DEF SendParked, Msgs, Unwritten, MutexFree
  <2>2. Once(m_list') /\ Elems(m_list') = Elems(m_list) \cup {sent + 1}
    <3>1. Append(m_list, sent + 1) = m_list \o <<sent + 1>> /\ <<sent + 1>> \in Seq(Msgs)
      BY <1>b, <2>1, AppendIsConcat
    <3>2. Once(m_list) /\ sent + 1 \notin Elems(m_list)
      <4>1. sent + 1 \notin 1 .. sent
        BY <1>b
      <4> QED
        BY <1>c, <2>1, <4>1 DEF AllSeparate, AllOf
    <3>3. Once(<<sent + 1>>) /\ Elems(<<sent + 1>>) = {sent + 1}
      BY OneMessage
    <3>4. Disjoint(Elems(m_list), Elems(<<sent + 1>>))
      BY <3>2, <3>3 DEF Disjoint
    <3>5. /\ Once(m_list \o <<sent + 1>>)
          /\ Elems(m_list \o <<sent + 1>>) = Elems(m_list) \cup Elems(<<sent + 1>>)
      BY <1>b, <3>1, <3>2, <3>3, <3>4, JoinedApart
    <3> QED
      BY <2>1, <3>1, <3>3, <3>5
  <2>3. /\ AllSeparate(m_list', m_wbuffer, wire, gone)
        /\ AllOf(m_list', m_wbuffer, wire, gone) = 1 .. sent + 1
    <3>1. sent \in Nat
      BY <1>b
    <3>2. /\ AllSeparate(m_list, m_wbuffer, wire, gone)
          /\ AllOf(m_list, m_wbuffer, wire, gone) = 1 .. sent
      BY <1>c, <2>1
    <3> QED
      BY <2>2, <3>1, <3>2, FreshPlace
  <2> QED
    BY <2>1, <2>3 DEF PlaceInv
<1>6. ASSUME MutexFree, m_list = <<>>
      PROVE  /\ AllSeparate(<<sent + 1>>, m_wbuffer, wire, gone)
             /\ AllOf(<<sent + 1>>, m_wbuffer, wire, gone) = 1 .. sent + 1
  <2>1. Once(<<sent + 1>>) /\ Elems(<<sent + 1>>) = Elems(m_list) \cup {sent + 1}
    BY <1>6, OneMessage
  <2> QED
    BY <1>b, <1>c, <1>6, <2>1, FreshPlace
<1>7. CASE SendOwner
  <2>1. /\ MutexFree /\ m_list = <<>> /\ m_client \in Conns /\ sent' = sent + 1
        /\ <<sent + 1>> \in Seq(Msgs)
        /\ Hand(m_client, <<sent + 1>>) /\ Unwritten' = m_list'
    BY <1>7, <1>b, SessionAssumption DEF SendOwner, Valid, TypeOK, Msgs, Unwritten, MutexFree
  <2>2. /\ AllSeparate(m_list', m_wbuffer', wire', gone')
        /\ AllOf(m_list', m_wbuffer', wire', gone') = 1 .. sent + 1
    BY <1>6, <2>1, HandPlaces
  <2> QED
    BY <2>1, <2>2 DEF PlaceInv
<1>8. ASSUME NEW t \in Threads, SendForeign(t) PROVE PlaceInv'
  <2>1. /\ MutexFree /\ m_list = <<>> /\ m_client # NoConn /\ sent' = sent + 1
        /\ sending' = [sending EXCEPT ![t] = m_client]
        /\ UNCHANGED <<m_list, m_wbuffer, wire, gone>>
    BY <1>8 DEF SendForeign, Valid
  <2>2. sending'[t] # NoConn
    BY <2>1 DEF TypeOK
  <2>3. Unwritten' = <<sent + 1>>
    BY <2>1, <2>2 DEF Unwritten, MutexFree
  <2> QED
    BY <1>6, <2>1, <2>3 DEF PlaceInv
<1>9. ASSUME NEW t \in Threads, ForeignEnds(t) PROVE PlaceInv'
  <2>1. /\ sending[t] # NoConn /\ sending' = [sending EXCEPT ![t] = NoConn] /\ sent' = sent
        /\ UNCHANGED m_wbuffer
    BY <1>9 DEF ForeignEnds, ForeignWritten, ForeignStray, ForeignFull, ForeignError
  <2> DEFINE c == sending[t]
  <2>2. /\ ~MutexFree /\ m_list = <<>> /\ sent \in Msgs /\ c \in Conns /\ MutexFree'
    BY <2>1, WriterAlone
  <2>3. /\ AllSeparate(<<sent>>, m_wbuffer, wire, gone)
        /\ AllOf(<<sent>>, m_wbuffer, wire, gone) = 1 .. sent
        /\ Unwritten' = m_list'
    BY <2>2 DEF PlaceInv, Unwritten
  <2>4. Separate(<<sent>>, m_wbuffer[c], wire[c], gone)
    BY <2>2, <2>3 DEF AllSeparate
  <2>5. /\ Once(<<>>) /\ Elems(<<>>) = {} /\ Elems(<<sent>>) = {sent}
    BY OneMessage
  <2>6. CASE ForeignWritten(t)
    <3> DEFINE e == [msg |-> sent, way |-> "foreign"]
    <3>1. /\ wire'[c] = Append(wire[c], e)
          /\ \A d \in Conns \ {c} : wire'[d] = wire[d]
          /\ UNCHANGED <<m_list, gone>>
      BY <2>2, <2>6 DEF ForeignWritten, TypeOK
    <3>2. e \in Entries /\ e.msg = sent
      BY <2>2 DEF Entries, Ways
    <3> HIDE DEF e, c
    <3>3. /\ wire'[c] \in Seq(Entries) /\ Len(wire'[c]) = Len(wire[c]) + 1
          /\ \A i \in 1 .. Len(wire[c]) : wire'[c][i] = wire[c][i]
          /\ wire'[c][Len(wire[c]) + 1] = e
      BY <1>a, <2>2, <3>1, <3>2, AppendProperties
    <3>4. /\ Len(wire[c]) \in Nat /\ DOMAIN wire[c] = 1 .. Len(wire[c])
          /\ DOMAIN wire'[c] = 1 .. Len(wire[c]) + 1
      BY <1>a, <2>2, <3>3, LenProperties
    <3>5. /\ \A i \in DOMAIN wire'[c] : \/ i \in DOMAIN wire[c] /\ wire'[c][i].msg = wire[c][i].msg
                                        \/ i = Len(wire[c]) + 1 /\ wire'[c][i].msg = sent
          /\ \A i \in DOMAIN wire[c] : i \in DOMAIN wire'[c] /\ wire'[c][i].msg = wire[c][i].msg
          /\ Len(wire[c]) + 1 \in DOMAIN wire'[c] /\ wire'[c][Len(wire[c]) + 1].msg = sent
      BY <3>2, <3>3, <3>4
    <3>6. Carried(wire'[c]) = Carried(wire[c]) \cup {sent}
      BY <3>5 DEF Carried
    <3>7. sent \notin Carried(wire[c]) /\ sent \notin Elems(m_wbuffer[c]) /\ sent \notin gone
      BY <2>4, <2>5 DEF Separate, Disjoint
    <3>8. CarriedOnce(wire'[c])
      <4>1. \A i \in DOMAIN wire[c] : wire[c][i].msg # sent
        BY <3>7 DEF Carried
      <4>2. \A i, j \in DOMAIN wire[c] : wire[c][i].msg = wire[c][j].msg => i = j
        BY <2>4 DEF Separate, CarriedOnce
      <4> QED
        BY <3>5, <4>1, <4>2 DEF CarriedOnce
    <3>9. Separate(<<>>, m_wbuffer'[c], wire'[c], gone')
      BY <2>1, <2>4, <2>5, <3>1, <3>6, <3>7, <3>8 DEF Separate, Disjoint
    <3>10. Elems(<<>>) \cup gone' \cup InConn(m_wbuffer'[c], wire'[c])
             = Elems(<<sent>>) \cup gone \cup InConn(m_wbuffer[c], wire[c])
      BY <2>1, <2>5, <3>1, <3>6 DEF InConn
    <3>11. \A d \in Conns \ {c} : m_wbuffer'[d] = m_wbuffer[d] /\ wire'[d] = wire[d]
      BY <2>1, <3>1
    <3>12. /\ AllSeparate(<<>>, m_wbuffer', wire', gone')
           /\ AllOf(<<>>, m_wbuffer', wire', gone') = 1 .. sent
      BY <2>2, <2>3, <3>9, <3>10, <3>11, LocalMove
    <3> QED
      BY <2>1, <2>2, <2>3, <3>1, <3>12 DEF PlaceInv
  <2>7. CASE ForeignStray(t)
    <3>1. gone' = gone \cup {sent} /\ UNCHANGED <<m_list, wire>>
      BY <2>7 DEF ForeignStray
    <3> HIDE DEF c
    <3>2. Separate(<<>>, m_wbuffer'[c], wire'[c], gone')
      BY <2>1, <2>4, <2>5, <3>1 DEF Separate, Disjoint
    <3>3. Elems(<<>>) \cup gone' \cup InConn(m_wbuffer'[c], wire'[c])
            = Elems(<<sent>>) \cup gone \cup InConn(m_wbuffer[c], wire[c])
      BY <2>1, <2>5, <3>1
    <3>4. \A d \in Conns \ {c} : m_wbuffer'[d] = m_wbuffer[d] /\ wire'[d] = wire[d]
      BY <2>1, <3>1
    <3>5. /\ AllSeparate(<<>>, m_wbuffer', wire', gone')
          /\ AllOf(<<>>, m_wbuffer', wire', gone') = 1 .. sent
      BY <2>2, <2>3, <3>2, <3>3, <3>4, LocalMove
    <3> QED
      BY <2>1, <2>2, <2>3, <3>1, <3>5 DEF PlaceInv
  <2>8. CASE ForeignFull(t) \/ ForeignError(t)
    <3>1. m_list' = Append(m_list, sent) /\ UNCHANGED <<m_wbuffer, wire, gone>>
      BY <2>8 DEF ForeignFull, ForeignError
    <3>2. m_list' = <<sent>>
      BY <2>2, <3>1
    <3> QED
      BY <2>1, <2>3, <3>1, <3>2 DEF PlaceInv
  <2> QED
    BY <1>9, <2>6, <2>7, <2>8 DEF ForeignEnds
<1>10. ASSUME NEW t \in Threads, Notice(t) PROVE PlaceInv'
  <2>1. MutexFree /\ UNCHANGED <<sending, sent>>
    BY <1>10 DEF Notice
  <2>2. CASE UNCHANGED <<m_list, conn, m_wbuffer, wire, gone>>
    BY <2>1, <2>2, SamePlaces
  <2>3. CASE Valid /\ Hand(m_client, m_list)
    BY <1>d, <2>1, <2>3 DEF Valid, TypeOK
  <2> QED
    BY <1>10, <2>2, <2>3 DEF Notice
<1>11. CASE UNCHANGED vars
  BY <1>11, SamePlaces DEF vars
<1> QED
  BY <1>1, <1>2, <1>3, <1>4, <1>5, <1>7, <1>8, <1>9, <1>10, <1>11 DEF Next

\* Being in one of the places is being in one Place.
LEMMA PlaceMeaning ==
  ASSUME TypeOK, NoticeInv, PlaceInv
  PROVE  InOnePlace
<1> SUFFICES ASSUME NEW m \in 1 .. sent
             PROVE  \E p \in Places(m) : Places(m) = {p}
  BY DEF InOnePlace
<1> DEFINE L == ParkedAt(m)
           S == SendingAt(m)
           C == UNION {BufferedAt(c, m) \cup WrittenAt(c, m) : c \in Conns}
           G == IF m \in gone THEN {<<"gone">>} ELSE {}
           inS == ~MutexFree /\ m = sent
<1>1. Places(m) = L \cup S \cup C \cup G
  BY DEF Places
<1>2. /\ m \notin Elems(m_list) => L = {}
      /\ ~inS => S = {}
      /\ m \notin gone => G = {}
  BY DEF Elems, MutexFree, ParkedAt, SendingAt
<1>3. ASSUME NEW c \in Conns
      PROVE  /\ m \notin Elems(m_wbuffer[c]) => BufferedAt(c, m) = {}
             /\ m \notin Carried(wire[c]) => WrittenAt(c, m) = {}
  BY DEF Elems, Carried, BufferedAt, WrittenAt
<1>4. ASSUME \A c \in Conns : m \notin Elems(m_wbuffer[c]) /\ m \notin Carried(wire[c])
      PROVE  C = {}
  BY <1>3, <1>4
<1>5. /\ AllSeparate(Unwritten, m_wbuffer, wire, gone)
      /\ m \in AllOf(Unwritten, m_wbuffer, wire, gone)
  BY DEF PlaceInv
<1>6. m \in Elems(Unwritten) <=> (m \in Elems(m_list) \/ inS)
  <2>1. CASE MutexFree
    BY <2>1 DEF Unwritten
  <2>2. CASE ~MutexFree
    <3>1. m_list = <<>>
      BY <2>2 DEF MutexFree, NoticeInv, SendingInv
    <3>2. Unwritten = <<sent>>
      BY <2>2 DEF Unwritten
    <3> QED
      BY <2>2, <3>1, <3>2, OneMessage
  <2> QED
    BY <2>1, <2>2
<1>7. /\ m \in Elems(m_list) => MutexFree /\ Once(m_list)
  <2>1. CASE MutexFree
    BY <1>5, <2>1 DEF Unwritten, AllSeparate
  <2>2. CASE ~MutexFree
    <3>1. m_list = <<>>
      BY <2>2 DEF MutexFree, NoticeInv, SendingInv
    <3> QED
      BY <3>1, OneMessage
  <2> QED
    BY <2>1, <2>2
<1>8. /\ m \in Elems(Unwritten) => m \notin gone
      /\ \A c \in Conns : \/ m \notin Elems(Unwritten) /\ m \notin gone
                          \/ m \notin Elems(m_wbuffer[c]) /\ m \notin Carried(wire[c])
      /\ \A c \in Conns : m \notin Elems(m_wbuffer[c]) \/ m \notin Carried(wire[c])
      /\ \A c, d \in Conns : c # d => \/ m \notin Elems(m_wbuffer[c]) /\ m \notin Carried(wire[c])
                                      \/ m \notin Elems(m_wbuffer[d]) /\ m \notin Carried(wire[d])
  BY <1>5 DEF AllSeparate, Separate, Disjoint, InConn
<1>9. \/ m \in Elems(Unwritten) \/ m \in gone
      \/ \E c \in Conns : m \in Elems(m_wbuffer[c]) \/ m \in Carried(wire[c])
  BY <1>5 DEF AllOf, InConn
<1>10. CASE m \in Elems(m_list)
  <2>1. PICK i \in DOMAIN m_list : m_list[i] = m
    BY <1>10 DEF Elems
  <2>2. L = {<<"list", i>>}
    BY <1>7, <1>10, <2>1 DEF Once, ParkedAt
  <2>3. C = {}
    BY <1>4, <1>6, <1>8, <1>10
  <2>4. S = {} /\ G = {}
    BY <1>2, <1>6, <1>7, <1>8, <1>10
  <2> HIDE DEF L, S, C, G
  <2> QED
    BY <1>1, <2>2, <2>3, <2>4
<1>11. CASE inS
  <2>1. PICK t \in Threads : sending[t] # NoConn
    BY <1>11 DEF MutexFree
  <2>2. S = {<<"sending", t>>}
    BY <1>11, <2>1 DEF NoticeInv, SendingInv, SendingAt
  <2>3. C = {}
    BY <1>4, <1>6, <1>8, <1>11
  <2>4. L = {} /\ G = {}
    BY <1>2, <1>6, <1>7, <1>8, <1>11
  <2> HIDE DEF L, S, C, G
  <2> QED
    BY <1>1, <2>2, <2>3, <2>4
<1>12. CASE m \in gone
  <2>1. C = {}
    BY <1>4, <1>8, <1>12
  <2>2. L = {} /\ S = {}
    BY <1>2, <1>6, <1>8, <1>12
  <2>3. G = {<<"gone">>}
    BY <1>12
  <2> HIDE DEF L, S, C, G
  <2> QED
    BY <1>1, <2>1, <2>2, <2>3
<1>13. ASSUME NEW c \in Conns, NEW p, BufferedAt(c, m) \cup WrittenAt(c, m) = {p},
              m \in Elems(m_wbuffer[c]) \/ m \in Carried(wire[c])
       PROVE  Places(m) = {p}
  <2>1. \A d \in Conns \ {c} : BufferedAt(d, m) = {} /\ WrittenAt(d, m) = {}
    BY <1>3, <1>8, <1>13
  <2>2. C = {p}
    BY <1>13, <2>1
  <2>3. L = {} /\ S = {} /\ G = {}
    BY <1>2, <1>6, <1>8, <1>13
  <2> HIDE DEF L, S, C, G
  <2> QED
    BY <1>1, <2>2, <2>3
<1>14. ASSUME NEW c \in Conns, m \in Elems(m_wbuffer[c]) PROVE \E p \in Places(m) : Places(m) = {p}
  <2>1. PICK i \in DOMAIN m_wbuffer[c] : m_wbuffer[c][i] = m
    BY <1>14 DEF Elems
  <2>2. Once(m_wbuffer[c])
    BY <1>5 DEF AllSeparate, Separate
  <2>3. BufferedAt(c, m) = {<<"wbuffer", c, i>>}
    BY <2>1, <2>2 DEF Once, BufferedAt
  <2>4. WrittenAt(c, m) = {}
    BY <1>3, <1>8, <1>14
  <2>5. Places(m) = {<<"wbuffer", c, i>>}
    BY <1>13, <1>14, <2>3, <2>4
  <2> QED
    BY <2>5
<1>15. ASSUME NEW c \in Conns, m \in Carried(wire[c]) PROVE \E p \in Places(m) : Places(m) = {p}
  <2>1. PICK i \in DOMAIN wire[c] : wire[c][i].msg = m
    BY <1>15 DEF Carried
  <2>2. CarriedOnce(wire[c])
    BY <1>5 DEF AllSeparate, Separate
  <2>3. WrittenAt(c, m) = {<<"wire", c, i>>}
    BY <2>1, <2>2 DEF CarriedOnce, WrittenAt
  <2>4. BufferedAt(c, m) = {}
    BY <1>3, <1>8, <1>15
  <2>5. Places(m) = {<<"wire", c, i>>}
    BY <1>13, <1>15, <2>3, <2>4
  <2> QED
    BY <2>5
<1> QED
  BY <1>6, <1>9, <1>10, <1>11, <1>12, <1>14, <1>15

\* No message is duplicated or forgotten: each is parked, being written,
\* buffered, written, or gone with its connection, and only one of these.
THEOREM MessagesInOnePlace == Spec => []InOnePlace
<1>1. Init => PlaceInv
  <2> SUFFICES ASSUME Init PROVE PlaceInv
    OBVIOUS
  <2>1. /\ m_list = <<>> /\ gone = {} /\ sent = 0 /\ MutexFree
        /\ \A c \in Conns : wire[c] = <<>> /\ m_wbuffer[c] = <<>>
    BY DEF Init, MutexFree
  <2>2. /\ Once(<<>>) /\ Elems(<<>>) = {} /\ CarriedOnce(<<>>) /\ Carried(<<>>) = {}
    <3>1. DOMAIN <<>> = {}
      OBVIOUS
    <3> QED
      BY <3>1, OneMessage, Zenon DEF CarriedOnce, Carried
  <2>3. Unwritten = <<>> /\ \A c \in Conns : InConn(m_wbuffer[c], wire[c]) = {}
    BY <2>1, <2>2 DEF Unwritten, InConn
  <2>4. AllSeparate(Unwritten, m_wbuffer, wire, gone)
    BY <2>1, <2>2, <2>3 DEF AllSeparate, Separate, Disjoint
  <2>5. AllOf(Unwritten, m_wbuffer, wire, gone) = {}
    BY <2>1, <2>2, <2>3 DEF AllOf
  <2>6. 1 .. sent = {}
    BY <2>1
  <2> QED
    BY <2>4, <2>5, <2>6 DEF PlaceInv
<1>2. TypeOK /\ NoticeInv /\ PlaceInv /\ [Next]_vars => PlaceInv'
  BY PlaceStep
<1>3. TypeOK /\ NoticeInv /\ PlaceInv => InOnePlace
  BY PlaceMeaning
<1> QED
  BY <1>1, <1>2, <1>3, NoticeInvariance, PTL DEF Spec
=============================================================================
