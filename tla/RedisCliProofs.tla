---------------------------- MODULE RedisCliProofs ----------------------------
(* Proofs about module RedisCli, for any number of queries and all faults. *)
EXTENDS RedisCli, SequenceTheorems, TLAPS

-----------------------------------------------------------------------------
(* The inductive invariant *)

\* One command is in one of the places on the way to the server and back.
Carries(q) ==
  \/ obuf = <<q>> /\ toSrv = <<>> /\ toCli = <<>>
  \/ obuf = <<>> /\ toSrv = <<q>> /\ toCli = <<>>
  \/ obuf = <<>> /\ toSrv = <<>> /\ toCli = <<q>>

Bare == obuf = <<>> /\ toSrv = <<>> /\ toCli = <<>>

\* How state, context and timer go with the connection, whatever the loop is
\* in the middle of: in a callback on a loss there is no context any more.
ConnInv ==
  /\ conn = "up" <=> m_state = "connected"
  /\ conn = "up" => "in" \in m_events
  /\ pc = "idle" => /\ m_timer <=> conn = "none"
                    /\ conn \in {"connecting", "up"} => m_context
                    /\ conn = "none" => ~m_context
  /\ pc \in {"freeing", "closed", "retry", "timeout"} => conn = "none" /\ ~m_context /\ ~m_timer
  /\ pc = "answer" => conn = "up" /\ m_context /\ ~m_timer
  /\ pc \in {"gone", "undefined"} => conn # "up"

\* The command on its way is the head's, and the mask asks for its next event;
\* nothing is on its way behind a callback that threw.
WireInv ==
  /\ Bare \/ (pc \notin Callbacks /\ m_list # <<>> /\ Carries(Head(m_list)))
  /\ conn # "up" /\ pc # "freeing" => Bare
  /\ pc = "freeing" => toSrv = <<>> /\ toCli = <<>>
  /\ spent => Bare
  /\ conn = "up" /\ pc = "idle" /\ m_list # <<>> /\ ~spent => ~Bare
  /\ conn = "up" /\ obuf # <<>> => "out" \in m_events

ServeInv == ConnInv /\ WireInv

\* With the number of queries, and that a callback is called for the head,
\* which stays in the list, also when the callback throws.
CallInv == (Begun => m_list # <<>>) /\ (spent => pc \notin Callbacks)

TypeInv == TypeOK /\ Made <= MaxQueries /\ CallInv

-----------------------------------------------------------------------------
(* Types *)

LEMMA OnQueryTypes ==
  ASSUME NEW list \in Seq(Queries), NEW context \in BOOLEAN, NEW events \in SUBSET {"in", "out"},
         obuf \in Seq(Queries), OnQuery(list, context, events)
  PROVE  /\ m_list' = list /\ obuf' \in Seq(Queries) /\ m_events' \subseteq {"in", "out"}
         /\ context = FALSE \/ list = <<>> => obuf' = obuf /\ m_events' = events
         /\ context = TRUE /\ list # <<>> =>
              obuf' = Append(obuf, Head(list)) /\ m_events' = events \cup {"out"}
<1>1. CASE list # <<>> /\ context
  <2>1. Head(list) \in Queries
    BY <1>1
  <2>2. Append(obuf, Head(list)) \in Seq(Queries)
    BY <2>1
  <2> QED
    BY <1>1, <2>2 DEF OnQuery
<1>2. CASE ~(list # <<>> /\ context)
  BY <1>2 DEF OnQuery
<1> QED
  BY <1>1, <1>2

\* The history grows by one and pc is a callback on the head.
LEMMA CallHeadTypes ==
  ASSUME TypeInv, m_list # <<>>, ~Begun, NEW how \in Results \cup {"closed", "timeout"},
         NEW answer \in {NoAnswer} \cup Queries, NEW frame \in Callbacks,
         CallHead(how, answer, frame), UNCHANGED <<m_list, spent>>
  PROVE  /\ done' \in Seq(Resolutions) /\ pc' = frame
         /\ Made' = Made /\ CallInv'
<1>1. Head(m_list) \in Queries
  BY DEF TypeInv, TypeOK
<1>2. [query |-> Head(m_list), how |-> how, answer |-> answer] \in Resolutions
  BY <1>1 DEF Resolutions
<1>3. done \in Seq(Resolutions) /\ m_list \in Seq(Queries)
  BY DEF TypeInv, TypeOK
<1>4. done' \in Seq(Resolutions) /\ Len(done') = Len(done) + 1
  BY <1>2, <1>3 DEF CallHead
<1>5. Len(done) \in Nat /\ Len(m_list) \in Nat
  BY <1>3
<1>6. pc' = frame /\ pc' \in Callbacks
  BY DEF CallHead
<1>7. Made = Len(done) + Len(m_list) /\ Made' = Len(done') + Len(m_list) - 1
  BY <1>5, <1>6 DEF Made, Begun
<1> QED
  BY <1>4, <1>5, <1>6, <1>7 DEF CallInv, Begun

LEMMA InitTypes == Init => TypeInv
<1> SUFFICES ASSUME Init
             PROVE  TypeInv
  OBVIOUS
<1>1. /\ m_list = <<>> /\ m_timer = FALSE /\ pc = "idle" /\ alive = TRUE
      /\ obuf = <<>> /\ toSrv = <<>> /\ toCli = <<>> /\ done = <<>> /\ old = 0
      /\ spent = FALSE
  BY DEF Init
<1>2. /\ m_context \in BOOLEAN /\ m_events \subseteq {"in", "out"}
      /\ m_state \in {"closed", "connecting", "connected"}
      /\ conn \in {"none", "connecting", "up", "stranded"}
  BY DEF Init
<1>3. \A S : <<>> \in Seq(S)
  OBVIOUS
<1>4. old \in 0 .. MaxQueries
  BY <1>1, RedisCliAssumption
<1>5. Made <= MaxQueries /\ CallInv
  BY <1>1, RedisCliAssumption DEF Made, Begun, Callbacks, CallInv
<1>6. spent \in BOOLEAN
  BY <1>1
<1> QED
  BY <1>1, <1>2, <1>3, <1>4, <1>5, <1>6, Zenon DEF TypeInv, TypeOK

\* Steps of which list, history and the place of control are unchanged.
LEMMA KeepsMade ==
  ASSUME TypeInv, UNCHANGED <<m_list, done, pc, spent>>
  PROVE  Made' <= MaxQueries /\ CallInv'
BY DEF TypeInv, Made, Begun, CallInv

\* Steps between two that run no callback.
LEMMA OutsideKeepsMade ==
  ASSUME TypeInv, UNCHANGED <<m_list, done, spent>>, pc \notin Callbacks, pc' \notin Callbacks
  PROVE  Made' <= MaxQueries /\ CallInv'
BY DEF TypeInv, Made, Begun, CallInv

\* A callback throws and its query stays.
LEMMA ThrowKeepsMade ==
  ASSUME TypeInv, UNCHANGED <<m_list, done>>, pc \in Callbacks, pc' \notin Callbacks, spent' = TRUE
  PROVE  Made' <= MaxQueries /\ CallInv'
BY DEF TypeInv, Made, Begun, CallInv

\* A query of which the callback was called is popped.
LEMMA PopKeepsMade ==
  ASSUME TypeInv, Begun, ~Begun', m_list' = Tail(m_list), UNCHANGED done
  PROVE  m_list' \in Seq(Queries) /\ Made' <= MaxQueries /\ CallInv'
<1>1. m_list \in Seq(Queries) /\ m_list # <<>> /\ done \in Seq(Resolutions)
  BY DEF TypeInv, CallInv, TypeOK
<1>2. Tail(m_list) \in Seq(Queries) /\ Len(Tail(m_list)) = Len(m_list) - 1
  BY <1>1
<1>3. Len(done) \in Nat /\ Len(m_list) \in Nat
  BY <1>1
<1>4. Made' = Made
  BY <1>2, <1>3 DEF Made
<1> QED
  BY <1>2, <1>4 DEF TypeInv, CallInv, Begun

LEMMA WireType ==
  ASSUME TypeOK
  PROVE  Wire \in Seq(Queries)
BY DEF TypeOK, Wire

LEMMA QueryTypes == TypeInv /\ Query => TypeInv'
<1> SUFFICES ASSUME TypeInv, Query
             PROVE  TypeInv'
  OBVIOUS
<1> DEFINE list == Append(m_list, Made + 1)
<1>1. m_list \in Seq(Queries) /\ done \in Seq(Resolutions) /\ obuf \in Seq(Queries)
  BY DEF TypeInv, TypeOK
<1>2. Len(m_list) \in Nat /\ Len(done) \in Nat
  BY <1>1
<1>3. Begun => Len(m_list) > 0
  BY <1>1, <1>2 DEF TypeInv, CallInv
<1>4. Made \in Nat /\ Made + 1 \in Queries
  BY <1>2, <1>3, RedisCliAssumption DEF Made, Query, Queries
<1>5. list \in Seq(Queries) /\ Len(list) = Len(m_list) + 1 /\ list # <<>>
  BY <1>1, <1>4
<1>6. m_list' = list /\ obuf' \in Seq(Queries) /\ m_events' \subseteq {"in", "out"}
  <2>1. CASE m_list = <<>> /\ m_state = "connected"
    <3>1. OnQuery(list, m_context, m_events)
      BY <2>1 DEF Query
    <3>2. m_context \in BOOLEAN /\ m_events \in SUBSET {"in", "out"}
      BY DEF TypeInv, TypeOK
    <3> HIDE DEF list
    <3> QED
      BY <1>1, <1>5, <3>1, <3>2, OnQueryTypes
  <2>2. CASE ~(m_list = <<>> /\ m_state = "connected")
    BY <1>1, <2>2 DEF Query, TypeInv, TypeOK
  <2> QED
    BY <2>1, <2>2
<1>7. UNCHANGED <<m_state, m_context, m_timer, conn, toSrv, toCli, pc, alive, done, old, spent>>
  BY DEF Query
<1>8. Made' = Made + 1
  BY <1>2, <1>5, <1>6, <1>7 DEF Made, Begun
<1>9. Made' <= MaxQueries /\ CallInv'
  BY <1>4, <1>5, <1>6, <1>7, <1>8, RedisCliAssumption DEF Query, CallInv, TypeInv
<1> HIDE DEF list
<1> QED
  BY <1>5, <1>6, <1>7, <1>9 DEF TypeInv, TypeOK

LEMMA ReplyTypes == TypeInv /\ WireInv /\ Reply => TypeInv'
<1> SUFFICES ASSUME TypeInv, WireInv, Reply
             PROVE  TypeInv'
  OBVIOUS
<1>1. toCli \in Seq(Queries) /\ toCli # <<>> /\ ~Begun
  BY DEF Reply, TypeInv, TypeOK, Callbacks, Begun, WireInv, Bare
<1>2. Head(toCli) \in Queries /\ Tail(toCli) \in Seq(Queries)
  BY <1>1
<1>3. toCli' = Tail(toCli) /\ UNCHANGED <<m_list, m_state, m_context, m_events, m_timer, conn, obuf, toSrv, alive, old, spent>>
  BY DEF Reply
<1>4. done' \in Seq(Resolutions) /\ Made' <= MaxQueries /\ CallInv' /\ pc' \in {"idle", "answer"}
  <2>1. CASE m_list # <<>>
    <3>1. PICK how \in Results : CallHead(how, Head(toCli), "answer")
      BY <2>1 DEF Reply
    <3>2. "answer" \in Callbacks
      BY DEF Callbacks
    <3> QED
      BY <1>1, <1>2, <1>3, <2>1, <3>1, <3>2, CallHeadTypes DEF TypeInv
  <2>2. CASE m_list = <<>>
    <3>1. UNCHANGED <<done, pc>> /\ pc = "idle"
      BY <2>2 DEF Reply
    <3> QED
      BY <1>3, <3>1, KeepsMade DEF TypeInv, TypeOK
  <2> QED
    BY <2>1, <2>2
<1> QED
  BY <1>2, <1>3, <1>4 DEF TypeInv, TypeOK, Callbacks

LEMMA DroppedTypes == TypeInv /\ WireInv /\ Dropped => TypeInv'
<1> SUFFICES ASSUME TypeInv, WireInv, Dropped
             PROVE  TypeInv'
  OBVIOUS
<1>1. obuf \in Seq(Queries) /\ obuf # <<>> /\ pc = "freeing" /\ ~Begun
  BY DEF Dropped, TypeInv, TypeOK, Callbacks, Begun, WireInv, Bare
<1>2. Tail(obuf) \in Seq(Queries)
  BY <1>1
<1>3. obuf' = Tail(obuf) /\ UNCHANGED <<m_list, m_state, m_context, m_events, m_timer, conn, toSrv, toCli, alive, old, spent>>
  BY DEF Dropped
<1>4. done' \in Seq(Resolutions) /\ Made' <= MaxQueries /\ CallInv' /\ pc' \in {"freeing", "closed"}
  <2>1. CASE m_list # <<>>
    <3>1. CallHead("closed", NoAnswer, "closed")
      BY <2>1 DEF Dropped
    <3>2. "closed" \in Callbacks
      BY DEF Callbacks
    <3> QED
      BY <1>1, <1>3, <2>1, <3>1, <3>2, CallHeadTypes DEF TypeInv
  <2>2. CASE m_list = <<>>
    <3>1. UNCHANGED <<done, pc>>
      BY <2>2 DEF Dropped
    <3> QED
      BY <1>1, <1>3, <3>1, KeepsMade DEF TypeInv, TypeOK
  <2> QED
    BY <2>1, <2>2
<1> QED
  BY <1>2, <1>3, <1>4 DEF TypeInv, TypeOK, Callbacks

LEMMA ExpireTypes == TypeInv /\ Expire => TypeInv'
<1> SUFFICES ASSUME TypeInv, Expire
             PROVE  TypeInv'
  OBVIOUS
<1>1. m_list # <<>> /\ ~Begun /\ CallHead("timeout", NoAnswer, "timeout")
  BY DEF Expire, HeadIsOld, Callbacks, Begun
<1>2. "timeout" \in Callbacks
  BY DEF Callbacks
<1>3. UNCHANGED <<m_list, m_state, m_context, m_events, m_timer, conn, obuf, toSrv, toCli, alive, old, spent>>
  BY DEF Expire
<1>4. done' \in Seq(Resolutions) /\ Made' = Made /\ CallInv' /\ pc' = "timeout"
  BY <1>1, <1>2, <1>3, CallHeadTypes
<1> QED
  BY <1>2, <1>3, <1>4 DEF TypeInv, TypeOK, Callbacks

LEMMA ReturnsTypes == TypeInv /\ Returns => TypeInv'
<1> SUFFICES ASSUME TypeInv, Returns
             PROVE  TypeInv'
  OBVIOUS
<1>1. pc \in Callbacks /\ pc' \in {"idle", "freeing"} /\ Begun /\ ~Begun'
  BY DEF Returns, Callbacks, Begun, TypeInv, CallInv
<1>2. m_list \in Seq(Queries) /\ m_list # <<>>
  BY <1>1 DEF TypeInv, TypeOK, CallInv
<1>3. Tail(m_list) \in Seq(Queries)
  BY <1>2
<1>4. m_list' = Tail(m_list) /\ obuf' \in Seq(Queries) /\ m_events' \subseteq {"in", "out"}
  <2>1. OnQuery(Tail(m_list), m_context, m_events)
    BY DEF Returns
  <2>2. m_context \in BOOLEAN /\ m_events \in SUBSET {"in", "out"} /\ obuf \in Seq(Queries)
    BY DEF TypeInv, TypeOK
  <2> QED
    BY <1>3, <2>1, <2>2, OnQueryTypes
<1>5. UNCHANGED <<m_state, m_context, m_timer, conn, toSrv, toCli, alive, done, old, spent>>
  BY DEF Returns
<1>6. m_list' \in Seq(Queries) /\ Made' <= MaxQueries /\ CallInv'
  BY <1>1, <1>4, <1>5, PopKeepsMade
<1> QED
  BY <1>1, <1>4, <1>5, <1>6 DEF TypeInv, TypeOK

LEMMA TypeStep == TypeInv /\ WireInv /\ [Next]_vars => TypeInv'
<1> SUFFICES ASSUME TypeInv, WireInv, [Next]_vars
             PROVE  TypeInv'
  OBVIOUS
<1> USE DEF Callbacks
<1>1. CASE Query
  BY <1>1, QueryTypes
<1>2. CASE Written
  <2>1. Made' <= MaxQueries /\ CallInv'
    BY <1>2, KeepsMade DEF Written
  <2>2. toSrv' \in Seq(Queries) /\ obuf' = <<>> /\ <<>> \in Seq(Queries)
    BY <1>2 DEF Written, TypeInv, TypeOK
  <2> QED
    BY <1>2, <2>1, <2>2 DEF Written, TypeInv, TypeOK
<1>3. CASE Reply
  BY <1>3, ReplyTypes
<1>4. CASE Returns
  BY <1>4, ReturnsTypes
<1>5. CASE ConnectOk
  <2>1. OnQuery(m_list, m_context, {"in"}) /\ UNCHANGED <<m_context, m_timer, toSrv, toCli, pc, alive, done, old, spent>>
    BY <1>5 DEF ConnectOk
  <2>2. m_list' = m_list /\ obuf' \in Seq(Queries) /\ m_events' \subseteq {"in", "out"}
    <3>1. {"in"} \in SUBSET {"in", "out"} /\ m_list \in Seq(Queries) /\ m_context \in BOOLEAN /\ obuf \in Seq(Queries)
      BY DEF TypeInv, TypeOK
    <3> QED
      BY <2>1, <3>1, OnQueryTypes
  <2>3. Made' <= MaxQueries /\ CallInv'
    BY <2>1, <2>2, KeepsMade
  <2> QED
    BY <1>5, <2>1, <2>2, <2>3 DEF ConnectOk, TypeInv, TypeOK
<1>6. CASE ConnectFails \/ Disconnected \/ Rearm
  <2>1. Made' <= MaxQueries /\ CallInv'
    BY <1>6, OutsideKeepsMade DEF ConnectFails, Disconnected, Rearm
  <2> QED
    BY <1>6, <2>1 DEF ConnectFails, Disconnected, Rearm, Clear, TypeInv, TypeOK
<1>7. CASE Lost \/ Destroy
  <2>1. Made' <= MaxQueries /\ CallInv'
    BY <1>7, OutsideKeepsMade DEF Lost, Destroy
  <2>2. obuf' \in Seq(Queries) /\ toSrv' \in Seq(Queries) /\ toCli' \in Seq(Queries)
    <3>1. Wire \in Seq(Queries) /\ <<>> \in Seq(Queries)
      BY WireType DEF TypeInv
    <3>2. CASE UNCHANGED <<obuf, toSrv, toCli>>
      BY <3>2 DEF TypeInv, TypeOK
    <3>3. CASE obuf' = Wire /\ toSrv' = <<>> /\ toCli' = <<>>
      BY <3>1, <3>3
    <3> QED
      BY <1>7, <3>2, <3>3 DEF Lost, Destroy
  <2> QED
    BY <1>7, <2>1, <2>2 DEF Lost, Destroy, Clear, TypeInv, TypeOK
<1>8. CASE Dropped
  BY <1>8, DroppedTypes
<1>9. CASE Expire
  BY <1>9, ExpireTypes
<1>10. CASE ExpireReturns \/ ExpireSpent
  <2>1. Begun /\ ~Begun' /\ m_list' = Tail(m_list) /\ UNCHANGED done
    BY <1>10 DEF ExpireReturns, ExpireSpent, Begun, TypeInv, CallInv
  <2>2. m_list' \in Seq(Queries) /\ Made' <= MaxQueries /\ CallInv'
    BY <2>1, PopKeepsMade
  <2> QED
    BY <1>10, <2>2 DEF ExpireReturns, ExpireSpent, TypeInv, TypeOK
<1>11. CASE TimerFires
  <2>1. Made' <= MaxQueries /\ CallInv'
    BY <1>11, OutsideKeepsMade DEF TimerFires
  <2>2. /\ m_context' \in BOOLEAN /\ m_events' \subseteq {"in", "out"}
        /\ m_state' \in {"closed", "connecting", "connected"}
        /\ conn' \in {"none", "connecting", "up", "stranded"}
    BY <1>11 DEF TimerFires, Connect, TypeInv, TypeOK
  <2> QED
    BY <1>11, <2>1, <2>2 DEF TimerFires, TypeInv, TypeOK
<1>12. CASE ServerReplies
  <2>1. Made' <= MaxQueries /\ CallInv'
    BY <1>12, KeepsMade DEF ServerReplies
  <2>2. toSrv \in Seq(Queries) /\ toSrv # <<>> /\ toCli \in Seq(Queries)
    BY <1>12 DEF ServerReplies, TypeInv, TypeOK
  <2>3. Head(toSrv) \in Queries /\ Tail(toSrv) \in Seq(Queries)
    BY <2>2
  <2>4. Append(toCli, Head(toSrv)) \in Seq(Queries)
    BY <2>2, <2>3
  <2> QED
    BY <1>12, <2>1, <2>3, <2>4 DEF ServerReplies, TypeInv, TypeOK
<1>13. CASE Age
  <2>1. Made' <= MaxQueries /\ CallInv'
    BY <1>13, KeepsMade DEF Age
  <2>2. Made \in Int
    <3>1. Len(m_list) \in Nat /\ Len(done) \in Nat
      BY DEF TypeInv, TypeOK
    <3> QED
      BY <3>1 DEF Made
  <2>3. old' \in 0 .. MaxQueries
    BY <1>13, <2>2, RedisCliAssumption DEF Age, TypeInv, TypeOK
  <2> QED
    BY <1>13, <2>1, <2>3 DEF Age, TypeInv, TypeOK
<1>14. CASE Throws
  <2>1. Made' <= MaxQueries /\ CallInv'
    BY <1>14, ThrowKeepsMade DEF Throws
  <2> QED
    BY <1>14, <2>1 DEF Throws, TypeInv, TypeOK
<1>15. CASE ConnectSpent
  <2>1. Made' <= MaxQueries /\ CallInv'
    BY <1>15, OutsideKeepsMade DEF ConnectSpent
  <2> QED
    BY <1>15, <2>1 DEF ConnectSpent, TypeInv, TypeOK
<1>16. CASE UNCHANGED vars
  BY <1>16, KeepsMade DEF vars, TypeInv, TypeOK
<1> QED
  BY <1>1, <1>2, <1>3, <1>4, <1>5, <1>6, <1>7, <1>8, <1>9, <1>10, <1>11, <1>12, <1>13, <1>14, <1>15,
     <1>16 DEF Next

-----------------------------------------------------------------------------
(* The invariant holds at first and is kept *)

LEMMA InitServes == Init => ServeInv
<1> SUFFICES ASSUME Init
             PROVE  ServeInv
  OBVIOUS
<1>1. ConnInv
  BY DEF Init, ConnInv
<1>2. WireInv
  BY DEF Init, WireInv, Bare, Callbacks
<1> QED
  BY <1>1, <1>2 DEF ServeInv

LEMMA ConnStep == TypeInv /\ ServeInv /\ [Next]_vars => ConnInv'
<1> SUFFICES ASSUME TypeInv, ConnInv, [Next]_vars
             PROVE  ConnInv'
  BY DEF ServeInv
<1>0. m_context \in BOOLEAN /\ m_timer \in BOOLEAN /\ pc \in Callbacks \cup {"idle", "freeing", "retry", "gone", "undefined"}
  BY DEF TypeInv, TypeOK
<1> USE <1>0 DEF ConnInv, Callbacks
<1>1. CASE Query
  <2>1. "in" \in m_events => "in" \in m_events'
    BY <1>1 DEF Query, OnQuery
  <2> QED
    BY <1>1, <2>1 DEF Query
<1>2. CASE Written
  BY <1>2 DEF Written
<1>3. CASE Reply
  BY <1>3 DEF Reply, CallHead
<1>4. CASE Returns
  <2>1. "in" \in m_events => "in" \in m_events'
    BY <1>4 DEF Returns, OnQuery
  <2> QED
    BY <1>4, <2>1 DEF Returns
<1>5. CASE ConnectOk
  <2>1. "in" \in m_events'
    BY <1>5 DEF ConnectOk, OnQuery
  <2> QED
    BY <1>5, <2>1 DEF ConnectOk
<1>6. CASE ConnectFails
  BY <1>6 DEF ConnectFails, Clear
<1>7. CASE Lost
  BY <1>7 DEF Lost, Clear
<1>8. CASE Dropped
  BY <1>8 DEF Dropped, CallHead
<1>9. CASE Disconnected
  BY <1>9 DEF Disconnected, Clear
<1>10. CASE Expire
  BY <1>10 DEF Expire, CallHead
<1>11. CASE ExpireReturns
  BY <1>11 DEF ExpireReturns
<1>12. CASE Rearm
  BY <1>12 DEF Rearm
<1>13. CASE TimerFires
  BY <1>13 DEF TimerFires, Connect
<1>14. CASE Destroy
  BY <1>14 DEF Destroy, Clear
<1>15. CASE Throws
  BY <1>15 DEF Throws
<1>16. CASE ConnectSpent \/ ExpireSpent
  BY <1>16 DEF ConnectSpent, ExpireSpent
<1>17. CASE ServerReplies \/ Age \/ UNCHANGED vars
  BY <1>17 DEF ServerReplies, Age, vars
<1> QED
  BY <1>1, <1>2, <1>3, <1>4, <1>5, <1>6, <1>7, <1>8, <1>9, <1>10, <1>11, <1>12, <1>13, <1>14, <1>15,
     <1>16, <1>17 DEF Next

\* Sequences of one.
LEMMA Single ==
  ASSUME NEW q \in Queries
  PROVE  /\ <<q>> \in Seq(Queries) /\ <<q>> # <<>> /\ Head(<<q>>) = q /\ Tail(<<q>>) = <<>>
         /\ Append(<<>>, q) = <<q>> /\ <<>> \o <<q>> = <<q>>
OBVIOUS

\* All that is on its way.
LEMMA WireOfOne ==
  /\ Bare => Wire = <<>>
  /\ \A q \in Queries : Carries(q) => Wire = <<q>>
<1>1. Bare => Wire = <<>>
  <2>1. <<>> \o <<>> = <<>> /\ (<<>> \o <<>>) \o <<>> = <<>>
    OBVIOUS
  <2> QED
    BY <2>1 DEF Bare, Wire
<1>2. ASSUME NEW q \in Queries, Carries(q)
      PROVE  Wire = <<q>>
  <2>1. /\ (<<q>> \o <<>>) \o <<>> = <<q>> /\ (<<>> \o <<q>>) \o <<>> = <<q>>
        /\ (<<>> \o <<>>) \o <<q>> = <<q>>
    OBVIOUS
  <2> QED
    BY <1>2, <2>1 DEF Carries, Wire
<1> QED
  BY <1>1, <1>2

LEMMA HeadIsQuery == TypeInv /\ m_list # <<>> => Head(m_list) \in Queries
BY DEF TypeInv, TypeOK

LEMMA QueryWire == TypeInv /\ ServeInv /\ Query => WireInv'
<1> SUFFICES ASSUME TypeInv, ConnInv, WireInv, Query
             PROVE  WireInv'
  BY DEF ServeInv
<1>1. UNCHANGED <<m_state, m_context, conn, toSrv, toCli, pc, spent>> /\ pc \in {"idle"} \cup Callbacks
  BY DEF Query
<1>2. m_list \in Seq(Queries) /\ done \in Seq(Resolutions) /\ (m_list = <<>> => pc = "idle" /\ ~spent)
  BY <1>1 DEF TypeInv, TypeOK, CallInv, Begun
<1>3. Made + 1 \in Queries
  <2>1. Len(m_list) \in Nat /\ Len(done) \in Nat /\ (Begun => Len(m_list) > 0)
    BY <1>2 DEF TypeInv, CallInv
  <2> QED
    BY <2>1, RedisCliAssumption DEF Made, Query, Queries
<1>4. CASE m_list = <<>> /\ m_state = "connected"
  <2>1. conn = "up" /\ m_context /\ pc = "idle" /\ Bare
    BY <1>2, <1>4 DEF ConnInv, WireInv
  <2>2. Append(m_list, Made + 1) = <<Made + 1>>
    BY <1>3, <1>4, Single
  <2>3. OnQuery(<<Made + 1>>, m_context, m_events)
    BY <1>4, <2>2 DEF Query
  <2>4. m_list' = <<Made + 1>> /\ obuf' = Append(obuf, Head(<<Made + 1>>)) /\ "out" \in m_events'
    BY <1>3, <2>1, <2>3, Single DEF OnQuery
  <2>5. obuf' = <<Made + 1>> /\ Head(m_list') = Made + 1 /\ m_list' # <<>> /\ obuf' # <<>>
    BY <1>3, <2>1, <2>4, Single DEF Bare
  <2>6. Carries(Head(m_list))'
    BY <1>1, <2>1, <2>5 DEF Carries, Bare
  <2> QED
    BY <1>1, <1>2, <1>4, <2>1, <2>4, <2>5, <2>6 DEF WireInv, Carries, Bare, Callbacks
<1>5. CASE ~(m_list = <<>> /\ m_state = "connected")
  <2>1. m_list' = Append(m_list, Made + 1) /\ UNCHANGED <<obuf, m_events>>
    BY <1>5 DEF Query
  <2>2. m_list' # <<>> /\ (m_list # <<>> => Head(m_list') = Head(m_list))
    BY <1>2, <1>3, <2>1
  <2>3. Bare' <=> Bare
    BY <1>1, <2>1 DEF Bare
  <2>4. m_list = <<>> => conn # "up"
    BY <1>5 DEF ConnInv
  <2>5. m_list # <<>> => (Carries(Head(m_list))' <=> Carries(Head(m_list)))
    BY <1>1, <2>1, <2>2 DEF Carries
  <2> QED
    BY <1>1, <1>2, <2>1, <2>2, <2>3, <2>4, <2>5 DEF WireInv
<1> QED
  BY <1>4, <1>5

LEMMA ReturnsWire == TypeInv /\ ServeInv /\ Returns => WireInv'
<1> SUFFICES ASSUME TypeInv, ConnInv, WireInv, Returns
             PROVE  WireInv'
  BY DEF ServeInv
<1>1. /\ pc \in {"answer", "closed"} /\ UNCHANGED <<conn, m_context, toSrv, toCli>> /\ ~spent'
      /\ pc' = (IF pc = "answer" THEN "idle" ELSE "freeing")
      /\ OnQuery(Tail(m_list), m_context, m_events)
  BY DEF Returns, TypeInv, CallInv, Callbacks
<1>2. Bare
  BY <1>1 DEF WireInv, Callbacks
<1>3. m_list \in Seq(Queries) /\ m_list # <<>>
  BY <1>1 DEF TypeInv, TypeOK, CallInv, Callbacks, Begun
<1>4. Tail(m_list) \in Seq(Queries)
  BY <1>3
<1>5. CASE pc = "closed" \/ Tail(m_list) = <<>>
  <2>1. m_list' = Tail(m_list) /\ UNCHANGED <<obuf, m_events>>
    BY <1>1, <1>5 DEF OnQuery, ConnInv
  <2>2. Bare' /\ obuf' = <<>>
    BY <1>1, <1>2, <2>1 DEF Bare
  <2>3. conn = "up" => m_list' = <<>>
    BY <1>5, <2>1 DEF ConnInv
  <2> QED
    BY <1>1, <2>2, <2>3 DEF WireInv, Bare
<1>6. CASE pc = "answer" /\ Tail(m_list) # <<>>
  <2>1. conn = "up" /\ m_context
    BY <1>6 DEF ConnInv
  <2>2. Head(Tail(m_list)) \in Queries
    BY <1>4, <1>6
  <2>3. m_list' = Tail(m_list) /\ obuf' = Append(obuf, Head(Tail(m_list))) /\ "out" \in m_events'
    BY <1>1, <1>6, <2>1 DEF OnQuery
  <2>4. obuf' = <<Head(m_list')>> /\ obuf' # <<>> /\ m_list' # <<>>
    BY <1>2, <1>6, <2>2, <2>3, Single DEF Bare
  <2>5. Carries(Head(m_list))'
    BY <1>1, <1>2, <2>4 DEF Carries, Bare
  <2> QED
    BY <1>1, <1>6, <2>1, <2>3, <2>4, <2>5 DEF WireInv, Bare, Callbacks
<1> QED
  BY <1>1, <1>5, <1>6

LEMMA ConnectOkWire == TypeInv /\ ServeInv /\ ConnectOk => WireInv'
<1> SUFFICES ASSUME TypeInv, ConnInv, WireInv, ConnectOk
             PROVE  WireInv'
  BY DEF ServeInv
<1>1. /\ pc = "idle" /\ conn = "connecting" /\ conn' = "up" /\ ~spent /\ UNCHANGED <<pc, toSrv, toCli, spent>>
      /\ OnQuery(m_list, m_context, {"in"})
  BY DEF ConnectOk
<1>2. m_context /\ Bare
  BY <1>1 DEF ConnInv, WireInv
<1>3. CASE m_list = <<>>
  <2>1. m_list' = <<>> /\ obuf' = obuf
    BY <1>1, <1>3 DEF OnQuery
  <2> QED
    BY <1>1, <1>2, <2>1 DEF WireInv, Bare
<1>4. CASE m_list # <<>>
  <2>1. m_list' = m_list /\ obuf' = Append(obuf, Head(m_list)) /\ "out" \in m_events'
    BY <1>1, <1>2, <1>4 DEF OnQuery
  <2>2. obuf' = <<Head(m_list)>> /\ obuf' # <<>>
    BY <1>2, <1>4, <2>1, HeadIsQuery, Single DEF Bare
  <2>3. Carries(Head(m_list))'
    BY <1>1, <1>2, <2>1, <2>2 DEF Carries, Bare
  <2> QED
    BY <1>1, <1>4, <2>1, <2>2, <2>3 DEF WireInv, Bare, Callbacks
<1> QED
  BY <1>3, <1>4

\* The connection goes with a command on it.
LEMMA LosesWire ==
  ASSUME TypeInv, WireInv, pc = "idle", conn' = "none", pc' = "freeing", UNCHANGED <<m_list, spent>>,
         obuf' = Wire, toSrv' = <<>>, toCli' = <<>>
  PROVE  WireInv'
<1>1. CASE Bare
  BY <1>1, WireOfOne DEF WireInv, Bare
<1>2. CASE m_list # <<>> /\ Carries(Head(m_list))
  <2>1. obuf' = <<Head(m_list)>>
    BY <1>2, WireOfOne, HeadIsQuery
  <2>2. Carries(Head(m_list))'
    BY <2>1 DEF Carries
  <2>3. ~spent'
    BY <1>2, HeadIsQuery, Single DEF WireInv, Bare, Carries
  <2> QED
    BY <1>2, <2>2, <2>3 DEF WireInv, Callbacks
<1> QED
  BY <1>1, <1>2 DEF WireInv

LEMMA WireStep == TypeInv /\ ServeInv /\ [Next]_vars => WireInv'
<1> SUFFICES ASSUME TypeInv, ServeInv, ConnInv, WireInv, [Next]_vars
             PROVE  WireInv'
  BY DEF ServeInv
<1>1. CASE Query
  BY <1>1, QueryWire
<1>2. CASE Written
  <2>1. /\ pc = "idle" /\ conn = "up" /\ obuf # <<>> /\ UNCHANGED <<m_list, conn, toCli, pc, spent>>
        /\ toSrv' = toSrv \o obuf /\ obuf' = <<>> /\ ~spent
    BY <1>2 DEF Written, WireInv, Bare
  <2>2. m_list # <<>> /\ Carries(Head(m_list)) /\ Head(m_list) \in Queries
    BY <2>1, HeadIsQuery DEF WireInv, Bare
  <2>3. obuf = <<Head(m_list)>> /\ toSrv = <<>> /\ toCli = <<>>
    BY <2>1, <2>2 DEF Carries
  <2>4. toSrv' = <<Head(m_list)>>
    BY <2>1, <2>2, <2>3, Single
  <2>5. Carries(Head(m_list))' /\ toSrv' # <<>>
    BY <2>1, <2>2, <2>3, <2>4, Single DEF Carries
  <2> QED
    BY <2>1, <2>2, <2>5 DEF WireInv, Bare, Callbacks
<1>3. CASE Reply
  <2>1. /\ pc = "idle" /\ conn = "up" /\ toCli # <<>> /\ toCli' = Tail(toCli)
        /\ UNCHANGED <<m_list, conn, obuf, toSrv>>
    BY <1>3 DEF Reply
  <2>2. m_list # <<>> /\ Carries(Head(m_list)) /\ Head(m_list) \in Queries
    BY <2>1, HeadIsQuery DEF WireInv, Bare
  <2>3. obuf = <<>> /\ toSrv = <<>> /\ toCli = <<Head(m_list)>>
    BY <2>1, <2>2 DEF Carries
  <2>4. Bare' /\ pc' = "answer"
    BY <1>3, <2>1, <2>2, <2>3, Single DEF Bare, Reply, CallHead
  <2> QED
    BY <2>4 DEF WireInv, Bare
<1>4. CASE Returns
  BY <1>4, ReturnsWire
<1>5. CASE ConnectOk
  BY <1>5, ConnectOkWire
<1>6. CASE ConnectSpent \/ ConnectFails \/ Disconnected \/ Expire \/ ExpireSpent \/ ExpireReturns \/ Rearm
  <2>1. Bare /\ UNCHANGED <<obuf, toSrv, toCli>>
    BY <1>6 DEF ConnectSpent, ConnectFails, Disconnected, Expire, ExpireSpent, ExpireReturns, Rearm, ConnInv,
                WireInv, Bare
  <2>2. Bare' /\ obuf' = <<>> /\ conn' # "up"
    BY <1>6, <2>1 DEF ConnectSpent, ConnectFails, Disconnected, Expire, ExpireSpent, ExpireReturns, Rearm,
                      Clear, Bare, ConnInv
  <2> QED
    BY <2>2 DEF WireInv, Bare
<1>7. CASE Lost
  BY <1>7, LosesWire DEF Lost, Clear
<1>8. CASE Dropped
  <2>1. /\ pc = "freeing" /\ obuf # <<>> /\ obuf' = Tail(obuf) /\ UNCHANGED <<m_list, conn, toSrv, toCli>>
    BY <1>8 DEF Dropped
  <2>2. m_list # <<>> /\ Carries(Head(m_list)) /\ Head(m_list) \in Queries /\ conn = "none"
    BY <2>1, HeadIsQuery DEF WireInv, Bare, ConnInv
  <2>3. obuf = <<Head(m_list)>> /\ toSrv = <<>> /\ toCli = <<>>
    BY <2>1, <2>2 DEF Carries
  <2>4. Bare'
    BY <2>1, <2>2, <2>3, Single DEF Bare
  <2> QED
    BY <2>1, <2>2, <2>4 DEF WireInv, Bare
<1>9. CASE TimerFires
  <2>1. m_timer /\ pc \in {"idle", "gone"} /\ conn # "up" /\ UNCHANGED <<obuf, toSrv, toCli>>
    BY <1>9 DEF TimerFires, ConnInv
  <2>2. Bare' /\ obuf' = <<>>
    BY <2>1 DEF WireInv, Bare
  <2>3. conn' # "up"
    BY <1>9, <2>1 DEF TimerFires, Connect
  <2> QED
    BY <2>2, <2>3 DEF WireInv, Bare
<1>10. CASE Destroy
  <2>1. CASE m_context
    BY <1>10, <2>1, LosesWire DEF Destroy, Clear
  <2>2. CASE ~m_context
    <3>1. conn # "up" /\ pc = "idle" /\ UNCHANGED <<conn, obuf, toSrv, toCli>>
      BY <1>10, <2>2 DEF Destroy, ConnInv
    <3>2. Bare' /\ conn' # "up" /\ obuf' = <<>>
      BY <3>1 DEF WireInv, Bare
    <3> QED
      BY <3>2 DEF WireInv, Bare
  <2> QED
    BY <2>1, <2>2
<1>11. CASE ServerReplies
  <2>1. /\ toSrv # <<>> /\ toSrv' = Tail(toSrv) /\ toCli' = Append(toCli, Head(toSrv))
        /\ UNCHANGED <<m_list, m_events, conn, obuf, pc, spent>> /\ ~spent
    BY <1>11 DEF ServerReplies, WireInv, Bare
  <2>2. /\ m_list # <<>> /\ Carries(Head(m_list)) /\ Head(m_list) \in Queries
        /\ pc \notin Callbacks /\ conn = "up"
    BY <2>1, HeadIsQuery DEF WireInv, Bare
  <2>3. obuf = <<>> /\ toSrv = <<Head(m_list)>> /\ toCli = <<>>
    BY <2>1, <2>2 DEF Carries
  <2>4. toSrv' = <<>> /\ toCli' = <<Head(m_list)>> /\ toCli' # <<>>
    BY <2>1, <2>2, <2>3, Single
  <2>5. Carries(Head(m_list))'
    BY <2>1, <2>3, <2>4 DEF Carries
  <2> QED
    BY <2>1, <2>2, <2>3, <2>4, <2>5 DEF WireInv, Bare, Callbacks, ConnInv
<1>12. CASE Age \/ UNCHANGED vars
  <2>1. UNCHANGED <<m_list, m_events, conn, obuf, toSrv, toCli, pc, spent>>
    BY <1>12 DEF Age, vars
  <2> QED
    BY <2>1 DEF WireInv, Bare, Carries
<1>13. CASE Throws
  <2>1. pc \in Callbacks /\ spent' = TRUE /\ pc' \in {"idle", "undefined"} /\ UNCHANGED <<obuf, toSrv, toCli>>
    BY <1>13 DEF Throws
  <2>2. Bare' /\ obuf' = <<>>
    BY <2>1 DEF WireInv, Bare
  <2> QED
    BY <2>1, <2>2 DEF WireInv, Bare
<1> QED
  BY <1>1, <1>2, <1>3, <1>4, <1>5, <1>6, <1>7, <1>8, <1>9, <1>10, <1>11, <1>12, <1>13 DEF Next

LEMMA Invariance == Spec => [](TypeInv /\ ServeInv)
<1>1. Init => TypeInv /\ ServeInv
  BY InitTypes, InitServes
<1>2. TypeInv /\ ServeInv /\ [Next]_vars => (TypeInv /\ ServeInv)'
  BY TypeStep, ConnStep, WireStep DEF ServeInv
<1> QED
  BY <1>1, <1>2, PTL DEF Spec

-----------------------------------------------------------------------------
(* What the invariant says *)

\* rediscli never has two commands under way, and the one that is under way
\* is the head of m_list, to which __oncallback gives the next reply.
THEOREM CommandIsTheHead == Spec => []WireServesHead
<1>1. TypeInv /\ WireInv => WireServesHead
  <2> SUFFICES ASSUME TypeInv, WireInv
               PROVE  WireServesHead
    OBVIOUS
  <2>1. Len(<<>>) = 0
    OBVIOUS
  <2>2. CASE Bare
    BY <2>1, <2>2, WireOfOne DEF WireServesHead
  <2>3. CASE ~Bare
    <3>1. pc \notin Callbacks /\ m_list # <<>> /\ Head(m_list) \in Queries /\ Carries(Head(m_list))
      BY <2>3, HeadIsQuery DEF WireInv
    <3>2. Wire = <<Head(m_list)>>
      BY <3>1, WireOfOne
    <3> QED
      BY <3>1, <3>2 DEF WireServesHead
  <2> QED
    BY <2>2, <2>3
<1> QED
  BY <1>1, Invariance, PTL DEF ServeInv

\* Between two events rediscli is serving the head of m_list, with the event
\* it needs in the mask, or it is on its one way back to a connection, unless
\* a callback threw or one of the other faults stops it for good: the
\* asserts on the timer and the context hold, and none of the places that
\* change the mask loses a write or a read that is due.
THEOREM ServesOrComesBack == Spec => []ServedOrComingBack
<1>1. TypeInv /\ ServeInv => HeadIsServed
  <2> SUFFICES ASSUME TypeInv, ConnInv, WireInv, pc = "idle", m_state = "connected", m_list # <<>>,
                      ~spent
               PROVE  Wire # <<>> /\ (IF obuf # <<>> THEN "out" ELSE "in") \in m_events
    BY DEF ServeInv, HeadIsServed
  <2>1. conn = "up" /\ "in" \in m_events /\ (obuf # <<>> => "out" \in m_events) /\ ~Bare
    BY DEF ConnInv, WireInv
  <2>2. Head(m_list) \in Queries /\ Carries(Head(m_list))
    BY <2>1, HeadIsQuery DEF WireInv
  <2>3. Wire # <<>>
    BY <2>2, WireOfOne, Single
  <2> QED
    BY <2>1, <2>3
<1>2. TypeInv /\ ServeInv => OneWayBack
  BY DEF ServeInv, ConnInv, OneWayBack
<1>3. TypeInv /\ ServeInv => ServedOrComingBack
  BY <1>1, <1>2 DEF TypeInv, ServedOrComingBack
<1> QED
  BY <1>3, Invariance, PTL

\* When a connection is lost rediscli sends nothing as its callback for the
\* loss returns: the queries that wait are neither failed nor given to the
\* context that is being freed.
THEOREM LossKeepsTheRest == Spec => LossFailsOne
<1>1. ASSUME TypeInv, ServeInv, [Next]_vars, pc = "closed", pc' # "closed"
      PROVE  obuf' = <<>>
  <2>1. Returns \/ Throws
    BY <1>1 DEF Next, vars, Callbacks, Query, Written, Reply, ConnectOk, ConnectSpent, ConnectFails, Lost,
                Dropped, Disconnected, Expire, ExpireSpent, ExpireReturns, Rearm, TimerFires, Destroy,
                ServerReplies, Age
  <2>2. ~m_context /\ Bare
    BY <1>1 DEF ServeInv, ConnInv, WireInv, Callbacks
  <2> QED
    BY <2>1, <2>2 DEF Returns, Throws, OnQuery, Bare
<1>2. TypeInv /\ ServeInv /\ [Next]_vars => [pc = "closed" /\ pc' # "closed" => obuf' = <<>>]_vars
  BY <1>1
<1> QED
  BY <1>2, Invariance, PTL DEF Spec, LossFailsOne

-----------------------------------------------------------------------------
(* Refinement *)

\* What the query queue sees: a query whose callback is running, or threw, is
\* resolved, and all replies are answers.
Pending == IF Begun THEN Tail(m_list) ELSE m_list

Kept(r) == [r EXCEPT !.how = IF @ \in Results THEN "ok" ELSE @]

History == [i \in DOMAIN done |-> Kept(done[i])]

LEMMA HistoryGrows ==
  ASSUME NEW r, done \in Seq(Resolutions), r \in Resolutions, done' = Append(done, r)
  PROVE  /\ Len(History) = Len(done)
         /\ History' = Append(History, Kept(r))
<1>1. DOMAIN done = 1 .. Len(done) /\ Len(done) \in Nat
  OBVIOUS
<1>2. /\ done' \in Seq(Resolutions) /\ Len(done') = Len(done) + 1
      /\ DOMAIN done' = 1 .. Len(done) + 1
      /\ \A i \in 1 .. Len(done) : done'[i] = done[i]
      /\ done'[Len(done) + 1] = r
  BY <1>1
<1> DEFINE K == {Kept(x) : x \in Resolutions}
<1>3. History \in Seq(K) /\ Len(History) = Len(done) /\ \A i \in 1 .. Len(done) : History[i] = Kept(done[i])
  <2>1. \A i \in 1 .. Len(done) : done[i] \in Resolutions
    BY <1>1
  <2>2. History = [i \in 1 .. Len(done) |-> Kept(done[i])]
    BY <1>1 DEF History
  <2> HIDE DEF K
  <2>3. \A i \in 1 .. Len(done) : Kept(done[i]) \in K
    BY <2>1 DEF K
  <2> QED
    BY <1>1, <2>2, <2>3
<1>4. History' = [i \in 1 .. Len(done) + 1 |-> Kept(done'[i])]
  BY <1>2 DEF History
<1>5. \A i \in 1 .. Len(done) + 1 : Kept(done'[i]) \in K
  <2>1. \A i \in 1 .. Len(done) + 1 : done'[i] \in Resolutions
    BY <1>1, <1>2
  <2> QED
    BY <2>1
<1>6. Kept(r) \in K
  OBVIOUS
<1> HIDE DEF K
<1>7. /\ Append(History, Kept(r)) \in Seq(K)
      /\ Len(Append(History, Kept(r))) = Len(done) + 1
      /\ \A i \in 1 .. Len(done) : Append(History, Kept(r))[i] = Kept(done[i])
      /\ Append(History, Kept(r))[Len(done) + 1] = Kept(r)
  BY <1>1, <1>3, <1>6
<1>8. \A i \in 1 .. Len(done) + 1 : Kept(done'[i]) = Append(History, Kept(r))[i]
  BY <1>1, <1>2, <1>7
<1>9. /\ History' \in Seq(K) /\ Len(History') = Len(done) + 1
      /\ \A i \in 1 .. Len(done) + 1 : History'[i] = Kept(done'[i])
  BY <1>1, <1>4, <1>5
<1> QED
  BY <1>3, <1>7, <1>8, <1>9, SeqEqual

\* A callback is called for the head: the queue resolves it.
LEMMA CallResolves ==
  ASSUME TypeInv, m_list # <<>>, ~Begun, UNCHANGED <<m_list, spent>>,
         NEW how \in Results \cup {"closed", "timeout"}, NEW answer \in {NoAnswer} \cup Queries,
         NEW frame \in Callbacks, CallHead(how, answer, frame)
  PROVE  /\ Pending = m_list /\ Pending' = Tail(Pending)
         /\ History' = Append(History, [query |-> Head(Pending),
                                        how |-> IF how \in Results THEN "ok" ELSE how,
                                        answer |-> answer])
<1> DEFINE r == [query |-> Head(m_list), how |-> how, answer |-> answer]
<1>1. r \in Resolutions
  BY HeadIsQuery DEF Resolutions
<1>2. done \in Seq(Resolutions) /\ done' = Append(done, r)
  BY DEF TypeInv, TypeOK, CallHead
<1>3. History' = Append(History, Kept(r))
  <2> HIDE DEF r
  <2> QED
    BY <1>1, <1>2, HistoryGrows
<1>4. Kept(r) = [query |-> Head(m_list), how |-> IF how \in Results THEN "ok" ELSE how, answer |-> answer]
  BY DEF Kept
<1>5. Pending = m_list /\ Pending' = Tail(m_list)
  BY DEF Pending, Begun, CallHead
<1> QED
  BY <1>3, <1>4, <1>5

\* Every step of the client is one of the query queue, or changes nothing
\* that the queue sees.
LEMMA QueueStep ==
  ASSUME TypeInv, ServeInv, [Next]_vars
  PROVE  [Queue!Next]_(Queue!vars)
<1>0. (Queue!Next \/ UNCHANGED <<Pending, History>>) => [Queue!Next]_(Queue!vars)
  BY DEF Queue!vars, Pending, History, Kept
<1> SUFFICES Queue!Next \/ UNCHANGED <<Pending, History>>
  BY <1>0
<1>1. m_list \in Seq(Queries) /\ done \in Seq(Resolutions) /\ (Begun => m_list # <<>>)
  BY DEF TypeInv, TypeOK, CallInv
<1>2. Len(History) = Len(done) /\ Len(done) \in Nat /\ Len(m_list) \in Nat
  <2>1. DOMAIN done = 1 .. Len(done) /\ Len(done) \in Nat
    BY <1>1
  <2>2. History = [i \in 1 .. Len(done) |-> Kept(done[i])]
    BY <2>1 DEF History
  <2> QED
    BY <1>1, <2>1, <2>2
<1>3. ASSUME UNCHANGED <<m_list, done>>, Begun <=> Begun'
      PROVE  UNCHANGED <<Pending, History>>
  BY <1>3 DEF Pending, History
<1>4. ASSUME Begun, ~Begun', m_list' = Tail(m_list), UNCHANGED done
      PROVE  UNCHANGED <<Pending, History>>
  BY <1>4 DEF Pending, History
<1>5. CASE Query
  <2>1. /\ Made < MaxQueries /\ m_list' = Append(m_list, Made + 1)
        /\ UNCHANGED <<done, pc, spent>> /\ (Begun <=> Begun')
    BY <1>5 DEF Query, OnQuery, Begun
  <2>2. Made = Len(Pending) + Len(History) /\ Pending' = Append(Pending, Made + 1)
    <3>1. CASE Begun
      <4>1. Len(Tail(m_list)) = Len(m_list) - 1 /\ Tail(Append(m_list, Made + 1)) = Append(Tail(m_list), Made + 1)
        BY <1>1, <3>1
      <4>2. Made = Len(done) + Len(m_list) - 1
        BY <3>1 DEF Made
      <4>3. Pending = Tail(m_list) /\ Pending' = Tail(m_list')
        BY <2>1, <3>1 DEF Pending
      <4>4. Made = Len(Pending) + Len(History)
        BY <1>2, <4>1, <4>2, <4>3
      <4>5. Pending' = Append(Pending, Made + 1)
        BY <2>1, <4>1, <4>3
      <4> QED
        BY <4>4, <4>5
    <3>2. CASE ~Begun
      BY <1>2, <2>1, <3>2 DEF Pending, Made
    <3> QED
      BY <3>1, <3>2
  <2>3. UNCHANGED History
    BY <2>1 DEF History
  <2>4. Queue!Submit
    BY <2>1, <2>2, <2>3 DEF Queue!Submit, Queue!Made, Pending, History, Kept
  <2> QED
    BY <2>4 DEF Queue!Next
<1>6. CASE Reply
  <2>1. CASE m_list # <<>>
    <3>1. PICK how \in Results : CallHead(how, Head(toCli), "answer")
      BY <1>6, <2>1 DEF Reply
    <3>2. pc = "idle" /\ toCli # <<>> /\ ~Begun /\ UNCHANGED <<m_list, spent>>
      BY <1>6 DEF Reply, ServeInv, WireInv, Bare, Begun, Callbacks
    <3>3. Carries(Head(m_list)) /\ Head(m_list) \in Queries
      BY <2>1, <3>2, HeadIsQuery DEF ServeInv, WireInv, Bare
    <3>4. Head(toCli) = Head(m_list)
      BY <3>2, <3>3, Single DEF Carries
    <3>5. /\ Pending = m_list /\ Pending' = Tail(Pending)
          /\ History' = Append(History, [query |-> Head(Pending), how |-> "ok", answer |-> Head(Pending)])
      BY <2>1, <3>1, <3>2, <3>3, <3>4, CallResolves DEF Callbacks
    <3>6. Queue!Answer
      BY <2>1, <3>5 DEF Queue!Answer, Pending, History, Kept
    <3> QED
      BY <3>6 DEF Queue!Next
  <2>2. CASE m_list = <<>>
    BY <1>3, <1>6, <2>2 DEF Reply, Begun
  <2> QED
    BY <2>1, <2>2
<1>7. CASE Dropped \/ Expire
  <2>1. CASE m_list # <<>>
    <3>1. PICK how \in {"closed", "timeout"}, frame \in Callbacks : CallHead(how, NoAnswer, frame)
      BY <1>7, <2>1 DEF Dropped, Expire, Callbacks
    <3>2. ~Begun /\ UNCHANGED <<m_list, spent>>
      BY <1>7 DEF Dropped, Expire, Callbacks, ServeInv, WireInv, Bare, Begun
    <3>3. /\ Pending = m_list /\ Pending' = Tail(Pending)
          /\ History' = Append(History, [query |-> Head(Pending), how |-> how, answer |-> NoAnswer])
      BY <2>1, <3>1, <3>2, CallResolves DEF Results
    <3>4. Queue!Fail
      BY <2>1, <3>3 DEF Queue!Fail, Queue!Errors, NoAnswer, Pending, History, Kept
    <3> QED
      BY <3>4 DEF Queue!Next
  <2>2. CASE m_list = <<>>
    BY <1>3, <1>7, <2>2 DEF Dropped, Expire, HeadIsOld, Begun
  <2> QED
    BY <2>1, <2>2
<1>8. CASE Returns \/ ExpireReturns \/ ExpireSpent
  <2>1. Begun /\ ~Begun' /\ m_list' = Tail(m_list) /\ UNCHANGED done
    BY <1>8 DEF Returns, OnQuery, ExpireReturns, ExpireSpent, Callbacks, Begun, TypeInv, CallInv
  <2> QED
    BY <1>4, <2>1
<1>9. CASE Throws
  BY <1>3, <1>9 DEF Throws, Begun
<1>10. CASE Written \/ ConnectOk \/ ServerReplies \/ Age \/ UNCHANGED vars
  BY <1>3, <1>10 DEF Written, ConnectOk, OnQuery, ServerReplies, Age, vars, Begun
<1>11. CASE ConnectSpent \/ ConnectFails \/ Lost \/ Disconnected
  BY <1>3, <1>11 DEF ConnectSpent, ConnectFails, Lost, Disconnected, Callbacks, Begun
<1>12. CASE Rearm \/ TimerFires \/ Destroy
  BY <1>3, <1>12 DEF Rearm, TimerFires, Destroy, Callbacks, Begun
<1> QED
  BY <1>5, <1>6, <1>7, <1>8, <1>9, <1>10, <1>11, <1>12 DEF Next

\* rediscli implements the query queue for any number of queries and all
\* faults: every callback is called at most once, in the order of the
\* queries, with the reply to its own query if with any.
THEOREM RefinesQueryQueue == Spec => ImplementsQueryQueue
<1>1. Init => Queue!Init
  <2>1. Init => Pending = <<>> /\ History = <<>>
    BY DEF Init, Pending, Begun, History, Callbacks
  <2> QED
    BY <2>1 DEF Queue!Init, Pending, History, Kept
<1>2. TypeInv /\ ServeInv /\ [Next]_vars => [Queue!Next]_(Queue!vars)
  BY QueueStep
<1> QED
  BY <1>1, <1>2, Invariance, PTL DEF Spec, Queue!Spec, ImplementsQueryQueue
=============================================================================
