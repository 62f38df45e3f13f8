--------------------------- MODULE MsgSessionProofs ---------------------------
(***************************************************************************)
(* Proofs about MsgSession: its types, its invariants, that a session      *)
(* which keeps its descriptors always connects again, and that it          *)
(* implements QueryQueue.                                                  *)
(***************************************************************************)
EXTENDS MsgSession, TLAPS

-----------------------------------------------------------------------------
(* The inductive invariant *)

\* Frames that others may run above; the rest are only innermost.
Outer == {"answer", "event", "recv"}

\* Frames that run while the connection is being closed.
Closing == {"close", "timeout", "retry"}

\* Never more queries than the bound.
MadeInv == Made <= MaxQueries

\* A callback of __onclose never has anything above it: there is no client
\* left whose send could fail a second time.
StackInv == stack # <<>> => Tail(stack) \in Seq(Outer)

\* Where there is a client there is a connection, where there is none
\* nothing is on the wire, and a timer only where there is none.
ConnInv ==
  /\ m_client => conn = "up"
  /\ conn # "up" => toSrv = <<>> /\ toCli = <<>>
  /\ m_timer => conn = "none"
  /\ Top \in Closing => conn = "closing"

\* No answer is under way, nor a request.
WireEmpty == toSrv = <<>> /\ \A i \in DOMAIN toCli : toCli[i] = Push

\* The send of a query is that of the head, the only one to be served.
SendInv ==
  Top = "send" => m_client /\ m_state = "query" /\ m_list # <<>> /\ WireEmpty

\* What may be sent and is not will be sent when a callback returns.
ServedInv ==
  m_client /\ m_list # <<>> /\ m_state = "waiting"
    => \E i \in DOMAIN stack : stack[i] \in {"answer", "event"}

\* The invariant besides the types.
SessionInv == StackInv /\ ConnInv /\ SendInv /\ WireServesHead /\ ServedInv

\* A connection is at hand, on its way, or about to be asked for.
RetryInv ==
  \/ stranded
  \/ /\ conn = "none" => m_timer
     /\ conn = "closing" => Top \in Closing

-----------------------------------------------------------------------------
(* The stack *)

\* What is known of a stack with an activation put on top.
LEMMA Push1 ==
  ASSUME NEW S, NEW f \in S, NEW s \in Seq(S)
  PROVE  /\ <<f>> \o s \in Seq(S)
         /\ <<f>> \o s # <<>>
         /\ Head(<<f>> \o s) = f
         /\ Tail(<<f>> \o s) = s
<1>1. <<f>> \in Seq(S) /\ Len(<<f>>) = 1
  OBVIOUS
<1>2. <<f>> \o s \in Seq(S) /\ Len(<<f>> \o s) = Len(s) + 1 /\ Len(s) \in Nat
  BY <1>1
<1>3. (<<f>> \o s)[1] = f
  BY <1>1
<1>4. \A i \in 1 .. Len(s) : (<<f>> \o s)[i + 1] = s[i]
  BY <1>1
<1>5. Tail(<<f>> \o s) \in Seq(S) /\ Len(Tail(<<f>> \o s)) = Len(s)
  BY <1>2
<1>6. \A i \in 1 .. Len(s) : Tail(<<f>> \o s)[i] = s[i]
  BY <1>2, <1>4
<1>7. Tail(<<f>> \o s) = s
  BY <1>5, <1>6
<1> QED
  BY <1>2, <1>3, <1>7

\* The activation on top of a stack, and what is below it.
LEMMA TopFacts ==
  ASSUME NEW S, NEW s \in Seq(S), s # <<>>
  PROVE  Head(s) \in S /\ Tail(s) \in Seq(S) /\ Len(Tail(s)) = Len(s) - 1
OBVIOUS

\* The loop is idle exactly if nothing is activated.
LEMMA IdleStack ==
  ASSUME TypeOK
  PROVE  /\ Top = "idle" <=> stack = <<>>
         /\ stack # <<>> => Top = Head(stack) /\ Head(stack) \in Frames /\ Tail(stack) \in Seq(Frames)
<1>1. ASSUME stack # <<>>
      PROVE  Head(stack) \in Frames /\ Tail(stack) \in Seq(Frames)
  BY <1>1, TopFacts DEF TypeOK
<1>2. "idle" \notin Frames
  BY DEF Frames
<1> QED
  BY <1>1, <1>2 DEF Top

-----------------------------------------------------------------------------
(* Types *)

TypeInv == TypeOK /\ MadeInv

\* What __send does to the types.
LEMMA TrySendTypes ==
  ASSUME NEW list \in Seq(Queries), NEW state \in {"waiting", "query"},
         NEW client \in BOOLEAN, NEW below \in Seq(Frames),
         TrySend(list, state, client, below)
  PROVE  /\ m_list' \in Seq(Queries) /\ m_list' = list
         /\ m_state' \in {"waiting", "query"}
         /\ stack' \in Seq(Frames)
<1>1. "send" \in Frames
  BY DEF Frames
<1>2. <<"send">> \o below \in Seq(Frames)
  BY <1>1, Push1
<1> QED
  BY <1>2 DEF TrySend

\* What resolving the head does to the types.
LEMMA ResolveTypes ==
  ASSUME TypeInv, MaxQueries \in Nat, m_list # <<>>,
         NEW how \in {"ok", "closed", "timeout"},
         NEW answer \in {NoAnswer} \cup Queries,
         NEW frames \in Seq(Frames),
         Resolve(how, answer, frames)
  PROVE  /\ m_list' \in Seq(Queries)
         /\ done' \in Seq(Resolutions)
         /\ stack' \in Seq(Frames)
         /\ MadeInv'
<1>1. m_list \in Seq(Queries) /\ done \in Seq(Resolutions)
  BY DEF TypeInv, TypeOK
<1>2. Head(m_list) \in Queries /\ Tail(m_list) \in Seq(Queries) /\ Len(Tail(m_list)) = Len(m_list) - 1
  BY <1>1, TopFacts
<1>3. [query |-> Head(m_list), how |-> how, answer |-> answer] \in Resolutions
  BY <1>2 DEF Resolutions
<1>4. done' \in Seq(Resolutions) /\ Len(done') = Len(done) + 1
  BY <1>1, <1>3 DEF Resolve
<1>5. MadeInv'
  BY <1>1, <1>2, <1>4 DEF Resolve, MadeInv, Made, TypeInv
<1> QED
  BY <1>2, <1>4, <1>5 DEF Resolve

\* What a close does to the types.
LEMMA CloseTypes ==
  ASSUME TypeInv, MaxQueries \in Nat, NEW below \in Seq(Frames), Close(below)
  PROVE  /\ m_list' \in Seq(Queries)
         /\ m_state' \in {"waiting", "query"}
         /\ m_client' \in BOOLEAN
         /\ conn' \in {"none", "connecting", "up", "closing"}
         /\ toSrv' \in Seq(Queries)
         /\ toCli' \in Seq({Push} \cup Queries)
         /\ stack' \in Seq(Frames)
         /\ done' \in Seq(Resolutions)
         /\ MadeInv'
<1>0. conn' = "closing" /\ toSrv' = <<>> /\ toCli' = <<>> /\ m_client' = FALSE
  BY DEF Close
<1>1. /\ conn' \in {"none", "connecting", "up", "closing"} /\ m_client' \in BOOLEAN
  BY <1>0
<1>6. <<>> \in Seq(Queries) /\ <<>> \in Seq({Push} \cup Queries)
  OBVIOUS
<1>7. toSrv' \in Seq(Queries) /\ toCli' \in Seq({Push} \cup Queries)
  BY <1>0, <1>6, Zenon
<1>2. "close" \in Frames /\ "retry" \in Frames
  BY DEF Frames
<1>3. <<"close">> \o below \in Seq(Frames) /\ <<"retry">> \o below \in Seq(Frames)
  BY <1>2, Push1
<1>4. CASE m_state = "query" /\ m_list # <<>>
  <2>1. Resolve("closed", NoAnswer, <<"close">> \o below) /\ m_state' = m_state
    BY <1>4 DEF Close
  <2>2. m_list' \in Seq(Queries) /\ done' \in Seq(Resolutions) /\ stack' \in Seq(Frames) /\ MadeInv'
    BY <2>1, <1>3, <1>4, ResolveTypes
  <2>3. m_state' \in {"waiting", "query"}
    BY <1>4, <2>1
  <2> QED
    BY <1>1, <1>7, <2>2, <2>3
<1>5. CASE ~(m_state = "query" /\ m_list # <<>>)
  <2>1. m_state' = "waiting" /\ stack' = <<"retry">> \o below /\ m_list' = m_list /\ done' = done
    BY <1>5 DEF Close
  <2>2. MadeInv'
    BY <2>1 DEF TypeInv, MadeInv, Made
  <2>3. m_state' \in {"waiting", "query"} /\ m_list' \in Seq(Queries) /\ done' \in Seq(Resolutions)
    BY <2>1 DEF TypeInv, TypeOK
  <2> QED
    BY <1>1, <1>3, <1>7, <2>1, <2>2, <2>3
<1> QED
  BY <1>4, <1>5

\* An exception leaves some of what was below the innermost activation.
LEMMA ThrownBelow ==
  ASSUME TypeOK, stack # <<>>, NEW S, Tail(stack) \in Seq(S), FailureThrows
  PROVE  stack' \in Seq(S)
<1>1. stack \in Seq(Frames) /\ Len(stack) \in Nat
  BY DEF TypeOK
<1>2. CASE stack' = <<>>
  BY <1>2
<1>3. ASSUME NEW i \in Catchers, stack' = SubSeq(stack, i + 1, Len(stack))
      PROVE  stack' \in Seq(S)
  <2>1. i \in 2 .. Len(stack)
    BY <1>1 DEF Catchers
  <2>2. \A n \in 3 .. Len(stack) : stack[n] = Tail(stack)[n - 1] /\ n - 1 \in 1 .. Len(Tail(stack))
    BY <1>1
  <2>3. \A n \in 3 .. Len(stack) : stack[n] \in S
    BY <2>2
  <2>4. \A n \in 1 .. Len(stack) - i : stack[i + n] \in S
    BY <1>1, <2>1, <2>3
  <2>5. SubSeq(stack, i + 1, Len(stack)) = [n \in 1 .. Len(stack) - i |-> stack[i + n]]
    BY <1>1, <2>1
  <2> QED
    BY <1>1, <1>3, <2>1, <2>4, <2>5
<1> QED
  BY <1>2, <1>3 DEF FailureThrows

\* Every step keeps the types.
LEMMA TypeStep ==
  ASSUME TypeInv, SendInv, [Next]_vars
  PROVE  TypeInv'
<1> USE MsgSessionAssumption
<1> USE DEF TypeInv
<1>0. <<>> \in Seq(Frames) /\ stack \in Seq(Frames)
  BY DEF TypeOK
<1>a. stack # <<>> => Tail(stack) \in Seq(Frames)
  BY IdleStack
<1>b. \A f \in Frames : Top = f => stack # <<>> /\ Tail(stack) \in Seq(Frames)
  BY IdleStack, <1>a DEF Frames
<1>1. CASE Query
  <2>1. Made + 1 \in Queries
    BY <1>1 DEF Query, Queries, TypeOK, MadeInv, Made
  <2>2. Append(m_list, Made + 1) \in Seq(Queries) /\ Len(Append(m_list, Made + 1)) = Len(m_list) + 1
    BY <2>1 DEF TypeOK
  <2>3. /\ m_list' \in Seq(Queries) /\ m_list' = Append(m_list, Made + 1)
        /\ m_state' \in {"waiting", "query"} /\ stack' \in Seq(Frames)
    BY <1>0, <1>1, <2>2, TrySendTypes DEF Query, TypeOK
  <2>4. MadeInv'
    BY <1>1, <2>2, <2>3 DEF Query, MadeInv, Made, TypeOK
  <2> QED
    BY <1>1, <2>3, <2>4 DEF Query, TypeOK
<1>2. CASE SendOk
  <2>1. stack' \in Seq(Frames)
    BY <1>2, <1>b DEF SendOk, Frames
  <2>2. m_list # <<>> /\ m_list \in Seq(Queries)
    BY <1>2 DEF SendOk, SendInv, TypeOK
  <2>3. Head(m_list) \in Queries
    BY <2>2
  <2>4. toSrv' \in Seq(Queries)
    BY <1>2, <2>3 DEF SendOk, TypeOK
  <2> QED
    BY <1>2, <2>1, <2>4 DEF SendOk, TypeOK, MadeInv, Made
<1>3. CASE SendError
  <2>1. Close(Tail(stack)) /\ Tail(stack) \in Seq(Frames)
    BY <1>3, <1>b DEF SendError, Frames
  <2> QED
    BY <1>3, <2>1, CloseTypes DEF SendError, TypeOK
<1>4. CASE UserSendError
  BY <1>0, <1>4, CloseTypes DEF UserSendError, TypeOK
<1>5. CASE ConnectOk
  <2>1. /\ m_list' \in Seq(Queries) /\ m_list' = m_list
        /\ m_state' \in {"waiting", "query"} /\ stack' \in Seq(Frames)
    BY <1>0, <1>5, TrySendTypes DEF ConnectOk, TypeOK
  <2> QED
    BY <1>5, <2>1 DEF ConnectOk, TypeOK, MadeInv, Made
<1>6. CASE Lost
  BY <1>0, <1>6, CloseTypes DEF Lost, TypeOK
<1>7. CASE Recv
  <2>1. /\ toCli # <<>> /\ toCli \in Seq({Push} \cup Queries)
        /\ toCli' = Tail(toCli) /\ Head(toCli) \in {Push} \cup Queries
    BY <1>7, TopFacts DEF Recv, TypeOK
  <2>2. toCli' \in Seq({Push} \cup Queries)
    BY <2>1, TopFacts
  <2>3. m_count' \in -1 .. 1
    BY <1>7 DEF Recv, TypeOK
  <2>4. CASE ~m_client
    <3>1. <<"undefined">> \in Seq(Frames)
      BY DEF Frames
    <3>2. /\ stack' = <<"undefined">>
          /\ UNCHANGED <<m_list, m_state, m_client, m_timer, conn, toSrv, done, old, pushes, stranded>>
      BY <1>7, <2>4 DEF Recv
    <3> QED
      BY <2>2, <2>3, <3>1, <3>2 DEF TypeOK, MadeInv, Made
  <2>5. CASE m_client /\ (Head(toCli) = Push \/ m_list = <<>>)
    <3>1. <<"event", "recv">> \in Seq(Frames) /\ <<"recv">> \in Seq(Frames)
      BY DEF Frames
    <3>2. stack' \in Seq(Frames)
      BY <1>7, <2>5, <3>1 DEF Recv
    <3> QED
      BY <1>7, <2>2, <2>3, <2>5, <3>2 DEF Recv, TypeOK, MadeInv, Made
  <2>6. CASE m_client /\ Head(toCli) # Push /\ m_list # <<>>
    <3>1. <<"answer", "recv">> \in Seq(Frames)
      BY DEF Frames
    <3>2. Head(toCli) \in {NoAnswer} \cup Queries
      BY <2>1, <2>6
    <3>3. Resolve("ok", Head(toCli), <<"answer", "recv">>)
      BY <1>7, <2>6 DEF Recv
    <3>4. m_list' \in Seq(Queries) /\ done' \in Seq(Resolutions) /\ stack' \in Seq(Frames) /\ MadeInv'
      BY <2>6, <3>1, <3>2, <3>3, ResolveTypes
    <3>5. m_state' \in {"waiting", "query"}
      BY <1>7, <2>6 DEF Recv
    <3> QED
      BY <1>7, <2>2, <2>3, <3>4, <3>5 DEF Recv, TypeOK
  <2> QED
    BY <2>4, <2>5, <2>6 DEF TypeOK
<1>8. CASE RecvDone
  <2>1. <<"undefined">> \in Seq(Frames)
    BY DEF Frames
  <2>2. stack' \in Seq(Frames)
    BY <1>8, <1>b, <2>1 DEF RecvDone, Frames
  <2> QED
    BY <1>8, <2>2 DEF RecvDone, TypeOK, MadeInv, Made
<1>9. CASE TimerFires
  <2>1. CASE Close(<<>>)
    BY <1>0, <1>9, <2>1, CloseTypes DEF TimerFires, Connect, TypeOK
  <2>2. CASE ~Close(<<>>)
    BY <1>9, <2>2 DEF TimerFires, Connect, TypeOK, MadeInv, Made
  <2> QED
    BY <2>1, <2>2
<1>10. CASE Heartbeat
  <2>1. m_count' \in -1 .. 1
    BY <1>10 DEF Heartbeat
  <2>2. CASE Close(<<>>)
    BY <1>0, <1>10, <2>1, <2>2, CloseTypes DEF Heartbeat, TypeOK
  <2>3. CASE ~Close(<<>>)
    BY <1>10, <2>1, <2>3 DEF Heartbeat, TypeOK, MadeInv, Made
  <2> QED
    BY <2>2, <2>3
<1>11. CASE HandlerReturns
  <2>1. Tail(stack) \in Seq(Frames)
    BY <1>11, <1>b DEF HandlerReturns, Frames
  <2>2. /\ m_list' \in Seq(Queries) /\ m_list' = m_list
        /\ m_state' \in {"waiting", "query"} /\ stack' \in Seq(Frames)
    BY <1>11, <2>1, TrySendTypes DEF HandlerReturns, TypeOK
  <2> QED
    BY <1>11, <2>2 DEF HandlerReturns, TypeOK, MadeInv, Made
<1>12. CASE FailureReturns
  <2>1. Tail(stack) \in Seq(Frames) /\ "retry" \in Frames
    BY <1>12, <1>b DEF FailureReturns, Frames
  <2>2. stack' \in Seq(Frames)
    BY <1>12, <2>1, Push1 DEF FailureReturns
  <2> QED
    BY <1>12, <2>2 DEF FailureReturns, TypeOK, MadeInv, Made
<1>13. CASE FailureThrows
  <2>1. stack # <<>> /\ Tail(stack) \in Seq(Frames)
    BY <1>13, <1>b DEF FailureThrows, Frames
  <2>2. stack' \in Seq(Frames)
    BY <1>13, <2>1, ThrownBelow
  <2> QED
    BY <1>13, <2>2 DEF FailureThrows, TypeOK, MadeInv, Made
<1>14. CASE Expire
  <2>1. Tail(stack) \in Seq(Frames) /\ "timeout" \in Frames
    BY <1>14, <1>b DEF Expire, Frames
  <2>2. <<"timeout">> \o Tail(stack) \in Seq(Frames)
    BY <2>1, Push1
  <2>3. m_list # <<>> /\ Resolve("timeout", NoAnswer, <<"timeout">> \o Tail(stack))
    BY <1>14 DEF Expire, HeadIsOld
  <2>4. m_list' \in Seq(Queries) /\ done' \in Seq(Resolutions) /\ stack' \in Seq(Frames) /\ MadeInv'
    BY <2>2, <2>3, ResolveTypes
  <2> QED
    BY <1>14, <2>4 DEF Expire, TypeOK
<1>15. CASE Rearm
  <2>1. stack' \in Seq(Frames)
    BY <1>15, <1>b DEF Rearm, Frames
  <2> QED
    BY <1>15, <2>1 DEF Rearm, TypeOK, MadeInv, Made
<1>16. CASE ServerAnswers
  <2>1. /\ toSrv # <<>> /\ toSrv \in Seq(Queries)
        /\ Head(toSrv) \in Queries /\ Tail(toSrv) \in Seq(Queries)
    BY <1>16, TopFacts DEF ServerAnswers, TypeOK
  <2>2. toCli' \in Seq({Push} \cup Queries)
    BY <1>16, <2>1 DEF ServerAnswers, TypeOK
  <2> QED
    BY <1>16, <2>1, <2>2 DEF ServerAnswers, TypeOK, MadeInv, Made
<1>17. CASE ServerPushes
  <2>1. toCli' \in Seq({Push} \cup Queries)
    BY <1>17 DEF ServerPushes, TypeOK
  <2>2. pushes' \in 0 .. MaxPushes
    BY <1>17 DEF ServerPushes, TypeOK
  <2> QED
    BY <1>17, <2>1, <2>2 DEF ServerPushes, TypeOK, MadeInv, Made
<1>18. CASE Age
  <2>1. old' \in 0 .. MaxQueries
    BY <1>18 DEF Age, TypeOK, MadeInv, Made
  <2> QED
    BY <1>18, <2>1 DEF Age, TypeOK, MadeInv, Made
<1>19. CASE UNCHANGED vars
  BY <1>19 DEF vars, TypeOK, MadeInv, Made
<1> QED
  BY <1>1, <1>2, <1>3, <1>4, <1>5, <1>6, <1>7, <1>8, <1>9, <1>10, <1>11, <1>12,
     <1>13, <1>14, <1>15, <1>16, <1>17, <1>18, <1>19 DEF Next

-----------------------------------------------------------------------------
(* The invariant *)

\* A stack of activations that may all have others above them.
LEMMA OuterStack ==
  ASSUME stack' \in Seq(Outer)
  PROVE  StackInv' /\ Top' \in {"idle"} \cup Outer
<1>1. CASE stack' = <<>>
  BY <1>1 DEF StackInv, Top
<1>2. CASE stack' # <<>>
  <2>1. Head(stack') \in Outer /\ Tail(stack') \in Seq(Outer)
    BY <1>2, TopFacts
  <2> QED
    BY <1>2, <2>1 DEF StackInv, Top
<1> QED
  BY <1>1, <1>2

\* A stack with an activation put on top of such a stack.
LEMMA PushedStack ==
  ASSUME NEW f \in Frames, NEW below \in Seq(Outer), stack' = <<f>> \o below
  PROVE  StackInv' /\ Top' = f
<1>1. below \in Seq(Outer \cup {f}) /\ f \in Outer \cup {f}
  OBVIOUS
<1>2. stack' # <<>> /\ Head(stack') = f /\ Tail(stack') = below
  BY <1>1, Push1
<1> QED
  BY <1>2 DEF StackInv, Top

\* What is under the activation on top.
LEMMA BelowTop ==
  ASSUME StackInv, NEW f \in Frames, Top = f
  PROVE  stack # <<>> /\ Head(stack) = f /\ Tail(stack) \in Seq(Outer)
  BY DEF StackInv, Top, Frames

\* The stack is its top and what is below.
LEMMA WholeStack ==
  ASSUME NEW s \in Seq(Frames), s # <<>>, NEW S, Head(s) \in S, Tail(s) \in Seq(S)
  PROVE  s \in Seq(S)
<1>1. \A n \in 2 .. Len(s) : s[n] = Tail(s)[n - 1] /\ n - 1 \in 1 .. Len(Tail(s))
  OBVIOUS
<1>2. \A n \in 1 .. Len(s) : s[n] \in S
  BY <1>1
<1> QED
  BY <1>2

\* Nothing is on the wire: nothing has to be the head's.
LEMMA WireNone ==
  ASSUME WireEmpty'
  PROVE  WireServesHead'
  BY DEF WireEmpty, WireServesHead

\* The wire is as it was, and so is the head if it was being served.
LEMMA WireKept ==
  ASSUME WireServesHead, UNCHANGED <<toSrv, toCli>>,
         m_state = "query" /\ m_list # <<>> =>
           m_state' = "query" /\ m_list' # <<>> /\ Head(m_list') = Head(m_list)
  PROVE  WireServesHead'
  BY DEF WireServesHead

\* The first message back has been taken off the wire, the head stays.
LEMMA WireShrinks ==
  ASSUME WireServesHead, UNCHANGED <<toSrv, m_list, m_state>>,
         1 \in DOMAIN toCli, DOMAIN toCli \subseteq Nat,
         \A i \in DOMAIN toCli' : i + 1 \in DOMAIN toCli /\ toCli'[i] = toCli[i + 1],
         DOMAIN toCli' \subseteq Nat
  PROVE  WireServesHead'
<1>1. \A i \in DOMAIN toCli' : toCli'[i] # Push => toCli[i + 1] # Push /\ i + 1 \in DOMAIN toCli
  OBVIOUS
<1>2. \A i, j \in DOMAIN toCli' : i + 1 = j + 1 => i = j
  OBVIOUS
<1> QED
  BY <1>1, <1>2 DEF WireServesHead

\* Popping an activation of client::recv leaves the callbacks below it.
LEMMA ServedBelow ==
  ASSUME ServedInv, stack \in Seq(Frames), stack # <<>>, Head(stack) \notin {"answer", "event"},
         stack' = Tail(stack), UNCHANGED <<m_list, m_state, m_client>>
  PROVE  ServedInv'
<1>1. \A i \in DOMAIN stack : i # 1 => i - 1 \in DOMAIN stack' /\ stack'[i - 1] = stack[i]
  OBVIOUS
<1>2. stack[1] = Head(stack)
  OBVIOUS
<1> QED
  BY <1>1, <1>2 DEF ServedInv

\* An idle session may lose its client without a close.
LEMMA IdleKept ==
  ASSUME SessionInv, stack = <<>>, m_client' => m_client,
         UNCHANGED <<m_list, m_state, m_timer, conn, toSrv, toCli, stack>>
  PROVE  SessionInv'
<1>1. StackInv' /\ Top' = "idle" /\ Top = "idle"
  BY DEF StackInv, Top
<1>2. WireServesHead'
  BY WireKept DEF SessionInv
<1> QED
  BY <1>1, <1>2 DEF SessionInv, ConnInv, SendInv, ServedInv, Closing

\* A message has been put on the wire behind the others.
LEMMA Appended ==
  ASSUME NEW S, NEW s \in Seq(S), NEW m \in S
  PROVE  \A i \in DOMAIN Append(s, m) :
           \/ i = Len(s) + 1 /\ Append(s, m)[i] = m
           \/ i \in DOMAIN s /\ Append(s, m)[i] = s[i]
OBVIOUS

\* A session that is not being served has nothing on the wire.
LEMMA WaitingWire ==
  ASSUME WireServesHead, m_state # "query" \/ m_list = <<>>
  PROVE  WireEmpty
  BY DEF WireServesHead, WireEmpty

\* A close keeps the invariant, if it is not in the way of a timer.
LEMMA CloseInv ==
  ASSUME NEW below \in Seq(Outer), Close(below), ~m_timer'
  PROVE  StackInv' /\ ConnInv' /\ SendInv' /\ WireServesHead' /\ ServedInv'
<1>1. conn' = "closing" /\ toSrv' = <<>> /\ toCli' = <<>> /\ m_client' = FALSE
  BY DEF Close
<1>2. stack' = <<"close">> \o below \/ stack' = <<"retry">> \o below
  BY DEF Close, Resolve
<1>3. StackInv' /\ Top' \in {"close", "retry"}
  BY <1>2, PushedStack DEF Frames
<1>4. WireEmpty'
  BY <1>1 DEF WireEmpty
<1>5. WireServesHead'
  BY <1>4, WireNone
<1> QED
  BY <1>1, <1>3, <1>5 DEF ConnInv, SendInv, ServedInv, Closing

\* __send keeps the invariant, if what it finds waiting has nothing on the
\* wire.
LEMMA TrySendInv ==
  ASSUME NEW list, NEW state \in {"waiting", "query"}, NEW client \in BOOLEAN,
         NEW below \in Seq(Outer), TrySend(list, state, client, below),
         m_client' = client,
         state = "waiting" => WireEmpty'
  PROVE  StackInv' /\ SendInv' /\ ServedInv' /\ Top' \notin Closing
<1>1. CASE state = "waiting" /\ client /\ list # <<>>
  <2>1. m_list' = list /\ m_state' = "query" /\ stack' = <<"send">> \o below
    BY <1>1 DEF TrySend
  <2>2. StackInv' /\ Top' = "send"
    BY <2>1, PushedStack DEF Frames
  <2> QED
    BY <1>1, <2>1, <2>2 DEF SendInv, ServedInv, Closing
<1>2. CASE ~(state = "waiting" /\ client /\ list # <<>>)
  <2>1. m_list' = list /\ m_state' = state /\ stack' = below
    BY <1>2 DEF TrySend
  <2>2. StackInv' /\ Top' \in {"idle"} \cup Outer
    BY <2>1, OuterStack
  <2>3. SendInv' /\ Top' \notin Closing
    BY <2>2 DEF SendInv, Outer, Closing
  <2>4. ServedInv'
    BY <1>2, <2>1 DEF ServedInv
  <2> QED
    BY <2>2, <2>3, <2>4
<1> QED
  BY <1>1, <1>2

\* Every step keeps the invariant.
LEMMA InvStep ==
  ASSUME TypeInv, SessionInv, [Next]_vars
  PROVE  SessionInv'
<1> USE DEF SessionInv
<1>0. TypeOK
  BY DEF TypeInv
<1>a. <<>> \in Seq(Outer)
  OBVIOUS
<1>b. Top = "idle" => stack = <<>>
  BY <1>0, IdleStack
<1>1. CASE Query
  <2>1. TrySend(Append(m_list, Made + 1), m_state, m_client, stack) /\ m_client' = m_client
        /\ toSrv' = toSrv /\ toCli' = toCli /\ m_timer' = m_timer /\ conn' = conn
    BY <1>1 DEF Query
  <2>a. m_list' = Append(m_list, Made + 1) /\ (m_state = "query" => m_state' = "query")
    BY <2>1 DEF TrySend
  <2>b. Made + 1 \in Queries /\ m_list \in Seq(Queries)
    BY <1>0, <1>1, MsgSessionAssumption DEF Query, Queries, Made, TypeOK
  <2>c. m_list # <<>> => m_list' # <<>> /\ Head(m_list') = Head(m_list)
    BY <2>a, <2>b
  <2>2. /\ m_list # <<>> => m_list' # <<>> /\ Head(m_list') = Head(m_list)
        /\ m_state = "query" => m_state' = "query"
    BY <2>a, <2>c
  <2>3. WireServesHead'
    BY <2>1, <2>2, WireKept
  <2>4. CASE Top \in Closing
    <3>1. ~m_client
      BY <2>4 DEF ConnInv
    <3>2. stack' = stack /\ m_state' = m_state
      BY <2>1, <3>1 DEF TrySend
    <3>3. Top' = Top
      BY <3>2 DEF Top
    <3> QED
      BY <2>1, <2>3, <2>4, <3>1, <3>2, <3>3 DEF StackInv, ConnInv, SendInv, ServedInv, Closing
  <2>5. CASE Top \notin Closing
    <3>1. stack = <<>> \/ (stack # <<>> /\ Head(stack) \in Outer /\ Tail(stack) \in Seq(Outer))
      BY <1>1, <2>5, <1>b, BelowTop DEF Query, Callbacks, Closing, Outer, Frames
    <3>2. stack \in Seq(Outer)
      BY <1>0, <1>a, <3>1, WholeStack DEF TypeOK
    <3>3. m_state = "waiting" => WireEmpty
      BY WaitingWire
    <3>4. m_state = "waiting" => WireEmpty'
      BY <2>1, <3>3 DEF WireEmpty
    <3>5. StackInv' /\ SendInv' /\ ServedInv' /\ Top' \notin Closing
      BY <1>0, <2>1, <3>2, <3>4, TrySendInv DEF TypeOK
    <3> QED
      BY <2>1, <2>3, <3>5 DEF ConnInv
  <2> QED
    BY <2>4, <2>5
<1>2. CASE SendOk
  <2>1. m_client /\ m_state = "query" /\ m_list # <<>> /\ WireEmpty
    BY <1>2 DEF SendOk, SendInv
  <2>2. stack' \in Seq(Outer)
    BY <1>2, BelowTop DEF SendOk, Frames
  <2>3. StackInv' /\ Top' \in {"idle"} \cup Outer
    BY <2>2, OuterStack
  <2>4. toSrv' = <<Head(m_list)>> /\ toCli' = toCli /\ m_list' = m_list /\ m_state' = m_state
    BY <1>2, <2>1 DEF SendOk, WireEmpty
  <2>5. WireServesHead'
    BY <2>1, <2>4 DEF WireServesHead, WireEmpty
  <2>6. ConnInv'
    BY <1>2, <2>1, <2>3 DEF SendOk, ConnInv, Outer, Closing
  <2> QED
    BY <1>2, <2>1, <2>3, <2>4, <2>5, <2>6 DEF SendInv, ServedInv, Outer
<1>3. CASE SendError
  <2>1. Close(Tail(stack)) /\ Tail(stack) \in Seq(Outer) /\ m_timer' = m_timer
    BY <1>3, BelowTop DEF SendError, Frames
  <2>2. ~m_timer
    BY <1>3 DEF SendError, SendInv, ConnInv
  <2> QED
    BY <2>1, <2>2, CloseInv
<1>4. CASE UserSendError
  <2>1. Close(stack) /\ m_client /\ m_timer' = m_timer
    BY <1>4 DEF UserSendError
  <2>2. ~m_timer /\ Top \notin Closing
    BY <2>1 DEF ConnInv
  <2>3. stack = <<>> \/ (stack # <<>> /\ Head(stack) \in Outer /\ Tail(stack) \in Seq(Outer))
    BY <1>4, <2>2, <1>b, BelowTop DEF UserSendError, Callbacks, Closing, Outer, Frames
  <2>4. stack \in Seq(Outer)
    BY <1>0, <1>a, <2>3, WholeStack DEF TypeOK
  <2> QED
    BY <2>1, <2>2, <2>4, CloseInv
<1>5. CASE ConnectOk
  <2>1. WireEmpty'
    BY <1>5 DEF ConnectOk, ConnInv, WireEmpty
  <2>2. StackInv' /\ SendInv' /\ ServedInv' /\ Top' \notin Closing
    BY <1>5, <1>a, <2>1, TrySendInv DEF ConnectOk
  <2>3. WireServesHead'
    BY <2>1, WireNone
  <2> QED
    BY <1>5, <2>2, <2>3 DEF ConnectOk, ConnInv
<1>6. CASE Lost
  <2>1. Close(<<>>) /\ ~m_timer'
    BY <1>6 DEF Lost, ConnInv
  <2> QED
    BY <1>a, <2>1, CloseInv
<1>7. CASE Recv
  <2>1. /\ stack = <<>> /\ conn = "up" /\ toCli # <<>> /\ toCli' = Tail(toCli) /\ toSrv' = toSrv
        /\ m_client' = m_client /\ m_timer' = m_timer /\ conn' = conn
    BY <1>7, <1>b DEF Recv
  <2>2. \A i \in DOMAIN toCli' : i + 1 \in DOMAIN toCli /\ toCli'[i] = toCli[i + 1]
    BY <1>0, <2>1 DEF TypeOK
  <2>3. 1 \in DOMAIN toCli /\ Head(toCli) = toCli[1] /\ DOMAIN toCli \subseteq Nat
    BY <1>0, <2>1 DEF TypeOK
  <2>4. CASE ~m_client
    <3>1. stack' = <<"undefined">> /\ m_list' = m_list /\ m_state' = m_state
      BY <1>7, <2>4 DEF Recv
    <3>2. StackInv' /\ Top' = "undefined"
      BY <3>1 DEF StackInv, Top, Outer
    <3>3. WireServesHead'
      BY <2>1, <2>2, <2>3, <3>1, WireShrinks
    <3> QED
      BY <2>1, <2>4, <3>2, <3>3 DEF ConnInv, SendInv, ServedInv, Closing
  <2>5. CASE m_client /\ (Head(toCli) = Push \/ m_list = <<>>)
    <3>1. m_list' = m_list /\ m_state' = m_state
      BY <1>7, <2>5 DEF Recv
    <3>2. stack' = <<"event", "recv">> \/ (m_list = <<>> /\ stack' = <<"recv">>)
      BY <1>7, <2>5 DEF Recv
    <3>a. <<"event", "recv">> \in Seq(Outer) /\ <<"recv">> \in Seq(Outer)
      BY DEF Outer
    <3>3. stack' \in Seq(Outer)
      BY <3>2, <3>a
    <3>4. StackInv' /\ Top' \in {"idle"} \cup Outer
      BY <3>3, OuterStack
    <3>5. WireServesHead'
      BY <2>1, <2>2, <2>3, <3>1, WireShrinks
    <3>6. m_list # <<>> => \E i \in DOMAIN stack' : stack'[i] \in {"answer", "event"}
      BY <3>2
    <3> QED
      BY <2>1, <3>1, <3>4, <3>5, <3>6 DEF ConnInv, SendInv, ServedInv, Outer, Closing
  <2>6. CASE m_client /\ Head(toCli) # Push /\ m_list # <<>>
    <3>1. stack' = <<"answer", "recv">>
      BY <1>7, <2>6 DEF Recv, Resolve
    <3>2. stack' \in Seq(Outer)
      BY <3>1 DEF Outer
    <3>3. StackInv' /\ Top' \in {"idle"} \cup Outer
      BY <3>2, OuterStack
    <3>4. toSrv = <<>> /\ \A i \in DOMAIN toCli : toCli[i] # Push => i = 1
      BY <2>3, <2>6 DEF WireServesHead
    <3>5. WireEmpty'
      BY <2>1, <2>2, <2>3, <3>4 DEF WireEmpty
    <3>6. WireServesHead'
      BY <3>5, WireNone
    <3>7. \E i \in DOMAIN stack' : stack'[i] \in {"answer", "event"}
      BY <3>1
    <3> QED
      BY <2>1, <3>3, <3>6, <3>7 DEF ConnInv, SendInv, ServedInv, Outer, Closing
  <2> QED
    BY <1>0, <2>4, <2>5, <2>6 DEF TypeOK
<1>8. CASE RecvDone
  <2>1. UNCHANGED <<m_list, m_state, m_client, m_timer, conn, toSrv, toCli>>
    BY <1>8 DEF RecvDone
  <2>2. WireServesHead'
    BY <2>1, WireKept
  <2>3. stack # <<>> /\ Head(stack) = "recv" /\ Tail(stack) \in Seq(Outer)
    BY <1>8, BelowTop DEF RecvDone, Frames
  <2>4. CASE m_client
    <3>1. stack' = Tail(stack)
      BY <1>8, <2>4 DEF RecvDone
    <3>2. StackInv' /\ Top' \in {"idle"} \cup Outer
      BY <2>3, <3>1, OuterStack
    <3>3. ServedInv'
      BY <1>0, <2>1, <2>3, <3>1, ServedBelow DEF TypeOK
    <3> QED
      BY <2>1, <2>2, <3>2, <3>3 DEF ConnInv, SendInv, Outer, Closing
  <2>5. CASE ~m_client
    <3>1. stack' = <<"undefined">>
      BY <1>8, <2>5 DEF RecvDone
    <3>2. StackInv' /\ Top' = "undefined"
      BY <3>1 DEF StackInv, Top, Outer
    <3> QED
      BY <2>1, <2>2, <2>5, <3>2 DEF ConnInv, SendInv, ServedInv, Closing
  <2> QED
    BY <1>0, <2>4, <2>5 DEF TypeOK
<1>9. CASE TimerFires
  <2>1. ~m_timer' /\ conn = "none" /\ ~m_client
    BY <1>9 DEF TimerFires, Connect, ConnInv
  <2>2. CASE Close(<<>>)
    BY <1>a, <2>1, <2>2, CloseInv
  <2>3. CASE ~Close(<<>>)
    <3>1. UNCHANGED <<m_list, m_state, m_client, toSrv, toCli, stack>> /\ stack = <<>>
      BY <1>9, <1>b, <2>3 DEF TimerFires, Connect
    <3>2. StackInv' /\ Top' = "idle"
      BY <3>1 DEF StackInv, Top
    <3>3. WireServesHead'
      BY <3>1, WireKept
    <3>4. toSrv' = <<>> /\ toCli' = <<>>
      BY <2>1, <3>1 DEF ConnInv
    <3> QED
      BY <2>1, <3>1, <3>2, <3>3, <3>4 DEF ConnInv, SendInv, ServedInv, Closing
  <2> QED
    BY <2>2, <2>3
<1>10. CASE Heartbeat
  <2>1. m_timer' = m_timer /\ stack = <<>>
    BY <1>10, <1>b DEF Heartbeat
  <2>2. CASE Close(<<>>)
    <3>1. CASE m_client
      BY <1>a, <2>1, <2>2, <3>1, CloseInv DEF ConnInv
    <3>2. CASE ~m_client
      BY <1>10, <2>1, <3>2, IdleKept DEF Heartbeat
    <3> QED
      BY <1>0, <3>1, <3>2 DEF TypeOK
  <2>3. CASE ~Close(<<>>)
    BY <1>10, <2>1, <2>3, IdleKept DEF Heartbeat
  <2> QED
    BY <2>2, <2>3
<1>11. CASE HandlerReturns
  <2>1. UNCHANGED <<m_client, m_timer, conn, toSrv, toCli>>
    BY <1>11 DEF HandlerReturns
  <2>2. Tail(stack) \in Seq(Outer)
    BY <1>11, BelowTop DEF HandlerReturns, Frames
  <2>3. TrySend(m_list, m_state, m_client, Tail(stack))
    BY <1>11 DEF HandlerReturns
  <2>4. m_state = "waiting" => WireEmpty'
    BY <2>1, WaitingWire DEF WireEmpty
  <2>5. StackInv' /\ SendInv' /\ ServedInv' /\ Top' \notin Closing
    BY <1>0, <2>1, <2>2, <2>3, <2>4, TrySendInv DEF TypeOK
  <2>6. m_list' = m_list /\ (m_state = "query" => m_state' = "query")
    BY <2>3 DEF TrySend
  <2>7. WireServesHead'
    BY <2>1, <2>6, WireKept
  <2> QED
    BY <2>1, <2>5, <2>7 DEF ConnInv
<1>12. CASE FailureReturns
  <2>1. /\ UNCHANGED <<m_list, m_client, m_timer, conn, toSrv, toCli>>
        /\ stack' = <<"retry">> \o Tail(stack) /\ Top \in Closing
    BY <1>12 DEF FailureReturns, Closing
  <2>2. Tail(stack) \in Seq(Outer)
    BY <2>1, BelowTop DEF Closing, Frames
  <2>3. StackInv' /\ Top' = "retry"
    BY <2>1, <2>2, PushedStack DEF Frames
  <2>4. conn' = "closing" /\ ~m_client' /\ ~m_timer' /\ toSrv' = <<>> /\ toCli' = <<>>
    BY <2>1 DEF ConnInv
  <2>5. WireServesHead'
    BY <2>4, WireNone DEF WireEmpty
  <2> QED
    BY <2>3, <2>4, <2>5 DEF ConnInv, SendInv, ServedInv
<1>13. CASE FailureThrows
  <2>1. UNCHANGED <<m_list, m_state, m_client, m_timer, conn, toSrv, toCli>> /\ Top \in Closing
    BY <1>13 DEF FailureThrows, Closing
  <2>2. stack # <<>> /\ Tail(stack) \in Seq(Outer)
    BY <2>1, BelowTop DEF Closing, Frames
  <2>3. StackInv' /\ Top' \in {"idle"} \cup Outer
    BY <1>0, <1>13, <2>2, ThrownBelow, OuterStack
  <2>4. WireServesHead'
    BY <2>1, WireKept
  <2> QED
    BY <2>1, <2>3, <2>4 DEF ConnInv, SendInv, ServedInv, Outer, Closing
<1>14. CASE Expire
  <2>1. /\ UNCHANGED <<m_client, m_timer, conn, toSrv, toCli>>
        /\ stack' = <<"timeout">> \o Tail(stack) /\ Top = "retry"
    BY <1>14 DEF Expire, Resolve
  <2>2. Tail(stack) \in Seq(Outer)
    BY <2>1, BelowTop DEF Frames
  <2>3. StackInv' /\ Top' = "timeout"
    BY <2>1, <2>2, PushedStack DEF Frames
  <2>4. conn' = "closing" /\ ~m_client' /\ ~m_timer' /\ toSrv' = <<>> /\ toCli' = <<>>
    BY <2>1 DEF ConnInv, Closing
  <2>5. WireServesHead'
    BY <2>4, WireNone DEF WireEmpty
  <2> QED
    BY <2>3, <2>4, <2>5 DEF ConnInv, SendInv, ServedInv
<1>15. CASE Rearm
  <2>1. /\ UNCHANGED <<m_list, m_state, m_client, toSrv, toCli>>
        /\ stack' = Tail(stack) /\ Top = "retry" /\ conn' = "none"
    BY <1>15 DEF Rearm
  <2>2. Tail(stack) \in Seq(Outer)
    BY <2>1, BelowTop DEF Frames
  <2>3. StackInv' /\ Top' \in {"idle"} \cup Outer
    BY <2>1, <2>2, OuterStack
  <2>4. ~m_client' /\ toSrv' = <<>> /\ toCli' = <<>>
    BY <2>1 DEF ConnInv, Closing
  <2>5. WireServesHead'
    BY <2>4, WireNone DEF WireEmpty
  <2> QED
    BY <2>1, <2>3, <2>4, <2>5 DEF ConnInv, SendInv, ServedInv, Outer, Closing
<1>16. CASE ServerAnswers
  <2>1. /\ UNCHANGED <<m_list, m_state, m_client, m_timer, conn, stack>>
        /\ toSrv # <<>> /\ toSrv' = Tail(toSrv) /\ toCli' = Append(toCli, Head(toSrv))
    BY <1>16 DEF ServerAnswers
  <2>2. /\ m_state = "query" /\ m_list # <<>> /\ toSrv = <<Head(m_list)>>
        /\ \A i \in DOMAIN toCli : toCli[i] = Push
    BY <2>1 DEF WireServesHead
  <2>3. toSrv' = <<>> /\ toCli' = Append(toCli, Head(m_list))
    BY <2>1, <2>2
  <2>4. Head(m_list) \in Queries
    BY <1>0, <2>2, TopFacts DEF TypeOK
  <2>5. \A i, j \in DOMAIN toCli' : toCli'[i] # Push /\ toCli'[j] # Push => i = j /\ toCli'[i] = Head(m_list)
    BY <1>0, <2>2, <2>3, <2>4, Appended DEF TypeOK
  <2>6. WireServesHead'
    BY <2>1, <2>2, <2>3, <2>5 DEF WireServesHead
  <2>7. Top' = Top /\ Top # "send"
    BY <2>1 DEF Top, SendInv, WireEmpty
  <2>8. conn = "up"
    BY <2>1 DEF ConnInv
  <2> QED
    BY <2>1, <2>6, <2>7, <2>8 DEF StackInv, ConnInv, SendInv, ServedInv
<1>17. CASE ServerPushes
  <2>1. /\ UNCHANGED <<m_list, m_state, m_client, m_timer, conn, toSrv, stack>>
        /\ conn = "up" /\ toCli' = Append(toCli, Push)
    BY <1>17 DEF ServerPushes
  <2>2. \A i \in DOMAIN toCli' : toCli'[i] # Push => i \in DOMAIN toCli /\ toCli'[i] = toCli[i]
    BY <1>0, <2>1, Appended DEF TypeOK
  <2>3. WireServesHead'
    BY <2>1, <2>2 DEF WireServesHead
  <2>4. WireEmpty => WireEmpty'
    BY <2>1, <2>2 DEF WireEmpty
  <2>5. Top' = Top
    BY <2>1 DEF Top
  <2> QED
    BY <2>1, <2>3, <2>4, <2>5 DEF StackInv, ConnInv, SendInv, ServedInv
<1>18. CASE Age \/ UNCHANGED vars
  <2>1. UNCHANGED <<m_list, m_state, m_client, m_timer, conn, toSrv, toCli, stack>>
    BY <1>18 DEF Age, vars
  <2>2. WireServesHead'
    BY <2>1, WireKept
  <2>3. Top' = Top
    BY <2>1 DEF Top
  <2> QED
    BY <2>1, <2>2, <2>3 DEF StackInv, ConnInv, SendInv, ServedInv, WireEmpty
<1> QED
  BY <1>1, <1>2, <1>3, <1>4, <1>5, <1>6, <1>7, <1>8, <1>9, <1>10, <1>11, <1>12,
     <1>13, <1>14, <1>15, <1>16, <1>17, <1>18 DEF Next

-----------------------------------------------------------------------------
(* Theorems *)

\* The invariant holds at the start.
LEMMA InvInit ==
  ASSUME Init
  PROVE  TypeInv /\ SessionInv
<1>1. TypeOK
  <2>1. <<>> \in Seq(Frames) /\ <<"retry">> \in Seq(Frames)
    BY DEF Frames
  <2>2. /\ stack \in Seq(Frames) /\ conn \in {"none", "connecting", "up", "closing"}
        /\ stranded \in BOOLEAN
    BY <2>1 DEF Init
  <2>3. /\ m_list = <<>> /\ m_state = "waiting" /\ m_client = FALSE /\ m_timer = FALSE
        /\ m_count = 1 /\ toSrv = <<>> /\ toCli = <<>> /\ done = <<>> /\ old = 0 /\ pushes = 0
    BY DEF Init
  <2>4. m_count \in -1 .. 1 /\ old \in 0 .. MaxQueries /\ pushes \in 0 .. MaxPushes
    BY <2>3, MsgSessionAssumption
  <2>5. \A S : <<>> \in Seq(S)
    OBVIOUS
  <2> QED
    BY <2>2, <2>3, <2>4, <2>5, Zenon DEF TypeOK
<1>2. MadeInv
  BY MsgSessionAssumption DEF Init, MadeInv, Made
<1>3. StackInv
  <2>1. <<>> \in Seq(Outer) /\ Tail(<<"retry">>) = <<>>
    OBVIOUS
  <2> QED
    BY <2>1 DEF Init, StackInv
<1>4. ConnInv /\ SendInv
  BY DEF Init, ConnInv, SendInv, Top, Closing
<1>5. WireServesHead /\ ServedInv
  BY DEF Init, WireServesHead, ServedInv
<1> QED
  BY <1>1, <1>2, <1>3, <1>4, <1>5 DEF TypeInv, SessionInv

\* The inductive invariant holds throughout.
LEMMA Invariance == Spec => [](TypeInv /\ SessionInv)
<1>1. Init => TypeInv /\ SessionInv
  BY InvInit
<1>2. TypeInv /\ SessionInv /\ [Next]_vars => TypeInv' /\ SessionInv'
  BY TypeStep, InvStep DEF SessionInv
<1> QED
  BY <1>1, <1>2, PTL DEF Spec

\* Every variable of the session keeps its type: in particular only the head
\* of a list that has one is resolved, and m_count stays within -1 .. 1.
THEOREM SessionTypes == Spec => []TypeOK
<1>1. TypeInv => TypeOK
  BY DEF TypeInv
<1> QED
  BY <1>1, Invariance, PTL

\* Whatever callbacks query from within callbacks, and however connections
\* break, what is on the wire belongs to the head of m_list.
THEOREM AnswersServeHead == Spec => []WireServesHead
<1>1. SessionInv => WireServesHead
  BY DEF SessionInv
<1> QED
  BY <1>1, Invariance, PTL

\* A connected session at rest never sits on a query without serving one:
\* __send is called wherever m_state becomes e_state_waiting.
THEOREM NoQueryForgotten == Spec => []ListIsServed
<1>1. TypeInv /\ SessionInv => ListIsServed
  <2> SUFFICES ASSUME TypeInv, SessionInv, Top = "idle", m_client, m_list # <<>>
               PROVE  m_state = "query"
    BY DEF ListIsServed
  <2>1. stack = <<>>
    BY IdleStack DEF TypeInv
  <2>2. ~ \E i \in DOMAIN stack : stack[i] \in {"answer", "event"}
    BY <2>1
  <2> QED
    BY <2>2 DEF SessionInv, ServedInv, TypeInv, TypeOK
<1> QED
  BY <1>1, Invariance, PTL

\* msgsession never has two retry timers or two connections at once.
THEOREM OneRetryAtATime == Spec => []OneRetry
<1>1. SessionInv => OneRetry
  BY DEF SessionInv, ConnInv, OneRetry
<1> QED
  BY <1>1, Invariance, PTL

-----------------------------------------------------------------------------
(* Refinement *)

\* A close fails the head or changes neither list nor history.
LEMMA CloseQueue ==
  ASSUME NEW below, Close(below)
  PROVE  Queue!Fail \/ UNCHANGED <<m_list, done>>
<1>1. CASE m_state = "query" /\ m_list # <<>>
  BY <1>1 DEF Close, Resolve, Queue!Fail, Queue!Errors, NoAnswer
<1>2. CASE ~(m_state = "query" /\ m_list # <<>>)
  BY <1>2 DEF Close
<1> QED
  BY <1>1, <1>2

\* Every step of the session is one of the query queue, or changes nothing
\* that the queue sees.
LEMMA QueueStep ==
  ASSUME TypeInv, SessionInv, [Next]_vars
  PROVE  [Queue!Next]_(Queue!vars)
<1> SUFFICES Queue!Next \/ UNCHANGED <<m_list, done>>
  BY DEF Queue!vars
<1>1. CASE Query
  BY <1>1 DEF Query, TrySend, Queue!Next, Queue!Submit, Made, Queue!Made
<1>2. CASE SendError \/ UserSendError \/ Lost
  BY <1>2, CloseQueue DEF SendError, UserSendError, Lost, Queue!Next
<1>3. CASE TimerFires \/ Heartbeat
  BY <1>3, CloseQueue DEF TimerFires, Connect, Heartbeat, Queue!Next
<1>4. CASE Recv
  <2>1. CASE m_client /\ Head(toCli) # Push /\ m_list # <<>>
    <3>1. toCli # <<>> /\ toCli \in Seq({Push} \cup Queries)
      BY <1>4 DEF Recv, TypeInv, TypeOK
    <3>2. 1 \in DOMAIN toCli /\ toCli[1] = Head(toCli)
      BY <3>1
    <3>3. Head(toCli) = Head(m_list)
      BY <2>1, <3>2 DEF SessionInv, WireServesHead
    <3>4. Resolve("ok", Head(toCli), <<"answer", "recv">>)
      BY <1>4, <2>1 DEF Recv
    <3> QED
      BY <2>1, <3>3, <3>4 DEF Resolve, Queue!Next, Queue!Answer
  <2>2. CASE ~(m_client /\ Head(toCli) # Push /\ m_list # <<>>)
    BY <1>4, <2>2 DEF Recv
  <2> QED
    BY <2>1, <2>2
<1>5. CASE Expire
  BY <1>5 DEF Expire, HeadIsOld, Resolve, Queue!Next, Queue!Fail, Queue!Errors, NoAnswer
<1>6. CASE ConnectOk \/ HandlerReturns
  BY <1>6 DEF ConnectOk, HandlerReturns, TrySend
<1>7. CASE SendOk \/ RecvDone \/ FailureReturns \/ FailureThrows \/ Rearm
  BY <1>7 DEF SendOk, RecvDone, FailureReturns, FailureThrows, Rearm
<1>8. CASE ServerAnswers \/ ServerPushes \/ Age \/ UNCHANGED vars
  BY <1>8 DEF ServerAnswers, ServerPushes, Age, vars
<1> QED
  BY <1>1, <1>2, <1>3, <1>4, <1>5, <1>6, <1>7, <1>8 DEF Next

\* msgsession implements the query queue for any number of queries, pushes
\* and faults: each query is resolved at most once, in order, and by its own
\* answer if by any.
THEOREM RefinesQueryQueue == Spec => ImplementsQueryQueue
<1>1. Init => Queue!Init
  BY DEF Init, Queue!Init
<1>2. TypeInv /\ SessionInv /\ [Next]_vars => [Queue!Next]_(Queue!vars)
  BY QueueStep
<1> QED
  BY <1>1, <1>2, Invariance, PTL DEF Spec, Queue!Spec, ImplementsQueryQueue

-----------------------------------------------------------------------------
(* Connecting again *)

\* A close hands over to __retry, by way of the callback it owes.
LEMMA CloseRetry ==
  ASSUME NEW below \in Seq(Outer), Close(below)
  PROVE  RetryInv'
<1>1. stack' = <<"close">> \o below \/ stack' = <<"retry">> \o below
  BY DEF Close, Resolve
<1>2. Top' \in {"close", "retry"}
  BY <1>1, PushedStack DEF Frames
<1> QED
  BY <1>2 DEF Close, RetryInv, Closing

\* A session that is stranded stays so.
LEMMA StrandedStays ==
  ASSUME stranded, [Next]_vars
  PROVE  stranded'
<1>1. CASE Query \/ SendOk \/ SendError \/ UserSendError \/ ConnectOk \/ Lost
  BY <1>1 DEF Query, SendOk, SendError, UserSendError, ConnectOk, Lost
<1>2. CASE Recv \/ RecvDone \/ TimerFires \/ Heartbeat \/ HandlerReturns
  BY <1>2 DEF Recv, RecvDone, TimerFires, Connect, Heartbeat, HandlerReturns
<1>3. CASE FailureReturns \/ FailureThrows \/ Expire \/ Rearm
  BY <1>3 DEF FailureReturns, FailureThrows, Expire, Rearm
<1>4. CASE ServerAnswers \/ ServerPushes \/ Age \/ UNCHANGED vars
  BY <1>4 DEF ServerAnswers, ServerPushes, Age, vars
<1> QED
  BY <1>1, <1>2, <1>3, <1>4 DEF Next

\* Every step keeps the way to the next connection open, or strands the
\* session.
LEMMA RetryStep ==
  ASSUME TypeInv, SessionInv, RetryInv, [Next]_vars
  PROVE  RetryInv'
<1> SUFFICES ASSUME ~stranded PROVE RetryInv'
  BY StrandedStays DEF RetryInv
<1> USE DEF SessionInv
<1>0. TypeOK
  BY DEF TypeInv
<1>a. <<>> \in Seq(Outer)
  OBVIOUS
<1>b. Top = "idle" => stack = <<>>
  BY <1>0, IdleStack
<1>1. CASE Query
  <2>1. CASE conn = "closing"
    <3>1. ~m_client
      BY <2>1 DEF ConnInv
    <3>2. stack' = stack
      BY <1>1, <3>1 DEF Query, TrySend
    <3> QED
      BY <1>1, <2>1, <3>2 DEF Query, RetryInv, Top
  <2>2. CASE conn # "closing"
    BY <1>1, <2>2 DEF Query, RetryInv
  <2> QED
    BY <2>1, <2>2
<1>2. CASE SendError
  <2>1. Close(Tail(stack)) /\ Tail(stack) \in Seq(Outer)
    BY <1>2, BelowTop DEF SendError, Frames
  <2> QED
    BY <2>1, CloseRetry
<1>3. CASE UserSendError
  <2>1. Close(stack) /\ Top \notin Closing
    BY <1>3 DEF UserSendError, ConnInv
  <2>2. stack = <<>> \/ (stack # <<>> /\ Head(stack) \in Outer /\ Tail(stack) \in Seq(Outer))
    BY <1>3, <2>1, <1>b, BelowTop DEF UserSendError, Callbacks, Closing, Outer, Frames
  <2>3. stack \in Seq(Outer)
    BY <1>0, <1>a, <2>2, WholeStack DEF TypeOK
  <2> QED
    BY <2>1, <2>3, CloseRetry
<1>4. CASE Lost
  BY <1>4, <1>a, CloseRetry DEF Lost
<1>5. CASE TimerFires
  BY <1>5, <1>a, CloseRetry DEF TimerFires, Connect, RetryInv
<1>6. CASE Heartbeat
  <2>1. CASE m_client /\ Close(<<>>)
    BY <1>a, <2>1, CloseRetry
  <2>2. CASE ~(m_client /\ Close(<<>>))
    BY <1>6, <2>2 DEF Heartbeat, RetryInv, Top
  <2> QED
    BY <2>1, <2>2
<1>7. CASE FailureReturns
  <2>1. Top \in {"close", "timeout"} /\ stack' = <<"retry">> \o Tail(stack)
    BY <1>7 DEF FailureReturns
  <2>2. Tail(stack) \in Seq(Outer)
    BY <2>1, BelowTop DEF Frames
  <2>3. Top' = "retry" /\ conn' = "closing"
    BY <1>7, <2>1, <2>2, PushedStack DEF FailureReturns, Frames, ConnInv, Closing
  <2> QED
    BY <2>3 DEF RetryInv, Closing
<1>8. CASE Expire
  <2>1. Top = "retry" /\ stack' = <<"timeout">> \o Tail(stack)
    BY <1>8 DEF Expire, Resolve
  <2>2. Tail(stack) \in Seq(Outer)
    BY <2>1, BelowTop DEF Frames
  <2>3. Top' = "timeout" /\ conn' = "closing"
    BY <1>8, <2>1, <2>2, PushedStack DEF Expire, Frames, ConnInv, Closing
  <2> QED
    BY <2>3 DEF RetryInv, Closing
<1>9. CASE Rearm
  BY <1>9 DEF Rearm, RetryInv
<1>10. CASE ConnectOk
  BY <1>10 DEF ConnectOk, RetryInv
<1>11. CASE SendOk \/ Recv \/ RecvDone \/ HandlerReturns
  <2>1. conn # "closing"
    BY <1>11 DEF SendOk, Recv, RecvDone, HandlerReturns, RetryInv, Closing
  <2>2. conn' = conn /\ m_timer' = m_timer
    BY <1>11 DEF SendOk, Recv, RecvDone, HandlerReturns
  <2> QED
    BY <2>1, <2>2 DEF RetryInv
<1>12. CASE ServerAnswers \/ ServerPushes \/ Age \/ UNCHANGED vars
  BY <1>12 DEF ServerAnswers, ServerPushes, Age, vars, RetryInv, Top
<1>13. CASE FailureThrows
  BY <1>13 DEF FailureThrows, RetryInv
<1> QED
  BY <1>1, <1>2, <1>3, <1>4, <1>5, <1>6, <1>7, <1>8, <1>9, <1>10, <1>11, <1>12, <1>13 DEF Next

\* A session at rest always has a connection, a connect in progress or the
\* retry timer, unless a callback on a close threw or a descriptor was not to
\* be had.
THEOREM AlwaysRetries == Spec => []WillConnect
<1>1. Init => RetryInv
  BY DEF Init, RetryInv, Top, Closing
<1>2. TypeInv /\ SessionInv /\ RetryInv /\ [Next]_vars => RetryInv'
  BY RetryStep
<1>3. TypeInv /\ RetryInv => WillConnect
  BY DEF TypeInv, TypeOK, RetryInv, WillConnect, Closing
<1> QED
  BY <1>1, <1>2, <1>3, Invariance, PTL DEF Spec

\* There is one way on for a session at rest, and never two.
THEOREM ComesBackOnce == Spec => []OneWayBack
<1>1. OneRetry /\ WillConnect => OneWayBack
  BY DEF OneWayBack
<1> QED
  BY <1>1, OneRetryAtATime, AlwaysRetries, PTL
=============================================================================
