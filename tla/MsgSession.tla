------------------------------ MODULE MsgSession ------------------------------
(***************************************************************************)
(* The RPC client session: msgsession (service/msgsession.cpp) with        *)
(* msgdispatch (service/msgdispatch.inl), client::recv (service/client.cpp),*)
(* heartbeat (net/heartbeat.cpp) and the parts of asyncnet that open, read *)
(* and close its connection.                                               *)
(*                                                                         *)
(* A session belongs to one event loop, so its handlers never run at the   *)
(* same time; what makes it hard is that they call each other and user     *)
(* callbacks that call query again.  `stack` is the call stack of the loop *)
(* (innermost first): events are handled when it is empty, and each        *)
(* activation goes on only when those above it have returned.              *)
(***************************************************************************)
EXTENDS Integers, Sequences

CONSTANTS
  MaxQueries,    \* bound: queries made in a behaviour
  MaxPushes,     \* bound: messages the server sends of its own accord
  Faults         \* what may go wrong besides the network, see below

\* "send": ::send fails with an error other than EAGAIN;  "socket": socket()
\* fails;  "timer": timerfd_create fails;  "throw": a user callback throws.
FaultKinds == {"send", "socket", "timer", "throw"}

ASSUME MsgSessionAssumption ==
  /\ MaxQueries \in Nat
  /\ MaxPushes \in Nat
  /\ Faults \subseteq FaultKinds

VARIABLES
  m_list,      \* queries not resolved, oldest first
  m_state,     \* "waiting" or "query"
  m_client,    \* m_client is not null
  m_timer,     \* the retry timer is armed
  m_count,     \* heartbeat count: -1, 0, or 1 for any positive value
  conn,        \* the connection: none, connecting, up, or closing (no
               \* longer watched by epoll, fd not yet closed)
  toSrv,       \* requests on their way, in m_wbuffer, socket or server
  toCli,       \* messages on their way back
  stack,       \* activations of the loop, innermost first
  done,        \* resolutions: the callbacks called so far
  old,         \* queries 1 .. old are older than MAX_RETRY_TIMEOUT
  pushes,      \* messages the server has sent of its own accord
  stranded     \* a descriptor was not to be had, or a callback on a close or
               \* a timeout threw: nothing brings the session back

vars == <<m_list, m_state, m_client, m_timer, m_count, conn, toSrv, toCli,
          stack, done, old, pushes, stranded>>

Queries == 1 .. MaxQueries

Push == 0        \* a message for which msgdispatch::onevent has a handler
NoAnswer == 0    \* what a failed query gets

\* Activations: the asyncnet::send of a query, a callback on an answer
\* ("answer"), on a push ("event"), on a close, on a timeout; __retry_timeout
\* between two callbacks; client::recv; and a use of freed memory.
Frames == {"send", "answer", "event", "close", "timeout", "retry", "recv", "undefined"}

Callbacks == {"answer", "event", "close", "timeout"}

Resolutions == [query : Queries, how : {"ok", "closed", "timeout"}, answer : {NoAnswer} \cup Queries]

Top == IF stack = <<>> THEN "idle" ELSE Head(stack)

Made == Len(m_list) + Len(done)

TypeOK ==
  /\ m_list \in Seq(Queries)
  /\ m_state \in {"waiting", "query"}
  /\ m_client \in BOOLEAN
  /\ m_timer \in BOOLEAN
  /\ m_count \in -1 .. 1
  /\ conn \in {"none", "connecting", "up", "closing"}
  /\ toSrv \in Seq(Queries)
  /\ toCli \in Seq({Push} \cup Queries)
  /\ stack \in Seq(Frames)
  /\ done \in Seq(Resolutions)
  /\ old \in 0 .. MaxQueries
  /\ pushes \in 0 .. MaxPushes
  /\ stranded \in BOOLEAN

\* __init in the constructor: the connect is in progress, or it failed at
\* once and the close callback is at work, or there was no socket at all.
Init ==
  /\ \/ conn = "connecting" /\ stack = <<>> /\ stranded = FALSE
     \/ conn = "closing" /\ stack = <<"retry">> /\ stranded = FALSE
     \/ "socket" \in Faults /\ conn = "none" /\ stack = <<>> /\ stranded = TRUE
  /\ m_list = <<>> /\ m_state = "waiting" /\ m_client = FALSE
  /\ m_timer = FALSE /\ m_count = 1
  /\ toSrv = <<>> /\ toCli = <<>> /\ done = <<>> /\ old = 0 /\ pushes = 0

-----------------------------------------------------------------------------
(* Sending and resolving *)

\* Faulty: __send does not look at m_state.
TrySendWhileBusy(list, state, client, below) ==
  LET go == client /\ list # <<>> IN
    /\ m_list' = list
    /\ m_state' = IF go THEN "query" ELSE state
    /\ stack' = IF go THEN <<"send">> \o below ELSE below

\* __send, given the list, state and client it sees, called by what leaves
\* the stack `below`: if it may, it marks the session busy and hands the head
\* to asyncnet::send.
TrySend(list, state, client, below) ==
  LET go == state = "waiting" /\ client /\ list # <<>> IN
    /\ m_list' = list
    /\ m_state' = IF go THEN "query" ELSE state
    /\ stack' = IF go THEN <<"send">> \o below ELSE below

\* Erase the head of m_list and call its callback.
Resolve(how, answer, frames) ==
  /\ m_list' = Tail(m_list)
  /\ done' = Append(done, [query |-> Head(m_list), how |-> how, answer |-> answer])
  /\ stack' = frames

\* Faulty: __onclose calls the callback of the head and leaves it in m_list.
CloseKeepsHead(below) ==
  /\ conn' = "closing" /\ toSrv' = <<>> /\ toCli' = <<>> /\ m_client' = FALSE
  /\ UNCHANGED m_list
  /\ IF m_state = "query" /\ m_list # <<>>
       THEN /\ done' = Append(done, [query |-> Head(m_list), how |-> "closed", answer |-> NoAnswer])
            /\ stack' = <<"close">> \o below
            /\ UNCHANGED m_state
       ELSE /\ m_state' = "waiting"
            /\ stack' = <<"retry">> \o below
            /\ UNCHANGED done

\* asyncnet::__clientclose, and from there __onclose up to its callback, if
\* there is one to call: the connection is no longer watched, what it carried
\* is lost, and a query that was being served fails.
Close(below) ==
  /\ conn' = "closing" /\ toSrv' = <<>> /\ toCli' = <<>> /\ m_client' = FALSE
  /\ IF m_state = "query" /\ m_list # <<>>
       THEN /\ Resolve("closed", NoAnswer, <<"close">> \o below)
            /\ UNCHANGED m_state
       ELSE /\ m_state' = "waiting"
            /\ stack' = <<"retry">> \o below
            /\ UNCHANGED <<m_list, done>>

\* query, called by the user from outside (idle) or from a callback.
Query ==
  /\ Top \in {"idle"} \cup Callbacks
  /\ Made < MaxQueries
  /\ TrySend(Append(m_list, Made + 1), m_state, m_client, stack)
  /\ UNCHANGED <<m_client, m_timer, m_count, conn, toSrv, toCli, done, old, pushes, stranded>>

\* asyncnet::send takes the head: to the socket, or to m_wbuffer on EAGAIN.
SendOk ==
  /\ Top = "send"
  /\ toSrv' = Append(toSrv, Head(m_list))
  /\ stack' = Tail(stack)
  /\ UNCHANGED <<m_list, m_state, m_client, m_timer, m_count, conn, toCli,
                 done, old, pushes, stranded>>

\* ::send fails: asyncnet::send closes the connection before it returns.
SendError ==
  /\ "send" \in Faults
  /\ Top = "send"
  /\ Close(Tail(stack))
  /\ UNCHANGED <<m_timer, m_count, old, pushes, stranded>>

\* The user's msgsession::send of a message that has no answer fails; when it
\* does not, nothing of the session changes.
UserSendError ==
  /\ "send" \in Faults
  /\ Top \in {"idle"} \cup Callbacks
  /\ m_client
  /\ Close(stack)
  /\ UNCHANGED <<m_timer, m_count, old, pushes, stranded>>

-----------------------------------------------------------------------------
(* Events of the loop *)

\* Faulty: __onconnect does not send what was queued before.
ConnectOkQuiet ==
  /\ Top = "idle"
  /\ conn = "connecting"
  /\ conn' = "up" /\ m_client' = TRUE
  /\ m_state' = "waiting"
  /\ UNCHANGED <<m_list, stack, m_timer, m_count, toSrv, toCli, done, old, pushes, stranded>>

\* The connect succeeded: __onconnect makes the client and sends.
ConnectOk ==
  /\ Top = "idle"
  /\ conn = "connecting"
  /\ conn' = "up" /\ m_client' = TRUE
  /\ TrySend(m_list, "waiting", TRUE, <<>>)
  /\ UNCHANGED <<m_timer, m_count, toSrv, toCli, done, old, pushes, stranded>>

\* The connect failed, or the connection broke: __onclose.
Lost ==
  /\ Top = "idle"
  /\ conn \in {"connecting", "up"}
  /\ Close(<<>>)
  /\ UNCHANGED <<m_timer, m_count, old, pushes, stranded>>

\* A message has arrived: client::recv, mydispatch::client, and then
\* msgdispatch::on_dispatch with the handler of a push or msgsession::
\* on_dispatch.  After msgsession::stop there is no client to receive it.
Recv ==
  /\ Top = "idle"
  /\ conn = "up"
  /\ toCli # <<>>
  /\ toCli' = Tail(toCli)
  /\ IF ~m_client
       THEN stack' = <<"undefined">> /\ UNCHANGED <<m_list, m_state, m_count, done>>
       ELSE /\ m_count' = IF m_count < 1 THEN m_count + 1 ELSE 1
            /\ IF Head(toCli) = Push \/ m_list = <<>>
                 THEN /\ stack' = IF Head(toCli) = Push THEN <<"event", "recv">> ELSE <<"recv">>
                      /\ UNCHANGED <<m_list, m_state, done>>
                 ELSE /\ m_state' = "waiting"
                      /\ Resolve("ok", Head(toCli), <<"answer", "recv">>)
  /\ UNCHANGED <<m_client, m_timer, conn, toSrv, old, pushes, stranded>>

\* Control is back in client::recv, whose object a close has destroyed.
RecvDone ==
  /\ Top = "recv"
  /\ stack' = IF m_client THEN Tail(stack) ELSE <<"undefined">>
  /\ UNCHANGED <<m_list, m_state, m_client, m_timer, m_count, conn, toSrv, toCli,
                 done, old, pushes, stranded>>

\* asyncnet::connect: it is in progress, it failed at once (or, against a
\* local address, succeeded at once, which is taken for a failure), or there
\* is no socket for it, and then nobody is told.
Connect ==
  \/ /\ conn' = "connecting"
     /\ UNCHANGED <<m_list, m_state, m_client, toSrv, toCli, stack, done, stranded>>
  \/ Close(<<>>) /\ UNCHANGED stranded
  \/ /\ "socket" \in Faults
     /\ stranded' = TRUE
     /\ UNCHANGED <<m_list, m_state, m_client, conn, toSrv, toCli, stack, done>>

\* The retry timer: __init connects again.
TimerFires ==
  /\ Top = "idle"
  /\ m_timer
  /\ m_timer' = FALSE
  /\ Connect
  /\ UNCHANGED <<m_count, old, pushes>>

\* Faulty: counts on below -1.
HeartbeatOn ==
  /\ Top = "idle"
  /\ m_count' = m_count - 1
  /\ m_client' = (m_client /\ m_count # -1)
  /\ UNCHANGED <<m_list, m_state, m_timer, conn, toSrv, toCli, stack, done, old, pushes, stranded>>

\* __heartbeat::ontime: a silent period is answered with a heartbeat, whose
\* send may fail; the one after two of them ends in msgsession::stop.
Heartbeat ==
  /\ Top = "idle"
  /\ m_count' = IF m_count > 0 THEN 0 ELSE -1
  /\ \/ /\ m_client' = (m_client /\ m_count # -1)
        /\ UNCHANGED <<m_list, m_state, conn, toSrv, toCli, stack, done>>
     \/ /\ "send" \in Faults /\ m_client /\ m_count # -1
        /\ Close(<<>>)
  /\ UNCHANGED <<m_timer, old, pushes, stranded>>

-----------------------------------------------------------------------------
(* Callbacks and the retry *)

\* Faulty: msgdispatch does not send the next query.
HandlerReturnsQuiet ==
  /\ Top \in {"answer", "event"}
  /\ stack' = Tail(stack)
  /\ UNCHANGED <<m_list, m_state, m_client, m_timer, m_count, conn, toSrv, toCli,
                 done, old, pushes, stranded>>

\* The callback on an answer or a push returns, or throws and is caught by
\* the handler around it; msgdispatch then sends the next query.
HandlerReturns ==
  /\ Top \in {"answer", "event"}
  /\ TrySend(m_list, m_state, m_client, Tail(stack))
  /\ UNCHANGED <<m_client, m_timer, m_count, conn, toSrv, toCli, done, old, pushes, stranded>>

\* Faulty: __onclose returns after the callback, without __retry.
FailureReturnsQuiet ==
  /\ Top \in {"close", "timeout"}
  /\ m_state' = IF Top = "close" THEN "waiting" ELSE m_state
  /\ stack' = IF Top = "close" THEN Tail(stack) ELSE <<"retry">> \o Tail(stack)
  /\ UNCHANGED <<m_list, m_client, m_timer, m_count, conn, toSrv, toCli, done,
                 old, pushes, stranded>>

\* The callback on a close or a timeout returns: on to __retry_timeout.
FailureReturns ==
  /\ Top \in {"close", "timeout"}
  /\ m_state' = IF Top = "close" THEN "waiting" ELSE m_state
  /\ stack' = <<"retry">> \o Tail(stack)
  /\ UNCHANGED <<m_list, m_client, m_timer, m_count, conn, toSrv, toCli, done,
                 old, pushes, stranded>>

\* The activations that catch an exception of the innermost one: the handler
\* of msgdispatch or msgsession::on_dispatch, else the one of __wait.  (The
\* __send that follows a caught one does nothing: there is no client.)
Catchers == {i \in DOMAIN stack : i > 1 /\ stack[i] \in {"answer", "event"}}

\* The callback on a close or a timeout throws: __onclose, __clientclose and
\* __retry are abandoned where they are.
FailureThrows ==
  /\ "throw" \in Faults
  /\ Top \in {"close", "timeout"}
  /\ stranded' = TRUE
  /\ \/ Catchers = {} /\ stack' = <<>>
     \/ \E i \in Catchers : /\ \A j \in Catchers : i <= j
                            /\ stack' = SubSeq(stack, i + 1, Len(stack))
  /\ UNCHANGED <<m_list, m_state, m_client, m_timer, m_count, conn, toSrv, toCli,
                 done, old, pushes>>

HeadIsOld == m_list # <<>> /\ Head(m_list) <= old

\* __retry_timeout finds the head too old: its callback gets TIMEOUT.
Expire ==
  /\ Top = "retry"
  /\ HeadIsOld
  /\ Resolve("timeout", NoAnswer, <<"timeout">> \o Tail(stack))
  /\ UNCHANGED <<m_state, m_client, m_timer, m_count, conn, toSrv, toCli, old, pushes, stranded>>

\* __retry_timeout finds no more: __retry arms the timer, and the caller of
\* __onclose closes the connection's fd.
Rearm ==
  /\ Top = "retry"
  /\ ~HeadIsOld
  /\ \/ m_timer' = TRUE /\ UNCHANGED stranded
     \/ "timer" \in Faults /\ m_timer' = FALSE /\ stranded' = TRUE
  /\ conn' = "none"
  /\ stack' = Tail(stack)
  /\ UNCHANGED <<m_list, m_state, m_client, m_count, toSrv, toCli, done, old, pushes>>

-----------------------------------------------------------------------------
(* The world outside *)

\* The server answers the next request on the connection.
ServerAnswers ==
  /\ toSrv # <<>>
  /\ toSrv' = Tail(toSrv)
  /\ toCli' = Append(toCli, Head(toSrv))
  /\ UNCHANGED <<m_list, m_state, m_client, m_timer, m_count, conn, stack, done,
                 old, pushes, stranded>>

\* The server sends something of its own accord.
ServerPushes ==
  /\ conn = "up"
  /\ pushes < MaxPushes
  /\ pushes' = pushes + 1
  /\ toCli' = Append(toCli, Push)
  /\ UNCHANGED <<m_list, m_state, m_client, m_timer, m_count, conn, toSrv, stack,
                 done, old, stranded>>

\* Time passes: the queries made first become too old.
Age ==
  /\ Top = "idle"
  /\ old' \in (old + 1) .. Made
  /\ UNCHANGED <<m_list, m_state, m_client, m_timer, m_count, conn, toSrv, toCli,
                 stack, done, pushes, stranded>>

-----------------------------------------------------------------------------
Next ==
  \/ Query \/ SendOk \/ SendError \/ UserSendError
  \/ ConnectOk \/ Lost \/ Recv \/ RecvDone \/ TimerFires \/ Heartbeat
  \/ HandlerReturns \/ FailureReturns \/ FailureThrows \/ Expire \/ Rearm
  \/ ServerAnswers \/ ServerPushes \/ Age

\* The loop runs, connects come to an end, the server answers, time passes.
\* Nobody need make a query, break a connection or push.  (Age waits for the
\* loop to be idle because __retry_timeout reads the clock once, so that a
\* loop which retries for ever enables it again and again, not always.)
Fairness ==
  /\ WF_vars(SendOk \/ SendError)
  /\ WF_vars(ConnectOk \/ (conn = "connecting" /\ Lost))
  /\ WF_vars(Recv) /\ WF_vars(RecvDone) /\ WF_vars(TimerFires)
  /\ WF_vars(HandlerReturns) /\ WF_vars(FailureReturns)
  /\ WF_vars(Expire) /\ WF_vars(Rearm)
  /\ WF_vars(ServerAnswers) /\ SF_vars(Age)

Spec == Init /\ [][Next]_vars

FairSpec == Spec /\ Fairness

-----------------------------------------------------------------------------
(* Properties *)

\* msgsession implements the query queue of module QueryQueue: whatever is
\* called from within whatever callback, each query's callback is called at
\* most once, in the order of the queries, and an answer goes to the query
\* it answers.
Queue == INSTANCE QueryQueue WITH pending <- m_list

ImplementsQueryQueue == Queue!Spec

\* A request or answer on the wire belongs to the head of m_list, there is at
\* most one, and the session knows it is waiting for it: an answer can
\* never be taken for that of a later query, nor a second query overtake.
WireServesHead ==
  LET Answers == {i \in DOMAIN toCli : toCli[i] # Push} IN
    /\ toSrv # <<>> => toSrv = <<Head(m_list)>> /\ Answers = {}
    /\ \A i, j \in Answers : i = j /\ toCli[i] = Head(m_list)
    /\ toSrv # <<>> \/ Answers # {} => m_state = "query" /\ m_list # <<>>

\* While the session is connected and at rest, queries queue up only behind
\* one that is being served (so the assert of on_dispatch holds).
ListIsServed ==
  Top = "idle" /\ m_client /\ m_list # <<>> => m_state = "query"

\* The retry timer is armed only while there is no connection, so there are
\* never two connections, or two timers, of one session.
OneRetry == m_timer => conn = "none" /\ ~m_client

\* A session at rest has a connection, a connect in progress, or a timer
\* that will start one: __onclose always gets to __retry, whatever its
\* callbacks do, unless the session is stranded.
WillConnect == Top = "idle" => m_timer \/ conn \in {"connecting", "up"} \/ stranded

\* There is exactly one way on for a session at rest that is not stranded: a
\* connection, or a connect in progress, or a timer that starts one.
OneWayBack == OneRetry /\ WillConnect

\* The heartbeat gave the client up and nobody closed the connection.
Zombie == conn = "up" /\ ~m_client

\* A query is resolved in the end, unless msgsession::stop leaves the session
\* without client on an open connection, freed memory is used, or the session
\* is stranded.
QueryResolved ==
  \A q \in Queries :
    (\E i \in DOMAIN m_list : m_list[i] = q)
      ~> Zombie \/ stranded \/ Top = "undefined" \/ \E i \in DOMAIN done : done[i].query = q
=============================================================================
