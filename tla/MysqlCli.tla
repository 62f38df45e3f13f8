------------------------------- MODULE MysqlCli -------------------------------
(***************************************************************************)
(* The MySQL client: mysqlcli (mysql/mysqlcli.cpp) on top of the            *)
(* nonblocking API of libmysqlclient.  Of the library only what the client  *)
(* relies on is modelled: its connection, which it closes by itself when    *)
(* it breaks, and what it is doing with a query.  The same call             *)
(* mysql_real_query_nonblocking starts a query and carries one on, so that  *)
(* one call too many sends the query again.                                 *)
(*                                                                         *)
(* Everything runs on one event loop.  `pc` says what the loop is doing     *)
(* when it is not waiting.  `missed` becomes true when the library returns  *)
(* a status or keeps an error that the code ignores, when a callback throws *)
(* and when no timer is to be had: what holds afterwards is little.         *)
(***************************************************************************)
EXTENDS Integers, Sequences

CONSTANTS
  MaxQueries,    \* bound: queries made in a behaviour
  MaxRows,       \* bound: rows of a result
  Faults         \* what may go wrong besides the network, see below

\* "early": the library finishes within the call that starts a query or
\* follows the connect event;  "auth": the connect fails for another reason
\* than the network;  "throw": a user callback throws;  "timer":
\* timerfd_create fails.
FaultKinds == {"early", "auth", "throw", "timer"}

ASSUME MysqlCliAssumption ==
  /\ MaxQueries \in Nat
  /\ MaxRows \in Nat \ {0}
  /\ Faults \subseteq FaultKinds

VARIABLES
  m_list,      \* queries not popped, oldest first
  m_state,     \* "closed", "connecting" or "connected"
  m_fd,        \* none, or how asyncnet watches it: connect_ex or client_ex
  m_timer,     \* the retry timer is armed
  lib,         \* the library's connection: none, connecting or up
  srv,         \* the server has not closed that connection
  op,          \* no query in progress, one at work, or its result to fetch
  asked,       \* the query of op
  rows,        \* callbacks still to be called on the result
  checked,     \* __onrecv looks at the error of the __onstore it is in
  pc,          \* what the loop is doing, see Callbacks
  done,        \* resolutions: the queries popped so far
  old,         \* queries 1 .. old are older than MAX_RETRY_TIMEOUT
  missed,      \* see above
  started,     \* the last query started on this connection
  again        \* a query was started twice on one connection

network == <<m_state, m_fd, lib, srv>>
asking  == <<op, asked, started, again>>
fetching == <<rows, checked>>
vars == <<m_list, network, asking, m_timer, fetching, pc, done, old, missed>>

Queries == 1 .. MaxQueries
None == 0

\* A callback is running: on a row or the row count, on an SQL error, in
\* __retry_timeout.
Callbacks == {"row", "error", "timeout"}

Resolutions == [query : Queries, how : {"ok", "error", "timeout"}, answer : {None} \cup Queries]

Made == Len(m_list) + Len(done)

TypeOK ==
  /\ m_list \in Seq(Queries)
  /\ m_state \in {"closed", "connecting", "connected"}
  /\ m_fd \in {"none", "connect_ex", "client_ex"}
  /\ m_timer \in BOOLEAN /\ srv \in BOOLEAN /\ missed \in BOOLEAN /\ again \in BOOLEAN
  /\ checked \in BOOLEAN
  /\ lib \in {"none", "connecting", "up"}
  /\ op \in {"unset", "query", "result"}
  /\ asked \in {None} \cup Queries /\ started \in {None} \cup Queries
  /\ rows \in 0 .. MaxRows
  /\ pc \in Callbacks \cup {"idle", "first", "store", "next", "retry", "gone"}
  /\ done \in Seq(Resolutions)
  /\ old \in 0 .. MaxQueries

\* The constructor calls __init: the connect is in progress, or failed.
Init ==
  /\ \/ lib = "connecting" /\ m_fd = "connect_ex" /\ pc = "idle"
     \/ lib = "none" /\ m_fd = "none" /\ pc = "retry"
  /\ m_list = <<>> /\ m_state = "connecting" /\ m_timer = FALSE /\ srv = TRUE
  /\ op = "unset" /\ asked = None /\ started = None /\ again = FALSE
  /\ rows = 0 /\ checked = TRUE /\ done = <<>> /\ old = 0 /\ missed = FALSE

-----------------------------------------------------------------------------
(* Queries *)

\* The errors is_network_error knows: the library found the connection broken,
\* or the server said that it stops.
NetworkErrors == {"lost", "shutdown"}

\* What __onquery may be told of the head; "error" is any other error.
\* A result not fetched can make the next query an error (out of sync).
Outcomes ==
  IF lib # "up" THEN {"lost"}
  ELSE IF ~srv THEN {"not_ready", "lost"}
  ELSE {"not_ready", "complete", "error", "lost", "shutdown"}

\* The library is asked for query q, and the outcome is o.
Ask(q, o) ==
  /\ op' = CASE o = "not_ready" -> "query"
             [] o = "complete" -> "result"
             [] o = "error" /\ op = "result" -> "result"
             [] OTHER -> "unset"
  /\ asked' = IF op = "query" THEN asked ELSE q
  /\ started' = IF op = "query" THEN started ELSE q
  /\ again' = (again \/ (op # "query" /\ started = q))
  /\ lib' = IF o = "lost" THEN "none" ELSE lib

\* A first call of __onquery whose status nobody looks at: a query is at work
\* afterwards, or something was missed.  Without "early" the library needs
\* another call, but for a connection that the server has closed: that is
\* found out at once, and one that the library lost before.
AskAndIgnore(q) ==
  \E o \in Outcomes :
    /\ o = "not_ready" \/ "early" \in Faults \/ ~srv \/ lib # "up"
    /\ Ask(q, o)
    /\ missed' = (missed \/ o # "not_ready")

\* query, called by the user from outside or from a callback.
Query ==
  /\ pc \in {"idle"} \cup Callbacks
  /\ Made < MaxQueries
  /\ m_list' = Append(m_list, Made + 1)
  /\ IF m_list = <<>> /\ m_state = "connected"
       THEN AskAndIgnore(Made + 1) /\ UNCHANGED <<m_state, m_fd, srv>>
       ELSE UNCHANGED <<network, asking, missed>>
  /\ UNCHANGED <<m_timer, fetching, pc, done, old>>

\* __clear: asyncnet forgets the descriptor.
Clear == m_state' = "closed" /\ m_fd' = "none" /\ UNCHANGED srv

\* The head is resolved: popped, whether its callback was called once, once
\* for each row, or, for a result without rows, not at all.
Pop(how, answer) ==
  /\ m_list' = Tail(m_list)
  /\ done' = Append(done, [query |-> Head(m_list), how |-> how, answer |-> answer])

\* __onstore: the result is stored and the callbacks on it begin.
Store(check) == pc' = "store" /\ rows' \in 0 .. MaxRows /\ checked' = check

\* __onrecv on an established connection: it asks for the head until the
\* library is done with it.  (With no head, whatever it was told, __onrecv
\* changes nothing: a connection closed while idle goes unnoticed.)
Recv ==
  /\ pc = "idle" /\ m_fd = "client_ex" /\ m_state = "connected" /\ lib = "up"
  /\ m_list # <<>>
  /\ \E o \in Outcomes \ {"not_ready"} :
       /\ Ask(Head(m_list), o)
       /\ CASE o = "complete" -> Store(TRUE) /\ UNCHANGED <<m_state, m_fd, srv>>
            [] o = "error" -> pc' = "error" /\ UNCHANGED <<m_state, m_fd, srv, fetching>>
            [] o \in NetworkErrors -> Clear /\ pc' = "retry" /\ UNCHANGED fetching
  /\ UNCHANGED <<m_list, m_timer, done, old, missed>>

\* The next callback of __onstore, and its return.
Row ==
  /\ pc = "store" /\ rows > 0
  /\ pc' = "row" /\ rows' = rows - 1
  /\ UNCHANGED <<checked, m_list, network, asking, m_timer, done, old, missed>>

RowReturns ==
  /\ pc = "row"
  /\ pc' = "store"
  /\ UNCHANGED <<m_list, network, asking, m_timer, fetching, done, old, missed>>

\* __onstore pops the head and __onrecv goes on.  When the connection broke
\* while the result was fetched the callback was told; __onrecv looks at this
\* after the first result only, and not after those of its __retry__ loop.
Stored ==
  /\ pc = "store" /\ rows = 0
  /\ op' = "unset" /\ checked' = TRUE
  /\ \/ Pop("ok", asked) /\ pc' = "next" /\ UNCHANGED network
     \/ /\ Pop("error", None) /\ lib' = "none"
        /\ IF checked THEN Clear /\ pc' = "retry"
           ELSE pc' = "next" /\ UNCHANGED <<m_state, m_fd, srv>>
  /\ UNCHANGED <<asked, started, again, m_timer, rows, old, missed>>

\* Faulty: __onqueryerr leaves the head in the list.
ErrorReturnsKeeps ==
  /\ pc = "error"
  /\ pc' = "next"
  /\ UNCHANGED <<m_list, network, asking, m_timer, fetching, done, old, missed>>

\* The callback on an error returns: __onqueryerr pops the head.
ErrorReturns ==
  /\ pc = "error"
  /\ Pop("error", None)
  /\ pc' = "next"
  /\ UNCHANGED <<network, asking, m_timer, fetching, old, missed>>

\* Faulty: __onrecv returns after an answer, without the next query.
NextQuiet ==
  /\ pc = "next"
  /\ pc' = "idle"
  /\ UNCHANGED <<m_list, network, asking, fetching, missed, m_timer, done, old>>

\* Back at __retry__: the next query, if there is one, is started.  An SQL
\* error that comes at once is not looked at, though the head is done with;
\* without a next query nobody finds a connection that broke in __onstore.
NextQuery ==
  /\ pc = "next"
  /\ IF m_list = <<>>
       THEN /\ pc' = "idle" /\ missed' = (missed \/ lib # "up")
            /\ UNCHANGED <<network, asking, fetching>>
       ELSE \E o \in Outcomes :
              /\ Ask(Head(m_list), o)
              /\ missed' = (missed \/ o = "error")
              /\ CASE o = "complete" -> Store(FALSE) /\ UNCHANGED <<m_state, m_fd, srv>>
                   [] o \in NetworkErrors -> Clear /\ pc' = "retry" /\ UNCHANGED fetching
                   [] OTHER -> pc' = "idle" /\ UNCHANGED <<m_state, m_fd, srv, fetching>>
  /\ UNCHANGED <<m_list, m_timer, done, old>>

\* A callback throws: the loop catches it where it waits; the head stays,
\* without its query and its callback, and a retry never gets to its timer.
Throws ==
  /\ "throw" \in Faults
  /\ pc \in Callbacks
  /\ pc' = "idle" /\ missed' = TRUE /\ rows' = 0 /\ checked' = TRUE
  /\ op' = IF pc = "row" THEN "unset" ELSE op
  /\ UNCHANGED <<m_list, network, asked, started, again, m_timer, done, old>>

-----------------------------------------------------------------------------
(* Connecting and the retry *)

\* __init: mysql_real_connect_nonblocking starts a connect, carries on one
\* that asyncnet saw fail, or refuses one that is up (and closes it).
Connect ==
  /\ m_state' = "connecting" /\ UNCHANGED srv
  /\ \/ lib # "up" /\ lib' = "connecting" /\ m_fd' = "connect_ex" /\ UNCHANGED pc
     \/ lib' = "none" /\ m_fd' = "none" /\ pc' = "retry"

\* The descriptor is connected: __onconnect, whose __tryconnect goes on with
\* the handshake.  Nobody looks at how it ends when it ends here.
OnConnect ==
  /\ pc = "idle" /\ m_fd = "connect_ex"
  /\ m_fd' = "client_ex"
  /\ \/ UNCHANGED <<lib, srv, m_state, started, missed>>
     \/ /\ "early" \in Faults /\ missed' = TRUE
        /\ \/ lib' = "up" /\ srv' = TRUE /\ m_state' = "connected" /\ started' = None
           \/ lib' = "none" /\ UNCHANGED <<srv, m_state, started>>
  /\ UNCHANGED <<m_list, op, asked, again, m_timer, fetching, pc, done, old>>

\* The connect failed: __onclose.
OnClose ==
  /\ pc = "idle" /\ m_fd = "connect_ex"
  /\ Clear /\ pc' = "retry"
  /\ UNCHANGED <<m_list, lib, asking, m_timer, fetching, done, old, missed>>

\* __onrecv while connecting: the handshake is carried to its end.  It fails
\* for the network, or for another reason, of which nothing follows, or
\* succeeds.
Handshake ==
  /\ pc = "idle" /\ m_fd = "client_ex" /\ m_state # "connected" /\ lib = "connecting"
  /\ \/ lib' = "none" /\ Clear /\ pc' = "retry" /\ UNCHANGED <<started, missed>>
     \/ /\ "auth" \in Faults /\ lib' = "none" /\ missed' = TRUE
        /\ UNCHANGED <<m_state, m_fd, srv, started, pc>>
     \/ /\ lib' = "up" /\ srv' = TRUE /\ m_state' = "connected" /\ pc' = "first"
        /\ started' = None
        /\ UNCHANGED <<m_fd, missed>>
  /\ UNCHANGED <<m_list, op, asked, again, m_timer, fetching, done, old>>

\* The first query of a connection is started, if there is one.
FirstQuery ==
  /\ pc = "first"
  /\ pc' = "idle"
  /\ IF m_list = <<>>
       THEN UNCHANGED <<network, asking, missed>>
       ELSE AskAndIgnore(Head(m_list)) /\ UNCHANGED <<m_state, m_fd, srv>>
  /\ UNCHANGED <<m_list, m_timer, fetching, done, old>>

HeadIsOld == m_list # <<>> /\ Head(m_list) <= old

\* __retry_timeout finds the head too old: its callback gets TIMEOUT.
Expire ==
  /\ pc = "retry" /\ HeadIsOld
  /\ pc' = "timeout"
  /\ UNCHANGED <<m_list, network, asking, m_timer, fetching, done, old, missed>>

\* Faulty: __retry_timeout erases all old queries after the first callback.
ExpireReturnsAll ==
  /\ pc = "timeout"
  /\ m_list' = SelectSeq(m_list, LAMBDA q : q > old)
  /\ done' = Append(done, [query |-> Head(m_list), how |-> "timeout", answer |-> None])
  /\ pc' = "retry"
  /\ UNCHANGED <<network, asking, m_timer, fetching, old, missed>>

\* The callback returns and the query is erased.
ExpireReturns ==
  /\ pc = "timeout"
  /\ Pop("timeout", None)
  /\ pc' = "retry"
  /\ UNCHANGED <<network, asking, m_timer, fetching, old, missed>>

\* __retry_timeout finds no more: __retry arms the timer.
Rearm ==
  /\ pc = "retry" /\ ~HeadIsOld
  /\ pc' = "idle"
  /\ \/ m_timer' = TRUE /\ UNCHANGED missed
     \/ "timer" \in Faults /\ m_timer' = FALSE /\ missed' = TRUE
  /\ UNCHANGED <<m_list, network, asking, fetching, done, old>>

\* __ontimer: __init connects again.
OnTimer ==
  /\ pc = "idle" /\ m_timer
  /\ m_timer' = FALSE
  /\ Connect
  /\ UNCHANGED <<m_list, asking, fetching, done, old, missed>>

\* ~mysqlcli, from outside the client's callbacks: no callback is called.
Destroy ==
  /\ pc = "idle"
  /\ pc' = "gone" /\ m_timer' = FALSE /\ lib' = "none"
  /\ UNCHANGED <<m_list, m_state, m_fd, srv, asking, fetching, done, old, missed>>

-----------------------------------------------------------------------------
(* The world outside *)

\* The server closes the connection, or the network breaks it.
ServerCloses ==
  /\ lib = "up" /\ srv
  /\ srv' = FALSE
  /\ UNCHANGED <<m_list, m_state, m_fd, lib, asking, m_timer, fetching, pc, done, old, missed>>

\* Time passes: the queries made first become too old.
Age ==
  /\ pc = "idle"
  /\ old' \in (old + 1) .. Made
  /\ UNCHANGED <<m_list, network, asking, m_timer, fetching, pc, done, missed>>

-----------------------------------------------------------------------------
Next ==
  \/ Query \/ Recv \/ Row \/ RowReturns \/ Stored \/ ErrorReturns \/ NextQuery \/ Throws
  \/ OnConnect \/ OnClose \/ Handshake \/ FirstQuery \/ Expire \/ ExpireReturns \/ Rearm
  \/ OnTimer \/ Destroy \/ ServerCloses \/ Age

Spec == Init /\ [][Next]_vars

\* The loop runs and callbacks return; a query at work is answered or its
\* connection breaks, either of which is an event; connects come to an end;
\* time passes.
Fairness ==
  /\ WF_vars(op = "query" /\ Recv)
  /\ WF_vars(Row) /\ WF_vars(RowReturns) /\ WF_vars(Stored) /\ WF_vars(ErrorReturns)
  /\ WF_vars(NextQuery) /\ WF_vars(FirstQuery)
  /\ WF_vars(OnConnect \/ OnClose) /\ WF_vars(Handshake) /\ WF_vars(OnTimer)
  /\ WF_vars(Expire) /\ WF_vars(ExpireReturns) /\ WF_vars(Rearm) /\ SF_vars(Age)

FairSpec == Spec /\ Fairness

-----------------------------------------------------------------------------
(* Properties *)

\* mysqlcli keeps the promise of module QueryQueue: each query is resolved at
\* most once, in the order of the queries, and a result is handed to the
\* callback of the query it belongs to.  This holds even when statuses are
\* missed and callbacks throw.
Queue == INSTANCE QueryQueue WITH
  pending <- m_list,
  done <- [i \in DOMAIN done |->
             [done[i] EXCEPT !.how = IF @ = "error" THEN "closed" ELSE @]]

ImplementsQueryQueue == Queue!Spec

\* While the client is connected and the loop waits, the library is at work on
\* the oldest query, so that an event will come for it: neither query() from
\* a callback, nor a result of many rows, nor an error leaves a query that
\* nobody serves, unless something was missed.
HeadIsServed ==
  pc = "idle" /\ m_state = "connected" /\ m_list # <<>> /\ ~missed =>
    op = "query" /\ asked = Head(m_list)

\* The call that carries a query on never starts it again: the server does
\* not execute a query twice on one connection, unless something was missed.
StartedOnce == again => missed

\* A client at rest has one and only one of a descriptor that is watched and
\* an armed retry timer, unless something was missed.
OneWayBack ==
  pc = "idle" /\ ~missed =>
    /\ m_timer <=> m_fd = "none"
    /\ m_fd # "none" => lib = IF m_state = "connected" THEN "up" ELSE "connecting"

\* Between two events the client is serving its oldest query or on its one way
\* back to doing so.
ServedOrComingBack == TypeOK /\ HeadIsServed /\ OneWayBack

\* A query is resolved in the end, unless the client is destroyed or something
\* was missed.
QueryResolved ==
  \A q \in Queries :
    (\E i \in DOMAIN m_list : m_list[i] = q)
      ~> missed \/ pc = "gone" \/ \E i \in DOMAIN done : done[i].query = q
=============================================================================
