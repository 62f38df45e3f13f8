------------------------------- MODULE RedisCli -------------------------------
(***************************************************************************)
(* The redis client: rediscli (redis/rediscli.cpp) on top of hiredis's      *)
(* asynchronous API, of which only what rediscli relies on is modelled: a   *)
(* command waits in obuf until the socket is writable, its callback runs    *)
(* when the reply is read, and a context that goes calls first `cleanup`,   *)
(* then the callbacks that are still waiting with a null reply, then the    *)
(* disconnect callback.                                                     *)
(*                                                                         *)
(* Everything runs on one event loop.  `pc` says what the loop is doing     *)
(* when it is not waiting: a user callback is running (it may call query)   *)
(* or control is between two of them.                                       *)
(***************************************************************************)
EXTENDS Integers, Sequences

CONSTANTS
  MaxQueries,    \* bound: queries made in a behaviour
  Faults         \* what may go wrong besides the network, see below

\* "address": splitaddr fails, or redisAsyncConnect returns a context without
\* a socket;  "restart": told that its connect failed, hiredis starts another
\* on the descriptor that asyncnet has just stopped watching;  "timer":
\* timerfd_create fails;  nothing brings the client back from any of these.
\* "throw": the callback of a query throws.
FaultKinds == {"address", "restart", "timer", "throw"}

ASSUME RedisCliAssumption ==
  /\ MaxQueries \in Nat
  /\ Faults \subseteq FaultKinds

VARIABLES
  m_list,      \* queries not popped, oldest first
  m_state,     \* "closed", "connecting" or "connected"
  m_context,   \* m_context is not null
  m_events,    \* of EPOLLIN ("in") and EPOLLOUT ("out"), those in m_events
  m_timer,     \* the retry timer is armed
  conn,        \* the connection; "stranded" when nothing will ever make one
  obuf,        \* commands hiredis has not written, or drops one by one
  toSrv,       \* commands on their way
  toCli,       \* replies on their way
  pc,          \* what the loop is doing, see Callbacks
  alive,       \* the client is not destroyed
  done,        \* resolutions: the callbacks called so far
  old,         \* queries 1 .. old are older than MAX_RETRY_TIMEOUT
  spent        \* the head of m_list was resolved by a callback that threw

vars == <<m_list, m_state, m_context, m_events, m_timer, conn, obuf, toSrv,
          toCli, pc, alive, done, old, spent>>

Queries == 1 .. MaxQueries

NoAnswer == 0

\* A callback is running: on a reply, on a null reply, in __retry_timeout.
Callbacks == {"answer", "closed", "timeout"}

\* What rds_results says of a reply: strings, arrays and integers leave
\* last_error 0; a status, even OK, is reported like an error or nil.
Results == {"ok", "message"}

Resolutions == [query : Queries, how : Results \cup {"closed", "timeout"},
                answer : {NoAnswer} \cup Queries]

Wire == obuf \o toSrv \o toCli

\* The callback of the head, and its query, have been moved out of m_list.
Begun == pc \in Callbacks \/ spent

Made == Len(done) + Len(m_list) - (IF Begun THEN 1 ELSE 0)

TypeOK ==
  /\ m_list \in Seq(Queries)
  /\ m_state \in {"closed", "connecting", "connected"}
  /\ m_context \in BOOLEAN
  /\ m_events \subseteq {"in", "out"}
  /\ m_timer \in BOOLEAN
  /\ conn \in {"none", "connecting", "up", "stranded"}
  /\ obuf \in Seq(Queries) /\ toSrv \in Seq(Queries) /\ toCli \in Seq(Queries)
  /\ pc \in Callbacks \cup {"idle", "freeing", "retry", "gone", "undefined"}
  /\ alive \in BOOLEAN
  /\ done \in Seq(Resolutions)
  /\ old \in 0 .. MaxQueries
  /\ spent \in BOOLEAN

\* __init and __attach: hiredis is connecting on a descriptor that is watched
\* for it, or has none.
Connect ==
  /\ m_context' = TRUE /\ m_state' = "connecting" /\ m_events' = {"in", "out"}
  /\ conn' \in {"connecting"} \cup (IF "address" \in Faults THEN {"stranded"} ELSE {})

\* The constructor calls __init, unless there is no address.
Init ==
  /\ \/ m_context = TRUE /\ m_state = "connecting" /\ m_events = {"in", "out"} /\ conn = "connecting"
     \/ /\ "address" \in Faults /\ conn = "stranded"
        /\ \/ m_context = TRUE /\ m_state = "connecting" /\ m_events = {"in", "out"}
           \/ m_context = FALSE /\ m_state = "closed" /\ m_events = {}
  /\ m_list = <<>> /\ m_timer = FALSE /\ pc = "idle" /\ alive = TRUE
  /\ obuf = <<>> /\ toSrv = <<>> /\ toCli = <<>> /\ done = <<>> /\ old = 0
  /\ spent = FALSE

-----------------------------------------------------------------------------
(* Sending and resolving *)

\* __onquery, given the list, context and event mask it sees: the head goes
\* to hiredis, which asks to be told when the socket is writable.
OnQuery(list, context, events) ==
  LET go == list # <<>> /\ context IN
    /\ m_list' = list
    /\ obuf' = IF go THEN Append(obuf, Head(list)) ELSE obuf
    /\ m_events' = IF go THEN events \cup {"out"} ELSE events

\* The callback of the head is called; the head stays in m_list meanwhile.
CallHead(how, answer, frame) ==
  /\ done' = Append(done, [query |-> Head(m_list), how |-> how, answer |-> answer])
  /\ pc' = frame

\* Faulty: query sends whatever the size of m_list.
QueryAlways ==
  /\ pc \in {"idle"} \cup Callbacks
  /\ Made < MaxQueries
  /\ IF m_state = "connected"
       THEN OnQuery(Append(m_list, Made + 1), m_context, m_events)
       ELSE m_list' = Append(m_list, Made + 1) /\ UNCHANGED <<obuf, m_events>>
  /\ UNCHANGED <<m_state, m_context, m_timer, conn, toSrv, toCli, pc, alive, done, old, spent>>

\* query, called by the user from outside or from a callback.
Query ==
  /\ pc \in {"idle"} \cup Callbacks
  /\ Made < MaxQueries
  /\ IF m_list = <<>> /\ m_state = "connected"
       THEN OnQuery(Append(m_list, Made + 1), m_context, m_events)
       ELSE m_list' = Append(m_list, Made + 1) /\ UNCHANGED <<obuf, m_events>>
  /\ UNCHANGED <<m_state, m_context, m_timer, conn, toSrv, toCli, pc, alive, done, old, spent>>

\* The socket is writable: hiredis writes what it has, then wants to read.
Written ==
  /\ pc = "idle" /\ conn = "up"
  /\ obuf # <<>> /\ "out" \in m_events
  /\ toSrv' = toSrv \o obuf /\ obuf' = <<>>
  /\ m_events' = (m_events \ {"out"}) \cup {"in"}
  /\ UNCHANGED <<m_list, m_state, m_context, m_timer, conn, toCli, pc, alive, done, old, spent>>

\* A reply is read: __oncallback, up to the callback.
Reply ==
  /\ pc = "idle" /\ conn = "up"
  /\ toCli # <<>> /\ "in" \in m_events
  /\ toCli' = Tail(toCli)
  /\ IF m_list # <<>>
       THEN \E how \in Results : CallHead(how, Head(toCli), "answer")
       ELSE UNCHANGED <<done, pc>>
  /\ UNCHANGED <<m_list, m_state, m_context, m_events, m_timer, conn, obuf, toSrv, alive, old, spent>>

\* Faulty: __oncallback does not send the next query.
ReturnsQuiet ==
  /\ pc \in {"answer", "closed"}
  /\ m_list' = Tail(m_list)
  /\ pc' = IF pc = "answer" THEN "idle" ELSE "freeing"
  /\ UNCHANGED <<m_state, m_context, m_events, m_timer, conn, obuf, toSrv, toCli, alive, done, old, spent>>

\* The callback returns to __oncallback: only now is the head popped and the
\* next query sent, if there still is a context.
Returns ==
  /\ pc \in {"answer", "closed"}
  /\ OnQuery(Tail(m_list), m_context, m_events)
  /\ pc' = IF pc = "answer" THEN "idle" ELSE "freeing"
  /\ UNCHANGED <<m_state, m_context, m_timer, conn, toSrv, toCli, alive, done, old, spent>>

\* The callback throws, and __wait catches it: what follows the call is left
\* out.  The head stays in m_list without its callback and nothing is sent;
\* on a loss hiredis does not come to its disconnect callback, and __retry
\* does not come to its timer.  ~rediscli lets no exception out.
Throws ==
  /\ "throw" \in Faults
  /\ pc \in Callbacks
  /\ spent' = TRUE
  /\ IF pc = "answer" THEN pc' = "idle" /\ UNCHANGED conn
     ELSE IF alive THEN pc' = "idle" /\ conn' = "stranded"
     ELSE pc' = "undefined" /\ UNCHANGED conn
  /\ UNCHANGED <<m_list, m_state, m_context, m_events, m_timer, obuf, toSrv, toCli, alive,
                 done, old>>

-----------------------------------------------------------------------------
(* Connecting, losing the connection, the retry *)

\* Faulty: __onconnect replaces the event mask after the query was sent.
ConnectOkLate ==
  /\ pc = "idle" /\ conn = "connecting" /\ ~spent
  /\ conn' = "up" /\ m_state' = "connected"
  /\ m_events' = {"in"} /\ m_list' = m_list
  /\ obuf' = IF m_list # <<>> THEN Append(obuf, Head(m_list)) ELSE obuf
  /\ UNCHANGED <<m_context, m_timer, toSrv, toCli, pc, alive, done, old, spent>>

\* __connected(OK): __onconnect, and the first query is sent.
ConnectOk ==
  /\ pc = "idle" /\ conn = "connecting" /\ ~spent
  /\ conn' = "up" /\ m_state' = "connected"
  /\ OnQuery(m_list, m_context, {"in"})
  /\ UNCHANGED <<m_context, m_timer, toSrv, toCli, pc, alive, done, old, spent>>

\* __connected(OK) with a head whose query was moved out: hiredis is given an
\* empty command, asserts that it has an argument and reads it through null.
ConnectSpent ==
  /\ pc = "idle" /\ conn = "connecting" /\ spent
  /\ pc' = "undefined"
  /\ UNCHANGED <<m_list, m_state, m_context, m_events, m_timer, conn, obuf, toSrv, toCli, alive,
                 done, old, spent>>

\* __clear: asyncnet forgets the descriptor, hiredis closes it.
Clear == m_state' = "closed" /\ m_context' = FALSE /\ m_events' = {} /\ conn' = "none"

\* The connect failed: __connected(ERR) clears and goes on to __retry, or
\* hiredis connects again where nobody watches.
ConnectFails ==
  /\ pc = "idle" /\ conn = "connecting"
  /\ \/ Clear /\ pc' = "retry"
     \/ /\ "restart" \in Faults /\ conn' = "stranded"
        /\ UNCHANGED <<m_state, m_context, m_events, pc>>
  /\ UNCHANGED <<m_list, m_timer, obuf, toSrv, toCli, alive, done, old, spent>>

\* Faulty: the context stays until the waiting callbacks have run.
LostKeepsContext ==
  /\ pc = "idle" /\ conn = "up"
  /\ m_state' = "closed" /\ conn' = "none" /\ UNCHANGED <<m_context, m_events>>
  /\ obuf' = Wire /\ toSrv' = <<>> /\ toCli' = <<>> /\ pc' = "freeing"
  /\ UNCHANGED <<m_list, m_timer, alive, done, old, spent>>

\* The connection breaks: hiredis calls __clear as cleanup and goes on to
\* the commands without a reply.
Lost ==
  /\ pc = "idle" /\ conn = "up"
  /\ Clear
  /\ obuf' = Wire /\ toSrv' = <<>> /\ toCli' = <<>> /\ pc' = "freeing"
  /\ UNCHANGED <<m_list, m_timer, alive, done, old, spent>>

\* A command without a reply: __oncallback(nullptr), up to the callback.
Dropped ==
  /\ pc = "freeing" /\ obuf # <<>>
  /\ obuf' = Tail(obuf)
  /\ IF m_list # <<>> THEN CallHead("closed", NoAnswer, "closed") ELSE UNCHANGED <<done, pc>>
  /\ UNCHANGED <<m_list, m_state, m_context, m_events, m_timer, conn, toSrv, toCli, alive, old, spent>>

\* None is left: __disconnected, which does nothing when the client itself
\* freed the context and else goes on to __retry.
Disconnected ==
  /\ pc = "freeing" /\ obuf = <<>>
  /\ Clear
  /\ pc' = IF alive THEN "retry" ELSE "gone"
  /\ UNCHANGED <<m_list, m_timer, obuf, toSrv, toCli, alive, done, old, spent>>

HeadIsOld == m_list # <<>> /\ Head(m_list) <= old

\* __retry_timeout finds the head too old: its callback gets "timeout".
Expire ==
  /\ pc = "retry" /\ HeadIsOld /\ ~spent
  /\ CallHead("timeout", NoAnswer, "timeout")
  /\ UNCHANGED <<m_list, m_state, m_context, m_events, m_timer, conn, obuf, toSrv, toCli, alive, old, spent>>

\* The head has no callback any more: it is erased.
ExpireSpent ==
  /\ pc = "retry" /\ HeadIsOld /\ spent
  /\ m_list' = Tail(m_list) /\ spent' = FALSE
  /\ UNCHANGED <<m_state, m_context, m_events, m_timer, conn, obuf, toSrv, toCli, pc, alive,
                 done, old>>

\* Faulty: __retry_timeout forgets to erase.
ExpireReturnsKeeps ==
  /\ pc = "timeout"
  /\ pc' = "retry"
  /\ UNCHANGED <<m_list, m_state, m_context, m_events, m_timer, conn, obuf, toSrv, toCli, alive,
                 done, old, spent>>

\* The callback returns and the query is erased.
ExpireReturns ==
  /\ pc = "timeout"
  /\ m_list' = Tail(m_list) /\ pc' = "retry"
  /\ UNCHANGED <<m_state, m_context, m_events, m_timer, conn, obuf, toSrv, toCli, alive, done, old, spent>>

\* __retry_timeout finds no more: __retry arms the timer.
Rearm ==
  /\ pc = "retry" /\ ~HeadIsOld
  /\ pc' = "idle"
  /\ \/ m_timer' = TRUE /\ UNCHANGED conn
     \/ "timer" \in Faults /\ m_timer' = FALSE /\ conn' = "stranded"
  /\ UNCHANGED <<m_list, m_state, m_context, m_events, obuf, toSrv, toCli, alive, done, old, spent>>

\* The retry timer: __init connects again; the destructor did not stop it.
TimerFires ==
  /\ m_timer /\ pc \in {"idle", "gone"}
  /\ m_timer' = FALSE
  /\ IF alive THEN Connect /\ UNCHANGED pc
     ELSE pc' = "undefined" /\ UNCHANGED <<m_context, m_state, m_events, conn>>
  /\ UNCHANGED <<m_list, obuf, toSrv, toCli, alive, done, old, spent>>

\* ~rediscli, from outside the client's callbacks: only the query at hiredis
\* is told.
Destroy ==
  /\ pc = "idle" /\ alive
  /\ alive' = FALSE
  /\ IF m_context
       THEN Clear /\ pc' = "freeing" /\ obuf' = Wire /\ toSrv' = <<>> /\ toCli' = <<>>
       ELSE pc' = "gone" /\ UNCHANGED <<m_state, m_context, m_events, conn, obuf, toSrv, toCli>>
  /\ UNCHANGED <<m_list, m_timer, done, old, spent>>

-----------------------------------------------------------------------------
(* The world outside *)

\* The server replies to the next command.
ServerReplies ==
  /\ toSrv # <<>>
  /\ toSrv' = Tail(toSrv) /\ toCli' = Append(toCli, Head(toSrv))
  /\ UNCHANGED <<m_list, m_state, m_context, m_events, m_timer, conn, obuf, pc, alive, done, old, spent>>

\* Time passes: the queries made first become too old.
Age ==
  /\ pc = "idle"
  /\ old' \in (old + 1) .. Made
  /\ UNCHANGED <<m_list, m_state, m_context, m_events, m_timer, conn, obuf, toSrv, toCli, pc,
                 alive, done, spent>>

-----------------------------------------------------------------------------
Next ==
  \/ Query \/ Written \/ Reply \/ Returns \/ Throws
  \/ ConnectOk \/ ConnectSpent \/ ConnectFails \/ Lost \/ Dropped
  \/ Disconnected \/ Expire \/ ExpireSpent \/ ExpireReturns \/ Rearm
  \/ TimerFires \/ Destroy \/ ServerReplies \/ Age

Spec == Init /\ [][Next]_vars

\* The loop runs, callbacks return or throw, connects come to an end, the server
\* replies and time passes.
Fairness ==
  /\ WF_vars(Written) /\ WF_vars(Reply) /\ WF_vars(Returns)
  /\ WF_vars(ConnectOk \/ ConnectSpent \/ ConnectFails) /\ WF_vars(Dropped) /\ WF_vars(Disconnected)
  /\ WF_vars(Expire) /\ WF_vars(ExpireSpent) /\ WF_vars(ExpireReturns) /\ WF_vars(Rearm)
  /\ WF_vars(TimerFires) /\ WF_vars(ServerReplies) /\ SF_vars(Age)

FairSpec == Spec /\ Fairness

-----------------------------------------------------------------------------
(* Properties *)

\* rediscli keeps the promise of module QueryQueue: whatever the callbacks
\* do, throwing included, each query's callback is called at most once, in the
\* order of the queries, and a reply goes to the query it answers, although
\* the head is popped only after its callback has run, on a list the callback
\* may change.
Queue == INSTANCE QueryQueue WITH
  pending <- IF Begun THEN Tail(m_list) ELSE m_list,
  done <- [i \in DOMAIN done |->
             [done[i] EXCEPT !.how = IF @ \in Results THEN "ok" ELSE @]]

ImplementsQueryQueue == Queue!Spec

\* At most one command is with hiredis or on the wire, and it is the head of
\* m_list: __oncallback, which only looks at the head, resolves the query
\* that the reply is for, and no query is sent a second time while the first
\* may still be answered.
WireServesHead ==
  /\ Len(Wire) <= 1
  /\ Wire # <<>> /\ pc \notin Callbacks => m_list # <<>> /\ Wire[1] = Head(m_list)
  /\ pc \in Callbacks => Wire = <<>>

\* While the client is connected and the loop waits, the oldest query is
\* being served, unless its callback threw and it blocks those behind it, and
\* the event mask asks for the event it needs next: the mask that __onconnect
\* overwrites, and the one that hiredis edits through __addwrite and
\* __delwrite, never loses a pending write or read.
HeadIsServed ==
  pc = "idle" /\ m_state = "connected" /\ m_list # <<>> /\ ~spent =>
    /\ Wire # <<>>
    /\ (IF obuf # <<>> THEN "out" ELSE "in") \in m_events

\* A lost connection fails the query that was being served and no other: the
\* __onquery after its callback finds no context, so those that wait are kept
\* for the next connection.
LossFailsOne == [][pc = "closed" /\ pc' # "closed" => obuf' = <<>>]_vars

\* A client at rest has one and only one of: a connection or a connect in
\* progress, an armed retry timer, or one of the faults it never recovers
\* from, of which a callback that throws on a loss or a timeout is one.  In
\* particular the assert of __retry and those of __init hold.
OneWayBack ==
  pc = "idle" =>
    /\ m_timer <=> conn = "none"
    /\ conn \in {"connecting", "up"} => m_context
    /\ conn = "none" => ~m_context

\* Between two events the client is serving its oldest query or on its one way
\* back to doing so, or it is stopped by one of its faults.
ServedOrComingBack == TypeOK /\ HeadIsServed /\ OneWayBack

\* A query is resolved in the end, unless the client is destroyed, one of the
\* faults strands it, or it waits behind one whose callback threw.
QueryResolved ==
  \A q \in Queries :
    (\E i \in DOMAIN m_list : m_list[i] = q)
      ~> conn = "stranded" \/ ~alive \/ spent \/ \E i \in DOMAIN done : done[i].query = q
=============================================================================
