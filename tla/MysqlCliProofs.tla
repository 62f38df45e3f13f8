---------------------------- MODULE MysqlCliProofs ----------------------------
(* Proofs about module MysqlCli, for any number of queries and rows and all *)
(* faults.                                                                  *)
EXTENDS MysqlCli, SequenceTheorems, TLAPS

-----------------------------------------------------------------------------
(* Types *)

\* With the number of queries, and that results and callbacks are those of a
\* head that stays in the list.
CallInv == pc \in Callbacks \cup {"store"} => m_list # <<>>

TypeInv == TypeOK /\ Made <= MaxQueries /\ CallInv

\* The call to the library starts query q, or carries the one at work on.
StartsOrCarriesOn(q) ==
  /\ asked' = (IF op = "query" THEN asked ELSE q)
  /\ started' = (IF op = "query" THEN started ELSE q)
  /\ again' = (again \/ (op # "query" /\ started = q))

LEMMA AskTypes ==
  ASSUME TypeOK, NEW q \in Queries, NEW o \in Outcomes, Ask(q, o)
  PROVE  /\ op' \in {"unset", "query", "result"} /\ (op' = "query" <=> o = "not_ready")
         /\ asked' \in {None} \cup Queries /\ started' \in {None} \cup Queries
         /\ again' \in BOOLEAN /\ lib' \in {"none", "connecting", "up"}
         /\ o # "lost" => lib' = lib
         /\ StartsOrCarriesOn(q)
<1>1. o \in {"not_ready", "complete", "error", "lost", "shutdown"}
  BY DEF Outcomes
<1>2. op' \in {"unset", "query", "result"} /\ (op' = "query" <=> o = "not_ready")
  BY <1>1 DEF Ask
<1>3. StartsOrCarriesOn(q) /\ lib' = (IF o = "lost" THEN "none" ELSE lib)
  BY DEF Ask, StartsOrCarriesOn
<1> QED
  BY <1>2, <1>3 DEF TypeOK, StartsOrCarriesOn

LEMMA IgnoreTypes ==
  ASSUME TypeOK, NEW q \in Queries, AskAndIgnore(q)
  PROVE  /\ op' \in {"unset", "query", "result"}
         /\ asked' \in {None} \cup Queries /\ started' \in {None} \cup Queries
         /\ again' \in BOOLEAN /\ lib' \in {"none", "connecting", "up"}
         /\ missed' \in BOOLEAN /\ (missed => missed')
         /\ ~missed' => op' = "query" /\ lib' = lib
         /\ StartsOrCarriesOn(q)
<1>1. PICK o \in Outcomes : Ask(q, o) /\ missed' = (missed \/ o # "not_ready")
  BY DEF AskAndIgnore
<1>2. missed \in BOOLEAN
  BY DEF TypeOK
<1> QED
  BY <1>1, <1>2, AskTypes

LEMMA InitTypes == Init => TypeInv
<1> SUFFICES ASSUME Init
             PROVE  TypeInv
  OBVIOUS
<1>1. /\ m_list = <<>> /\ m_state = "connecting" /\ m_timer = FALSE /\ srv = TRUE
      /\ op = "unset" /\ asked = None /\ started = None /\ again = FALSE
      /\ rows = 0 /\ checked = TRUE /\ done = <<>> /\ old = 0 /\ missed = FALSE
  BY DEF Init
<1>2. /\ m_fd \in {"none", "connect_ex", "client_ex"} /\ lib \in {"none", "connecting", "up"}
      /\ pc \in {"idle", "retry"}
  BY DEF Init
<1>3. \A S : <<>> \in Seq(S)
  OBVIOUS
<1>4. old \in 0 .. MaxQueries /\ rows \in 0 .. MaxRows
  BY <1>1, MysqlCliAssumption
<1>5. Made <= MaxQueries /\ CallInv
  BY <1>1, <1>2, MysqlCliAssumption DEF Made, CallInv, Callbacks
<1> QED
  BY <1>1, <1>2, <1>3, <1>4, <1>5, Zenon DEF TypeInv, TypeOK

LEMMA Lengths ==
  ASSUME TypeInv
  PROVE  /\ m_list \in Seq(Queries) /\ done \in Seq(Resolutions)
         /\ Len(m_list) \in Nat /\ Len(done) \in Nat
         /\ Made = Len(m_list) + Len(done) /\ Made \in Nat
         /\ m_list # <<>> => Head(m_list) \in Queries /\ Len(m_list) > 0
BY DEF TypeInv, TypeOK, Made

\* What a step may do to the list and the history: a query is added, the head
\* is resolved, or neither changes.
Adds ==
  Made < MaxQueries /\ m_list' = Append(m_list, Made + 1) /\ UNCHANGED done

Resolves(how, answer) == m_list # <<>> /\ Pop(how, answer)

Keeps == UNCHANGED <<m_list, done>>

\* How a step resolves the head.
Resolved ==
  \/ pc = "store" /\ Resolves("ok", asked)
  \/ \E how \in {"error", "timeout"} : Resolves(how, None)

LEMMA StepMoves ==
  ASSUME TypeInv, [Next]_vars
  PROVE  Adds \/ Resolved \/ Keeps
<1>1. CASE Query
  BY <1>1 DEF Query, Adds
<1>2. CASE Stored \/ ErrorReturns \/ ExpireReturns
  <2>1. m_list # <<>>
    BY <1>2 DEF TypeInv, CallInv, Stored, ErrorReturns, ExpireReturns, Callbacks
  <2> QED
    BY <1>2, <2>1 DEF Stored, ErrorReturns, ExpireReturns, Resolved, Resolves
<1>3. CASE Recv \/ Row \/ RowReturns \/ NextQuery \/ Throws \/ FirstQuery
  BY <1>3 DEF Recv, Row, RowReturns, NextQuery, Throws, FirstQuery, Keeps
<1>4. CASE OnConnect \/ OnClose \/ Handshake \/ Expire \/ Rearm \/ OnTimer
  BY <1>4 DEF OnConnect, OnClose, Handshake, Expire, Rearm, OnTimer, Keeps
<1>5. CASE Destroy \/ ServerCloses \/ Age \/ UNCHANGED vars
  BY <1>5 DEF Destroy, ServerCloses, Age, vars, Keeps
<1> QED
  BY <1>1, <1>2, <1>3, <1>4, <1>5 DEF Next

LEMMA AddTypes ==
  ASSUME TypeInv, Adds
  PROVE  /\ m_list' \in Seq(Queries) /\ done' \in Seq(Resolutions) /\ Made' = Made + 1
         /\ Made' <= MaxQueries /\ m_list' # <<>> /\ Made + 1 \in Queries
         /\ Len(m_list') = Len(m_list) + 1 /\ m_list'[Len(m_list) + 1] = Made + 1
         /\ \A i \in 1 .. Len(m_list) : m_list'[i] = m_list[i]
         /\ Head(m_list') = IF m_list = <<>> THEN Made + 1 ELSE Head(m_list)
<1>1. Made \in Nat /\ Made < MaxQueries /\ m_list' = Append(m_list, Made + 1) /\ done' = done
  BY Lengths DEF Adds
<1>2. Made + 1 \in Queries
  BY <1>1, MysqlCliAssumption DEF Queries
<1>3. m_list \in Seq(Queries) /\ Len(m_list) \in Nat /\ Len(done) \in Nat /\ done \in Seq(Resolutions)
  BY Lengths
<1>4. /\ m_list' \in Seq(Queries) /\ Len(m_list') = Len(m_list) + 1
      /\ m_list'[Len(m_list) + 1] = Made + 1
      /\ \A i \in 1 .. Len(m_list) : m_list'[i] = m_list[i]
  BY <1>1, <1>2, <1>3
<1>5. m_list' # <<>> /\ Head(m_list') = IF m_list = <<>> THEN Made + 1 ELSE Head(m_list)
  BY <1>1, <1>2, <1>3
<1>6. Made' = Made + 1
  BY <1>1, <1>3, <1>4 DEF Made
<1> QED
  BY <1>1, <1>2, <1>3, <1>4, <1>5, <1>6, MysqlCliAssumption

LEMMA ResolveTypes ==
  ASSUME TypeInv, NEW how \in {"ok", "error", "timeout"}, NEW answer \in {None} \cup Queries,
         Resolves(how, answer)
  PROVE  /\ m_list' \in Seq(Queries) /\ done' \in Seq(Resolutions) /\ Made' = Made
         /\ Len(m_list') = Len(m_list) - 1 /\ Len(done') = Len(done) + 1
         /\ \A i \in 1 .. Len(m_list) - 1 : m_list'[i] = m_list[i + 1]
<1> DEFINE r == [query |-> Head(m_list), how |-> how, answer |-> answer]
<1>1. m_list # <<>> /\ m_list' = Tail(m_list) /\ done' = Append(done, r)
  BY DEF Resolves, Pop
<1>2. r \in Resolutions
  BY <1>1, Lengths DEF Resolutions
<1>3. /\ m_list \in Seq(Queries) /\ Len(m_list) \in Nat /\ Len(m_list) > 0
      /\ Len(done) \in Nat /\ done \in Seq(Resolutions)
  BY <1>1, Lengths
<1> HIDE DEF r
<1>4. done' \in Seq(Resolutions) /\ Len(done') = Len(done) + 1
  BY <1>1, <1>2, <1>3
<1>5. /\ m_list' \in Seq(Queries) /\ Len(m_list') = Len(m_list) - 1
      /\ \A i \in 1 .. Len(m_list) - 1 : m_list'[i] = m_list[i + 1]
  BY <1>1, <1>3
<1>6. Made' = Made
  BY <1>3, <1>4, <1>5 DEF Made
<1> QED
  BY <1>4, <1>5, <1>6

\* The list and the history are what they should be after every step.
LEMMA QueueTypes ==
  ASSUME TypeInv, [Next]_vars
  PROVE  /\ m_list' \in Seq(Queries) /\ done' \in Seq(Resolutions) /\ Made' <= MaxQueries
         /\ Adds \/ Keeps => (m_list # <<>> => m_list' # <<>> /\ Head(m_list') = Head(m_list))
<1>1. CASE Adds
  BY <1>1, AddTypes
<1>2. CASE Keeps
  BY <1>2 DEF Keeps, TypeInv, TypeOK, Made
<1>3. CASE Resolved
  <2>1. asked \in {None} \cup Queries
    BY DEF TypeInv, TypeOK
  <2>2. PICK how \in {"ok", "error", "timeout"}, answer \in {None} \cup Queries : Resolves(how, answer)
    BY <1>3, <2>1 DEF Resolved
  <2>3. ~(Adds \/ Keeps)
    <3>1. Len(done') = Len(done) + 1 /\ Len(done) \in Nat
      BY <2>2, Lengths, ResolveTypes
    <3> QED
      BY <3>1 DEF Adds, Keeps
  <2>4. Made' = Made
    BY <2>2, ResolveTypes
  <2> QED
    BY <2>2, <2>3, <2>4, ResolveTypes DEF TypeInv
<1> QED
  BY <1>1, <1>2, <1>3, StepMoves

\* The rest of the state.
RestOK ==
  /\ m_state \in {"closed", "connecting", "connected"}
  /\ m_fd \in {"none", "connect_ex", "client_ex"}
  /\ m_timer \in BOOLEAN /\ srv \in BOOLEAN /\ missed \in BOOLEAN /\ again \in BOOLEAN
  /\ checked \in BOOLEAN
  /\ lib \in {"none", "connecting", "up"}
  /\ op \in {"unset", "query", "result"}
  /\ asked \in {None} \cup Queries /\ started \in {None} \cup Queries
  /\ rows \in 0 .. MaxRows
  /\ pc \in Callbacks \cup {"idle", "first", "store", "next", "retry", "gone"}
  /\ old \in 0 .. MaxQueries

LEMMA RestSplit == TypeOK <=> (m_list \in Seq(Queries) /\ done \in Seq(Resolutions) /\ RestOK)
BY DEF TypeOK, RestOK

\* What __onrecv does about the answer.
LEMMA RecvDoes ==
  ASSUME TypeInv, RestOK, Recv
  PROVE  /\ pc = "idle" /\ m_state = "connected" /\ lib = "up" /\ m_list # <<>>
         /\ UNCHANGED <<m_list, m_timer, done, old, missed, srv>>
         /\ op' \in {"unset", "result"} /\ asked' \in {None} \cup Queries
         /\ started' \in {None} \cup Queries /\ again' \in BOOLEAN
         /\ lib' \in {"none", "connecting", "up"} /\ rows' \in 0 .. MaxRows /\ checked' \in BOOLEAN
         /\ StartsOrCarriesOn(Head(m_list))
         /\ \/ pc' \in {"store", "error"} /\ UNCHANGED <<m_state, m_fd, lib>>
            \/ pc' = "retry" /\ m_state' = "closed" /\ m_fd' = "none"
<1>1. PICK o \in Outcomes \ {"not_ready"} :
        /\ Ask(Head(m_list), o)
        /\ CASE o = "complete" -> Store(TRUE) /\ UNCHANGED <<m_state, m_fd, srv>>
             [] o = "error" -> pc' = "error" /\ UNCHANGED <<m_state, m_fd, srv, fetching>>
             [] o \in NetworkErrors -> Clear /\ pc' = "retry" /\ UNCHANGED fetching
  BY DEF Recv
<1>2. /\ pc = "idle" /\ m_state = "connected" /\ lib = "up" /\ m_list # <<>>
      /\ UNCHANGED <<m_list, m_timer, done, old, missed>>
  BY DEF Recv
<1>3. o \in {"complete", "error", "lost", "shutdown"} /\ Head(m_list) \in Queries
  BY <1>1, <1>2, Lengths DEF Outcomes
<1>4. /\ op' \in {"unset", "result"} /\ asked' \in {None} \cup Queries
      /\ started' \in {None} \cup Queries /\ again' \in BOOLEAN
      /\ lib' \in {"none", "connecting", "up"} /\ (o # "lost" => lib' = lib)
      /\ StartsOrCarriesOn(Head(m_list))
  BY <1>1, <1>3, AskTypes DEF TypeInv
<1>5. o = "complete" => pc' = "store" /\ rows' \in 0 .. MaxRows /\ checked' \in BOOLEAN /\ UNCHANGED <<m_state, m_fd, srv>>
  BY <1>1 DEF Store, NetworkErrors
<1>6. o = "error" => pc' = "error" /\ UNCHANGED <<m_state, m_fd, srv, fetching>>
  BY <1>1 DEF NetworkErrors
<1>7. o \in {"lost", "shutdown"} =>
        pc' = "retry" /\ m_state' = "closed" /\ m_fd' = "none" /\ UNCHANGED <<srv, fetching>>
  BY <1>1 DEF Clear, NetworkErrors
<1>8. rows \in 0 .. MaxRows /\ checked \in BOOLEAN
  BY DEF RestOK
<1> QED
  BY <1>2, <1>3, <1>4, <1>5, <1>6, <1>7, <1>8 DEF fetching

\* What __onrecv does about the answer when it starts the next query.
LEMMA NextQueryDoes ==
  ASSUME TypeInv, RestOK, NextQuery, m_list # <<>>
  PROVE  /\ pc = "next" /\ UNCHANGED <<m_list, m_timer, done, old, srv>>
         /\ op' \in {"unset", "query", "result"} /\ asked' \in {None} \cup Queries
         /\ started' \in {None} \cup Queries /\ again' \in BOOLEAN
         /\ lib' \in {"none", "connecting", "up"} /\ rows' \in 0 .. MaxRows /\ checked' \in BOOLEAN
         /\ missed' \in BOOLEAN /\ (missed => missed')
         /\ StartsOrCarriesOn(Head(m_list))
         /\ \/ pc' = "store" /\ op' # "query" /\ lib = "up" /\ UNCHANGED <<m_state, m_fd, lib>>
            \/ pc' = "idle" /\ (op' = "query" \/ missed') /\ lib = "up" /\ UNCHANGED <<m_state, m_fd, lib>>
            \/ pc' = "retry" /\ op' # "query" /\ m_state' = "closed" /\ m_fd' = "none"
<1>1. PICK o \in Outcomes :
        /\ Ask(Head(m_list), o)
        /\ missed' = (missed \/ o = "error")
        /\ CASE o = "complete" -> Store(FALSE) /\ UNCHANGED <<m_state, m_fd, srv>>
             [] o \in NetworkErrors -> Clear /\ pc' = "retry" /\ UNCHANGED fetching
             [] OTHER -> pc' = "idle" /\ UNCHANGED <<m_state, m_fd, srv, fetching>>
  BY DEF NextQuery
<1>2. pc = "next" /\ UNCHANGED <<m_list, m_timer, done, old>>
  BY DEF NextQuery
<1>3. o \in {"not_ready", "complete", "error", "lost", "shutdown"} /\ Head(m_list) \in Queries
  BY <1>1, Lengths DEF Outcomes
<1>4. missed' \in BOOLEAN /\ (missed => missed') /\ (o = "error" => missed')
  BY <1>1 DEF RestOK
<1>5. /\ op' \in {"unset", "query", "result"} /\ (op' = "query" <=> o = "not_ready")
      /\ asked' \in {None} \cup Queries
      /\ started' \in {None} \cup Queries /\ again' \in BOOLEAN
      /\ lib' \in {"none", "connecting", "up"} /\ (o # "lost" => lib' = lib)
      /\ StartsOrCarriesOn(Head(m_list))
  BY <1>1, <1>3, AskTypes DEF TypeInv
<1>6. o = "complete" => pc' = "store" /\ rows' \in 0 .. MaxRows /\ checked' \in BOOLEAN /\ UNCHANGED <<m_state, m_fd, srv>>
  BY <1>1 DEF Store, NetworkErrors
<1>7. o \in {"not_ready", "error"} => pc' = "idle" /\ UNCHANGED <<m_state, m_fd, srv, fetching>>
  BY <1>1 DEF NetworkErrors
<1>8. o \in {"lost", "shutdown"} =>
        pc' = "retry" /\ m_state' = "closed" /\ m_fd' = "none" /\ UNCHANGED <<srv, fetching>>
  BY <1>1 DEF Clear, NetworkErrors
<1>9. rows \in 0 .. MaxRows /\ checked \in BOOLEAN
  BY DEF RestOK
<1>10. o = "lost" \/ lib = "up"
  BY <1>1 DEF Outcomes
<1> QED
  BY <1>2, <1>3, <1>4, <1>5, <1>6, <1>7, <1>8, <1>9, <1>10 DEF fetching

LEMMA RestStep == TypeInv /\ [Next]_vars => RestOK'
<1> SUFFICES ASSUME TypeInv, TypeOK, RestOK, [Next]_vars
             PROVE  RestOK'
  BY RestSplit DEF TypeInv
<1> USE DEF Callbacks
<1>1. CASE Query
  <2>1. UNCHANGED <<m_state, m_fd, m_timer, srv, rows, checked, pc, old>> /\ Adds
    BY <1>1 DEF Query, Adds, network, fetching
  <2>2. CASE m_list = <<>> /\ m_state = "connected"
    <3>1. AskAndIgnore(Made + 1) /\ Made + 1 \in Queries
      BY <1>1, <2>1, <2>2, AddTypes DEF Query
    <3> QED
      BY <2>1, <3>1, IgnoreTypes DEF RestOK
  <2>3. CASE ~(m_list = <<>> /\ m_state = "connected")
    BY <1>1, <2>1, <2>3 DEF Query, RestOK, network, asking, fetching
  <2> QED
    BY <2>2, <2>3
<1>2. CASE Recv
  BY <1>2, RecvDoes DEF RestOK
<1>3. CASE Row \/ RowReturns
  <2>1. rows' \in 0 .. MaxRows /\ checked' \in BOOLEAN /\ pc' \in {"row", "store"}
    BY <1>3, MysqlCliAssumption DEF Row, RowReturns, RestOK, fetching
  <2> QED
    BY <1>3, <2>1 DEF Row, RowReturns, RestOK, network, asking, fetching
<1>4. CASE Stored
  BY <1>4 DEF Stored, Clear, RestOK, network
<1>5. CASE ErrorReturns \/ Expire \/ ExpireReturns
  BY <1>5 DEF ErrorReturns, Expire, ExpireReturns, RestOK, network, asking, fetching
<1>6. CASE NextQuery
  <2>1. CASE m_list = <<>>
    BY <1>6, <2>1 DEF NextQuery, RestOK, network, asking, fetching
  <2>2. CASE m_list # <<>>
    BY <1>6, <2>2, NextQueryDoes DEF RestOK
  <2> QED
    BY <2>1, <2>2
<1>7. CASE Throws
  BY <1>7, MysqlCliAssumption DEF Throws, RestOK, network
<1>8. CASE OnConnect \/ OnClose
  BY <1>8 DEF OnConnect, OnClose, Clear, RestOK, asking, fetching
<1>9. CASE Handshake
  BY <1>9 DEF Handshake, Clear, RestOK, fetching
<1>10. CASE FirstQuery
  <2>1. UNCHANGED <<m_state, m_fd, srv, m_timer, rows, checked, old>> /\ pc' = "idle"
    BY <1>10 DEF FirstQuery, network, fetching
  <2>2. CASE m_list = <<>>
    BY <1>10, <2>1, <2>2 DEF FirstQuery, RestOK, network, asking, fetching
  <2>3. CASE m_list # <<>>
    <3>1. AskAndIgnore(Head(m_list)) /\ Head(m_list) \in Queries
      BY <1>10, <2>3, Lengths DEF FirstQuery
    <3> QED
      BY <2>1, <3>1, IgnoreTypes DEF RestOK
  <2> QED
    BY <2>2, <2>3
<1>11. CASE Rearm \/ OnTimer
  BY <1>11 DEF Rearm, OnTimer, Connect, RestOK, network, asking, fetching
<1>12. CASE Destroy \/ ServerCloses
  BY <1>12 DEF Destroy, ServerCloses, RestOK, network, asking, fetching
<1>13. CASE Age
  <2>1. old' \in 0 .. MaxQueries
    BY <1>13, Lengths, MysqlCliAssumption DEF Age, RestOK, TypeInv
  <2> QED
    BY <1>13, <2>1 DEF Age, RestOK, network, asking, fetching
<1>14. CASE UNCHANGED vars
  BY <1>14 DEF vars, RestOK, network, asking, fetching
<1> QED
  BY <1>1, <1>2, <1>3, <1>4, <1>5, <1>6, <1>7, <1>8, <1>9, <1>10, <1>11, <1>12, <1>13, <1>14 DEF Next

\* A result and its callbacks begin with a head, and end when it is popped.
LEMMA CallStep == TypeInv /\ [Next]_vars => CallInv'
<1> SUFFICES ASSUME TypeInv, [Next]_vars, pc' \in Callbacks \cup {"store"}
             PROVE  m_list' # <<>>
  BY DEF CallInv
<1>1. (m_list # <<>> /\ (Adds \/ Keeps)) \/ Query \/ Stored \/ ErrorReturns \/ ExpireReturns
  <2>1. CASE pc \in Callbacks \cup {"store"}
    <3>1. m_list # <<>>
      BY <2>1 DEF TypeInv, CallInv
    <3> QED
      BY <3>1 DEF Next, vars, Keeps, Recv, Row, RowReturns, NextQuery, Throws, OnConnect, OnClose,
                  Handshake, FirstQuery, Expire, Rearm, OnTimer, Destroy, ServerCloses, Age
  <2>2. CASE pc \notin Callbacks \cup {"store"}
    <3>1. Recv \/ NextQuery \/ Expire \/ Query \/ Stored \/ ErrorReturns \/ ExpireReturns
      BY <2>2 DEF Next, vars, Row, RowReturns, Throws, OnConnect, OnClose, Connect, asking,
                  Handshake, FirstQuery, Rearm, OnTimer, Destroy, ServerCloses, Age, Callbacks
    <3> QED
      BY <3>1 DEF Recv, NextQuery, Expire, HeadIsOld, Keeps, Callbacks
  <2> QED
    BY <2>1, <2>2
<1>2. CASE m_list # <<>> /\ (Adds \/ Keeps)
  BY <1>2, QueueTypes
<1>3. CASE Query
  BY <1>3, AddTypes DEF Query, Adds
<1>4. CASE Stored \/ ErrorReturns \/ ExpireReturns
  BY <1>4 DEF Stored, ErrorReturns, ExpireReturns, Callbacks
<1> QED
  BY <1>1, <1>2, <1>3, <1>4

LEMMA TypeStep == TypeInv /\ [Next]_vars => TypeInv'
<1> SUFFICES ASSUME TypeInv, [Next]_vars
             PROVE  TypeInv'
  OBVIOUS
<1>1. RestOK' /\ CallInv'
  BY RestStep, CallStep
<1>2. TypeOK'
  BY <1>1, QueueTypes DEF RestOK, TypeOK
<1> QED
  BY <1>1, <1>2, QueueTypes DEF TypeInv

-----------------------------------------------------------------------------
(* The inductive invariant *)

\* How the descriptor, the timer and the library go with the state, whatever
\* the loop is in the middle of and whatever was missed.
ConnInv ==
  /\ m_state = "connected" => m_fd = "client_ex"
  /\ m_timer => m_fd = "none"
  /\ pc \in {"retry", "timeout"} => m_fd = "none" /\ ~m_timer
  /\ pc \in {"first", "store", "row", "error"} => m_state = "connected" /\ lib = "up"
  /\ pc = "next" => m_state = "connected"
  /\ OneWayBack

\* What the library is at work on, or has the result of, is the head.
AskInv ==
  /\ op = "query" => /\ m_state = "connected" /\ pc \in {"idle", "gone"}
                     /\ m_list # <<>> /\ asked = Head(m_list)
  /\ pc \in {"store", "row"} => asked = Head(m_list)
  /\ HeadIsServed

\* The list holds the queries made last, in order, and a query that was started
\* is no later than the head.
NumInv ==
  /\ \A i \in 1 .. Len(m_list) : m_list[i] = Len(done) + i
  /\ started <= Len(done) + 1
  /\ m_list = <<>> => started <= Len(done)

\* The head was started on this connection only while it is at work or being
\* answered.
OnceInv ==
  ~missed =>
    /\ ~again
    /\ started = Len(done) + 1 =>
         op = "query" \/ m_state # "connected" \/ pc \in {"store", "row", "error", "gone"}

ServeInv == ConnInv /\ AskInv /\ NumInv /\ OnceInv

LEMMA InitServes == Init => ServeInv
<1> SUFFICES ASSUME Init
             PROVE  ServeInv
  OBVIOUS
<1>1. Len(<<>>) = 0
  OBVIOUS
<1>2. ConnInv /\ AskInv
  BY DEF Init, ConnInv, AskInv, OneWayBack, HeadIsServed
<1>3. NumInv /\ OnceInv
  BY <1>1 DEF Init, NumInv, OnceInv, None
<1> QED
  BY <1>2, <1>3 DEF ServeInv

LEMMA HeadNumber ==
  ASSUME TypeInv, NumInv, m_list # <<>>
  PROVE  Head(m_list) = Len(done) + 1
BY Lengths DEF NumInv

LEMMA ConnStep == TypeInv /\ ServeInv /\ [Next]_vars => ConnInv'
<1> SUFFICES ASSUME TypeInv, RestOK, ConnInv, AskInv, [Next]_vars
             PROVE  ConnInv'
  BY RestSplit DEF TypeInv, ServeInv
<1> USE DEF ConnInv, OneWayBack
<1>1. CASE Query
  <2>1. UNCHANGED <<m_state, m_fd, m_timer, pc>> /\ pc \in {"idle"} \cup Callbacks /\ Adds
    BY <1>1 DEF Query, Adds, network
  <2>2. CASE m_list = <<>> /\ m_state = "connected"
    <3>1. AskAndIgnore(Made + 1) /\ Made + 1 \in Queries
      BY <1>1, <2>1, <2>2, AddTypes DEF Query
    <3>2. pc = "idle"
      BY <2>1, <2>2 DEF TypeInv, CallInv
    <3>3. (missed => missed') /\ (~missed' => lib' = lib)
      BY <3>1, IgnoreTypes DEF TypeInv
    <3> QED
      BY <2>1, <3>2, <3>3
  <2>3. CASE ~(m_list = <<>> /\ m_state = "connected")
    BY <1>1, <2>1, <2>3 DEF Query, network, asking
  <2> QED
    BY <2>2, <2>3
<1>2. CASE Recv
  BY <1>2, RecvDoes
<1>3. CASE Row \/ RowReturns
  BY <1>3 DEF Row, RowReturns, network
<1>4. CASE Stored
  BY <1>4 DEF Stored, Clear, network
<1>5. CASE ErrorReturns \/ Expire \/ ExpireReturns
  BY <1>5 DEF ErrorReturns, Expire, ExpireReturns, network
<1>6. CASE NextQuery
  <2>1. CASE m_list = <<>>
    BY <1>6, <2>1 DEF NextQuery, network
  <2>2. CASE m_list # <<>>
    BY <1>6, <2>2, NextQueryDoes
  <2> QED
    BY <2>1, <2>2
<1>7. CASE Throws
  BY <1>7 DEF Throws, Callbacks, network
<1>8. CASE OnConnect \/ OnClose
  BY <1>8 DEF OnConnect, OnClose, Clear
<1>9. CASE Handshake
  BY <1>9 DEF Handshake, Clear
<1>10. CASE FirstQuery
  <2>1. UNCHANGED <<m_state, m_fd, m_timer>> /\ pc = "first" /\ pc' = "idle"
    BY <1>10 DEF FirstQuery, network
  <2>2. CASE m_list = <<>>
    BY <1>10, <2>1, <2>2 DEF FirstQuery, network
  <2>3. CASE m_list # <<>>
    <3>1. AskAndIgnore(Head(m_list)) /\ Head(m_list) \in Queries
      BY <1>10, <2>3, Lengths DEF FirstQuery
    <3>2. ~missed' => lib' = lib
      BY <3>1, IgnoreTypes DEF TypeInv
    <3> QED
      BY <2>1, <3>2
  <2> QED
    BY <2>2, <2>3
<1>11. CASE Rearm
  BY <1>11 DEF Rearm, network
<1>12. CASE OnTimer
  BY <1>12 DEF OnTimer, Connect
<1>13. CASE Destroy \/ ServerCloses \/ Age \/ UNCHANGED vars
  BY <1>13 DEF Destroy, ServerCloses, Age, vars, network
<1> QED
  BY <1>1, <1>2, <1>3, <1>4, <1>5, <1>6, <1>7, <1>8, <1>9, <1>10, <1>11, <1>12, <1>13 DEF Next

\* The head that is asked for, or is added to an empty list, is at work.
LEMMA AskStep == TypeInv /\ ServeInv /\ [Next]_vars => AskInv'
<1> SUFFICES ASSUME TypeInv, RestOK, ConnInv, AskInv, [Next]_vars
             PROVE  AskInv'
  BY RestSplit DEF TypeInv, ServeInv
<1> USE DEF AskInv, HeadIsServed
<1>0. ASSUME Adds \/ Keeps, m_list # <<>>
      PROVE  m_list' # <<>> /\ Head(m_list') = Head(m_list)
  BY <1>0, QueueTypes
<1>1. CASE Query
  <2>1. UNCHANGED <<m_state, m_fd, pc>> /\ pc \in {"idle"} \cup Callbacks /\ Adds
    BY <1>1 DEF Query, Adds, network
  <2>2. CASE m_list = <<>> /\ m_state = "connected"
    <3>1. AskAndIgnore(Made + 1) /\ Made + 1 \in Queries /\ Head(m_list') = Made + 1 /\ m_list' # <<>>
      BY <1>1, <2>1, <2>2, AddTypes DEF Query
    <3>2. pc = "idle" /\ op # "query"
      BY <2>1, <2>2 DEF TypeInv, CallInv
    <3>3. (~missed' => op' = "query") /\ asked' = Made + 1
      BY <3>1, <3>2, IgnoreTypes DEF TypeInv, StartsOrCarriesOn
    <3> QED
      BY <2>1, <2>2, <3>1, <3>2, <3>3
  <2>3. CASE m_list # <<>>
    <3>1. UNCHANGED <<op, asked, missed>>
      BY <1>1, <2>3 DEF Query, asking
    <3> QED
      BY <1>0, <2>1, <2>3, <3>1
  <2>4. CASE m_list = <<>> /\ m_state # "connected"
    <3>1. UNCHANGED <<op, asked, missed>> /\ pc = "idle"
      BY <1>1, <2>1, <2>4 DEF Query, asking, TypeInv, CallInv
    <3> QED
      BY <2>1, <2>4, <3>1
  <2> QED
    BY <2>2, <2>3, <2>4
<1>2. CASE Recv
  <2>1. asked' = Head(m_list)
    BY <1>2, RecvDoes DEF StartsOrCarriesOn
  <2> QED
    BY <1>2, <2>1, RecvDoes
<1>3. CASE Row \/ RowReturns
  BY <1>3 DEF Row, RowReturns, network, asking
<1>4. CASE Stored
  BY <1>4 DEF Stored
<1>5. CASE ErrorReturns \/ Expire \/ ExpireReturns
  BY <1>5 DEF ErrorReturns, Expire, ExpireReturns, network, asking
<1>6. CASE NextQuery
  <2>1. CASE m_list = <<>>
    BY <1>6, <2>1 DEF NextQuery, network, asking
  <2>2. CASE m_list # <<>>
    <3>1. asked' = Head(m_list) /\ m_state = "connected"
      BY <1>6, <2>2, NextQueryDoes DEF StartsOrCarriesOn, ConnInv
    <3> QED
      BY <1>6, <2>2, <3>1, NextQueryDoes
  <2> QED
    BY <2>1, <2>2
<1>7. CASE Throws
  BY <1>7 DEF Throws, Callbacks, network
<1>8. CASE OnConnect
  <2>1. m_state # "connected" /\ op # "query"
    BY <1>8 DEF OnConnect, ConnInv
  <2> QED
    BY <1>8, <2>1 DEF OnConnect
<1>9. CASE OnClose
  <2>1. op # "query"
    BY <1>9 DEF OnClose, ConnInv
  <2> QED
    BY <1>9, <2>1 DEF OnClose, asking
<1>10. CASE Handshake
  <2>1. op # "query" /\ m_state # "connected"
    BY <1>10 DEF Handshake
  <2> QED
    BY <1>10, <2>1 DEF Handshake, Clear
<1>11. CASE FirstQuery
  <2>1. UNCHANGED <<m_state, m_list>> /\ pc = "first" /\ pc' = "idle" /\ op # "query" /\ m_state = "connected"
    BY <1>11 DEF FirstQuery, network, ConnInv
  <2>2. CASE m_list = <<>>
    BY <1>11, <2>1, <2>2 DEF FirstQuery, asking
  <2>3. CASE m_list # <<>>
    <3>1. AskAndIgnore(Head(m_list)) /\ Head(m_list) \in Queries
      BY <1>11, <2>3, Lengths DEF FirstQuery
    <3>2. (~missed' => op' = "query") /\ asked' = Head(m_list)
      BY <2>1, <3>1, IgnoreTypes DEF TypeInv, StartsOrCarriesOn
    <3> QED
      BY <2>1, <2>3, <3>2
  <2> QED
    BY <2>2, <2>3
<1>12. CASE Rearm
  BY <1>12 DEF Rearm, network, asking, ConnInv
<1>13. CASE OnTimer
  <2>1. op # "query"
    BY <1>13 DEF OnTimer, ConnInv
  <2> QED
    BY <1>13, <2>1 DEF OnTimer, Connect, asking
<1>14. CASE Destroy \/ ServerCloses \/ Age \/ UNCHANGED vars
  BY <1>14 DEF Destroy, ServerCloses, Age, vars, network, asking
<1> QED
  BY <1>1, <1>2, <1>3, <1>4, <1>5, <1>6, <1>7, <1>8, <1>9, <1>10, <1>11, <1>12, <1>13, <1>14 DEF Next

\* A step asks for nothing, or for the head, or the connection is a new one.
LEMMA AskedQuery ==
  ASSUME TypeInv, RestOK, ConnInv, [Next]_vars
  PROVE  \/ UNCHANGED <<started, again>>
         \/ started' = None /\ again' = again /\ m_state # "connected" /\ Keeps
         \/ m_list' # <<>> /\ StartsOrCarriesOn(Head(m_list')) /\ (Keeps \/ (m_list = <<>> /\ Adds))
<1>1. CASE Query
  <2>1. CASE m_list = <<>> /\ m_state = "connected"
    <3>1. AskAndIgnore(Made + 1) /\ Adds
      BY <1>1, <2>1 DEF Query, Adds
    <3>2. Made + 1 \in Queries /\ Head(m_list') = Made + 1 /\ m_list' # <<>>
      BY <2>1, <3>1, AddTypes
    <3>3. StartsOrCarriesOn(Made + 1)
      BY <3>1, <3>2, IgnoreTypes DEF TypeInv
    <3> QED
      BY <2>1, <3>1, <3>2, <3>3
  <2>2. CASE ~(m_list = <<>> /\ m_state = "connected")
    BY <1>1, <2>2 DEF Query, asking
  <2> QED
    BY <2>1, <2>2
<1>2. CASE Recv
  BY <1>2, RecvDoes DEF Keeps
<1>3. CASE NextQuery
  <2>1. CASE m_list = <<>>
    BY <1>3, <2>1 DEF NextQuery, asking
  <2>2. CASE m_list # <<>>
    BY <1>3, <2>2, NextQueryDoes DEF Keeps
  <2> QED
    BY <2>1, <2>2
<1>4. CASE FirstQuery
  <2>1. CASE m_list = <<>>
    BY <1>4, <2>1 DEF FirstQuery, asking
  <2>2. CASE m_list # <<>>
    <3>1. AskAndIgnore(Head(m_list)) /\ Head(m_list) \in Queries /\ Keeps
      BY <1>4, <2>2, Lengths DEF FirstQuery, Keeps
    <3>2. StartsOrCarriesOn(Head(m_list)) /\ m_list' = m_list
      BY <3>1, IgnoreTypes DEF TypeInv, Keeps
    <3> QED
      BY <2>2, <3>1, <3>2
  <2> QED
    BY <2>1, <2>2
<1>5. CASE OnConnect \/ Handshake
  BY <1>5 DEF OnConnect, Handshake, ConnInv, Keeps
<1>6. CASE Row \/ RowReturns \/ Stored \/ ErrorReturns \/ Throws
  BY <1>6 DEF Row, RowReturns, Stored, ErrorReturns, Throws, asking
<1>7. CASE OnClose \/ Expire \/ ExpireReturns \/ Rearm \/ OnTimer
  BY <1>7 DEF OnClose, Expire, ExpireReturns, Rearm, OnTimer, asking
<1>8. CASE Destroy \/ ServerCloses \/ Age \/ UNCHANGED vars
  BY <1>8 DEF Destroy, ServerCloses, Age, vars, asking
<1> QED
  BY <1>1, <1>2, <1>3, <1>4, <1>5, <1>6, <1>7, <1>8 DEF Next

\* The numbers in the list after a step.
LEMMA NumberStep ==
  ASSUME TypeInv, [Next]_vars, \A i \in 1 .. Len(m_list) : m_list[i] = Len(done) + i
  PROVE  \A i \in 1 .. Len(m_list') : m_list'[i] = Len(done') + i
<1>1. CASE Adds
  <2>1. Made = Len(m_list) + Len(done) /\ done' = done /\ Len(m_list) \in Nat /\ Len(done) \in Nat
    BY <1>1, Lengths DEF Adds
  <2> QED
    BY <1>1, <2>1, AddTypes
<1>2. CASE Resolved
  <2>1. asked \in {None} \cup Queries
    BY DEF TypeInv, TypeOK
  <2>2. PICK how \in {"ok", "error", "timeout"}, answer \in {None} \cup Queries : Resolves(how, answer)
    BY <1>2, <2>1 DEF Resolved
  <2>3. /\ Len(m_list') = Len(m_list) - 1 /\ Len(done') = Len(done) + 1
        /\ \A i \in 1 .. Len(m_list) - 1 : m_list'[i] = m_list[i + 1]
    BY <2>2, ResolveTypes
  <2> QED
    BY <2>3, Lengths
<1>3. CASE Keeps
  BY <1>3 DEF Keeps
<1> QED
  BY <1>1, <1>2, <1>3, StepMoves

\* What was started is not after the head.
LEMMA NumStep == TypeInv /\ TypeInv' /\ ServeInv /\ [Next]_vars => NumInv'
<1> SUFFICES ASSUME TypeInv, TypeInv', RestOK, ConnInv, NumInv, [Next]_vars
             PROVE  started' <= Len(done') + 1 /\ (m_list' = <<>> => started' <= Len(done'))
  BY NumberStep, RestSplit DEF NumInv, TypeInv, ServeInv
<1>1. Len(done) \in Nat /\ started \in Nat /\ Len(done') \in Nat
  <2>1. done' \in Seq(Resolutions)
    BY QueueTypes
  <2> QED
    BY <2>1, Lengths DEF RestOK, None, Queries
<1>2. Len(done') = Len(done) \/ (Len(done') = Len(done) + 1 /\ Resolved)
  <2>1. asked \in {None} \cup Queries
    BY DEF RestOK
  <2> QED
    BY <2>1, StepMoves, ResolveTypes DEF Adds, Keeps, Resolved
<1>3. CASE UNCHANGED <<started, again>>
  <2>1. CASE Resolved
    <3>1. Len(done') = Len(done) + 1
      <4>1. asked \in {None} \cup Queries
        BY DEF RestOK
      <4> QED
        BY <2>1, <4>1, ResolveTypes DEF Resolved
    <3> QED
      BY <1>1, <1>3, <3>1 DEF NumInv
  <2>2. CASE Adds \/ Keeps
    <3>1. done' = done /\ (m_list' = <<>> => m_list = <<>>)
      BY <2>2, QueueTypes DEF Adds, Keeps
    <3> QED
      BY <1>3, <3>1 DEF NumInv
  <2> QED
    BY <2>1, <2>2, StepMoves
<1>4. CASE started' = None
  BY <1>1, <1>4 DEF None
<1>5. CASE /\ m_list' # <<>> /\ StartsOrCarriesOn(Head(m_list')) /\ (Keeps \/ (m_list = <<>> /\ Adds))
  <2>1. done' = done
    BY <1>5 DEF Keeps, Adds
  <2>2. Head(m_list') = Len(done') + 1
    BY <1>5, NumberStep, Lengths, QueueTypes DEF NumInv
  <2> QED
    BY <1>1, <1>5, <2>1, <2>2 DEF StartsOrCarriesOn, NumInv
<1> QED
  BY <1>3, <1>4, <1>5, AskedQuery

\* Nothing is started again: what is asked for is at work already, or was not
\* started on this connection.
LEMMA OnceStep == TypeInv /\ TypeInv' /\ ServeInv /\ [Next]_vars => OnceInv'
<1> SUFFICES ASSUME TypeInv, TypeInv', RestOK, ConnInv, AskInv, NumInv, OnceInv, [Next]_vars, ~missed'
             PROVE  /\ ~again'
                    /\ started' = Len(done') + 1 =>
                         op' = "query" \/ m_state' # "connected"
                           \/ pc' \in {"store", "row", "error", "gone"}
  BY RestSplit DEF OnceInv, TypeInv, ServeInv
<1> DEFINE Serving == op = "query" \/ m_state # "connected" \/ pc \in {"store", "row", "error", "gone"}
<1>1. Len(done) \in Nat /\ started \in Nat
  BY Lengths DEF RestOK, None, Queries
<1>2. started <= Len(done) + 1 /\ (m_list = <<>> => started <= Len(done))
  BY DEF NumInv
<1>3. ASSUME Resolved
      PROVE  Len(done') = Len(done) + 1
  <2>1. asked \in {None} \cup Queries
    BY DEF RestOK
  <2> QED
    BY <1>3, <2>1, ResolveTypes DEF Resolved
<1>4. ASSUME m_list # <<>>
      PROVE  Head(m_list) = Len(done) + 1
  BY <1>4, HeadNumber
<1>5. ASSUME ~missed
      PROVE  ~again /\ (started = Len(done) + 1 => Serving)
  BY <1>5 DEF OnceInv
<1> HIDE DEF Serving
<1>6. CASE Query
  <2>1. UNCHANGED <<m_state, pc>> /\ Adds /\ done' = done
    BY <1>6 DEF Query, Adds, network
  <2>2. CASE m_list = <<>> /\ m_state = "connected"
    <3>1. AskAndIgnore(Made + 1) /\ Made + 1 \in Queries
      BY <1>6, <2>1, <2>2, AddTypes DEF Query
    <3>2. op' = "query" /\ StartsOrCarriesOn(Made + 1) /\ ~missed
      BY <3>1, IgnoreTypes DEF TypeInv
    <3>3. op # "query"
      BY <2>2 DEF AskInv
    <3>4. Made = Len(done)
      <4>1. Len(m_list) = 0
        BY <2>2
      <4> QED
        BY <1>1, <4>1 DEF Made
    <3>5. started # Made + 1
      BY <1>1, <1>2, <2>2, <3>4
    <3> QED
      BY <1>5, <3>2, <3>5 DEF StartsOrCarriesOn
  <2>3. CASE ~(m_list = <<>> /\ m_state = "connected")
    <3>1. UNCHANGED <<op, started, again, missed>>
      BY <1>6, <2>3 DEF Query, asking
    <3> QED
      BY <1>5, <2>1, <3>1 DEF Serving
  <2> QED
    BY <2>2, <2>3
<1>7. CASE Recv
  <2>1. /\ pc = "idle" /\ m_state = "connected" /\ m_list # <<>> /\ missed' = missed /\ done' = done
        /\ StartsOrCarriesOn(Head(m_list)) /\ (pc' \in {"store", "error"} \/ m_state' = "closed")
    BY <1>7, RecvDoes
  <2>2. op # "query" => started # Head(m_list)
    BY <1>4, <1>5, <2>1 DEF Serving
  <2> QED
    BY <1>5, <2>1, <2>2 DEF StartsOrCarriesOn
<1>8. CASE Row \/ RowReturns
  BY <1>5, <1>8 DEF Row, RowReturns, asking, network, Serving
<1>9. CASE Stored \/ ErrorReturns \/ ExpireReturns
  <2>1. UNCHANGED <<started, again, missed>> /\ Len(done') = Len(done) + 1
    <3>1. Resolves("ok", asked) \/ (\E how \in {"error", "timeout"} : Resolves(how, None))
      <4>1. m_list # <<>>
        BY <1>9 DEF TypeInv, CallInv, Stored, ErrorReturns, ExpireReturns, Callbacks
      <4> QED
        BY <1>9, <4>1 DEF Stored, ErrorReturns, ExpireReturns, Resolves
    <3>2. asked \in {None} \cup Queries
      BY DEF RestOK
    <3>3. Len(done') = Len(done) + 1
      BY <3>1, <3>2, ResolveTypes
    <3> QED
      BY <1>9, <3>3 DEF Stored, ErrorReturns, ExpireReturns, asking
  <2> QED
    BY <1>1, <1>2, <1>5, <2>1
<1>10. CASE NextQuery
  <2>1. m_state = "connected" /\ pc = "next" /\ op # "query"
    BY <1>10 DEF NextQuery, ConnInv, AskInv
  <2>2. CASE m_list = <<>>
    <3>1. UNCHANGED <<started, again, done>> /\ ~missed
      BY <1>10, <2>2 DEF NextQuery, asking, RestOK
    <3> QED
      BY <1>1, <1>2, <1>5, <2>2, <3>1
  <2>3. CASE m_list # <<>>
    <3>1. /\ done' = done /\ ~missed /\ StartsOrCarriesOn(Head(m_list))
          /\ pc' = "store" \/ op' = "query" \/ m_state' = "closed"
      BY <1>10, <2>3, NextQueryDoes DEF RestOK
    <3>2. started # Head(m_list)
      BY <1>4, <1>5, <2>1, <2>3, <3>1 DEF Serving
    <3> QED
      BY <1>5, <2>1, <3>1, <3>2 DEF StartsOrCarriesOn
  <2> QED
    BY <2>2, <2>3
<1>11. CASE Throws
  BY <1>11 DEF Throws
<1>12. CASE OnConnect
  BY <1>5, <1>12 DEF OnConnect, ConnInv
<1>13. CASE OnClose
  BY <1>5, <1>13 DEF OnClose, Clear, asking
<1>14. CASE Handshake
  BY <1>1, <1>5, <1>14 DEF Handshake, Clear, None
<1>15. CASE FirstQuery
  <2>1. /\ pc = "first" /\ m_state = "connected" /\ m_state' = m_state /\ op # "query"
        /\ pc' = "idle" /\ done' = done
    BY <1>15 DEF FirstQuery, network, ConnInv, AskInv
  <2>2. CASE m_list = <<>>
    <3>1. UNCHANGED <<started, again, missed>>
      BY <1>15, <2>2 DEF FirstQuery, asking
    <3> QED
      BY <1>1, <1>2, <1>5, <2>1, <2>2, <3>1
  <2>3. CASE m_list # <<>>
    <3>1. AskAndIgnore(Head(m_list)) /\ Head(m_list) \in Queries
      BY <1>15, <2>3, Lengths DEF FirstQuery
    <3>2. op' = "query" /\ StartsOrCarriesOn(Head(m_list)) /\ ~missed
      BY <3>1, IgnoreTypes DEF TypeInv
    <3>3. started # Head(m_list)
      BY <1>4, <1>5, <2>1, <2>3, <3>2 DEF Serving
    <3> QED
      BY <1>5, <2>1, <3>2, <3>3 DEF StartsOrCarriesOn
  <2> QED
    BY <2>2, <2>3
<1>16. CASE Expire \/ Rearm \/ OnTimer
  <2>1. m_state # "connected" /\ m_state' # "connected"
    BY <1>16 DEF Expire, Rearm, OnTimer, Connect, network, ConnInv
  <2>2. UNCHANGED <<started, again>> /\ ~missed
    BY <1>16 DEF Expire, Rearm, OnTimer, Connect, asking, RestOK
  <2> QED
    BY <1>5, <2>1, <2>2
<1>17. CASE Destroy
  BY <1>5, <1>17 DEF Destroy, asking
<1>18. CASE ServerCloses \/ Age \/ UNCHANGED vars
  <2>1. UNCHANGED <<m_state, op, pc, done, started, again, missed>>
    BY <1>18 DEF ServerCloses, Age, vars, network, asking
  <2> QED
    BY <1>5, <2>1 DEF Serving
<1> QED
  BY <1>6, <1>7, <1>8, <1>9, <1>10, <1>11, <1>12, <1>13, <1>14, <1>15, <1>16, <1>17, <1>18 DEF Next

LEMMA Invariance == Spec => [](TypeInv /\ ServeInv)
<1>1. Init => TypeInv /\ ServeInv
  BY InitTypes, InitServes
<1>2. TypeInv /\ ServeInv /\ [Next]_vars => (TypeInv /\ ServeInv)'
  <2> SUFFICES ASSUME TypeInv, ServeInv, [Next]_vars
               PROVE  TypeInv' /\ ServeInv'
    OBVIOUS
  <2>1. TypeInv'
    BY TypeStep
  <2> QED
    BY <2>1, ConnStep, AskStep, NumStep, OnceStep DEF ServeInv
<1> QED
  BY <1>1, <1>2, PTL DEF Spec

-----------------------------------------------------------------------------
(* What the invariant says *)

\* mysqlcli never calls the library once too often: a query that is at work is
\* carried on and one that is done is not started again, so that the server
\* does not execute it twice.
THEOREM QueriesStartOnce == Spec => []StartedOnce
<1>1. ServeInv => StartedOnce
  BY DEF ServeInv, OnceInv, StartedOnce
<1> QED
  BY <1>1, Invariance, PTL

\* Between two events mysqlcli has the library at work on the head of m_list,
\* or is on its one way back to a connection, however many queries are made,
\* from wherever, and whenever connections break, unless something was missed.
THEOREM ServesOrComesBack == Spec => []ServedOrComingBack
<1>1. TypeInv /\ ServeInv => ServedOrComingBack
  BY DEF TypeInv, ServeInv, ConnInv, AskInv, ServedOrComingBack
<1> QED
  BY <1>1, Invariance, PTL

-----------------------------------------------------------------------------
(* Refinement *)

\* What the query queue sees of a resolution, and of the history.
Kept(r) == [r EXCEPT !.how = IF @ = "error" THEN "closed" ELSE @]

History == [i \in DOMAIN done |-> Kept(done[i])]

LEMMA HistoryLength ==
  ASSUME TypeInv
  PROVE  Len(History) = Len(done)
<1>1. DOMAIN done = 1 .. Len(done) /\ Len(done) \in Nat
  BY Lengths
<1>2. History = [i \in 1 .. Len(done) |-> Kept(done[i])]
  BY <1>1 DEF History
<1> QED
  BY <1>1, <1>2

LEMMA HistoryGrows ==
  ASSUME TypeInv, NEW r \in Resolutions, done' = Append(done, r)
  PROVE  History' = Append(History, Kept(r))
<1> DEFINE K == {Kept(x) : x \in Resolutions}
           n == Len(done)
<1>1. done \in Seq(Resolutions) /\ n \in Nat /\ DOMAIN done = 1 .. n
  BY Lengths
<1>2. /\ DOMAIN done' = 1 .. n + 1 /\ done'[n + 1] = r
      /\ \A i \in 1 .. n : done'[i] = done[i]
  BY <1>1
<1>3. \A i \in 1 .. n : done[i] \in Resolutions
  BY <1>1
<1>4. \A x \in Resolutions : Kept(x) \in K
  OBVIOUS
<1>5. History = [i \in 1 .. n |-> Kept(done[i])] /\ History' = [i \in 1 .. n + 1 |-> Kept(done'[i])]
  BY <1>1, <1>2 DEF History
<1> HIDE DEF K, n
<1>6. History \in Seq(K) /\ Len(History) = n
  BY <1>1, <1>3, <1>4, <1>5
<1>7. History' \in Seq(K) /\ Len(History') = n + 1
  <2>1. \A i \in 1 .. n + 1 : Kept(done'[i]) \in K
    BY <1>1, <1>2, <1>3, <1>4
  <2> QED
    BY <1>1, <1>5, <2>1
<1>8. /\ Append(History, Kept(r)) \in Seq(K) /\ Len(Append(History, Kept(r))) = n + 1
      /\ \A i \in 1 .. n : Append(History, Kept(r))[i] = Kept(done[i])
      /\ Append(History, Kept(r))[n + 1] = Kept(r)
  BY <1>1, <1>4, <1>5, <1>6
<1>9. \A i \in 1 .. n + 1 : History'[i] = Append(History, Kept(r))[i]
  BY <1>1, <1>2, <1>5, <1>8
<1> QED
  BY <1>7, <1>8, <1>9, SeqEqual

\* Every step of the client is one of the query queue, or changes nothing that
\* the queue sees.
LEMMA QueueStep ==
  ASSUME TypeInv, ServeInv, [Next]_vars
  PROVE  [Queue!Next]_(Queue!vars)
<1>1. (Queue!Next \/ UNCHANGED <<m_list, History>>) => [Queue!Next]_(Queue!vars)
  BY DEF Queue!vars, History, Kept
<1>2. Len(History) = Len(done)
  BY HistoryLength
<1>3. ASSUME NEW how \in {"ok", "error", "timeout"}, NEW answer \in {None} \cup Queries, Resolves(how, answer)
      PROVE  /\ m_list # <<>> /\ m_list' = Tail(m_list)
             /\ History' = Append(History, [query |-> Head(m_list), answer |-> answer,
                                            how |-> IF how = "error" THEN "closed" ELSE how])
  <2> DEFINE r == [query |-> Head(m_list), how |-> how, answer |-> answer]
  <2>1. m_list # <<>> /\ m_list' = Tail(m_list) /\ done' = Append(done, r)
    BY <1>3 DEF Resolves, Pop
  <2>2. r \in Resolutions
    BY <2>1, Lengths DEF Resolutions
  <2>3. Kept(r) = [query |-> Head(m_list), answer |-> answer,
                   how |-> IF how = "error" THEN "closed" ELSE how]
    BY DEF Kept
  <2> HIDE DEF r
  <2> QED
    BY <2>1, <2>2, <2>3, HistoryGrows
<1>4. CASE Adds
  <2>1. Made = Len(m_list) + Len(History) /\ UNCHANGED History
    BY <1>2, <1>4, Lengths DEF Adds, History
  <2>2. Queue!Submit
    BY <1>4, <2>1 DEF Adds, Queue!Submit, Queue!Made, History, Kept
  <2> QED
    BY <1>1, <2>2 DEF Queue!Next
<1>5. CASE pc = "store" /\ Resolves("ok", asked)
  <2>1. m_list # <<>> /\ asked = Head(m_list) /\ asked \in {None} \cup Queries
    BY <1>5, Lengths DEF Resolves, ServeInv, AskInv
  <2>2. /\ m_list' = Tail(m_list)
        /\ History' = Append(History, [query |-> Head(m_list), answer |-> Head(m_list), how |-> "ok"])
    BY <1>3, <1>5, <2>1
  <2>3. Queue!Answer
    BY <2>1, <2>2 DEF Queue!Answer, History, Kept
  <2> QED
    BY <1>1, <2>3 DEF Queue!Next
<1>6. CASE \E how \in {"error", "timeout"} : Resolves(how, None)
  <2>1. PICK how \in {"error", "timeout"} : Resolves(how, None)
    BY <1>6
  <2>2. PICK e \in {"closed", "timeout"} : e = IF how = "error" THEN "closed" ELSE how
    OBVIOUS
  <2>3. /\ m_list # <<>> /\ m_list' = Tail(m_list)
        /\ History' = Append(History, [query |-> Head(m_list), how |-> e, answer |-> 0])
    BY <1>3, <2>1, <2>2 DEF None
  <2>4. Queue!Fail
    BY <2>3 DEF Queue!Fail, Queue!Errors, History, Kept
  <2> QED
    BY <1>1, <2>4 DEF Queue!Next
<1>7. CASE Keeps
  BY <1>1, <1>7 DEF Keeps, History
<1> QED
  BY <1>4, <1>5, <1>6, <1>7, StepMoves DEF Resolved

\* mysqlcli implements the query queue for any number of queries and all
\* faults: each query is resolved at most once, in the order of the queries,
\* with the result of its own query if with any.
THEOREM RefinesQueryQueue == Spec => ImplementsQueryQueue
<1>1. Init => Queue!Init
  BY DEF Init, Queue!Init
<1>2. TypeInv /\ ServeInv /\ [Next]_vars => [Queue!Next]_(Queue!vars)
  BY QueueStep
<1> QED
  BY <1>1, <1>2, Invariance, PTL DEF Spec, Queue!Spec, ImplementsQueryQueue
=============================================================================
