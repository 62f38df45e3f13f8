-------------------------------- MODULE Session --------------------------------
(***************************************************************************)
(* The server's session (service/session.cpp): any thread sends through    *)
(* it, only the loop that owns its client may use asyncnet::send and its   *)
(* m_wbuffer.  Other threads write the socket themselves; what it does not *)
(* take they park in m_list and have the owner woken.  A session outlives  *)
(* its connections: what is parked goes to the next client it is given.    *)
(*                                                                         *)
(* A send is a member of the sequence 1, 2, ... of the calls, in the order *)
(* in which they take m_mutex.  Two sends never overlap, but the write of  *)
(* a foreign thread overlaps with what the owner's loop does, which takes  *)
(* m_mutex only in the notified callback.                                  *)
(***************************************************************************)
EXTENDS Naturals, Sequences

CONSTANTS
  Threads,     \* threads that send; those of Thd run an asyncnet
  Conns,       \* connections the session is given, one after the other
  Thd,         \* Thd[c]: the thread whose asyncnet owns connection c
  NoConn,      \* m_client is null, no send in progress
  MaxMsgs      \* bound: calls of session::send

ASSUME SessionAssumption ==
  /\ Thd \in [Conns -> Threads]
  /\ NoConn \notin Conns
  /\ MaxMsgs \in Nat

VARIABLES
  m_list,      \* messages parked in the session
  m_notified,  \* m_notified is TRUE
  m_client,    \* the session's client
  conn,        \* [c]: "new" until given to the session, "open", "closed"
  broken,      \* [c]: a foreign write got an error other than EAGAIN
  m_wbuffer,   \* [c]: messages asyncnet holds for c's socket
  wire,        \* [c]: what was written to c's socket, and by what way
  notices,     \* [t]: callbacks of __notifysend queued on t's loop
  lost,        \* the wake-up for the queued callback was read away, see below
  sending,     \* [t]: connection t is writing to, m_mutex held, or NoConn
  sent,        \* calls of session::send that have begun
  gone         \* messages lost with their connection, or to another one

vars == <<m_list, m_notified, m_client, conn, broken, m_wbuffer, wire, notices,
          lost, sending, sent, gone>>

Msgs == 1 .. MaxMsgs

\* Ways to the socket: asyncnet::send, asyncnet::__send, client::__realsend.
Ways == {"direct", "buffer", "foreign"}

TypeOK ==
  /\ m_list \in Seq(Msgs)
  /\ m_notified \in BOOLEAN
  /\ m_client \in Conns \cup {NoConn}
  /\ conn \in [Conns -> {"new", "open", "closed"}]
  /\ broken \in [Conns -> BOOLEAN]
  /\ m_wbuffer \in [Conns -> Seq(Msgs)]
  /\ wire \in [Conns -> Seq([msg : Msgs, way : Ways])]
  /\ notices \in [Threads -> 0 .. 1]
  /\ lost \in BOOLEAN
  /\ sending \in [Threads -> Conns \cup {NoConn}]
  /\ sent \in 0 .. MaxMsgs
  /\ gone \subseteq Msgs

Init ==
  /\ m_list = <<>>
  /\ m_notified = FALSE
  /\ m_client = NoConn
  /\ conn = [c \in Conns |-> "new"]
  /\ broken = [c \in Conns |-> FALSE]
  /\ m_wbuffer = [c \in Conns |-> <<>>]
  /\ wire = [c \in Conns |-> <<>>]
  /\ notices = [t \in Threads |-> 0]
  /\ lost = FALSE
  /\ sending = [t \in Threads |-> NoConn]
  /\ sent = 0
  /\ gone = {}

\* check_valid(m_client); that it also forgets a client without fd is left
\* out, for nothing tells such a client from none.
Valid == m_client # NoConn /\ conn[m_client] = "open"

\* Nobody holds m_mutex, so no thread is inside session::send either.
MutexFree == \A t \in Threads : sending[t] = NoConn

\* Thread t is free to go on with its loop.
Idle(t) == sending[t] = NoConn

Written(ms, way) == [i \in 1 .. Len(ms) |-> [msg |-> ms[i], way |-> way]]

-----------------------------------------------------------------------------
(* What the owner does with its own connection *)

\* Faulty: asyncnet::send writes although m_wbuffer holds messages.
HandOverBuffer(c, ms) ==
  \E k \in 0 .. Len(ms) :
    /\ wire' = [wire EXCEPT ![c] = @ \o Written(SubSeq(ms, 1, k), "direct")]
    /\ m_wbuffer' = [m_wbuffer EXCEPT ![c] = @ \o SubSeq(ms, k + 1, Len(ms))]
    /\ conn' = [conn EXCEPT ![c] = "open"]
    /\ m_list' = <<>>
    /\ UNCHANGED gone

\* The messages ms go to asyncnet::send one by one.  The socket takes the
\* first k, unless older ones wait in m_wbuffer; EAGAIN sends the rest there.
\* Another error closes the connection, and what is left stays in m_list.
Hand(c, ms) ==
  \E k \in 0 .. Len(ms) :
    /\ k # 0 => m_wbuffer[c] = <<>>
    /\ wire' = [wire EXCEPT ![c] = @ \o Written(SubSeq(ms, 1, k), "direct")]
    /\ \/ /\ m_wbuffer' = [m_wbuffer EXCEPT ![c] = @ \o SubSeq(ms, k + 1, Len(ms))]
          /\ conn' = [conn EXCEPT ![c] = "open"]
          /\ m_list' = <<>>
          /\ UNCHANGED gone
       \/ /\ k < Len(ms) /\ m_wbuffer[c] = <<>>
          /\ conn' = [conn EXCEPT ![c] = "closed"]
          /\ m_list' = SubSeq(ms, k + 2, Len(ms))
          /\ gone' = gone \cup {ms[k + 1]}
          /\ UNCHANGED m_wbuffer

\* Faulty: asyncnet::__send leaves a message it has written in m_wbuffer.
WritableKeeps(c) ==
  /\ conn[c] = "open" /\ Idle(Thd[c])
  /\ \E k \in 1 .. Len(m_wbuffer[c]) :
       /\ wire' = [wire EXCEPT ![c] = @ \o Written(SubSeq(m_wbuffer[c], 1, k), "buffer")]
       /\ m_wbuffer' = [m_wbuffer EXCEPT ![c] = SubSeq(@, k, Len(@))]
  /\ UNCHANGED <<m_list, m_notified, m_client, conn, broken, notices, sending, sent, gone, lost>>

\* EPOLLOUT: asyncnet::__send writes what the socket takes of m_wbuffer.
Writable(c) ==
  /\ conn[c] = "open" /\ Idle(Thd[c])
  /\ \E k \in 1 .. Len(m_wbuffer[c]) :
       /\ wire' = [wire EXCEPT ![c] = @ \o Written(SubSeq(m_wbuffer[c], 1, k), "buffer")]
       /\ m_wbuffer' = [m_wbuffer EXCEPT ![c] = SubSeq(@, k + 1, Len(@))]
  /\ UNCHANGED <<m_list, m_notified, m_client, conn, broken, notices, sending, sent, gone, lost>>

\* The connection breaks, or a write of __send fails: asyncnet::__clientclose
\* drops m_wbuffer, and client::clear forgets the fd.
CloseConn(c) ==
  /\ conn[c] = "open" /\ Idle(Thd[c])
  /\ conn' = [conn EXCEPT ![c] = "closed"]
  /\ gone' = gone \cup {m_wbuffer[c][i] : i \in DOMAIN m_wbuffer[c]}
  /\ m_wbuffer' = [m_wbuffer EXCEPT ![c] = <<>>]
  /\ UNCHANGED <<m_list, m_notified, m_client, broken, wire, notices, sending, sent, lost>>

-----------------------------------------------------------------------------
(* The session *)

\* Faulty: does not look at m_notified.
NotifySendAgain(notified, queued) ==
  IF Valid
    THEN /\ m_notified' = TRUE /\ lost' \in BOOLEAN
         /\ notices' = [queued EXCEPT ![Thd[m_client]] = @ + 1]
    ELSE /\ m_notified' = notified /\ lost' = lost
         /\ notices' = queued

\* __notifysend, given m_notified and the callbacks queued so far.  The owner
\* is another thread, whose loop may read the wake-up away without running the
\* callback (the loss that module Notify shows in __onevent): then it waits
\* until somebody else notifies that loop, if anybody ever does.
NotifySend(notified, queued) ==
  IF Valid /\ ~notified
    THEN /\ m_notified' = TRUE /\ lost' \in BOOLEAN
         /\ notices' = [queued EXCEPT ![Thd[m_client]] = @ + 1]
    ELSE /\ m_notified' = notified /\ lost' = lost
         /\ notices' = queued

\* set_client: the owner of connection c gives it to the session, which
\* sends what is parked.
SetClient(c) ==
  /\ conn[c] = "new" /\ MutexFree
  /\ m_client' = c
  /\ Hand(c, m_list)
  /\ UNCHANGED <<m_notified, broken, notices, sending, sent, lost>>

\* stop, called by the heartbeat without m_mutex.  (A send that is about to
\* use the client may crash on it: then nothing more happens.)
Stop ==
  /\ m_client # NoConn
  /\ m_client' = NoConn
  /\ UNCHANGED <<m_list, m_notified, conn, broken, m_wbuffer, wire, notices, sending,
                 sent, gone, lost>>

\* send without a client, or behind parked messages: parked too.
SendParked ==
  /\ MutexFree /\ sent < MaxMsgs
  /\ ~Valid \/ m_list # <<>>
  /\ sent' = sent + 1
  /\ m_list' = Append(m_list, sent')
  /\ UNCHANGED <<m_notified, m_client, conn, broken, m_wbuffer, wire, notices, sending, gone, lost>>

\* send by the owner.
SendOwner ==
  /\ MutexFree /\ sent < MaxMsgs
  /\ Valid /\ m_list = <<>>
  /\ sent' = sent + 1
  /\ Hand(m_client, <<sent + 1>>)
  /\ UNCHANGED <<m_notified, m_client, broken, notices, sending, lost>>

\* send by another thread: client::__realsend is called with m_mutex held.
SendForeign(t) ==
  /\ MutexFree /\ sent < MaxMsgs
  /\ Valid /\ m_list = <<>>
  /\ Thd[m_client] # t
  /\ sent' = sent + 1
  /\ sending' = [sending EXCEPT ![t] = m_client]
  /\ UNCHANGED <<m_list, m_notified, m_client, conn, broken, m_wbuffer, wire, notices, gone, lost>>

\* The socket takes the message.
ForeignWritten(t) ==
  /\ sending[t] # NoConn /\ conn[sending[t]] = "open"
  /\ wire' = [wire EXCEPT ![sending[t]] = Append(@, [msg |-> sent, way |-> "foreign"])]
  /\ sending' = [sending EXCEPT ![t] = NoConn]
  /\ UNCHANGED <<m_list, m_notified, m_client, conn, broken, m_wbuffer, notices, sent, gone, lost>>

\* The fd was closed meanwhile and is that of another connection by now,
\* which gets the message.
ForeignStray(t) ==
  /\ sending[t] # NoConn /\ conn[sending[t]] = "closed"
  /\ gone' = gone \cup {sent}
  /\ sending' = [sending EXCEPT ![t] = NoConn]
  /\ UNCHANGED <<m_list, m_notified, m_client, conn, broken, m_wbuffer, wire, notices, sent, lost>>

\* Faulty: parks the message and wakes nobody.
ForeignFullQuiet(t) ==
  /\ sending[t] # NoConn /\ conn[sending[t]] = "open"
  /\ m_list' = Append(m_list, sent)
  /\ sending' = [sending EXCEPT ![t] = NoConn]
  /\ UNCHANGED <<m_notified, m_client, conn, broken, m_wbuffer, wire, notices, sent, gone, lost>>

\* EAGAIN: the message is parked and the owner notified.
ForeignFull(t) ==
  /\ sending[t] # NoConn /\ conn[sending[t]] = "open"
  /\ m_list' = Append(m_list, sent)
  /\ NotifySend(m_notified, notices)
  /\ sending' = [sending EXCEPT ![t] = NoConn]
  /\ UNCHANGED <<m_client, conn, broken, m_wbuffer, wire, sent, gone>>

\* Another error, also that of an fd closed meanwhile: parked, nobody told.
ForeignError(t) ==
  /\ sending[t] # NoConn
  /\ m_list' = Append(m_list, sent)
  /\ broken' = [broken EXCEPT ![sending[t]] = TRUE]
  /\ sending' = [sending EXCEPT ![t] = NoConn]
  /\ UNCHANGED <<m_notified, m_client, conn, m_wbuffer, wire, notices, sent, gone, lost>>

\* Faulty: the callback does not pass the work on to a client's new owner.
NoticeStays(t) ==
  /\ notices[t] > 0 /\ MutexFree
  /\ m_notified' = FALSE
  /\ notices' = [notices EXCEPT ![t] = @ - 1] /\ lost' = FALSE
  /\ IF Valid /\ Thd[m_client] = t
       THEN Hand(m_client, m_list)
       ELSE UNCHANGED <<m_list, conn, m_wbuffer, wire, gone>>
  /\ UNCHANGED <<m_client, broken, sending, sent>>

\* The notified callback runs on t's loop: it sends what is parked, or passes
\* the work on if the session has a client of another loop by now.
Notice(t) ==
  /\ notices[t] > 0 /\ MutexFree
  /\ LET queued == [notices EXCEPT ![t] = @ - 1] IN
       IF m_list # <<>> /\ Valid /\ Thd[m_client] # t
         THEN /\ NotifySend(FALSE, queued)
              /\ UNCHANGED <<m_list, conn, m_wbuffer, wire, gone>>
         ELSE /\ m_notified' = FALSE /\ notices' = queued /\ lost' = FALSE
              /\ IF Valid /\ Thd[m_client] = t
                   THEN Hand(m_client, m_list)
                   ELSE UNCHANGED <<m_list, conn, m_wbuffer, wire, gone>>
  /\ UNCHANGED <<m_client, broken, sending, sent>>

-----------------------------------------------------------------------------
ForeignEnds(t) ==
  ForeignWritten(t) \/ ForeignStray(t) \/ ForeignFull(t) \/ ForeignError(t)

Next ==
  \/ \E c \in Conns : SetClient(c) \/ Writable(c) \/ CloseConn(c)
  \/ Stop \/ SendParked \/ SendOwner
  \/ \E t \in Threads : SendForeign(t) \/ ForeignEnds(t) \/ Notice(t)

\* A write ends, and a loop runs what it was woken for, getting m_mutex in
\* the end however often others take it; what it was not woken for it may
\* never run.
Fairness ==
  \A t \in Threads : WF_vars(ForeignEnds(t)) /\ SF_vars(~lost /\ Notice(t))

Spec == Init /\ [][Next]_vars

FairSpec == Spec /\ Fairness

-----------------------------------------------------------------------------
(* Properties *)

\* Where message m is: parked, being written, buffered, written, or gone.
ParkedAt(m) == {<<"list", i>> : i \in {i \in DOMAIN m_list : m_list[i] = m}}

SendingAt(m) == {<<"sending", t>> : t \in {t \in Threads : sending[t] # NoConn /\ m = sent}}

BufferedAt(c, m) == {<<"wbuffer", c, i>> : i \in {i \in DOMAIN m_wbuffer[c] : m_wbuffer[c][i] = m}}

WrittenAt(c, m) == {<<"wire", c, i>> : i \in {i \in DOMAIN wire[c] : wire[c][i].msg = m}}

Places(m) ==
  ParkedAt(m) \cup SendingAt(m)
    \cup (UNION {BufferedAt(c, m) \cup WrittenAt(c, m) : c \in Conns})
    \cup (IF m \in gone THEN {<<"gone">>} ELSE {})

\* No message is duplicated or forgotten, whatever threads send, whenever
\* connections break and whoever flushes: each is in exactly one place.
InOnePlace ==
  \A m \in 1 .. sent : \E p \in Places(m) : Places(m) = {p}

\* Messages arrive in the order of the sends, but for one case: a foreign
\* thread writes past those in m_wbuffer, which it does not look at.
OnlyForeignOvertakes ==
  \A c \in Conns : \A i, j \in DOMAIN wire[c] :
    i < j /\ wire[c][i].msg > wire[c][j].msg
      => wire[c][i].way = "foreign" /\ wire[c][j].way = "buffer"

\* m_notified says whether a callback is queued on some loop, and there is
\* never a second one.
FlagTellsNotice ==
  /\ m_notified => \E t \in Threads : notices[t] = 1
  /\ \A t, u \in Threads : notices[t] = 1 /\ (u = t \/ notices[u] = 1) => m_notified /\ u = t

\* Nothing is parked in a session with a good client unless the owner has
\* been woken to send it.
ParkedIsNotified ==
  Valid /\ ~broken[m_client] /\ m_list # <<>> => m_notified

\* The flag, the callbacks queued on the loops and the list agree, on whatever
\* thread each was changed: a parked message has one callback on its way.
NoticeCoversParked == FlagTellsNotice /\ ParkedIsNotified

\* What is parked is sent, unless the client is lost or the owner's loop read
\* the wake-up away: m_notified stays set then, and no later send renews it.
ParkedIsSent ==
  Valid /\ m_list # <<>> ~> m_list = <<>> \/ ~Valid \/ broken[m_client] \/ lost
=============================================================================
