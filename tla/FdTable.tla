-------------------------------- MODULE FdTable --------------------------------
(***************************************************************************)
(* The descriptor tables of asyncnet (net/asyncnet.cpp).  A loop keeps the *)
(* callbacks of its connections, listeners and timers in vectors indexed   *)
(* by descriptor, and handles the events of one epoll_wait one after the   *)
(* other.  Callbacks call asyncnet again: a send that fails closes its     *)
(* connection at once and calls its close callback, wherever that happens. *)
(* The kernel gives a closed descriptor's number to whatever is opened     *)
(* next, by this thread or by another one.                                 *)
(*                                                                         *)
(* What is opened is numbered 1, 2, ... in that order.  A table holds for  *)
(* each descriptor the number of what its callback was registered for.     *)
(***************************************************************************)
EXTENDS Naturals, Sequences

CONSTANTS
  Fds,           \* descriptors
  MaxOpens,      \* bound: sockets and timers this loop opens
  ListenCloses   \* whether start is given a close callback: a set of BOOLEAN

ASSUME FdAssumption ==
  /\ MaxOpens \in Nat
  /\ ListenCloses \subseteq BOOLEAN

Objs == 1 .. MaxOpens
None == 0
Other == MaxOpens + 1    \* something another thread opened

VARIABLES
  file,        \* [f]: what descriptor f refers to
  kind,        \* [o]: "listen", "socket", "timer", or "none" yet
  opened,      \* how many have been opened
  epoll,       \* [f]: the state f is registered with, or "none"
  armed,       \* [f]: EPOLLOUT is among the events it is registered for
  m_client, m_close, m_read, m_write,  \* the tables
  m_wbuffer,   \* [f]: whose messages wait to be sent, or None
  batch,       \* events of epoll_wait that are still to be handled
  stack,       \* handlers and callbacks that are running, innermost first
  known,       \* what its user still uses: a client's m_fd, a timer's m_timer
  told,        \* [o]: what became of its close callback
  leaked,      \* what an exception left half closed
  stale        \* a handler has met with what its event was not about

kernel == <<file, kind, opened, epoll, armed>>

tables == <<m_client, m_close, m_read, m_write, m_wbuffer>>

vars == <<kernel, tables, batch, stack, known, told, leaked, stale>>

Bits == {"in", "out", "hup"}

States == {"accept", "connect", "client", "timer", "rtimer"}

Events == [fd : Fds, obj : Objs, state : States, events : SUBSET Bits]

\* A frame is a callback that is running, and what its caller does after it;
\* only in "client" none is: __onclient goes on with the bits in rest.
Frames ==
  [op : {"call"}]
    \cup [op : {"client"}, fd : Fds, obj : Objs, rest : SUBSET Bits]
    \cup [op : {"accept"}, fd : Fds, obj : Objs, from : Fds]
    \cup [op : {"connected", "timer", "closing", "refused", "failed"}, fd : Fds, obj : Objs]

\* What becomes of a close callback.
Tolds == {"none", "owed", "called", "twice"}

Owners == [Fds -> 0 .. MaxOpens]

TypeOK ==
  /\ file \in [Fds -> 0 .. Other]
  /\ kind \in [Objs -> {"none", "listen", "socket", "timer"}]
  /\ opened \in 0 .. MaxOpens
  /\ epoll \in [Fds -> States \cup {"none"}]
  /\ armed \in [Fds -> BOOLEAN]
  /\ m_client \in Owners /\ m_close \in Owners /\ m_read \in Owners /\ m_write \in Owners
  /\ m_wbuffer \in Owners
  /\ batch \subseteq Events
  /\ stack \in Seq(Frames)
  /\ known \subseteq Objs
  /\ told \in [Objs -> Tolds]
  /\ leaked \subseteq Objs
  /\ stale \in BOOLEAN

Nobody == [f \in Fds |-> None]

\* The thread is in the code that precedes wait.
Init ==
  /\ file = Nobody
  /\ kind = [o \in Objs |-> "none"] /\ opened = 0
  /\ epoll = [f \in Fds |-> "none"] /\ armed = [f \in Fds |-> FALSE]
  /\ m_client = Nobody /\ m_close = Nobody /\ m_read = Nobody /\ m_write = Nobody
  /\ m_wbuffer = Nobody
  /\ batch = {} /\ stack = <<[op |-> "call"]>>
  /\ known = {} /\ told = [o \in Objs |-> "none"] /\ leaked = {} /\ stale = FALSE

-----------------------------------------------------------------------------
(* Parts of the operations *)

\* A callback is running.
InCallback == stack # <<>> /\ Head(stack).op # "client"

Running == Head(stack)

Push(frame) == stack' = <<frame>> \o stack

\* f becomes the next thing that is opened, registered with this state.
Open(f, k, state, out) ==
  /\ file[f] = None /\ opened < MaxOpens
  /\ opened' = opened + 1
  /\ file' = [file EXCEPT ![f] = opened']
  /\ kind' = [kind EXCEPT ![opened'] = k]
  /\ epoll' = [epoll EXCEPT ![f] = state]
  /\ armed' = [armed EXCEPT ![f] = out]

\* mod_event, which fails if f is not registered.
ModEvent(f, out) ==
  /\ epoll' = [epoll EXCEPT ![f] = IF @ = "none" THEN @ ELSE "client"]
  /\ armed' = [armed EXCEPT ![f] = epoll[f] # "none" /\ out]

DelEvent(f) ==
  /\ epoll' = [epoll EXCEPT ![f] = "none"]
  /\ armed' = [armed EXCEPT ![f] = FALSE]

\* Faulty: the descriptor is not closed.
DelOnly(f) == DelEvent(f) /\ UNCHANGED file

\* close(f), which takes it out of epoll too.
CloseFd(f) == DelEvent(f) /\ file' = [file EXCEPT ![f] = None]

\* The close callback of o is called.  Before all else it makes its user
\* forget the descriptor (client::clear, msgsession::__onclose).
Tell(o) ==
  /\ known' = known \ {o}
  /\ told' = [told EXCEPT ![o] = IF @ \in {"called", "twice"} THEN "twice" ELSE "called"]

\* Faulty: f is closed first, then its close callback is called.
CloseThenTell(f, frame, below) ==
  /\ CloseFd(f)
  /\ IF m_close[f] = None
       THEN stack' = below /\ UNCHANGED <<known, told>>
       ELSE stack' = <<[op |-> "call"]>> \o below /\ Tell(m_close[f])

\* f is closed, after a call of its close callback if there is one.
CallClose(f, frame, below) ==
  \/ m_close[f] = None /\ CloseFd(f) /\ stack' = below /\ UNCHANGED <<known, told>>
  \/ /\ m_close[f] # None
     /\ DelEvent(f)
     /\ stack' = <<frame>> \o below
     /\ Tell(m_close[f])
     /\ UNCHANGED file

\* Faulty: __clientclose forgets m_wbuffer.
ForgetCallbacks(f) ==
  /\ m_read' = [m_read EXCEPT ![f] = None]
  /\ m_write' = [m_write EXCEPT ![f] = None]
  /\ m_client' = [m_client EXCEPT ![f] = None]
  /\ UNCHANGED m_wbuffer

Forget(f) ==
  /\ m_wbuffer' = [m_wbuffer EXCEPT ![f] = None]
  /\ m_read' = [m_read EXCEPT ![f] = None]
  /\ m_write' = [m_write EXCEPT ![f] = None]
  /\ m_client' = [m_client EXCEPT ![f] = None]

\* What handles o meets with the present owner of f.
Meet(f, o) == stale' = (stale \/ file[f] \notin {None, o})

\* __clientclose, up to the close callback if there is one.
Clientclose(f, o, below) ==
  /\ Forget(f)
  /\ CallClose(f, [op |-> "closing", fd |-> f, obj |-> o], below)
  /\ Meet(f, o)
  /\ UNCHANGED <<kind, opened, m_close, batch, leaked>>

-----------------------------------------------------------------------------
(* What callbacks do *)

\* m_client and m_close get the callbacks of what is opened.
Register(f, close) ==
  /\ m_client' = [m_client EXCEPT ![f] = opened']
  /\ m_close' = [m_close EXCEPT ![f] = IF close THEN opened' ELSE None]
  /\ told' = [told EXCEPT ![opened'] = IF close THEN "owed" ELSE "none"]
  /\ UNCHANGED <<m_read, m_write, m_wbuffer, batch, stack, known, leaked, stale>>

\* start, of a server.  It takes the mutex that __onaccept holds.
Start(f) ==
  /\ InCallback /\ \A i \in DOMAIN stack : stack[i].op # "accept"
  /\ Open(f, "listen", "accept", TRUE)
  /\ \E close \in ListenCloses : Register(f, close)

\* connect, with a close callback or without.
Connect(f) ==
  /\ InCallback
  /\ Open(f, "socket", "connect", TRUE)
  /\ \E close \in BOOLEAN : Register(f, close)

\* connect fails at once: its close callback is called, then f is closed.
\* (Without one nothing changes.)
ConnectFails(f) ==
  /\ InCallback
  /\ file[f] = None /\ opened < MaxOpens
  /\ opened' = opened + 1
  /\ file' = [file EXCEPT ![f] = opened']
  /\ kind' = [kind EXCEPT ![opened'] = "socket"]
  /\ Push([op |-> "failed", fd |-> f, obj |-> opened'])
  /\ Tell(opened')
  /\ UNCHANGED <<epoll, armed, tables, batch, leaked, stale>>

\* set_timer, for once or again and again.
SetTimer(f) ==
  /\ InCallback
  /\ \E state \in {"timer", "rtimer"} : Open(f, "timer", state, FALSE)
  /\ m_read' = [m_read EXCEPT ![f] = opened']
  /\ known' = known \cup {opened'}
  /\ UNCHANGED <<m_client, m_close, m_write, m_wbuffer, batch, stack, told, leaked, stale>>

\* stop_timer, of a timer its user has not stopped and not seen expire.
StopTimer(f) ==
  /\ InCallback
  /\ file[f] \in known /\ kind[file[f]] = "timer"
  /\ CloseFd(f)
  /\ m_read' = [m_read EXCEPT ![f] = None]
  /\ known' = known \ {file[f]}
  /\ UNCHANGED <<kind, opened, m_client, m_close, m_write, m_wbuffer, batch, stack, told,
                 leaked, stale>>

\* set_client and set_clientclose, by the callback that is given f.
SetClient(f) ==
  /\ InCallback /\ Running.op \in {"connected", "accept"}
  /\ f = Running.fd /\ file[f] = Running.obj /\ Running.obj \notin known
  /\ m_read' = [m_read EXCEPT ![f] = Running.obj]
  /\ m_write' = [m_write EXCEPT ![f] = Running.obj]
  /\ m_close' = [m_close EXCEPT ![f] = Running.obj]
  /\ known' = known \cup {Running.obj}
  /\ told' = [told EXCEPT ![Running.obj] = "owed"]
  /\ UNCHANGED <<kernel, m_client, m_wbuffer, batch, stack, leaked, stale>>

\* send writes at once, if no messages wait.  One that the socket takes, or
\* that finds others waiting, changes nothing here.
CanSend(f) == file[f] \in known /\ kind[file[f]] = "socket" /\ m_wbuffer[f] = None

\* The socket is full: the message is kept.
SendBlocked(f) ==
  /\ InCallback /\ CanSend(f)
  /\ ModEvent(f, TRUE)
  /\ m_wbuffer' = [m_wbuffer EXCEPT ![f] = file[f]]
  /\ UNCHANGED <<file, kind, opened, m_client, m_close, m_read, m_write, batch, stack, known,
                 told, leaked, stale>>

\* send meets another error.
SendFails(f) ==
  /\ InCallback /\ CanSend(f)
  /\ Clientclose(f, file[f], stack)

\* The callback returns to a caller that has nothing left to do.
Return ==
  /\ InCallback /\ Running.op \in {"call", "connected"}
  /\ stack' = Tail(stack)
  /\ UNCHANGED <<kernel, tables, batch, known, told, leaked, stale>>

\* ... to __onaccept, which gives the connection the close callback of its
\* listener, if that has one.
ReturnAccept ==
  /\ InCallback /\ Running.op = "accept"
  /\ stack' = Tail(stack)
  /\ m_close' = [m_close EXCEPT ![Running.fd] =
                   IF m_close[Running.from] = None THEN @ ELSE m_close[Running.from]]
  /\ UNCHANGED <<kernel, m_client, m_read, m_write, m_wbuffer, batch, known, told, leaked, stale>>

\* What is left to do after a callback is closing f.
Closes(ops) ==
  /\ InCallback /\ Running.op \in ops
  /\ stack' = Tail(stack)
  /\ CloseFd(Running.fd)
  /\ Meet(Running.fd, Running.obj)
  /\ UNCHANGED <<kind, opened, m_client, m_write, m_wbuffer, batch, known, told, leaked>>

\* ... to __clientclose, __onconnect or connect, which close the descriptor.
ReturnClose ==
  \/ /\ Closes({"closing", "refused"})
     /\ m_close' = [m_close EXCEPT ![Running.fd] = None] /\ UNCHANGED m_read
  \/ Closes({"failed"}) /\ UNCHANGED <<m_close, m_read>>

\* ... to __ontimer, whose timer has expired for good.
ReturnTimer ==
  Closes({"timer"}) /\ m_read' = [m_read EXCEPT ![Running.fd] = None] /\ UNCHANGED m_close

\* The callback throws: __wait catches, and what its callers had left to do
\* is never done.
Throw ==
  /\ InCallback
  /\ stack' = <<>>
  /\ leaked' = leaked \cup {stack[i].obj : i \in
                 {i \in DOMAIN stack : stack[i].op \in {"closing", "refused", "failed", "timer"}}}
  /\ UNCHANGED <<kernel, tables, batch, known, told, stale>>

-----------------------------------------------------------------------------
(* The loop *)

\* What epoll_wait may report of f.
Reports(f) ==
  IF epoll[f] = "client" THEN SUBSET (IF armed[f] THEN Bits ELSE {"in", "hup"}) \ {{}}
  ELSE IF epoll[f] = "connect" THEN {{"out"}, {"hup"}}
  ELSE {{"in"}}

\* epoll_wait.  A timer whose callback threw has expired and says no more.
Wait ==
  /\ stack = <<>> /\ batch = {}
  /\ \E F \in SUBSET {f \in Fds : epoll[f] # "none" /\ file[f] \in Objs \ leaked} :
       /\ F # {}
       /\ \E bits \in [F -> SUBSET Bits] :
            /\ \A f \in F : bits[f] \in Reports(f)
            /\ batch' = {[fd |-> f, obj |-> file[f], state |-> epoll[f], events |-> bits[f]] : f \in F}
  /\ UNCHANGED <<kernel, tables, stack, known, told, leaked, stale>>

\* The next event e, of this state, is handled.
Dispatch(e, state) ==
  /\ stack = <<>> /\ e \in batch /\ e.state = state
  /\ batch' = batch \ {e}
  /\ Meet(e.fd, e.obj)

\* __onevent: what was notified is called.
OnEvent ==
  /\ stack = <<>>
  /\ Push([op |-> "call"])
  /\ UNCHANGED <<kernel, tables, batch, known, told, leaked, stale>>

\* __ontimer of a timer set for once.  Its callback begins with forgetting it
\* (msgsession::__retry and the like).
OnTimer(e) ==
  /\ Dispatch(e, "timer")
  /\ \/ /\ m_read[e.fd] # None
        /\ Push([op |-> "timer", fd |-> e.fd, obj |-> e.obj])
        /\ known' = known \ {m_read[e.fd]}
        /\ UNCHANGED <<file, epoll, armed>>
     \/ m_read[e.fd] = None /\ CloseFd(e.fd) /\ UNCHANGED <<stack, known>>
  /\ UNCHANGED <<kind, opened, tables, told, leaked>>

\* __ontimer of one that repeats.
OnRtimer(e) ==
  /\ Dispatch(e, "rtimer")
  /\ IF m_read[e.fd] # None THEN Push([op |-> "call"]) ELSE UNCHANGED stack
  /\ UNCHANGED <<kernel, tables, known, told, leaked>>

\* Faulty: __onaccept does not look at what accept returns.
OnAcceptUnchecked(e) ==
  /\ Dispatch(e, "accept")
  /\ Push([op |-> "accept", fd |-> None, obj |-> e.obj, from |-> e.fd])
  /\ UNCHANGED <<kernel, tables, known, told, leaked>>

\* __onaccept.  Another thread may have accepted the connection before.
OnAccept(e) ==
  /\ Dispatch(e, "accept")
  /\ \/ UNCHANGED <<kernel, stack>>
     \/ \E f \in Fds :
          /\ Open(f, "socket", "client", FALSE)
          /\ Push([op |-> "accept", fd |-> f, obj |-> opened', from |-> e.fd])
  /\ UNCHANGED <<tables, known, told, leaked>>

\* __onconnect, when there is no error.
OnConnect(e) ==
  /\ Dispatch(e, "connect") /\ "out" \in e.events
  /\ ModEvent(e.fd, FALSE)
  /\ IF m_client[e.fd] # None
       THEN Push([op |-> "connected", fd |-> e.fd, obj |-> e.obj])
       ELSE UNCHANGED stack
  /\ UNCHANGED <<file, kind, opened, tables, known, told, leaked>>

\* __onconnect, when the connection is refused: m_client stays as it is.
OnRefused(e) ==
  /\ Dispatch(e, "connect")
  /\ CallClose(e.fd, [op |-> "refused", fd |-> e.fd, obj |-> e.obj], stack)
  /\ UNCHANGED <<kind, opened, tables, leaked>>

\* __onclient begins.
OnClient(e) ==
  /\ Dispatch(e, "client")
  /\ Push([op |-> "client", fd |-> e.fd, obj |-> e.obj, rest |-> e.events])
  /\ UNCHANGED <<kernel, tables, known, told, leaked>>

\* __onclient is to go on with the bits in rest.
InClient == stack # <<>> /\ Running.op = "client"

Left(rest) == <<[Running EXCEPT !.rest = rest]>> \o Tail(stack)

\* EPOLLIN: m_read is called, if there is one.
ClientIn ==
  /\ InClient /\ "in" \in Running.rest
  /\ LET left == Left(Running.rest \ {"in"}) IN
       stack' = IF m_read[Running.fd] # None THEN <<[op |-> "call"]>> \o left ELSE left
  /\ Meet(Running.fd, Running.obj)
  /\ UNCHANGED <<kernel, tables, batch, known, told, leaked>>

\* EPOLLOUT: m_write is __send, which writes what the socket takes.
ClientOut ==
  /\ InClient /\ "in" \notin Running.rest /\ "out" \in Running.rest
  /\ LET f == Running.fd
         left == Left(Running.rest \ {"out"})
     IN \/ /\ m_write[f] # None /\ m_wbuffer[f] # None
           /\ Clientclose(f, Running.obj, left)
        \/ /\ \/ m_write[f] = None /\ UNCHANGED <<epoll, armed, m_wbuffer>>
              \/ m_write[f] # None /\ m_wbuffer[f] # None /\ ModEvent(f, TRUE) /\ UNCHANGED m_wbuffer
              \/ /\ m_write[f] # None /\ ModEvent(f, FALSE)
                 /\ m_wbuffer' = [m_wbuffer EXCEPT ![f] = None]
           /\ stack' = left
           /\ Meet(f, Running.obj)
           /\ UNCHANGED <<file, kind, opened, m_client, m_close, m_read, m_write, batch, known,
                          told, leaked>>

\* EPOLLERR or EPOLLHUP: the connection is closed.
ClientHup ==
  /\ InClient /\ Running.rest = {"hup"}
  /\ Clientclose(Running.fd, Running.obj, Left({}))

ClientEnd ==
  /\ InClient /\ Running.rest = {}
  /\ stack' = Tail(stack)
  /\ UNCHANGED <<kernel, tables, batch, known, told, leaked, stale>>

\* Another thread opens a descriptor, or closes its own.
OtherThread(f) ==
  /\ file[f] \in {None, Other}
  /\ file' = [file EXCEPT ![f] = IF @ = None THEN Other ELSE None]
  /\ UNCHANGED <<kind, opened, epoll, armed, tables, batch, stack, known, told, leaked, stale>>

-----------------------------------------------------------------------------
Next ==
  \/ \E f \in Fds :
       \/ Start(f) \/ Connect(f) \/ ConnectFails(f) \/ SetTimer(f) \/ StopTimer(f)
       \/ SetClient(f) \/ SendBlocked(f) \/ SendFails(f) \/ OtherThread(f)
  \/ Return \/ ReturnAccept \/ ReturnClose \/ ReturnTimer \/ Throw
  \/ Wait \/ OnEvent
  \/ \E e \in batch :
       OnTimer(e) \/ OnRtimer(e) \/ OnAccept(e) \/ OnConnect(e) \/ OnRefused(e) \/ OnClient(e)
  \/ ClientIn \/ ClientOut \/ ClientHup \/ ClientEnd

Spec == Init /\ [][Next]_vars

-----------------------------------------------------------------------------
(* Properties.  They hold as long as no handler has met with what its event *)
(* was not about; nothing is sure after that.                               *)

IsOpen(o) == \E f \in Fds : file[f] = o

\* A client that is valid() has a descriptor which is open and its own, and
\* so has a timer its user may still stop.
KnownIsOpen == ~stale => \A o \in known : IsOpen(o)

\* No connection goes away without a call of its close callback, and none is
\* told twice, however closes nest, unless that callback once threw.
CloseCalledOnce ==
  ~stale => \A o \in Objs :
    /\ told[o] = "twice" => o \in leaked
    /\ told[o] = "owed" => IsOpen(o)

\* What the tables hold for a descriptor was registered for what it refers to
\* now, m_client excepted: a refused connect leaves its callback there, against
\* the assertion of __emplace_back.  Messages wait only for the connection they
\* were sent to, and only where EPOLLOUT will be reported.
OwnCallbacks ==
  ~stale => \A f \in Fds :
    /\ \A o \in {m_close[f], m_read[f], m_write[f], m_wbuffer[f]} : o \in {None, file[f]}
    /\ m_wbuffer[f] # None => epoll[f] = "client" /\ armed[f]

\* Every descriptor that a caller is going to close is still its own.
ClosersOwn ==
  ~stale => \A i \in DOMAIN stack :
              stack[i].op \in {"closing", "refused", "failed", "timer"}
                => file[stack[i].fd] = stack[i].obj

\* Nothing stays open of which no event is reported, but what is being closed
\* or was left so by an exception.
NothingForgotten ==
  ~stale => \A f \in Fds :
    file[f] \in Objs \ leaked /\ epoll[f] = "none"
      => \E i \in DOMAIN stack : stack[i].op \in {"closing", "refused", "failed"} /\ stack[i].fd = f

\* A descriptor has one owner from its opening to its closing: who uses it,
\* who is going to close it, and the epoll that reports its events agree on
\* what it refers to, however callbacks open and close below each other.
OwnDescriptors == KnownIsOpen /\ ClosersOwn /\ NothingForgotten

\* Where o is in its life.
LifeOf(o) ==
  IF o > opened THEN "new"
  ELSE IF ~IsOpen(o) THEN "closed"
  ELSE IF o \in leaked THEN "half"
  ELSE told[o]

Promise == INSTANCE Connections WITH
             life <- [o \in Objs |-> LifeOf(o)], lost <- stale

\* asyncnet keeps the promise of module Connections: of whatever is opened, its
\* close callback, if it has one, is called once, and before the descriptor is
\* closed, however closes nest; what is closed is not closed again.
ImplementsConnections == Promise!Spec

\* The runs end where a handler meets with what its event was not about.
NotStale == ~stale
=============================================================================
