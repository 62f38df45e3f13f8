----------------------------- MODULE FdTableProofs -----------------------------
(***************************************************************************)
(* Theorems about FdTable, for any descriptors and number of openings: its *)
(* types, and that each descriptor has one owner from its opening to its   *)
(* closing, for which an inductive invariant, Owned, is stated below.      *)
(***************************************************************************)
EXTENDS FdTable, TLAPS

-----------------------------------------------------------------------------
(* Frames and stacks of them *)

Frame(op) == [op : {op}, fd : Fds, obj : Objs]

LEMMA PopFrame ==
  ASSUME NEW s \in Seq(Frames), s # <<>>
  PROVE  Head(s) \in Frames /\ Tail(s) \in Seq(Frames)
  OBVIOUS

LEMMA PushFrame ==
  ASSUME NEW s \in Seq(Frames), NEW r \in Frames
  PROVE  <<r>> \o s \in Seq(Frames)
<1>1. <<r>> \in Seq(Frames)
  OBVIOUS
<1> QED
  BY <1>1

LEMMA CallFrame == [op |-> "call"] \in Frames
  BY DEF Frames

LEMMA SimpleFrame ==
  ASSUME NEW op \in {"connected", "timer", "closing", "refused", "failed"},
         NEW f \in Fds, NEW o \in Objs
  PROVE  [op |-> op, fd |-> f, obj |-> o] \in Frames
  BY DEF Frames

LEMMA AcceptFrame ==
  ASSUME NEW f \in Fds, NEW o \in Objs, NEW l \in Fds
  PROVE  [op |-> "accept", fd |-> f, obj |-> o, from |-> l] \in Frames
  BY DEF Frames

LEMMA ClientFrame ==
  ASSUME NEW f \in Fds, NEW o \in Objs, NEW r \in SUBSET Bits
  PROVE  [op |-> "client", fd |-> f, obj |-> o, rest |-> r] \in Frames
  BY DEF Frames

LEMMA FrameFields ==
  ASSUME NEW r \in Frames
  PROVE  /\ r.op # "call" => r.fd \in Fds /\ r.obj \in Objs
         /\ r.op = "accept" => r.from \in Fds
         /\ r.op = "client" => r.rest \in SUBSET Bits
  BY DEF Frames

LEMMA RestFrame ==
  ASSUME NEW r \in Frames, r.op = "client", NEW b \in SUBSET Bits
  PROVE  [r EXCEPT !.rest = b] \in Frames
  BY DEF Frames

-----------------------------------------------------------------------------
(* Types *)

\* Owner numbers and what files refer to.
LEMMA Numbers ==
  /\ MaxOpens \in Nat /\ Objs = 1 .. MaxOpens /\ Objs \subseteq 0 .. MaxOpens
  /\ None = 0 /\ None \in 0 .. MaxOpens /\ Other = MaxOpens + 1
  /\ 0 .. MaxOpens \subseteq 0 .. Other /\ Other \in 0 .. Other
  BY FdAssumption DEF Objs, None, Other

LEMMA OpenTypes ==
  ASSUME TypeOK, NEW f \in Fds, NEW k \in {"listen", "socket", "timer"}, NEW state \in States,
         NEW out \in BOOLEAN, Open(f, k, state, out)
  PROVE  /\ opened' \in Objs /\ opened' \in 0 .. MaxOpens
         /\ file' \in [Fds -> 0 .. Other]
         /\ kind' \in [Objs -> {"none", "listen", "socket", "timer"}]
         /\ epoll' \in [Fds -> States \cup {"none"}]
         /\ armed' \in [Fds -> BOOLEAN]
<1>1. opened' \in Objs /\ opened' \in 0 .. MaxOpens /\ opened' \in 0 .. Other
  BY Numbers DEF TypeOK, Open
<1>2. file' \in [Fds -> 0 .. Other]
  BY <1>1 DEF TypeOK, Open
<1>3. kind' \in [Objs -> {"none", "listen", "socket", "timer"}]
  BY <1>1 DEF TypeOK, Open
<1>4. epoll' \in [Fds -> States \cup {"none"}]
  BY DEF TypeOK, Open
<1>5. armed' \in [Fds -> BOOLEAN]
  BY DEF TypeOK, Open
<1> QED
  BY <1>1, <1>2, <1>3, <1>4, <1>5

LEMMA ModTypes ==
  ASSUME TypeOK, NEW f \in Fds, NEW out \in BOOLEAN, ModEvent(f, out)
  PROVE  epoll' \in [Fds -> States \cup {"none"}] /\ armed' \in [Fds -> BOOLEAN]
<1>1. epoll' \in [Fds -> States \cup {"none"}]
  BY DEF TypeOK, ModEvent, States
<1>2. (epoll[f] # "none" /\ out) \in BOOLEAN
  OBVIOUS
<1>3. armed' \in [Fds -> BOOLEAN]
  BY <1>2 DEF TypeOK, ModEvent
<1> QED
  BY <1>1, <1>3

LEMMA DelTypes ==
  ASSUME TypeOK, NEW f \in Fds, DelEvent(f)
  PROVE  epoll' \in [Fds -> States \cup {"none"}] /\ armed' \in [Fds -> BOOLEAN]
  BY DEF TypeOK, DelEvent

LEMMA CloseFdTypes ==
  ASSUME TypeOK, NEW f \in Fds, CloseFd(f)
  PROVE  /\ epoll' \in [Fds -> States \cup {"none"}] /\ armed' \in [Fds -> BOOLEAN]
         /\ file' \in [Fds -> 0 .. Other]
  BY DelTypes, Numbers DEF TypeOK, CloseFd

LEMMA TellTypes ==
  ASSUME TypeOK, NEW o, Tell(o)
  PROVE  known' \subseteq Objs /\ told' \in [Objs -> Tolds]
  BY DEF TypeOK, Tell, Tolds

LEMMA MeetTypes ==
  ASSUME TypeOK, NEW f, NEW o, Meet(f, o)
  PROVE  stale' \in BOOLEAN
  BY DEF TypeOK, Meet

LEMMA CallCloseTypes ==
  ASSUME TypeOK, NEW f \in Fds, NEW frame \in Frames, NEW below \in Seq(Frames),
         CallClose(f, frame, below)
  PROVE  /\ epoll' \in [Fds -> States \cup {"none"}] /\ armed' \in [Fds -> BOOLEAN]
         /\ file' \in [Fds -> 0 .. Other]
         /\ stack' \in Seq(Frames)
         /\ known' \subseteq Objs /\ told' \in [Objs -> Tolds]
<1>1. CASE m_close[f] = None /\ CloseFd(f) /\ stack' = below /\ UNCHANGED <<known, told>>
  BY <1>1, CloseFdTypes DEF TypeOK
<1>2. CASE /\ DelEvent(f) /\ stack' = <<frame>> \o below
           /\ Tell(m_close[f]) /\ UNCHANGED file
  <2>1. stack' \in Seq(Frames)
    BY <1>2, PushFrame
  <2> QED
    BY <1>2, <2>1, DelTypes, TellTypes DEF TypeOK
<1> QED
  BY <1>1, <1>2 DEF CallClose

LEMMA ForgetTypes ==
  ASSUME TypeOK, NEW f \in Fds, Forget(f)
  PROVE  m_wbuffer' \in Owners /\ m_read' \in Owners /\ m_write' \in Owners /\ m_client' \in Owners
  BY Numbers DEF TypeOK, Owners, Forget

LEMMA ClientcloseTypes ==
  ASSUME TypeOK, NEW f \in Fds, NEW o \in Objs, NEW below \in Seq(Frames), Clientclose(f, o, below)
  PROVE  TypeOK'
<1>1. [op |-> "closing", fd |-> f, obj |-> o] \in Frames
  BY SimpleFrame
<1>2. /\ Forget(f) /\ CallClose(f, [op |-> "closing", fd |-> f, obj |-> o], below)
      /\ Meet(f, o)
      /\ UNCHANGED <<kind, opened, m_close, batch, leaked>>
  BY DEF Clientclose
<1>3. /\ epoll' \in [Fds -> States \cup {"none"}] /\ armed' \in [Fds -> BOOLEAN]
      /\ file' \in [Fds -> 0 .. Other]
      /\ stack' \in Seq(Frames)
      /\ known' \subseteq Objs /\ told' \in [Objs -> Tolds]
  BY <1>1, <1>2, CallCloseTypes
<1>4. m_wbuffer' \in Owners /\ m_read' \in Owners /\ m_write' \in Owners /\ m_client' \in Owners
  BY <1>2, ForgetTypes
<1>5. stale' \in BOOLEAN
  BY <1>2, MeetTypes
<1> QED
  BY <1>2, <1>3, <1>4, <1>5 DEF TypeOK

LEMMA ClosesTypes ==
  ASSUME TypeOK, NEW ops \in SUBSET {"timer", "closing", "refused", "failed"}, Closes(ops),
         m_close' \in Owners, m_read' \in Owners
  PROVE  TypeOK' /\ Running.fd \in Fds
<1>1. Running \in Frames /\ Running.op # "call" /\ stack' \in Seq(Frames)
  BY PopFrame DEF TypeOK, Closes, InCallback, Running
<1>2. Running.fd \in Fds /\ Running.obj \in Objs
  BY <1>1, FrameFields
<1>3. /\ epoll' \in [Fds -> States \cup {"none"}] /\ armed' \in [Fds -> BOOLEAN]
      /\ file' \in [Fds -> 0 .. Other] /\ stale' \in BOOLEAN
  BY <1>2, CloseFdTypes, MeetTypes DEF Closes
<1>4. UNCHANGED <<kind, opened, m_client, m_write, m_wbuffer, batch, known, told, leaked>>
  BY DEF Closes
<1> QED
  BY <1>1, <1>2, <1>3, <1>4 DEF TypeOK

LEMMA InitTypes == Init => TypeOK
<1> SUFFICES ASSUME Init PROVE TypeOK
  OBVIOUS
<1>1. Nobody \in Owners /\ Nobody \in [Fds -> 0 .. Other]
  BY Numbers DEF Nobody, Owners
<1>2. opened \in 0 .. MaxOpens
  BY Numbers DEF Init
<1>3. stack \in Seq(Frames)
  BY CallFrame DEF Init
<1>4. /\ kind \in [Objs -> {"none", "listen", "socket", "timer"}]
      /\ epoll \in [Fds -> States \cup {"none"}] /\ armed \in [Fds -> BOOLEAN]
      /\ told \in [Objs -> Tolds]
  BY DEF Init, Tolds
<1> QED
  BY <1>1, <1>2, <1>3, <1>4 DEF Init, TypeOK

\* What callbacks do.
LEMMA CallbackTypes ==
  ASSUME TypeOK, NEW f \in Fds,
         \/ Start(f) \/ Connect(f) \/ ConnectFails(f) \/ SetTimer(f) \/ StopTimer(f)
         \/ SetClient(f) \/ SendBlocked(f) \/ SendFails(f)
  PROVE  TypeOK'
<1>1. ASSUME NEW close \in BOOLEAN, opened' \in Objs, opened' \in 0 .. MaxOpens, Register(f, close)
      PROVE  /\ m_client' \in Owners /\ m_close' \in Owners /\ told' \in [Objs -> Tolds]
             /\ UNCHANGED <<m_read, m_write, m_wbuffer, batch, stack, known, leaked, stale>>
  <2>1. (IF close THEN opened' ELSE None) \in 0 .. MaxOpens
    BY <1>1, Numbers
  <2>2. m_client' \in Owners /\ m_close' \in Owners
    BY <1>1, <2>1 DEF Register, TypeOK, Owners
  <2>3. told' \in [Objs -> Tolds]
    BY <1>1 DEF Register, TypeOK, Tolds
  <2> QED
    BY <1>1, <2>2, <2>3 DEF Register
<1>2. CASE Start(f)
  <2>1. /\ opened' \in Objs /\ opened' \in 0 .. MaxOpens
        /\ file' \in [Fds -> 0 .. Other]
        /\ kind' \in [Objs -> {"none", "listen", "socket", "timer"}]
        /\ epoll' \in [Fds -> States \cup {"none"}]
        /\ armed' \in [Fds -> BOOLEAN]
    BY <1>2, OpenTypes DEF Start, States
  <2>2. PICK close \in BOOLEAN : Register(f, close)
    BY <1>2, FdAssumption DEF Start
  <2> QED
    BY <1>1, <2>1, <2>2 DEF TypeOK
<1>3. CASE Connect(f)
  <2>1. /\ opened' \in Objs /\ opened' \in 0 .. MaxOpens
        /\ file' \in [Fds -> 0 .. Other]
        /\ kind' \in [Objs -> {"none", "listen", "socket", "timer"}]
        /\ epoll' \in [Fds -> States \cup {"none"}]
        /\ armed' \in [Fds -> BOOLEAN]
    BY <1>3, OpenTypes DEF Connect, States
  <2>2. PICK close \in BOOLEAN : Register(f, close)
    BY <1>3 DEF Connect
  <2> QED
    BY <1>1, <2>1, <2>2 DEF TypeOK
<1>4. CASE ConnectFails(f)
  <2>1. opened' \in Objs /\ opened' \in 0 .. MaxOpens /\ opened' \in 0 .. Other
    BY <1>4, Numbers DEF ConnectFails, TypeOK
  <2>2. file' \in [Fds -> 0 .. Other]
    BY <1>4, <2>1 DEF ConnectFails, TypeOK
  <2>3. kind' \in [Objs -> {"none", "listen", "socket", "timer"}]
    BY <1>4, <2>1 DEF ConnectFails, TypeOK
  <2>4. [op |-> "failed", fd |-> f, obj |-> opened'] \in Frames
    BY <2>1, SimpleFrame
  <2>5. stack' \in Seq(Frames)
    BY <1>4, <2>4, PushFrame DEF ConnectFails, Push, TypeOK
  <2>6. known' \subseteq Objs /\ told' \in [Objs -> Tolds]
    BY <1>4, TellTypes DEF ConnectFails
  <2> QED
    BY <1>4, <2>1, <2>2, <2>3, <2>5, <2>6 DEF ConnectFails, TypeOK, tables
<1>5. CASE SetTimer(f)
  <2>1. PICK state \in {"timer", "rtimer"} : Open(f, "timer", state, FALSE)
    BY <1>5 DEF SetTimer
  <2>2. /\ opened' \in Objs /\ opened' \in 0 .. MaxOpens
        /\ file' \in [Fds -> 0 .. Other]
        /\ kind' \in [Objs -> {"none", "listen", "socket", "timer"}]
        /\ epoll' \in [Fds -> States \cup {"none"}]
        /\ armed' \in [Fds -> BOOLEAN]
    BY <2>1, OpenTypes DEF States
  <2>3. m_read' \in Owners /\ known' \subseteq Objs
    BY <1>5, <2>2 DEF SetTimer, TypeOK, Owners
  <2> QED
    BY <1>5, <2>2, <2>3 DEF SetTimer, TypeOK
<1>6. CASE StopTimer(f)
  <2>1. /\ epoll' \in [Fds -> States \cup {"none"}] /\ armed' \in [Fds -> BOOLEAN]
        /\ file' \in [Fds -> 0 .. Other]
    BY <1>6, CloseFdTypes DEF StopTimer
  <2>2. m_read' \in Owners /\ known' \subseteq Objs
    BY <1>6, Numbers DEF StopTimer, TypeOK, Owners
  <2> QED
    BY <1>6, <2>1, <2>2 DEF StopTimer, TypeOK
<1>7. CASE SetClient(f)
  <2>1. Running \in Frames /\ Running.op # "call"
    BY <1>7, PopFrame DEF SetClient, InCallback, Running, TypeOK
  <2>2. Running.obj \in Objs /\ Running.obj \in 0 .. MaxOpens
    BY <2>1, FrameFields, Numbers
  <2>3. m_read' \in Owners /\ m_write' \in Owners /\ m_close' \in Owners
    BY <1>7, <2>2 DEF SetClient, TypeOK, Owners
  <2>4. known' \subseteq Objs /\ told' \in [Objs -> Tolds]
    BY <1>7, <2>2 DEF SetClient, TypeOK, Tolds
  <2> QED
    BY <1>7, <2>3, <2>4 DEF SetClient, TypeOK, kernel
<1>8. CASE SendBlocked(f)
  <2>1. epoll' \in [Fds -> States \cup {"none"}] /\ armed' \in [Fds -> BOOLEAN]
    BY <1>8, ModTypes DEF SendBlocked
  <2>2. file[f] \in 0 .. MaxOpens
    BY <1>8, Numbers DEF SendBlocked, CanSend, TypeOK
  <2>3. m_wbuffer' \in Owners
    BY <1>8, <2>2 DEF SendBlocked, TypeOK, Owners
  <2> QED
    BY <1>8, <2>1, <2>3 DEF SendBlocked, TypeOK
<1>9. CASE SendFails(f)
  <2>1. file[f] \in Objs /\ stack \in Seq(Frames)
    BY <1>9 DEF SendFails, CanSend, TypeOK
  <2> QED
    BY <1>9, <2>1, ClientcloseTypes DEF SendFails
<1> QED
  BY <1>2, <1>3, <1>4, <1>5, <1>6, <1>7, <1>8, <1>9

\* How callbacks end.
LEMMA ReturnTypes ==
  ASSUME TypeOK, Return \/ ReturnAccept \/ ReturnClose \/ ReturnTimer \/ Throw
  PROVE  TypeOK'
<1>1. CASE Return
  <2>1. stack' \in Seq(Frames)
    BY <1>1, PopFrame DEF Return, InCallback, TypeOK
  <2> QED
    BY <1>1, <2>1 DEF Return, TypeOK, kernel, tables
<1>2. CASE ReturnAccept
  <2>1. Running \in Frames /\ Running.op = "accept" /\ stack' \in Seq(Frames)
    BY <1>2, PopFrame DEF ReturnAccept, InCallback, Running, TypeOK
  <2>2. Running.fd \in Fds /\ Running.from \in Fds
    BY <2>1, FrameFields
  <2>3. m_close' \in Owners
    BY <1>2, <2>2 DEF ReturnAccept, TypeOK, Owners
  <2> QED
    BY <1>2, <2>1, <2>3 DEF ReturnAccept, TypeOK, kernel
<1>3. CASE ReturnClose
  <2>1. m_close' \in Owners /\ m_read' \in Owners
    BY <1>3, Numbers DEF ReturnClose, TypeOK, Owners
  <2>2. CASE Closes({"closing", "refused"})
    BY <2>1, <2>2, ClosesTypes
  <2>3. CASE Closes({"failed"})
    BY <2>1, <2>3, ClosesTypes
  <2> QED
    BY <1>3, <2>2, <2>3 DEF ReturnClose
<1>4. CASE ReturnTimer
  <2>1. m_close' \in Owners /\ m_read' \in Owners
    BY <1>4, Numbers DEF ReturnTimer, TypeOK, Owners
  <2> QED
    BY <1>4, <2>1, ClosesTypes DEF ReturnTimer
<1>5. CASE Throw
  <2>1. ASSUME NEW i \in DOMAIN stack,
               stack[i].op \in {"closing", "refused", "failed", "timer"}
        PROVE  stack[i].obj \in Objs
    <3>1. stack[i] \in Frames
      BY DEF TypeOK
    <3> QED
      BY <2>1, <3>1, FrameFields
  <2>2. leaked' \subseteq Objs
    BY <1>5, <2>1 DEF Throw, TypeOK
  <2>3. stack' \in Seq(Frames)
    BY <1>5 DEF Throw
  <2> QED
    BY <1>5, <2>2, <2>3 DEF Throw, TypeOK, kernel, tables
<1> QED
  BY <1>1, <1>2, <1>3, <1>4, <1>5

\* The handlers of events.
LEMMA EventTypes ==
  ASSUME TypeOK, NEW e \in batch,
         OnTimer(e) \/ OnRtimer(e) \/ OnAccept(e) \/ OnConnect(e) \/ OnRefused(e) \/ OnClient(e)
  PROVE  TypeOK'
<1>1. e.fd \in Fds /\ e.obj \in Objs /\ e.events \in SUBSET Bits
  BY DEF TypeOK, Events
<1>2. ASSUME NEW state, Dispatch(e, state)
      PROVE  batch' \subseteq Events /\ stale' \in BOOLEAN /\ stack = <<>>
  BY <1>2, MeetTypes DEF Dispatch, TypeOK
<1>3. ASSUME NEW r \in Frames, Push(r) \/ UNCHANGED stack
      PROVE  stack' \in Seq(Frames)
  BY <1>3, PushFrame DEF Push, TypeOK
<1>4. CASE OnTimer(e)
  <2>1. batch' \subseteq Events /\ stale' \in BOOLEAN
    BY <1>2, <1>4 DEF OnTimer
  <2>2. [op |-> "timer", fd |-> e.fd, obj |-> e.obj] \in Frames
    BY <1>1, SimpleFrame
  <2>3. stack' \in Seq(Frames)
    BY <1>3, <1>4, <2>2 DEF OnTimer
  <2>4. /\ epoll' \in [Fds -> States \cup {"none"}] /\ armed' \in [Fds -> BOOLEAN]
        /\ file' \in [Fds -> 0 .. Other] /\ known' \subseteq Objs
    BY <1>1, <1>4, CloseFdTypes DEF OnTimer, TypeOK
  <2> QED
    BY <1>4, <2>1, <2>3, <2>4 DEF OnTimer, TypeOK, tables
<1>5. CASE OnRtimer(e)
  <2>1. batch' \subseteq Events /\ stale' \in BOOLEAN
    BY <1>2, <1>5 DEF OnRtimer
  <2>2. stack' \in Seq(Frames)
    BY <1>3, <1>5, CallFrame DEF OnRtimer
  <2> QED
    BY <1>5, <2>1, <2>2 DEF OnRtimer, TypeOK, kernel, tables
<1>6. CASE OnAccept(e)
  <2>1. batch' \subseteq Events /\ stale' \in BOOLEAN
    BY <1>2, <1>6 DEF OnAccept
  <2>2. CASE UNCHANGED <<kernel, stack>>
    BY <1>6, <2>1, <2>2 DEF OnAccept, TypeOK, kernel, tables
  <2>3. ASSUME NEW f \in Fds, Open(f, "socket", "client", FALSE),
               Push([op |-> "accept", fd |-> f, obj |-> opened', from |-> e.fd])
        PROVE  TypeOK'
    <3>1. /\ opened' \in Objs /\ opened' \in 0 .. MaxOpens
          /\ file' \in [Fds -> 0 .. Other]
          /\ kind' \in [Objs -> {"none", "listen", "socket", "timer"}]
          /\ epoll' \in [Fds -> States \cup {"none"}]
          /\ armed' \in [Fds -> BOOLEAN]
      BY <2>3, OpenTypes DEF States
    <3>2. [op |-> "accept", fd |-> f, obj |-> opened', from |-> e.fd] \in Frames
      BY <1>1, <3>1, AcceptFrame
    <3>3. stack' \in Seq(Frames)
      BY <1>3, <2>3, <3>2
    <3> QED
      BY <1>6, <2>1, <3>1, <3>3 DEF OnAccept, TypeOK, tables
  <2> QED
    BY <1>6, <2>2, <2>3 DEF OnAccept
<1>7. CASE OnConnect(e)
  <2>1. batch' \subseteq Events /\ stale' \in BOOLEAN
    BY <1>2, <1>7 DEF OnConnect
  <2>2. [op |-> "connected", fd |-> e.fd, obj |-> e.obj] \in Frames
    BY <1>1, SimpleFrame
  <2>3. stack' \in Seq(Frames)
    BY <1>3, <1>7, <2>2 DEF OnConnect
  <2>4. epoll' \in [Fds -> States \cup {"none"}] /\ armed' \in [Fds -> BOOLEAN]
    BY <1>1, <1>7, ModTypes DEF OnConnect
  <2> QED
    BY <1>7, <2>1, <2>3, <2>4 DEF OnConnect, TypeOK, tables
<1>8. CASE OnRefused(e)
  <2>1. batch' \subseteq Events /\ stale' \in BOOLEAN
    BY <1>2, <1>8 DEF OnRefused
  <2>2. [op |-> "refused", fd |-> e.fd, obj |-> e.obj] \in Frames /\ stack \in Seq(Frames)
    BY <1>1, SimpleFrame DEF TypeOK
  <2>3. /\ epoll' \in [Fds -> States \cup {"none"}] /\ armed' \in [Fds -> BOOLEAN]
        /\ file' \in [Fds -> 0 .. Other]
        /\ stack' \in Seq(Frames)
        /\ known' \subseteq Objs /\ told' \in [Objs -> Tolds]
    BY <1>1, <1>8, <2>2, CallCloseTypes DEF OnRefused
  <2> QED
    BY <1>8, <2>1, <2>3 DEF OnRefused, TypeOK, tables
<1>9. CASE OnClient(e)
  <2>1. batch' \subseteq Events /\ stale' \in BOOLEAN
    BY <1>2, <1>9 DEF OnClient
  <2>2. [op |-> "client", fd |-> e.fd, obj |-> e.obj, rest |-> e.events] \in Frames
    BY <1>1, ClientFrame
  <2>3. stack' \in Seq(Frames)
    BY <1>3, <1>9, <2>2 DEF OnClient
  <2> QED
    BY <1>9, <2>1, <2>3 DEF OnClient, TypeOK, kernel, tables
<1> QED
  BY <1>4, <1>5, <1>6, <1>7, <1>8, <1>9

\* The rest of __onclient.
LEMMA ClientTypes ==
  ASSUME TypeOK, ClientIn \/ ClientOut \/ ClientHup \/ ClientEnd
  PROVE  TypeOK'
<1>1. InClient /\ Running.op = "client"
  BY DEF ClientIn, ClientOut, ClientHup, ClientEnd, InClient
<1>2. Running \in Frames /\ Tail(stack) \in Seq(Frames)
  BY <1>1, PopFrame DEF InClient, Running, TypeOK
<1>3. Running.fd \in Fds /\ Running.obj \in Objs /\ Running.rest \in SUBSET Bits
  BY <1>1, <1>2, FrameFields
<1>4. ASSUME NEW r \in SUBSET Bits PROVE Left(r) \in Seq(Frames)
  <2>1. [Running EXCEPT !.rest = r] \in Frames
    BY <1>1, <1>2, RestFrame
  <2> QED
    BY <1>2, <2>1, PushFrame DEF Left
<1>5. CASE ClientIn
  <2>1. Left(Running.rest \ {"in"}) \in Seq(Frames)
    BY <1>3, <1>4
  <2>2. <<[op |-> "call"]>> \o Left(Running.rest \ {"in"}) \in Seq(Frames)
    BY <2>1, CallFrame, PushFrame
  <2>3. stack' \in Seq(Frames)
    BY <1>5, <2>1, <2>2 DEF ClientIn
  <2>4. stale' \in BOOLEAN
    BY <1>5, MeetTypes DEF ClientIn
  <2> QED
    BY <1>5, <2>3, <2>4 DEF ClientIn, TypeOK, kernel, tables
<1>6. CASE ClientOut
  <2> DEFINE f == Running.fd
             left == Left(Running.rest \ {"out"})
  <2>1. left \in Seq(Frames)
    BY <1>3, <1>4
  <2>2. CASE Clientclose(f, Running.obj, left)
    BY <1>3, <2>1, <2>2, ClientcloseTypes
  <2>3. CASE /\ \/ m_write[f] = None /\ UNCHANGED <<epoll, armed, m_wbuffer>>
                \/ m_write[f] # None /\ m_wbuffer[f] # None /\ ModEvent(f, TRUE) /\ UNCHANGED m_wbuffer
                \/ /\ m_write[f] # None /\ ModEvent(f, FALSE)
                   /\ m_wbuffer' = [m_wbuffer EXCEPT ![f] = None]
             /\ stack' = left
             /\ Meet(f, Running.obj)
             /\ UNCHANGED <<file, kind, opened, m_client, m_close, m_read, m_write, batch, known,
                            told, leaked>>
    <3>1. epoll' \in [Fds -> States \cup {"none"}] /\ armed' \in [Fds -> BOOLEAN]
      BY <1>3, <2>3, ModTypes DEF TypeOK
    <3>2. m_wbuffer' \in Owners
      BY <2>3, Numbers DEF TypeOK, Owners
    <3>3. stale' \in BOOLEAN
      BY <2>3, MeetTypes
    <3> QED
      BY <2>1, <2>3, <3>1, <3>2, <3>3 DEF TypeOK
  <2> QED
    BY <1>6, <2>2, <2>3 DEF ClientOut
<1>7. CASE ClientHup
  <2>1. Left({}) \in Seq(Frames)
    BY <1>4
  <2> QED
    BY <1>3, <1>7, <2>1, ClientcloseTypes DEF ClientHup
<1>8. CASE ClientEnd
  BY <1>2, <1>8 DEF ClientEnd, TypeOK, kernel, tables
<1> QED
  BY <1>5, <1>6, <1>7, <1>8

LEMMA StepTypes == TypeOK /\ [Next]_vars => TypeOK'
<1> SUFFICES ASSUME TypeOK, [Next]_vars PROVE TypeOK'
  OBVIOUS
<1>1. ASSUME NEW f \in Fds, OtherThread(f) PROVE TypeOK'
  <2>1. file' \in [Fds -> 0 .. Other]
    BY <1>1, Numbers DEF OtherThread, TypeOK
  <2> QED
    BY <1>1, <2>1 DEF OtherThread, TypeOK, tables
<1>2. CASE Wait
  <2>1. PICK F \in SUBSET {f \in Fds : epoll[f] # "none" /\ file[f] \in Objs \ leaked} :
          \E bits \in [F -> SUBSET Bits] :
            batch' = {[fd |-> f, obj |-> file[f], state |-> epoll[f], events |-> bits[f]] : f \in F}
    BY <1>2 DEF Wait
  <2>2. PICK bits \in [F -> SUBSET Bits] :
          batch' = {[fd |-> f, obj |-> file[f], state |-> epoll[f], events |-> bits[f]] : f \in F}
    BY <2>1
  <2>3. \A f \in F : f \in Fds /\ file[f] \in Objs /\ epoll[f] \in States /\ bits[f] \in SUBSET Bits
    BY DEF TypeOK
  <2>4. batch' \subseteq Events
    BY <2>2, <2>3 DEF Events
  <2> QED
    BY <1>2, <2>4 DEF Wait, TypeOK, kernel, tables
<1>3. CASE OnEvent
  <2>1. stack' \in Seq(Frames)
    BY <1>3, CallFrame, PushFrame DEF OnEvent, Push, TypeOK
  <2> QED
    BY <1>3, <2>1 DEF OnEvent, TypeOK, kernel, tables
<1>4. CASE UNCHANGED vars
  BY <1>4 DEF vars, kernel, tables, TypeOK
<1> QED
  BY <1>1, <1>2, <1>3, <1>4, CallbackTypes, ReturnTypes, EventTypes, ClientTypes DEF Next

\* Every reachable state of the descriptor tables is well typed.
THEOREM FdTypes == Spec => []TypeOK
  BY InitTypes, StepTypes, PTL DEF Spec

-----------------------------------------------------------------------------
(* One owner for each descriptor: the inductive invariant *)

\* start is given no close callback.
NoListenClose == TRUE \notin ListenCloses

\* Frames whose callers go on with closing a descriptor, and those of the
\* handlers of a connection.
Closers == {"closing", "refused", "failed", "timer"}
Handlers == {"client", "connected", "accept"}

On(s) == {s[i] : i \in DOMAIN s}

\* What the frames of s are going to close.
Closing(s) == {r.obj : r \in {q \in On(s) : q.op \in Closers}}

\* Handlers run at the bottom of the stack, and no two frames close the same.
Shape(s) ==
  /\ \A i \in DOMAIN s : s[i].op \in Handlers => i = Len(s)
  /\ \A i, j \in DOMAIN s :
       s[i].op \in Closers /\ s[j].op \in Closers /\ s[i].obj = s[j].obj => i = j

\* What a frame's caller relies on: that nobody closes the descriptor before
\* it does, or, if it is the handler of a connection, that this one is not
\* connecting any more.
FrameOk(r) ==
  /\ r.op \in Closers => file[r.fd] = r.obj /\ r.obj \notin known
  /\ r.op = "timer" => kind[r.obj] = "timer"
  /\ r.op \in Closers \ {"timer"} =>
       /\ kind[r.obj] = "socket" /\ epoll[r.fd] = "none" /\ told[r.obj] \in {"called", "twice"}
       /\ m_read[r.fd] = None /\ m_write[r.fd] = None /\ m_wbuffer[r.fd] = None
       /\ r.op = "failed" => m_close[r.fd] = None
  /\ r.op \in Handlers =>
       kind[r.obj] = "socket" /\ (file[r.fd] = r.obj => epoll[r.fd] # "connect")
  /\ r.op \in {"connected", "accept"} /\ file[r.fd] = r.obj => r.obj \notin leaked
  /\ r.op = "accept" => file[r.from] \in Objs /\ kind[file[r.from]] = "listen"

StackOk == Shape(stack) /\ \A r \in On(stack) : FrameOk(r)

KindOf(state) ==
  IF state = "accept" THEN "listen" ELSE IF state \in {"timer", "rtimer"} THEN "timer" ELSE "socket"

\* An event is of the present state of what it is about, if that is open.
EventOk(e) ==
  /\ kind[e.obj] = KindOf(e.state)
  /\ e.state = "accept" => file[e.fd] = e.obj
  /\ file[e.fd] = e.obj => (e.state = "connect" <=> epoll[e.fd] = "connect")

OneEach(b) == \A d, e \in b : d.fd = e.fd => d = e

BatchOk == OneEach(batch) /\ \A e \in batch : EventOk(e)

\* The tables of a descriptor are of what it refers to.
TablesOk(f) ==
  /\ \A o \in {m_close[f], m_read[f], m_write[f], m_wbuffer[f]} : o \in {None, file[f]}
  /\ m_wbuffer[f] # None => epoll[f] = "client" /\ armed[f]
  /\ file[f] \notin Objs =>
       /\ epoll[f] = "none"
       /\ m_close[f] = None /\ m_read[f] = None /\ m_write[f] = None /\ m_wbuffer[f] = None

ListenerOk(f, o) ==
  kind[o] = "listen" => epoll[f] = "accept" /\ m_close[f] = None /\ o \notin known

TimerOk(f, o) ==
  kind[o] = "timer" =>
    /\ epoll[f] \in {"timer", "rtimer"}
    /\ m_close[f] = None /\ m_write[f] = None /\ m_wbuffer[f] = None
    /\ o \in known => m_read[f] = o

SocketOk(f, o) ==
  kind[o] = "socket" =>
    /\ epoll[f] \in {"connect", "client", "none"}
    /\ o \in known => m_close[f] = o
    /\ o \in leaked => epoll[f] = "none"
    /\ epoll[f] = "connect" =>
         m_read[f] = None /\ m_write[f] = None /\ m_wbuffer[f] = None /\ o \notin known
    /\ epoll[f] = "none" => o \in leaked \cup Closing(stack)

\* The close callback is called once, by who is going to close f.
CloseOk(f, o) ==
  /\ told[o] = "owed" => m_close[f] = o
  /\ told[o] = "none" => m_close[f] = None
  /\ told[o] \in {"called", "twice"} => o \in leaked \cup Closing(stack)

\* What holds of f while it is open as o.
OpenOk(f, o) ==
  /\ o <= opened /\ kind[o] # "none"
  /\ ListenerOk(f, o) /\ TimerOk(f, o) /\ SocketOk(f, o) /\ CloseOk(f, o)

SlotOk(f) == TablesOk(f) /\ (file[f] \in Objs => OpenOk(f, file[f]))

\* What holds of o wherever it is.
ObjOk(o) ==
  /\ o \in known => IsOpen(o) /\ o \notin leaked
  /\ told[o] = "twice" => o \in leaked
  /\ told[o] = "owed" => IsOpen(o)
  /\ o > opened => kind[o] = "none" /\ told[o] = "none" /\ o \notin leaked

OneFdEach == \A f, g \in Fds : file[f] = file[g] /\ file[f] \in Objs => f = g

Owned ==
  /\ OneFdEach
  /\ \A f \in Fds : SlotOk(f)
  /\ \A o \in Objs : ObjOk(o)
  /\ StackOk
  /\ BatchOk

OwnInv == ~stale => Owned

-----------------------------------------------------------------------------
(* Stacks *)

LEMMA PushShape ==
  ASSUME NEW s \in Seq(Frames), NEW r \in Frames, Shape(s),
         r.op \in Handlers => s = <<>>,
         r.op \in Closers => r.obj \notin Closing(s)
  PROVE  Shape(<<r>> \o s)
<1> DEFINE t == <<r>> \o s
           n == Len(s)
<1>1. /\ n \in Nat /\ DOMAIN s = 1 .. n /\ DOMAIN t = 1 .. n + 1 /\ Len(t) = n + 1
      /\ t[1] = r /\ \A i \in 2 .. n + 1 : t[i] = s[i - 1]
  OBVIOUS
<1>2. s = <<>> => n = 0
  OBVIOUS
<1>3. \A i \in DOMAIN s : s[i].op \in Closers => s[i].obj \in Closing(s)
  BY DEF Closing, On
<1> HIDE DEF t, n
<1>4. ASSUME NEW i \in DOMAIN t PROVE i = 1 \/ (i - 1 \in DOMAIN s /\ t[i] = s[i - 1])
  BY <1>1
<1>5. ASSUME NEW i \in DOMAIN t, t[i].op \in Handlers PROVE i = n + 1
  <2>1. CASE i = 1
    BY <1>1, <1>2, <1>5, <2>1
  <2>2. CASE i - 1 \in DOMAIN s /\ t[i] = s[i - 1]
    <3>1. i - 1 = n
      BY <1>5, <2>2 DEF Shape, n
    <3> QED
      BY <1>1, <3>1
  <2> QED
    BY <1>4, <2>1, <2>2
<1>6. ASSUME NEW i \in DOMAIN t, NEW j \in DOMAIN t, t[i].op \in Closers, t[j].op \in Closers,
             t[i].obj = t[j].obj
      PROVE  i = j
  <2>1. CASE i = 1 /\ j # 1
    <3>1. t[j] = s[j - 1] /\ j - 1 \in DOMAIN s
      BY <1>4, <2>1
    <3> QED
      BY <1>1, <1>3, <1>6, <2>1, <3>1
  <2>2. CASE i # 1 /\ j = 1
    <3>1. t[i] = s[i - 1] /\ i - 1 \in DOMAIN s
      BY <1>4, <2>2
    <3> QED
      BY <1>1, <1>3, <1>6, <2>2, <3>1
  <2>3. CASE i # 1 /\ j # 1
    <3>1. t[i] = s[i - 1] /\ i - 1 \in DOMAIN s /\ t[j] = s[j - 1] /\ j - 1 \in DOMAIN s
      BY <1>4, <2>3
    <3>2. i - 1 = j - 1
      BY <1>6, <3>1 DEF Shape
    <3> QED
      BY <1>1, <3>2
  <2> QED
    BY <2>1, <2>2, <2>3
<1> QED
  BY <1>1, <1>5, <1>6 DEF Shape, t

LEMMA PushOn ==
  ASSUME NEW s \in Seq(Frames), NEW r \in Frames
  PROVE  On(<<r>> \o s) = {r} \cup On(s)
<1> DEFINE t == <<r>> \o s
           n == Len(s)
<1>1. /\ n \in Nat /\ DOMAIN s = 1 .. n /\ DOMAIN t = 1 .. n + 1
      /\ t[1] = r /\ \A i \in 2 .. n + 1 : t[i] = s[i - 1]
  OBVIOUS
<1> HIDE DEF t, n
<1>2. ASSUME NEW i \in DOMAIN t PROVE t[i] \in {r} \cup On(s)
  <2>1. i = 1 \/ (i - 1 \in DOMAIN s /\ t[i] = s[i - 1])
    BY <1>1
  <2> QED
    BY <1>1, <2>1 DEF On
<1>3. ASSUME NEW i \in DOMAIN s PROVE s[i] \in On(t)
  <2>1. i + 1 \in DOMAIN t /\ i + 1 \in 2 .. n + 1 /\ i + 1 - 1 = i
    BY <1>1
  <2>2. t[i + 1] = s[i]
    BY <1>1, <2>1
  <2> QED
    BY <2>1, <2>2 DEF On
<1>4. r \in On(t)
  <2>1. 1 \in DOMAIN t /\ t[1] = r
    BY <1>1
  <2> QED
    BY <2>1 DEF On
<1>5. On(t) = {r} \cup On(s)
  BY <1>2, <1>3, <1>4 DEF On
<1> QED
  BY <1>5 DEF t

LEMMA PushClosing ==
  ASSUME NEW s \in Seq(Frames), NEW r \in Frames
  PROVE  /\ r.op \in Closers => Closing(<<r>> \o s) = {r.obj} \cup Closing(s)
         /\ r.op \notin Closers => Closing(<<r>> \o s) = Closing(s)
  BY PushOn DEF Closing

LEMMA NoFrames == On(<<>>) = {} /\ Closing(<<>>) = {} /\ Shape(<<>>)
  BY DEF On, Closing, Shape

LEMMA PopStack ==
  ASSUME NEW s \in Seq(Frames), s # <<>>
  PROVE  s = <<Head(s)>> \o Tail(s) /\ On(s) = {Head(s)} \cup On(Tail(s))
<1>1. Head(s) \in Frames /\ Tail(s) \in Seq(Frames)
  BY PopFrame
<1>2. s = <<Head(s)>> \o Tail(s)
  OBVIOUS
<1> QED
  BY <1>1, <1>2, PushOn

LEMMA PopShape ==
  ASSUME NEW s \in Seq(Frames), s # <<>>, Shape(s)
  PROVE  /\ Shape(Tail(s))
         /\ Head(s).op \in Handlers => Tail(s) = <<>>
         /\ Head(s).op \in Closers => Head(s).obj \notin Closing(Tail(s))
<1> DEFINE t == Tail(s)
           n == Len(s)
<1>1. /\ n \in Nat \ {0} /\ DOMAIN s = 1 .. n /\ DOMAIN t = 1 .. n - 1 /\ Len(t) = n - 1
      /\ t \in Seq(Frames)
      /\ \A i \in 1 .. n - 1 : t[i] = s[i + 1]
      /\ Head(s) = s[1]
  OBVIOUS
<1>2. n - 1 = 0 => t = <<>>
  <2> SUFFICES ASSUME n - 1 = 0 PROVE t = <<>>
    OBVIOUS
  <2>1. t \in Seq(Frames) /\ Len(t) = 0
    BY <1>1
  <2> HIDE DEF t
  <2> QED
    BY <2>1
<1> HIDE DEF t, n
<1>3. \A i \in DOMAIN t : i + 1 \in DOMAIN s /\ t[i] = s[i + 1]
  BY <1>1
<1>4. ASSUME NEW i \in DOMAIN t, t[i].op \in Handlers PROVE i = n - 1
  <2>1. i + 1 = n
    BY <1>3, <1>4 DEF Shape, n
  <2> QED
    BY <1>1, <2>1
<1>5. ASSUME NEW i \in DOMAIN t, NEW j \in DOMAIN t, t[i].op \in Closers, t[j].op \in Closers,
             t[i].obj = t[j].obj
      PROVE  i = j
  <2>1. i + 1 = j + 1
    BY <1>3, <1>5 DEF Shape
  <2> QED
    BY <1>1, <2>1
<1>6. Shape(t)
  BY <1>1, <1>4, <1>5 DEF Shape
<1>7. ASSUME Head(s).op \in Handlers PROVE t = <<>>
  <2>1. 1 \in DOMAIN s /\ s[1].op \in Handlers
    BY <1>1, <1>7
  <2>2. 1 = n
    BY <2>1 DEF Shape, n
  <2> QED
    BY <1>1, <1>2, <2>2
<1>8. ASSUME Head(s).op \in Closers, NEW i \in DOMAIN t, t[i].op \in Closers
      PROVE  t[i].obj # Head(s).obj
  <2>1. 1 \in DOMAIN s /\ i + 1 \in DOMAIN s /\ i + 1 # 1 /\ t[i] = s[i + 1] /\ s[1] = Head(s)
    BY <1>1, <1>3
  <2> QED
    BY <1>8, <2>1 DEF Shape
<1>9. Head(s).op \in Closers => Head(s).obj \notin Closing(t)
  BY <1>8 DEF Closing, On
<1> QED
  BY <1>6, <1>7, <1>9 DEF t

-----------------------------------------------------------------------------
(* Steps that touch the descriptors F and what is numbered O *)

SameAt(g) ==
  /\ file'[g] = file[g] /\ epoll'[g] = epoll[g] /\ armed'[g] = armed[g]
  /\ m_close'[g] = m_close[g] /\ m_read'[g] = m_read[g] /\ m_write'[g] = m_write[g]
  /\ m_wbuffer'[g] = m_wbuffer[g]

SameOf(p) ==
  /\ kind'[p] = kind[p] /\ told'[p] = told[p]
  /\ p \in known' <=> p \in known
  /\ p \in leaked' <=> p \in leaked
  /\ p \in Closing(stack') <=> p \in Closing(stack)

\* All else stays, and what is open is open where it was.
Local(F, O) ==
  /\ \A g \in Fds \ F : SameAt(g) /\ file[g] \notin O
  /\ \A p \in Objs \ O : SameOf(p)
  /\ \A g \in F : /\ file[g] \in Objs => file[g] \in O
                  /\ file'[g] \in Objs => file'[g] \in O
                  /\ file[g] \in Objs /\ kind[file[g]] = "listen" =>
                       file'[g] = file[g] /\ kind'[file[g]] = "listen"
  /\ opened <= opened'

LEMMA SlotsElsewhere ==
  ASSUME TypeOK, TypeOK', NEW F \in SUBSET Fds, NEW O \in SUBSET Objs, Local(F, O),
         NEW g \in Fds \ F, SlotOk(g)
  PROVE  SlotOk(g)'
<1>1. SameAt(g) /\ file[g] \notin O
  BY DEF Local
<1>2. TablesOk(g)'
  BY <1>1 DEF SlotOk, TablesOk, SameAt
<1>3. ASSUME file'[g] \in Objs PROVE OpenOk(g, file[g])'
  <2> DEFINE o == file[g]
  <2>1. o \in Objs \ O /\ file'[g] = o /\ OpenOk(g, o)
    BY <1>1, <1>3 DEF SameAt, SlotOk
  <2> HIDE DEF o
  <2>2. SameOf(o)
    BY <2>1 DEF Local
  <2>3. o <= opened' /\ kind'[o] # "none"
    BY <2>1, <2>2, Numbers DEF Local, OpenOk, SameOf, TypeOK
  <2>4. /\ kind'[o] = "listen" => epoll'[g] = "accept" /\ m_close'[g] = None /\ o \notin known'
        /\ kind'[o] = "timer" =>
              /\ epoll'[g] \in {"timer", "rtimer"}
              /\ m_close'[g] = None /\ m_write'[g] = None /\ m_wbuffer'[g] = None
              /\ o \in known' => m_read'[g] = o
    BY <1>1, <2>1, <2>2 DEF OpenOk, ListenerOk, TimerOk, SameOf, SameAt
  <2>5. kind'[o] = "socket" =>
          /\ epoll'[g] \in {"connect", "client", "none"}
          /\ o \in known' => m_close'[g] = o
          /\ o \in leaked' => epoll'[g] = "none"
          /\ epoll'[g] = "connect" =>
               m_read'[g] = None /\ m_write'[g] = None /\ m_wbuffer'[g] = None /\ o \notin known'
          /\ epoll'[g] = "none" => o \in leaked' \cup Closing(stack')
    BY <1>1, <2>1, <2>2 DEF OpenOk, SocketOk, SameOf, SameAt
  <2>6. /\ told'[o] = "owed" => m_close'[g] = o
        /\ told'[o] = "none" => m_close'[g] = None
        /\ told'[o] \in {"called", "twice"} => o \in leaked' \cup Closing(stack')
    BY <1>1, <2>1, <2>2 DEF OpenOk, CloseOk, SameOf, SameAt
  <2>7. file'[g] = o
    BY <2>1
  <2> QED
    BY <2>3, <2>4, <2>5, <2>6, <2>7 DEF OpenOk, ListenerOk, TimerOk, SocketOk, CloseOk
<1> QED
  BY <1>2, <1>3 DEF SlotOk

LEMMA ObjsElsewhere ==
  ASSUME TypeOK, TypeOK', NEW F \in SUBSET Fds, NEW O \in SUBSET Objs, Local(F, O),
         NEW p \in Objs \ O, ObjOk(p)
  PROVE  ObjOk(p)'
<1>1. SameOf(p)
  BY DEF Local
<1>2. IsOpen(p) => IsOpen(p)'
  <2> SUFFICES ASSUME NEW g \in Fds, file[g] = p PROVE \E h \in Fds : file'[h] = p
    BY DEF IsOpen
  <2>1. g \notin F
    BY DEF Local
  <2>2. file'[g] = p
    BY <2>1 DEF Local, SameAt
  <2> QED
    BY <2>2
<1>3. p > opened' => p > opened
  BY Numbers DEF Local, TypeOK
<1> QED
  BY <1>1, <1>2, <1>3 DEF ObjOk, SameOf

LEMMA FramesElsewhere ==
  ASSUME TypeOK, TypeOK', NEW F \in SUBSET Fds, NEW O \in SUBSET Objs, Local(F, O),
         NEW r \in Frames, FrameOk(r), r.op # "call" => r.obj \notin O
  PROVE  FrameOk(r)'
<1>1. CASE r.op = "call"
  BY <1>1 DEF FrameOk, Closers, Handlers
<1>2. CASE r.op \in Closers
  <2>1. r.fd \in Fds /\ r.obj \in Objs \ O /\ file[r.fd] = r.obj
    BY <1>2, FrameFields DEF Closers, FrameOk
  <2>2. SameAt(r.fd) /\ SameOf(r.obj)
    BY <2>1 DEF Local
  <2>3. r.op \notin Handlers
    BY <1>2 DEF Closers, Handlers
  <2> QED
    BY <1>2, <2>2, <2>3 DEF FrameOk, SameAt, SameOf, Handlers
<1>3. CASE r.op \in Handlers
  <2>1. r.fd \in Fds /\ r.obj \in Objs \ O
    BY <1>3, FrameFields DEF Handlers
  <2>2. SameOf(r.obj) /\ (r.fd \notin F => SameAt(r.fd)) /\ (r.fd \in F => file'[r.fd] # r.obj)
    BY <2>1 DEF Local
  <2>3. ASSUME r.op = "accept" PROVE file'[r.from] \in Objs /\ kind'[file'[r.from]] = "listen"
    <3>1. r.from \in Fds /\ file[r.from] \in Objs /\ kind[file[r.from]] = "listen"
      BY <2>3, FrameFields DEF FrameOk
    <3>2. CASE r.from \in F
      BY <3>1, <3>2 DEF Local
    <3>3. CASE r.from \notin F
      <4>1. file'[r.from] = file[r.from] /\ SameOf(file[r.from])
        BY <3>1, <3>3 DEF Local, SameAt
      <4> QED
        BY <3>1, <4>1 DEF SameOf
    <3> QED
      BY <3>2, <3>3
  <2>4. r.op \notin Closers
    BY <1>3 DEF Closers, Handlers
  <2> QED
    BY <1>3, <2>2, <2>3, <2>4 DEF FrameOk, SameAt, SameOf, Closers
<1>4. r.op = "call" \/ r.op \in Closers \/ r.op \in Handlers
  BY DEF Frames, Closers, Handlers
<1> QED
  BY <1>1, <1>2, <1>3, <1>4

LEMMA EventsElsewhere ==
  ASSUME TypeOK, TypeOK', NEW F \in SUBSET Fds, NEW O \in SUBSET Objs, Local(F, O),
         NEW e \in Events, EventOk(e), e.obj \notin O
  PROVE  EventOk(e)'
<1>1. e.fd \in Fds /\ e.obj \in Objs \ O
  BY DEF Events
<1>2. SameOf(e.obj) /\ (e.fd \notin F => SameAt(e.fd)) /\ (e.fd \in F => file'[e.fd] # e.obj)
  BY <1>1 DEF Local
<1>3. e.state = "accept" => file'[e.fd] = e.obj
  BY <1>1, <1>2 DEF EventOk, Local, SameAt
<1> QED
  BY <1>2, <1>3 DEF EventOk, SameOf, SameAt

LEMMA LocalStep ==
  ASSUME TypeOK, TypeOK', Owned, NEW F \in SUBSET Fds, NEW O \in SUBSET Objs, Local(F, O),
         \A f, g \in F : file'[f] = file'[g] /\ file'[f] \in Objs => f = g,
         \A g \in F : SlotOk(g)',
         \A p \in O : ObjOk(p)',
         Shape(stack'),
         \A r \in On(stack') :
           (r \in On(stack) /\ (r.op # "call" => r.obj \notin O)) \/ FrameOk(r)',
         OneEach(batch'),
         \A e \in batch' : (e \in batch /\ e.obj \notin O) \/ EventOk(e)'
  PROVE  Owned'
<1>1. OneFdEach'
  <2> SUFFICES ASSUME NEW f \in Fds, NEW g \in Fds, file'[f] = file'[g], file'[f] \in Objs
               PROVE  f = g
    BY DEF OneFdEach
  <2>1. CASE f \in F /\ g \in F
    BY <2>1
  <2>2. CASE f \notin F /\ g \notin F
    BY <2>2 DEF Local, SameAt, Owned, OneFdEach
  <2>3. CASE f \in F <=> g \notin F
    BY <2>3 DEF Local, SameAt
  <2> QED
    BY <2>1, <2>2, <2>3
<1>2. \A g \in Fds : SlotOk(g)'
  <2> SUFFICES ASSUME NEW g \in Fds PROVE SlotOk(g)'
    OBVIOUS
  <2>1. CASE g \notin F
    BY <2>1, SlotsElsewhere DEF Owned
  <2> QED
    BY <2>1
<1>3. \A p \in Objs : ObjOk(p)'
  <2> SUFFICES ASSUME NEW p \in Objs PROVE ObjOk(p)'
    OBVIOUS
  <2>1. CASE p \notin O
    BY <2>1, ObjsElsewhere DEF Owned
  <2> QED
    BY <2>1
<1>4. \A r \in On(stack') : FrameOk(r)'
  <2> SUFFICES ASSUME NEW r \in On(stack'), r \in On(stack), r.op # "call" => r.obj \notin O
               PROVE  FrameOk(r)'
    OBVIOUS
  <2>1. r \in Frames /\ FrameOk(r)
    BY DEF On, TypeOK, Owned, StackOk
  <2> QED
    BY <2>1, FramesElsewhere
<1>5. \A e \in batch' : EventOk(e)'
  <2> SUFFICES ASSUME NEW e \in batch', e \in batch, e.obj \notin O PROVE EventOk(e)'
    OBVIOUS
  <2>1. e \in Events /\ EventOk(e)
    BY DEF TypeOK, Owned, BatchOk
  <2> QED
    BY <2>1, EventsElsewhere
<1> QED
  BY <1>1, <1>2, <1>3, <1>4, <1>5 DEF Owned, StackOk, BatchOk

-----------------------------------------------------------------------------
(* Kinds of steps *)

\* A descriptor which refers to nothing of this loop is not registered.
LEMMA Unused ==
  ASSUME Owned, NEW f \in Fds, file[f] \notin Objs
  PROVE  /\ epoll[f] = "none"
         /\ m_close[f] = None /\ m_read[f] = None /\ m_write[f] = None /\ m_wbuffer[f] = None
  BY DEF Owned, SlotOk, TablesOk

\* Nothing knows of what is opened next.
LEMMA Fresh ==
  ASSUME TypeOK, Owned, opened < MaxOpens, NEW n, n = opened + 1
  PROVE  /\ n \in Objs /\ kind[n] = "none" /\ told[n] = "none" /\ n \notin known /\ n \notin leaked
         /\ \A g \in Fds : file[g] # n
         /\ \A r \in On(stack) : r.op # "call" => r.obj # n
         /\ n \notin Closing(stack)
         /\ \A e \in batch : e.obj # n
<1>1. n \in Objs /\ n > opened /\ opened \in Nat
  BY Numbers DEF TypeOK
<1>2. kind[n] = "none" /\ told[n] = "none" /\ n \notin leaked /\ (n \in known => IsOpen(n))
  BY <1>1 DEF Owned, ObjOk
<1>3. ASSUME NEW g \in Fds, file[g] = n PROVE FALSE
  <2>1. OpenOk(g, n)
    BY <1>1, <1>3 DEF Owned, SlotOk
  <2> QED
    BY <1>2, <2>1 DEF OpenOk
<1>4. n \notin known
  BY <1>2, <1>3 DEF IsOpen
<1>5. ASSUME NEW r \in On(stack), r.op # "call" PROVE r.obj # n
  <2>1. r \in Frames /\ FrameOk(r)
    BY DEF On, TypeOK, Owned, StackOk
  <2>2. r.op \in Handlers \/ r.op = "timer" \/ r.op \in Closers \ {"timer"}
    BY <1>5, <2>1 DEF Frames, Handlers, Closers
  <2> QED
    BY <1>2, <2>1, <2>2 DEF FrameOk
<1>6. n \notin Closing(stack)
  BY <1>5 DEF Closing, Closers
<1>7. ASSUME NEW e \in batch PROVE e.obj # n
  <2>1. kind[e.obj] = KindOf(e.state)
    BY DEF Owned, BatchOk, EventOk
  <2> QED
    BY <1>2, <2>1 DEF KindOf
<1> QED
  BY <1>1, <1>2, <1>3, <1>4, <1>5, <1>6, <1>7

\* The tables of other descriptors stay.
Aside(f) ==
  \A g \in Fds \ {f} :
    /\ file'[g] = file[g] /\ epoll'[g] = epoll[g] /\ armed'[g] = armed[g]
    /\ m_close'[g] = m_close[g] /\ m_read'[g] = m_read[g] /\ m_write'[g] = m_write[g]
    /\ m_wbuffer'[g] = m_wbuffer[g]

\* f is opened as n.
LEMMA OpenStep ==
  ASSUME TypeOK, TypeOK', Owned, NEW f \in Fds, NEW n, n = opened + 1,
         file[f] = None, opened < MaxOpens, opened' = n, file'[f] = n, Aside(f),
         \A p \in Objs \ {n} : SameOf(p),
         SlotOk(f)', ObjOk(n)', Shape(stack'),
         \A r \in On(stack') : r \in On(stack) \/ FrameOk(r)',
         batch' \subseteq batch
  PROVE  Owned'
<1>1. /\ n \in Objs
      /\ \A g \in Fds : file[g] # n
      /\ \A r \in On(stack) : r.op # "call" => r.obj # n
      /\ \A e \in batch : e.obj # n
  BY Fresh
<1>2. None \notin Objs /\ opened <= opened'
  BY Numbers DEF TypeOK
<1>3. Local({f}, {n})
  BY <1>1, <1>2 DEF Local, Aside, SameAt
<1>4. OneEach(batch')
  BY DEF Owned, BatchOk, OneEach
<1> DEFINE F == {f}
           O == {n}
<1>5. F \in SUBSET Fds /\ O \in SUBSET Objs /\ Local(F, O)
  BY <1>1, <1>3
<1>6. /\ \A g, h \in F : file'[g] = file'[h] /\ file'[g] \in Objs => g = h
      /\ \A g \in F : SlotOk(g)'
      /\ \A p \in O : ObjOk(p)'
      /\ \A r \in On(stack') :
           (r \in On(stack) /\ (r.op # "call" => r.obj \notin O)) \/ FrameOk(r)'
      /\ \A e \in batch' : (e \in batch /\ e.obj \notin O) \/ EventOk(e)'
  BY <1>1
<1> HIDE DEF F, O
<1> QED
  BY <1>4, <1>5, <1>6, LocalStep

\* Something happens to f, which is open as o.
LEMMA TouchStep ==
  ASSUME TypeOK, TypeOK', Owned, NEW f \in Fds, NEW o \in Objs,
         file[f] = o, kind[o] # "listen", file'[f] \in {o, None}, Aside(f),
         \A p \in Objs \ {o} : SameOf(p),
         UNCHANGED <<kind, opened, leaked>>,
         SlotOk(f)', ObjOk(o)', Shape(stack'),
         epoll'[f] = "connect" => epoll[f] = "connect",
         \A r \in On(stack') :
           (r \in On(stack) /\ (r.op \in Closers => r.obj # o)) \/ FrameOk(r)',
         batch' \subseteq batch,
         \A e \in batch' : e.fd = f =>
           file'[f] = None \/ (epoll'[f] = "connect" <=> epoll[f] = "connect")
  PROVE  Owned'
<1>1. \A g \in Fds : file[g] = o => g = f
  BY DEF Owned, OneFdEach
<1>2. None \notin Objs /\ opened <= opened'
  BY Numbers DEF TypeOK
<1>3. Local({f}, {o})
  BY <1>1, <1>2 DEF Local, Aside, SameAt
<1>4. OneEach(batch')
  BY DEF Owned, BatchOk, OneEach
<1>5. ASSUME NEW r \in On(stack), r.op \in Closers => r.obj # o, r.op # "call", r.obj = o
      PROVE  FrameOk(r)'
  <2>1. r \in Frames /\ FrameOk(r) /\ r.op \in Handlers /\ r.op \notin Closers
    BY <1>5 DEF On, TypeOK, Owned, StackOk, Frames, Handlers, Closers
  <2>2. r.fd \in Fds /\ (r.op = "accept" => r.from \in Fds)
    BY <2>1, FrameFields DEF Handlers
  <2>3. kind'[r.obj] = "socket"
    BY <2>1 DEF FrameOk
  <2>4. ASSUME file'[r.fd] = r.obj
        PROVE  r.fd = f /\ file[r.fd] = r.obj
    BY <1>1, <1>2, <1>5, <2>2, <2>4 DEF Aside
  <2>5. r.op = "accept" => file'[r.from] \in Objs /\ kind'[file'[r.from]] = "listen"
    BY <2>1, <2>2 DEF FrameOk, Aside
  <2>6. file'[r.fd] = r.obj => epoll'[r.fd] # "connect"
    BY <2>1, <2>4 DEF FrameOk
  <2>7. r.op \in {"connected", "accept"} /\ file'[r.fd] = r.obj => r.obj \notin leaked'
    BY <2>1, <2>4 DEF FrameOk
  <2> QED
    BY <2>1, <2>3, <2>5, <2>6, <2>7 DEF FrameOk, Closers
<1>6. ASSUME NEW e \in batch', e.obj = o PROVE EventOk(e)'
  <2>1. e \in batch /\ e.fd \in Fds /\ EventOk(e)
    BY DEF TypeOK, Events, Owned, BatchOk
  <2>2. kind'[e.obj] = KindOf(e.state) /\ e.state # "accept"
    BY <1>6, <2>1 DEF EventOk, KindOf
  <2>3. ASSUME file'[e.fd] = e.obj PROVE e.state = "connect" <=> epoll'[e.fd] = "connect"
    <3>1. e.fd = f
      BY <1>1, <1>6, <2>1, <2>3 DEF Aside
    <3>2. file'[f] # None /\ file[e.fd] = e.obj
      BY <1>2, <1>6, <2>3, <3>1
    <3> QED
      BY <2>1, <3>1, <3>2 DEF EventOk
  <2> QED
    BY <2>2, <2>3 DEF EventOk
<1> DEFINE F == {f}
           O == {o}
<1>7. F \in SUBSET Fds /\ O \in SUBSET Objs /\ Local(F, O)
  BY <1>3
<1>8. /\ \A g, h \in F : file'[g] = file'[h] /\ file'[g] \in Objs => g = h
      /\ \A g \in F : SlotOk(g)'
      /\ \A p \in O : ObjOk(p)'
      /\ \A r \in On(stack') :
           (r \in On(stack) /\ (r.op # "call" => r.obj \notin O)) \/ FrameOk(r)'
      /\ \A e \in batch' : (e \in batch /\ e.obj \notin O) \/ EventOk(e)'
  BY <1>5, <1>6
<1> HIDE DEF F, O
<1> QED
  BY <1>4, <1>7, <1>8, LocalStep

\* Something happens to f, which is not open, or is another thread's.
LEMMA IdleStep ==
  ASSUME TypeOK, TypeOK', Owned, NEW f \in Fds, file[f] \notin Objs, file'[f] \notin Objs, Aside(f),
         SlotOk(f)',
         UNCHANGED <<kind, opened, known, told, leaked>>,
         Closing(stack') = Closing(stack), Shape(stack'),
         \A r \in On(stack') : r \in On(stack) \/ FrameOk(r)',
         batch' \subseteq batch
  PROVE  Owned'
<1>1. opened <= opened'
  BY Numbers DEF TypeOK
<1>2. \A p \in Objs : SameOf(p)
  BY DEF SameOf
<1> DEFINE F == {f}
           O == {}
<1>3. F \in SUBSET Fds /\ O \in SUBSET Objs /\ Local(F, O)
  BY <1>1, <1>2 DEF Local, Aside, SameAt
<1>4. OneEach(batch')
  BY DEF Owned, BatchOk, OneEach
<1>5. /\ \A g, h \in F : file'[g] = file'[h] /\ file'[g] \in Objs => g = h
      /\ \A g \in F : SlotOk(g)'
      /\ \A p \in O : ObjOk(p)'
      /\ \A r \in On(stack') :
           (r \in On(stack) /\ (r.op # "call" => r.obj \notin O)) \/ FrameOk(r)'
      /\ \A e \in batch' : (e \in batch /\ e.obj \notin O) \/ EventOk(e)'
  OBVIOUS
<1> HIDE DEF F, O
<1> QED
  BY <1>3, <1>4, <1>5, LocalStep

\* Only the stack and the batch change.
LEMMA QuietStep ==
  ASSUME TypeOK, TypeOK', Owned,
         UNCHANGED <<kernel, m_close, m_read, m_write, m_wbuffer, known, told, leaked>>,
         Closing(stack') = Closing(stack), Shape(stack'),
         \A r \in On(stack') : r \in On(stack) \/ FrameOk(r)',
         OneEach(batch'),
         \A e \in batch' : e \in batch \/ EventOk(e)'
  PROVE  Owned'
<1>1. opened <= opened'
  BY Numbers DEF TypeOK, kernel
<1>2. \A p \in Objs : SameOf(p)
  BY DEF SameOf, kernel
<1> DEFINE F == {}
           O == {}
<1>3. F \in SUBSET Fds /\ O \in SUBSET Objs /\ Local(F, O)
  BY <1>1, <1>2 DEF Local, SameAt, kernel
<1>4. /\ \A g, h \in F : file'[g] = file'[h] /\ file'[g] \in Objs => g = h
      /\ \A g \in F : SlotOk(g)'
      /\ \A p \in O : ObjOk(p)'
      /\ \A r \in On(stack') :
           (r \in On(stack) /\ (r.op # "call" => r.obj \notin O)) \/ FrameOk(r)'
      /\ \A e \in batch' : (e \in batch /\ e.obj \notin O) \/ EventOk(e)'
  OBVIOUS
<1> HIDE DEF F, O
<1> QED
  BY <1>3, <1>4, LocalStep

LEMMA Pushed ==
  ASSUME TypeOK, Owned, NEW r \in Frames, r.op \in Handlers => stack = <<>>,
         r.op \in Closers => r.obj \notin Closing(stack), stack' = <<r>> \o stack
  PROVE  /\ Shape(stack') /\ On(stack') = {r} \cup On(stack)
         /\ r.op \in Closers => Closing(stack') = {r.obj} \cup Closing(stack)
         /\ r.op \notin Closers => Closing(stack') = Closing(stack)
<1>1. stack \in Seq(Frames) /\ Shape(stack)
  BY DEF TypeOK, Owned, StackOk
<1> QED
  BY <1>1, PushShape, PushOn, PushClosing

LEMMA Popped ==
  ASSUME TypeOK, Owned, stack # <<>>
  PROVE  /\ Running \in Frames /\ Running \in On(stack) /\ FrameOk(Running)
         /\ Tail(stack) \in Seq(Frames) /\ Shape(Tail(stack)) /\ On(Tail(stack)) \subseteq On(stack)
         /\ Running.op \in Handlers => Tail(stack) = <<>>
         /\ Running.op \notin Closers => Closing(Tail(stack)) = Closing(stack)
         /\ Running.op \in Closers =>
              /\ Running.obj \notin Closing(Tail(stack))
              /\ Closing(stack) = {Running.obj} \cup Closing(Tail(stack))
<1>1. stack \in Seq(Frames) /\ Shape(stack) /\ \A r \in On(stack) : FrameOk(r)
  BY DEF TypeOK, Owned, StackOk
<1>2. Running \in Frames /\ Tail(stack) \in Seq(Frames)
  BY <1>1, PopFrame DEF Running
<1>3. stack = <<Running>> \o Tail(stack) /\ On(stack) = {Running} \cup On(Tail(stack))
  BY <1>1, PopStack DEF Running
<1>4. /\ Running.op \in Closers => Closing(stack) = {Running.obj} \cup Closing(Tail(stack))
      /\ Running.op \notin Closers => Closing(stack) = Closing(Tail(stack))
  BY <1>2, <1>3, PushClosing
<1>5. /\ Shape(Tail(stack))
      /\ Running.op \in Handlers => Tail(stack) = <<>>
      /\ Running.op \in Closers => Running.obj \notin Closing(Tail(stack))
  BY <1>1, PopShape DEF Running
<1> QED
  BY <1>1, <1>2, <1>3, <1>4, <1>5

\* The event of a handler is about the present owner of its descriptor.
LEMMA Met ==
  ASSUME TypeOK, OwnInv, ~stale', NEW f, NEW o, Meet(f, o)
  PROVE  ~stale /\ Owned /\ (file[f] = None \/ file[f] = o)
  BY DEF TypeOK, OwnInv, Meet

-----------------------------------------------------------------------------
(* What callbacks do *)

LEMMA RegisterStep ==
  ASSUME TypeOK, TypeOK', Owned, NEW f \in Fds, NEW close \in BOOLEAN,
         NEW k \in {"listen", "socket"}, NEW state \in States, NEW out \in BOOLEAN,
         Open(f, k, state, out), Register(f, close),
         k = "listen" => state = "accept" /\ ~close, k = "socket" => state = "connect"
  PROVE  Owned'
<1>1. PICK n : n = opened + 1
  OBVIOUS
<1>2. opened' = n /\ opened < MaxOpens /\ file[f] = None /\ None \notin Objs /\ n # None
  BY <1>1, Numbers DEF Open, TypeOK
<1>3. /\ n \in Objs /\ told[n] = "none" /\ n \notin known /\ n \notin leaked /\ n \notin Closing(stack)
      /\ n \in Nat
  BY <1>1, <1>2, Fresh, Numbers
<1>4. /\ m_close[f] = None /\ m_read[f] = None /\ m_write[f] = None /\ m_wbuffer[f] = None
  BY <1>2, Unused
<1>5. /\ file'[f] = n /\ kind'[n] = k /\ epoll'[f] = state
      /\ m_close'[f] = (IF close THEN n ELSE None) /\ told'[n] = (IF close THEN "owed" ELSE "none")
      /\ UNCHANGED <<m_read, m_write, m_wbuffer, batch, stack, known, leaked>>
      /\ Aside(f)
  BY <1>2, <1>3 DEF Open, Register, TypeOK, Owners, Aside
<1>6. \A p \in Objs \ {n} : SameOf(p)
  BY <1>2, <1>5 DEF Open, Register, TypeOK, SameOf
<1>7. SlotOk(f)'
  <2>1. TablesOk(f)'
    BY <1>3, <1>4, <1>5 DEF TablesOk
  <2>2. OpenOk(f, n)'
    BY <1>2, <1>3, <1>4, <1>5 DEF OpenOk, ListenerOk, TimerOk, SocketOk, CloseOk
  <2> QED
    BY <1>5, <2>1, <2>2 DEF SlotOk
<1>8. ObjOk(n)'
  BY <1>2, <1>3, <1>5 DEF ObjOk, IsOpen
<1>9. Shape(stack')
  BY <1>5 DEF Owned, StackOk
<1> QED
  BY <1>1, <1>2, <1>5, <1>6, <1>7, <1>8, <1>9, OpenStep

LEMMA StartStep ==
  ASSUME NoListenClose, TypeOK, TypeOK', OwnInv, ~stale', NEW f \in Fds, Start(f)
  PROVE  Owned'
<1>1. PICK close \in ListenCloses : Register(f, close)
  BY DEF Start
<1>2. close \in BOOLEAN /\ ~close
  BY FdAssumption DEF NoListenClose
<1>3. Owned /\ Open(f, "listen", "accept", TRUE)
  BY <1>1 DEF Register, Start, OwnInv
<1> QED
  BY <1>1, <1>2, <1>3, RegisterStep DEF States

LEMMA ConnectStep ==
  ASSUME TypeOK, TypeOK', OwnInv, ~stale', NEW f \in Fds, Connect(f)
  PROVE  Owned'
<1>1. PICK close \in BOOLEAN : Register(f, close)
  BY DEF Connect
<1>2. Owned /\ Open(f, "socket", "connect", TRUE)
  BY <1>1 DEF Register, Connect, OwnInv
<1> QED
  BY <1>1, <1>2, RegisterStep DEF States

LEMMA ConnectFailsStep ==
  ASSUME TypeOK, TypeOK', OwnInv, ~stale', NEW f \in Fds, ConnectFails(f)
  PROVE  Owned'
<1>0. Owned
  BY DEF ConnectFails, OwnInv
<1>1. PICK n : n = opened + 1
  OBVIOUS
<1>2. opened' = n /\ opened < MaxOpens /\ file[f] = None /\ None \notin Objs
  BY <1>1, Numbers DEF ConnectFails, TypeOK
<1>3. /\ n \in Objs /\ told[n] = "none" /\ n \notin known /\ n \notin leaked /\ n \notin Closing(stack)
      /\ n \in Nat
  BY <1>0, <1>1, <1>2, Fresh, Numbers
<1>4. /\ epoll[f] = "none"
      /\ m_close[f] = None /\ m_read[f] = None /\ m_write[f] = None /\ m_wbuffer[f] = None
  BY <1>0, <1>2, Unused
<1> DEFINE r == [op |-> "failed", fd |-> f, obj |-> n]
<1>5. r \in Frames /\ r.op = "failed" /\ r.fd = f /\ r.obj = n /\ stack' = <<r>> \o stack
  BY <1>2, <1>3, SimpleFrame DEF ConnectFails, Push
<1> HIDE DEF r
<1>6. /\ Shape(stack') /\ On(stack') = {r} \cup On(stack)
      /\ Closing(stack') = {n} \cup Closing(stack)
  BY <1>0, <1>3, <1>5, Pushed DEF Closers, Handlers
<1>7. /\ file'[f] = n /\ kind'[n] = "socket" /\ told'[n] = "called"
      /\ known' = known \ {n}
      /\ UNCHANGED <<epoll, m_close, m_read, m_write, m_wbuffer, batch, leaked>>
      /\ Aside(f)
  BY <1>2, <1>3 DEF ConnectFails, Tell, TypeOK, Aside, tables
<1>8. \A p \in Objs \ {n} : SameOf(p)
  BY <1>2, <1>6, <1>7 DEF ConnectFails, Tell, TypeOK, SameOf
<1>9. SlotOk(f)'
  <2>1. TablesOk(f)'
    BY <1>3, <1>4, <1>7 DEF TablesOk
  <2>2. OpenOk(f, n)'
    BY <1>2, <1>3, <1>4, <1>6, <1>7 DEF OpenOk, ListenerOk, TimerOk, SocketOk, CloseOk
  <2> QED
    BY <1>7, <2>1, <2>2 DEF SlotOk
<1>10. ObjOk(n)'
  BY <1>2, <1>3, <1>7 DEF ObjOk, IsOpen
<1>11. FrameOk(r)'
  BY <1>4, <1>5, <1>7 DEF FrameOk, Closers, Handlers
<1> QED
  BY <1>0, <1>1, <1>2, <1>6, <1>7, <1>8, <1>9, <1>10, <1>11, OpenStep

LEMMA SetTimerStep ==
  ASSUME TypeOK, TypeOK', OwnInv, ~stale', NEW f \in Fds, SetTimer(f)
  PROVE  Owned'
<1>0. Owned
  BY DEF SetTimer, OwnInv
<1>1. PICK n : n = opened + 1
  OBVIOUS
<1>2. PICK state \in {"timer", "rtimer"} : Open(f, "timer", state, FALSE)
  BY DEF SetTimer
<1>3. opened' = n /\ opened < MaxOpens /\ file[f] = None /\ None \notin Objs
  BY <1>1, <1>2, Numbers DEF Open, TypeOK
<1>4. /\ n \in Objs /\ told[n] = "none" /\ n \notin known /\ n \notin leaked /\ n \notin Closing(stack)
      /\ n \in Nat
  BY <1>0, <1>1, <1>3, Fresh, Numbers
<1>5. m_close[f] = None /\ m_read[f] = None /\ m_write[f] = None /\ m_wbuffer[f] = None
  BY <1>0, <1>3, Unused
<1>6. /\ file'[f] = n /\ kind'[n] = "timer" /\ epoll'[f] = state
      /\ m_read'[f] = n /\ known' = known \cup {n}
      /\ UNCHANGED <<m_close, m_write, m_wbuffer, batch, stack, told, leaked>>
      /\ Aside(f)
  BY <1>2, <1>3, <1>4 DEF Open, SetTimer, TypeOK, Owners, Aside
<1>7. \A p \in Objs \ {n} : SameOf(p)
  BY <1>2, <1>3, <1>6 DEF Open, TypeOK, SameOf
<1>8. SlotOk(f)'
  <2>1. TablesOk(f)'
    BY <1>4, <1>5, <1>6 DEF TablesOk
  <2>2. OpenOk(f, n)'
    BY <1>3, <1>4, <1>5, <1>6 DEF OpenOk, ListenerOk, TimerOk, SocketOk, CloseOk
  <2> QED
    BY <1>6, <2>1, <2>2 DEF SlotOk
<1>9. ObjOk(n)'
  BY <1>3, <1>4, <1>6 DEF ObjOk, IsOpen
<1>10. Shape(stack')
  BY <1>0, <1>6 DEF Owned, StackOk
<1> QED
  BY <1>0, <1>1, <1>3, <1>6, <1>7, <1>8, <1>9, <1>10, OpenStep

\* No frame closes what its user still uses.
LEMMA KnownIsNotClosed ==
  ASSUME TypeOK, Owned, NEW o \in known
  PROVE  o \notin Closing(stack) /\ \A r \in On(stack) : r.op \in Closers => r.obj # o
  BY DEF Owned, StackOk, FrameOk, Closing

LEMMA StopTimerStep ==
  ASSUME TypeOK, TypeOK', OwnInv, ~stale', NEW f \in Fds, StopTimer(f)
  PROVE  Owned'
<1>0. Owned /\ Shape(stack)
  BY DEF StopTimer, OwnInv, Owned, StackOk
<1>1. PICK o : o = file[f]
  OBVIOUS
<1>2. o \in Objs /\ o \in known /\ kind[o] = "timer" /\ None \notin Objs
  BY <1>1, Numbers DEF StopTimer, TypeOK
<1>3. /\ file'[f] = None /\ epoll'[f] = "none" /\ armed'[f] = FALSE /\ m_read'[f] = None
      /\ known' = known \ {o}
      /\ UNCHANGED <<kind, opened, m_close, m_write, m_wbuffer, batch, stack, told, leaked>>
      /\ Aside(f)
  BY <1>1 DEF StopTimer, CloseFd, DelEvent, TypeOK, Owners, Aside
<1>4. \A p \in Objs \ {o} : SameOf(p)
  BY <1>3 DEF SameOf
<1>5. OpenOk(f, o)
  BY <1>0, <1>1, <1>2 DEF Owned, SlotOk
<1>6. SlotOk(f)'
  <2>1. m_close'[f] = None /\ m_write'[f] = None /\ m_wbuffer'[f] = None
    BY <1>2, <1>3, <1>5 DEF OpenOk, TimerOk
  <2> QED
    BY <1>2, <1>3, <2>1 DEF SlotOk, TablesOk
<1>7. ObjOk(o)'
  <2>1. told[o] # "owed"
    BY <1>2, <1>5 DEF OpenOk, TimerOk, CloseOk
  <2> QED
    BY <1>0, <1>2, <1>3, <2>1 DEF Owned, ObjOk
<1>8. \A r \in On(stack) : r.op \in Closers => r.obj # o
  BY <1>0, <1>2, KnownIsNotClosed
<1> QED
  BY <1>0, <1>1, <1>2, <1>3, <1>4, <1>6, <1>7, <1>8, TouchStep

LEMMA SetClientStep ==
  ASSUME TypeOK, TypeOK', OwnInv, ~stale', NEW f \in Fds, SetClient(f)
  PROVE  Owned'
<1>0. Owned /\ stack # <<>> /\ Shape(stack)
  BY DEF SetClient, InCallback, OwnInv, Owned, StackOk
<1>1. PICK o : o = Running.obj
  OBVIOUS
<1>2. /\ Running \in Frames /\ FrameOk(Running) /\ Running.op \in {"connected", "accept"}
      /\ Running.fd = f /\ file[f] = o /\ o \notin known /\ None \notin Objs
  BY <1>0, <1>1, Popped, Numbers DEF SetClient
<1>3. o \in Objs /\ kind[o] = "socket" /\ epoll[f] # "connect" /\ o \notin leaked
  BY <1>1, <1>2, FrameFields DEF FrameOk, Handlers
<1>4. Closing(stack) = {}
  BY <1>0, <1>2, Popped, NoFrames DEF Handlers, Closers
<1>5. OpenOk(f, o) /\ TablesOk(f)
  BY <1>0, <1>2, <1>3 DEF Owned, SlotOk
<1>6. epoll[f] = "client"
  BY <1>3, <1>4, <1>5 DEF OpenOk, SocketOk
<1>7. /\ m_read'[f] = o /\ m_write'[f] = o /\ m_close'[f] = o
      /\ known' = known \cup {o} /\ told' = [told EXCEPT ![o] = "owed"]
      /\ UNCHANGED <<kernel, m_wbuffer, batch, stack, leaked>>
      /\ Aside(f)
  BY <1>1 DEF SetClient, TypeOK, Owners, Aside, kernel
<1>8. \A p \in Objs \ {o} : SameOf(p)
  BY <1>7 DEF SameOf, TypeOK, kernel
<1>9. SlotOk(f)'
  <2>1. TablesOk(f)'
    BY <1>2, <1>3, <1>5, <1>6, <1>7 DEF TablesOk, kernel
  <2>2. told'[o] = "owed"
    BY <1>3, <1>7 DEF TypeOK
  <2>3. OpenOk(f, o)'
    BY <1>3, <1>5, <1>6, <1>7, <2>2 DEF OpenOk, ListenerOk, TimerOk, SocketOk, CloseOk, kernel
  <2> QED
    BY <1>2, <1>7, <2>1, <2>3 DEF SlotOk, kernel
<1>10. ObjOk(o)'
  <2>1. told'[o] = "owed" /\ file'[f] = o /\ opened' = opened /\ kind' = kind
    BY <1>2, <1>3, <1>7 DEF TypeOK, kernel
  <2>2. ~(o > opened')
    BY <1>0, <1>3, <2>1 DEF Owned, ObjOk
  <2> QED
    BY <1>3, <1>7, <2>1, <2>2 DEF ObjOk, IsOpen
<1>11. \A r \in On(stack) : r.op \in Closers => r.obj # o
  BY <1>4 DEF Closing
<1>12. UNCHANGED <<kind, opened, leaked, batch, stack, file, epoll>>
  BY <1>7 DEF kernel
<1> QED
  BY <1>0, <1>2, <1>3, <1>7, <1>8, <1>9, <1>10, <1>11, <1>12, TouchStep

\* A connection a client has is registered, and nobody closes it.
LEMMA SendMeets ==
  ASSUME TypeOK, Owned, NEW f \in Fds, CanSend(f)
  PROVE  /\ file[f] \in Objs /\ file[f] \in known /\ kind[file[f]] = "socket" /\ epoll[f] = "client"
         /\ file[f] \notin leaked /\ file[f] \notin Closing(stack)
         /\ \A r \in On(stack) : r.op \in Closers => r.obj # file[f]
<1>1. PICK o : o = file[f]
  OBVIOUS
<1>2. o \in Objs /\ o \in known /\ kind[o] = "socket"
  BY <1>1 DEF CanSend, TypeOK
<1>3. OpenOk(f, o) /\ ObjOk(o)
  BY <1>1, <1>2 DEF Owned, SlotOk
<1>4. o \notin Closing(stack) /\ \A r \in On(stack) : r.op \in Closers => r.obj # o
  BY <1>2, KnownIsNotClosed
<1>5. o \notin leaked
  BY <1>2, <1>3 DEF ObjOk
<1>6. epoll[f] = "client"
  BY <1>2, <1>3, <1>4, <1>5 DEF OpenOk, SocketOk
<1> QED
  BY <1>1, <1>2, <1>4, <1>5, <1>6

LEMMA SendBlockedStep ==
  ASSUME TypeOK, TypeOK', OwnInv, ~stale', NEW f \in Fds, SendBlocked(f)
  PROVE  Owned'
<1>0. Owned /\ Shape(stack)
  BY DEF SendBlocked, OwnInv, Owned, StackOk
<1>1. PICK o : o = file[f]
  OBVIOUS
<1>2. /\ o \in Objs /\ o \in known /\ kind[o] = "socket" /\ epoll[f] = "client"
      /\ \A r \in On(stack) : r.op \in Closers => r.obj # o
  BY <1>0, <1>1, SendMeets DEF SendBlocked
<1>3. /\ epoll'[f] = "client" /\ armed'[f] = TRUE /\ m_wbuffer'[f] = o
      /\ UNCHANGED <<file, kind, opened, m_close, m_read, m_write, batch, stack, known, told, leaked>>
      /\ Aside(f)
  BY <1>1, <1>2 DEF SendBlocked, ModEvent, TypeOK, Owners, Aside
<1>4. \A p \in Objs : SameOf(p)
  BY <1>3 DEF SameOf
<1>5. OpenOk(f, o) /\ TablesOk(f) /\ ObjOk(o)
  BY <1>0, <1>1, <1>2 DEF Owned, SlotOk
<1>6. SlotOk(f)'
  <2>1. TablesOk(f)'
    BY <1>1, <1>2, <1>3, <1>5 DEF TablesOk
  <2>2. OpenOk(f, o)'
    BY <1>2, <1>3, <1>5 DEF OpenOk, ListenerOk, TimerOk, SocketOk, CloseOk
  <2> QED
    BY <1>1, <1>3, <2>1, <2>2 DEF SlotOk
<1>7. ObjOk(o)'
  BY <1>3, <1>5 DEF ObjOk, IsOpen
<1> QED
  BY <1>0, <1>1, <1>2, <1>3, <1>4, <1>6, <1>7, TouchStep

LEMMA OtherThreadStep ==
  ASSUME TypeOK, TypeOK', OwnInv, ~stale', NEW f \in Fds, OtherThread(f)
  PROVE  Owned'
<1>0. Owned /\ Shape(stack)
  BY DEF OtherThread, OwnInv, Owned, StackOk
<1>1. /\ file[f] \in {None, Other} /\ file'[f] \in {None, Other}
      /\ UNCHANGED <<kind, opened, epoll, armed, tables, batch, stack, known, told, leaked>>
      /\ Aside(f)
  BY DEF OtherThread, TypeOK, Aside, tables
<1>2. file[f] \notin Objs /\ file'[f] \notin Objs
  BY <1>1, Numbers
<1>3. SlotOk(f)'
  BY <1>0, <1>1, <1>2, Unused DEF SlotOk, TablesOk, tables
<1> QED
  BY <1>0, <1>1, <1>2, <1>3, IdleStep

-----------------------------------------------------------------------------
(* Closing *)

LEMMA ClientcloseStep ==
  ASSUME TypeOK, TypeOK', Owned, NEW f \in Fds, NEW o \in Objs, NEW below \in Seq(Frames),
         Clientclose(f, o, below),
         file[f] \in {None, o}, kind[o] = "socket", file[f] = o => epoll[f] # "connect",
         Shape(below), Closing(below) = Closing(stack), o \notin Closing(stack),
         \A r \in On(below) : r \in On(stack) \/ (r.op = "client" /\ r.fd = f /\ r.obj = o)
  PROVE  Owned'
<1>1. /\ m_read'[f] = None /\ m_write'[f] = None /\ m_wbuffer'[f] = None /\ epoll'[f] = "none"
      /\ CallClose(f, [op |-> "closing", fd |-> f, obj |-> o], below)
      /\ UNCHANGED <<kind, opened, m_close, batch, leaked>>
      /\ None \notin Objs
  <2>1. m_read'[f] = None /\ m_write'[f] = None /\ m_wbuffer'[f] = None
    BY DEF Clientclose, Forget, TypeOK, Owners
  <2>2. DelEvent(f)
    BY DEF Clientclose, CallClose, CloseFd
  <2>3. epoll'[f] = "none"
    BY <2>2 DEF DelEvent, TypeOK
  <2> QED
    BY <2>1, <2>3, Numbers DEF Clientclose
<1>2. Aside(f)
  <2>1. DelEvent(f) /\ (file' = [file EXCEPT ![f] = None] \/ file' = file) /\ UNCHANGED m_close
    BY DEF Clientclose, CallClose, CloseFd
  <2>2. \A g \in Fds \ {f} : file'[g] = file[g] /\ epoll'[g] = epoll[g] /\ armed'[g] = armed[g]
    BY <2>1 DEF DelEvent, TypeOK
  <2>3. \A g \in Fds \ {f} :
          m_read'[g] = m_read[g] /\ m_write'[g] = m_write[g] /\ m_wbuffer'[g] = m_wbuffer[g]
    BY DEF Clientclose, Forget, TypeOK, Owners
  <2> QED
    BY <2>1, <2>2, <2>3 DEF Aside
<1>3. ASSUME NEW r \in On(below) PROVE (r \in On(stack) /\ (r.op \in Closers => r.obj # o)) \/ FrameOk(r)'
  <2>1. CASE r \in On(stack)
    <3>1. r.op \in Closers => r.obj # o
      BY <2>1 DEF Closing
    <3> QED
      BY <2>1, <3>1
  <2>2. CASE r.op = "client" /\ r.fd = f /\ r.obj = o
    BY <1>1, <2>2 DEF FrameOk, Closers, Handlers
  <2> QED
    BY <2>1, <2>2
<1>4. CASE m_close[f] = None
  <2>1. stack' = below /\ file'[f] = None /\ UNCHANGED <<known, told>>
    BY <1>1, <1>4 DEF CallClose, CloseFd, TypeOK
  <2>2. \A p \in Objs : SameOf(p)
    BY <1>1, <2>1 DEF SameOf
  <2>3. SlotOk(f)'
    BY <1>1, <1>4, <2>1 DEF SlotOk, TablesOk
  <2>4. CASE file[f] = None
    <3>1. \A r \in On(stack') : r \in On(stack) \/ FrameOk(r)'
      BY <1>3, <2>1
    <3> QED
      BY <1>1, <1>2, <2>1, <2>3, <2>4, <3>1, IdleStep
  <2>5. CASE file[f] = o
    <3>1. OpenOk(f, o) /\ ObjOk(o)
      BY <2>5 DEF Owned, SlotOk
    <3>2. o \notin known /\ told[o] # "owed"
      BY <1>1, <1>4, <3>1 DEF OpenOk, SocketOk, CloseOk
    <3>3. ObjOk(o)'
      BY <1>1, <2>1, <3>1, <3>2 DEF ObjOk
    <3>4. Shape(stack') /\ kind[o] # "listen"
      BY <2>1
    <3>5. \A r \in On(stack') : (r \in On(stack) /\ (r.op \in Closers => r.obj # o)) \/ FrameOk(r)'
      BY <1>3, <2>1
    <3> QED
      BY <1>1, <1>2, <2>1, <2>2, <2>3, <2>5, <3>3, <3>4, <3>5, TouchStep
  <2> QED
    BY <2>4, <2>5
<1>5. CASE m_close[f] # None
  <2>1. file[f] = o /\ m_close[f] = o
    BY <1>1, <1>5, Unused DEF Owned, SlotOk, TablesOk
  <2> DEFINE c == [op |-> "closing", fd |-> f, obj |-> o]
  <2>2. /\ c \in Frames /\ c.op = "closing" /\ c.fd = f /\ c.obj = o
        /\ stack' = <<c>> \o below
    BY <1>1, <1>5, SimpleFrame DEF CallClose
  <2> HIDE DEF c
  <2>3. /\ file'[f] = o /\ known' = known \ {o}
        /\ told' = [told EXCEPT ![o] = IF @ \in {"called", "twice"} THEN "twice" ELSE "called"]
    BY <1>1, <1>5, <2>1 DEF CallClose, Tell
  <2>4. /\ Shape(stack') /\ On(stack') = {c} \cup On(below)
        /\ Closing(stack') = {o} \cup Closing(stack)
    BY <2>2, PushShape, PushOn, PushClosing DEF Closers, Handlers
  <2>5. \A p \in Objs \ {o} : SameOf(p)
    BY <1>1, <2>3, <2>4 DEF SameOf, TypeOK
  <2>6. OpenOk(f, o) /\ ObjOk(o)
    BY <2>1 DEF Owned, SlotOk
  <2>7. told'[o] \in {"called", "twice"} /\ (told'[o] = "twice" => o \in leaked)
    BY <1>5, <2>3, <2>6 DEF OpenOk, CloseOk, TypeOK
  <2>8. SlotOk(f)'
    <3>1. TablesOk(f)'
      BY <1>1, <2>1, <2>3 DEF TablesOk
    <3>2. OpenOk(f, o)'
      BY <1>1, <2>3, <2>4, <2>6, <2>7 DEF OpenOk, ListenerOk, TimerOk, SocketOk, CloseOk
    <3> QED
      BY <2>3, <3>1, <3>2 DEF SlotOk
  <2>9. ObjOk(o)'
    BY <1>1, <2>3, <2>6, <2>7 DEF ObjOk
  <2>10. FrameOk(c)'
    BY <1>1, <2>2, <2>3, <2>7 DEF FrameOk, Handlers
  <2>11. \A r \in On(stack') : (r \in On(stack) /\ (r.op \in Closers => r.obj # o)) \/ FrameOk(r)'
    BY <1>3, <2>4, <2>10
  <2>12. kind[o] # "listen" /\ epoll'[f] # "connect"
    BY <1>1
  <2>13. \A e \in batch' : e.fd = f => (epoll'[f] = "connect" <=> epoll[f] = "connect")
    BY <2>1, <2>12
  <2> QED
    BY <1>1, <1>2, <2>1, <2>3, <2>4, <2>5, <2>8, <2>9, <2>11, <2>12, <2>13, TouchStep
<1> QED
  BY <1>4, <1>5

LEMMA SendFailsStep ==
  ASSUME TypeOK, TypeOK', OwnInv, ~stale', NEW f \in Fds, SendFails(f)
  PROVE  Owned'
<1>1. PICK o : o = file[f]
  OBVIOUS
<1>2. Owned /\ stack \in Seq(Frames) /\ Shape(stack) /\ Clientclose(f, o, stack)
  BY <1>1, Met DEF SendFails, Clientclose, TypeOK, Owned, StackOk
<1>3. /\ o \in Objs /\ kind[o] = "socket" /\ epoll[f] = "client" /\ o \notin Closing(stack)
  BY <1>1, <1>2, SendMeets DEF SendFails
<1> QED
  BY <1>1, <1>2, <1>3, ClientcloseStep

\* What is left to do after a callback is done to what it was promised for.
LEMMA ClosesStep ==
  ASSUME TypeOK, TypeOK', OwnInv, ~stale', NEW ops \in SUBSET Closers, Closes(ops),
         Aside(Running.fd), m_close'[Running.fd] = None, m_read'[Running.fd] = None
  PROVE  Owned'
<1>0. Owned /\ stack # <<>>
  BY Met DEF Closes, InCallback
<1>1. PICK f, o : f = Running.fd /\ o = Running.obj
  OBVIOUS
<1>2. /\ Running.op \in Closers /\ Running \in Frames /\ FrameOk(Running)
      /\ stack' = Tail(stack) /\ Shape(stack') /\ On(stack') \subseteq On(stack)
      /\ o \notin Closing(stack') /\ Closing(stack) = {o} \cup Closing(stack')
  BY <1>0, <1>1, Popped DEF Closes
<1>3. f \in Fds /\ o \in Objs /\ file[f] = o /\ o \notin known /\ None \notin Objs
  BY <1>1, <1>2, FrameFields, Numbers DEF FrameOk, Closers
<1>4. /\ file'[f] = None /\ epoll'[f] = "none"
      /\ UNCHANGED <<kind, opened, m_write, m_wbuffer, batch, known, told, leaked>>
  BY <1>1, <1>3 DEF Closes, CloseFd, DelEvent, TypeOK
<1>5. OpenOk(f, o) /\ ObjOk(o)
  BY <1>0, <1>3 DEF Owned, SlotOk
<1>6. m_write[f] = None /\ m_wbuffer[f] = None /\ kind[o] # "listen" /\ told[o] # "owed"
  <2>1. CASE Running.op = "timer"
    BY <1>1, <1>2, <1>3, <1>5, <2>1 DEF FrameOk, OpenOk, TimerOk, CloseOk, Closers
  <2>2. CASE Running.op \in Closers \ {"timer"}
    BY <1>1, <1>2, <2>2 DEF FrameOk
  <2> QED
    BY <1>2, <2>1, <2>2
<1>7. SlotOk(f)'
  BY <1>1, <1>3, <1>4, <1>6 DEF SlotOk, TablesOk
<1>8. ObjOk(o)'
  BY <1>3, <1>4, <1>5, <1>6 DEF ObjOk
<1>9. \A p \in Objs \ {o} : SameOf(p)
  BY <1>2, <1>4 DEF SameOf
<1>10. \A r \in On(stack') : r \in On(stack) /\ (r.op \in Closers => r.obj # o)
  BY <1>2 DEF Closing
<1> QED
  BY <1>0, <1>1, <1>2, <1>3, <1>4, <1>6, <1>7, <1>8, <1>9, <1>10, TouchStep

LEMMA ReturnCloseStep ==
  ASSUME TypeOK, TypeOK', OwnInv, ~stale', ReturnClose \/ ReturnTimer
  PROVE  Owned'
<1>0. Owned /\ stack # <<>>
  BY Met DEF ReturnClose, ReturnTimer, Closes, InCallback
<1>1. Running \in Frames /\ FrameOk(Running)
  BY <1>0, Popped
<1>2. ASSUME NEW ops \in SUBSET Closers, Closes(ops) PROVE Running.fd \in Fds
  BY <1>1, <1>2, FrameFields DEF Closes, Closers
<1>3. ASSUME NEW ops \in SUBSET Closers, Closes(ops),
             \A g \in Fds \ {Running.fd} : m_close'[g] = m_close[g] /\ m_read'[g] = m_read[g]
      PROVE  Aside(Running.fd)
  BY <1>3 DEF Closes, CloseFd, DelEvent, TypeOK, Aside
<1>4. CASE /\ Closes({"closing", "refused"})
           /\ m_close' = [m_close EXCEPT ![Running.fd] = None] /\ UNCHANGED m_read
  <2> DEFINE ops == {"closing", "refused"}
  <2>1. ops \in SUBSET Closers /\ Closes(ops) /\ Running.op \in Closers \ {"timer"}
    BY <1>4 DEF Closers, Closes
  <2> HIDE DEF ops
  <2>2. /\ m_close'[Running.fd] = None /\ m_read'[Running.fd] = None
        /\ \A g \in Fds \ {Running.fd} : m_close'[g] = m_close[g] /\ m_read'[g] = m_read[g]
    BY <1>1, <1>2, <1>4, <2>1 DEF FrameOk, TypeOK, Owners
  <2>3. Aside(Running.fd)
    BY <1>3, <2>1, <2>2
  <2> QED
    BY <2>1, <2>2, <2>3, ClosesStep
<1>5. CASE Closes({"failed"}) /\ UNCHANGED <<m_close, m_read>>
  <2> DEFINE ops == {"failed"}
  <2>1. ops \in SUBSET Closers /\ Closes(ops) /\ Running.op = "failed"
    BY <1>5 DEF Closers, Closes
  <2> HIDE DEF ops
  <2>2. m_close'[Running.fd] = None /\ m_read'[Running.fd] = None
    BY <1>1, <1>5, <2>1 DEF FrameOk, Closers
  <2>3. Aside(Running.fd)
    BY <1>3, <1>5, <2>1
  <2> QED
    BY <2>1, <2>2, <2>3, ClosesStep
<1>6. CASE ReturnTimer
  <2> DEFINE ops == {"timer"}
  <2>1. ops \in SUBSET Closers /\ Closes(ops) /\ Running.op = "timer"
    BY <1>6 DEF Closers, Closes, ReturnTimer
  <2> HIDE DEF ops
  <2>2. Running.fd \in Fds /\ Running.obj \in Objs /\ file[Running.fd] = Running.obj /\ kind[Running.obj] = "timer"
    BY <1>1, <2>1, FrameFields DEF FrameOk, Closers
  <2>3. OpenOk(Running.fd, Running.obj)
    BY <1>0, <2>2 DEF Owned, SlotOk
  <2>4. /\ m_close'[Running.fd] = None /\ m_read'[Running.fd] = None
        /\ \A g \in Fds \ {Running.fd} : m_close'[g] = m_close[g] /\ m_read'[g] = m_read[g]
    BY <1>6, <2>2, <2>3 DEF OpenOk, TimerOk, ReturnTimer, TypeOK, Owners
  <2>5. Aside(Running.fd)
    BY <1>3, <2>1, <2>4
  <2> QED
    BY <2>1, <2>4, <2>5, ClosesStep
<1> QED
  BY <1>4, <1>5, <1>6 DEF ReturnClose

LEMMA ReturnStep ==
  ASSUME TypeOK, TypeOK', OwnInv, ~stale', Return
  PROVE  Owned'
<1>1. Owned /\ stack # <<>> /\ stack' = Tail(stack) /\ Running.op \notin Closers
  BY DEF Return, InCallback, OwnInv, Closers
<1>2. Closing(stack') = Closing(stack) /\ Shape(stack') /\ On(stack') \subseteq On(stack)
  BY <1>1, Popped
<1>3. UNCHANGED <<kernel, m_close, m_read, m_write, m_wbuffer, batch, known, told, leaked>>
  BY DEF Return, tables
<1>4. OneEach(batch')
  BY <1>1, <1>3 DEF Owned, BatchOk
<1> QED
  BY <1>1, <1>2, <1>3, <1>4, QuietStep

\* A listener has no close callback to give.
LEMMA ReturnAcceptStep ==
  ASSUME TypeOK, TypeOK', OwnInv, ~stale', ReturnAccept
  PROVE  Owned'
<1>1. Owned /\ stack # <<>> /\ stack' = Tail(stack) /\ Running.op = "accept"
  BY DEF ReturnAccept, InCallback, OwnInv
<1>2. /\ Closing(stack') = Closing(stack) /\ Shape(stack') /\ On(stack') \subseteq On(stack)
      /\ Running \in Frames /\ FrameOk(Running)
  BY <1>1, Popped DEF Closers
<1>3. Running.fd \in Fds /\ Running.from \in Fds /\ file[Running.from] \in Objs
  BY <1>1, <1>2, FrameFields DEF FrameOk
<1>4. m_close[Running.from] = None
  <2>1. kind[file[Running.from]] = "listen" /\ OpenOk(Running.from, file[Running.from])
    BY <1>1, <1>2, <1>3 DEF FrameOk, Owned, SlotOk
  <2> QED
    BY <2>1 DEF OpenOk, ListenerOk
<1>5. UNCHANGED <<kernel, m_close, m_read, m_write, m_wbuffer, batch, known, told, leaked>>
  BY <1>3, <1>4 DEF ReturnAccept, TypeOK, Owners
<1>6. OneEach(batch')
  BY <1>1, <1>5 DEF Owned, BatchOk
<1> QED
  BY <1>1, <1>2, <1>5, <1>6, QuietStep

LEMMA ThrowStep ==
  ASSUME TypeOK, TypeOK', OwnInv, ~stale', Throw
  PROVE  Owned'
<1>1. /\ Owned /\ stack' = <<>> /\ leaked' = leaked \cup Closing(stack)
      /\ UNCHANGED <<kernel, tables, batch, known, told>>
  BY DEF Throw, OwnInv, Closing, On, Closers
<1>2. On(stack') = {} /\ Closing(stack') = {} /\ Shape(stack')
  BY <1>1, NoFrames
<1>3. ASSUME NEW o \in Closing(stack)
      PROVE  o \in Objs /\ o \notin known
             /\ \E f \in Fds : file[f] = o /\ (kind[o] = "timer" \/ (kind[o] = "socket" /\ epoll[f] = "none"))
  <2>1. PICK r \in On(stack) : r.op \in Closers /\ r.obj = o
    BY <1>3 DEF Closing
  <2>2. r \in Frames /\ FrameOk(r)
    BY <1>1, <2>1 DEF On, TypeOK, Owned, StackOk
  <2>3. r.fd \in Fds /\ o \in Objs
    BY <2>1, <2>2, FrameFields DEF Closers
  <2>4. kind[o] = "timer" \/ (kind[o] = "socket" /\ epoll[r.fd] = "none")
    BY <2>1, <2>2 DEF FrameOk, Closers
  <2> QED
    BY <2>1, <2>2, <2>3, <2>4 DEF FrameOk
<1>4. ASSUME NEW f \in Fds PROVE SlotOk(f)'
  <2>1. TablesOk(f)'
    BY <1>1 DEF Owned, SlotOk, TablesOk, kernel, tables
  <2>2. ASSUME file'[f] \in Objs PROVE OpenOk(f, file[f])'
    <3>1. PICK o : o = file[f]
      OBVIOUS
    <3>2. o \in Objs /\ file'[f] = o /\ OpenOk(f, o)
      BY <1>1, <2>2, <3>1 DEF Owned, SlotOk, kernel
    <3>3. o \in Closing(stack) => kind[o] = "timer" \/ epoll[f] = "none"
      BY <1>1, <1>3, <3>1, <3>2 DEF Owned, OneFdEach
    <3>4. OpenOk(f, o)'
      BY <1>1, <1>2, <3>2, <3>3
         DEF OpenOk, ListenerOk, TimerOk, SocketOk, CloseOk, kernel, tables
    <3> QED
      BY <3>2, <3>4
  <2> QED
    BY <2>1, <2>2 DEF SlotOk
<1>5. ASSUME NEW o \in Objs PROVE ObjOk(o)'
  <2>1. ObjOk(o)
    BY <1>1 DEF Owned
  <2>2. o \in Closing(stack) => o \notin known /\ kind[o] # "none"
    BY <1>3
  <2> QED
    BY <1>1, <2>1, <2>2 DEF ObjOk, IsOpen, kernel
<1>6. OneFdEach' /\ BatchOk'
  BY <1>1 DEF Owned, OneFdEach, BatchOk, OneEach, EventOk, kernel
<1> QED
  BY <1>2, <1>4, <1>5, <1>6 DEF Owned, StackOk

-----------------------------------------------------------------------------
(* The loop *)

\* epoll_wait reports of what is open now.
LEMMA WaitStep ==
  ASSUME TypeOK, TypeOK', OwnInv, ~stale', Wait
  PROVE  Owned'
<1>1. Owned /\ UNCHANGED <<kernel, tables, stack, known, told, leaked>> /\ stack = <<>>
  BY DEF Wait, OwnInv
<1>2. PICK F \in SUBSET {f \in Fds : epoll[f] # "none" /\ file[f] \in Objs \ leaked} :
        \E bits \in [F -> SUBSET Bits] :
          batch' = {[fd |-> f, obj |-> file[f], state |-> epoll[f], events |-> bits[f]] : f \in F}
  BY DEF Wait
<1>3. PICK bits \in [F -> SUBSET Bits] :
        batch' = {[fd |-> f, obj |-> file[f], state |-> epoll[f], events |-> bits[f]] : f \in F}
  BY <1>2
<1>4. OneEach(batch')
  BY <1>3 DEF OneEach
<1>5. ASSUME NEW e \in batch' PROVE EventOk(e)'
  <2>1. PICK f \in F : e = [fd |-> f, obj |-> file[f], state |-> epoll[f], events |-> bits[f]]
    BY <1>3
  <2>2. f \in Fds /\ file[f] \in Objs /\ epoll[f] # "none"
    OBVIOUS
  <2>3. OpenOk(f, file[f]) /\ kind[file[f]] \in {"listen", "socket", "timer"}
    BY <1>1, <2>2 DEF Owned, SlotOk, OpenOk, TypeOK
  <2>4. kind[file[f]] = KindOf(epoll[f])
    BY <2>2, <2>3 DEF OpenOk, ListenerOk, TimerOk, SocketOk, KindOf
  <2>5. e.fd = f /\ e.obj = file[f] /\ e.state = epoll[f]
    BY <2>1
  <2> QED
    BY <1>1, <2>4, <2>5 DEF EventOk, kernel
<1>6. Shape(stack') /\ Closing(stack') = Closing(stack) /\ On(stack') = On(stack)
  BY <1>1 DEF Owned, StackOk
<1> QED
  BY <1>1, <1>4, <1>5, <1>6, QuietStep DEF tables

LEMMA OnEventStep ==
  ASSUME TypeOK, TypeOK', OwnInv, ~stale', OnEvent
  PROVE  Owned'
<1> DEFINE r == [op |-> "call"]
<1>1. /\ Owned /\ r \in Frames /\ r.op = "call" /\ stack' = <<r>> \o stack
      /\ UNCHANGED <<kernel, tables, batch, known, told, leaked>>
  BY CallFrame DEF OnEvent, OwnInv, Push
<1> HIDE DEF r
<1>2. Shape(stack') /\ On(stack') = {r} \cup On(stack) /\ Closing(stack') = Closing(stack)
  BY <1>1, Pushed DEF Closers, Handlers
<1>3. FrameOk(r)'
  BY <1>1 DEF FrameOk, Closers, Handlers
<1>4. OneEach(batch')
  BY <1>1 DEF Owned, BatchOk
<1> QED
  BY <1>1, <1>2, <1>3, <1>4, QuietStep DEF tables

\* What a handler finds: its event, and the descriptor closed or as it was.
LEMMA Dispatched ==
  ASSUME TypeOK, OwnInv, ~stale', NEW e \in batch, NEW state, Dispatch(e, state)
  PROVE  /\ Owned /\ e.fd \in Fds /\ e.obj \in Objs /\ e.events \in SUBSET Bits
         /\ EventOk(e) /\ e.state = state /\ stack = <<>>
         /\ On(stack) = {} /\ Closing(stack) = {} /\ Shape(stack)
         /\ batch' \subseteq batch /\ OneEach(batch') /\ \A d \in batch' : d.fd # e.fd
         /\ None \notin Objs
         /\ file[e.fd] = None \/ (file[e.fd] = e.obj /\ OpenOk(e.fd, e.obj) /\ ObjOk(e.obj))
<1>1. /\ stack = <<>> /\ e.state = state /\ batch' = batch \ {e} /\ Meet(e.fd, e.obj)
  BY DEF Dispatch
<1>2. Owned /\ (file[e.fd] = None \/ file[e.fd] = e.obj)
  BY <1>1, Met
<1>3. e.fd \in Fds /\ e.obj \in Objs /\ e.events \in SUBSET Bits
  BY DEF TypeOK, Events
<1>4. On(stack) = {} /\ Closing(stack) = {} /\ Shape(stack)
  BY <1>1, NoFrames
<1>5. EventOk(e) /\ OneEach(batch) /\ ObjOk(e.obj)
  BY <1>2, <1>3 DEF Owned, BatchOk
<1>6. OneEach(batch') /\ \A d \in batch' : d.fd # e.fd
  BY <1>1, <1>5 DEF OneEach
<1>7. file[e.fd] = e.obj => OpenOk(e.fd, e.obj)
  BY <1>2, <1>3 DEF Owned, SlotOk
<1> QED
  BY <1>1, <1>2, <1>3, <1>4, <1>5, <1>6, <1>7, Numbers

LEMMA OnRtimerStep ==
  ASSUME TypeOK, TypeOK', OwnInv, ~stale', NEW e \in batch, OnRtimer(e)
  PROVE  Owned'
<1> DEFINE r == [op |-> "call"]
<1>1. /\ Owned /\ r \in Frames /\ r.op = "call" /\ (stack' = <<r>> \o stack \/ stack' = stack)
      /\ UNCHANGED <<kernel, tables, known, told, leaked>>
      /\ batch' \subseteq batch /\ OneEach(batch') /\ Shape(stack)
  BY CallFrame, Dispatched DEF OnRtimer, Push
<1> HIDE DEF r
<1>2. Shape(stack') /\ On(stack') \subseteq {r} \cup On(stack) /\ Closing(stack') = Closing(stack)
  BY <1>1, Pushed DEF Closers, Handlers
<1>3. FrameOk(r)'
  BY <1>1 DEF FrameOk, Closers, Handlers
<1> QED
  BY <1>1, <1>2, <1>3, QuietStep DEF tables

LEMMA OnClientStep ==
  ASSUME TypeOK, TypeOK', OwnInv, ~stale', NEW e \in batch, OnClient(e)
  PROVE  Owned'
<1> DEFINE r == [op |-> "client", fd |-> e.fd, obj |-> e.obj, rest |-> e.events]
<1>1. /\ Owned /\ e.fd \in Fds /\ e.obj \in Objs /\ e.events \in SUBSET Bits /\ EventOk(e)
      /\ e.state = "client" /\ stack = <<>> /\ batch' \subseteq batch /\ OneEach(batch')
  BY Dispatched DEF OnClient
<1>2. /\ r \in Frames /\ r.op = "client" /\ r.fd = e.fd /\ r.obj = e.obj /\ stack' = <<r>> \o stack
      /\ UNCHANGED <<kernel, tables, known, told, leaked>>
  BY <1>1, ClientFrame DEF OnClient, Push
<1> HIDE DEF r
<1>3. Shape(stack') /\ On(stack') = {r} \cup On(stack) /\ Closing(stack') = Closing(stack)
  BY <1>1, <1>2, Pushed DEF Closers, Handlers
<1>4. FrameOk(r)'
  BY <1>1, <1>2 DEF FrameOk, EventOk, KindOf, Closers, Handlers, kernel
<1> QED
  BY <1>1, <1>2, <1>3, <1>4, QuietStep DEF tables

LEMMA OnTimerStep ==
  ASSUME TypeOK, TypeOK', OwnInv, ~stale', NEW e \in batch, OnTimer(e)
  PROVE  Owned'
<1>1. PICK f, o : f = e.fd /\ o = e.obj
  OBVIOUS
<1>2. /\ Owned /\ f \in Fds /\ o \in Objs /\ kind[o] = "timer" /\ stack = <<>>
      /\ On(stack) = {} /\ Closing(stack) = {} /\ Shape(stack) /\ None \notin Objs
      /\ batch' \subseteq batch /\ \A d \in batch' : d.fd # f
      /\ file[f] = None \/ (file[f] = o /\ OpenOk(f, o) /\ ObjOk(o))
  BY <1>1, Dispatched DEF OnTimer, EventOk, KindOf
<1>3. UNCHANGED <<kind, opened, tables, told, leaked>>
  BY DEF OnTimer
<1>4. CASE m_read[f] # None
  <2> DEFINE r == [op |-> "timer", fd |-> f, obj |-> o]
  <2>1. file[f] = o /\ m_read[f] = o
    BY <1>2, <1>4, Unused DEF Owned, SlotOk, TablesOk
  <2>2. /\ r \in Frames /\ r.op = "timer" /\ r.fd = f /\ r.obj = o /\ stack' = <<r>> \o stack
        /\ known' = known \ {o} /\ UNCHANGED <<file, epoll, armed>>
    BY <1>1, <1>2, <1>4, <2>1, SimpleFrame DEF OnTimer, Push
  <2> HIDE DEF r
  <2>3. Shape(stack') /\ On(stack') = {r} /\ Closing(stack') = {o}
    BY <1>2, <2>2, Pushed DEF Closers, Handlers
  <2>4. FrameOk(r)'
    BY <1>2, <1>3, <2>1, <2>2 DEF FrameOk, Closers, Handlers
  <2>5. \A p \in Objs \ {o} : SameOf(p)
    BY <1>2, <1>3, <2>2, <2>3 DEF SameOf
  <2>6. SlotOk(f)'
    <3>1. TablesOk(f)'
      BY <1>2, <1>3, <2>2 DEF Owned, SlotOk, TablesOk, tables
    <3>2. OpenOk(f, o)'
      BY <1>2, <1>3, <2>1, <2>2 DEF OpenOk, ListenerOk, TimerOk, SocketOk, CloseOk, tables
    <3> QED
      BY <2>1, <2>2, <3>1, <3>2 DEF SlotOk
  <2>7. ObjOk(o)'
    BY <1>2, <1>3, <2>1, <2>2 DEF ObjOk, IsOpen
  <2>8. Aside(f)
    BY <1>3, <2>2 DEF Aside, tables
  <2> QED
    BY <1>2, <1>3, <2>1, <2>2, <2>3, <2>4, <2>5, <2>6, <2>7, <2>8, TouchStep
<1>5. CASE m_read[f] = None
  <2>1. /\ file'[f] = None /\ epoll'[f] = "none" /\ UNCHANGED <<stack, known>>
        /\ Aside(f)
    BY <1>1, <1>2, <1>3, <1>5 DEF OnTimer, CloseFd, DelEvent, TypeOK, Aside, tables
  <2>2. m_close[f] = None /\ m_write[f] = None /\ m_wbuffer[f] = None
    BY <1>2, Unused DEF OpenOk, TimerOk
  <2>3. SlotOk(f)'
    BY <1>2, <1>3, <1>5, <2>1, <2>2 DEF SlotOk, TablesOk, tables
  <2>4. CASE file[f] = None
    BY <1>2, <1>3, <2>1, <2>3, <2>4, IdleStep
  <2>5. CASE file[f] = o
    <3>1. o \notin known /\ told[o] # "owed"
      BY <1>2, <1>5, <2>2, <2>5 DEF OpenOk, TimerOk, CloseOk
    <3>2. ObjOk(o)'
      BY <1>2, <1>3, <2>1, <2>5, <3>1 DEF ObjOk
    <3>3. \A p \in Objs : SameOf(p)
      BY <1>3, <2>1 DEF SameOf
    <3> QED
      BY <1>2, <1>3, <2>1, <2>3, <2>5, <3>2, <3>3, TouchStep
  <2> QED
    BY <1>2, <2>4, <2>5
<1> QED
  BY <1>4, <1>5

LEMMA OnAcceptStep ==
  ASSUME TypeOK, TypeOK', OwnInv, ~stale', NEW e \in batch, OnAccept(e)
  PROVE  Owned'
<1>1. /\ Owned /\ e.fd \in Fds /\ e.obj \in Objs /\ file[e.fd] = e.obj /\ kind[e.obj] = "listen"
      /\ stack = <<>> /\ On(stack) = {} /\ Closing(stack) = {} /\ Shape(stack)
      /\ batch' \subseteq batch /\ OneEach(batch') /\ UNCHANGED <<tables, known, told, leaked>>
  BY Dispatched DEF OnAccept, EventOk, KindOf
<1>2. CASE UNCHANGED <<kernel, stack>>
  BY <1>1, <1>2, QuietStep DEF tables
<1>3. ASSUME NEW f \in Fds, Open(f, "socket", "client", FALSE),
             Push([op |-> "accept", fd |-> f, obj |-> opened', from |-> e.fd])
      PROVE  Owned'
  <2>1. PICK n : n = opened + 1
    OBVIOUS
  <2>2. opened' = n /\ opened < MaxOpens /\ file[f] = None /\ None \notin Objs
    BY <1>3, <2>1, Numbers DEF Open, TypeOK
  <2>3. n \in Objs /\ told[n] = "none" /\ n \notin known /\ n \notin leaked /\ n \in Nat
    BY <1>1, <2>1, <2>2, Fresh, Numbers
  <2>4. m_close[f] = None /\ m_read[f] = None /\ m_write[f] = None /\ m_wbuffer[f] = None
    BY <1>1, <2>2, Unused
  <2>5. /\ file'[f] = n /\ kind'[n] = "socket" /\ epoll'[f] = "client" /\ Aside(f)
    BY <1>1, <1>3, <2>2, <2>3 DEF Open, TypeOK, Aside, tables
  <2> DEFINE r == [op |-> "accept", fd |-> f, obj |-> n, from |-> e.fd]
  <2>6. /\ r \in Frames /\ r.op = "accept" /\ r.fd = f /\ r.obj = n /\ r.from = e.fd
        /\ stack' = <<r>> \o stack
    BY <1>1, <1>3, <2>2, <2>3, AcceptFrame DEF Push
  <2> HIDE DEF r
  <2>7. Shape(stack') /\ On(stack') = {r} /\ Closing(stack') = {}
    BY <1>1, <2>6, Pushed DEF Closers, Handlers
  <2>8. file'[e.fd] = e.obj /\ kind'[e.obj] = "listen"
    <3>1. e.fd # f /\ e.obj # n
      BY <1>1, <2>1, <2>2, Fresh
    <3> QED
      BY <1>1, <1>3, <2>2, <2>5, <3>1 DEF Open, TypeOK, Aside
  <2>9. FrameOk(r)'
    BY <1>1, <2>3, <2>5, <2>6, <2>8 DEF FrameOk, Closers, Handlers
  <2>10. \A p \in Objs \ {n} : SameOf(p)
    BY <1>1, <1>3, <2>2, <2>7 DEF Open, TypeOK, SameOf
  <2>11. SlotOk(f)'
    <3>1. TablesOk(f)'
      BY <1>1, <2>3, <2>4, <2>5 DEF TablesOk, tables
    <3>2. OpenOk(f, n)'
      BY <1>1, <2>2, <2>3, <2>4, <2>5
         DEF OpenOk, ListenerOk, TimerOk, SocketOk, CloseOk, tables
    <3> QED
      BY <2>5, <3>1, <3>2 DEF SlotOk
  <2>12. ObjOk(n)'
    BY <1>1, <2>2, <2>3, <2>5 DEF ObjOk, IsOpen
  <2> QED
    BY <1>1, <2>1, <2>2, <2>5, <2>7, <2>9, <2>10, <2>11, <2>12, OpenStep
<1> QED
  BY <1>2, <1>3 DEF OnAccept

LEMMA OnConnectStep ==
  ASSUME TypeOK, TypeOK', OwnInv, ~stale', NEW e \in batch, OnConnect(e)
  PROVE  Owned'
<1>1. PICK f, o : f = e.fd /\ o = e.obj
  OBVIOUS
<1>2. /\ Owned /\ f \in Fds /\ o \in Objs /\ kind[o] = "socket" /\ stack = <<>>
      /\ On(stack) = {} /\ Closing(stack) = {} /\ Shape(stack) /\ None \notin Objs
      /\ batch' \subseteq batch /\ \A d \in batch' : d.fd # f
      /\ file[f] = None \/ (file[f] = o /\ OpenOk(f, o) /\ ObjOk(o))
      /\ file[f] = o => epoll[f] = "connect"
  BY <1>1, Dispatched DEF OnConnect, EventOk, KindOf
<1>3. /\ UNCHANGED <<file, kind, opened, tables, known, told, leaked>>
      /\ epoll'[f] = (IF epoll[f] = "none" THEN "none" ELSE "client")
      /\ Aside(f)
  BY <1>1, <1>2 DEF OnConnect, ModEvent, TypeOK, Aside, tables
<1> DEFINE r == [op |-> "connected", fd |-> f, obj |-> o]
<1>4. /\ r \in Frames /\ r.op = "connected" /\ r.fd = f /\ r.obj = o
      /\ stack' = <<r>> \o stack \/ stack' = stack
  BY <1>1, <1>2, SimpleFrame DEF OnConnect, Push
<1> HIDE DEF r
<1>5. Shape(stack') /\ On(stack') \subseteq {r} /\ Closing(stack') = Closing(stack)
  BY <1>2, <1>4, Pushed DEF Closers, Handlers
<1>6. \A p \in Objs : SameOf(p)
  BY <1>3, <1>5 DEF SameOf
<1>7. file[f] = o => o \notin leaked
  BY <1>2 DEF OpenOk, SocketOk
<1>8. FrameOk(r)'
  BY <1>2, <1>3, <1>4, <1>7 DEF FrameOk, Closers, Handlers
<1>9. CASE file[f] = None
  <2>1. SlotOk(f)'
    BY <1>2, <1>3, <1>9, Unused DEF SlotOk, TablesOk, tables
  <2> QED
    BY <1>2, <1>3, <1>5, <1>8, <1>9, <2>1, IdleStep
<1>10. CASE file[f] = o
  <2>1. m_read[f] = None /\ m_write[f] = None /\ m_wbuffer[f] = None /\ o \notin known
    BY <1>2, <1>10 DEF OpenOk, SocketOk
  <2>2. TablesOk(f)'
    BY <1>2, <1>3, <1>10, <2>1 DEF Owned, SlotOk, TablesOk, tables
  <2>3. OpenOk(f, o)'
    BY <1>2, <1>3, <1>5, <1>7, <1>10, <2>1
       DEF OpenOk, ListenerOk, TimerOk, SocketOk, CloseOk, tables
  <2>4. SlotOk(f)'
    BY <1>3, <1>10, <2>2, <2>3 DEF SlotOk
  <2>5. ObjOk(o)'
    BY <1>2, <1>3, <1>10 DEF ObjOk, IsOpen
  <2>6. epoll'[f] # "connect"
    BY <1>3
  <2> QED
    BY <1>2, <1>3, <1>5, <1>6, <1>8, <1>10, <2>4, <2>5, <2>6, TouchStep
<1> QED
  BY <1>2, <1>9, <1>10

LEMMA OnRefusedStep ==
  ASSUME TypeOK, TypeOK', OwnInv, ~stale', NEW e \in batch, OnRefused(e)
  PROVE  Owned'
<1>1. PICK f, o : f = e.fd /\ o = e.obj
  OBVIOUS
<1>2. /\ Owned /\ f \in Fds /\ o \in Objs /\ kind[o] = "socket" /\ stack = <<>>
      /\ On(stack) = {} /\ Closing(stack) = {} /\ Shape(stack) /\ None \notin Objs
      /\ batch' \subseteq batch /\ \A d \in batch' : d.fd # f
      /\ file[f] = None \/ (file[f] = o /\ OpenOk(f, o) /\ ObjOk(o))
      /\ file[f] = o => epoll[f] = "connect"
  BY <1>1, Dispatched DEF OnRefused, EventOk, KindOf
<1>3. /\ UNCHANGED <<kind, opened, tables, leaked>> /\ epoll'[f] = "none" /\ Aside(f)
      /\ CallClose(f, [op |-> "refused", fd |-> f, obj |-> o], stack)
  BY <1>1, <1>2 DEF OnRefused, CallClose, CloseFd, DelEvent, TypeOK, Aside, tables
<1>4. m_read[f] = None /\ m_write[f] = None /\ m_wbuffer[f] = None
  BY <1>2, Unused DEF OpenOk, SocketOk
<1>5. file[f] = o => o \notin known /\ o \notin leaked
  BY <1>2 DEF OpenOk, SocketOk
<1>6. CASE m_close[f] = None
  <2>1. stack' = stack /\ file'[f] = None /\ UNCHANGED <<known, told>>
    BY <1>2, <1>3, <1>6 DEF CallClose, CloseFd, TypeOK
  <2>2. \A p \in Objs : SameOf(p)
    BY <1>3, <2>1 DEF SameOf
  <2>3. SlotOk(f)'
    BY <1>2, <1>3, <1>4, <1>6, <2>1 DEF SlotOk, TablesOk, tables
  <2>4. CASE file[f] = None
    BY <1>2, <1>3, <2>1, <2>3, <2>4, IdleStep
  <2>5. CASE file[f] = o
    <3>1. told[o] # "owed"
      BY <1>2, <1>6, <2>5 DEF OpenOk, CloseOk
    <3>2. ObjOk(o)'
      BY <1>2, <1>3, <1>5, <2>1, <2>5, <3>1 DEF ObjOk
    <3> QED
      BY <1>2, <1>3, <2>1, <2>2, <2>3, <2>5, <3>2, TouchStep
  <2> QED
    BY <1>2, <2>4, <2>5
<1>7. CASE m_close[f] # None
  <2>1. file[f] = o /\ m_close[f] = o
    BY <1>2, <1>7, Unused DEF Owned, SlotOk, TablesOk
  <2> DEFINE r == [op |-> "refused", fd |-> f, obj |-> o]
  <2>2. /\ r \in Frames /\ r.op = "refused" /\ r.fd = f /\ r.obj = o /\ stack' = <<r>> \o stack
    BY <1>2, <1>3, <1>7, SimpleFrame DEF CallClose
  <2> HIDE DEF r
  <2>3. /\ file'[f] = o /\ known' = known \ {o}
        /\ told' = [told EXCEPT ![o] = IF @ \in {"called", "twice"} THEN "twice" ELSE "called"]
    BY <1>3, <1>7, <2>1 DEF CallClose, Tell
  <2>4. Shape(stack') /\ On(stack') = {r} /\ Closing(stack') = {o}
    BY <1>2, <2>2, Pushed DEF Closers, Handlers
  <2>5. \A p \in Objs \ {o} : SameOf(p)
    BY <1>2, <1>3, <2>3, <2>4 DEF SameOf, TypeOK
  <2>6. told'[o] = "called"
    BY <1>2, <1>5, <1>7, <2>1, <2>3 DEF OpenOk, CloseOk, TypeOK
  <2>7. SlotOk(f)'
    <3>1. TablesOk(f)'
      BY <1>2, <1>3, <1>4, <2>1, <2>3 DEF TablesOk, tables
    <3>2. OpenOk(f, o)'
      BY <1>2, <1>3, <2>1, <2>3, <2>4, <2>6
         DEF OpenOk, ListenerOk, TimerOk, SocketOk, CloseOk, tables
    <3> QED
      BY <2>3, <3>1, <3>2 DEF SlotOk
  <2>8. ObjOk(o)'
    BY <1>2, <1>3, <2>1, <2>3, <2>6 DEF ObjOk
  <2>9. FrameOk(r)'
    BY <1>2, <1>3, <1>4, <2>2, <2>3, <2>6 DEF FrameOk, Closers, Handlers, tables
  <2>10. kind[o] # "listen" /\ epoll'[f] # "connect"
    BY <1>2, <1>3
  <2> QED
    BY <1>2, <1>3, <2>1, <2>3, <2>4, <2>5, <2>7, <2>8, <2>9, <2>10, TouchStep
<1> QED
  BY <1>6, <1>7

\* __onclient runs at the bottom of the stack; what is left of it is about the
\* same connection.
LEMMA InClientMeets ==
  ASSUME TypeOK, Owned, InClient
  PROVE  /\ Running \in Frames /\ Running.fd \in Fds /\ Running.obj \in Objs
         /\ Running.rest \in SUBSET Bits
         /\ kind[Running.obj] = "socket"
         /\ file[Running.fd] = Running.obj => epoll[Running.fd] # "connect"
         /\ Tail(stack) = <<>> /\ Closing(stack) = {}
         /\ \A b \in SUBSET Bits :
              /\ Left(b) \in Seq(Frames) /\ Shape(Left(b)) /\ Closing(Left(b)) = {}
              /\ \A r \in On(Left(b)) : r.op = "client" /\ r.fd = Running.fd /\ r.obj = Running.obj
<1>1. /\ Running \in Frames /\ Running.op = "client" /\ FrameOk(Running) /\ Tail(stack) = <<>>
      /\ Closing(stack) = Closing(Tail(stack))
  BY Popped DEF InClient, Closers, Handlers
<1>2. Running.fd \in Fds /\ Running.obj \in Objs /\ Running.rest \in SUBSET Bits
  BY <1>1, FrameFields
<1>3. /\ kind[Running.obj] = "socket"
      /\ file[Running.fd] = Running.obj => epoll[Running.fd] # "connect"
  BY <1>1 DEF FrameOk, Handlers
<1>4. Closing(stack) = {}
  BY <1>1, NoFrames
<1>5. ASSUME NEW b \in SUBSET Bits
      PROVE  /\ Left(b) \in Seq(Frames) /\ Shape(Left(b)) /\ Closing(Left(b)) = {}
             /\ \A r \in On(Left(b)) : r.op = "client" /\ r.fd = Running.fd /\ r.obj = Running.obj
  <2> DEFINE q == [Running EXCEPT !.rest = b]
             s == Tail(stack)
  <2>1. q \in Frames
    BY <1>1, RestFrame
  <2>2. q.op = "client" /\ q.fd = Running.fd /\ q.obj = Running.obj
    BY <1>1 DEF Frames
  <2>3. Left(b) = <<q>> \o s /\ s = <<>> /\ s \in Seq(Frames)
    <3>1. Left(b) = <<q>> \o s
      BY DEF Left
    <3>2. s = <<>>
      BY <1>1
    <3> HIDE DEF s
    <3>3. s \in Seq(Frames)
      BY <3>2
    <3> QED
      BY <3>1, <3>2, <3>3
  <2> HIDE DEF q, s
  <2>4. Shape(s) /\ On(s) = {} /\ Closing(s) = {}
    BY <2>3, NoFrames
  <2>5. Left(b) \in Seq(Frames)
    BY <2>1, <2>3, PushFrame
  <2>6. Shape(<<q>> \o s) /\ On(<<q>> \o s) = {q} \cup On(s) /\ Closing(<<q>> \o s) = Closing(s)
    BY <2>1, <2>2, <2>3, <2>4, PushShape, PushOn, PushClosing DEF Closers, Handlers
  <2> QED
    BY <2>2, <2>3, <2>4, <2>5, <2>6
<1> QED
  BY <1>1, <1>2, <1>3, <1>4, <1>5

LEMMA ClientInStep ==
  ASSUME TypeOK, TypeOK', OwnInv, ~stale', ClientIn
  PROVE  Owned'
<1> DEFINE left == Left(Running.rest \ {"in"})
           c == [op |-> "call"]
<1>1. /\ Owned /\ InClient /\ UNCHANGED <<kernel, tables, batch, known, told, leaked>>
      /\ stack' = left \/ stack' = <<c>> \o left
  BY Met DEF ClientIn
<1>2. /\ Running.rest \in SUBSET Bits /\ kind[Running.obj] = "socket" /\ Closing(stack) = {}
      /\ file[Running.fd] = Running.obj => epoll[Running.fd] # "connect"
  BY <1>1, InClientMeets
<1>3. Running.rest \ {"in"} \in SUBSET Bits
  BY <1>2
<1>4. /\ left \in Seq(Frames) /\ Shape(left) /\ Closing(left) = {}
      /\ \A r \in On(left) : r.op = "client" /\ r.fd = Running.fd /\ r.obj = Running.obj
  BY <1>1, <1>3, InClientMeets
<1>5. c \in Frames /\ c.op = "call"
  BY CallFrame
<1> HIDE DEF left, c
<1>6. Shape(<<c>> \o left) /\ On(<<c>> \o left) = {c} \cup On(left) /\ Closing(<<c>> \o left) = Closing(left)
  BY <1>4, <1>5, PushShape, PushOn, PushClosing DEF Closers, Handlers
<1>7. Shape(stack') /\ Closing(stack') = Closing(stack) /\ On(stack') \subseteq {c} \cup On(left)
  BY <1>1, <1>2, <1>4, <1>6
<1>8. \A r \in On(stack') : FrameOk(r)'
  BY <1>1, <1>2, <1>4, <1>5, <1>7 DEF FrameOk, Closers, Handlers, kernel
<1>9. OneEach(batch')
  BY <1>1 DEF Owned, BatchOk
<1> QED
  BY <1>1, <1>7, <1>8, <1>9, QuietStep DEF tables

LEMMA ClientOutStep ==
  ASSUME TypeOK, TypeOK', OwnInv, ~stale', ClientOut
  PROVE  Owned'
<1> DEFINE left == Left(Running.rest \ {"out"})
<1>1. PICK f, o : f = Running.fd /\ o = Running.obj
  OBVIOUS
<1>2. Owned /\ InClient /\ (file[f] = None \/ file[f] = o)
  BY <1>1, Met DEF ClientOut, Clientclose
<1>3. /\ f \in Fds /\ o \in Objs /\ kind[o] = "socket" /\ Closing(stack) = {}
      /\ file[f] = o => epoll[f] # "connect"
      /\ Running.rest \in SUBSET Bits /\ None \notin Objs
  BY <1>1, <1>2, InClientMeets, Numbers
<1>4. Running.rest \ {"out"} \in SUBSET Bits
  BY <1>3
<1>5. /\ left \in Seq(Frames) /\ Shape(left) /\ Closing(left) = {}
      /\ \A r \in On(left) : r.op = "client" /\ r.fd = f /\ r.obj = o
  BY <1>1, <1>2, <1>4, InClientMeets
<1>6. CASE Clientclose(f, o, left)
  <2> HIDE DEF left
  <2> QED
    BY <1>2, <1>3, <1>5, <1>6, ClientcloseStep
<1>7. CASE /\ \/ m_write[f] = None /\ UNCHANGED <<epoll, armed, m_wbuffer>>
              \/ m_write[f] # None /\ m_wbuffer[f] # None /\ ModEvent(f, TRUE) /\ UNCHANGED m_wbuffer
              \/ /\ m_write[f] # None /\ ModEvent(f, FALSE)
                 /\ m_wbuffer' = [m_wbuffer EXCEPT ![f] = None]
           /\ stack' = left
           /\ UNCHANGED <<file, kind, opened, m_client, m_close, m_read, m_write, batch, known,
                          told, leaked>>
  <2> HIDE DEF left
  <2>1. \A p \in Objs : SameOf(p)
    BY <1>3, <1>5, <1>7 DEF SameOf
  <2>2. Aside(f)
    BY <1>7 DEF ModEvent, TypeOK, Owners, Aside
  <2>3. /\ epoll'[f] \in {epoll[f], "client"}
        /\ epoll[f] = "none" => epoll'[f] = "none"
        /\ m_wbuffer'[f] # None =>
             m_wbuffer'[f] = m_wbuffer[f] /\ epoll'[f] = epoll[f] /\ armed'[f]
        /\ m_wbuffer'[f] \in {None, m_wbuffer[f]}
    <3>1. TablesOk(f)
      BY <1>2, <1>3 DEF Owned, SlotOk
    <3> QED
      BY <1>3, <1>7, <3>1 DEF ModEvent, TypeOK, Owners, TablesOk
  <2>4. TablesOk(f)'
    BY <1>2, <1>3, <1>7, <2>3 DEF Owned, SlotOk, TablesOk
  <2>5. CASE file[f] = None
    <3>1. SlotOk(f)'
      BY <1>3, <1>7, <2>4, <2>5 DEF SlotOk
    <3>2. \A r \in On(stack') : FrameOk(r)'
      BY <1>3, <1>5, <1>7, <2>5 DEF FrameOk, Closers, Handlers
    <3>3. Shape(stack') /\ Closing(stack') = Closing(stack)
      BY <1>3, <1>5, <1>7
    <3> QED
      BY <1>2, <1>3, <1>7, <2>2, <2>5, <3>1, <3>2, <3>3, IdleStep
  <2>6. CASE file[f] = o
    <3>1. OpenOk(f, o) /\ ObjOk(o)
      BY <1>2, <1>3, <2>6 DEF Owned, SlotOk
    <3>2. epoll'[f] # "connect" /\ epoll[f] # "connect"
      BY <1>3, <2>3, <2>6
    <3>3. OpenOk(f, o)'
      BY <1>3, <1>5, <1>7, <2>3, <3>1, <3>2
         DEF OpenOk, ListenerOk, TimerOk, SocketOk, CloseOk
    <3>4. SlotOk(f)'
      BY <1>7, <2>4, <2>6, <3>3 DEF SlotOk
    <3>5. ObjOk(o)'
      BY <1>7, <3>1 DEF ObjOk, IsOpen
    <3>6. \A r \in On(stack') : FrameOk(r)'
      BY <1>3, <1>5, <1>7, <3>2 DEF FrameOk, Closers, Handlers
    <3>7. Shape(stack') /\ kind[o] # "listen"
      BY <1>3, <1>5, <1>7
    <3> QED
      BY <1>2, <1>3, <1>7, <2>1, <2>2, <2>6, <3>2, <3>4, <3>5, <3>6, <3>7, TouchStep
  <2> QED
    BY <1>2, <2>5, <2>6
<1> QED
  BY <1>1, <1>6, <1>7 DEF ClientOut

LEMMA ClientHupStep ==
  ASSUME TypeOK, TypeOK', OwnInv, ~stale', ClientHup
  PROVE  Owned'
<1>1. PICK f, o, left : f = Running.fd /\ o = Running.obj /\ left = Left({})
  OBVIOUS
<1>2. Owned /\ InClient /\ (file[f] = None \/ file[f] = o) /\ Clientclose(f, o, left)
  BY <1>1, Met DEF ClientHup, Clientclose
<1>3. /\ f \in Fds /\ o \in Objs /\ kind[o] = "socket" /\ Closing(stack) = {}
      /\ file[f] = o => epoll[f] # "connect"
      /\ left \in Seq(Frames) /\ Shape(left) /\ Closing(left) = {}
      /\ \A r \in On(left) : r.op = "client" /\ r.fd = f /\ r.obj = o
  BY <1>1, <1>2, InClientMeets
<1> QED
  BY <1>2, <1>3, ClientcloseStep

LEMMA ClientEndStep ==
  ASSUME TypeOK, TypeOK', OwnInv, ~stale', ClientEnd
  PROVE  Owned'
<1>1. /\ Owned /\ stack # <<>> /\ stack' = Tail(stack) /\ Running.op \notin Closers
      /\ UNCHANGED <<kernel, tables, batch, known, told, leaked>>
  BY DEF ClientEnd, InClient, OwnInv, Closers
<1>2. Closing(stack') = Closing(stack) /\ Shape(stack') /\ On(stack') \subseteq On(stack)
  BY <1>1, Popped
<1>3. OneEach(batch')
  BY <1>1 DEF Owned, BatchOk
<1> QED
  BY <1>1, <1>2, <1>3, QuietStep DEF tables

-----------------------------------------------------------------------------
(* The theorems *)

LEMMA OwnInit == Init => OwnInv
<1> SUFFICES ASSUME Init PROVE Owned
  BY DEF OwnInv
<1>1. None \notin Objs /\ TypeOK
  BY Numbers, InitTypes
<1> DEFINE c == [op |-> "call"]
           s == <<>>
<1>2. stack = <<c>> \o s /\ c \in Frames /\ c.op = "call" /\ s \in Seq(Frames) /\ s = <<>>
  BY CallFrame DEF Init
<1> HIDE DEF c, s
<1>3. Shape(s) /\ On(s) = {}
  BY <1>2, NoFrames
<1>4. Shape(stack) /\ On(stack) = {c}
  <2>1. c.op \notin Handlers /\ c.op \notin Closers
    BY <1>2 DEF Closers, Handlers
  <2>2. Shape(<<c>> \o s)
    BY <1>2, <1>3, <2>1, PushShape
  <2>3. On(<<c>> \o s) = {c}
    BY <1>2, <1>3, PushOn
  <2> QED
    BY <1>2, <2>2, <2>3
<1>5. FrameOk(c)
  BY <1>2 DEF FrameOk, Closers, Handlers
<1>6. StackOk
  BY <1>4, <1>5 DEF StackOk
<1>7. \A f \in Fds : file[f] = None /\ SlotOk(f)
  BY <1>1 DEF Init, Nobody, SlotOk, TablesOk
<1>8. OneFdEach
  BY <1>1, <1>7 DEF OneFdEach
<1>9. \A o \in Objs : ObjOk(o)
  BY DEF Init, ObjOk
<1>10. BatchOk
  BY DEF Init, BatchOk, OneEach
<1> QED
  BY <1>6, <1>7, <1>8, <1>9, <1>10 DEF Owned

LEMMA OwnStep ==
  ASSUME NoListenClose
  PROVE  TypeOK /\ TypeOK' /\ OwnInv /\ [Next]_vars => OwnInv'
<1> SUFFICES ASSUME TypeOK, TypeOK', OwnInv, [Next]_vars, ~stale' PROVE Owned'
  BY DEF OwnInv
<1>1. CASE UNCHANGED vars
  <2>1. Owned /\ UNCHANGED <<kernel, tables, batch, stack, known, told, leaked>>
    BY <1>1 DEF vars, OwnInv
  <2>2. Shape(stack') /\ OneEach(batch') /\ Closing(stack') = Closing(stack)
    BY <2>1 DEF Owned, StackOk, BatchOk
  <2> QED
    BY <2>1, <2>2, QuietStep DEF tables
<1>2. ASSUME NEW f \in Fds,
             \/ Start(f) \/ Connect(f) \/ ConnectFails(f) \/ SetTimer(f) \/ StopTimer(f)
             \/ SetClient(f) \/ SendBlocked(f) \/ SendFails(f) \/ OtherThread(f)
      PROVE  Owned'
  BY <1>2, StartStep, ConnectStep, ConnectFailsStep, SetTimerStep, StopTimerStep, SetClientStep,
     SendBlockedStep, SendFailsStep, OtherThreadStep
<1>3. CASE Return \/ ReturnAccept \/ ReturnClose \/ ReturnTimer \/ Throw
  BY <1>3, ReturnStep, ReturnAcceptStep, ReturnCloseStep, ThrowStep
<1>4. CASE Wait \/ OnEvent
  BY <1>4, WaitStep, OnEventStep
<1>5. ASSUME NEW e \in batch,
             OnTimer(e) \/ OnRtimer(e) \/ OnAccept(e) \/ OnConnect(e) \/ OnRefused(e) \/ OnClient(e)
      PROVE  Owned'
  BY <1>5, OnTimerStep, OnRtimerStep, OnAcceptStep, OnConnectStep, OnRefusedStep, OnClientStep
<1>6. CASE ClientIn \/ ClientOut \/ ClientHup \/ ClientEnd
  BY <1>6, ClientInStep, ClientOutStep, ClientHupStep, ClientEndStep
<1> QED
  BY <1>1, <1>2, <1>3, <1>4, <1>5, <1>6 DEF Next

LEMMA OwnMeaning ==
  ASSUME TypeOK, OwnInv
  PROVE  OwnDescriptors /\ CloseCalledOnce /\ OwnCallbacks
<1>1. KnownIsOpen /\ CloseCalledOnce
  BY DEF TypeOK, OwnInv, Owned, ObjOk, KnownIsOpen, CloseCalledOnce
<1>2. OwnCallbacks
  BY DEF OwnInv, Owned, SlotOk, TablesOk, OwnCallbacks
<1>3. ClosersOwn
  BY DEF OwnInv, Owned, StackOk, FrameOk, On, Closers, ClosersOwn
<1>4. NothingForgotten
  <2> SUFFICES ASSUME ~stale, NEW f \in Fds, file[f] \in Objs \ leaked, epoll[f] = "none"
               PROVE  \E i \in DOMAIN stack :
                        stack[i].op \in {"closing", "refused", "failed"} /\ stack[i].fd = f
    BY DEF NothingForgotten
  <2>1. Owned /\ OpenOk(f, file[f])
    BY DEF OwnInv, Owned, SlotOk
  <2>2. file[f] \in Closing(stack) /\ kind[file[f]] = "socket"
    BY <2>1 DEF OpenOk, ListenerOk, TimerOk, SocketOk, TypeOK
  <2>3. PICK i \in DOMAIN stack : stack[i].op \in Closers /\ stack[i].obj = file[f]
    BY <2>2 DEF Closing, On
  <2>4. stack[i] \in Frames /\ FrameOk(stack[i])
    BY <2>1, <2>3 DEF On, TypeOK, Owned, StackOk
  <2>5. stack[i].fd \in Fds /\ file[stack[i].fd] = file[f] /\ stack[i].op # "timer"
    BY <2>2, <2>3, <2>4, FrameFields DEF FrameOk, Closers
  <2>6. stack[i].fd = f
    BY <2>1, <2>5 DEF Owned, OneFdEach
  <2> QED
    BY <2>3, <2>5, <2>6 DEF Closers
<1> QED
  BY <1>1, <1>2, <1>3, <1>4 DEF OwnDescriptors

LEMMA OwnAlways ==
  ASSUME NoListenClose
  PROVE  Spec => [](TypeOK /\ OwnInv)
<1>1. Init => TypeOK /\ OwnInv
  BY InitTypes, OwnInit
<1>2. (TypeOK /\ OwnInv) /\ [Next]_vars => (TypeOK /\ OwnInv)'
  BY StepTypes, OwnStep
<1> QED
  BY <1>1, <1>2, PTL DEF Spec

\* As long as start is given no close callback (nobody gives it one) and no
\* event met with a later owner of its descriptor: a client that is valid and
\* a timer that is set are open, who is going to close a descriptor still owns
\* it, and nothing stays open of which no event is reported.
THEOREM DescriptorsAreOwned ==
  ASSUME NoListenClose
  PROVE  Spec => []OwnDescriptors
<1>1. TypeOK /\ OwnInv => OwnDescriptors
  BY OwnMeaning
<1> QED
  BY <1>1, OwnAlways, PTL

\* Likewise: no connection goes away without a call of its close callback, and
\* none is told twice, but for one whose close callback threw.
THEOREM ClosedOnce ==
  ASSUME NoListenClose
  PROVE  Spec => []CloseCalledOnce
<1>1. TypeOK /\ OwnInv => CloseCalledOnce
  BY OwnMeaning
<1> QED
  BY <1>1, OwnAlways, PTL

\* Likewise: the tables hold for a descriptor what was registered for what it
\* refers to, and messages wait only where EPOLLOUT will be reported.
THEOREM CallbacksAreOwn ==
  ASSUME NoListenClose
  PROVE  Spec => []OwnCallbacks
<1>1. TypeOK /\ OwnInv => OwnCallbacks
  BY OwnMeaning
<1> QED
  BY <1>1, OwnAlways, PTL

-----------------------------------------------------------------------------
(* What is opened lives as module Connections says *)

Life == [o \in Objs |-> LifeOf(o)]

\* A step keeps the promise.
Kept == Promise!Promised \/ UNCHANGED Life

LEMMA PromisedObjs == Promise!Objs = Objs
  BY DEF Promise!Objs, Objs

LEMMA OneLife ==
  ASSUME NEW o \in Objs, NEW how, LifeOf(o)' = how,
         \A p \in Objs \ {o} : LifeOf(p)' = LifeOf(p)
  PROVE  Life' = [Life EXCEPT ![o] = how]
  BY DEF Life

\* Nothing is opened, told or closed.
LEMMA Steady ==
  ASSUME UNCHANGED <<opened, told, leaked>>,
         \A p \in Objs : IsOpen(p)' <=> IsOpen(p)
  PROVE  Kept
<1>1. \A p \in Objs : LifeOf(p)' = LifeOf(p)
  BY DEF LifeOf
<1> QED
  BY <1>1 DEF Kept, Life

LEMMA SteadyFiles ==
  ASSUME UNCHANGED <<file, opened, told, leaked>>
  PROVE  Kept
<1>1. \A p \in Objs : IsOpen(p)' <=> IsOpen(p)
  BY DEF IsOpen
<1> QED
  BY <1>1, Steady

\* f is opened as n.
LEMMA OpenKept ==
  ASSUME TypeOK, TypeOK', Owned, NEW f \in Fds, opened < MaxOpens, NEW n, n = opened + 1,
         opened' = n, file[f] = None, file' = [file EXCEPT ![f] = n],
         \A p \in Objs \ {n} : told'[p] = told[p],
         told'[n] \in {"none", "owed", "called"}, UNCHANGED leaked
  PROVE  Kept
<1>1. n \in Objs /\ n \notin leaked /\ opened \in Nat /\ None \notin Objs
  BY Fresh, Numbers DEF TypeOK
<1>2. IsOpen(n)'
  BY DEF IsOpen, TypeOK
<1>3. LifeOf(n)' = told'[n] /\ LifeOf(n) = "new"
  BY <1>1, <1>2 DEF LifeOf
<1>4. ASSUME NEW p \in Objs \ {n} PROVE LifeOf(p)' = LifeOf(p) /\ (p < n => LifeOf(p) # "new")
  <2>1. p \in Nat /\ (p > opened' <=> p > opened)
    BY <1>1 DEF Objs
  <2>2. IsOpen(p)' <=> IsOpen(p)
    BY <1>1 DEF IsOpen, TypeOK
  <2>3. LifeOf(p)' = LifeOf(p)
    BY <2>1, <2>2 DEF LifeOf
  <2>4. told[p] # "new"
    BY DEF TypeOK, Tolds
  <2>5. p < n => ~(p > opened)
    BY <1>1, <2>1
  <2> QED
    BY <2>3, <2>4, <2>5 DEF LifeOf
<1>5. PICK how : how = told'[n]
  OBVIOUS
<1>6. Life' = [Life EXCEPT ![n] = how]
  BY <1>1, <1>3, <1>4, <1>5, OneLife
<1>7. \A p \in Objs : p < n => Life[p] # "new"
  <2>1. ~(n < n)
    BY <1>1
  <2> QED
    BY <1>4, <2>1 DEF Life
<1>8. Life[n] = "new"
  BY <1>1, <1>3 DEF Life
<1>9. Promise!Open(n)
  BY <1>5, <1>6, <1>7, <1>8, PromisedObjs DEF Promise!Open, Life
<1> QED
  BY <1>1, <1>9, PromisedObjs DEF Kept, Promise!Promised

\* What an open o is to its user.
LEMMA OpenLife ==
  ASSUME TypeOK, Owned, NEW f \in Fds, NEW o \in Objs, file[f] = o
  PROVE  /\ IsOpen(o) /\ ~(o > opened) /\ OpenOk(f, o) /\ ObjOk(o)
         /\ LifeOf(o) = (IF o \in leaked THEN "half" ELSE told[o])
         /\ o \notin leaked => told[o] \in {"none", "owed", "called"}
<1>1. OpenOk(f, o) /\ ObjOk(o)
  BY DEF Owned, SlotOk
<1>2. IsOpen(o) /\ o <= opened
  BY <1>1 DEF IsOpen, OpenOk
<1>3. ~(o > opened)
  BY <1>2, Numbers DEF TypeOK
<1>4. o \notin leaked => told[o] \in {"none", "owed", "called"}
  BY <1>1 DEF ObjOk, TypeOK, Tolds
<1> QED
  BY <1>1, <1>2, <1>3, <1>4 DEF LifeOf

\* f, which is open as o, is closed.
LEMMA CloseKept ==
  ASSUME TypeOK, Owned, NEW f \in Fds, NEW o \in Objs, file[f] = o,
         file' = [file EXCEPT ![f] = None], o \notin leaked => told[o] # "owed",
         UNCHANGED <<opened, told, leaked>>
  PROVE  Kept
<1>1. None \notin Objs
  BY Numbers
<1>2. \A g \in Fds \ {f} : file[g] # o
  BY DEF Owned, OneFdEach
<1>3. ~IsOpen(o)' /\ ~(o > opened)
  BY <1>1, <1>2, OpenLife DEF IsOpen, TypeOK
<1>4. LifeOf(o)' = "closed"
  BY <1>3 DEF LifeOf
<1>5. LifeOf(o) \in {"none", "called", "half"}
  BY OpenLife
<1>6. ASSUME NEW p \in Objs \ {o} PROVE LifeOf(p)' = LifeOf(p)
  <2>1. IsOpen(p)' <=> IsOpen(p)
    BY <1>1 DEF IsOpen, TypeOK
  <2> QED
    BY <2>1 DEF LifeOf
<1>7. Life' = [Life EXCEPT ![o] = "closed"]
  BY <1>4, <1>6, OneLife
<1>8. Promise!Close(o)
  BY <1>5, <1>7 DEF Promise!Close, Life
<1> QED
  BY <1>8, PromisedObjs DEF Kept, Promise!Promised

\* f refers to nothing, and is closed.
LEMMA CloseIdle ==
  ASSUME TypeOK, NEW f \in Fds, file[f] = None, file' = [file EXCEPT ![f] = None],
         UNCHANGED <<opened, told, leaked>>
  PROVE  Kept
<1>1. file' = file
  BY DEF TypeOK
<1> QED
  BY <1>1, SteadyFiles

\* f is closed, or its close callback is called.
LEMMA CallCloseKept ==
  ASSUME TypeOK, TypeOK', Owned, NEW f \in Fds, NEW o \in Objs, file[f] \in {None, o},
         o \notin Closing(stack), NEW frame, NEW below, CallClose(f, frame, below),
         UNCHANGED <<opened, leaked>>
  PROVE  Kept
<1>1. CASE m_close[f] = None
  <2>1. file' = [file EXCEPT ![f] = None] /\ UNCHANGED told
    BY <1>1 DEF CallClose, CloseFd
  <2>2. CASE file[f] = None
    BY <2>1, <2>2, CloseIdle
  <2>3. CASE file[f] = o
    <3>1. told[o] # "owed"
      BY <1>1, <2>3, OpenLife, Numbers DEF OpenOk, CloseOk
    <3> QED
      BY <2>1, <2>3, <3>1, CloseKept
  <2> QED
    BY <2>2, <2>3
<1>2. CASE m_close[f] # None
  <2>1. file[f] = o /\ m_close[f] = o
    BY <1>2, Unused, Numbers DEF Owned, SlotOk, TablesOk
  <2>2. UNCHANGED file
    BY <1>2 DEF CallClose
  <2>3. told' = [told EXCEPT ![o] = IF @ \in {"called", "twice"} THEN "twice" ELSE "called"]
    BY <1>2, <2>1 DEF CallClose, Tell
  <2>4. /\ IsOpen(o) /\ ~(o > opened) /\ OpenOk(f, o)
        /\ LifeOf(o) = (IF o \in leaked THEN "half" ELSE told[o])
        /\ o \notin leaked => told[o] \in {"none", "owed", "called"}
    BY <2>1, OpenLife
  <2>5. told[o] # "none" /\ (told[o] \in {"called", "twice"} => o \in leaked)
    BY <1>2, <2>4 DEF OpenOk, CloseOk
  <2>6. \A p \in Objs : IsOpen(p)' <=> IsOpen(p)
    BY <2>2 DEF IsOpen
  <2>7. \A p \in Objs \ {o} : LifeOf(p)' = LifeOf(p)
    BY <2>3, <2>6 DEF LifeOf, TypeOK
  <2>8. CASE o \in leaked
    <3>1. LifeOf(o)' = LifeOf(o)
      BY <2>4, <2>6, <2>8 DEF LifeOf
    <3> QED
      BY <2>7, <3>1 DEF Kept, Life
  <2>9. CASE o \notin leaked
    <3>1. LifeOf(o) = "owed" /\ told'[o] = "called"
      BY <2>3, <2>4, <2>5, <2>9 DEF TypeOK
    <3>2. LifeOf(o)' = "called"
      BY <2>4, <2>6, <2>9, <3>1 DEF LifeOf
    <3>3. Life' = [Life EXCEPT ![o] = "called"]
      BY <2>7, <3>2, OneLife
    <3>4. Promise!Tell(o)
      BY <3>1, <3>3 DEF Promise!Tell, Life
    <3> QED
      BY <3>4, PromisedObjs DEF Kept, Promise!Promised
  <2> QED
    BY <2>8, <2>9
<1> QED
  BY <1>1, <1>2

\* What callbacks do.
LEMMA CallbackKept ==
  ASSUME NoListenClose, TypeOK, TypeOK', OwnInv, ~stale', NEW f \in Fds,
         \/ Start(f) \/ Connect(f) \/ ConnectFails(f) \/ SetTimer(f) \/ StopTimer(f)
         \/ SetClient(f) \/ SendBlocked(f) \/ SendFails(f) \/ OtherThread(f)
  PROVE  Kept
<1>1. ASSUME Owned, NEW k, NEW state, NEW out, Open(f, k, state, out),
             told' = told \/ \E how \in {"none", "owed"} : told' = [told EXCEPT ![opened'] = how],
             UNCHANGED leaked
      PROVE  Kept
  <2>1. PICK n : n = opened + 1
    OBVIOUS
  <2>2. opened' = n /\ opened < MaxOpens /\ file[f] = None /\ file' = [file EXCEPT ![f] = n]
    BY <1>1, <2>1 DEF Open
  <2>3. n \in Objs /\ told[n] = "none"
    BY <1>1, <2>1, <2>2, Fresh
  <2>4. told'[n] \in {"none", "owed", "called"} /\ \A p \in Objs \ {n} : told'[p] = told[p]
    BY <1>1, <2>2, <2>3 DEF TypeOK
  <2> QED
    BY <1>1, <2>1, <2>2, <2>4, OpenKept
<1>2. ASSUME NEW close, Register(f, close)
      PROVE  /\ \E how \in {"none", "owed"} : told' = [told EXCEPT ![opened'] = how]
             /\ UNCHANGED <<leaked, stale>>
  BY <1>2 DEF Register
<1>3. CASE Start(f)
  BY <1>1, <1>2, <1>3 DEF Start, OwnInv
<1>4. CASE Connect(f)
  BY <1>1, <1>2, <1>4 DEF Connect, OwnInv
<1>5. CASE ConnectFails(f)
  <2>1. PICK n : n = opened + 1
    OBVIOUS
  <2>2. /\ Owned /\ opened < MaxOpens /\ opened' = n /\ file[f] = None
        /\ file' = [file EXCEPT ![f] = n] /\ UNCHANGED leaked
    BY <1>5, <2>1 DEF ConnectFails, OwnInv
  <2>3. n \in Objs /\ told[n] = "none"
    BY <2>1, <2>2, Fresh
  <2>4. told'[n] = "called" /\ \A p \in Objs \ {n} : told'[p] = told[p]
    BY <1>5, <2>2, <2>3 DEF ConnectFails, Tell, TypeOK
  <2> QED
    BY <2>1, <2>2, <2>4, OpenKept
<1>6. CASE SetTimer(f)
  <2>1. PICK state : Open(f, "timer", state, FALSE)
    BY <1>6 DEF SetTimer
  <2>2. Owned /\ UNCHANGED <<told, leaked>>
    BY <1>6 DEF SetTimer, OwnInv
  <2> QED
    BY <1>1, <2>1, <2>2
<1>7. CASE StopTimer(f)
  <2>1. PICK o : o = file[f]
    OBVIOUS
  <2>2. /\ Owned /\ o \in Objs /\ kind[o] = "timer" /\ file' = [file EXCEPT ![f] = None]
        /\ UNCHANGED <<opened, told, leaked>>
    BY <1>7, <2>1 DEF StopTimer, CloseFd, OwnInv, TypeOK
  <2>3. told[o] # "owed"
    BY <2>1, <2>2, OpenLife, Numbers DEF OpenOk, TimerOk, CloseOk
  <2> QED
    BY <2>1, <2>2, <2>3, CloseKept
<1>8. CASE SetClient(f)
  <2>1. PICK o : o = Running.obj
    OBVIOUS
  <2>2. /\ Owned /\ stack # <<>> /\ Running.op \in {"connected", "accept"} /\ file[f] = o
        /\ Running.fd = f /\ told' = [told EXCEPT ![o] = "owed"] /\ UNCHANGED <<file, opened, leaked>>
    BY <1>8, <2>1 DEF SetClient, InCallback, OwnInv, kernel
  <2>3. o \in Objs /\ o \notin leaked
    BY <2>1, <2>2, Popped, FrameFields DEF FrameOk
  <2>4. Closing(stack) = {}
    BY <2>2, Popped, NoFrames DEF Handlers, Closers
  <2>5. /\ IsOpen(o) /\ ~(o > opened) /\ LifeOf(o) = told[o] /\ told[o] \in {"none", "owed"}
    BY <2>2, <2>3, <2>4, OpenLife DEF OpenOk, CloseOk
  <2>6. \A p \in Objs : IsOpen(p)' <=> IsOpen(p)
    BY <2>2 DEF IsOpen
  <2>7. LifeOf(o)' = "owed"
    BY <2>2, <2>3, <2>5, <2>6 DEF LifeOf, TypeOK
  <2>8. \A p \in Objs \ {o} : LifeOf(p)' = LifeOf(p)
    BY <2>2, <2>6 DEF LifeOf, TypeOK
  <2>9. CASE told[o] = "owed"
    BY <2>5, <2>7, <2>8, <2>9 DEF Kept, Life
  <2>10. CASE told[o] = "none"
    <3>1. Life' = [Life EXCEPT ![o] = "owed"]
      BY <2>3, <2>7, <2>8, OneLife
    <3>2. Promise!Watch(o)
      BY <2>3, <2>5, <2>10, <3>1 DEF Promise!Watch, Life
    <3> QED
      BY <2>3, <3>2, PromisedObjs DEF Kept, Promise!Promised
  <2> QED
    BY <2>5, <2>9, <2>10
<1>9. CASE SendBlocked(f)
  BY <1>9, SteadyFiles DEF SendBlocked
<1>10. CASE SendFails(f)
  <2>1. PICK o : o = file[f]
    OBVIOUS
  <2>2. Owned /\ Clientclose(f, o, stack)
    BY <1>10, <2>1, Met DEF SendFails, Clientclose
  <2>3. o \in Objs /\ o \notin Closing(stack)
    BY <1>10, <2>1, <2>2, SendMeets DEF SendFails
  <2> QED
    BY <2>1, <2>2, <2>3, CallCloseKept DEF Clientclose
<1>11. CASE OtherThread(f)
  <2>1. \A p \in Objs : IsOpen(p)' <=> IsOpen(p)
    BY <1>11, Numbers DEF OtherThread, IsOpen, TypeOK
  <2> QED
    BY <1>11, <2>1, Steady DEF OtherThread
<1> QED
  BY <1>3, <1>4, <1>5, <1>6, <1>7, <1>8, <1>9, <1>10, <1>11

\* How callbacks end.
LEMMA ReturnKept ==
  ASSUME TypeOK, TypeOK', OwnInv, ~stale', Return \/ ReturnAccept \/ ReturnClose \/ ReturnTimer \/ Throw
  PROVE  Kept
<1>1. CASE Return \/ ReturnAccept
  BY <1>1, SteadyFiles DEF Return, ReturnAccept, kernel
<1>2. CASE ReturnClose \/ ReturnTimer
  <2>1. PICK f, o : f = Running.fd /\ o = Running.obj
    OBVIOUS
  <2>2. /\ Owned /\ stack # <<>> /\ Running.op \in Closers /\ file' = [file EXCEPT ![f] = None]
        /\ UNCHANGED <<opened, told, leaked>>
    BY <1>2, <2>1, Met DEF ReturnClose, ReturnTimer, Closes, InCallback, CloseFd, Closers
  <2>3. Running \in Frames /\ FrameOk(Running)
    BY <2>2, Popped
  <2>4. f \in Fds /\ o \in Objs /\ file[f] = o
    BY <2>1, <2>2, <2>3, FrameFields DEF FrameOk, Closers
  <2>5. told[o] # "owed"
    <3>1. CASE Running.op = "timer"
      BY <2>1, <2>2, <2>3, <2>4, <3>1, OpenLife, Numbers DEF FrameOk, OpenOk, TimerOk, CloseOk
    <3>2. CASE Running.op \in Closers \ {"timer"}
      BY <2>1, <2>3, <3>2 DEF FrameOk
    <3> QED
      BY <2>2, <3>1, <3>2
  <2> QED
    BY <2>2, <2>4, <2>5, CloseKept
<1>3. CASE Throw
  <2>1. /\ Owned /\ leaked' = leaked \cup Closing(stack) /\ UNCHANGED <<file, opened, told>>
    BY <1>3 DEF Throw, OwnInv, Closing, On, Closers, kernel
  <2>2. ASSUME NEW o \in Closing(stack) \ leaked
        PROVE  /\ o \in Objs /\ LifeOf(o) \in {"none", "called"} /\ LifeOf(o)' = "half"
    <3>1. PICK r \in On(stack) : r.op \in Closers /\ r.obj = o
      BY <2>2 DEF Closing
    <3>2. r \in Frames /\ FrameOk(r)
      BY <2>1, <3>1 DEF On, TypeOK, Owned, StackOk
    <3>3. r.fd \in Fds /\ o \in Objs /\ file[r.fd] = o
      BY <3>1, <3>2, FrameFields DEF FrameOk, Closers
    <3>4. /\ IsOpen(o) /\ ~(o > opened) /\ OpenOk(r.fd, o) /\ LifeOf(o) = told[o]
          /\ told[o] \in {"none", "owed", "called"}
      BY <2>1, <2>2, <3>3, OpenLife
    <3>5. told[o] # "owed"
      <4>1. CASE r.op = "timer"
        BY <3>1, <3>2, <3>3, <3>4, <4>1, Numbers DEF FrameOk, OpenOk, TimerOk, CloseOk
      <4>2. CASE r.op \in Closers \ {"timer"}
        BY <3>1, <3>2, <4>2 DEF FrameOk
      <4> QED
        BY <3>1, <4>1, <4>2
    <3>6. IsOpen(o)'
      BY <2>1, <3>4 DEF IsOpen
    <3>7. LifeOf(o)' = "half"
      BY <2>1, <2>2, <3>4, <3>6 DEF LifeOf
    <3> QED
      BY <3>3, <3>4, <3>5, <3>7
  <2>3. ASSUME NEW p \in Objs \ (Closing(stack) \ leaked) PROVE LifeOf(p)' = LifeOf(p)
    <3>1. p \in leaked' <=> p \in leaked
      BY <2>1
    <3>2. IsOpen(p)' <=> IsOpen(p)
      BY <2>1 DEF IsOpen
    <3> QED
      BY <2>1, <3>1, <3>2 DEF LifeOf
  <2> DEFINE S == Closing(stack) \ leaked
  <2>4. /\ S \in SUBSET Objs /\ \A o \in S : Life[o] \in {"none", "called"}
        /\ Life' = [o \in Objs |-> IF o \in S THEN "half" ELSE Life[o]]
    BY <2>2, <2>3 DEF Life
  <2> HIDE DEF S
  <2>5. Promise!Throw(S)
    BY <2>4, PromisedObjs DEF Promise!Throw, Life
  <2> QED
    BY <2>4, <2>5, PromisedObjs DEF Kept, Promise!Promised
<1> QED
  BY <1>1, <1>2, <1>3

\* The handlers of events.
LEMMA EventKept ==
  ASSUME TypeOK, TypeOK', OwnInv, ~stale', NEW e \in batch,
         OnTimer(e) \/ OnRtimer(e) \/ OnAccept(e) \/ OnConnect(e) \/ OnRefused(e) \/ OnClient(e)
  PROVE  Kept
<1>1. PICK f, o : f = e.fd /\ o = e.obj
  OBVIOUS
<1>2. ASSUME NEW state, Dispatch(e, state)
      PROVE  /\ Owned /\ f \in Fds /\ o \in Objs /\ file[f] \in {None, o} /\ Closing(stack) = {}
             /\ kind[o] = KindOf(state)
  BY <1>1, <1>2, Dispatched DEF EventOk
<1>3. CASE OnTimer(e)
  <2>1. /\ Owned /\ f \in Fds /\ o \in Objs /\ file[f] \in {None, o} /\ kind[o] = "timer"
        /\ UNCHANGED <<opened, told, leaked>>
    BY <1>2, <1>3 DEF OnTimer, KindOf
  <2>2. CASE UNCHANGED file
    BY <2>1, <2>2, SteadyFiles
  <2>3. CASE CloseFd(f) /\ file[f] = None
    BY <2>1, <2>3, CloseIdle DEF CloseFd
  <2>4. CASE CloseFd(f) /\ file[f] = o
    <3>1. told[o] # "owed"
      BY <2>1, <2>4, OpenLife, Numbers DEF OpenOk, TimerOk, CloseOk
    <3> QED
      BY <2>1, <2>4, <3>1, CloseKept DEF CloseFd
  <2> QED
    BY <1>1, <1>3, <2>1, <2>2, <2>3, <2>4 DEF OnTimer
<1>4. CASE OnRtimer(e) \/ OnConnect(e) \/ OnClient(e)
  BY <1>4, SteadyFiles DEF OnRtimer, OnConnect, OnClient, kernel
<1>5. CASE OnAccept(e)
  <2>1. Owned /\ UNCHANGED <<told, leaked>>
    BY <1>2, <1>5 DEF OnAccept
  <2>2. CASE UNCHANGED <<kernel, stack>>
    BY <2>1, <2>2, SteadyFiles DEF kernel
  <2>3. ASSUME NEW g \in Fds, Open(g, "socket", "client", FALSE) PROVE Kept
    <3>1. PICK n : n = opened + 1
      OBVIOUS
    <3>2. opened' = n /\ opened < MaxOpens /\ file[g] = None /\ file' = [file EXCEPT ![g] = n]
      BY <2>3, <3>1 DEF Open
    <3>3. told'[n] \in {"none", "owed", "called"} /\ \A p \in Objs \ {n} : told'[p] = told[p]
      BY <2>1, <3>1, <3>2, Fresh
    <3> QED
      BY <2>1, <3>1, <3>2, <3>3, OpenKept
  <2> QED
    BY <1>5, <2>2, <2>3 DEF OnAccept
<1>6. CASE OnRefused(e)
  <2>1. PICK frame : CallClose(f, frame, stack)
    BY <1>1, <1>6 DEF OnRefused
  <2>2. /\ Owned /\ f \in Fds /\ o \in Objs /\ file[f] \in {None, o} /\ o \notin Closing(stack)
        /\ UNCHANGED <<opened, leaked>>
    BY <1>2, <1>6 DEF OnRefused
  <2> QED
    BY <2>1, <2>2, CallCloseKept
<1> QED
  BY <1>3, <1>4, <1>5, <1>6

\* __onclient.
LEMMA ClientKept ==
  ASSUME TypeOK, TypeOK', OwnInv, ~stale', ClientIn \/ ClientOut \/ ClientHup \/ ClientEnd
  PROVE  Kept
<1>1. PICK f, o : f = Running.fd /\ o = Running.obj
  OBVIOUS
<1>2. CASE ClientIn \/ ClientEnd
  BY <1>2, SteadyFiles DEF ClientIn, ClientEnd, kernel
<1>3. ASSUME InClient, NEW left, Clientclose(f, o, left) PROVE Kept
  <2>1. Owned /\ (file[f] = None \/ file[f] = o)
    BY <1>3, Met DEF Clientclose
  <2>2. f \in Fds /\ o \in Objs /\ Closing(stack) = {}
    BY <1>1, <1>3, <2>1, InClientMeets
  <2> QED
    BY <1>3, <2>1, <2>2, CallCloseKept DEF Clientclose
<1>4. CASE ClientHup
  BY <1>1, <1>3, <1>4 DEF ClientHup
<1>5. CASE ClientOut
  <2>1. CASE UNCHANGED <<file, opened, told, leaked>>
    BY <2>1, SteadyFiles
  <2>2. InClient /\ (UNCHANGED <<file, opened, told, leaked>>
                       \/ Clientclose(f, o, Left(Running.rest \ {"out"})))
    BY <1>1, <1>5 DEF ClientOut
  <2> QED
    BY <1>3, <2>1, <2>2
<1> QED
  BY <1>2, <1>4, <1>5

\* A handler that has met with another connection is not forgotten.
LEMMA StaleStays ==
  ASSUME TypeOK, Next, ~stale'
  PROVE  ~stale
<1>1. ASSUME NEW f, NEW o, Meet(f, o) PROVE ~stale
  BY <1>1 DEF Meet, TypeOK
<1>2. ASSUME UNCHANGED stale PROVE ~stale
  BY <1>2 DEF TypeOK
<1>3. ASSUME NEW f \in Fds,
             \/ Start(f) \/ Connect(f) \/ ConnectFails(f) \/ SetTimer(f) \/ StopTimer(f)
             \/ SetClient(f) \/ SendBlocked(f) \/ SendFails(f) \/ OtherThread(f)
      PROVE  ~stale
  BY <1>1, <1>2, <1>3 DEF Start, Connect, Register, ConnectFails, SetTimer, StopTimer, SetClient,
     SendBlocked, SendFails, Clientclose, OtherThread
<1>4. CASE Return \/ ReturnAccept \/ ReturnClose \/ ReturnTimer \/ Throw \/ Wait \/ OnEvent
  BY <1>1, <1>2, <1>4 DEF Return, ReturnAccept, ReturnClose, ReturnTimer, Closes, Throw, Wait, OnEvent
<1>5. ASSUME NEW e \in batch,
             OnTimer(e) \/ OnRtimer(e) \/ OnAccept(e) \/ OnConnect(e) \/ OnRefused(e) \/ OnClient(e)
      PROVE  ~stale
  BY <1>1, <1>5 DEF OnTimer, OnRtimer, OnAccept, OnConnect, OnRefused, OnClient, Dispatch
<1>6. CASE ClientIn \/ ClientOut \/ ClientHup \/ ClientEnd
  BY <1>1, <1>2, <1>6 DEF ClientIn, ClientOut, ClientHup, ClientEnd, Clientclose
<1> QED
  BY <1>3, <1>4, <1>5, <1>6 DEF Next

\* Every step keeps the promise, as long as it lasts.
LEMMA KeptStep ==
  ASSUME NoListenClose, TypeOK, TypeOK', OwnInv, [Next]_vars
  PROVE  [Promise!Next]_Promise!vars
<1>1. CASE stale'
  BY <1>1 DEF Promise!Next
<1>2. CASE UNCHANGED vars
  BY <1>2 DEF vars, kernel, Promise!vars, LifeOf, IsOpen
<1>3. CASE Next /\ ~stale'
  <2>1. ASSUME NEW f \in Fds,
               \/ Start(f) \/ Connect(f) \/ ConnectFails(f) \/ SetTimer(f) \/ StopTimer(f)
               \/ SetClient(f) \/ SendBlocked(f) \/ SendFails(f) \/ OtherThread(f)
        PROVE  Kept
    BY <1>3, <2>1, CallbackKept
  <2>2. ASSUME Return \/ ReturnAccept \/ ReturnClose \/ ReturnTimer \/ Throw PROVE Kept
    BY <1>3, <2>2, ReturnKept
  <2>3. ASSUME Wait \/ OnEvent PROVE Kept
    BY <2>3, SteadyFiles DEF Wait, OnEvent, kernel
  <2>4. ASSUME NEW e \in batch,
               OnTimer(e) \/ OnRtimer(e) \/ OnAccept(e) \/ OnConnect(e) \/ OnRefused(e) \/ OnClient(e)
        PROVE  Kept
    BY <1>3, <2>4, EventKept
  <2>5. ASSUME ClientIn \/ ClientOut \/ ClientHup \/ ClientEnd PROVE Kept
    BY <1>3, <2>5, ClientKept
  <2>6. Kept
    BY <1>3, <2>1, <2>2, <2>3, <2>4, <2>5 DEF Next
  <2>7. ~stale
    BY <1>3, StaleStays
  <2> QED
    BY <1>3, <2>6, <2>7 DEF Kept, Promise!Next, Promise!vars, Life, TypeOK
<1> QED
  BY <1>1, <1>2, <1>3

\* Likewise: what is opened lives as module Connections says, its close
\* callback called once and before its descriptor is closed.
THEOREM RefinesConnections ==
  ASSUME NoListenClose
  PROVE  Spec => ImplementsConnections
<1>1. Init => Promise!Init
  <2> SUFFICES ASSUME Init PROVE Promise!Init
    OBVIOUS
  <2>1. \A o \in Objs : o > opened
    BY Numbers DEF Init
  <2> QED
    BY <2>1, PromisedObjs DEF Init, Promise!Init, LifeOf
<1>2. TypeOK /\ OwnInv /\ (TypeOK /\ OwnInv)' /\ [Next]_vars => [Promise!Next]_Promise!vars
  BY KeptStep
<1> QED
  BY <1>1, <1>2, OwnAlways, PTL DEF Spec, Promise!Spec, ImplementsConnections

=============================================================================
