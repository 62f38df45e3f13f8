-------------------------------- MODULE Notify --------------------------------
(***************************************************************************)
(* Cross-thread wake-up of an event loop: asyncnet::notify, notify_all,    *)
(* __onevent, stop and the dispatching part of __wait (net/asyncnet.cpp),  *)
(* with the accept handler because it runs its callback under the mutex    *)
(* that notify takes.                                                      *)
(*                                                                         *)
(* Every thread has one asyncnet.  Its m_trigger list is filled under      *)
(* m_mutex; a write to its eventfd then wakes its epoll_wait.  The eventfd *)
(* is registered edge triggered: the kernel puts it on the ready list when *)
(* it is written, takes it off when epoll_wait looks at it, and reports it *)
(* only if its counter is then non-zero.                                   *)
(***************************************************************************)
EXTENDS Naturals, Sequences

CONSTANTS
  Loops,         \* threads that run asyncnet::wait
  Apps,          \* other threads that call notify / notify_all
  Tasks,         \* callbacks handed to notify; each is handed over once
  StopTask,      \* the callback of mysys::stop
  Throwing,      \* callbacks that end with an exception
  Thdset,        \* m_thdset: the registered loops, in index order
  AcceptCalls,   \* AcceptCalls[l]: loops the accept callback of l may notify
  NoLoop         \* no loop

ASSUME NotifyAssumption ==
  /\ Throwing \subseteq Tasks
  /\ StopTask \notin Throwing
  /\ Loops \cap Apps = {}
  /\ Thdset \in Seq(Loops)
  /\ \A i, j \in DOMAIN Thdset : Thdset[i] = Thdset[j] => i = j
  /\ AcceptCalls \in [Loops -> SUBSET Loops]
  /\ NoLoop \notin Loops

VARIABLES
  m_trigger,   \* [l]: tasks queued for loop l
  m_eventfd,   \* [l]: the counter of l's eventfd is non-zero
  m_running,   \* [l]: m_running is not 0
  ready,       \* [l]: l's eventfd is on the ready list of l's epoll (kernel)
  pc,          \* [l]: where loop l is
  batch,       \* [l]: events epoll_wait returned, not yet dispatched
  taken,       \* [l]: the local list of __onevent
  calls,       \* [a]: notify calls thread a has begun and not yet queued
  writing,     \* [a]: loop whose eventfd thread a is about to write
  used,        \* tasks handed to notify so far
  ran          \* [l]: tasks loop l has started (history)

vars == <<m_trigger, m_eventfd, m_running, ready, pc, batch, taken, calls,
          writing, used, ran>>

Actors == Loops \cup Apps

Call == [to : Loops, task : Tasks]

PcValues == {"epoll_wait", "dispatch", "swap", "read", "run", "accept", "exited"}

TypeOK ==
  /\ m_trigger \in [Loops -> Seq(Tasks)]
  /\ m_eventfd \in [Loops -> BOOLEAN]
  /\ m_running \in [Loops -> BOOLEAN]
  /\ ready \in [Loops -> BOOLEAN]
  /\ pc \in [Loops -> PcValues]
  /\ batch \in [Loops -> SUBSET {"event", "accept"}]
  /\ taken \in [Loops -> Seq(Tasks)]
  /\ calls \in [Actors -> Seq(Call)]
  /\ writing \in [Actors -> Loops \cup {NoLoop}]
  /\ used \subseteq Tasks
  /\ ran \in [Loops -> Seq(Tasks)]

Init ==
  /\ m_trigger = [l \in Loops |-> <<>>]
  /\ m_eventfd = [l \in Loops |-> FALSE]
  /\ m_running = [l \in Loops |-> TRUE]
  /\ ready = [l \in Loops |-> FALSE]
  /\ pc = [l \in Loops |-> "epoll_wait"]
  /\ batch = [l \in Loops |-> {}]
  /\ taken = [l \in Loops |-> <<>>]
  /\ calls = [a \in Actors |-> <<>>]
  /\ writing = [a \in Actors |-> NoLoop]
  /\ used = {}
  /\ ran = [l \in Loops |-> <<>>]

-----------------------------------------------------------------------------
(* notify, called by any thread *)

Notify1(l, t) == <<[to |-> l, task |-> t]>>

\* Faulty: does not skip the empty entries of m_thdset.
NotifyAllUnchecked(t) ==
  [i \in 1 .. Len(Thdset) |-> [to |-> Thdset[i], task |-> t]]
    \o <<[to |-> NoLoop, task |-> t]>>

NotifyAll(t) == [i \in 1 .. Len(Thdset) |-> [to |-> Thdset[i], task |-> t]]

\* Thread a is between two notify calls.
Between(a) == calls[a] = <<>> /\ writing[a] = NoLoop

\* Faulty: __onevent keeps the lock while it runs the callbacks.
MutexHeldInRun(l) == pc[l] \in {"accept", "run"}

\* m_mutex of loop l is held across a callback: only by its accept handler.
MutexHeld(l) == pc[l] = "accept"

\* The calls a callback or thread may make, given the loops it may name:
\* none, one notify, or (if it may name every loop) one notify_all.
CallsTo(S) ==
  {<<>>} \cup {Notify1(l, t) : l \in S, t \in Tasks \ used}
         \cup {NotifyAll(t) : t \in IF S = Loops THEN Tasks \ used ELSE {}}

\* Thread a makes the calls c.
Issue(a, c) ==
  /\ calls' = [calls EXCEPT ![a] = c]
  /\ used' = used \cup {c[i].task : i \in DOMAIN c}

\* An application thread calls notify or notify_all.
AppNotify(a) ==
  /\ Between(a)
  /\ \E c \in CallsTo(Loops) \ {<<>>} : Issue(a, c)
  /\ UNCHANGED <<m_trigger, m_eventfd, m_running, ready, pc, batch, taken,
                 writing, ran>>

\* Faulty: queues at the front.
PushFront(a) ==
  /\ calls[a] # <<>>
  /\ writing[a] = NoLoop
  /\ LET c == Head(calls[a]) IN
       /\ ~MutexHeld(c.to)
       /\ m_trigger' = [m_trigger EXCEPT ![c.to] = <<c.task>> \o @]
       /\ writing' = [writing EXCEPT ![a] = c.to]
  /\ calls' = [calls EXCEPT ![a] = Tail(@)]
  /\ UNCHANGED <<m_eventfd, m_running, ready, pc, batch, taken, used, ran>>

\* notify, first half: queue the task under the loop's m_mutex.
Push(a) ==
  /\ calls[a] # <<>>
  /\ writing[a] = NoLoop
  /\ LET c == Head(calls[a]) IN
       /\ ~MutexHeld(c.to)
       /\ m_trigger' = [m_trigger EXCEPT ![c.to] = Append(@, c.task)]
       /\ writing' = [writing EXCEPT ![a] = c.to]
  /\ calls' = [calls EXCEPT ![a] = Tail(@)]
  /\ UNCHANGED <<m_eventfd, m_running, ready, pc, batch, taken, used, ran>>

\* Faulty: saves the write when the counter is already non-zero.
WriteCoalesced(a) ==
  /\ writing[a] # NoLoop
  /\ m_eventfd' = [m_eventfd EXCEPT ![writing[a]] = TRUE]
  /\ ready' = [ready EXCEPT ![writing[a]] = @ \/ ~m_eventfd[writing[a]]]
  /\ writing' = [writing EXCEPT ![a] = NoLoop]
  /\ UNCHANGED <<m_trigger, m_running, pc, batch, taken, calls, used, ran>>

\* notify, second half: write the eventfd; the kernel marks it ready.
Write(a) ==
  /\ writing[a] # NoLoop
  /\ m_eventfd' = [m_eventfd EXCEPT ![writing[a]] = TRUE]
  /\ ready' = [ready EXCEPT ![writing[a]] = TRUE]
  /\ writing' = [writing EXCEPT ![a] = NoLoop]
  /\ UNCHANGED <<m_trigger, m_running, pc, batch, taken, calls, used, ran>>

-----------------------------------------------------------------------------
(* __wait, run by the loop's own thread *)

\* epoll_wait returns the ready events: the eventfd if it is readable when
\* looked at, a connection to accept if there is one.
EpollWait(l) ==
  /\ pc[l] = "epoll_wait"
  /\ \E accept \in SUBSET {"accept"} :
       /\ batch' = [batch EXCEPT ![l] =
                      accept \cup (IF ready[l] /\ m_eventfd[l] THEN {"event"} ELSE {})]
       /\ batch'[l] # {} \/ ready[l]
  /\ ready' = [ready EXCEPT ![l] = FALSE]
  /\ pc' = [pc EXCEPT ![l] = IF batch'[l] = {} THEN "epoll_wait" ELSE "dispatch"]
  /\ UNCHANGED <<m_trigger, m_eventfd, m_running, taken, calls, writing, used, ran>>

\* The event of the batch is the eventfd: __onevent begins.
DispatchEvent(l) ==
  /\ pc[l] = "dispatch"
  /\ "event" \in batch[l]
  /\ batch' = [batch EXCEPT ![l] = @ \ {"event"}]
  /\ pc' = [pc EXCEPT ![l] = "swap"]
  /\ UNCHANGED <<m_trigger, m_eventfd, m_running, ready, taken, calls, writing,
                 used, ran>>

\* The event of the batch is a listener: __onaccept locks m_mutex and runs
\* the accept callback, which may notify other loops.
DispatchAccept(l) ==
  /\ pc[l] = "dispatch"
  /\ "accept" \in batch[l]
  /\ batch' = [batch EXCEPT ![l] = @ \ {"accept"}]
  /\ pc' = [pc EXCEPT ![l] = "accept"]
  /\ \E c \in CallsTo(AcceptCalls[l]) : Issue(l, c)
  /\ UNCHANGED <<m_trigger, m_eventfd, m_running, ready, taken, writing, ran>>

\* The accept callback returned: m_mutex is released.
AcceptDone(l) ==
  /\ pc[l] = "accept"
  /\ Between(l)
  /\ pc' = [pc EXCEPT ![l] = "dispatch"]
  /\ UNCHANGED <<m_trigger, m_eventfd, m_running, ready, batch, taken, calls,
                 writing, used, ran>>

\* Faulty: an exception in one handler ends the whole batch.
BatchCut(l) ==
  /\ pc[l] = "dispatch"
  /\ batch' = [batch EXCEPT ![l] = {}]
  /\ pc' = [pc EXCEPT ![l] = IF m_running[l] THEN "epoll_wait" ELSE "exited"]
  /\ UNCHANGED <<m_trigger, m_eventfd, m_running, ready, taken, calls,
                 writing, used, ran>>

\* The batch is done: __wait returns m_running and wait loops unless it is 0.
BatchDone(l) ==
  /\ pc[l] = "dispatch"
  /\ batch[l] = {}
  /\ pc' = [pc EXCEPT ![l] = IF m_running[l] THEN "epoll_wait" ELSE "exited"]
  /\ UNCHANGED <<m_trigger, m_eventfd, m_running, ready, batch, taken, calls,
                 writing, used, ran>>

-----------------------------------------------------------------------------
(* __onevent *)

\* Take the whole list under m_mutex.
Swap(l) ==
  /\ pc[l] = "swap"
  /\ ~MutexHeld(l)
  /\ taken' = [taken EXCEPT ![l] = m_trigger[l]]
  /\ m_trigger' = [m_trigger EXCEPT ![l] = <<>>]
  /\ pc' = [pc EXCEPT ![l] = "read"]
  /\ UNCHANGED <<m_eventfd, m_running, ready, batch, calls, writing, used, ran>>

\* Read the eventfd: its counter becomes 0 whoever wrote it.
ReadEvent(l) ==
  /\ pc[l] = "read"
  /\ m_eventfd' = [m_eventfd EXCEPT ![l] = FALSE]
  /\ pc' = [pc EXCEPT ![l] = "run"]
  /\ UNCHANGED <<m_trigger, m_running, ready, batch, taken, calls, writing,
                 used, ran>>

\* The next callback of the list runs and returns; it may notify any loop.
RunTask(l) ==
  /\ pc[l] = "run"
  /\ Between(l)
  /\ taken[l] # <<>>
  /\ Head(taken[l]) \notin Throwing
  /\ taken' = [taken EXCEPT ![l] = Tail(@)]
  /\ ran' = [ran EXCEPT ![l] = Append(@, Head(taken[l]))]
  /\ m_running' = [m_running EXCEPT ![l] = @ /\ Head(taken[l]) # StopTask]
  /\ \E c \in CallsTo(Loops) : Issue(l, c)
  /\ UNCHANGED <<m_trigger, m_eventfd, ready, pc, batch, writing>>

\* The next callback throws, after it made the calls it makes: the rest of the
\* local list is destroyed without having run, and __wait catches it.
RunThrows(l) ==
  /\ pc[l] = "run"
  /\ Between(l)
  /\ taken[l] # <<>>
  /\ Head(taken[l]) \in Throwing
  /\ taken' = [taken EXCEPT ![l] = <<>>]
  /\ ran' = [ran EXCEPT ![l] = Append(@, Head(taken[l]))]
  /\ \E c \in CallsTo(Loops) : Issue(l, c)
  /\ UNCHANGED <<m_trigger, m_eventfd, m_running, ready, pc, batch, writing>>

\* The local list is done, or thrown away.
RunDone(l) ==
  /\ pc[l] = "run"
  /\ Between(l)
  /\ taken[l] = <<>>
  /\ pc' = [pc EXCEPT ![l] = "dispatch"]
  /\ UNCHANGED <<m_trigger, m_eventfd, m_running, ready, batch, taken, calls,
                 writing, used, ran>>

-----------------------------------------------------------------------------
LoopStep(l) ==
  \/ DispatchEvent(l)
  \/ DispatchAccept(l)
  \/ AcceptDone(l)
  \/ BatchDone(l)
  \/ Swap(l)
  \/ ReadEvent(l)
  \/ RunTask(l)
  \/ RunThrows(l)
  \/ RunDone(l)

Next ==
  \/ \E a \in Apps : AppNotify(a)
  \/ \E a \in Actors : Push(a) \/ Write(a)
  \/ \E l \in Loops : EpollWait(l) \/ LoopStep(l)

\* Threads run: a begun notify goes on, a loop goes on, and epoll_wait
\* returns while the eventfd is ready.  A thread that waits for an m_mutex
\* which is released again and again gets it in the end (strong fairness of
\* Push).  Nobody need call notify or connect.
Fairness ==
  /\ \A a \in Actors : SF_vars(Push(a)) /\ WF_vars(Write(a))
  /\ \A l \in Loops : WF_vars(ready[l] /\ EpollWait(l)) /\ WF_vars(LoopStep(l))

Spec == Init /\ [][Next]_vars

FairSpec == Spec /\ Fairness

-----------------------------------------------------------------------------
(* Properties *)

\* The tasks loop l has been given, in order, except those a throw destroyed.
Queued(l) == taken[l] \o m_trigger[l]

Queue == INSTANCE TaskQueue WITH queue <- [l \in Loops |-> Queued(l)]

\* notify implements the task queue of module TaskQueue: each loop runs what
\* it was given in the order of m_trigger.emplace_back, whatever the threads
\* do, and only a throwing task makes __onevent drop others.
ImplementsTaskQueue == Queue!Spec

\* The tasks loop l was ever given, in order, without the destroyed ones.
Line(l) == ran[l] \o Queued(l)

\* A loop never runs the same hand-over twice, nor holds it twice: the swap
\* of __onevent moves a task out of m_trigger before anybody can run it, and
\* notify_all reaches each loop once.
AtMostOnce ==
  \A l \in Loops : \A i, j \in DOMAIN Line(l) : Line(l)[i] = Line(l)[j] => i = j

\* Loop l is sure to swap its list again.
Covered(l) ==
  \/ m_eventfd[l] /\ ready[l]
  \/ "event" \in batch[l]
  \/ pc[l] = "swap"
  \/ \E a \in Actors : writing[a] = l

\* Only the read of the eventfd in __onevent can leave a queued task with no
\* wake-up on the way; neither epoll's edge-triggered forgetting nor any
\* interleaving of the two halves of notify can.
OnlyReadUncovers ==
  [][\A l \in Loops :
       (m_trigger'[l] # <<>> /\ Covered(l) /\ ~Covered(l)') => ReadEvent(l)]_vars

\* A queued task for which a wake-up is on the way is started (or destroyed
\* behind a throwing one) unless the loop is stopped first, provided the
\* loop is not between the swap and the read of __onevent.
CoveredRuns ==
  \A l \in Loops, t \in Tasks :
    (\E i \in DOMAIN m_trigger[l] : m_trigger[l][i] = t) /\ Covered(l) /\ pc[l] # "read"
      ~> ~m_running[l] \/ \A i \in DOMAIN Queued(l) : Queued(l)[i] # t

\* No set of loops waits for each other's m_mutex: __onevent runs its
\* callbacks after releasing it, so only accept callbacks wait while holding
\* it, and those name loops along an acyclic AcceptCalls.
NoLockCycle ==
  ~ \E S \in SUBSET Loops \ {{}} :
      \A l \in S : /\ MutexHeld(l)
                   /\ calls[l] # <<>> /\ writing[l] = NoLoop
                   /\ Head(calls[l]).to \in S

\* A callback given to notify is run: a loop that goes to sleep leaves no
\* task behind it.  test/main.cpp hands notify a callback that prints
\* "timer stop" and counts on it being run.
NoLostWakeup ==
  \A l \in Loops :
    pc[l] = "epoll_wait" /\ m_trigger[l] # <<>> => Covered(l)
=============================================================================
