------------------------------ MODULE TaskQueue ------------------------------
(***************************************************************************)
(* What asyncnet::notify promises its callers: each event loop owns a      *)
(* first-in first-out queue of tasks; a task that was queued is run by the *)
(* owning loop, once, in the order of queueing.  The one exception is that *)
(* a task which throws takes with it tasks queued right behind it.         *)
(***************************************************************************)
EXTENDS Naturals, Sequences

CONSTANTS
  Loops,      \* the event loops, one asyncnet object per thread
  Tasks,      \* the callbacks handed to notify
  Throwing    \* the callbacks that end with an exception

VARIABLES
  queue,      \* queue[l]: tasks accepted for loop l and not yet started
  ran         \* ran[l]: tasks loop l has started, oldest first

vars == <<queue, ran>>

Init ==
  /\ queue = [l \in Loops |-> <<>>]
  /\ ran = [l \in Loops |-> <<>>]

\* A task is accepted for loop l.
Submit(l, t) ==
  /\ queue' = [queue EXCEPT ![l] = Append(@, t)]
  /\ UNCHANGED ran

\* Loop l runs the task at the head of its queue.
Run(l) ==
  /\ queue[l] # <<>>
  /\ Head(queue[l]) \notin Throwing
  /\ queue' = [queue EXCEPT ![l] = Tail(@)]
  /\ ran' = [ran EXCEPT ![l] = Append(@, Head(queue[l]))]

\* The head of loop l's queue throws: it and the n tasks behind it are gone.
Abandon(l) ==
  /\ queue[l] # <<>>
  /\ Head(queue[l]) \in Throwing
  /\ \E n \in 1 .. Len(queue[l]) :
       queue' = [queue EXCEPT ![l] = SubSeq(@, n + 1, Len(@))]
  /\ ran' = [ran EXCEPT ![l] = Append(@, Head(queue[l]))]

Next ==
  \E l \in Loops :
    \/ \E t \in Tasks : Submit(l, t)
    \/ Run(l)
    \/ Abandon(l)

Spec == Init /\ [][Next]_vars
=============================================================================
