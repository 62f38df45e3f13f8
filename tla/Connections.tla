------------------------------ MODULE Connections ------------------------------
(***************************************************************************)
(* What asyncnet promises about whatever it opens: it is closed at most    *)
(* once, and one whose user is owed a call of a close callback is closed   *)
(* only after that call, which is the only one.  A callback that throws    *)
(* may leave what its caller was closing half closed.                      *)
(*                                                                         *)
(* What is opened is numbered 1, 2, ... in that order.  The promise ends   *)
(* where an event is taken for one of a later connection.                  *)
(***************************************************************************)
EXTENDS Naturals

CONSTANT MaxOpens     \* bound: what is opened in a behaviour

VARIABLES
  life,    \* life[o]: "new", then what became of its close callback ("none",
           \* "owed", "called") or "half" closed, then "closed"
  lost     \* the promise has ended

vars == <<life, lost>>

Objs == 1 .. MaxOpens

Init == life = [o \in Objs |-> "new"] /\ lost = FALSE

\* The next one is opened: without a close callback, with one, or in vain, so
\* that its close callback is called at once.
Open(o) ==
  /\ life[o] = "new" /\ \A p \in Objs : p < o => life[p] # "new"
  /\ \E how \in {"none", "owed", "called"} : life' = [life EXCEPT ![o] = how]

\* o is given a close callback.
Watch(o) == life[o] = "none" /\ life' = [life EXCEPT ![o] = "owed"]

\* The close callback of o is called.
Tell(o) == life[o] = "owed" /\ life' = [life EXCEPT ![o] = "called"]

\* o is closed, when nobody is owed a call for it.
Close(o) == life[o] \in {"none", "called", "half"} /\ life' = [life EXCEPT ![o] = "closed"]

\* A callback throws, and its callers stop closing what they were closing.
Throw(S) ==
  /\ \A o \in S : life[o] \in {"none", "called"}
  /\ life' = [o \in Objs |-> IF o \in S THEN "half" ELSE life[o]]

Promised ==
  \/ \E o \in Objs : Open(o) \/ Watch(o) \/ Tell(o) \/ Close(o)
  \/ \E S \in SUBSET Objs : Throw(S)

Next == lost' \/ (~lost /\ Promised /\ UNCHANGED lost)

Spec == Init /\ [][Next]_vars
=============================================================================
