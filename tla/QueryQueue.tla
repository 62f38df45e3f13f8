------------------------------ MODULE QueryQueue ------------------------------
(***************************************************************************)
(* What msgsession::query promises: queries are resolved in the order they *)
(* were made, each exactly once, either with the answer to that very query *)
(* or with an error.  Queries are numbered in the order they are made.     *)
(***************************************************************************)
EXTENDS Naturals, Sequences

CONSTANT MaxQueries     \* bound: queries made in a behaviour

VARIABLES
  pending,      \* queries made and not resolved, oldest first
  done          \* resolutions, oldest first

vars == <<pending, done>>

Queries == 1 .. MaxQueries

Errors == {"closed", "timeout"}

Init == pending = <<>> /\ done = <<>>

\* The queries made so far are those resolved and those pending.
Made == Len(pending) + Len(done)

\* A query is made.
Submit ==
  /\ Made < MaxQueries
  /\ pending' = Append(pending, Made + 1)
  /\ UNCHANGED done

\* The oldest query is answered.
Answer ==
  /\ pending # <<>>
  /\ done' = Append(done, [query |-> Head(pending), how |-> "ok", answer |-> Head(pending)])
  /\ pending' = Tail(pending)

\* The oldest query fails.
Fail ==
  /\ pending # <<>>
  /\ \E e \in Errors :
       done' = Append(done, [query |-> Head(pending), how |-> e, answer |-> 0])
  /\ pending' = Tail(pending)

Next == Submit \/ Answer \/ Fail

Spec == Init /\ [][Next]_vars
=============================================================================
