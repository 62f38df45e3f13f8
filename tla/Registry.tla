-------------------------------- MODULE Registry --------------------------------
(***************************************************************************)
(* The process-wide tables: asyncevent (net/asyncevent.cpp), a map of      *)
(* callbacks by event under a reader-writer lock, and the pool of an       *)
(* object class (pool.h, object.h) under a mutex.  emit runs its callback  *)
(* under the read lock and for_each its function under the mutex, so what  *)
(* these call waits while its thread holds a lock.                         *)
(*                                                                         *)
(* Callbacks keep three rules, without which a thread waits for itself or  *)
(* two for each other: one that emit runs does not call onevent; one that  *)
(* for_each runs calls neither the pool nor onevent.                       *)
(***************************************************************************)
EXTENDS Naturals, Sequences, FiniteSets

CONSTANTS
  Threads,
  Keys,       \* names of events, and ids of objects
  MaxDepth    \* bound: emit and for_each running below each other

ASSUME RegistryAssumption == MaxDepth \in Nat

VARIABLES
  m_events,   \* names that have a callback
  m_objects,  \* ids that have an object
  stack,      \* [t]: "emit" and "for_each" that are running, innermost first
  waits       \* [t]: the operation that has asked for its lock, or None

registryVars == <<m_events, m_objects, stack, waits>>

None == [op |-> "none"]

Ops == [op : {"emit", "onevent", "insert", "get", "erase"}, key : Keys] \cup [op : {"for_each"}]

RegistryTypeOK ==
  /\ m_events \subseteq Keys /\ m_objects \subseteq Keys
  /\ stack \in [Threads -> UNION {[1 .. n -> {"emit", "for_each"}] : n \in 0 .. MaxDepth}]
  /\ waits \in [Threads -> Ops \cup {None}]

RegistryInit ==
  /\ m_events = {} /\ m_objects = {}
  /\ stack = [t \in Threads |-> <<>>]
  /\ waits = [t \in Threads |-> None]

-----------------------------------------------------------------------------
Runs(t, op) == \E i \in DOMAIN stack[t] : stack[t][i] = op

\* Who holds the locks.  emplace, find and erase are one step under theirs.
Readers == {t \in Threads : Runs(t, "emit")}

Owners == {t \in Threads : Runs(t, "for_each")}

\* Faulty: a lock that prefers writers.
RdFreeWriters == \A t \in Threads : waits[t].op # "onevent"

\* rdlock waits for a writer that has the lock, not for one that waits: a
\* thread may take it again.
RdFree == TRUE

\* Faulty: a callback of emit may register another.
AllowedInEmit(t, op) == Runs(t, "for_each") => op = "emit"

\* The callbacks that t is running allow it this.
Allowed(t, op) ==
  /\ op = "onevent" => stack[t] = <<>>
  /\ Runs(t, "for_each") => op = "emit"

\* t calls an operation, which asks for its lock.
Ask(t) ==
  /\ waits[t] = None
  /\ \E o \in Ops :
       /\ Allowed(t, o.op)
       /\ o.op \in {"emit", "for_each"} => Len(stack[t]) < MaxDepth
       /\ waits' = [waits EXCEPT ![t] = o]
  /\ UNCHANGED <<m_events, m_objects, stack>>

\* t gets what it waited for and goes on.
Gets(t, op) ==
  /\ waits[t].op = op
  /\ waits' = [waits EXCEPT ![t] = None]

Enter(t, op) == stack' = [stack EXCEPT ![t] = <<op>> \o @]

\* emit runs the callback, if there is one, under the lock.
emit(t) ==
  /\ Gets(t, "emit") /\ RdFree
  /\ IF waits[t].key \in m_events THEN Enter(t, "emit") ELSE UNCHANGED stack
  /\ UNCHANGED <<m_events, m_objects>>

\* emplace: the first callback of a name stays.
onevent(t) ==
  /\ Gets(t, "onevent") /\ Readers = {}
  /\ m_events' = m_events \cup {waits[t].key}
  /\ UNCHANGED <<m_objects, stack>>

\* pool::insert, where an object that has the id stays, and so insert_pool.
insert(t) ==
  /\ Gets(t, "insert") /\ Owners = {}
  /\ m_objects' = m_objects \cup {waits[t].key}
  /\ UNCHANGED <<m_events, stack>>

\* pool::get, which changes nothing.
get(t) ==
  /\ Gets(t, "get") /\ Owners = {}
  /\ UNCHANGED <<m_events, m_objects, stack>>

\* pool::erase, and so remove_pool.
erase(t) ==
  /\ Gets(t, "erase") /\ Owners = {}
  /\ m_objects' = m_objects \ {waits[t].key}
  /\ UNCHANGED <<m_events, stack>>

\* pool::for_each runs its function for each object under the mutex.
for_each(t) ==
  /\ Gets(t, "for_each") /\ Owners = {}
  /\ IF m_objects # {} THEN Enter(t, "for_each") ELSE UNCHANGED stack
  /\ UNCHANGED <<m_events, m_objects>>

\* What t runs is done, or throws: emit catches and unlocks, the guard of
\* for_each unlocks; the function for the other objects is left out.
Leave(t) ==
  /\ waits[t] = None /\ stack[t] # <<>>
  /\ stack' = [stack EXCEPT ![t] = Tail(@)]
  /\ UNCHANGED <<m_events, m_objects, waits>>

RegistryNext ==
  \E t \in Threads :
    \/ Ask(t) \/ Leave(t)
    \/ emit(t) \/ onevent(t) \/ insert(t) \/ get(t) \/ erase(t) \/ for_each(t)

RegistrySpec == RegistryInit /\ [][RegistryNext]_registryVars

-----------------------------------------------------------------------------
(* Properties *)

\* t waits for a lock that one of S holds, or waits for.
Waits(t, S) ==
  \/ waits[t].op = "emit" /\ ~RdFree /\ \E u \in S : waits[u].op = "onevent"
  \/ waits[t].op = "onevent" /\ Readers \cap S # {}
  \/ waits[t].op \in {"insert", "get", "erase", "for_each"} /\ Owners \cap S # {}

\* No threads wait for each other, nor one for itself, across both locks, as
\* long as callbacks keep the rules: in particular a callback may emit while
\* another thread waits to register, and from within for_each.
NoDeadlock ==
  /\ RegistryTypeOK
  /\ \A S \in (SUBSET Threads) \ {{}} : \E t \in S : ~Waits(t, S)
=============================================================================
