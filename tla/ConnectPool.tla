----------------------------- MODULE ConnectPool -----------------------------
(***************************************************************************)
(* The pool of clients: connectpool (service/connectpool.h).  Pools of the  *)
(* same address share their free clients, one list per thread; each pool    *)
(* has an atomic counter that all threads share.  obj() hands out a client  *)
(* in a wrapper that cannot be copied or moved, so that it ends in the      *)
(* thread that made it, and gives the client back when it does.             *)
(*                                                                         *)
(* A call touches the thread's own list and, once, the counter: calls of    *)
(* two threads interleave as whole calls do.                                *)
(***************************************************************************)
EXTENDS Integers, Sequences, FiniteSets

CONSTANTS
  Threads, Pools, Clients,   \* of one address
  MaxTotal,                  \* _MAX_TOTAL
  Half,                      \* the counter's type holds -Half .. Half - 1
  MaxThrows,                 \* bound: calls of obj that throw
  NoThread

ASSUME ConnectPoolAssumption ==
  /\ MaxTotal \in Nat /\ Half \in Nat /\ MaxTotal < Half - 1
  /\ MaxThrows \in Nat
  /\ NoThread \notin Threads
  /\ IsFiniteSet(Clients)

VARIABLES
  free,        \* free[t]: thread t's list of free clients, for the address
  held,        \* held[t][p]: the clients thread t holds in wrappers of pool p
  maker,       \* maker[c]: the thread that made client c, while it exists
  m_cnt_total, \* of each pool
  owned,       \* pools that somebody besides the wrappers refers to
  dead,        \* pools that are destroyed
  peak,        \* peak[t]: the most clients thread t ever held at once
  thrown,      \* calls of obj that counted a client and threw
  wrapped      \* pools whose counter went below the least int

vars == <<free, held, maker, m_cnt_total, owned, dead, peak, thrown, wrapped>>

Elems(s) == {s[i] : i \in DOMAIN s}

HeldBy(t) == UNION {held[t][p] : p \in Pools}

HeldFrom(p) == UNION {held[t][p] : t \in Threads}

TypeOK ==
  /\ free \in [Threads -> Seq(Clients)]
  /\ held \in [Threads -> [Pools -> SUBSET Clients]]
  /\ maker \in [Clients -> Threads \cup {NoThread}]
  /\ m_cnt_total \in [Pools -> -Half .. Half - 1]
  /\ owned \subseteq Pools /\ dead \subseteq Pools /\ wrapped \subseteq Pools
  /\ peak \in [Threads -> 0 .. Cardinality(Clients)]
  /\ thrown \in [Pools -> 0 .. MaxThrows]

Init ==
  /\ free = [t \in Threads |-> <<>>]
  /\ held = [t \in Threads |-> [p \in Pools |-> {}]]
  /\ maker = [c \in Clients |-> NoThread]
  /\ m_cnt_total = [p \in Pools |-> 0]
  /\ owned = Pools /\ dead = {} /\ wrapped = {}
  /\ peak = [t \in Threads |-> 0]
  /\ thrown = [p \in Pools |-> 0]

\* Client c is now in a wrapper of t.
Hold(t, p, c) ==
  /\ held' = [held EXCEPT ![t][p] = @ \cup {c}]
  /\ peak' = LET n == Cardinality(HeldBy(t) \cup {c}) IN
               [peak EXCEPT ![t] = IF n > @ THEN n ELSE @]

\* atomic_int wraps around.
Increment(n) == IF n = Half - 1 THEN -Half ELSE n + 1
Decrement(n) == IF n = -Half THEN Half - 1 ELSE n - 1

\* Faulty: data leaves the client in the list.
ReuseKeeps(t, p) ==
  /\ p \in owned /\ free[t] # <<>>
  /\ Hold(t, p, Head(free[t]))
  /\ UNCHANGED <<free, maker, m_cnt_total, owned, dead, thrown, wrapped>>

\* obj, when the thread has a free client.
Reuse(t, p) ==
  /\ p \in owned /\ free[t] # <<>>
  /\ Hold(t, p, Head(free[t]))
  /\ free' = [free EXCEPT ![t] = Tail(@)]
  /\ UNCHANGED <<maker, m_cnt_total, owned, dead, thrown, wrapped>>

\* Faulty: data makes a client even when one is free.
CreateAlways(t, p) ==
  /\ p \in owned
  /\ \E c \in Clients :
       /\ maker[c] = NoThread
       /\ maker' = [maker EXCEPT ![c] = t]
       /\ Hold(t, p, c)
  /\ m_cnt_total' = [m_cnt_total EXCEPT ![p] = Increment(@)]
  /\ UNCHANGED <<free, owned, dead, thrown, wrapped>>

\* obj, when it has none: __create.
Create(t, p) ==
  /\ p \in owned /\ free[t] = <<>>
  /\ \E c \in Clients :
       /\ maker[c] = NoThread
       /\ maker' = [maker EXCEPT ![c] = t]
       /\ Hold(t, p, c)
  /\ m_cnt_total' = [m_cnt_total EXCEPT ![p] = Increment(@)]
  /\ UNCHANGED <<free, owned, dead, thrown, wrapped>>

\* obj throws: the client's constructor does, or shared_from_this, for a pool
\* not made by make; what was made is gone, but counted.
CreateThrows(t, p) ==
  /\ p \in owned /\ free[t] = <<>>
  /\ thrown[p] < MaxThrows
  /\ thrown' = [thrown EXCEPT ![p] = @ + 1]
  /\ m_cnt_total' = [m_cnt_total EXCEPT ![p] = Increment(@)]
  /\ UNCHANGED <<free, held, maker, owned, dead, peak, wrapped>>

\* ~connectpool, in thread t when the last reference to p goes, after t's list
\* became f and the clients of `gone` went: the thread's free clients go,
\* those that another pool of the address may use included.  (Else just f.)
Destroyed(t, p, last, f, gone) ==
  LET all == IF last THEN gone \cup Elems(f) ELSE gone IN
    /\ free' = [free EXCEPT ![t] = IF last THEN <<>> ELSE f]
    /\ maker' = [c \in Clients |-> IF c \in all THEN NoThread ELSE maker[c]]
    /\ dead' = IF last THEN dead \cup {p} ELSE dead

\* Faulty: reset keeps a client only while the counter is below the limit.
GiveBackBelow(t, p, c) ==
  /\ c \in held[t][p]
  /\ held' = [held EXCEPT ![t][p] = @ \ {c}]
  /\ m_cnt_total' = [m_cnt_total EXCEPT ![p] = Decrement(@)]
  /\ wrapped' = IF m_cnt_total[p] = -Half THEN wrapped \cup {p} ELSE wrapped
  /\ LET last == p \notin owned /\ HeldFrom(p) = {c} IN
       IF m_cnt_total[p] < MaxTotal
         THEN Destroyed(t, p, last, Append(free[t], c), {})
         ELSE Destroyed(t, p, last, free[t], {c})
  /\ UNCHANGED <<owned, peak, thrown>>

\* A wrapper ends: reset keeps the client if the counter, which goes down even
\* for a client that was not counted up, was no more than m_max_total.
GiveBack(t, p, c) ==
  /\ c \in held[t][p]
  /\ held' = [held EXCEPT ![t][p] = @ \ {c}]
  /\ m_cnt_total' = [m_cnt_total EXCEPT ![p] = Decrement(@)]
  /\ wrapped' = IF m_cnt_total[p] = -Half THEN wrapped \cup {p} ELSE wrapped
  /\ LET last == p \notin owned /\ HeldFrom(p) = {c} IN
       IF m_cnt_total[p] <= MaxTotal
         THEN Destroyed(t, p, last, Append(free[t], c), {})
         ELSE Destroyed(t, p, last, free[t], {c})
  /\ UNCHANGED <<owned, peak, thrown>>

\* Thread t drops the last reference to the pool that is not a wrapper's.
Release(t, p) ==
  /\ p \in owned
  /\ owned' = owned \ {p}
  /\ Destroyed(t, p, HeldFrom(p) = {}, free[t], {})
  /\ UNCHANGED <<held, m_cnt_total, peak, thrown, wrapped>>

\* A thread ends: its thread_local lists go.
Exit(t) ==
  /\ HeldBy(t) = {}
  /\ free' = [free EXCEPT ![t] = <<>>]
  /\ maker' = [c \in Clients |-> IF c \in Elems(free[t]) THEN NoThread ELSE maker[c]]
  /\ UNCHANGED <<held, m_cnt_total, owned, dead, peak, thrown, wrapped>>

Next ==
  \E t \in Threads :
    \/ Exit(t)
    \/ \E p \in Pools : \/ Reuse(t, p) \/ Create(t, p) \/ CreateThrows(t, p) \/ Release(t, p)
                        \/ \E c \in Clients : GiveBack(t, p, c)

Spec == Init /\ [][Next]_vars

-----------------------------------------------------------------------------
(* Properties *)

\* A client is with one holder only: in one wrapper, or once in one list.
\* Two scopes never use the same client at the same time by way of the pool.
OneHolder ==
  /\ \A t, u \in Threads, p, q \in Pools :
       held[t][p] \cap held[u][q] # {} => t = u /\ p = q
  /\ \A t, u \in Threads : \A i \in DOMAIN free[t], j \in DOMAIN free[u] :
       free[t][i] = free[u][j] => t = u /\ i = j
  /\ \A t, u \in Threads : Elems(free[t]) \cap HeldBy(u) = {}

\* A client, which is tied to the event loop of the thread that made it, is
\* only ever listed and held by that thread, and it exists as long as it is:
\* not even a pool destroyed in another thread takes it away.
StaysWithMaker ==
  \A t \in Threads : \A c \in Elems(free[t]) \cup HeldBy(t) : maker[c] = t

\* Clients are not shared: neither by two scopes nor by two threads.
NotShared == TypeOK /\ OneHolder /\ StaysWithMaker

\* A thread never has more clients than it ever held at once, although the
\* limit is checked when a client comes back and never when one is made.
NoMoreThanPeak ==
  \A t \in Threads : Cardinality({c \in Clients : maker[c] = t}) <= peak[t]

\* A client that comes back is destroyed only when more than m_max_total of
\* its pool are out (those count that were lost to an exception), as long as
\* the counter, which every reuse lowers further, has not passed below the
\* least int; or when it takes the last reference of its pool with it.
DroppedOverLimit ==
  [][\A p \in Pools, t \in Threads, c \in Clients :
       c \in held[t][p] /\ c \notin held'[t][p] /\ maker'[c] = NoThread =>
         \/ Cardinality(HeldFrom(p)) + thrown[p] > MaxTotal
         \/ p \in wrapped
         \/ p \in dead']_vars
=============================================================================
