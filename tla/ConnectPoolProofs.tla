--------------------------- MODULE ConnectPoolProofs ---------------------------
(* Proofs about module ConnectPool, for any threads, pools, clients and limits. *)
EXTENDS ConnectPool, FiniteSetTheorems, TLAPS

-----------------------------------------------------------------------------
(* Lists and sets *)

Distinct(s) == \A i, j \in DOMAIN s : s[i] = s[j] => i = j

LEMMA TakeFirst ==
  ASSUME NEW s \in Seq(Clients), s # <<>>, Distinct(s)
  PROVE  /\ Head(s) \in Clients /\ Head(s) \in Elems(s)
         /\ Tail(s) \in Seq(Clients) /\ Distinct(Tail(s))
         /\ Elems(Tail(s)) = Elems(s) \ {Head(s)}
<1>1. /\ DOMAIN s = 1 .. Len(s) /\ Len(s) \in Nat \ {0} /\ Head(s) = s[1] /\ s[1] \in Clients
      /\ Tail(s) \in Seq(Clients) /\ DOMAIN Tail(s) = 1 .. Len(s) - 1
      /\ \A i \in 1 .. Len(s) - 1 : Tail(s)[i] = s[i + 1]
  OBVIOUS
<1>2. Head(s) \in Elems(s)
  BY <1>1 DEF Elems
<1>3. Distinct(Tail(s))
  BY <1>1 DEF Distinct
<1>4. ASSUME NEW c \in Elems(Tail(s))
      PROVE  c \in Elems(s) \ {Head(s)}
  <2>1. PICK i \in 1 .. Len(s) - 1 : c = s[i + 1]
    BY <1>1, <1>4 DEF Elems
  <2>2. i + 1 \in DOMAIN s /\ 1 \in DOMAIN s /\ i + 1 # 1
    BY <1>1, <2>1
  <2> QED
    BY <1>1, <2>1, <2>2 DEF Elems, Distinct
<1>5. ASSUME NEW c \in Elems(s), c # Head(s)
      PROVE  c \in Elems(Tail(s))
  <2>1. PICK i \in 1 .. Len(s) : c = s[i] /\ i # 1
    BY <1>1, <1>5 DEF Elems
  <2>2. i - 1 \in 1 .. Len(s) - 1 /\ Tail(s)[i - 1] = s[i]
    BY <1>1, <2>1
  <2> QED
    BY <1>1, <2>1, <2>2 DEF Elems
<1> QED
  BY <1>1, <1>2, <1>3, <1>4, <1>5

LEMMA AddLast ==
  ASSUME NEW s \in Seq(Clients), NEW c \in Clients, c \notin Elems(s), Distinct(s)
  PROVE  /\ Append(s, c) \in Seq(Clients) /\ Distinct(Append(s, c))
         /\ Elems(Append(s, c)) = Elems(s) \cup {c}
<1>1. /\ DOMAIN s = 1 .. Len(s) /\ Len(s) \in Nat
      /\ Append(s, c) \in Seq(Clients) /\ DOMAIN Append(s, c) = 1 .. Len(s) + 1
      /\ Append(s, c)[Len(s) + 1] = c
      /\ \A i \in 1 .. Len(s) : Append(s, c)[i] = s[i]
  OBVIOUS
<1>2. \A i \in 1 .. Len(s) : s[i] # c
  BY <1>1 DEF Elems
<1>3. \A i \in 1 .. Len(s) + 1 : i \in 1 .. Len(s) \/ i = Len(s) + 1
  BY <1>1
<1>4. Distinct(Append(s, c))
  BY <1>1, <1>2, <1>3 DEF Distinct
<1>5. Len(s) + 1 \in 1 .. Len(s) + 1 /\ \A i \in 1 .. Len(s) : i \in 1 .. Len(s) + 1
  BY <1>1
<1>6. Elems(Append(s, c)) = Elems(s) \cup {c}
  BY <1>1, <1>3, <1>5 DEF Elems
<1> QED
  BY <1>1, <1>4, <1>6

LEMMA NoElems ==
  /\ <<>> \in Seq(Clients) /\ Elems(<<>>) = {} /\ Distinct(<<>>)
<1>1. <<>> \in Seq(Clients) /\ DOMAIN <<>> = {}
  OBVIOUS
<1> QED
  BY <1>1 DEF Elems, Distinct

LEMMA ElemsType ==
  ASSUME NEW s \in Seq(Clients)
  PROVE  Elems(s) \subseteq Clients
BY DEF Elems

\* One entry of `held` changes.
LEMMA HeldChange ==
  ASSUME TypeOK, NEW t \in Threads, NEW p \in Pools, NEW X \in SUBSET Clients,
         held' = [held EXCEPT ![t][p] = X]
  PROVE  /\ held' \in [Threads -> [Pools -> SUBSET Clients]]
         /\ \A u \in Threads, q \in Pools :
              held'[u][q] = IF u = t /\ q = p THEN X ELSE held[u][q]
<1>1. held \in [Threads -> [Pools -> SUBSET Clients]]
  BY DEF TypeOK
<1> QED
  BY <1>1

\* Counting.
LEMMA Cards ==
  ASSUME NEW S \in SUBSET Clients
  PROVE  /\ Cardinality(S) \in 0 .. Cardinality(Clients)
         /\ \A c : c \notin S => Cardinality(S \cup {c}) = Cardinality(S) + 1
         /\ \A c : c \in S => Cardinality(S \ {c}) = Cardinality(S) - 1
         /\ \A T \in SUBSET S : Cardinality(T) <= Cardinality(S)
<1>1. IsFiniteSet(Clients)
  BY ConnectPoolAssumption
<1>2. IsFiniteSet(S) /\ Cardinality(S) <= Cardinality(Clients)
  BY <1>1, FS_Subset
<1>3. Cardinality(S) \in Nat /\ Cardinality(Clients) \in Nat
  BY <1>1, <1>2, FS_CardinalityType
<1>4. \A c : c \notin S => Cardinality(S \cup {c}) = Cardinality(S) + 1
  BY <1>2, FS_AddElement
<1>5. \A c : c \in S => Cardinality(S \ {c}) = Cardinality(S) - 1
  BY <1>2, FS_RemoveElement
<1>6. \A T \in SUBSET S : Cardinality(T) <= Cardinality(S)
  BY <1>2, FS_Subset
<1> QED
  BY <1>2, <1>3, <1>4, <1>5, <1>6

-----------------------------------------------------------------------------
(* Types *)

LEMMA HeldTypes ==
  ASSUME TypeOK
  PROVE  /\ \A t \in Threads, p \in Pools : held[t][p] \in SUBSET Clients
         /\ \A t \in Threads : HeldBy(t) \in SUBSET Clients
         /\ \A p \in Pools : HeldFrom(p) \in SUBSET Clients
BY DEF TypeOK, HeldBy, HeldFrom

LEMMA CounterTypes ==
  ASSUME NEW n \in -Half .. Half - 1
  PROVE  Increment(n) \in -Half .. Half - 1 /\ Decrement(n) \in -Half .. Half - 1
BY ConnectPoolAssumption DEF Increment, Decrement

LEMMA HoldTypes ==
  ASSUME TypeOK, NEW t \in Threads, NEW p \in Pools, NEW c \in Clients, Hold(t, p, c)
  PROVE  /\ held' = [held EXCEPT ![t][p] = held[t][p] \cup {c}]
         /\ held' \in [Threads -> [Pools -> SUBSET Clients]]
         /\ peak' \in [Threads -> 0 .. Cardinality(Clients)]
         /\ peak'[t] >= Cardinality(HeldBy(t) \cup {c})
         /\ \A u \in Threads : peak'[u] >= peak[u]
<1>1. held' = [held EXCEPT ![t][p] = held[t][p] \cup {c}]
  BY DEF Hold
<1>2. held' \in [Threads -> [Pools -> SUBSET Clients]]
  <2>1. held[t][p] \cup {c} \in SUBSET Clients
    BY HeldTypes
  <2> QED
    BY <1>1, <2>1, HeldChange
<1> DEFINE n == Cardinality(HeldBy(t) \cup {c})
<1>3. n \in 0 .. Cardinality(Clients)
  BY HeldTypes, Cards
<1>4. peak \in [Threads -> 0 .. Cardinality(Clients)] /\ Cardinality(Clients) \in Nat
  <2>1. Cardinality(Clients) \in Nat
    BY ConnectPoolAssumption, FS_CardinalityType
  <2> QED
    BY <2>1 DEF TypeOK
<1>5. peak' = [peak EXCEPT ![t] = IF n > peak[t] THEN n ELSE peak[t]]
  BY DEF Hold
<1> HIDE DEF n
<1>6. /\ peak' \in [Threads -> 0 .. Cardinality(Clients)]
      /\ peak'[t] >= n /\ \A u \in Threads : peak'[u] >= peak[u]
  BY <1>3, <1>4, <1>5
<1> QED
  BY <1>1, <1>2, <1>6 DEF n

LEMMA DestroyedTypes ==
  ASSUME TypeOK, NEW t \in Threads, NEW p \in Pools, NEW last \in BOOLEAN, NEW f \in Seq(Clients),
         NEW gone \in SUBSET Clients, Destroyed(t, p, last, f, gone)
  PROVE  /\ free' \in [Threads -> Seq(Clients)]
         /\ maker' \in [Clients -> Threads \cup {NoThread}]
         /\ dead' \subseteq Pools
<1>1. (IF last THEN <<>> ELSE f) \in Seq(Clients)
  BY NoElems
<1>2. free' = [free EXCEPT ![t] = IF last THEN <<>> ELSE f]
  BY DEF Destroyed
<1>3. free' \in [Threads -> Seq(Clients)]
  <2> DEFINE g == IF last THEN <<>> ELSE f
  <2> HIDE DEF g
  <2>1. g \in Seq(Clients) /\ free' = [free EXCEPT ![t] = g]
    BY <1>1, <1>2 DEF g
  <2> QED
    BY <2>1 DEF TypeOK
<1>4. maker' \in [Clients -> Threads \cup {NoThread}]
  BY DEF TypeOK, Destroyed
<1>5. dead' \subseteq Pools
  BY DEF TypeOK, Destroyed
<1> QED
  BY <1>3, <1>4, <1>5

LEMMA InitTypes == Init => TypeOK
<1> SUFFICES ASSUME Init
             PROVE  TypeOK
  OBVIOUS
<1>1. Cardinality(Clients) \in Nat
  BY ConnectPoolAssumption, FS_CardinalityType
<1>2. 0 \in -Half .. Half - 1 /\ 0 \in 0 .. Cardinality(Clients) /\ 0 \in 0 .. MaxThrows
  BY <1>1, ConnectPoolAssumption
<1>3. free \in [Threads -> Seq(Clients)]
  BY NoElems DEF Init
<1>4. /\ held \in [Threads -> [Pools -> SUBSET Clients]]
      /\ maker \in [Clients -> Threads \cup {NoThread}]
      /\ owned \subseteq Pools /\ dead \subseteq Pools /\ wrapped \subseteq Pools
  BY DEF Init
<1>5. /\ m_cnt_total \in [Pools -> -Half .. Half - 1] /\ thrown \in [Pools -> 0 .. MaxThrows]
      /\ peak \in [Threads -> 0 .. Cardinality(Clients)]
  BY <1>2 DEF Init
<1> QED
  BY <1>3, <1>4, <1>5 DEF TypeOK

LEMMA ReuseTypes ==
  ASSUME TypeOK, NEW t \in Threads, NEW p \in Pools, Reuse(t, p)
  PROVE  TypeOK'
<1>1. free[t] \in Seq(Clients) /\ free[t] # <<>>
  BY DEF TypeOK, Reuse
<1>2. Head(free[t]) \in Clients /\ Tail(free[t]) \in Seq(Clients)
  BY <1>1
<1>3. /\ held' \in [Threads -> [Pools -> SUBSET Clients]]
      /\ peak' \in [Threads -> 0 .. Cardinality(Clients)]
  BY <1>2, HoldTypes DEF Reuse
<1>4. free' \in [Threads -> Seq(Clients)]
  BY <1>2 DEF Reuse, TypeOK
<1> QED
  BY <1>3, <1>4 DEF Reuse, TypeOK

LEMMA IncrementTypes ==
  ASSUME TypeOK, NEW p \in Pools, m_cnt_total' = [m_cnt_total EXCEPT ![p] = Increment(@)]
  PROVE  m_cnt_total' \in [Pools -> -Half .. Half - 1]
<1>1. Increment(m_cnt_total[p]) \in -Half .. Half - 1
  BY CounterTypes DEF TypeOK
<1> QED
  BY <1>1 DEF TypeOK

LEMMA CreateTypes ==
  ASSUME TypeOK, NEW t \in Threads, NEW p \in Pools, Create(t, p)
  PROVE  TypeOK'
<1>1. PICK c \in Clients : maker' = [maker EXCEPT ![c] = t] /\ Hold(t, p, c)
  BY DEF Create
<1>2. /\ held' \in [Threads -> [Pools -> SUBSET Clients]]
      /\ peak' \in [Threads -> 0 .. Cardinality(Clients)]
  BY <1>1, HoldTypes
<1>3. m_cnt_total' \in [Pools -> -Half .. Half - 1]
  BY IncrementTypes DEF Create
<1>4. maker' \in [Clients -> Threads \cup {NoThread}]
  BY <1>1 DEF TypeOK
<1> QED
  BY <1>2, <1>3, <1>4 DEF Create, TypeOK

LEMMA CreateThrowsTypes ==
  ASSUME TypeOK, NEW t \in Threads, NEW p \in Pools, CreateThrows(t, p)
  PROVE  TypeOK'
<1>1. m_cnt_total' \in [Pools -> -Half .. Half - 1]
  BY IncrementTypes DEF CreateThrows
<1>2. thrown' \in [Pools -> 0 .. MaxThrows]
  <2>1. thrown[p] + 1 \in 0 .. MaxThrows
    BY ConnectPoolAssumption DEF TypeOK, CreateThrows
  <2> QED
    BY <2>1 DEF TypeOK, CreateThrows
<1> QED
  BY <1>1, <1>2 DEF CreateThrows, TypeOK

LEMMA GiveBackTypes ==
  ASSUME TypeOK, NEW t \in Threads, NEW p \in Pools, NEW c \in Clients, GiveBack(t, p, c)
  PROVE  TypeOK'
<1> DEFINE last == p \notin owned /\ HeldFrom(p) = {c}
<1>1. free[t] \in Seq(Clients) /\ Append(free[t], c) \in Seq(Clients)
  <2>1. free[t] \in Seq(Clients)
    BY DEF TypeOK
  <2> QED
    BY <2>1
<1>2. PICK f \in Seq(Clients), gone \in SUBSET Clients : Destroyed(t, p, last, f, gone)
  <2>1. {} \in SUBSET Clients /\ {c} \in SUBSET Clients
    OBVIOUS
  <2> QED
    BY <1>1, <2>1 DEF GiveBack
<1>3. last \in BOOLEAN
  OBVIOUS
<1> HIDE DEF last
<1>4. /\ free' \in [Threads -> Seq(Clients)]
      /\ maker' \in [Clients -> Threads \cup {NoThread}]
      /\ dead' \subseteq Pools
  BY <1>2, <1>3, DestroyedTypes
<1>5. held' \in [Threads -> [Pools -> SUBSET Clients]]
  <2>1. held[t][p] \ {c} \in SUBSET Clients /\ held' = [held EXCEPT ![t][p] = held[t][p] \ {c}]
    BY HeldTypes DEF GiveBack
  <2> QED
    BY <2>1, HeldChange
<1>6. m_cnt_total' \in [Pools -> -Half .. Half - 1]
  <2>1. Decrement(m_cnt_total[p]) \in -Half .. Half - 1
    BY CounterTypes DEF TypeOK
  <2> QED
    BY <2>1 DEF TypeOK, GiveBack
<1>7. wrapped' \subseteq Pools
  BY DEF TypeOK, GiveBack
<1> QED
  BY <1>4, <1>5, <1>6, <1>7 DEF GiveBack, TypeOK

LEMMA ReleaseTypes ==
  ASSUME TypeOK, NEW t \in Threads, NEW p \in Pools, Release(t, p)
  PROVE  TypeOK'
<1>1. free[t] \in Seq(Clients) /\ {} \in SUBSET Clients /\ (HeldFrom(p) = {}) \in BOOLEAN
  BY DEF TypeOK
<1>2. Destroyed(t, p, HeldFrom(p) = {}, free[t], {})
  BY DEF Release
<1>3. /\ free' \in [Threads -> Seq(Clients)]
      /\ maker' \in [Clients -> Threads \cup {NoThread}]
      /\ dead' \subseteq Pools
  BY <1>1, <1>2, DestroyedTypes
<1> QED
  BY <1>3 DEF Release, TypeOK

LEMMA ExitTypes ==
  ASSUME TypeOK, NEW t \in Threads, Exit(t)
  PROVE  TypeOK'
<1>1. free' \in [Threads -> Seq(Clients)]
  BY NoElems DEF Exit, TypeOK
<1>2. maker' \in [Clients -> Threads \cup {NoThread}]
  BY DEF Exit, TypeOK
<1> QED
  BY <1>1, <1>2 DEF Exit, TypeOK

\* A step, taken apart.
LEMMA Steps ==
  ASSUME [Next]_vars
  PROVE  \/ UNCHANGED vars
         \/ \E t \in Threads : Exit(t)
         \/ \E t \in Threads, p \in Pools :
              \/ Reuse(t, p) \/ Create(t, p) \/ CreateThrows(t, p) \/ Release(t, p)
              \/ \E c \in Clients : GiveBack(t, p, c)
BY DEF Next

LEMMA TypeStep == TypeOK /\ [Next]_vars => TypeOK'
<1> SUFFICES ASSUME TypeOK, [Next]_vars
             PROVE  TypeOK'
  OBVIOUS
<1>1. CASE UNCHANGED vars
  BY <1>1 DEF vars, TypeOK
<1>2. ASSUME NEW t \in Threads, NEW p \in Pools, Reuse(t, p) PROVE TypeOK'
  BY <1>2, ReuseTypes
<1>3. ASSUME NEW t \in Threads, NEW p \in Pools, Create(t, p) PROVE TypeOK'
  BY <1>3, CreateTypes
<1>4. ASSUME NEW t \in Threads, NEW p \in Pools, CreateThrows(t, p) PROVE TypeOK'
  BY <1>4, CreateThrowsTypes
<1>5. ASSUME NEW t \in Threads, NEW p \in Pools, Release(t, p) PROVE TypeOK'
  BY <1>5, ReleaseTypes
<1>6. ASSUME NEW t \in Threads, NEW p \in Pools, NEW c \in Clients, GiveBack(t, p, c) PROVE TypeOK'
  BY <1>6, GiveBackTypes
<1>7. ASSUME NEW t \in Threads, Exit(t) PROVE TypeOK'
  BY <1>7, ExitTypes
<1> QED
  BY <1>1, <1>2, <1>3, <1>4, <1>5, <1>6, <1>7, Steps

-----------------------------------------------------------------------------
(* Who has which client *)

\* What thread t has, and that it is just what it made: the part that makes
\* the invariant inductive, for a client leaves every list and wrapper when
\* it is destroyed.
ThreadInv(t) ==
  /\ Distinct(free[t])
  /\ \A p, q \in Pools : \A c \in Clients : c \in held[t][p] /\ c \in held[t][q] => p = q
  /\ \A p \in Pools : \A c \in Clients : c \in held[t][p] => c \notin Elems(free[t])
  /\ \A c \in Clients :
       maker[c] = t <=> c \in Elems(free[t]) \/ \E p \in Pools : c \in held[t][p]

HolderInv == \A t \in Threads : ThreadInv(t)

LEMMA HolderMeaning == TypeOK /\ HolderInv => NotShared
<1> SUFFICES ASSUME TypeOK, HolderInv
             PROVE  NotShared
  OBVIOUS
<1>1. \A t \in Threads : Elems(free[t]) \subseteq Clients /\ free[t] \in Seq(Clients)
  BY ElemsType DEF TypeOK
<1>2. \A t \in Threads, p \in Pools : \A c \in held[t][p] : c \in Clients /\ maker[c] = t
  BY HeldTypes DEF HolderInv, ThreadInv
<1>3. \A t \in Threads : \A c \in Elems(free[t]) : c \in Clients /\ maker[c] = t
  BY <1>1 DEF HolderInv, ThreadInv
<1>4. StaysWithMaker
  BY <1>2, <1>3 DEF StaysWithMaker, HeldBy
<1>5. ASSUME NEW t \in Threads, NEW u \in Threads, NEW p \in Pools, NEW q \in Pools,
             held[t][p] \cap held[u][q] # {}
      PROVE  t = u /\ p = q
  BY <1>2, <1>5 DEF HolderInv, ThreadInv
<1>6. ASSUME NEW t \in Threads, NEW u \in Threads, NEW i \in DOMAIN free[t], NEW j \in DOMAIN free[u],
             free[t][i] = free[u][j]
      PROVE  t = u /\ i = j
  <2>1. free[t][i] \in Elems(free[t]) /\ free[u][j] \in Elems(free[u])
    BY DEF Elems
  <2>2. t = u
    BY <1>3, <1>6, <2>1
  <2> QED
    BY <1>6, <2>2 DEF HolderInv, ThreadInv, Distinct
<1>7. ASSUME NEW t \in Threads, NEW u \in Threads
      PROVE  Elems(free[t]) \cap HeldBy(u) = {}
  <2> SUFFICES ASSUME NEW c \in Elems(free[t]), NEW p \in Pools, c \in held[u][p]
               PROVE  FALSE
    BY DEF HeldBy
  <2>1. c \in Clients /\ maker[c] = t /\ maker[c] = u
    BY <1>2, <1>3
  <2> QED
    BY <2>1 DEF HolderInv, ThreadInv
<1>8. OneHolder
  BY <1>5, <1>6, <1>7 DEF OneHolder
<1> QED
  BY <1>4, <1>8 DEF NotShared

\* A step of another thread: neither its list nor its wrappers change, nor
\* which clients it made.
LEMMA Elsewhere ==
  ASSUME NEW u \in Threads, ThreadInv(u), free'[u] = free[u],
         \A p \in Pools : held'[u][p] = held[u][p],
         \A c \in Clients : maker'[c] = u <=> maker[c] = u
  PROVE  ThreadInv(u)'
BY DEF ThreadInv

LEMMA InitHolders == Init => HolderInv
<1> SUFFICES ASSUME Init, NEW t \in Threads
             PROVE  ThreadInv(t)
  BY DEF HolderInv
<1>1. free[t] = <<>> /\ \A p \in Pools : held[t][p] = {}
  BY DEF Init
<1>2. \A c \in Clients : maker[c] # t
  BY ConnectPoolAssumption DEF Init
<1> QED
  BY <1>1, <1>2, NoElems DEF ThreadInv

LEMMA ReuseHolders ==
  ASSUME TypeOK, HolderInv, NEW t \in Threads, NEW p \in Pools, Reuse(t, p)
  PROVE  HolderInv'
<1> DEFINE c == Head(free[t])
<1>1. free[t] \in Seq(Clients) /\ free[t] # <<>> /\ Distinct(free[t]) /\ free \in [Threads -> Seq(Clients)]
  BY DEF TypeOK, Reuse, HolderInv, ThreadInv
<1>2. /\ c \in Clients /\ c \in Elems(free[t])
      /\ Distinct(Tail(free[t])) /\ Elems(Tail(free[t])) = Elems(free[t]) \ {c}
  BY <1>1, TakeFirst
<1>3. /\ free'[t] = Tail(free[t]) /\ maker' = maker
      /\ \A u \in Threads \ {t} : free'[u] = free[u]
  BY <1>1 DEF Reuse
<1>4. \A u \in Threads, q \in Pools :
        held'[u][q] = IF u = t /\ q = p THEN held[t][p] \cup {c} ELSE held[u][q]
  <2>1. held[t][p] \cup {c} \in SUBSET Clients /\ held' = [held EXCEPT ![t][p] = held[t][p] \cup {c}]
    BY <1>2, HeldTypes DEF Reuse, Hold
  <2> QED
    BY <2>1, HeldChange
<1> HIDE DEF c
<1>5. \A u \in Threads \ {t} : ThreadInv(u)'
  BY <1>3, <1>4, Elsewhere DEF HolderInv
<1>6. ThreadInv(t)'
  <2>1. ThreadInv(t)
    BY DEF HolderInv
  <2>2. Distinct(free'[t])
    BY <1>2, <1>3
  <2>3. \A q \in Pools : c \notin held[t][q]
    BY <1>2, <2>1 DEF ThreadInv
  <2>4. \A q, r \in Pools : \A d \in Clients : d \in held'[t][q] /\ d \in held'[t][r] => q = r
    BY <1>4, <2>1, <2>3 DEF ThreadInv
  <2>5. \A q \in Pools : \A d \in Clients : d \in held'[t][q] => d \notin Elems(free'[t])
    BY <1>2, <1>3, <1>4, <2>1 DEF ThreadInv
  <2>6. \A d \in Clients : maker'[d] = t <=> d \in Elems(free'[t]) \/ \E q \in Pools : d \in held'[t][q]
    BY <1>2, <1>3, <1>4, <2>1 DEF ThreadInv
  <2> QED
    BY <2>2, <2>4, <2>5, <2>6 DEF ThreadInv, Elems, Distinct
<1> QED
  BY <1>5, <1>6 DEF HolderInv

LEMMA CreateHolders ==
  ASSUME TypeOK, HolderInv, NEW t \in Threads, NEW p \in Pools, Create(t, p)
  PROVE  HolderInv'
<1>1. PICK c \in Clients : /\ maker[c] = NoThread /\ maker' = [maker EXCEPT ![c] = t]
                           /\ Hold(t, p, c)
  BY DEF Create
<1>2. free' = free
  BY DEF Create
<1>3. \A u \in Threads, q \in Pools :
        held'[u][q] = IF u = t /\ q = p THEN held[t][p] \cup {c} ELSE held[u][q]
  <2>1. held[t][p] \cup {c} \in SUBSET Clients /\ held' = [held EXCEPT ![t][p] = held[t][p] \cup {c}]
    BY <1>1, HeldTypes DEF Hold
  <2> QED
    BY <2>1, HeldChange
<1>4. \A u \in Threads : u # NoThread
  BY ConnectPoolAssumption
<1>5. \A d \in Clients : maker'[d] = IF d = c THEN t ELSE maker[d]
  BY <1>1 DEF TypeOK
<1>6. \A u \in Threads \ {t} : ThreadInv(u)'
  BY <1>1, <1>2, <1>3, <1>4, <1>5, Elsewhere DEF HolderInv
<1>7. ThreadInv(t)'
  <2>1. ThreadInv(t)
    BY DEF HolderInv
  <2>2. c \notin Elems(free[t]) /\ \A q \in Pools : c \notin held[t][q]
    BY <1>1, <1>4, <2>1 DEF ThreadInv
  <2>3. \A q, r \in Pools : \A d \in Clients : d \in held'[t][q] /\ d \in held'[t][r] => q = r
    BY <1>3, <2>1, <2>2 DEF ThreadInv
  <2>4. \A q \in Pools : \A d \in Clients : d \in held'[t][q] => d \notin Elems(free[t])
    BY <1>3, <2>1, <2>2 DEF ThreadInv
  <2>5. \A d \in Clients : maker'[d] = t <=> d \in Elems(free[t]) \/ \E q \in Pools : d \in held'[t][q]
    BY <1>3, <1>5, <2>1 DEF ThreadInv
  <2>6. Distinct(free[t])
    BY <2>1 DEF ThreadInv
  <2> QED
    BY <1>2, <2>3, <2>4, <2>5, <2>6 DEF ThreadInv
<1> QED
  BY <1>6, <1>7 DEF HolderInv

\* Clients of t's go: those of `all`, none of them in a wrapper, which leaves
\* its list at f.
ClientsGo(t, all, f) ==
  /\ Distinct(f)
  /\ free'[t] = f /\ \A u \in Threads \ {t} : free'[u] = free[u]
  /\ \A u \in Threads \ {t}, p \in Pools : held'[u][p] = held[u][p]
  /\ \A p \in Pools : held'[t][p] \subseteq held[t][p]
  /\ \A c \in Clients : maker'[c] = IF c \in all THEN NoThread ELSE maker[c]
  /\ \A c \in all : maker[c] = t
  /\ \A p \in Pools : \A c \in Clients : c \in held'[t][p] => c \notin Elems(f)
  /\ \A c \in Clients : maker[c] = t /\ c \notin all
                          <=> c \in Elems(f) \/ \E p \in Pools : c \in held'[t][p]

LEMMA ClientsGoHolders ==
  ASSUME TypeOK, HolderInv, NEW t \in Threads, NEW all \in SUBSET Clients,
         NEW f \in Seq(Clients), ClientsGo(t, all, f)
  PROVE  HolderInv'
<1> USE DEF ClientsGo
<1>1. \A u \in Threads : u # NoThread
  BY ConnectPoolAssumption
<1>2. \A u \in Threads \ {t} : ThreadInv(u)'
  BY <1>1, Elsewhere DEF HolderInv
<1>3. ThreadInv(t)'
  <2>1. ThreadInv(t)
    BY DEF HolderInv
  <2>2. \A q, r \in Pools : \A d \in Clients : d \in held'[t][q] /\ d \in held'[t][r] => q = r
    BY <2>1 DEF ThreadInv
  <2>3. \A d \in Clients : maker'[d] = t <=> d \in Elems(f) \/ \E q \in Pools : d \in held'[t][q]
    BY <1>1
  <2> QED
    BY <2>2, <2>3 DEF ThreadInv, Elems, Distinct
<1> QED
  BY <1>2, <1>3 DEF HolderInv

LEMMA GiveBackHolders ==
  ASSUME TypeOK, HolderInv, NEW t \in Threads, NEW p \in Pools, NEW c \in Clients, GiveBack(t, p, c)
  PROVE  HolderInv'
<1> DEFINE last == p \notin owned /\ HeldFrom(p) = {c}
           keep == m_cnt_total[p] <= MaxTotal
           f == IF keep THEN Append(free[t], c) ELSE free[t]
           gone == IF keep THEN {} ELSE {c}
           all == IF last THEN gone \cup Elems(f) ELSE gone
           g == IF last THEN <<>> ELSE f
<1>1. Destroyed(t, p, last, f, gone)
  BY DEF GiveBack
<1>2. ThreadInv(t) /\ c \in held[t][p] /\ free[t] \in Seq(Clients)
  BY DEF HolderInv, GiveBack, TypeOK
<1>3. c \notin Elems(free[t]) /\ Distinct(free[t]) /\ maker[c] = t
  BY <1>2 DEF ThreadInv
<1>4. /\ f \in Seq(Clients) /\ Distinct(f)
      /\ Elems(f) = IF keep THEN Elems(free[t]) \cup {c} ELSE Elems(free[t])
  BY <1>2, <1>3, AddLast
<1>5. free' = [free EXCEPT ![t] = g] /\ \A d \in Clients : maker'[d] = IF d \in all THEN NoThread ELSE maker[d]
  BY <1>1 DEF Destroyed
<1>6. \A u \in Threads, q \in Pools :
        held'[u][q] = IF u = t /\ q = p THEN held[t][p] \ {c} ELSE held[u][q]
  <2>1. held[t][p] \ {c} \in SUBSET Clients /\ held' = [held EXCEPT ![t][p] = held[t][p] \ {c}]
    BY HeldTypes DEF GiveBack
  <2> QED
    BY <2>1, HeldChange
<1>7. \A q \in Pools \ {p} : c \notin held[t][q]
  BY <1>2 DEF ThreadInv
<1>8. g \in Seq(Clients) /\ Distinct(g) /\ Elems(g) = IF last THEN {} ELSE Elems(f)
  BY <1>4, NoElems
<1>9. Elems(f) \subseteq Clients
  BY <1>4, ElemsType
<1>10. all = (IF last THEN gone \cup Elems(f) ELSE gone) /\ gone = (IF keep THEN {} ELSE {c})
  OBVIOUS
<1> HIDE DEF all, g, f, gone, last, keep
<1>11. all \in SUBSET Clients /\ \A d \in all : maker[d] = t
  BY <1>2, <1>3, <1>4, <1>9, <1>10 DEF ThreadInv
<1>12. free'[t] = g /\ \A u \in Threads \ {t} : free'[u] = free[u]
  BY <1>5 DEF TypeOK
<1>13. \A d \in Clients : d \in Elems(g) => d \in Elems(free[t]) \/ d = c
  BY <1>4, <1>8
<1>14. \A q \in Pools : \A d \in Clients : d \in held'[t][q] => d \in held[t][q] /\ d # c
  BY <1>6, <1>7
<1>15. \A q \in Pools : \A d \in Clients : d \in held'[t][q] => d \notin Elems(g)
  BY <1>2, <1>13, <1>14 DEF ThreadInv
<1>16. \A d \in Clients : (\E q \in Pools : d \in held'[t][q]) <=> d # c /\ \E q \in Pools : d \in held[t][q]
  BY <1>6, <1>7
<1>17. \A d \in Clients : maker[d] = t /\ d \notin all
                            <=> d \in Elems(g) \/ \E q \in Pools : d \in held'[t][q]
  <2> SUFFICES ASSUME NEW d \in Clients
               PROVE  maker[d] = t /\ d \notin all
                        <=> d \in Elems(g) \/ (d # c /\ \E q \in Pools : d \in held[t][q])
    BY <1>16
  <2>1. maker[d] = t <=> d \in Elems(free[t]) \/ \E q \in Pools : d \in held[t][q]
    BY <1>2 DEF ThreadInv
  <2>2. d \in Elems(free[t]) => ~ \E q \in Pools : d \in held[t][q]
    BY <1>2 DEF ThreadInv
  <2>3. d = c => \E q \in Pools : d \in held[t][q]
    BY <1>2
  <2> QED
    BY <1>3, <1>4, <1>8, <1>10, <2>1, <2>2, <2>3
<1>18. \A q \in Pools : held'[t][q] \subseteq held[t][q]
  BY <1>6
<1> QED
  <2>1. \A u \in Threads \ {t}, q \in Pools : held'[u][q] = held[u][q]
    BY <1>6
  <2>2. ClientsGo(t, all, g)
    BY <2>1, <1>5, <1>8, <1>11, <1>12, <1>15, <1>17, <1>18, Zenon DEF ClientsGo
  <2> QED
    BY <2>2, <1>8, <1>11, ClientsGoHolders

LEMMA ReleaseHolders ==
  ASSUME TypeOK, HolderInv, NEW t \in Threads, NEW p \in Pools, Release(t, p)
  PROVE  HolderInv'
<1> DEFINE last == HeldFrom(p) = {}
           all == IF last THEN {} \cup Elems(free[t]) ELSE {}
           g == IF last THEN <<>> ELSE free[t]
<1>1. Destroyed(t, p, last, free[t], {}) /\ held' = held
  BY DEF Release
<1>2. ThreadInv(t) /\ free[t] \in Seq(Clients) /\ Distinct(free[t])
  BY DEF HolderInv, ThreadInv, TypeOK
<1>3. free' = [free EXCEPT ![t] = g] /\ \A d \in Clients : maker'[d] = IF d \in all THEN NoThread ELSE maker[d]
  BY <1>1 DEF Destroyed
<1>4. g \in Seq(Clients) /\ Distinct(g) /\ Elems(g) = IF last THEN {} ELSE Elems(free[t])
  BY <1>2, NoElems
<1>5. all = (IF last THEN Elems(free[t]) ELSE {}) /\ Elems(free[t]) \subseteq Clients
  BY <1>2, ElemsType
<1> HIDE DEF all, g, last
<1>6. all \in SUBSET Clients /\ \A d \in all : maker[d] = t
  BY <1>2, <1>5 DEF ThreadInv
<1>7. free'[t] = g /\ \A u \in Threads \ {t} : free'[u] = free[u]
  BY <1>3 DEF TypeOK
<1>8. \A q \in Pools : \A d \in Clients : d \in held'[t][q] => d \notin Elems(g)
  BY <1>1, <1>2, <1>4 DEF ThreadInv
<1>9. \A d \in Clients : maker[d] = t /\ d \notin all
                            <=> d \in Elems(g) \/ \E q \in Pools : d \in held'[t][q]
  <2> SUFFICES ASSUME NEW d \in Clients
               PROVE  maker[d] = t /\ d \notin all <=> d \in Elems(g) \/ \E q \in Pools : d \in held[t][q]
    BY <1>1
  <2>1. maker[d] = t <=> d \in Elems(free[t]) \/ \E q \in Pools : d \in held[t][q]
    BY <1>2 DEF ThreadInv
  <2>2. d \in Elems(free[t]) => ~ \E q \in Pools : d \in held[t][q]
    BY <1>2 DEF ThreadInv
  <2> QED
    BY <1>4, <1>5, <2>1, <2>2
<1> QED
  <2>1. \A u \in Threads \ {t}, q \in Pools : held'[u][q] = held[u][q]
    BY <1>1
  <2>2. \A q \in Pools : held'[t][q] \subseteq held[t][q]
    BY <1>1
  <2>3. ClientsGo(t, all, g)
    BY <2>1, <2>2, <1>3, <1>4, <1>6, <1>7, <1>8, <1>9, Zenon DEF ClientsGo
  <2> QED
    BY <2>3, <1>4, <1>6, ClientsGoHolders

LEMMA ExitHolders ==
  ASSUME TypeOK, HolderInv, NEW t \in Threads, Exit(t)
  PROVE  HolderInv'
<1>1. ThreadInv(t) /\ free[t] \in Seq(Clients) /\ held' = held /\ Elems(free[t]) \subseteq Clients
  BY ElemsType DEF HolderInv, Exit, TypeOK
<1>2. /\ free'[t] = <<>> /\ \A u \in Threads \ {t} : free'[u] = free[u]
      /\ \A d \in Clients : maker'[d] = IF d \in Elems(free[t]) THEN NoThread ELSE maker[d]
  BY DEF Exit, TypeOK
<1>3. \A d \in Elems(free[t]) : maker[d] = t
  BY <1>1 DEF ThreadInv
<1>4. \A q \in Pools : held[t][q] = {}
  BY DEF Exit, HeldBy
<1>5. \A d \in Clients : maker[d] = t /\ d \notin Elems(free[t])
                            <=> d \in Elems(<<>>) \/ \E q \in Pools : d \in held'[t][q]
  BY <1>1, <1>4, NoElems DEF ThreadInv
<1>6. \A q \in Pools : \A d \in Clients : d \in held'[t][q] => d \notin Elems(<<>>)
  BY <1>1, <1>4
<1> QED
  <2>1. \A u \in Threads \ {t}, q \in Pools : held'[u][q] = held[u][q]
    BY <1>1
  <2>2. \A q \in Pools : held'[t][q] \subseteq held[t][q]
    BY <1>1
  <2>3. ClientsGo(t, Elems(free[t]), <<>>)
    BY <2>1, <2>2, <1>2, <1>3, <1>5, <1>6, NoElems, Zenon DEF ClientsGo
  <2> QED
    BY <2>3, <1>1, NoElems, ClientsGoHolders

LEMMA HolderStep == TypeOK /\ HolderInv /\ [Next]_vars => HolderInv'
<1> SUFFICES ASSUME TypeOK, HolderInv, [Next]_vars
             PROVE  HolderInv'
  OBVIOUS
<1>1. CASE UNCHANGED vars
  BY <1>1 DEF vars, HolderInv, ThreadInv
<1>2. ASSUME NEW t \in Threads, NEW p \in Pools, Reuse(t, p) PROVE HolderInv'
  BY <1>2, ReuseHolders
<1>3. ASSUME NEW t \in Threads, NEW p \in Pools, Create(t, p) PROVE HolderInv'
  BY <1>3, CreateHolders
<1>4. ASSUME NEW t \in Threads, NEW p \in Pools, CreateThrows(t, p) PROVE HolderInv'
  BY <1>4 DEF CreateThrows, HolderInv, ThreadInv
<1>5. ASSUME NEW t \in Threads, NEW p \in Pools, Release(t, p) PROVE HolderInv'
  BY <1>5, ReleaseHolders
<1>6. ASSUME NEW t \in Threads, NEW p \in Pools, NEW c \in Clients, GiveBack(t, p, c) PROVE HolderInv'
  BY <1>6, GiveBackHolders
<1>7. ASSUME NEW t \in Threads, Exit(t) PROVE HolderInv'
  BY <1>7, ExitHolders
<1> QED
  BY <1>1, <1>2, <1>3, <1>4, <1>5, <1>6, <1>7, Steps

LEMMA Invariance == Spec => [](TypeOK /\ HolderInv)
<1>1. Init => TypeOK /\ HolderInv
  BY InitTypes, InitHolders
<1>2. TypeOK /\ HolderInv /\ [Next]_vars => (TypeOK /\ HolderInv)'
  BY TypeStep, HolderStep
<1> QED
  BY <1>1, <1>2, PTL DEF Spec

\* However many threads share however many pools of an address, connectpool
\* gives a client to one holder at a time, and only ever in the thread that
\* made it.
THEOREM ClientsAreNotShared == Spec => []NotShared
<1> QED
  BY Invariance, HolderMeaning, PTL

-----------------------------------------------------------------------------
(* How many clients there are *)

MadeBy(t) == {c \in Clients : maker[c] = t}

\* Steps that make no client.
LEMMA NoneMade ==
  ASSUME TypeOK, TypeOK', NoMoreThanPeak, \A t \in Threads : MadeBy(t)' \subseteq MadeBy(t),
         \A t \in Threads : peak'[t] >= peak[t]
  PROVE  NoMoreThanPeak'
<1> SUFFICES ASSUME NEW t \in Threads
             PROVE  Cardinality(MadeBy(t)') <= peak'[t]
  BY DEF NoMoreThanPeak, MadeBy
<1>1. Cardinality(MadeBy(t)') <= Cardinality(MadeBy(t)) /\ Cardinality(MadeBy(t)) \in Int /\ Cardinality(MadeBy(t)') \in Int
  <2>1. MadeBy(t) \in SUBSET Clients /\ MadeBy(t)' \in SUBSET MadeBy(t) /\ MadeBy(t)' \in SUBSET Clients
    BY DEF MadeBy
  <2> HIDE DEF MadeBy
  <2>2. Cardinality(Clients) \in Nat
    BY ConnectPoolAssumption, FS_CardinalityType
  <2> QED
    BY <2>1, <2>2, Cards
<1>2. Cardinality(MadeBy(t)) <= peak[t]
  BY DEF NoMoreThanPeak, MadeBy
<1>3. peak[t] \in Int /\ peak'[t] \in Int
  <2>1. Cardinality(Clients) \in Nat
    BY ConnectPoolAssumption, FS_CardinalityType
  <2> QED
    BY <2>1 DEF TypeOK
<1> QED
  BY <1>1, <1>2, <1>3

LEMMA PeakStep == TypeOK /\ TypeOK' /\ HolderInv /\ NoMoreThanPeak /\ [Next]_vars => NoMoreThanPeak'
<1> SUFFICES ASSUME TypeOK, TypeOK', HolderInv, NoMoreThanPeak, [Next]_vars
             PROVE  NoMoreThanPeak'
  OBVIOUS
<1>0. \A t \in Threads : peak[t] >= peak[t]
  <2>1. Cardinality(Clients) \in Nat
    BY ConnectPoolAssumption, FS_CardinalityType
  <2> QED
    BY <2>1 DEF TypeOK
<1>1. CASE UNCHANGED vars
  BY <1>1 DEF vars, NoMoreThanPeak
<1>2. ASSUME NEW t \in Threads, NEW p \in Pools, Reuse(t, p) PROVE NoMoreThanPeak'
  <2>1. \A u \in Threads : peak'[u] >= peak[u]
    <3>1. Head(free[t]) \in Clients /\ Hold(t, p, Head(free[t]))
      <4>1. free[t] \in Seq(Clients) /\ free[t] # <<>>
        BY <1>2 DEF TypeOK, Reuse
      <4> QED
        BY <1>2, <4>1 DEF Reuse
    <3> QED
      BY <3>1, HoldTypes
  <2>2. \A u \in Threads : MadeBy(u)' \subseteq MadeBy(u)
    BY <1>2 DEF Reuse, MadeBy
  <2> QED
    BY <2>1, <2>2, NoneMade
<1>3. ASSUME NEW t \in Threads, NEW p \in Pools, Create(t, p) PROVE NoMoreThanPeak'
  <2>1. PICK c \in Clients : /\ maker[c] = NoThread /\ maker' = [maker EXCEPT ![c] = t]
                             /\ Hold(t, p, c)
    BY <1>3 DEF Create
  <2>2. peak'[t] >= Cardinality(HeldBy(t) \cup {c}) /\ \A u \in Threads : peak'[u] >= peak[u]
    BY <2>1, HoldTypes
  <2>3. \A d \in Clients : maker'[d] = IF d = c THEN t ELSE maker[d]
    BY <2>1 DEF TypeOK
  <2>4. MadeBy(t)' = HeldBy(t) \cup {c}
    <3>1. free[t] = <<>> /\ ThreadInv(t) /\ HeldBy(t) \in SUBSET Clients
      BY <1>3, HeldTypes DEF Create, HolderInv
    <3>2. \A d \in Clients : maker[d] = t <=> d \in HeldBy(t)
      BY <3>1, NoElems DEF ThreadInv, HeldBy
    <3> QED
      BY <2>3, <3>1, <3>2 DEF MadeBy
  <2>5. \A u \in Threads \ {t} : MadeBy(u)' = MadeBy(u)
    <3>1. \A u \in Threads : u # NoThread
      BY ConnectPoolAssumption
    <3> QED
      BY <2>1, <2>3, <3>1 DEF MadeBy
  <2>6. ASSUME NEW u \in Threads \ {t}
        PROVE  Cardinality(MadeBy(u)') <= peak'[u]
    <3>1. Cardinality(MadeBy(u)) <= peak[u]
      BY DEF NoMoreThanPeak, MadeBy
    <3>2. MadeBy(u) \in SUBSET Clients
      BY DEF MadeBy
    <3>3. Cardinality(Clients) \in Nat
      BY ConnectPoolAssumption, FS_CardinalityType
    <3>4. Cardinality(MadeBy(u)) \in Int
      BY <3>2, <3>3, Cards
    <3>5. peak[u] \in Int /\ peak'[u] \in Int
      BY <3>3 DEF TypeOK
    <3> QED
      BY <2>2, <2>5, <3>1, <3>4, <3>5
  <2>7. Cardinality(MadeBy(t)') <= peak'[t]
    <3>1. Cardinality(HeldBy(t) \cup {c}) \in 0 .. Cardinality(Clients)
      BY HeldTypes, Cards
    <3>2. Cardinality(Clients) \in Nat
      BY ConnectPoolAssumption, FS_CardinalityType
    <3>3. peak'[t] \in Int
      BY <3>2 DEF TypeOK
    <3> QED
      BY <2>2, <2>4, <3>1, <3>2, <3>3
  <2> QED
    BY <2>6, <2>7 DEF NoMoreThanPeak, MadeBy
<1>4. ASSUME NEW t \in Threads, NEW p \in Pools, CreateThrows(t, p) PROVE NoMoreThanPeak'
  BY <1>4 DEF CreateThrows, NoMoreThanPeak
<1>5. ASSUME NEW t \in Threads, NEW p \in Pools, NEW last \in BOOLEAN, NEW f, NEW gone,
             Destroyed(t, p, last, f, gone), UNCHANGED peak
      PROVE  NoMoreThanPeak'
  <2>1. \A u \in Threads : u # NoThread
    BY ConnectPoolAssumption
  <2>2. \A u \in Threads : MadeBy(u)' \subseteq MadeBy(u)
    BY <1>5, <2>1 DEF Destroyed, MadeBy
  <2> QED
    BY <1>0, <1>5, <2>2, NoneMade
<1>6. ASSUME NEW t \in Threads, NEW p \in Pools, Release(t, p) PROVE NoMoreThanPeak'
  BY <1>5, <1>6 DEF Release
<1>7. ASSUME NEW t \in Threads, NEW p \in Pools, NEW c \in Clients, GiveBack(t, p, c) PROVE NoMoreThanPeak'
  BY <1>5, <1>7 DEF GiveBack
<1>8. ASSUME NEW t \in Threads, Exit(t) PROVE NoMoreThanPeak'
  <2>1. \A u \in Threads : u # NoThread
    BY ConnectPoolAssumption
  <2>2. \A u \in Threads : MadeBy(u)' \subseteq MadeBy(u)
    BY <1>8, <2>1 DEF Exit, MadeBy
  <2> QED
    BY <1>0, <1>8, <2>2, NoneMade DEF Exit
<1> QED
  BY <1>1, <1>2, <1>3, <1>4, <1>6, <1>7, <1>8, Steps

\* A thread that makes a client has none free, so it never makes more than it
\* needs at once, in all pools together: the missing check costs no more.
THEOREM ClientsWithinPeak == Spec => []NoMoreThanPeak
<1>1. Init => NoMoreThanPeak
  <2> SUFFICES ASSUME Init, NEW t \in Threads
               PROVE  Cardinality(MadeBy(t)) <= peak[t]
    BY DEF NoMoreThanPeak, MadeBy
  <2>1. MadeBy(t) = {} /\ peak[t] = 0
    BY ConnectPoolAssumption DEF Init, MadeBy
  <2> QED
    BY <2>1, FS_EmptySet
<1> QED
  BY <1>1, PeakStep, Invariance, PTL DEF Spec

-----------------------------------------------------------------------------
(* What the counter is good for *)

\* The counter of a pool is never above what is out and what was thrown: a
\* reuse does not raise it, but the end of every wrapper lowers it.
CountInv ==
  \A p \in Pools :
    p \in wrapped \/ m_cnt_total[p] <= Cardinality(HeldFrom(p)) + thrown[p]

LEMMA Numbers ==
  ASSUME TypeOK, NEW p \in Pools
  PROVE  /\ m_cnt_total[p] \in Int /\ Cardinality(HeldFrom(p)) \in Int /\ thrown[p] \in Int
         /\ Half \in Nat /\ MaxTotal \in Nat
<1>1. Cardinality(Clients) \in Nat
  BY ConnectPoolAssumption, FS_CardinalityType
<1>2. Cardinality(HeldFrom(p)) \in Int
  BY <1>1, HeldTypes, Cards
<1> QED
  BY <1>2, ConnectPoolAssumption DEF TypeOK

\* A client that nobody held is in a wrapper.
LEMMA HoldCount ==
  ASSUME TypeOK, NEW t \in Threads, NEW p \in Pools, NEW c \in Clients, Hold(t, p, c),
         \A u \in Threads : c \notin held[u][p]
  PROVE  /\ Cardinality(HeldFrom(p))' = Cardinality(HeldFrom(p)) + 1
         /\ \A q \in Pools \ {p} : HeldFrom(q)' = HeldFrom(q)
<1>1. \A u \in Threads, q \in Pools :
        held'[u][q] = IF u = t /\ q = p THEN held[t][p] \cup {c} ELSE held[u][q]
  <2>1. held[t][p] \cup {c} \in SUBSET Clients /\ held' = [held EXCEPT ![t][p] = held[t][p] \cup {c}]
    BY HeldTypes DEF Hold
  <2> QED
    BY <2>1, HeldChange
<1>2. HeldFrom(p)' = HeldFrom(p) \cup {c} /\ c \notin HeldFrom(p)
  BY <1>1 DEF HeldFrom
<1>3. \A q \in Pools \ {p} : HeldFrom(q)' = HeldFrom(q)
  BY <1>1 DEF HeldFrom
<1> QED
  BY <1>2, <1>3, HeldTypes, Cards

LEMMA GiveBackCount ==
  ASSUME TypeOK, HolderInv, NEW t \in Threads, NEW p \in Pools, NEW c \in Clients, GiveBack(t, p, c)
  PROVE  /\ Cardinality(HeldFrom(p))' = Cardinality(HeldFrom(p)) - 1
         /\ \A q \in Pools \ {p} : HeldFrom(q)' = HeldFrom(q)
<1>1. \A u \in Threads, q \in Pools :
        held'[u][q] = IF u = t /\ q = p THEN held[t][p] \ {c} ELSE held[u][q]
  <2>1. held[t][p] \ {c} \in SUBSET Clients /\ held' = [held EXCEPT ![t][p] = held[t][p] \ {c}]
    BY HeldTypes DEF GiveBack
  <2> QED
    BY <2>1, HeldChange
<1>2. \A u \in Threads \ {t} : c \notin held[u][p]
  BY DEF HolderInv, ThreadInv, GiveBack
<1>3. HeldFrom(p)' = HeldFrom(p) \ {c} /\ c \in HeldFrom(p)
  <2>1. c \in held[t][p]
    BY DEF GiveBack
  <2> QED
    BY <1>1, <1>2, <2>1 DEF HeldFrom
<1>4. \A q \in Pools \ {p} : HeldFrom(q)' = HeldFrom(q)
  BY <1>1 DEF HeldFrom
<1> QED
  BY <1>3, <1>4, HeldTypes, Cards

LEMMA Counting ==
  ASSUME TypeOK, NEW p \in Pools
  PROVE  /\ Increment(m_cnt_total[p]) <= m_cnt_total[p] + 1
         /\ m_cnt_total[p] # -Half => Decrement(m_cnt_total[p]) = m_cnt_total[p] - 1
BY Numbers, ConnectPoolAssumption DEF TypeOK, Increment, Decrement

LEMMA CountStep == TypeOK /\ HolderInv /\ CountInv /\ [Next]_vars => CountInv'
<1> SUFFICES ASSUME TypeOK, HolderInv, CountInv, [Next]_vars
             PROVE  CountInv'
  OBVIOUS
<1>1. CASE UNCHANGED <<m_cnt_total, held, thrown, wrapped>>
  BY <1>1 DEF CountInv, HeldFrom
<1>2. ASSUME NEW t \in Threads, NEW p \in Pools, Reuse(t, p) PROVE CountInv'
  <2>1. free[t] \in Seq(Clients) /\ free[t] # <<>> /\ Distinct(free[t])
    BY <1>2 DEF TypeOK, Reuse, HolderInv, ThreadInv
  <2>2. Head(free[t]) \in Clients /\ Head(free[t]) \in Elems(free[t])
    BY <2>1, TakeFirst
  <2>3. \A u \in Threads : Head(free[t]) \notin held[u][p]
    BY <2>2 DEF HolderInv, ThreadInv
  <2>4. /\ Cardinality(HeldFrom(p))' = Cardinality(HeldFrom(p)) + 1
        /\ \A q \in Pools \ {p} : HeldFrom(q)' = HeldFrom(q)
    BY <1>2, <2>2, <2>3, HoldCount DEF Reuse
  <2>5. UNCHANGED <<m_cnt_total, thrown, wrapped>>
    BY <1>2 DEF Reuse
  <2>6. p \notin wrapped => m_cnt_total[p] <= Cardinality(HeldFrom(p)) + 1 + thrown[p]
    BY Numbers DEF CountInv
  <2> QED
    BY <2>4, <2>5, <2>6 DEF CountInv
<1>3. ASSUME NEW t \in Threads, NEW p \in Pools, Create(t, p) PROVE CountInv'
  <2>1. PICK c \in Clients : maker[c] = NoThread /\ Hold(t, p, c)
    BY <1>3 DEF Create
  <2>2. \A u \in Threads : c \notin held[u][p]
    BY <2>1, ConnectPoolAssumption DEF HolderInv, ThreadInv
  <2>3. /\ Cardinality(HeldFrom(p))' = Cardinality(HeldFrom(p)) + 1
        /\ \A q \in Pools \ {p} : HeldFrom(q)' = HeldFrom(q)
    BY <2>1, <2>2, HoldCount
  <2>4. /\ UNCHANGED <<thrown, wrapped>> /\ m_cnt_total'[p] = Increment(m_cnt_total[p])
        /\ \A q \in Pools \ {p} : m_cnt_total'[q] = m_cnt_total[q]
    BY <1>3 DEF Create, TypeOK
  <2>5. Increment(m_cnt_total[p]) \in Int
    BY CounterTypes, ConnectPoolAssumption DEF TypeOK
  <2>6. p \notin wrapped => Increment(m_cnt_total[p]) <= Cardinality(HeldFrom(p)) + 1 + thrown[p]
    BY <2>5, Numbers, Counting DEF CountInv
  <2> QED
    BY <2>3, <2>4, <2>6 DEF CountInv
<1>4. ASSUME NEW t \in Threads, NEW p \in Pools, CreateThrows(t, p) PROVE CountInv'
  <2>1. /\ UNCHANGED <<held, wrapped>>
        /\ m_cnt_total'[p] = Increment(m_cnt_total[p]) /\ thrown'[p] = thrown[p] + 1
        /\ \A q \in Pools \ {p} : m_cnt_total'[q] = m_cnt_total[q] /\ thrown'[q] = thrown[q]
    BY <1>4 DEF CreateThrows, TypeOK
  <2>2. Increment(m_cnt_total[p]) \in Int
    BY CounterTypes, ConnectPoolAssumption DEF TypeOK
  <2>3. p \notin wrapped => Increment(m_cnt_total[p]) <= Cardinality(HeldFrom(p)) + (thrown[p] + 1)
    BY <2>2, Numbers, Counting DEF CountInv
  <2>4. \A q \in Pools : HeldFrom(q)' = HeldFrom(q)
    BY <2>1 DEF HeldFrom
  <2> QED
    BY <2>1, <2>3, <2>4 DEF CountInv
<1>5. ASSUME NEW t \in Threads, NEW p \in Pools, NEW c \in Clients, GiveBack(t, p, c) PROVE CountInv'
  <2>1. /\ Cardinality(HeldFrom(p))' = Cardinality(HeldFrom(p)) - 1
        /\ \A q \in Pools \ {p} : HeldFrom(q)' = HeldFrom(q)
    BY <1>5, GiveBackCount
  <2>2. /\ UNCHANGED thrown /\ m_cnt_total'[p] = Decrement(m_cnt_total[p])
        /\ \A q \in Pools \ {p} : m_cnt_total'[q] = m_cnt_total[q]
        /\ wrapped' = IF m_cnt_total[p] = -Half THEN wrapped \cup {p} ELSE wrapped
    BY <1>5 DEF GiveBack, TypeOK
  <2>3. p \notin wrapped' =>
          p \notin wrapped /\ Decrement(m_cnt_total[p]) <= Cardinality(HeldFrom(p)) - 1 + thrown[p]
    BY <2>2, Numbers, Counting DEF CountInv
  <2> QED
    BY <2>1, <2>2, <2>3 DEF CountInv
<1>6. ASSUME NEW t \in Threads, NEW p \in Pools, Release(t, p) PROVE CountInv'
  BY <1>1, <1>6 DEF Release
<1>7. ASSUME NEW t \in Threads, Exit(t) PROVE CountInv'
  BY <1>1, <1>7 DEF Exit
<1> QED
  BY <1>1, <1>2, <1>3, <1>4, <1>5, <1>6, <1>7, Steps DEF vars

\* A client that comes back is not thrown away below m_max_total: the counter
\* is off by every reuse, but only downwards, until it wraps around.
THEOREM DropsOnlyOverLimit == Spec => DroppedOverLimit
<1>1. Init => CountInv
  <2> SUFFICES ASSUME Init, NEW p \in Pools
               PROVE  m_cnt_total[p] <= Cardinality(HeldFrom(p)) + thrown[p]
    BY DEF CountInv
  <2>1. HeldFrom(p) = {} /\ m_cnt_total[p] = 0 /\ thrown[p] = 0
    BY DEF Init, HeldFrom
  <2> QED
    BY <2>1, FS_EmptySet
<1>2. ASSUME TypeOK, HolderInv, CountInv, [Next]_vars, NEW p \in Pools, NEW t \in Threads, NEW c \in Clients,
             c \in held[t][p], c \notin held'[t][p], maker'[c] = NoThread
      PROVE  Cardinality(HeldFrom(p)) + thrown[p] > MaxTotal \/ p \in wrapped \/ p \in dead'
  <2>1. CASE UNCHANGED held
    BY <1>2, <2>1
  <2>2. ASSUME NEW u \in Threads, NEW q \in Pools, NEW d \in Clients, Hold(u, q, d)
        PROVE  FALSE
    <3>1. held[u][q] \cup {d} \in SUBSET Clients /\ held' = [held EXCEPT ![u][q] = held[u][q] \cup {d}]
      BY <1>2, <2>2, HeldTypes DEF Hold
    <3> QED
      BY <1>2, <3>1, HeldChange
  <2>3. ASSUME NEW u \in Threads, NEW q \in Pools, Reuse(u, q) PROVE FALSE
    <3>1. Head(free[u]) \in Clients
      <4>1. free[u] \in Seq(Clients) /\ free[u] # <<>>
        BY <1>2, <2>3 DEF TypeOK, Reuse
      <4> QED
        BY <4>1
    <3> QED
      BY <2>2, <2>3, <3>1 DEF Reuse
  <2>4. ASSUME NEW u \in Threads, NEW q \in Pools, Create(u, q) PROVE FALSE
    BY <2>2, <2>4 DEF Create
  <2>5. ASSUME NEW u \in Threads, NEW q \in Pools, NEW d \in Clients, GiveBack(u, q, d)
        PROVE  Cardinality(HeldFrom(p)) + thrown[p] > MaxTotal \/ p \in wrapped \/ p \in dead'
    <3>1. u = t /\ q = p /\ d = c
      <4>1. held[u][q] \ {d} \in SUBSET Clients /\ held' = [held EXCEPT ![u][q] = held[u][q] \ {d}]
        BY <1>2, <2>5, HeldTypes DEF GiveBack
      <4> QED
        BY <1>2, <4>1, HeldChange
    <3>2. CASE m_cnt_total[p] > MaxTotal
      BY <1>2, <3>2, Numbers DEF CountInv
    <3>3. CASE m_cnt_total[p] <= MaxTotal /\ p \notin owned /\ HeldFrom(p) = {c}
      BY <2>5, <3>1, <3>3 DEF GiveBack, Destroyed
    <3>4. CASE m_cnt_total[p] <= MaxTotal /\ ~(p \notin owned /\ HeldFrom(p) = {c})
      <4>1. maker'[c] = maker[c]
        BY <2>5, <3>1, <3>4 DEF GiveBack, Destroyed
      <4>2. maker[c] = t /\ t # NoThread
        BY <1>2, ConnectPoolAssumption DEF HolderInv, ThreadInv
      <4> QED
        BY <1>2, <4>1, <4>2
    <3> QED
      BY <1>2, <3>2, <3>3, <3>4, Numbers
  <2> QED
    BY <1>2, <2>1, <2>3, <2>4, <2>5, Steps DEF vars, CreateThrows, Release, Exit
<1>3. TypeOK /\ HolderInv /\ CountInv /\ [Next]_vars =>
        [\A p \in Pools, t \in Threads, c \in Clients :
           c \in held[t][p] /\ c \notin held'[t][p] /\ maker'[c] = NoThread =>
             \/ Cardinality(HeldFrom(p)) + thrown[p] > MaxTotal
             \/ p \in wrapped
             \/ p \in dead']_vars
  BY <1>2
<1> QED
  BY <1>1, <1>3, CountStep, Invariance, PTL DEF Spec, DroppedOverLimit
=============================================================================
