------------------------------ MODULE BaseProofs ------------------------------
(***************************************************************************)
(* Proofs about what the rest of the library stands on.  First Notify, for *)
(* any loops, threads, callbacks and registration order.  Then Helpers:    *)
(* Registry, for any threads, keys and depth of nesting; Md5, for any      *)
(* messages and pieces; and the conversions of Base64, WsMsg and Address,  *)
(* for whatever they convert.                                              *)
(***************************************************************************)
EXTENDS Notify, Helpers, SequenceTheorems, WellFoundedInduction, TLAPS

-----------------------------------------------------------------------------
(* Sequences *)

\* A queue split in two parts: taking the head of the first part takes the
\* head of the whole.
LEMMA HeadTailConcat ==
  ASSUME NEW S, NEW s \in Seq(S), NEW t \in Seq(S), s # <<>>
  PROVE  /\ s \o t # <<>>
         /\ Head(s \o t) = Head(s)
         /\ Tail(s \o t) = Tail(s) \o t
<1>1. /\ Len(s) \in Nat \ {0} /\ Len(t) \in Nat
      /\ Tail(s) \in Seq(S) /\ Len(Tail(s)) = Len(s) - 1
      /\ \A i \in 1 .. Len(Tail(s)) : Tail(s)[i] = s[i + 1]
  BY HeadTailProperties, EmptySeq, LenProperties
<1>2. /\ s \o t \in Seq(S)
      /\ Len(s \o t) = Len(s) + Len(t)
      /\ \A i \in 1 .. Len(s) + Len(t) :
           (s \o t)[i] = IF i <= Len(s) THEN s[i] ELSE t[i - Len(s)]
  BY ConcatProperties
<1>3. s \o t # <<>>
  BY <1>1, <1>2
<1>4. Head(s \o t) = Head(s)
  BY <1>1, <1>2
<1>5. Tail(s \o t) = Tail(s) \o t
  <2>1. /\ Tail(s \o t) \in Seq(S)
        /\ Len(Tail(s \o t)) = Len(s) + Len(t) - 1
        /\ \A i \in 1 .. Len(Tail(s \o t)) : Tail(s \o t)[i] = (s \o t)[i + 1]
    BY <1>2, <1>3, HeadTailProperties
  <2>2. /\ Tail(s) \o t \in Seq(S)
        /\ Len(Tail(s) \o t) = Len(s) - 1 + Len(t)
        /\ \A i \in 1 .. Len(s) - 1 + Len(t) :
             (Tail(s) \o t)[i] = IF i <= Len(s) - 1 THEN Tail(s)[i]
                                 ELSE t[i - (Len(s) - 1)]
    BY <1>1, ConcatProperties
  <2>3. ASSUME NEW i \in 1 .. Len(Tail(s \o t))
        PROVE  Tail(s \o t)[i] = (Tail(s) \o t)[i]
    <3>1. i \in 1 .. Len(s) - 1 + Len(t) /\ i + 1 \in 1 .. Len(s) + Len(t)
      BY <1>1, <2>1
    <3>2. Tail(s \o t)[i] = IF i + 1 <= Len(s) THEN s[i + 1]
                            ELSE t[i + 1 - Len(s)]
      BY <1>2, <2>1, <3>1
    <3>3. CASE i + 1 <= Len(s)
      BY <1>1, <2>2, <3>1, <3>2, <3>3
    <3>4. CASE i + 1 > Len(s)
      BY <1>1, <2>2, <3>1, <3>2, <3>4
    <3> QED
      BY <1>1, <3>1, <3>3, <3>4
  <2> QED
    BY <1>1, <2>1, <2>2, <2>3, SeqEqual
<1> QED
  BY <1>3, <1>4, <1>5

\* Appending to the second part appends to the whole.
LEMMA AppendConcat ==
  ASSUME NEW S, NEW s \in Seq(S), NEW t \in Seq(S), NEW e \in S
  PROVE  s \o Append(t, e) = Append(s \o t, e)
<1>1. <<e>> \in Seq(S) /\ s \o t \in Seq(S)
  OBVIOUS
<1>2. Append(t, e) = t \o <<e>> /\ Append(s \o t, e) = (s \o t) \o <<e>>
  BY <1>1, AppendIsConcat
<1> QED
  BY <1>1, <1>2, ConcatAssociative

\* Dropping the first part leaves the second.
LEMMA DropFirstPart ==
  ASSUME NEW S, NEW s \in Seq(S), NEW t \in Seq(S), s # <<>>
  PROVE  /\ Len(s) \in 1 .. Len(s \o t)
         /\ SubSeq(s \o t, Len(s) + 1, Len(s \o t)) = t
<1>1. /\ s \o t \in Seq(S)
      /\ Len(s) \in Nat \ {0} /\ Len(t) \in Nat
      /\ Len(s \o t) = Len(s) + Len(t)
  BY ConcatProperties, EmptySeq, LenProperties
<1>2. CASE t = <<>>
  BY <1>1, <1>2, SubSeqEmpty
<1>3. CASE t # <<>>
  <2>1. Len(t) \in Nat \ {0}
    BY <1>3, EmptySeq
  <2>2. SubSeq(s \o t, Len(s) + 1, Len(s) + Len(t))
          = SubSeq(t, Len(s) + 1 - Len(s), Len(s) + Len(t) - Len(s))
    BY <1>1, <2>1, SubSeqOfConcat2
  <2>3. Len(s) + 1 - Len(s) = 1 /\ Len(s) + Len(t) - Len(s) = Len(t)
    BY <1>1
  <2> QED
    BY <1>1, <2>2, <2>3, SubSeqFull
<1> QED
  BY <1>1, <1>2, <1>3

\* The head of q moves to the end of r, and the first n of q are gone.
MovedHead(r, q, n) == Append(r, Head(q)) \o SubSeq(q, n + 1, Len(q))

\* s is w without the n elements that follow the first m.
Thinned(s, w) ==
  /\ DOMAIN s \subseteq Nat
  /\ \E m, n \in Nat :
       \A i \in DOMAIN s : LET j == IF i <= m THEN i ELSE i + n
                           IN  j \in DOMAIN w /\ s[i] = w[j]

LEMMA ThinnedSelf ==
  ASSUME NEW S, NEW s \in Seq(S)
  PROVE  Thinned(s, s)
<1>1. DOMAIN s \subseteq Nat
  BY LenProperties
<1>2. \A i \in DOMAIN s : (IF i <= 0 THEN i ELSE i + 0) = i
  BY <1>1
<1> QED
  BY <1>1, <1>2 DEF Thinned

\* Every element of a thinned sequence comes from the other.
LEMMA ThinnedFrom ==
  ASSUME NEW s, NEW w, Thinned(s, w), NEW i \in DOMAIN s
  PROVE  \E j \in DOMAIN w : s[i] = w[j]
  BY DEF Thinned

\* Thinning a sequence without repetitions makes none.
LEMMA ThinnedDistinct ==
  ASSUME NEW s, NEW w, Thinned(s, w),
         \A i, j \in DOMAIN w : w[i] = w[j] => i = j
  PROVE  \A i, j \in DOMAIN s : s[i] = s[j] => i = j
<1> SUFFICES ASSUME NEW i \in DOMAIN s, NEW j \in DOMAIN s, s[i] = s[j]
             PROVE  i = j
  OBVIOUS
<1>1. PICK m \in Nat, n \in Nat :
        \A h \in DOMAIN s : LET k == IF h <= m THEN h ELSE h + n
                            IN  k \in DOMAIN w /\ s[h] = w[k]
  BY DEF Thinned
<1>2. (IF i <= m THEN i ELSE i + n) = (IF j <= m THEN j ELSE j + n)
  BY <1>1
<1>3. i \in Nat /\ j \in Nat
  BY DEF Thinned
<1> QED
  BY <1>2, <1>3

\* Moving the head removes the n - 1 elements behind it and keeps the rest.
LEMMA MoveHeadDrop ==
  ASSUME NEW S, NEW r \in Seq(S), NEW q \in Seq(S), q # <<>>, NEW n \in 1 .. Len(q)
  PROVE  /\ MovedHead(r, q, n) \in Seq(S)
         /\ Len(MovedHead(r, q, n)) = Len(r) + 1 + (Len(q) - n)
         /\ \A i \in 1 .. Len(MovedHead(r, q, n)) :
              MovedHead(r, q, n)[i] =
                (r \o q)[IF i <= Len(r) + 1 THEN i ELSE i + n - 1]
         /\ Thinned(MovedHead(r, q, n), r \o q)
<1> DEFINE h == Append(r, Head(q))
           u == SubSeq(q, n + 1, Len(q))
<1>1. Len(r) \in Nat /\ Len(q) \in Nat \ {0} /\ n \in Nat /\ n <= Len(q)
  BY LenProperties, EmptySeq
<1>2. Head(q) \in S /\ Head(q) = q[1]
  BY <1>1, HeadTailProperties
<1>3. /\ h \in Seq(S) /\ Len(h) = Len(r) + 1
      /\ \A i \in 1 .. Len(r) : h[i] = r[i]
      /\ h[Len(r) + 1] = q[1]
  BY <1>2, AppendProperties
<1>4. /\ u \in Seq(S) /\ Len(u) = Len(q) - n
      /\ \A i \in 1 .. Len(q) - n : u[i] = q[n + i]
  <2>1. \A i \in n + 1 .. Len(q) : q[i] \in S
    BY <1>1, ElementOfSeq
  <2>2. /\ u \in Seq(S)
        /\ Len(u) = IF n + 1 <= Len(q) THEN Len(q) - (n + 1) + 1 ELSE 0
        /\ \A i \in 1 .. Len(q) - (n + 1) + 1 : u[i] = q[n + 1 + i - 1]
    BY <1>1, <2>1, SubSeqProperties
  <2>3. \A i \in 1 .. Len(q) - n : n + 1 + i - 1 = n + i
    BY <1>1
  <2> QED
    BY <1>1, <2>2, <2>3
<1>5. /\ \A i \in 1 .. Len(r) : (r \o q)[i] = r[i]
      /\ \A i \in Len(r) + 1 .. Len(r) + Len(q) : (r \o q)[i] = q[i - Len(r)]
  BY <1>1, ConcatProperties
<1> HIDE DEF h, u
<1>6. /\ h \o u \in Seq(S)
      /\ Len(h \o u) = Len(h) + Len(u)
      /\ \A i \in 1 .. Len(h) + Len(u) :
           (h \o u)[i] = IF i <= Len(h) THEN h[i] ELSE u[i - Len(h)]
  BY <1>3, <1>4, ConcatProperties
<1>7. ASSUME NEW i \in 1 .. Len(h \o u)
      PROVE  (h \o u)[i] = (r \o q)[IF i <= Len(r) + 1 THEN i ELSE i + n - 1]
  <2>1. i \in 1 .. Len(r) + 1 + (Len(q) - n)
    BY <1>3, <1>4, <1>6
  <2>2. CASE i <= Len(r)
    BY <1>1, <1>3, <1>4, <1>5, <1>6, <2>1, <2>2
  <2>3. CASE i = Len(r) + 1
    <3>1. (h \o u)[i] = q[1]
      BY <1>1, <1>3, <1>4, <1>6, <2>1, <2>3
    <3>2. (r \o q)[i] = q[i - Len(r)] /\ i - Len(r) = 1
      BY <1>1, <1>5, <2>3
    <3> QED
      BY <2>3, <3>1, <3>2
  <2>4. CASE i > Len(r) + 1
    <3>1. /\ i - (Len(r) + 1) \in 1 .. Len(q) - n
          /\ i + n - 1 \in Len(r) + 1 .. Len(r) + Len(q)
          /\ n + (i - (Len(r) + 1)) = i + n - 1 - Len(r)
      BY <1>1, <2>1, <2>4
    <3>2. (h \o u)[i] = u[i - (Len(r) + 1)]
      BY <1>1, <1>3, <1>4, <1>6, <2>1, <2>4
    <3>3. u[i - (Len(r) + 1)] = q[n + (i - (Len(r) + 1))]
      BY <1>4, <3>1
    <3>4. (r \o q)[i + n - 1] = q[i + n - 1 - Len(r)]
      BY <1>5, <3>1
    <3> QED
      BY <1>1, <2>1, <2>4, <3>1, <3>2, <3>3, <3>4
  <2>5. i <= Len(r) \/ i = Len(r) + 1 \/ i > Len(r) + 1
    BY <1>1, <2>1
  <2> QED
    BY <2>2, <2>3, <2>4, <2>5, Zenon
<1>8. Len(h \o u) = Len(r) + 1 + (Len(q) - n)
  BY <1>3, <1>4, <1>6
<1>9. Thinned(h \o u, r \o q)
  <2> DEFINE s == h \o u
             w == r \o q
  <2>1. DOMAIN s = 1 .. Len(s) /\ DOMAIN w = 1 .. Len(r) + Len(q)
    BY <1>6, ConcatProperties, LenProperties
  <2>2. Len(r) + 1 \in Nat /\ n - 1 \in Nat
    BY <1>1
  <2>3. ASSUME NEW i \in DOMAIN s
        PROVE  LET j == IF i <= Len(r) + 1 THEN i ELSE i + (n - 1)
               IN  j \in DOMAIN w /\ s[i] = w[j]
    <3>1. i \in 1 .. Len(r) + 1 + (Len(q) - n) /\ i + n - 1 = i + (n - 1)
      BY <1>1, <1>8, <2>1
    <3>2. (IF i <= Len(r) + 1 THEN i ELSE i + (n - 1)) \in 1 .. Len(r) + Len(q)
      BY <1>1, <3>1
    <3> QED
      BY <1>7, <2>1, <3>1, <3>2
  <2>4. DOMAIN s \subseteq Nat
    BY <2>1
  <2> HIDE DEF s, w
  <2>5. Thinned(s, w)
    BY <2>2, <2>3, <2>4 DEF Thinned
  <2> QED
    BY <2>5 DEF s, w
<1> QED
  BY <1>6, <1>7, <1>8, <1>9 DEF h, u, MovedHead

\* With nothing dropped the whole is the same.
LEMMA MoveHead ==
  ASSUME NEW S, NEW r \in Seq(S), NEW q \in Seq(S), q # <<>>
  PROVE  Append(r, Head(q)) \o Tail(q) = r \o q
<1> DEFINE s == MovedHead(r, q, 1)
<1>1. Len(q) \in Nat \ {0} /\ Len(r) \in Nat /\ 1 \in 1 .. Len(q) /\ 1 + 1 = 2
  BY LenProperties, EmptySeq
<1>2. /\ s \in Seq(S)
      /\ Len(s) = Len(r) + 1 + (Len(q) - 1)
      /\ \A i \in 1 .. Len(s) :
           s[i] = (r \o q)[IF i <= Len(r) + 1 THEN i ELSE i + 1 - 1]
  BY <1>1, MoveHeadDrop
<1>3. r \o q \in Seq(S) /\ Len(r \o q) = Len(r) + Len(q)
  BY ConcatProperties
<1>4. Tail(q) = SubSeq(q, 2, Len(q))
  BY TailIsSubSeq
<1> HIDE DEF s
<1>5. Len(s) = Len(r \o q)
  BY <1>1, <1>2, <1>3
<1>6. \A i \in 1 .. Len(s) : s[i] = (r \o q)[i]
  BY <1>1, <1>2
<1>7. s = r \o q
  BY <1>2, <1>3, <1>5, <1>6, SeqEqual
<1> QED
  BY <1>1, <1>4, <1>7 DEF s, MovedHead

-----------------------------------------------------------------------------
(* Type correctness *)

\* What a thread that may notify the loops of S calls is a list of calls on
\* known loops (notify, notify_all).
LEMMA CallsToType ==
  ASSUME NEW S \in SUBSET Loops, NEW c \in CallsTo(S)
  PROVE  c \in Seq(Call)
<1>1. CASE c = <<>>
  BY <1>1
<1>2. ASSUME NEW l \in S, NEW t \in Tasks, c = Notify1(l, t)
      PROVE  c \in Seq(Call)
  <2>1. [to |-> l, task |-> t] \in Call
    BY DEF Call
  <2> QED
    BY <1>2, <2>1 DEF Notify1
<1>3. ASSUME NEW t \in Tasks, c = NotifyAll(t)
      PROVE  c \in Seq(Call)
  <2>1. Len(Thdset) \in Nat /\ \A i \in 1 .. Len(Thdset) : Thdset[i] \in Loops
    BY NotifyAssumption
  <2>2. \A i \in 1 .. Len(Thdset) : [to |-> Thdset[i], task |-> t] \in Call
    BY <2>1 DEF Call
  <2> QED
    BY <1>3, <2>1, <2>2 DEF NotifyAll
<1> QED
  BY <1>1, <1>2, <1>3 DEF CallsTo

\* Issuing calls keeps the types of the two variables it changes.
LEMMA IssueType ==
  ASSUME TypeOK, NEW a \in Actors, NEW S \in SUBSET Loops,
         \E c \in CallsTo(S) : Issue(a, c)
  PROVE  calls' \in [Actors -> Seq(Call)] /\ used' \subseteq Tasks
<1>1. PICK c \in CallsTo(S) : Issue(a, c)
  OBVIOUS
<1>2. c \in Seq(Call)
  BY <1>1, CallsToType
<1>3. \A i \in DOMAIN c : c[i].task \in Tasks
  <2> SUFFICES ASSUME NEW i \in DOMAIN c
               PROVE  c[i].task \in Tasks
    OBVIOUS
  <2>1. c[i] \in Call
    BY <1>2
  <2> QED
    BY <2>1 DEF Call
<1> QED
  BY <1>1, <1>2, <1>3 DEF Issue, TypeOK

LEMMA TypeInit == Init => TypeOK
  BY DEF Init, TypeOK, PcValues

LEMMA TypeStep == TypeOK /\ [Next]_vars => TypeOK'
<1> SUFFICES ASSUME TypeOK, [Next]_vars
             PROVE  TypeOK'
  OBVIOUS
<1> USE DEF PcValues
<1>1. ASSUME NEW a \in Apps, AppNotify(a)
      PROVE  TypeOK'
  <2>1. a \in Actors
    BY DEF Actors
  <2>2. calls' \in [Actors -> Seq(Call)] /\ used' \subseteq Tasks
    BY <1>1, <2>1, IssueType DEF AppNotify
  <2> QED
    BY <1>1, <2>2 DEF AppNotify, TypeOK
<1>2. ASSUME NEW a \in Actors, Push(a)
      PROVE  TypeOK'
  <2>1. Head(calls[a]) \in Call /\ Tail(calls[a]) \in Seq(Call)
    BY <1>2 DEF Push, TypeOK
  <2>2. Head(calls[a]).to \in Loops /\ Head(calls[a]).task \in Tasks
    BY <2>1 DEF Call
  <2> QED
    BY <1>2, <2>1, <2>2 DEF Push, TypeOK
<1>3. ASSUME NEW a \in Actors, Write(a)
      PROVE  TypeOK'
  BY <1>3 DEF Write, TypeOK
<1>4. ASSUME NEW l \in Loops, EpollWait(l)
      PROVE  TypeOK'
  BY <1>4 DEF EpollWait, TypeOK
<1>5. ASSUME NEW l \in Loops, DispatchEvent(l)
      PROVE  TypeOK'
  BY <1>5 DEF DispatchEvent, TypeOK
<1>6. ASSUME NEW l \in Loops, DispatchAccept(l)
      PROVE  TypeOK'
  <2>1. l \in Actors /\ AcceptCalls[l] \in SUBSET Loops
    BY NotifyAssumption DEF Actors
  <2>2. calls' \in [Actors -> Seq(Call)] /\ used' \subseteq Tasks
    BY <1>6, <2>1, IssueType DEF DispatchAccept
  <2> QED
    BY <1>6, <2>2 DEF DispatchAccept, TypeOK
<1>7. ASSUME NEW l \in Loops, AcceptDone(l)
      PROVE  TypeOK'
  BY <1>7 DEF AcceptDone, TypeOK
<1>8. ASSUME NEW l \in Loops, BatchDone(l)
      PROVE  TypeOK'
  BY <1>8 DEF BatchDone, TypeOK
<1>9. ASSUME NEW l \in Loops, Swap(l)
      PROVE  TypeOK'
  BY <1>9 DEF Swap, TypeOK
<1>10. ASSUME NEW l \in Loops, ReadEvent(l)
       PROVE  TypeOK'
  BY <1>10 DEF ReadEvent, TypeOK
<1>11. ASSUME NEW l \in Loops, RunTask(l)
       PROVE  TypeOK'
  <2>1. l \in Actors
    BY DEF Actors
  <2>2. calls' \in [Actors -> Seq(Call)] /\ used' \subseteq Tasks
    BY <1>11, <2>1, IssueType DEF RunTask
  <2>3. Head(taken[l]) \in Tasks /\ Tail(taken[l]) \in Seq(Tasks)
    BY <1>11 DEF RunTask, TypeOK
  <2> QED
    BY <1>11, <2>2, <2>3 DEF RunTask, TypeOK
<1>12. ASSUME NEW l \in Loops, RunThrows(l)
       PROVE  TypeOK'
  <2>1. l \in Actors
    BY DEF Actors
  <2>2. calls' \in [Actors -> Seq(Call)] /\ used' \subseteq Tasks
    BY <1>12, <2>1, IssueType DEF RunThrows
  <2>3. Head(taken[l]) \in Tasks
    BY <1>12 DEF RunThrows, TypeOK
  <2> QED
    BY <1>12, <2>2, <2>3 DEF RunThrows, TypeOK
<1>13. ASSUME NEW l \in Loops, RunDone(l)
       PROVE  TypeOK'
  BY <1>13 DEF RunDone, TypeOK
<1>14. CASE UNCHANGED vars
  BY <1>14 DEF vars, TypeOK
<1> QED
  BY <1>1, <1>2, <1>3, <1>4, <1>5, <1>6, <1>7, <1>8, <1>9, <1>10, <1>11,
     <1>12, <1>13, <1>14 DEF Next, LoopStep

\* The variables keep their types: in particular every list holds callbacks
\* and every wake-up goes to a loop (asyncnet::notify, __onevent, __wait).
THEOREM TypeCorrect == Spec => []TypeOK
  BY TypeInit, TypeStep, PTL DEF Spec

-----------------------------------------------------------------------------
(* notify implements a FIFO task queue per loop *)

\* __onevent's local list is empty whenever the loop is elsewhere: the swap
\* starts from an empty list.
TakenEmpty ==
  \A l \in Loops : taken[l] # <<>> => pc[l] \in {"read", "run"}

LEMMA TakenInit == Init => TakenEmpty
  BY DEF Init, TakenEmpty

LEMMA TakenStep == TypeOK /\ TakenEmpty /\ [Next]_vars => TakenEmpty'
<1> SUFFICES ASSUME TypeOK, TakenEmpty, [Next]_vars
             PROVE  TakenEmpty'
  OBVIOUS
<1> USE DEF TypeOK, TakenEmpty
<1>1. ASSUME NEW a \in Apps, AppNotify(a)
      PROVE  TakenEmpty'
  BY <1>1 DEF AppNotify
<1>2. ASSUME NEW a \in Actors, Push(a) \/ Write(a)
      PROVE  TakenEmpty'
  BY <1>2 DEF Push, Write
<1>3. ASSUME NEW l \in Loops,
             EpollWait(l) \/ DispatchEvent(l) \/ DispatchAccept(l)
               \/ AcceptDone(l) \/ BatchDone(l)
      PROVE  TakenEmpty'
  BY <1>3 DEF EpollWait, DispatchEvent, DispatchAccept, AcceptDone, BatchDone
<1>4. ASSUME NEW l \in Loops, Swap(l) \/ ReadEvent(l)
      PROVE  TakenEmpty'
  BY <1>4 DEF Swap, ReadEvent
<1>5. ASSUME NEW l \in Loops, RunTask(l) \/ RunThrows(l) \/ RunDone(l)
      PROVE  TakenEmpty'
  BY <1>5 DEF RunTask, RunThrows, RunDone
<1>6. CASE UNCHANGED vars
  BY <1>6 DEF vars
<1> QED
  BY <1>1, <1>2, <1>3, <1>4, <1>5, <1>6 DEF Next, LoopStep

\* The invariant the refinement rests on.
RefInv == TypeOK /\ TakenEmpty

LEMMA RefInvariant == Spec => []RefInv
<1>1. Init => RefInv
  BY TypeInit, TakenInit DEF RefInv
<1>2. RefInv /\ [Next]_vars => RefInv'
  BY TypeStep, TakenStep DEF RefInv
<1> QED
  BY <1>1, <1>2, PTL DEF Spec

\* The push of notify submits a task.
LEMMA PushSubmits ==
  ASSUME RefInv, NEW a \in Actors, Push(a),
         NEW l \in Loops, NEW t \in Tasks, Head(calls[a]) = [to |-> l, task |-> t]
  PROVE  Queue!Submit(l, t)
<1> Head(calls[a]).to = l /\ Head(calls[a]).task = t
  OBVIOUS
<1>1. /\ m_trigger' = [m_trigger EXCEPT ![l] = Append(@, t)]
      /\ taken' = taken /\ ran' = ran
  BY DEF Push
<1>2. ASSUME NEW k \in Loops
      PROVE  Queued(k)' = IF k = l THEN Append(Queued(k), t) ELSE Queued(k)
  <2>1. taken \in [Loops -> Seq(Tasks)] /\ m_trigger \in [Loops -> Seq(Tasks)]
    BY DEF RefInv, TypeOK
  <2>2. m_trigger'[k] = IF k = l THEN Append(m_trigger[k], t) ELSE m_trigger[k]
    BY <1>1, <2>1
  <2>3. taken[k] \o Append(m_trigger[k], t) = Append(taken[k] \o m_trigger[k], t)
    BY <2>1, AppendConcat
  <2> QED
    BY <1>1, <2>1, <2>2, <2>3 DEF Queued
<1>3. [k \in Loops |-> Queued(k)']
        = [[k \in Loops |-> Queued(k)] EXCEPT ![l] = Append(@, t)]
  BY <1>2
<1> QED
  BY <1>1, <1>3 DEF Queue!Submit

\* Every call in progress names a loop and a task.
LEMMA NextCall ==
  ASSUME TypeOK, NEW a \in Actors, Push(a)
  PROVE  \E l \in Loops, t \in Tasks : Head(calls[a]) = [to |-> l, task |-> t]
<1>1. Head(calls[a]) \in Call
  BY DEF Push, TypeOK
<1> QED
  BY <1>1 DEF Call

\* Running a callback runs the head of the queue.
LEMMA RunTaskRuns ==
  ASSUME RefInv, NEW l \in Loops, RunTask(l)
  PROVE  Queue!Run(l)
<1>1. taken[l] \in Seq(Tasks) /\ m_trigger[l] \in Seq(Tasks) /\ taken[l] # <<>>
  BY DEF RefInv, TypeOK, RunTask
<1>2. /\ Queued(l) # <<>>
      /\ Head(Queued(l)) = Head(taken[l])
      /\ Tail(Queued(l)) = Tail(taken[l]) \o m_trigger[l]
  BY <1>1, HeadTailConcat DEF Queued
<1>3. ASSUME NEW k \in Loops
      PROVE  Queued(k)' = IF k = l THEN Tail(Queued(k)) ELSE Queued(k)
  BY <1>2 DEF RunTask, RefInv, TypeOK, Queued
<1>4. [k \in Loops |-> Queued(k)']
        = [[k \in Loops |-> Queued(k)] EXCEPT ![l] = Tail(@)]
  BY <1>3
<1>5. ran' = [ran EXCEPT ![l] = Append(@, Head(Queued(l)))]
  BY <1>2 DEF RunTask
<1>6. Head(Queued(l)) \notin Throwing
  BY <1>2 DEF RunTask
<1> QED
  BY <1>2, <1>4, <1>5, <1>6 DEF Queue!Run

\* A callback that throws abandons the rest of the local list, and no more.
LEMMA RunThrowsAbandons ==
  ASSUME RefInv, NEW l \in Loops, RunThrows(l)
  PROVE  Queue!Abandon(l)
<1>1. taken[l] \in Seq(Tasks) /\ m_trigger[l] \in Seq(Tasks) /\ taken[l] # <<>>
  BY DEF RefInv, TypeOK, RunThrows
<1>2. /\ Queued(l) # <<>>
      /\ Head(Queued(l)) = Head(taken[l])
  BY <1>1, HeadTailConcat DEF Queued
<1>3. /\ Len(taken[l]) \in 1 .. Len(Queued(l))
      /\ SubSeq(Queued(l), Len(taken[l]) + 1, Len(Queued(l))) = m_trigger[l]
  BY <1>1, DropFirstPart DEF Queued
<1>4. ASSUME NEW k \in Loops
      PROVE  Queued(k)' = IF k = l THEN m_trigger[l] ELSE Queued(k)
  <2>1. CASE k = l
    <3>1. taken'[k] = <<>> /\ m_trigger'[k] = m_trigger[l]
      BY <2>1 DEF RunThrows, RefInv, TypeOK
    <3> QED
      BY <1>1, <2>1, <3>1, ConcatEmptySeq DEF Queued
  <2>2. CASE k # l
    BY <2>2 DEF RunThrows, RefInv, TypeOK, Queued
  <2> QED
    BY <2>1, <2>2
<1>5. [k \in Loops |-> Queued(k)']
        = [[k \in Loops |-> Queued(k)] EXCEPT ![l] = m_trigger[l]]
  BY <1>4
<1>6. ran' = [ran EXCEPT ![l] = Append(@, Head(Queued(l)))]
  BY <1>2 DEF RunThrows
<1>7. Head(Queued(l)) \in Throwing
  BY <1>2 DEF RunThrows
<1>8. \E n \in 1 .. Len(Queued(l)) :
        [k \in Loops |-> Queued(k)']
          = [[k \in Loops |-> Queued(k)] EXCEPT
               ![l] = SubSeq(@, n + 1, Len(@))]
  BY <1>3, <1>5
<1> QED
  BY <1>2, <1>6, <1>7, <1>8 DEF Queue!Abandon

\* The swap of __onevent moves tasks within the queue.
LEMMA SwapStutters ==
  ASSUME RefInv, NEW l \in Loops, Swap(l)
  PROVE  UNCHANGED Queue!vars
<1>1. ASSUME NEW k \in Loops
      PROVE  Queued(k)' = Queued(k)
  <2>1. taken[k] \in Seq(Tasks) /\ m_trigger[k] \in Seq(Tasks)
    BY DEF RefInv, TypeOK
  <2>2. CASE k = l
    <3>1. taken[k] = <<>> /\ taken'[k] = m_trigger[k] /\ m_trigger'[k] = <<>>
      BY <2>2 DEF Swap, RefInv, TypeOK, TakenEmpty
    <3> QED
      BY <2>1, <3>1, ConcatEmptySeq DEF Queued
  <2>3. CASE k # l
    BY <2>3 DEF Swap, RefInv, TypeOK, Queued
  <2> QED
    BY <2>2, <2>3
<1>2. [k \in Loops |-> Queued(k)'] = [k \in Loops |-> Queued(k)]
  BY <1>1
<1>3. ran' = ran
  BY DEF Swap
<1> QED
  BY <1>2, <1>3 DEF Queue!vars

\* Every other step leaves the lists alone.
LEMMA OthersStutter ==
  ASSUME UNCHANGED <<m_trigger, taken, ran>>
  PROVE  UNCHANGED Queue!vars
  BY DEF Queue!vars, Queued

LEMMA RefStep == RefInv /\ [Next]_vars => [Queue!Next]_(Queue!vars)
<1> SUFFICES ASSUME RefInv, [Next]_vars
             PROVE  [Queue!Next]_(Queue!vars)
  OBVIOUS
<1>1. ASSUME NEW a \in Actors, Push(a)
      PROVE  Queue!Next
  BY <1>1, PushSubmits, NextCall DEF RefInv, Queue!Next
<1>2. ASSUME NEW l \in Loops, RunTask(l)
      PROVE  Queue!Next
  BY <1>2, RunTaskRuns DEF Queue!Next
<1>3. ASSUME NEW l \in Loops, RunThrows(l)
      PROVE  Queue!Next
  BY <1>3, RunThrowsAbandons DEF Queue!Next
<1>4. ASSUME NEW l \in Loops, Swap(l)
      PROVE  UNCHANGED Queue!vars
  BY <1>4, SwapStutters
<1>5. ASSUME NEW a \in Actors, Write(a) \/ (a \in Apps /\ AppNotify(a))
      PROVE  UNCHANGED Queue!vars
  BY <1>5, OthersStutter DEF Write, AppNotify
<1>6. ASSUME NEW l \in Loops,
             EpollWait(l) \/ DispatchEvent(l) \/ DispatchAccept(l)
               \/ AcceptDone(l) \/ BatchDone(l) \/ ReadEvent(l) \/ RunDone(l)
      PROVE  UNCHANGED Queue!vars
  BY <1>6, OthersStutter DEF EpollWait, DispatchEvent, DispatchAccept,
     AcceptDone, BatchDone, ReadEvent, RunDone
<1>7. CASE UNCHANGED vars
  BY <1>7, OthersStutter DEF vars
<1> QED
  BY <1>1, <1>2, <1>3, <1>4, <1>5, <1>6, <1>7 DEF Next, LoopStep, Actors

\* notify, notify_all and __onevent implement the task queue of TaskQueue:
\* first in, first out per loop, each task taken once, and nothing dropped
\* but what stands behind a throwing callback.
THEOREM RefinesTaskQueue == Spec => ImplementsTaskQueue
<1>1. Init => Queue!Init
  <2> SUFFICES ASSUME Init
               PROVE  Queue!Init
    OBVIOUS
  <2>1. \A l \in Loops : Queued(l) = <<>>
    BY ConcatEmptySeq, EmptySeq DEF Init, Queued
  <2> QED
    BY <2>1 DEF Init, Queue!Init
<1> QED
  BY <1>1, RefInvariant, RefStep, PTL DEF Spec, Queue!Spec, ImplementsTaskQueue
-----------------------------------------------------------------------------
(* Wake-ups are lost in one place only *)

\* epoll_wait is only called when the last batch has been dealt with.
BatchDispatched ==
  \A l \in Loops : pc[l] = "epoll_wait" => batch[l] = {}

LEMMA BatchInvariant == Spec => [](TypeOK /\ BatchDispatched)
<1>1. Init => BatchDispatched
  BY DEF Init, BatchDispatched
<1>2. TypeOK /\ BatchDispatched /\ [Next]_vars => BatchDispatched'
  <2> SUFFICES ASSUME TypeOK, BatchDispatched, [Next]_vars
               PROVE  BatchDispatched'
    OBVIOUS
  <2> USE DEF TypeOK, BatchDispatched
  <2>1. ASSUME NEW a \in Actors,
               Push(a) \/ Write(a) \/ (a \in Apps /\ AppNotify(a))
        PROVE  BatchDispatched'
    BY <2>1 DEF Push, Write, AppNotify
  <2>2. ASSUME NEW l \in Loops, EpollWait(l)
        PROVE  BatchDispatched'
    BY <2>2 DEF EpollWait
  <2>3. ASSUME NEW l \in Loops,
               DispatchEvent(l) \/ DispatchAccept(l) \/ AcceptDone(l) \/ BatchDone(l)
        PROVE  BatchDispatched'
    BY <2>3 DEF DispatchEvent, DispatchAccept, AcceptDone, BatchDone
  <2>4. ASSUME NEW l \in Loops,
               Swap(l) \/ ReadEvent(l) \/ RunTask(l) \/ RunThrows(l) \/ RunDone(l)
        PROVE  BatchDispatched'
    BY <2>4 DEF Swap, ReadEvent, RunTask, RunThrows, RunDone
  <2>5. CASE UNCHANGED vars
    BY <2>5 DEF vars
  <2> QED
    BY <2>1, <2>2, <2>3, <2>4, <2>5 DEF Next, LoopStep, Actors
<1> QED
  BY <1>1, <1>2, TypeInit, TypeStep, PTL DEF Spec

LEMMA UncoverStep ==
  ASSUME TypeOK, BatchDispatched, [Next]_vars, NEW l \in Loops,
         m_trigger'[l] # <<>>, Covered(l), ~Covered(l)'
  PROVE  ReadEvent(l)
<1> USE NotifyAssumption DEF TypeOK, BatchDispatched, Covered
<1>1. ASSUME NEW a \in Actors,
             Push(a) \/ (a \in Apps /\ AppNotify(a))
      PROVE  FALSE
  BY <1>1 DEF Push, AppNotify
<1>2. ASSUME NEW a \in Actors, Write(a)
      PROVE  FALSE
  BY <1>2 DEF Write
<1>3. ASSUME NEW k \in Loops, EpollWait(k)
      PROVE  FALSE
  BY <1>3 DEF EpollWait
<1>4. ASSUME NEW k \in Loops,
             DispatchEvent(k) \/ DispatchAccept(k) \/ AcceptDone(k) \/ BatchDone(k)
      PROVE  FALSE
  BY <1>4 DEF DispatchEvent, DispatchAccept, AcceptDone, BatchDone
<1>5. ASSUME NEW k \in Loops, Swap(k)
      PROVE  FALSE
  BY <1>5 DEF Swap
<1>6. ASSUME NEW k \in Loops, ReadEvent(k)
      PROVE  k = l
  BY <1>6 DEF ReadEvent
<1>7. ASSUME NEW k \in Loops, RunTask(k) \/ RunThrows(k) \/ RunDone(k)
      PROVE  FALSE
  BY <1>7 DEF RunTask, RunThrows, RunDone
<1>8. CASE UNCHANGED vars
  BY <1>8 DEF vars
<1> QED
  BY <1>1, <1>2, <1>3, <1>4, <1>5, <1>6, <1>7, <1>8 DEF Next, LoopStep, Actors

\* The eventfd read of __onevent is the only step of the system that can
\* strand a queued task: neither the two halves of notify, nor edge-triggered
\* epoll, nor an accept callback between them can.
THEOREM WakeupsLostOnlyByRead == Spec => OnlyReadUncovers
<1>1. TypeOK /\ BatchDispatched /\ [Next]_vars
        => [\A l \in Loops :
              (m_trigger'[l] # <<>> /\ Covered(l) /\ ~Covered(l)') => ReadEvent(l)]_vars
  BY UncoverStep
<1> QED
  BY <1>1, BatchInvariant, PTL DEF Spec, OnlyReadUncovers
-----------------------------------------------------------------------------
(* A task runs at most once on a loop *)

\* Everything a thread is about to hand over, or a loop was given, counts as
\* used, so a new hand-over is different from all of them.
TasksUsed ==
  /\ \A l \in Loops : \A i \in DOMAIN Line(l) : Line(l)[i] \in used
  /\ \A a \in Actors : \A i \in DOMAIN calls[a] : calls[a][i].task \in used

\* A call that has not pushed yet brings its loop something it was not given.
PendingNew ==
  \A a \in Actors, l \in Loops : \A i \in DOMAIN calls[a], k \in DOMAIN Line(l) :
    calls[a][i].to = l => calls[a][i].task # Line(l)[k]

\* No two pending calls bring the same task to the same loop.
PendingOnce ==
  \A a, b \in Actors : \A i \in DOMAIN calls[a], j \in DOMAIN calls[b] :
    calls[a][i] = calls[b][j] => a = b /\ i = j

OnceInv == RefInv /\ TasksUsed /\ PendingNew /\ PendingOnce /\ AtMostOnce

\* The lists of calls a callback or thread may make are fresh and have no
\* repetition: notify_all visits each registered loop once.
LEMMA CallsFresh ==
  ASSUME NEW S \in SUBSET Loops, NEW c \in CallsTo(S)
  PROVE  /\ \A i \in DOMAIN c : c[i].task \notin used
         /\ \A i, j \in DOMAIN c : c[i] = c[j] => i = j
<1>1. CASE c = <<>>
  BY <1>1
<1>2. ASSUME NEW l \in S, NEW t \in Tasks \ used, c = Notify1(l, t)
      PROVE  /\ \A i \in DOMAIN c : c[i].task \notin used
             /\ \A i, j \in DOMAIN c : c[i] = c[j] => i = j
  BY <1>2 DEF Notify1
<1>3. ASSUME NEW t \in Tasks \ used, c = NotifyAll(t)
      PROVE  /\ \A i \in DOMAIN c : c[i].task \notin used
             /\ \A i, j \in DOMAIN c : c[i] = c[j] => i = j
  <2>1. /\ DOMAIN c = 1 .. Len(Thdset)
        /\ \A i \in DOMAIN c : c[i] = [to |-> Thdset[i], task |-> t]
        /\ DOMAIN Thdset = 1 .. Len(Thdset)
    BY <1>3, NotifyAssumption DEF NotifyAll
  <2>2. \A i \in DOMAIN c : c[i].task = t /\ c[i].to = Thdset[i]
    BY <2>1
  <2> QED
    BY <2>1, <2>2, NotifyAssumption
<1> QED
  BY <1>1, <1>2, <1>3 DEF CallsTo

\* Lines only change by a push, which appends, and a throw, which removes.
LEMMA LineType ==
  ASSUME TypeOK, NEW l \in Loops
  PROVE  Line(l) \in Seq(Tasks) /\ Queued(l) \in Seq(Tasks) /\ ran[l] \in Seq(Tasks)
<1>1. ran \in [Loops -> Seq(Tasks)] /\ taken \in [Loops -> Seq(Tasks)]
      /\ m_trigger \in [Loops -> Seq(Tasks)]
  BY DEF TypeOK
<1> QED
  BY <1>1, ConcatProperties DEF Line, Queued

LEMMA LineSame ==
  ASSUME UNCHANGED Queue!vars, NEW l \in Loops
  PROVE  Line(l)' = Line(l)
<1>1. [k \in Loops |-> Queued(k)]' = [k \in Loops |-> Queued(k)] /\ ran' = ran
  BY DEF Queue!vars
<1>2. [k \in Loops |-> Queued(k)']  = [k \in Loops |-> Queued(k)]
  BY <1>1
<1>3. Queued(l)' = Queued(l)
  BY <1>2
<1> QED
  BY <1>1, <1>3 DEF Line

LEMMA LineSubmit ==
  ASSUME TypeOK, NEW l \in Loops, NEW t \in Tasks, Queue!Submit(l, t), NEW k \in Loops
  PROVE  Line(k)' = IF k = l THEN Append(Line(k), t) ELSE Line(k)
<1>1. [j \in Loops |-> Queued(j)']
        = [[j \in Loops |-> Queued(j)] EXCEPT ![l] = Append(@, t)]
  BY DEF Queue!Submit
<1>2. Queued(k)' = IF k = l THEN Append(Queued(k), t) ELSE Queued(k)
  BY <1>1
<1>3. ran' = ran
  BY DEF Queue!Submit
<1>4. ran \in [Loops -> Seq(Tasks)] /\ Queued(k) \in Seq(Tasks)
  BY LineType DEF TypeOK
<1>5. ran[k] \o Append(Queued(k), t) = Append(ran[k] \o Queued(k), t)
  BY <1>4, AppendConcat
<1> QED
  BY <1>2, <1>3, <1>5 DEF Line
LEMMA LineRun ==
  ASSUME TypeOK, NEW l \in Loops, Queue!Run(l), NEW k \in Loops
  PROVE  Line(k)' = Line(k)
<1>1. [j \in Loops |-> Queued(j)'] = [[j \in Loops |-> Queued(j)] EXCEPT ![l] = Tail(@)]
  BY DEF Queue!Run
<1>2. Queued(k)' = IF k = l THEN Tail(Queued(k)) ELSE Queued(k)
  BY <1>1
<1>3. ran' = [ran EXCEPT ![l] = Append(@, Head(Queued(l)))] /\ Queued(l) # <<>>
  BY DEF Queue!Run
<1>4. ran \in [Loops -> Seq(Tasks)]
  BY DEF TypeOK
<1>5. CASE k = l
  <2>1. ran[l] \in Seq(Tasks) /\ Queued(l) \in Seq(Tasks)
    BY LineType
  <2>2. Append(ran[l], Head(Queued(l))) \o Tail(Queued(l)) = ran[l] \o Queued(l)
    BY <1>3, <2>1, MoveHead
  <2>3. ran'[l] = Append(ran[l], Head(Queued(l)))
    BY <1>3, <1>4
  <2> QED
    BY <1>2, <1>5, <2>2, <2>3 DEF Line
<1>6. CASE k # l
  BY <1>2, <1>3, <1>4, <1>6 DEF Line
<1> QED
  BY <1>5, <1>6

\* A throw takes elements out of the line and moves none past another.
LEMMA LineAbandon ==
  ASSUME TypeOK, NEW l \in Loops, Queue!Abandon(l), NEW k \in Loops
  PROVE  Thinned(Line(k)', Line(k))
<1>1. PICK d \in 1 .. Len(Queued(l)) :
        [j \in Loops |-> Queued(j)']
          = [[j \in Loops |-> Queued(j)] EXCEPT ![l] = SubSeq(@, d + 1, Len(@))]
  BY DEF Queue!Abandon
<1>2. Queued(k)' = IF k = l THEN SubSeq(Queued(k), d + 1, Len(Queued(k)))
                   ELSE Queued(k)
  BY <1>1
<1>3. ran' = [ran EXCEPT ![l] = Append(@, Head(Queued(l)))] /\ Queued(l) # <<>>
  BY DEF Queue!Abandon
<1>4. ran \in [Loops -> Seq(Tasks)]
  BY DEF TypeOK
<1>5. ran[k] \in Seq(Tasks) /\ Queued(k) \in Seq(Tasks) /\ Line(k) \in Seq(Tasks)
  BY LineType
<1>6. CASE k = l
  <2>1. ran'[k] = Append(ran[k], Head(Queued(k)))
    BY <1>3, <1>4, <1>6
  <2>2. Line(k)' = MovedHead(ran[k], Queued(k), d)
    BY <1>2, <1>6, <2>1 DEF Line, MovedHead
  <2>3. Thinned(MovedHead(ran[k], Queued(k), d), ran[k] \o Queued(k))
    <3>1. \A r, q \in Seq(Tasks) : q # <<>> =>
            \A n \in 1 .. Len(q) : Thinned(MovedHead(r, q, n), r \o q)
      BY MoveHeadDrop
    <3> QED
      BY <1>3, <1>5, <1>6, <3>1
  <2> QED
    BY <2>2, <2>3 DEF Line
<1>7. CASE k # l
  <2>1. Line(k)' = Line(k)
    BY <1>2, <1>3, <1>4, <1>7 DEF Line
  <2> QED
    BY <1>5, <2>1, ThinnedSelf
<1> QED
  BY <1>6, <1>7

\* Handing over fresh calls keeps the invariant, whatever calls they replace,
\* and even if the lines lost elements.
LEMMA OnceIssued ==
  ASSUME OnceInv, RefInv', NEW a \in Actors, NEW S \in SUBSET Loops,
         NEW c \in CallsTo(S), Issue(a, c),
         \A k \in Loops : Thinned(Line(k)', Line(k))
  PROVE  OnceInv'
<1> USE DEF OnceInv
<1>0. ASSUME NEW k \in Loops, NEW i \in DOMAIN Line(k)'
      PROVE  \E j \in DOMAIN Line(k) : Line(k)'[i] = Line(k)[j]
  BY ThinnedFrom
<1>1. /\ calls \in [Actors -> Seq(Call)] /\ calls' = [calls EXCEPT ![a] = c]
      /\ used' = used \cup {c[i].task : i \in DOMAIN c}
      /\ \A i \in DOMAIN c : c[i].task \notin used
      /\ \A i, j \in DOMAIN c : c[i] = c[j] => i = j
  BY CallsFresh DEF RefInv, TypeOK, Issue
<1>2. \A b \in Actors : \A i \in DOMAIN calls'[b] :
        /\ calls'[b][i] \in Call
        /\ calls'[b][i].to \in Loops
  <2>1. ASSUME NEW b \in Actors, NEW i \in DOMAIN calls'[b]
        PROVE  calls'[b][i] \in Call
    BY DEF RefInv, TypeOK
  <2> QED
    BY <2>1 DEF Call
<1>3. AtMostOnce'
  <2> SUFFICES ASSUME NEW k \in Loops
               PROVE  \A i, j \in DOMAIN Line(k)' : Line(k)'[i] = Line(k)'[j] => i = j
    BY DEF AtMostOnce
  <2>1. \A i, j \in DOMAIN Line(k) : Line(k)[i] = Line(k)[j] => i = j
    BY DEF AtMostOnce
  <2> QED
    BY <2>1, ThinnedDistinct
<1>4. TasksUsed'
  <2>1. ASSUME NEW b \in Actors, NEW i \in DOMAIN calls'[b]
        PROVE  calls'[b][i].task \in used'
    BY <1>1 DEF TasksUsed
  <2>2. \A k \in Loops : \A i \in DOMAIN Line(k)' : Line(k)'[i] \in used'
    BY <1>0, <1>1 DEF TasksUsed
  <2> QED
    BY <2>1, <2>2 DEF TasksUsed
<1>5. PendingNew'
  <2> SUFFICES ASSUME NEW b \in Actors, NEW h \in Loops, NEW i \in DOMAIN calls'[b],
                      NEW k \in DOMAIN Line(h)', calls'[b][i].to = h
               PROVE  calls'[b][i].task # Line(h)'[k]
    BY DEF PendingNew
  <2>1. CASE b = a
    <3>1. calls'[b][i] = c[i] /\ i \in DOMAIN c
      BY <1>1, <2>1
    <3>2. c[i].task \notin used
      BY <1>1, <3>1
    <3>3. Line(h)'[k] \in used
      BY <1>0 DEF TasksUsed
    <3> QED
      BY <3>1, <3>2, <3>3
  <2>2. CASE b # a
    <3>1. calls'[b] = calls[b]
      BY <1>1, <2>2
    <3>2. PICK j \in DOMAIN Line(h) : Line(h)'[k] = Line(h)[j]
      BY <1>0
    <3> QED
      BY <3>1, <3>2 DEF PendingNew
  <2> QED
    BY <2>1, <2>2
<1>6. PendingOnce'
  <2> SUFFICES ASSUME NEW b \in Actors, NEW d \in Actors,
                      NEW i \in DOMAIN calls'[b], NEW j \in DOMAIN calls'[d],
                      calls'[b][i] = calls'[d][j]
               PROVE  b = d /\ i = j
    BY DEF PendingOnce
  <2>1. CASE b = a /\ d = a
    BY <1>1, <2>1
  <2>2. CASE b # a /\ d # a
    BY <1>1, <2>2 DEF PendingOnce
  <2>3. CASE b = a /\ d # a
    <3>1. calls'[b][i].task \notin used /\ calls'[d][j].task \in used
      BY <1>1, <2>3 DEF TasksUsed
    <3> QED
      BY <3>1
  <2>4. CASE b # a /\ d = a
    <3>1. calls'[b][i].task \in used /\ calls'[d][j].task \notin used
      BY <1>1, <2>4 DEF TasksUsed
    <3> QED
      BY <3>1
  <2> QED
    BY <2>1, <2>2, <2>3, <2>4
<1> QED
  BY <1>3, <1>4, <1>5, <1>6

\* Pushing a pending call moves it into a line it was new to.
LEMMA OncePushed ==
  ASSUME OnceInv, RefInv', NEW a \in Actors, Push(a)
  PROVE  OnceInv'
<1> USE DEF OnceInv
<1>1. PICK l \in Loops, t \in Tasks : Head(calls[a]) = [to |-> l, task |-> t]
  BY NextCall DEF RefInv
<1>2. \A k \in Loops : Line(k)' = IF k = l THEN Append(Line(k), t) ELSE Line(k)
  <2>1. Queue!Submit(l, t)
    BY <1>1, PushSubmits
  <2> QED
    BY <2>1, LineSubmit DEF RefInv
<1>3. /\ calls \in [Actors -> Seq(Call)]
      /\ calls' = [calls EXCEPT ![a] = Tail(@)] /\ used' = used
      /\ calls[a] # <<>>
  BY DEF Push, RefInv, TypeOK
<1>4. /\ 1 \in DOMAIN calls[a]
      /\ calls[a][1].to = l /\ calls[a][1].task = t
  BY <1>1, <1>3
<1>5. \A b \in Actors : \A i \in DOMAIN calls'[b] :
        LET j == IF b = a THEN i + 1 ELSE i
        IN  j \in DOMAIN calls[b] /\ calls'[b][i] = calls[b][j] /\ i \in Nat
              /\ (b = a => j # 1)
  <2> SUFFICES ASSUME NEW b \in Actors, NEW i \in DOMAIN calls'[b]
               PROVE  LET j == IF b = a THEN i + 1 ELSE i
                      IN  j \in DOMAIN calls[b] /\ calls'[b][i] = calls[b][j]
                            /\ i \in Nat /\ (b = a => j # 1)
    OBVIOUS
  <2>1. CASE b = a
    <3>1. /\ Tail(calls[a]) \in Seq(Call) /\ Len(Tail(calls[a])) = Len(calls[a]) - 1
          /\ \A h \in 1 .. Len(Tail(calls[a])) : Tail(calls[a])[h] = calls[a][h + 1]
          /\ DOMAIN calls[a] = 1 .. Len(calls[a]) /\ Len(calls[a]) \in Nat
      BY <1>3, HeadTailProperties, LenProperties
    <3>2. calls'[b] = Tail(calls[a]) /\ i \in 1 .. Len(Tail(calls[a]))
      BY <1>3, <2>1, <3>1
    <3> QED
      BY <2>1, <3>1, <3>2
  <2>2. CASE b # a
    <3>1. calls'[b] = calls[b] /\ calls[b] \in Seq(Call)
      BY <1>3, <2>2
    <3> QED
      BY <2>2, <3>1
  <2> QED
    BY <2>1, <2>2
<1>6. \A b \in Actors : \A i \in DOMAIN calls[b] :
        calls[b][i] \in Call /\ calls[b][i].to \in Loops
  <2>1. ASSUME NEW b \in Actors, NEW i \in DOMAIN calls[b]
        PROVE  calls[b][i] \in Call
    BY <1>3
  <2> QED
    BY <2>1 DEF Call
<1>7. /\ DOMAIN Line(l)' = 1 .. Len(Line(l)) + 1
      /\ DOMAIN Line(l) = 1 .. Len(Line(l)) /\ Len(Line(l)) \in Nat
      /\ \A i \in DOMAIN Line(l) : Line(l)'[i] = Line(l)[i]
      /\ Line(l)'[Len(Line(l)) + 1] = t
  <2>1. Line(l) \in Seq(Tasks)
    BY LineType DEF RefInv
  <2> QED
    BY <1>2, <2>1, AppendProperties, LenProperties
<1>8. \A i \in DOMAIN Line(l) : Line(l)[i] # t
  BY <1>4 DEF PendingNew
<1>9. AtMostOnce'
  <2> SUFFICES ASSUME NEW k \in Loops, NEW i \in DOMAIN Line(k)',
                      NEW j \in DOMAIN Line(k)', Line(k)'[i] = Line(k)'[j]
               PROVE  i = j
    BY DEF AtMostOnce
  <2>1. CASE k = l
    BY <1>7, <1>8, <2>1 DEF AtMostOnce
  <2>2. CASE k # l
    BY <1>2, <2>2 DEF AtMostOnce
  <2> QED
    BY <2>1, <2>2
<1>10. TasksUsed'
  <2>1. t \in used
    BY <1>4 DEF TasksUsed
  <2>2. ASSUME NEW k \in Loops, NEW i \in DOMAIN Line(k)'
        PROVE  Line(k)'[i] \in used
    <3>1. CASE k = l
      BY <1>7, <2>1, <3>1 DEF TasksUsed
    <3>2. CASE k # l
      BY <1>2, <3>2 DEF TasksUsed
    <3> QED
      BY <3>1, <3>2
  <2>3. \A b \in Actors : \A i \in DOMAIN calls'[b] : calls'[b][i].task \in used
    BY <1>5 DEF TasksUsed
  <2> QED
    BY <1>3, <2>2, <2>3 DEF TasksUsed
<1>11. PendingNew'
  <2> SUFFICES ASSUME NEW b \in Actors, NEW h \in Loops, NEW i \in DOMAIN calls'[b],
                      NEW k \in DOMAIN Line(h)', calls'[b][i].to = h
               PROVE  calls'[b][i].task # Line(h)'[k]
    BY DEF PendingNew
  <2>1. PICK j \in DOMAIN calls[b] : calls'[b][i] = calls[b][j] /\ (b = a => j # 1)
    BY <1>5
  <2>2. CASE h = l
    <3>1. calls[b][j].task # t
      <4>1. SUFFICES ASSUME calls[b][j].task = t
                     PROVE  FALSE
        OBVIOUS
      <4>2. calls[b][j] = calls[a][1]
        BY <1>4, <1>6, <2>1, <2>2, <4>1 DEF Call
      <4> QED
        BY <1>4, <2>1, <4>2 DEF PendingOnce
    <3>2. \A n \in DOMAIN Line(l) : Line(l)[n] # calls[b][j].task
      BY <2>1, <2>2 DEF PendingNew
    <3> QED
      BY <1>7, <2>1, <2>2, <3>1, <3>2
  <2>3. CASE h # l
    BY <1>2, <2>1, <2>3 DEF PendingNew
  <2> QED
    BY <2>2, <2>3
<1>12. PendingOnce'
  <2> SUFFICES ASSUME NEW b \in Actors, NEW d \in Actors,
                      NEW i \in DOMAIN calls'[b], NEW j \in DOMAIN calls'[d],
                      calls'[b][i] = calls'[d][j]
               PROVE  b = d /\ i = j
    BY DEF PendingOnce
  <2>1. b = d
    BY <1>5 DEF PendingOnce
  <2>2. (IF b = a THEN i + 1 ELSE i) = (IF d = a THEN j + 1 ELSE j)
    BY <1>5 DEF PendingOnce
  <2>3. i \in Nat /\ j \in Nat
    BY <1>5
  <2> QED
    BY <2>1, <2>2, <2>3
<1> QED
  BY <1>9, <1>10, <1>11, <1>12

LEMMA OnceStep ==
  ASSUME OnceInv, [Next]_vars
  PROVE  OnceInv'
<1>1. RefInv /\ RefInv' /\ TypeOK
  BY TypeStep, TakenStep DEF OnceInv, RefInv
<1>0. ASSUME \A k \in Loops : Line(k)' = Line(k)
      PROVE  \A k \in Loops : Thinned(Line(k)', Line(k))
  <2> SUFFICES ASSUME NEW k \in Loops
               PROVE  Thinned(Line(k)', Line(k))
    OBVIOUS
  <2>1. Line(k) \in Seq(Tasks)
    BY <1>1, LineType
  <2> QED
    BY <1>0, <2>1, ThinnedSelf
<1>2. ASSUME UNCHANGED <<calls, used>>, UNCHANGED Queue!vars
      PROVE  OnceInv'
  <2>1. \A k \in Loops : Line(k)' = Line(k)
    BY <1>2, LineSame
  <2> QED
    BY <1>1, <1>2, <2>1 DEF OnceInv, AtMostOnce, TasksUsed, PendingNew, PendingOnce
<1>3. ASSUME NEW a \in Apps, AppNotify(a)
      PROVE  OnceInv'
  <2>1. \A k \in Loops : Line(k)' = Line(k)
    BY <1>3, OthersStutter, LineSame DEF AppNotify
  <2> QED
    BY <1>0, <1>1, <1>3, <2>1, OnceIssued DEF AppNotify, Actors
<1>4. ASSUME NEW l \in Loops, DispatchAccept(l)
      PROVE  OnceInv'
  <2>1. \A k \in Loops : Line(k)' = Line(k)
    BY <1>4, OthersStutter, LineSame DEF DispatchAccept
  <2> QED
    BY <1>0, <1>1, <1>4, <2>1, OnceIssued, NotifyAssumption DEF DispatchAccept, Actors
<1>5. ASSUME NEW l \in Loops, RunTask(l)
      PROVE  OnceInv'
  <2>1. \A k \in Loops : Line(k)' = Line(k)
    BY <1>1, <1>5, RunTaskRuns, LineRun
  <2> QED
    BY <1>0, <1>1, <1>5, <2>1, OnceIssued DEF RunTask, Actors
<1>6. ASSUME NEW l \in Loops, RunThrows(l)
      PROVE  OnceInv'
  <2>1. \A k \in Loops : Thinned(Line(k)', Line(k))
    BY <1>1, <1>6, RunThrowsAbandons, LineAbandon
  <2> QED
    BY <1>1, <1>6, <2>1, OnceIssued DEF RunThrows, Actors
<1>7. ASSUME NEW a \in Actors, Push(a)
      PROVE  OnceInv'
  BY <1>1, <1>7, OncePushed
<1>8. ASSUME NEW l \in Loops, Swap(l)
      PROVE  OnceInv'
  BY <1>1, <1>2, <1>8, SwapStutters DEF Swap
<1>9. ASSUME NEW a \in Actors, Write(a)
      PROVE  OnceInv'
  BY <1>2, <1>9, OthersStutter DEF Write
<1>10. ASSUME NEW l \in Loops,
              EpollWait(l) \/ DispatchEvent(l) \/ AcceptDone(l) \/ BatchDone(l)
                \/ ReadEvent(l) \/ RunDone(l)
       PROVE  OnceInv'
  BY <1>2, <1>10, OthersStutter DEF EpollWait, DispatchEvent, AcceptDone,
     BatchDone, ReadEvent, RunDone
<1>11. CASE UNCHANGED vars
  BY <1>2, <1>11, OthersStutter DEF vars
<1> QED
  BY <1>3, <1>4, <1>5, <1>6, <1>7, <1>8, <1>9, <1>10, <1>11 DEF Next, LoopStep

\* However many threads notify and notify_all each other, accept or stop, a
\* loop neither runs a task twice nor keeps it queued after starting it.
THEOREM TasksRunAtMostOnce == Spec => []AtMostOnce
<1>1. Init => OnceInv
  <2> SUFFICES ASSUME Init
               PROVE  OnceInv
    OBVIOUS
  <2>1. \A l \in Loops : Line(l) = <<>>
    BY ConcatEmptySeq, EmptySeq DEF Init, Line, Queued
  <2>2. \A a \in Actors : calls[a] = <<>>
    BY DEF Init
  <2> QED
    BY <2>1, <2>2, TypeInit, TakenInit
       DEF OnceInv, RefInv, TasksUsed, PendingNew, PendingOnce, AtMostOnce
<1>2. OnceInv /\ [Next]_vars => OnceInv'
  BY OnceStep
<1>3. OnceInv => AtMostOnce
  BY DEF OnceInv
<1> QED
  BY <1>1, <1>2, <1>3, PTL DEF Spec

-----------------------------------------------------------------------------
(* Loops do not wait in a circle *)

\* The rule accept callbacks must keep: of any loops, there is one whose
\* accept callback notifies none of them, itself included.
NoAcceptCircle ==
  \A S \in SUBSET Loops \ {{}} : \E l \in S : AcceptCalls[l] \cap S = {}

\* What a loop calls while it holds its mutex is what its accept callback may
\* call: no other callback runs under the mutex.
AcceptInv ==
  \A l \in Loops :
    pc[l] = "accept" => \A i \in DOMAIN calls[l] : calls[l][i].to \in AcceptCalls[l]

\* The calls of a callback that may name the loops of S name only those.
LEMMA CallsToTargets ==
  ASSUME NEW S \in SUBSET Loops, NEW c \in CallsTo(S)
  PROVE  \A i \in DOMAIN c : c[i].to \in S
<1>1. CASE c = <<>>
  <2>1. DOMAIN <<>> = {}
    OBVIOUS
  <2> QED
    BY <1>1, <2>1
<1>2. ASSUME NEW l \in S, NEW t \in Tasks, c = Notify1(l, t)
      PROVE  \A i \in DOMAIN c : c[i].to \in S
  <2>1. DOMAIN c = {1} /\ c[1] = [to |-> l, task |-> t]
    BY <1>2 DEF Notify1
  <2> QED
    BY <2>1
<1>3. ASSUME NEW t \in Tasks, S = Loops, c = NotifyAll(t)
      PROVE  \A i \in DOMAIN c : c[i].to \in S
  <2>1. DOMAIN c = 1 .. Len(Thdset) /\ \A i \in 1 .. Len(Thdset) : c[i] = [to |-> Thdset[i], task |-> t]
    BY <1>3 DEF NotifyAll
  <2>2. \A i \in 1 .. Len(Thdset) : Thdset[i] \in Loops
    BY NotifyAssumption
  <2> QED
    BY <1>3, <2>1, <2>2
<1> QED
  BY <1>1, <1>2, <1>3 DEF CallsTo

LEMMA AcceptStep == TypeOK /\ AcceptInv /\ [Next]_vars => AcceptInv'
<1> SUFFICES ASSUME TypeOK, AcceptInv, [Next]_vars
             PROVE  AcceptInv'
  OBVIOUS
<1> USE NotifyAssumption DEF TypeOK, AcceptInv
<1>1. ASSUME NEW a \in Apps, AppNotify(a)
      PROVE  AcceptInv'
  BY <1>1 DEF AppNotify, Issue, Actors
<1>2. ASSUME NEW a \in Actors, Push(a)
      PROVE  AcceptInv'
  <2>1. /\ calls[a] \in Seq(Call) /\ calls[a] # <<>> /\ pc' = pc
        /\ calls' = [calls EXCEPT ![a] = Tail(calls[a])]
    BY <1>2 DEF Push
  <2>2. /\ Len(calls[a]) \in Nat \ {0} /\ DOMAIN calls[a] = 1 .. Len(calls[a])
        /\ DOMAIN Tail(calls[a]) = 1 .. Len(calls[a]) - 1
        /\ \A i \in 1 .. Len(calls[a]) - 1 : Tail(calls[a])[i] = calls[a][i + 1]
    BY <2>1
  <2>3. \A i \in DOMAIN Tail(calls[a]) : \E j \in DOMAIN calls[a] : Tail(calls[a])[i] = calls[a][j]
    <3> SUFFICES ASSUME NEW i \in 1 .. Len(calls[a]) - 1
                 PROVE  \E j \in DOMAIN calls[a] : Tail(calls[a])[i] = calls[a][j]
      BY <2>2, Zenon
    <3>1. i + 1 \in 1 .. Len(calls[a])
      BY <2>2
    <3> QED
      BY <2>2, <3>1, Zenon
  <2>4. \A l \in Loops : calls'[l] = IF l = a THEN Tail(calls[a]) ELSE calls[l]
    BY <2>1 DEF Actors
  <2> QED
    BY <2>1, <2>3, <2>4
<1>3. ASSUME NEW a \in Actors, Write(a)
      PROVE  AcceptInv'
  BY <1>3 DEF Write
<1>4. ASSUME NEW k \in Loops, EpollWait(k)
      PROVE  AcceptInv'
  <2>1. calls' = calls /\ pc' = [pc EXCEPT ![k] = IF batch'[k] = {} THEN "epoll_wait" ELSE "dispatch"]
    BY <1>4 DEF EpollWait
  <2>2. \A l \in Loops : pc'[l] = "accept" => pc[l] = "accept"
    BY <2>1
  <2> QED
    BY <2>1, <2>2
<1>5. ASSUME NEW k \in Loops, DispatchEvent(k) \/ AcceptDone(k) \/ BatchDone(k)
      PROVE  AcceptInv'
  <2>1. calls' = calls /\ \E v \in {"swap", "dispatch", "epoll_wait", "exited"} : pc' = [pc EXCEPT ![k] = v]
    BY <1>5 DEF DispatchEvent, AcceptDone, BatchDone
  <2> QED
    BY <2>1
<1>6. ASSUME NEW k \in Loops, DispatchAccept(k)
      PROVE  AcceptInv'
  <2>1. PICK c \in CallsTo(AcceptCalls[k]) : calls' = [calls EXCEPT ![k] = c]
    BY <1>6 DEF DispatchAccept, Issue
  <2>2. \A i \in DOMAIN c : c[i].to \in AcceptCalls[k]
    <3>1. AcceptCalls[k] \in SUBSET Loops
      BY NotifyAssumption
    <3> HIDE DEF TypeOK, AcceptInv
    <3> QED
      BY <2>1, <3>1, CallsToTargets
  <2>3. \A l \in Loops : calls'[l] = IF l = k THEN c ELSE calls[l]
    BY <2>1 DEF Actors
  <2>4. \A l \in Loops \ {k} : pc'[l] = pc[l]
    BY <1>6 DEF DispatchAccept
  <2> QED
    BY <2>2, <2>3, <2>4
<1>7. ASSUME NEW k \in Loops, Swap(k) \/ ReadEvent(k) \/ RunDone(k)
      PROVE  AcceptInv'
  <2>1. calls' = calls /\ \E v \in {"read", "run", "dispatch"} : pc' = [pc EXCEPT ![k] = v]
    BY <1>7 DEF Swap, ReadEvent, RunDone
  <2> QED
    BY <2>1
<1>8. ASSUME NEW k \in Loops, RunTask(k) \/ RunThrows(k)
      PROVE  AcceptInv'
  <2>1. pc[k] = "run" /\ pc' = pc
    BY <1>8 DEF RunTask, RunThrows
  <2>2. PICK c : calls' = [calls EXCEPT ![k] = c]
    BY <1>8 DEF RunTask, RunThrows, Issue
  <2>3. \A l \in Loops \ {k} : calls'[l] = calls[l]
    BY <2>2 DEF Actors
  <2> QED
    BY <2>1, <2>3
<1>9. CASE UNCHANGED vars
  BY <1>9 DEF vars
<1> QED
  BY <1>1, <1>2, <1>3, <1>4, <1>5, <1>6, <1>7, <1>8, <1>9 DEF Next, LoopStep, Actors

\* Where accept callbacks notify along no circle of loops, no loops ever wait
\* for each other's mutex, however they interleave: __onevent has released it
\* when it runs its callbacks.
THEOREM LoopsNeverCircle ==
  ASSUME NoAcceptCircle
  PROVE  Spec => []NoLockCycle
<1>1. Init => AcceptInv
  BY DEF Init, AcceptInv
<1>2. TypeOK /\ AcceptInv => NoLockCycle
  <2> SUFFICES ASSUME TypeOK, AcceptInv, NEW S \in SUBSET Loops \ {{}},
                      \A l \in S : /\ MutexHeld(l)
                                   /\ calls[l] # <<>> /\ writing[l] = NoLoop
                                   /\ Head(calls[l]).to \in S
               PROVE  FALSE
    BY DEF NoLockCycle
  <2>1. PICK l \in S : AcceptCalls[l] \cap S = {}
    BY NoAcceptCircle DEF NoAcceptCircle
  <2>2. calls[l] \in Seq(Call) /\ calls[l] # <<>> /\ pc[l] = "accept" /\ Head(calls[l]).to \in S
    BY DEF TypeOK, Actors, MutexHeld
  <2>3. 1 \in DOMAIN calls[l] /\ Head(calls[l]) = calls[l][1]
    BY <2>2
  <2>4. Head(calls[l]).to \in AcceptCalls[l]
    BY <2>2, <2>3 DEF AcceptInv
  <2> QED
    BY <2>1, <2>2, <2>4
<1> QED
  BY <1>1, <1>2, AcceptStep, TypeInit, TypeStep, PTL DEF Spec

-----------------------------------------------------------------------------
(* The locks of Registry *)

Kinds == {"emit", "for_each"}

\* What makes NoDeadlock inductive: a thread waits for nothing that the
\* callbacks it runs do not allow, and has room for what it is to run.
Bound(t) == Len(stack[t]) <= MaxDepth

Keeps(t) ==
  waits[t] # None =>
    /\ Allowed(t, waits[t].op)
    /\ waits[t].op \in Kinds => Len(stack[t]) < MaxDepth

LockInv ==
  /\ m_events \subseteq Keys /\ m_objects \subseteq Keys
  /\ stack \in [Threads -> Seq(Kinds)]
  /\ waits \in [Threads -> Ops \cup {None}]
  /\ \A t \in Threads : Bound(t) /\ Keeps(t)

-----------------------------------------------------------------------------
LEMMA InitLocks == RegistryInit => LockInv
<1> SUFFICES ASSUME RegistryInit
             PROVE  LockInv
  OBVIOUS
<1>1. <<>> \in Seq(Kinds) /\ Len(<<>>) = 0
  OBVIOUS
<1>2. \A t \in Threads : stack[t] = <<>> /\ waits[t] = None
  BY DEF RegistryInit
<1>3. \A t \in Threads : Bound(t) /\ Keeps(t)
  BY <1>1, <1>2, RegistryAssumption DEF Bound, Keeps
<1> QED
  BY <1>1, <1>3 DEF RegistryInit, LockInv

\* An operation that its thread no longer waits for, and that runs nothing.
LEMMA GetsKeeps ==
  ASSUME LockInv, NEW t \in Threads, NEW op, Gets(t, op), UNCHANGED stack,
         m_events' \subseteq Keys, m_objects' \subseteq Keys
  PROVE  LockInv'
<1>1. waits' \in [Threads -> Ops \cup {None}] /\ waits'[t] = None
  BY DEF Gets, LockInv
<1>2. \A u \in Threads : u # t => waits'[u] = waits[u]
  BY DEF Gets, LockInv
<1>3. \A u \in Threads : Bound(u)'
  BY DEF LockInv, Bound
<1>4. ASSUME NEW u \in Threads
      PROVE  Keeps(u)'
  <2>1. CASE u = t
    BY <1>1, <2>1 DEF Keeps
  <2>2. CASE u # t
    <3>1. waits'[u] = waits[u] /\ stack'[u] = stack[u] /\ Keeps(u)
      BY <1>2, <2>2 DEF LockInv
    <3> QED
      BY <3>1 DEF Keeps, Allowed, Runs
  <2> QED
    BY <2>1, <2>2
<1> QED
  BY <1>1, <1>3, <1>4 DEF LockInv

\* One that runs its callback, below its thread's others.
LEMMA EnterKeeps ==
  ASSUME LockInv, NEW t \in Threads, NEW op \in Kinds, Gets(t, op), Enter(t, op),
         UNCHANGED <<m_events, m_objects>>
  PROVE  LockInv'
<1>1. waits' \in [Threads -> Ops \cup {None}] /\ waits'[t] = None
  BY DEF Gets, LockInv
<1>2. \A u \in Threads : u # t => waits'[u] = waits[u]
  BY DEF Gets, LockInv
<1>3. waits[t].op = op /\ waits[t] # None
  BY DEF Gets, None, Kinds
<1>4. stack[t] \in Seq(Kinds) /\ Len(stack[t]) < MaxDepth /\ Len(stack[t]) \in Nat
  BY <1>3 DEF LockInv, Keeps
<1>5. <<op>> \in Seq(Kinds) /\ Len(<<op>>) = 1
  OBVIOUS
<1>6. <<op>> \o stack[t] \in Seq(Kinds) /\ Len(<<op>> \o stack[t]) = 1 + Len(stack[t])
  BY <1>4, <1>5
<1>7. stack' = [stack EXCEPT ![t] = <<op>> \o stack[t]]
  BY DEF Enter
<1>8. stack' \in [Threads -> Seq(Kinds)] /\ stack'[t] = <<op>> \o stack[t]
  BY <1>6, <1>7 DEF LockInv
<1>9. \A u \in Threads : u # t => stack'[u] = stack[u]
  BY <1>7 DEF LockInv
<1>10. ASSUME NEW u \in Threads
       PROVE  Bound(u)' /\ Keeps(u)'
  <2>1. CASE u = t
    <3>1. Bound(t)'
      BY <1>4, <1>6, <1>8, RegistryAssumption DEF Bound
    <3> QED
      BY <1>1, <2>1, <3>1 DEF Keeps
  <2>2. CASE u # t
    <3>1. waits'[u] = waits[u] /\ stack'[u] = stack[u] /\ Keeps(u) /\ Bound(u)
      BY <1>2, <1>9, <2>2 DEF LockInv
    <3> QED
      BY <3>1 DEF Keeps, Allowed, Runs, Bound
  <2> QED
    BY <2>1, <2>2
<1> QED
  BY <1>1, <1>8, <1>10 DEF LockInv

LEMMA StepLocks == LockInv /\ [RegistryNext]_registryVars => LockInv'
<1> SUFFICES ASSUME LockInv, [RegistryNext]_registryVars
             PROVE  LockInv'
  OBVIOUS
<1>1. ASSUME NEW t \in Threads, Ask(t)
      PROVE  LockInv'
  <2>1. PICK o \in Ops : /\ Allowed(t, o.op)
                         /\ o.op \in Kinds => Len(stack[t]) < MaxDepth
                         /\ waits' = [waits EXCEPT ![t] = o]
    BY <1>1 DEF Ask, Kinds
  <2>2. waits' \in [Threads -> Ops \cup {None}] /\ waits'[t] = o
    BY <2>1 DEF LockInv
  <2>3. stack' = stack /\ m_events' = m_events /\ m_objects' = m_objects
    BY <1>1 DEF Ask
  <2>4. ASSUME NEW u \in Threads
        PROVE  Bound(u)' /\ Keeps(u)'
    <3>1. Bound(u)'
      BY <2>3 DEF LockInv, Bound
    <3>2. CASE u = t
      BY <2>1, <2>2, <2>3, <3>1, <3>2 DEF Keeps, Allowed, Runs
    <3>3. CASE u # t
      <4>1. waits'[u] = waits[u] /\ Keeps(u)
        BY <2>1, <3>3 DEF LockInv
      <4> QED
        BY <2>3, <3>1, <4>1 DEF Keeps, Allowed, Runs
    <3> QED
      BY <3>2, <3>3
  <2> QED
    BY <2>2, <2>3, <2>4 DEF LockInv
<1>2. ASSUME NEW t \in Threads, Leave(t)
      PROVE  LockInv'
  <2>1. stack[t] \in Seq(Kinds) /\ stack[t] # <<>> /\ waits[t] = None
    BY <1>2 DEF Leave, LockInv
  <2>2. /\ Tail(stack[t]) \in Seq(Kinds) /\ Len(stack[t]) \in Nat
        /\ Len(Tail(stack[t])) = Len(stack[t]) - 1
    BY <2>1
  <2>3. stack' = [stack EXCEPT ![t] = Tail(stack[t])] /\ UNCHANGED <<m_events, m_objects, waits>>
    BY <1>2 DEF Leave
  <2>4. stack' \in [Threads -> Seq(Kinds)] /\ stack'[t] = Tail(stack[t])
    BY <2>2, <2>3 DEF LockInv
  <2>5. ASSUME NEW u \in Threads
        PROVE  Bound(u)' /\ Keeps(u)'
    <3>1. CASE u = t
      <4>1. Bound(t)'
        BY <2>2, <2>4, RegistryAssumption DEF LockInv, Bound
      <4> QED
        BY <2>1, <2>3, <3>1, <4>1 DEF Keeps
    <3>2. CASE u # t
      <4>1. waits'[u] = waits[u] /\ stack'[u] = stack[u] /\ Keeps(u) /\ Bound(u)
        BY <2>3, <3>2 DEF LockInv
      <4> QED
        BY <4>1 DEF Keeps, Allowed, Runs, Bound
    <3> QED
      BY <3>1, <3>2
  <2> QED
    BY <2>3, <2>4, <2>5 DEF LockInv
<1>3. ASSUME NEW t \in Threads, emit(t)
      PROVE  LockInv'
  <2>1. CASE Enter(t, "emit")
    BY <1>3, <2>1, EnterKeeps DEF emit, Kinds
  <2>2. CASE UNCHANGED stack
    BY <1>3, <2>2, GetsKeeps DEF emit, LockInv
  <2> QED
    BY <1>3, <2>1, <2>2 DEF emit
<1>4. ASSUME NEW t \in Threads, for_each(t)
      PROVE  LockInv'
  <2>1. CASE Enter(t, "for_each")
    BY <1>4, <2>1, EnterKeeps DEF for_each, Kinds
  <2>2. CASE UNCHANGED stack
    BY <1>4, <2>2, GetsKeeps DEF for_each, LockInv
  <2> QED
    BY <1>4, <2>1, <2>2 DEF for_each
<1>5. ASSUME NEW t \in Threads, onevent(t) \/ insert(t) \/ erase(t)
      PROVE  LockInv'
  <2>1. waits[t] \in Ops
    <3>1. waits[t] # None
      BY <1>5 DEF onevent, insert, erase, Gets, None
    <3> QED
      BY <3>1 DEF LockInv
  <2>2. waits[t].op # "for_each"
    BY <1>5 DEF onevent, insert, erase, Gets
  <2>3. waits[t].key \in Keys
    BY <2>1, <2>2 DEF Ops
  <2>4. m_events' \subseteq Keys /\ m_objects' \subseteq Keys /\ UNCHANGED stack
    BY <1>5, <2>3 DEF onevent, insert, erase, LockInv
  <2>5. \E op : Gets(t, op)
    BY <1>5 DEF onevent, insert, erase
  <2> QED
    BY <2>4, <2>5, GetsKeeps
<1>6. ASSUME NEW t \in Threads, get(t)
      PROVE  LockInv'
  BY <1>6, GetsKeeps DEF get, LockInv
<1>7. ASSUME UNCHANGED registryVars
      PROVE  LockInv'
  <2>1. stack' = stack /\ waits' = waits /\ m_events' = m_events /\ m_objects' = m_objects
    BY <1>7 DEF registryVars
  <2>2. \A t \in Threads : Bound(t)' /\ Keeps(t)'
    BY <2>1 DEF LockInv, Bound, Keeps, Allowed, Runs
  <2> QED
    BY <2>1, <2>2 DEF LockInv
<1> QED
  BY <1>1, <1>2, <1>3, <1>4, <1>5, <1>6, <1>7 DEF RegistryNext

-----------------------------------------------------------------------------
\* A thread that runs for_each waits for nobody: it may only emit.
LEMMA OwnersWaitForNone ==
  ASSUME LockInv, NEW u \in Owners, NEW S \in SUBSET Threads
  PROVE  ~Waits(u, S)
<1>1. u \in Threads /\ Runs(u, "for_each") /\ stack[u] # <<>>
  <2>1. u \in Threads /\ Runs(u, "for_each")
    BY DEF Owners
  <2>2. stack[u] \in Seq(Kinds)
    BY <2>1 DEF LockInv
  <2> QED
    BY <2>1, <2>2 DEF Runs
<1>2. CASE waits[u] = None
  BY <1>2 DEF Waits, None
<1>3. CASE waits[u] # None
  <2>1. waits[u].op = "emit"
    BY <1>1, <1>3 DEF LockInv, Keeps, Allowed
  <2> QED
    BY <2>1 DEF Waits, RdFree
<1> QED
  BY <1>2, <1>3

LEMMA LocksImply == LockInv => NoDeadlock
<1> SUFFICES ASSUME LockInv
             PROVE  NoDeadlock
  OBVIOUS
<1>1. RegistryTypeOK
  <2>1. ASSUME NEW t \in Threads
        PROVE  stack[t] \in UNION {[1 .. n -> Kinds] : n \in 0 .. MaxDepth}
    <3>1. stack[t] \in [1 .. Len(stack[t]) -> Kinds] /\ Len(stack[t]) \in Nat
      BY DEF LockInv
    <3>2. Len(stack[t]) \in 0 .. MaxDepth
      BY <3>1, RegistryAssumption DEF LockInv, Bound
    <3> QED
      BY <3>1, <3>2
  <2>2. stack \in [Threads -> UNION {[1 .. n -> Kinds] : n \in 0 .. MaxDepth}]
    BY <2>1 DEF LockInv
  <2> QED
    BY <2>2 DEF LockInv, RegistryTypeOK, Kinds
<1>2. ASSUME NEW S \in (SUBSET Threads) \ {{}}, \A t \in S : Waits(t, S)
      PROVE  FALSE
  <2>1. Owners \cap S = {}
    BY <1>2, OwnersWaitForNone
  <2>2. \A t \in S : waits[t].op = "onevent" /\ Readers \cap S # {}
    BY <1>2, <2>1 DEF Waits, RdFree
  <2>3. PICK u \in S : u \in Readers
    BY <1>2, <2>2
  <2>4. u \in Threads /\ waits[u].op = "onevent" /\ waits[u] # None
    BY <2>2, <2>3 DEF None
  <2>5. stack[u] = <<>>
    BY <2>4 DEF LockInv, Keeps, Allowed
  <2> QED
    BY <2>3, <2>5 DEF Readers, Runs
<1> QED
  BY <1>1, <1>2 DEF NoDeadlock

\* As long as callbacks keep the rules, no set of threads using asyncevent and
\* the pool (emit under the read lock, for_each under the mutex) is one of which
\* each waits for another, or itself, however many there are and however deep
\* callbacks run below each other.
THEOREM LocksNeverCircle == RegistrySpec => []NoDeadlock
<1>1. RegistrySpec => []LockInv
  BY InitLocks, StepLocks, PTL DEF RegistrySpec
<1> QED
  BY <1>1, LocksImply, PTL

-----------------------------------------------------------------------------
(* Numbers *)

\* Induction over the numbers of a set.
LEMMA NatSetInduction ==
  ASSUME NEW X, X \subseteq Nat, 0 \in X, \A n \in X : n + 1 \in X
  PROVE  X = Nat
<1>1. SUFFICES ASSUME Nat \ X # {} PROVE FALSE
  OBVIOUS
<1>2. PICK m \in Nat \ X : \A k \in Nat \ X : ~ (<<k, m>> \in OpToRel(<, Nat))
  <2>1. Nat \ X \subseteq Nat
    OBVIOUS
  <2> QED
    BY <1>1, <2>1, NatLessThanWellFounded, WFMin, Zenon
<1>3. m # 0 /\ m - 1 \in Nat /\ m - 1 < m /\ m = (m - 1) + 1
  OBVIOUS
<1>4. m - 1 \notin X
  BY <1>3
<1>5. <<m - 1, m>> \in OpToRel(<, Nat)
  BY <1>3, Zenon DEF OpToRel
<1> QED
  BY <1>2, <1>3, <1>4, <1>5

-----------------------------------------------------------------------------
(* The state after some blocks (Md5) *)

\* The recursion of StateAfter, up to n.
Run(s, blocks, n, h) ==
  h = [k \in 0 .. n |-> IF k = 0 THEN s ELSE MD5Transform(h[k - 1], blocks[k])]

\* It can be carried to any n,
LEMMA RunExists ==
  ASSUME NEW s, NEW blocks, NEW n \in Nat
  PROVE  \E h : Run(s, blocks, n, h)
<1> DEFINE X == {k \in Nat : \E h : Run(s, blocks, k, h)}
<1>1. 0 \in X
  <2>1. Run(s, blocks, 0, [k \in 0 .. 0 |-> s])
    BY DEF Run
  <2> QED
    BY <2>1
<1>2. ASSUME NEW k \in X PROVE k + 1 \in X
  <2>1. PICK h : Run(s, blocks, k, h)
    OBVIOUS
  <2> DEFINE g == [i \in 0 .. k + 1 |->
                     IF i <= k THEN h[i] ELSE MD5Transform(h[k], blocks[k + 1])]
  <2>2. k \in Nat
    OBVIOUS
  <2>3. ASSUME NEW i \in 0 .. k + 1
        PROVE  g[i] = IF i = 0 THEN s ELSE MD5Transform(g[i - 1], blocks[i])
    <3>1. CASE i = 0
      BY <2>1, <2>2, <3>1 DEF Run
    <3>2. CASE i # 0 /\ i <= k
      <4>1. g[i] = h[i] /\ g[i - 1] = h[i - 1]
        BY <2>2, <3>2
      <4>2. h[i] = MD5Transform(h[i - 1], blocks[i])
        BY <2>1, <2>2, <3>2 DEF Run
      <4> QED
        BY <3>2, <4>1, <4>2
    <3>3. CASE i = k + 1
      <4>1. g[i] = MD5Transform(h[k], blocks[k + 1]) /\ g[k] = h[k] /\ i - 1 = k /\ i # 0
        BY <2>2, <3>3
      <4> HIDE DEF g
      <4> QED
        BY <3>3, <4>1
    <3> QED
      BY <2>2, <3>1, <3>2, <3>3
  <2>4. g = [i \in 0 .. k + 1 |-> g[i]]
    OBVIOUS
  <2>5. Run(s, blocks, k + 1, g)
    <3> HIDE DEF g
    <3> QED
      BY <2>3, <2>4 DEF Run
  <2> QED
    BY <2>2, <2>5
<1>3. X = Nat
  <2>1. X \subseteq Nat
    OBVIOUS
  <2> HIDE DEF X
  <2> QED
    BY <1>1, <1>2, <2>1, NatSetInduction
<1> QED
  BY <1>3

\* and in one way only.
LEMMA RunsAgree ==
  ASSUME NEW s, NEW blocks, NEW m \in Nat, NEW n \in Nat, NEW g, NEW h,
         Run(s, blocks, m, g), Run(s, blocks, n, h)
  PROVE  \A k \in Nat : k <= m /\ k <= n => g[k] = h[k]
<1> DEFINE X == {k \in Nat : k <= m /\ k <= n => g[k] = h[k]}
<1>1. 0 \in X
  BY DEF Run
<1>2. ASSUME NEW k \in X PROVE k + 1 \in X
  <2>1. CASE k + 1 <= m /\ k + 1 <= n
    <3>1. k \in Nat /\ g[k] = h[k]
      BY <2>1
    <3>2. k + 1 \in 0 .. m /\ k + 1 \in 0 .. n /\ k + 1 # 0 /\ (k + 1) - 1 = k
      BY <2>1, <3>1
    <3>3. g[k + 1] = MD5Transform(g[k], blocks[k + 1])
      BY <3>2 DEF Run
    <3>4. h[k + 1] = MD5Transform(h[k], blocks[k + 1])
      BY <3>2 DEF Run
    <3> QED
      BY <3>1, <3>3, <3>4
  <2> QED
    BY <2>1
<1>3. X = Nat
  <2>1. X \subseteq Nat
    OBVIOUS
  <2> HIDE DEF X
  <2> QED
    BY <1>1, <1>2, <2>1, NatSetInduction
<1> QED
  BY <1>3

\* The first block is at 1, and each changes the state that the one before left.
LEMMA StateAfterDef ==
  ASSUME NEW s, NEW blocks
  PROVE  /\ Digest!StateAfter(s, blocks, 0) = s
         /\ \A n \in Nat : Digest!StateAfter(s, blocks, n + 1) =
              MD5Transform(Digest!StateAfter(s, blocks, n), blocks[n + 1])
<1> DEFINE R(n) == CHOOSE h : Run(s, blocks, n, h)
           a == [k \in Nat |-> R(k)[k]]
           IsAfter(f) == f = [k \in Nat |-> IF k = 0 THEN s ELSE MD5Transform(f[k - 1], blocks[k])]
           after == CHOOSE f : IsAfter(f)
<1>1. ASSUME NEW n \in Nat PROVE Run(s, blocks, n, R(n))
  BY RunExists
<1> HIDE DEF R
<1>2. a[0] = s
  <2>1. R(0)[0] = s
    BY <1>1 DEF Run
  <2> QED
    BY <2>1
<1>3. ASSUME NEW k \in Nat, k # 0 PROVE a[k] = MD5Transform(a[k - 1], blocks[k])
  <2>1. k - 1 \in Nat /\ k - 1 <= k
    BY <1>3
  <2>2. Run(s, blocks, k, R(k)) /\ Run(s, blocks, k - 1, R(k - 1))
    BY <1>1, <2>1
  <2>3. R(k)[k] = MD5Transform(R(k)[k - 1], blocks[k])
    BY <1>3, <2>2 DEF Run
  <2>4. R(k)[k - 1] = R(k - 1)[k - 1]
    BY <2>1, <2>2, RunsAgree
  <2> QED
    BY <2>1, <2>3, <2>4
<1>4. IsAfter(a)
  <2>1. a = [k \in Nat |-> a[k]]
    OBVIOUS
  <2> HIDE DEF a
  <2> QED
    BY <1>2, <1>3, <2>1
<1> HIDE DEF a
<1>5. IsAfter(after)
  BY <1>4
<1> HIDE DEF after
<1>6. \A n : Digest!StateAfter(s, blocks, n) = after[n]
  BY DEF Digest!StateAfter, after, IsAfter
<1>7. after[0] = s
  BY <1>5
<1>8. ASSUME NEW n \in Nat PROVE after[n + 1] = MD5Transform(after[n], blocks[n + 1])
  <2>1. n + 1 \in Nat /\ n + 1 # 0 /\ (n + 1) - 1 = n
    OBVIOUS
  <2> QED
    BY <1>5, <2>1
<1> QED
  BY <1>6, <1>7, <1>8

\* Only the blocks up to n matter.
LEMMA StateAfterSame ==
  ASSUME NEW s, NEW b, NEW c, NEW n \in Nat, \A k \in 1 .. n : b[k] = c[k]
  PROVE  Digest!StateAfter(s, b, n) = Digest!StateAfter(s, c, n)
<1> DEFINE A(k) == Digest!StateAfter(s, b, k)
           C(k) == Digest!StateAfter(s, c, k)
           X == {k \in Nat : k <= n => A(k) = C(k)}
<1>1. A(0) = s /\ C(0) = s
  BY StateAfterDef
<1>2. ASSUME NEW k \in Nat
      PROVE  A(k + 1) = MD5Transform(A(k), b[k + 1]) /\ C(k + 1) = MD5Transform(C(k), c[k + 1])
  <2>1. A(k + 1) = MD5Transform(A(k), b[k + 1])
    BY StateAfterDef
  <2>2. C(k + 1) = MD5Transform(C(k), c[k + 1])
    BY StateAfterDef
  <2> QED
    BY <2>1, <2>2, Zenon
<1> HIDE DEF A, C
<1>3. ASSUME NEW k \in X PROVE k + 1 \in X
  <2>1. CASE k + 1 <= n
    <3>1. k \in Nat /\ A(k) = C(k) /\ k + 1 \in 1 .. n
      BY <2>1
    <3>2. b[k + 1] = c[k + 1]
      BY <3>1
    <3> QED
      BY <1>2, <3>1, <3>2
  <2> QED
    BY <2>1
<1>4. X = Nat
  <2>1. X \subseteq Nat /\ 0 \in X
    BY <1>1
  <2> HIDE DEF X
  <2> QED
    BY <1>3, <2>1, NatSetInduction
<1>5. A(n) = C(n)
  BY <1>4
<1> QED
  BY <1>5 DEF A, C

\* One may stop after some blocks and go on from there.
LEMMA StateAfterMore ==
  ASSUME NEW s, NEW b, NEW c, NEW m \in Nat, NEW n \in Nat,
         \A k \in 1 .. n : c[k] = b[m + k]
  PROVE  Digest!StateAfter(Digest!StateAfter(s, b, m), c, n) = Digest!StateAfter(s, b, m + n)
<1> DEFINE A(k) == Digest!StateAfter(s, b, k)
           C(k) == Digest!StateAfter(A(m), c, k)
           X == {k \in Nat : k <= n => C(k) = A(m + k)}
<1>1. C(0) = A(m)
  BY StateAfterDef
<1>2. ASSUME NEW k \in Nat
      PROVE  A(k + 1) = MD5Transform(A(k), b[k + 1]) /\ C(k + 1) = MD5Transform(C(k), c[k + 1])
  <2>1. A(k + 1) = MD5Transform(A(k), b[k + 1])
    BY StateAfterDef
  <2>2. C(k + 1) = MD5Transform(C(k), c[k + 1])
    BY StateAfterDef
  <2> QED
    BY <2>1, <2>2, Zenon
<1> HIDE DEF A, C
<1>3. ASSUME NEW k \in X PROVE k + 1 \in X
  <2>1. CASE k + 1 <= n
    <3>1. k \in Nat /\ C(k) = A(m + k) /\ k + 1 \in 1 .. n /\ m + k \in Nat /\ (m + k) + 1 = m + (k + 1)
      BY <2>1
    <3>2. c[k + 1] = b[m + (k + 1)]
      BY <3>1
    <3>3. A((m + k) + 1) = MD5Transform(A(m + k), b[(m + k) + 1])
      BY <1>2, <3>1
    <3>4. C(k + 1) = MD5Transform(C(k), c[k + 1])
      BY <1>2, <3>1
    <3>5. C(k + 1) = A(m + (k + 1))
      BY <3>1, <3>2, <3>3, <3>4
    <3> QED
      BY <3>1, <3>5
  <2> QED
    BY <2>1
<1>4. X = Nat
  <2>1. 0 \in X
    BY <1>1
  <2>2. X \subseteq Nat
    OBVIOUS
  <2> HIDE DEF X
  <2> QED
    BY <1>3, <2>1, <2>2, NatSetInduction
<1>5. C(n) = A(m + n)
  BY <1>4
<1> QED
  BY <1>5 DEF A, C

-----------------------------------------------------------------------------
(* Sequences *)

\* What a part of m followed by x is: a part of m.
LEMMA PartOfLeft ==
  ASSUME NEW S, NEW m \in Seq(S), NEW x \in Seq(S), NEW a \in Nat \ {0}, NEW b \in Nat, b <= Len(m)
  PROVE  SubSeq(m \o x, a, b) = SubSeq(m, a, b)
<1>1. Len(m) \in Nat /\ Len(x) \in Nat
  BY LenProperties
<1>2. /\ m \o x \in Seq(S) /\ Len(m \o x) = Len(m) + Len(x)
      /\ \A i \in 1 .. Len(m) + Len(x) :
           (m \o x)[i] = IF i <= Len(m) THEN m[i] ELSE x[i - Len(m)]
  BY ConcatProperties
<1> QED
  BY <1>1, <1>2

\* Or a part of x.
LEMMA PartOfRight ==
  ASSUME NEW S, NEW m \in Seq(S), NEW x \in Seq(S), NEW a \in Nat \ {0}, NEW b \in Nat, b <= Len(x)
  PROVE  SubSeq(m \o x, Len(m) + a, Len(m) + b) = SubSeq(x, a, b)
<1>1. Len(m) \in Nat /\ Len(x) \in Nat
  BY LenProperties
<1>2. /\ m \o x \in Seq(S) /\ Len(m \o x) = Len(m) + Len(x)
      /\ \A i \in 1 .. Len(m) + Len(x) :
           (m \o x)[i] = IF i <= Len(m) THEN m[i] ELSE x[i - Len(m)]
  BY ConcatProperties
<1> QED
  BY <1>1, <1>2

\* Or the end of m and the begin of x.
LEMMA PartAcross ==
  ASSUME NEW S, NEW m \in Seq(S), NEW x \in Seq(S)
  PROVE  \A a \in 1 .. Len(m) + 1 : \A b \in 0 .. Len(x) :
           SubSeq(m \o x, a, Len(m) + b) = SubSeq(m, a, Len(m)) \o SubSeq(x, 1, b)
<1> TAKE a \in 1 .. Len(m) + 1
<1> TAKE b \in 0 .. Len(x)
<1>a. Len(m) \in Nat /\ Len(x) \in Nat
  BY LenProperties
<1>b. /\ m \o x \in Seq(S) /\ Len(m \o x) = Len(m) + Len(x)
      /\ \A i \in 1 .. Len(m) + Len(x) :
           (m \o x)[i] = IF i <= Len(m) THEN m[i] ELSE x[i - Len(m)]
  BY ConcatProperties
<1> DEFINE w == m \o x
           u == SubSeq(w, a, Len(m) + b)
           y == SubSeq(m, a, Len(m))
           z == SubSeq(x, 1, b)
<1>1. \A i \in 1 .. Len(m) : m[i] \in S
  BY LenProperties, ElementOfSeq
<1>2. \A i \in 1 .. Len(x) : x[i] \in S
  BY LenProperties, ElementOfSeq
<1>3. \A i \in a .. Len(m) + b : w[i] \in S
  BY <1>a, <1>b, ElementOfSeq
<1> HIDE DEF w
<1>4. /\ u \in Seq(S) /\ Len(u) = (IF a <= Len(m) + b THEN Len(m) + b - a + 1 ELSE 0)
      /\ \A i \in 1 .. Len(m) + b - a + 1 : u[i] = w[a + i - 1]
  BY <1>a, <1>3, SubSeqProperties
<1>5. /\ y \in Seq(S) /\ Len(y) = (IF a <= Len(m) THEN Len(m) - a + 1 ELSE 0)
      /\ \A i \in 1 .. Len(m) - a + 1 : y[i] = m[a + i - 1]
  BY <1>a, <1>1, SubSeqProperties
<1>6. /\ z \in Seq(S) /\ Len(z) = b /\ \A i \in 1 .. b : z[i] = x[i]
  BY <1>a, <1>2, SubSeqProperties
<1>7. /\ y \o z \in Seq(S) /\ Len(y \o z) = Len(y) + Len(z)
      /\ \A i \in 1 .. Len(y) + Len(z) :
           (y \o z)[i] = IF i <= Len(y) THEN y[i] ELSE z[i - Len(y)]
  BY <1>5, <1>6, ConcatProperties
<1>8. /\ Len(y) = Len(m) - a + 1 /\ Len(u) = Len(y) + b
      /\ \A i \in 1 .. Len(m) + Len(x) : w[i] = IF i <= Len(m) THEN m[i] ELSE x[i - Len(m)]
  BY <1>a, <1>b, <1>4, <1>5 DEF w
<1> HIDE DEF u, y, z
<1>9. ASSUME NEW i \in 1 .. Len(u) PROVE u[i] = (y \o z)[i]
  <2>1. u[i] = w[a + i - 1] /\ i \in 1 .. Len(y) + b /\ a + i - 1 \in 1 .. Len(m) + b
    BY <1>a, <1>4, <1>8
  <2>2. CASE i <= Len(y)
    <3>1. (y \o z)[i] = y[i] /\ i \in 1 .. Len(m) - a + 1
      BY <1>a, <1>6, <1>7, <1>8, <2>1, <2>2
    <3>2. w[a + i - 1] = m[a + i - 1]
      <4>1. PICK j \in Nat : j = a + i - 1
        BY <2>1
      <4>2. j \in 1 .. Len(m) + Len(x) /\ j <= Len(m)
        BY <1>a, <2>1, <3>1, <4>1
      <4>3. w[j] = m[j]
        BY <1>8, <4>2
      <4> QED
        BY <4>1, <4>3
    <3> QED
      BY <1>5, <2>1, <3>1, <3>2
  <2>3. CASE i > Len(y)
    <3>1. (y \o z)[i] = z[i - Len(y)] /\ i - Len(y) \in 1 .. b
      BY <1>a, <1>6, <1>7, <1>8, <2>1, <2>3
    <3>2. w[a + i - 1] = x[a + i - 1 - Len(m)]
      <4>1. PICK j \in Nat : j = a + i - 1
        BY <2>1
      <4>2. j \in 1 .. Len(m) + Len(x) /\ ~ (j <= Len(m))
        BY <1>a, <1>8, <2>1, <2>3, <4>1
      <4>3. w[j] = x[j - Len(m)]
        BY <1>8, <4>2
      <4> QED
        BY <4>1, <4>3
    <3>3. a + i - 1 - Len(m) = i - Len(y)
      BY <1>a, <1>8, <2>1
    <3> QED
      BY <1>6, <2>1, <3>1, <3>2, <3>3
  <2>4. i <= Len(y) \/ i > Len(y)
    BY <1>a, <1>8, <2>1
  <2> QED
    BY <2>2, <2>3, <2>4
<1>10. Len(u) = Len(y \o z)
  BY <1>6, <1>7, <1>8
<1>11. u = y \o z
  BY <1>4, <1>7, <1>9, <1>10, SeqEqual
<1> QED
  BY <1>11 DEF u, w, y, z

\* A part of a part.
LEMMA PartOfPart ==
  ASSUME NEW S, NEW x \in Seq(S), NEW a \in Nat \ {0}, NEW b \in 0 .. Len(x),
         NEW c \in Nat \ {0}, NEW d \in Nat, d <= b - a + 1
  PROVE  SubSeq(SubSeq(x, a, b), c, d) = SubSeq(x, a + c - 1, a + d - 1)
<1> DEFINE y == SubSeq(x, a, b)
           u == SubSeq(y, c, d)
           v == SubSeq(x, a + c - 1, a + d - 1)
<1>1. Len(x) \in Nat /\ \A i \in 1 .. Len(x) : x[i] \in S
  BY LenProperties, ElementOfSeq
<1>2. /\ y \in Seq(S) /\ Len(y) = (IF a <= b THEN b - a + 1 ELSE 0)
      /\ \A i \in 1 .. b - a + 1 : y[i] = x[a + i - 1]
  BY <1>1, SubSeqProperties
<1>3. \A i \in c .. d : i \in 1 .. Len(y) /\ y[i] \in S
  BY <1>1, <1>2
<1>4. /\ u \in Seq(S) /\ Len(u) = (IF c <= d THEN d - c + 1 ELSE 0)
      /\ \A i \in 1 .. d - c + 1 : u[i] = y[c + i - 1]
  <2> HIDE DEF y
  <2> QED
    BY <1>3, SubSeqProperties
<1>5. \A i \in a + c - 1 .. a + d - 1 : x[i] \in S
  BY <1>1
<1>6. /\ v \in Seq(S) /\ Len(v) = (IF c <= d THEN d - c + 1 ELSE 0)
      /\ \A i \in 1 .. d - c + 1 : v[i] = x[a + c - 1 + i - 1]
  BY <1>5, SubSeqProperties
<1> HIDE DEF y, u, v
<1>7. ASSUME NEW i \in 1 .. Len(u) PROVE u[i] = v[i]
  <2>1. i \in 1 .. d - c + 1 /\ c + i - 1 \in 1 .. b - a + 1
    BY <1>4
  <2>2. u[i] = y[c + i - 1] /\ v[i] = x[a + c - 1 + i - 1]
    BY <1>4, <1>6, <2>1
  <2>3. y[c + i - 1] = x[a + (c + i - 1) - 1]
    BY <1>2, <2>1
  <2>4. a + (c + i - 1) - 1 = a + c - 1 + i - 1
    BY <2>1
  <2> QED
    BY <2>2, <2>3, <2>4
<1>8. Len(u) = Len(v)
  BY <1>4, <1>6
<1>9. u = v
  BY <1>4, <1>6, <1>7, <1>8, SeqEqual
<1> QED
  BY <1>9 DEF u, v, y

-----------------------------------------------------------------------------
(* The context (Md5) *)

\* Where a block of a message is.
LEMMA BlockIs ==
  ASSUME NEW S, NEW m \in Seq(S), NEW k \in 1 .. Len(m) \div 64
  PROVE  /\ Digest!Blocks(m)[k] = SubSeq(m, 64 * k - 63, 64 * k)
         /\ 64 * k - 63 \in Nat \ {0} /\ 64 * k \in Nat /\ 64 * k <= Len(m)
<1>1. Len(m) \in Nat
  BY LenProperties
<1>2. k \in Nat \ {0} /\ 64 * k <= Len(m)
  BY <1>1
<1>3. Digest!Blocks(m)[k] = SubSeq(m, 64 * k - 63, 64 * k)
  BY DEF Digest!Blocks
<1> QED
  BY <1>2, <1>3

\* What follows changes none of the blocks that are complete.
LEMMA BlocksStay ==
  ASSUME NEW S, NEW m \in Seq(S), NEW x \in Seq(S), NEW k \in 1 .. Len(m) \div 64
  PROVE  Digest!Blocks(m \o x)[k] = Digest!Blocks(m)[k]
<1>1. /\ Digest!Blocks(m)[k] = SubSeq(m, 64 * k - 63, 64 * k)
      /\ 64 * k - 63 \in Nat \ {0} /\ 64 * k \in Nat /\ 64 * k <= Len(m)
  BY BlockIs
<1>2. m \o x \in Seq(S) /\ k \in 1 .. Len(m \o x) \div 64
  <2>1. Len(m) \in Nat /\ Len(x) \in Nat /\ m \o x \in Seq(S) /\ Len(m \o x) = Len(m) + Len(x)
    BY LenProperties, ConcatProperties
  <2> QED
    BY <2>1
<1>3. Digest!Blocks(m \o x)[k] = SubSeq(m \o x, 64 * k - 63, 64 * k)
  BY <1>2, BlockIs
<1>4. SubSeq(m \o x, 64 * k - 63, 64 * k) = SubSeq(m, 64 * k - 63, 64 * k)
  <2> DEFINE a == 64 * k - 63
             b == 64 * k
  <2>1. a \in Nat \ {0} /\ b \in Nat /\ b <= Len(m)
    BY <1>1
  <2> HIDE DEF a, b
  <2>2. SubSeq(m \o x, a, b) = SubSeq(m, a, b)
    BY <2>1, PartOfLeft
  <2> QED
    BY <2>2 DEF a, b
<1> QED
  BY <1>1, <1>3, <1>4

\* What a context holds that began with the state s and was given m.
Holds(s, ctx, m) ==
  /\ ctx.count = Len(m)
  /\ ctx.buffer = SubSeq(m, 64 * (Len(m) \div 64) + 1, Len(m))
  /\ ctx.state = Digest!Transforms(s, m)

\* The first p bytes of x complete block q + 1 of what began with m.
EndsBlock(q, m, x, p) ==
  q \in Nat /\ q = Len(m) \div 64 /\ p \in 1 .. Len(x) /\ Len(m) + p = 64 * q + 64

\* That block is what waits of m behind its first q blocks, and those p bytes.
BlockEnds(q, m, x, p) ==
  Digest!Blocks(m \o x)[q + 1] = SubSeq(m, 64 * q + 1, Len(m)) \o SubSeq(x, 1, p)

\* A block across two pieces is made of the end of one and the begin of the other.
LEMMA BlockAcross ==
  ASSUME NEW S, NEW m \in Seq(S), NEW x \in Seq(S), NEW q, NEW p, EndsBlock(q, m, x, p)
  PROVE  BlockEnds(q, m, x, p)
<1>1. Len(m) \in Nat /\ Len(x) \in Nat /\ m \o x \in Seq(S) /\ Len(m \o x) = Len(m) + Len(x)
  BY LenProperties, ConcatProperties
<1>2. q + 1 \in 1 .. Len(m \o x) \div 64 /\ 64 * q + 1 \in 1 .. Len(m) + 1 /\ p \in 0 .. Len(x)
  BY <1>1 DEF EndsBlock
<1>3. 64 * (q + 1) - 63 = 64 * q + 1 /\ 64 * (q + 1) = Len(m) + p
  BY DEF EndsBlock
<1>4. Digest!Blocks(m \o x)[q + 1] = SubSeq(m \o x, 64 * (q + 1) - 63, 64 * (q + 1))
  BY <1>1, <1>2, BlockIs
<1>5. SubSeq(m \o x, 64 * q + 1, Len(m) + p) = SubSeq(m, 64 * q + 1, Len(m)) \o SubSeq(x, 1, p)
  BY <1>2, PartAcross
<1> QED
  BY <1>3, <1>4, <1>5 DEF BlockEnds

\* y are the r blocks of x behind its first p bytes, where q blocks and the
\* begin of another go before x.
BlocksFrom(q, m, x, p, r, y) ==
  /\ q \in Nat /\ p \in 1 .. Len(x) /\ Len(m) + p = 64 * q + 64
  /\ r \in Nat /\ p + 64 * r <= Len(x) /\ y = SubSeq(x, p + 1, p + 64 * r)

\* Those blocks are the ones that follow in the whole message.
LEMMA BlocksBehind ==
  ASSUME NEW S, NEW m \in Seq(S), NEW x \in Seq(S), NEW q, NEW p, NEW r, NEW y,
         BlocksFrom(q, m, x, p, r, y)
  PROVE  /\ y \in Seq(S) /\ Len(y) = 64 * r
         /\ \A k \in 1 .. r : Digest!Blocks(y)[k] = Digest!Blocks(m \o x)[(q + 1) + k]
<1>0. /\ q \in Nat /\ p \in 1 .. Len(x) /\ Len(m) + p = 64 * q + 64
      /\ r \in Nat /\ p + 64 * r <= Len(x) /\ y = SubSeq(x, p + 1, p + 64 * r)
  BY DEF BlocksFrom
<1>1. Len(m) \in Nat /\ Len(x) \in Nat /\ m \o x \in Seq(S) /\ Len(m \o x) = Len(m) + Len(x)
  BY LenProperties, ConcatProperties
<1>2. y \in Seq(S) /\ Len(y) = 64 * r
  <2>1. \A i \in p + 1 .. p + 64 * r : x[i] \in S
    BY <1>0, <1>1, ElementOfSeq
  <2>2. y \in Seq(S) /\ Len(y) = IF p + 1 <= p + 64 * r THEN (p + 64 * r) - (p + 1) + 1 ELSE 0
    <3>1. p + 1 \in Int /\ p + 64 * r \in Int
      BY <1>0
    <3> QED
      BY <1>0, <2>1, <3>1, SubSeqProperties
  <2> QED
    BY <1>0, <2>2
<1>3. ASSUME NEW k \in 1 .. r
      PROVE  Digest!Blocks(y)[k] = Digest!Blocks(m \o x)[(q + 1) + k]
  <2> DEFINE a == 64 * k - 63
             b == 64 * k
             n == (q + 1) + k
  <2>1. a \in Nat \ {0} /\ b \in Nat /\ b <= 64 * r /\ k \in Nat
    BY <1>0
  <2>2. Digest!Blocks(y)[k] = SubSeq(y, a, b)
    <3>1. k \in 1 .. Len(y) \div 64
      BY <1>0, <1>2
    <3> QED
      BY <1>2, <3>1, BlockIs
  <2>3. SubSeq(y, a, b) = SubSeq(x, (p + 1) + a - 1, (p + 1) + b - 1)
    <3>1. p + 1 \in Nat \ {0} /\ p + 64 * r \in 0 .. Len(x) /\ b <= (p + 64 * r) - (p + 1) + 1
      BY <1>0, <1>1, <2>1
    <3> HIDE DEF a, b
    <3> QED
      BY <1>0, <2>1, <3>1, PartOfPart
  <2>4. (p + 1) + a - 1 = p + a /\ (p + 1) + b - 1 = p + b
    BY <1>0, <2>1
  <2>5. Digest!Blocks(m \o x)[n] = SubSeq(m \o x, 64 * n - 63, 64 * n)
    <3>1. n \in 1 .. Len(m \o x) \div 64
      BY <1>0, <1>1, <2>1
    <3> HIDE DEF n
    <3> QED
      BY <1>1, <3>1, BlockIs
  <2>6. 64 * n - 63 = Len(m) + (p + a) /\ 64 * n = Len(m) + (p + b)
    <3>1. 64 * n = (64 * q + 64) + b
      BY <1>0, <2>1
    <3>2. 64 * n = (Len(m) + p) + b
      BY <1>0, <3>1
    <3>3. a = b - 63
      OBVIOUS
    <3>4. n \in Nat
      BY <1>0, <2>1
    <3> HIDE DEF a, b, n
    <3> QED
      BY <1>0, <1>1, <2>1, <3>2, <3>3, <3>4
  <2>7. SubSeq(m \o x, Len(m) + (p + a), Len(m) + (p + b)) = SubSeq(x, p + a, p + b)
    <3>1. p + a \in Nat \ {0} /\ p + b \in Nat /\ p + b <= Len(x)
      BY <1>0, <1>1, <2>1
    <3> DEFINE c == p + a
               d == p + b
    <3>2. c \in Nat \ {0} /\ d \in Nat /\ d <= Len(x)
      BY <3>1
    <3> HIDE DEF c, d
    <3>3. SubSeq(m \o x, Len(m) + c, Len(m) + d) = SubSeq(x, c, d)
      BY <3>2, PartOfRight
    <3> QED
      BY <3>3 DEF c, d
  <2> HIDE DEF a, b, n
  <2>8. Digest!Blocks(y)[k] = Digest!Blocks(m \o x)[n]
    BY <2>2, <2>3, <2>4, <2>5, <2>6, <2>7
  <2> QED
    BY <2>8 DEF n
<1> QED
  BY <1>2, <1>3

\* Numbers of bytes, in blocks of 64 and what is over.
LEMMA Blocks64 ==
  ASSUME NEW n \in Nat, NEW k \in Nat
  PROVE  /\ n \div 64 \in Nat /\ n % 64 \in 0 .. 63 /\ n = 64 * (n \div 64) + (n % 64)
         /\ k < 64 - (n % 64) => (n + k) \div 64 = n \div 64
<1>1. /\ n \div 64 \in Nat /\ n % 64 \in 0 .. 63 /\ n = 64 * (n \div 64) + (n % 64)
  OBVIOUS
<1>2. k < 64 - (n % 64) => (n + k) \div 64 = n \div 64
  OBVIOUS
<1> QED
  BY <1>1, <1>2

\* An update that fills no block only waits.
LEMMA UpdateWaits ==
  ASSUME NEW S, NEW m \in Seq(S), NEW x \in Seq(S), NEW s, NEW ctx, Holds(s, ctx, m),
         Len(x) < 64 - (Len(m) % 64)
  PROVE  Holds(s, Digest!MD5Update(ctx, x), m \o x)
<1> DEFINE q == Len(m) \div 64
           d == Len(m) % 64
           rest == SubSeq(m, 64 * q + 1, Len(m))
<1>1. Len(m) \in Nat /\ Len(x) \in Nat /\ m \o x \in Seq(S) /\ Len(m \o x) = Len(m) + Len(x)
  BY LenProperties, ConcatProperties
<1>2. q \in Nat /\ d \in 0 .. 63 /\ Len(m) = 64 * q + d /\ (Len(m) + Len(x)) \div 64 = q
  BY <1>1, Blocks64
<1>3. ctx.count = Len(m) /\ ctx.buffer = rest /\ ctx.state = Digest!StateAfter(s, Digest!Blocks(m), q)
  BY DEF Holds, Digest!Transforms
<1>4. Digest!MD5Update(ctx, x) =
        [state |-> ctx.state, count |-> Len(m) + Len(x), buffer |-> SubSeq(rest, 1, d) \o x]
  <2>1. ~ (Len(x) >= 64 - (ctx.count % 64))
    BY <1>1, <1>2, <1>3
  <2>2. Digest!MD5Update(ctx, x) =
          [state |-> ctx.state, count |-> ctx.count + Len(x),
           buffer |-> SubSeq(ctx.buffer, 1, ctx.count % 64) \o x]
    BY <2>1, Zenon DEF Digest!MD5Update
  <2> QED
    BY <1>3, <2>2
<1> HIDE DEF q, d
<1>5. SubSeq(rest, 1, d) = rest
  <2>1. \A i \in 64 * q + 1 .. Len(m) : m[i] \in S
    BY <1>1, <1>2, ElementOfSeq
  <2>2. 64 * q + 1 \in Int /\ Len(m) \in Int
    BY <1>1, <1>2
  <2>3. rest \in Seq(S) /\ Len(rest) = IF 64 * q + 1 <= Len(m) THEN Len(m) - (64 * q + 1) + 1 ELSE 0
    BY <2>1, <2>2, SubSeqProperties
  <2> HIDE DEF rest
  <2>4. Len(rest) = d
    BY <1>2, <2>3
  <2> QED
    BY <2>3, <2>4, SubSeqFull
<1>6. rest \o x = SubSeq(m \o x, 64 * q + 1, Len(m) + Len(x))
  <2>1. 64 * q + 1 \in 1 .. Len(m) + 1 /\ Len(x) \in 0 .. Len(x)
    BY <1>1, <1>2
  <2>2. SubSeq(m \o x, 64 * q + 1, Len(m) + Len(x)) = rest \o SubSeq(x, 1, Len(x))
    BY <2>1, PartAcross
  <2>3. SubSeq(x, 1, Len(x)) = x
    BY SubSeqFull
  <2> QED
    BY <2>2, <2>3
<1>7. ctx.state = Digest!StateAfter(s, Digest!Blocks(m \o x), q)
  <2>1. \A k \in 1 .. q : Digest!Blocks(m \o x)[k] = Digest!Blocks(m)[k]
    BY BlocksStay DEF q
  <2>2. Digest!StateAfter(s, Digest!Blocks(m \o x), q) = Digest!StateAfter(s, Digest!Blocks(m), q)
    BY <1>2, <2>1, StateAfterSame
  <2> QED
    BY <1>3, <2>2
<1> DEFINE w == m \o x
           after == Digest!MD5Update(ctx, x)
<1>8. /\ after.count = Len(w) /\ after.buffer = SubSeq(w, 64 * q + 1, Len(w))
      /\ after.state = Digest!StateAfter(s, Digest!Blocks(w), q) /\ Len(w) \div 64 = q
  <2>1. /\ after.count = Len(m) + Len(x) /\ after.buffer = rest \o x
        /\ after.state = ctx.state
    <3> HIDE DEF rest
    <3>1. after = [state |-> ctx.state, count |-> Len(m) + Len(x), buffer |-> rest \o x]
      BY <1>4, <1>5, Zenon
    <3> HIDE DEF after
    <3> QED
      BY <3>1
  <2> HIDE DEF after, rest
  <2> QED
    BY <1>1, <1>2, <1>6, <1>7, <2>1
<1> HIDE DEF w, after
<1>9. Holds(s, after, w)
  BY <1>8 DEF Holds, Digest!Transforms
<1> QED
  BY <1>9 DEF w, after

\* One that fills a block makes the state of this and of all that follow.
LEMMA UpdateTransforms ==
  ASSUME NEW S, NEW m \in Seq(S), NEW x \in Seq(S), NEW s, NEW ctx, Holds(s, ctx, m),
         Len(x) >= 64 - (Len(m) % 64)
  PROVE  Holds(s, Digest!MD5Update(ctx, x), m \o x)
<1> DEFINE q == Len(m) \div 64
           p == 64 - (Len(m) % 64)
           r == (Len(x) - p) \div 64
           w == m \o x
           rest == SubSeq(m, 64 * q + 1, Len(m))
           y == SubSeq(x, p + 1, p + 64 * r)
           A(k) == Digest!StateAfter(s, Digest!Blocks(w), k)
<1>1. Len(m) \in Nat /\ Len(x) \in Nat /\ w \in Seq(S) /\ Len(w) = Len(m) + Len(x)
  BY LenProperties, ConcatProperties
<1>2. /\ q \in Nat /\ p \in 1 .. Len(x) /\ p <= 64 /\ Len(m) + p = 64 * q + 64
      /\ 64 - p = Len(m) % 64 /\ Len(m) = 64 * q + (64 - p)
  BY <1>1
<1>3. r \in Nat /\ p + 64 * r <= Len(x) /\ Len(x) < p + 64 * r + 64
  BY <1>1, <1>2
<1>4. (Len(m) + Len(x)) \div 64 = (q + 1) + r
  <2> HIDE DEF q, p, r
  <2> QED
    BY <1>1, <1>2, <1>3
<1>5. ctx.count = Len(m) /\ ctx.buffer = rest /\ ctx.state = Digest!StateAfter(s, Digest!Blocks(m), q)
  BY DEF Holds, Digest!Transforms
<1>6. SubSeq(rest, 1, Len(m) % 64) = rest
  <2>1. \A i \in 64 * q + 1 .. Len(m) : m[i] \in S
    BY <1>1, <1>2, ElementOfSeq
  <2>2. rest \in Seq(S) /\ Len(rest) = IF 64 * q + 1 <= Len(m) THEN Len(m) - (64 * q + 1) + 1 ELSE 0
    <3>1. 64 * q + 1 \in Int /\ Len(m) \in Int
      BY <1>1, <1>2
    <3> HIDE DEF q
    <3> QED
      BY <2>1, <3>1, SubSeqProperties
  <2> HIDE DEF rest, q, p
  <2>3. Len(rest) = Len(m) % 64
    BY <1>1, <1>2, <2>2
  <2> QED
    BY <2>2, <2>3, SubSeqFull
<1> DEFINE first == MD5Transform(ctx.state, rest \o SubSeq(x, 1, p))
<1>7. Digest!MD5Update(ctx, x) =
        [state |-> Digest!Transforms(first, y), count |-> Len(m) + Len(x),
         buffer |-> SubSeq(x, p + 64 * r + 1, Len(x))]
  <2> DEFINE i == ctx.count % 64
  <2>1. 64 - i = p /\ Len(x) >= 64 - i
    BY <1>5, <1>2
  <2>2. Digest!MD5Update(ctx, x) =
          [state |-> Digest!Transforms(MD5Transform(ctx.state, SubSeq(ctx.buffer, 1, i) \o SubSeq(x, 1, 64 - i)),
                       SubSeq(x, 64 - i + 1, 64 - i + 64 * ((Len(x) - (64 - i)) \div 64))),
           count |-> ctx.count + Len(x),
           buffer |-> SubSeq(x, 64 - i + 64 * ((Len(x) - (64 - i)) \div 64) + 1, Len(x))]
    BY <2>1 DEF Digest!MD5Update
  <2>3. SubSeq(ctx.buffer, 1, i) = rest
    BY <1>5, <1>6
  <2> HIDE DEF i, rest
  <2> QED
    BY <1>5, <2>1, <2>2, <2>3
<1> HIDE DEF r, rest
<1>8. first = A(q + 1)
  <2>1. \A k \in 1 .. q : Digest!Blocks(w)[k] = Digest!Blocks(m)[k]
    BY BlocksStay DEF q
  <2> HIDE DEF w, q, p
  <2>2. ctx.state = A(q)
    BY <1>2, <1>5, <2>1, StateAfterSame
  <2>3. Digest!Blocks(w)[q + 1] = rest \o SubSeq(x, 1, p)
    <3>1. EndsBlock(q, m, x, p)
      BY <1>2 DEF EndsBlock, q
    <3>2. BlockEnds(q, m, x, p)
      BY <3>1, BlockAcross
    <3> QED
      BY <3>2 DEF w, rest, BlockEnds
  <2>4. A(q + 1) = MD5Transform(A(q), Digest!Blocks(w)[q + 1])
    BY <1>2, StateAfterDef
  <2> QED
    BY <2>2, <2>3, <2>4
<1> HIDE DEF q, p, first, A
<1>9. /\ y \in Seq(S) /\ Len(y) = 64 * r
      /\ \A k \in 1 .. r : Digest!Blocks(y)[k] = Digest!Blocks(w)[(q + 1) + k]
  <2>1. BlocksFrom(q, m, x, p, r, y)
    BY <1>2, <1>3 DEF BlocksFrom
  <2> HIDE DEF y
  <2> QED
    BY <2>1, BlocksBehind
<1>10. Digest!Transforms(first, y) = A((q + 1) + r)
  <2> HIDE DEF y, w
  <2>1. Len(y) \div 64 = r
    BY <1>3, <1>9
  <2>2. Digest!Transforms(first, y) = Digest!StateAfter(A(q + 1), Digest!Blocks(y), r)
    BY <1>8, <2>1 DEF Digest!Transforms
  <2>3. q + 1 \in Nat
    BY <1>2
  <2> QED
    <3>1. \A k \in 1 .. r : Digest!Blocks(y)[k] = Digest!Blocks(w)[(q + 1) + k]
      BY <1>9
    <3>2. PICK n, b, c : n = q + 1 /\ b = Digest!Blocks(w) /\ c = Digest!Blocks(y)
      OBVIOUS
    <3>3. Digest!StateAfter(Digest!StateAfter(s, b, n), c, r) = Digest!StateAfter(s, b, n + r)
      <4>1. n \in Nat /\ \A k \in 1 .. r : c[k] = b[n + k]
        BY <2>3, <3>1, <3>2
      <4> QED
        BY <1>3, <4>1, StateAfterMore
    <3> QED
      BY <2>2, <3>2, <3>3 DEF A
<1>11. SubSeq(x, p + 64 * r + 1, Len(x)) = SubSeq(w, 64 * ((q + 1) + r) + 1, Len(m) + Len(x))
  <2> DEFINE a == p + 64 * r + 1
  <2>1. a \in Nat \ {0} /\ Len(x) \in Nat /\ 64 * ((q + 1) + r) + 1 = Len(m) + a
    BY <1>1, <1>2, <1>3
  <2> HIDE DEF a
  <2>2. SubSeq(w, Len(m) + a, Len(m) + Len(x)) = SubSeq(x, a, Len(x))
    BY <2>1, PartOfRight
  <2> QED
    BY <2>1, <2>2 DEF a
<1> DEFINE after == Digest!MD5Update(ctx, x)
           n == (q + 1) + r
<1>12. /\ after.count = Len(m) + Len(x)
       /\ after.buffer = SubSeq(x, p + 64 * r + 1, Len(x))
       /\ after.state = Digest!Transforms(first, y)
  <2>1. after = [state |-> Digest!Transforms(first, y), count |-> Len(m) + Len(x),
                 buffer |-> SubSeq(x, p + 64 * r + 1, Len(x))]
    BY <1>7, Zenon
  <2> HIDE DEF after, y
  <2> QED
    BY <2>1
<1> HIDE DEF after, y, w
<1>13. /\ after.count = Len(w) /\ after.buffer = SubSeq(w, 64 * n + 1, Len(w))
       /\ after.state = Digest!StateAfter(s, Digest!Blocks(w), n) /\ Len(w) \div 64 = n
  BY <1>1, <1>4, <1>10, <1>11, <1>12 DEF A
<1> HIDE DEF n
<1>14. Holds(s, after, w)
  BY <1>13 DEF Holds, Digest!Transforms
<1> QED
  BY <1>14 DEF w, after

\* Whatever was given before, an update adds its input to it.
LEMMA UpdateHolds ==
  ASSUME NEW S, NEW m \in Seq(S), NEW x \in Seq(S), NEW s, NEW ctx, Holds(s, ctx, m)
  PROVE  Holds(s, Digest!MD5Update(ctx, x), m \o x)
<1>1. Len(m) \in Nat /\ Len(x) \in Nat
  BY LenProperties
<1>2. Len(x) < 64 - (Len(m) % 64) \/ Len(x) >= 64 - (Len(m) % 64)
  BY <1>1
<1> QED
  BY <1>2, UpdateWaits, UpdateTransforms

\* The only number of zeros that fills up to 56 modulo 64 behind a byte.
LEMMA ZerosAre ==
  ASSUME NEW n \in Nat, NEW z, z = Digest!PadLen(n % 64) - 1
  PROVE  /\ z \in 0 .. 63 /\ (n + 1 + z) % 64 = 56
         /\ \A y \in 0 .. 63 : (n + 1 + y) % 64 = 56 => y = z
<1> DEFINE d == n % 64
           q == n \div 64
<1>1. d \in 0 .. 63 /\ n = 64 * q + d /\ q \in Nat
  OBVIOUS
<1> HIDE DEF d, q
<1>2. CASE d < 56
  <2>1. z = 55 - d
    <3>1. z = Digest!PadLen(d) - 1
      BY DEF d
    <3> QED
      BY <1>1, <1>2, <3>1 DEF Digest!PadLen
  <2>2. (n + 1 + (55 - d)) % 64 = 56
    BY <1>1
  <2>3. ASSUME NEW y \in 0 .. 63, (n + 1 + y) % 64 = 56 PROVE y = 55 - d
    BY <1>1, <1>2, <2>3
  <2>4. z \in 0 .. 63
    <3>1. 55 - d \in 0 .. 63
      <4>1. d \in 0 .. 63
        BY <1>1, Zenon
      <4> QED
        BY <1>2, <4>1
    <3> QED
      BY <2>1, <3>1
  <2>5. (n + 1 + z) % 64 = 56
    BY <2>1, <2>2
  <2>6. \A y \in 0 .. 63 : (n + 1 + y) % 64 = 56 => y = z
    BY <2>1, <2>3
  <2> QED
    BY <2>4, <2>5, <2>6
<1>3. CASE ~ (d < 56)
  <2>1. z = 119 - d
    <3>1. z = Digest!PadLen(d) - 1
      BY DEF d
    <3> QED
      BY <1>1, <1>3, <3>1 DEF Digest!PadLen
  <2>2. (n + 1 + (119 - d)) % 64 = 56
    BY <1>1
  <2>3. ASSUME NEW y \in 0 .. 63, (n + 1 + y) % 64 = 56 PROVE y = 119 - d
    BY <1>1, <1>3, <2>3
  <2>4. z \in 0 .. 63
    <3>1. 119 - d \in 0 .. 63
      <4>1. d \in 0 .. 63
        BY <1>1, Zenon
      <4> QED
        BY <1>3, <4>1
    <3> QED
      BY <2>1, <3>1
  <2>5. (n + 1 + z) % 64 = 56
    BY <2>1, <2>2
  <2>6. \A y \in 0 .. 63 : (n + 1 + y) % 64 = 56 => y = z
    BY <2>1, <2>3
  <2> QED
    BY <2>4, <2>5, <2>6
<1> QED
  BY <1>2, <1>3

\* MD5Final pads as RFC 1321 asks for.
LEMMA PaddingIs ==
  ASSUME NEW S, NEW m \in Seq(S), 128 \in S, 0 \in S, Digest!Bits(Len(m)) \in Seq(S)
  PROVE  LET pad == SubSeq(Digest!Padding, 1, Digest!PadLen(Len(m) % 64)) IN
           pad \in Seq(S) /\ Digest!Padded(m) = (m \o pad) \o Digest!Bits(Len(m))
<1> DEFINE z == Digest!PadLen(Len(m) % 64) - 1
           zs == [i \in 1 .. z |-> 0]
           pad == SubSeq(Digest!Padding, 1, Digest!PadLen(Len(m) % 64))
           Z == CHOOSE y \in 0 .. 63 : (Len(m) + 1 + y) % 64 = 56
<1>1. Len(m) \in Nat
  BY LenProperties
<1>2. /\ z \in 0 .. 63 /\ (Len(m) + 1 + z) % 64 = 56
      /\ \A y \in 0 .. 63 : (Len(m) + 1 + y) % 64 = 56 => y = z
  BY <1>1, ZerosAre
<1>3. Digest!PadLen(Len(m) % 64) = z + 1
  BY <1>1 DEF Digest!PadLen
<1> HIDE DEF z
<1>4. Z = z
  BY <1>2
<1>5. Digest!Padded(m) = ((m \o <<128>>) \o zs) \o Digest!Bits(Len(m))
  <2> HIDE DEF Z
  <2>1. Digest!Padded(m) = ((m \o <<128>>) \o [i \in 1 .. Z |-> 0]) \o Digest!Bits(Len(m))
    BY DEF Digest!Padded, Z
  <2> QED
    BY <1>4, <2>1
<1>6. zs \in Seq(S) /\ <<128>> \in Seq(S) /\ Len(zs) = z
  BY <1>2
<1>7. pad = <<128>> \o zs
  <2>1. /\ pad \in Seq(S) /\ Len(pad) = z + 1
        /\ \A i \in 1 .. z + 1 : pad[i] = IF i = 1 THEN 128 ELSE 0
    <3>1. \A i \in 1 .. z + 1 : Digest!Padding[i] = IF i = 1 THEN 128 ELSE 0
      <4>1. \A i \in 1 .. 64 : Digest!Padding[i] = IF i = 1 THEN 128 ELSE 0
        BY DEF Digest!Padding
      <4>2. \A i \in 1 .. z + 1 : i \in 1 .. 64
        <5>1. z \in 0 .. 63
          BY <1>2, Zenon
        <5> QED
          BY <5>1
      <4> QED
        BY <4>1, <4>2
    <3>2. \A i \in 1 .. z + 1 : Digest!Padding[i] \in S
      BY <3>1
    <3>3. 1 \in Int /\ z + 1 \in Int /\ 1 <= z + 1 /\ (z + 1) - 1 + 1 = z + 1
      BY <1>2
    <3>4. /\ pad \in Seq(S) /\ Len(pad) = (z + 1) - 1 + 1
          /\ \A i \in 1 .. (z + 1) - 1 + 1 : pad[i] = Digest!Padding[1 + i - 1]
      BY <1>3, <3>2, <3>3, SubSeqProperties
    <3>5. ASSUME NEW i \in 1 .. z + 1 PROVE pad[i] = IF i = 1 THEN 128 ELSE 0
      <4>1. pad[i] = Digest!Padding[1 + i - 1] /\ 1 + i - 1 = i
        BY <3>3, <3>4
      <4> QED
        BY <3>1, <4>1
    <3> QED
      BY <3>3, <3>4, <3>5
  <2>2. /\ <<128>> \o zs \in Seq(S) /\ Len(<<128>> \o zs) = 1 + z
        /\ \A i \in 1 .. 1 + z : (<<128>> \o zs)[i] = IF i = 1 THEN 128 ELSE 0
    <3>1. /\ <<128>> \o zs \in Seq(S) /\ Len(<<128>> \o zs) = Len(<<128>>) + Len(zs)
          /\ \A i \in 1 .. Len(<<128>>) + Len(zs) :
               (<<128>> \o zs)[i] = IF i <= Len(<<128>>) THEN <<128>>[i] ELSE zs[i - Len(<<128>>)]
      <4> HIDE DEF zs
      <4> QED
        BY <1>6, ConcatProperties
    <3>2. Len(<<128>>) = 1 /\ <<128>>[1] = 128 /\ \A i \in 1 .. z : zs[i] = 0
      OBVIOUS
    <3> HIDE DEF zs
    <3>3. ASSUME NEW i \in 1 .. 1 + z PROVE (<<128>> \o zs)[i] = IF i = 1 THEN 128 ELSE 0
      <4>1. (<<128>> \o zs)[i] = IF i <= 1 THEN <<128>>[i] ELSE zs[i - 1]
        BY <1>6, <3>1, <3>2
      <4>2. CASE i = 1
        BY <3>2, <4>1, <4>2
      <4>3. CASE i # 1
        <5>1. i - 1 \in 1 .. z /\ ~ (i <= 1)
          BY <1>2, <4>3
        <5> QED
          BY <3>2, <4>1, <4>3, <5>1
      <4> QED
        BY <4>2, <4>3
    <3> QED
      BY <1>6, <3>1, <3>2, <3>3
  <2> HIDE DEF zs, pad
  <2>3. Len(pad) = Len(<<128>> \o zs) /\ Len(pad) = z + 1 /\ 1 + z = z + 1
    BY <1>2, <2>1, <2>2
  <2>4. \A i \in 1 .. Len(pad) : pad[i] = (<<128>> \o zs)[i]
    BY <2>1, <2>2, <2>3
  <2> QED
    BY <2>1, <2>2, <2>3, <2>4, SeqEqual
<1> HIDE DEF zs, pad
<1>8. pad \in Seq(S)
  BY <1>6, <1>7, ConcatProperties
<1>9. (m \o <<128>>) \o zs = m \o pad
  BY <1>6, <1>7, ConcatAssociative
<1> QED
  BY <1>5, <1>8, <1>9 DEF pad

\* So the digest is that of the whole, whatever made the context.
LEMMA FinalIs ==
  ASSUME NEW S, NEW m \in Seq(S), 128 \in S, 0 \in S, Digest!Bits(Len(m)) \in Seq(S),
         NEW s, NEW ctx, Holds(s, ctx, m)
  PROVE  Digest!MD5Final(ctx) = Digest!Encode(Digest!Transforms(s, Digest!Padded(m)))
<1> DEFINE pad == SubSeq(Digest!Padding, 1, Digest!PadLen(Len(m) % 64))
           padded == Digest!MD5Update(ctx, pad)
           last == Digest!MD5Update(padded, Digest!Bits(Len(m)))
<1>1. ctx.count = Len(m)
  BY DEF Holds
<1>2. Digest!MD5Final(ctx) = Digest!Encode(last.state)
  <2>1. Digest!MD5Final(ctx) =
          Digest!Encode(Digest!MD5Update(Digest!MD5Update(ctx,
            SubSeq(Digest!Padding, 1, Digest!PadLen(ctx.count % 64))), Digest!Bits(ctx.count)).state)
    BY DEF Digest!MD5Final
  <2> QED
    BY <1>1, <2>1
<1>3. pad \in Seq(S) /\ Digest!Padded(m) = (m \o pad) \o Digest!Bits(Len(m))
  BY PaddingIs
<1> HIDE DEF pad
<1>4. Holds(s, padded, m \o pad)
  BY <1>3, UpdateHolds
<1> HIDE DEF padded
<1>5. Holds(s, last, (m \o pad) \o Digest!Bits(Len(m)))
  <2>1. m \o pad \in Seq(S)
    BY <1>3, ConcatProperties
  <2> QED
    BY <1>4, <2>1, UpdateHolds
<1>6. last.state = Digest!Transforms(s, Digest!Padded(m))
  BY <1>3, <1>5 DEF Holds
<1> QED
  BY <1>2, <1>6

-----------------------------------------------------------------------------
(* base64 (Base64) *)

\* Where base64_decode stops.
LEMMA StopIs ==
  ASSUME NEW X, X \subseteq Nat, NEW x \in X, \A y \in X : x <= y
  PROVE  B64!Min(X) = x
<1> DEFINE Least(z) == \A y \in X : z <= y
           min == CHOOSE z \in X : Least(z)
<1>1. Least(x)
  OBVIOUS
<1>2. min \in X /\ Least(min)
  BY <1>1
<1>3. min = x
  <2>1. min \in Nat /\ x \in Nat /\ x <= min /\ min <= x
    <3> HIDE DEF min
    <3> QED
      BY <1>2
  <2> HIDE DEF min
  <2> QED
    BY <2>1
<1> QED
  BY <1>3, Zenon DEF B64!Min

\* The tables: what the one makes of six bits, which is no pad, the other takes
\* back.
LEMMA CharacterBack ==
  ASSUME NEW v \in 0 .. 63
  PROVE  /\ B64!base64en(v) \in Nat /\ B64!base64en(v) # 61
         /\ B64!base64de(B64!base64en(v)) = v
<1>1. CASE v \in 0 .. 25
  <2>1. PICK c \in 65 .. 90 : c = 65 + v
    BY <1>1
  <2>2. B64!base64en(v) = c
    BY <1>1, <2>1 DEF B64!base64en
  <2>3. B64!base64de(c) = c - 65
    BY DEF B64!base64de
  <2> QED
    BY <1>1, <2>1, <2>2, <2>3
<1>2. CASE v \in 26 .. 51
  <2>1. PICK c \in 97 .. 122 : c = 71 + v
    BY <1>2
  <2>2. B64!base64en(v) = c
    BY <1>2, <2>1 DEF B64!base64en
  <2>3. B64!base64de(c) = c - 71
    BY DEF B64!base64de
  <2> QED
    BY <1>2, <2>1, <2>2, <2>3
<1>3. CASE v \in 52 .. 61
  <2>1. PICK c \in 48 .. 57 : c = v - 4
    BY <1>3
  <2>2. B64!base64en(v) = c
    BY <1>3, <2>1 DEF B64!base64en
  <2>3. B64!base64de(c) = c + 4
    BY DEF B64!base64de
  <2> QED
    BY <1>3, <2>1, <2>2, <2>3
<1>4. CASE v = 62 \/ v = 63
  BY <1>4 DEF B64!base64en, B64!base64de
<1> QED
  BY <1>1, <1>2, <1>3, <1>4

\* The bytes, filled with zeros, and the four times six bits of three of them.
ByteOf(bytes, i) == IF i <= Len(bytes) THEN bytes[i] ELSE 0

Sextet(bytes, g, k) ==
  CASE k = 0 -> ByteOf(bytes, 3 * g + 1) \div 4
    [] k = 1 -> (ByteOf(bytes, 3 * g + 1) % 4) * 16 + ByteOf(bytes, 3 * g + 2) \div 16
    [] k = 2 -> (ByteOf(bytes, 3 * g + 2) % 16) * 4 + ByteOf(bytes, 3 * g + 3) \div 64
    [] k = 3 -> ByteOf(bytes, 3 * g + 3) % 64

\* Both are bytes.
LEMMA ByteOfIs ==
  ASSUME NEW bytes \in Seq(0 .. 255), NEW i \in Nat \ {0}
  PROVE  ByteOf(bytes, i) \in 0 .. 255
<1>1. Len(bytes) \in Nat
  BY LenProperties
<1> QED
  BY <1>1, ElementOfSeq DEF ByteOf

\* Six bits each; those of two neighbours hold a byte; and none is left where
\* there are no bytes.
LEMMA SextetsHold ==
  ASSUME NEW bytes \in Seq(0 .. 255), NEW g \in Nat
  PROVE  /\ \A k \in 0 .. 3 : Sextet(bytes, g, k) \in 0 .. 63
         /\ ((Sextet(bytes, g, 0) * 4) % 256) + Sextet(bytes, g, 1) \div 16 = ByteOf(bytes, 3 * g + 1)
         /\ (Sextet(bytes, g, 1) % 16) * 16 + Sextet(bytes, g, 2) \div 4 = ByteOf(bytes, 3 * g + 2)
         /\ (Sextet(bytes, g, 2) % 4) * 64 + Sextet(bytes, g, 3) = ByteOf(bytes, 3 * g + 3)
         /\ \A k \in 1 .. 3 : 3 * g + k > Len(bytes) => Sextet(bytes, g, k) = 0
<1>0. /\ ByteOf(bytes, 3 * g + 1) \in 0 .. 255 /\ ByteOf(bytes, 3 * g + 2) \in 0 .. 255
      /\ ByteOf(bytes, 3 * g + 3) \in 0 .. 255
  <2>1. 3 * g + 1 \in Nat \ {0} /\ 3 * g + 2 \in Nat \ {0} /\ 3 * g + 3 \in Nat \ {0}
    OBVIOUS
  <2> QED
    BY <2>1, ByteOfIs, Zenon
<1>1. PICK b \in 0 .. 255 : b = ByteOf(bytes, 3 * g + 1)
  BY <1>0
<1>2. PICK c \in 0 .. 255 : c = ByteOf(bytes, 3 * g + 2)
  BY <1>0
<1>3. PICK d \in 0 .. 255 : d = ByteOf(bytes, 3 * g + 3)
  BY <1>0
<1>4. /\ Sextet(bytes, g, 0) = b \div 4
      /\ Sextet(bytes, g, 1) = (b % 4) * 16 + c \div 16
      /\ Sextet(bytes, g, 2) = (c % 16) * 4 + d \div 64
      /\ Sextet(bytes, g, 3) = d % 64
  BY <1>1, <1>2, <1>3 DEF Sextet
<1>5. \A k \in 0 .. 3 : Sextet(bytes, g, k) \in 0 .. 63
  <2>1. /\ b \div 4 \in 0 .. 63 /\ (b % 4) * 16 + c \div 16 \in 0 .. 63
        /\ (c % 16) * 4 + d \div 64 \in 0 .. 63 /\ d % 64 \in 0 .. 63
    OBVIOUS
  <2>2. /\ Sextet(bytes, g, 0) \in 0 .. 63 /\ Sextet(bytes, g, 1) \in 0 .. 63
        /\ Sextet(bytes, g, 2) \in 0 .. 63 /\ Sextet(bytes, g, 3) \in 0 .. 63
    BY <1>4, <2>1, Zenon
  <2>3. \A k \in 0 .. 3 : k = 0 \/ k = 1 \/ k = 2 \/ k = 3
    OBVIOUS
  <2> QED
    BY <2>2, <2>3
<1>6. (((b \div 4) * 4) % 256) + ((b % 4) * 16 + c \div 16) \div 16 = b
  OBVIOUS
<1>7. (((b % 4) * 16 + c \div 16) % 16) * 16 + ((c % 16) * 4 + d \div 64) \div 4 = c
  <2>1. PICK h \in 0 .. 15, l \in 0 .. 15 : h = c \div 16 /\ l = c % 16 /\ c = 16 * h + l
    OBVIOUS
  <2>2. PICK f \in 0 .. 3, e \in 0 .. 3 : f = b % 4 /\ e = d \div 64
    OBVIOUS
  <2>3. (f * 16 + h) % 16 = h
    OBVIOUS
  <2>4. (l * 4 + e) \div 4 = l
    OBVIOUS
  <2> QED
    BY <2>1, <2>2, <2>3, <2>4
<1>8. (((c % 16) * 4 + d \div 64) % 4) * 64 + (d % 64) = d
  <2>1. PICK l \in 0 .. 15, e \in 0 .. 3 : l = c % 16 /\ e = d \div 64
    OBVIOUS
  <2>2. (l * 4 + e) % 4 = e
    OBVIOUS
  <2>3. e * 64 + (d % 64) = d
    BY <2>1
  <2> QED
    BY <2>1, <2>2, <2>3
<1>9. ASSUME NEW k \in 1 .. 3, 3 * g + k > Len(bytes) PROVE Sextet(bytes, g, k) = 0
  <2>1. Len(bytes) \in Nat
    BY LenProperties
  <2>2. \A i \in Nat : i > Len(bytes) => ByteOf(bytes, i) = 0
    BY <2>1 DEF ByteOf
  <2>3. (k <= 1 => b = 0) /\ (k <= 2 => c = 0) /\ d = 0
    <3>1. /\ 3 * g + 1 \in Nat /\ (k <= 1 => 3 * g + 1 > Len(bytes))
          /\ 3 * g + 2 \in Nat /\ (k <= 2 => 3 * g + 2 > Len(bytes))
          /\ 3 * g + 3 \in Nat /\ 3 * g + 3 > Len(bytes)
      BY <1>9, <2>1
    <3> QED
      BY <1>1, <1>2, <1>3, <2>2, <3>1, Zenon
  <2> QED
    BY <1>4, <2>3
<1>10. /\ ((Sextet(bytes, g, 0) * 4) % 256) + Sextet(bytes, g, 1) \div 16 = b
       /\ (Sextet(bytes, g, 1) % 16) * 16 + Sextet(bytes, g, 2) \div 4 = c
       /\ (Sextet(bytes, g, 2) % 4) * 64 + Sextet(bytes, g, 3) = d
  <2>1. ((Sextet(bytes, g, 0) * 4) % 256) + Sextet(bytes, g, 1) \div 16 = b
    BY <1>4, <1>6, Zenon
  <2>2. (Sextet(bytes, g, 1) % 16) * 16 + Sextet(bytes, g, 2) \div 4 = c
    BY <1>4, <1>7, Zenon
  <2>3. (Sextet(bytes, g, 2) % 4) * 64 + Sextet(bytes, g, 3) = d
    BY <1>4, <1>8, Zenon
  <2> QED
    BY <2>1, <2>2, <2>3, Zenon
<1> QED
  BY <1>1, <1>2, <1>3, <1>5, <1>9, <1>10

\* in is what base64_encode makes of bytes: groups of four characters, the first
\* n of which are no pads.
EncodedAs(bytes, in, groups, n) ==
  /\ bytes \in Seq(0 .. 255) /\ in = B64!base64_encode(bytes)
  /\ groups = (Len(bytes) + 2) \div 3 /\ n = Len(bytes) + groups

\* The shape of the text: four characters to a group, the pads last.
LEMMA TextIs ==
  ASSUME NEW bytes, NEW in, NEW groups, NEW n, EncodedAs(bytes, in, groups, n)
  PROVE  /\ bytes \in Seq(0 .. 255) /\ Len(bytes) \in Nat
         /\ groups \in Nat /\ n \in 0 .. 4 * groups /\ n = Len(bytes) + groups
         /\ Len(bytes) \in 0 .. 3 * groups /\ 3 * groups < Len(bytes) + 3
         /\ in = [p \in 1 .. 4 * groups |-> B64!Encoded(bytes, (p - 1) \div 4, (p - 1) % 4)]
<1>1. /\ bytes \in Seq(0 .. 255) /\ groups = (Len(bytes) + 2) \div 3 /\ n = Len(bytes) + groups
      /\ in = [p \in 1 .. 4 * ((Len(bytes) + 2) \div 3) |-> B64!Encoded(bytes, (p - 1) \div 4, (p - 1) % 4)]
  BY DEF EncodedAs, B64!base64_encode
<1>2. Len(bytes) \in Nat
  BY <1>1, LenProperties
<1>3. /\ groups \in Nat /\ Len(bytes) <= 3 * groups /\ 3 * groups < Len(bytes) + 3
  BY <1>1, <1>2
<1>4. n \in 0 .. 4 * groups
  BY <1>1, <1>2, <1>3
<1> QED
  BY <1>1, <1>2, <1>3, <1>4

\* Character k of group g, both from 0, is at p.
IsAt(p, g, k) == g = (p - 1) \div 4 /\ k = (p - 1) % 4

\* The place of a character, from its group and back.
LEMMA PlaceIs ==
  ASSUME NEW groups \in Nat, NEW p \in 1 .. 4 * groups, NEW g, NEW k, IsAt(p, g, k)
  PROVE  g \in 0 .. groups - 1 /\ k \in 0 .. 3 /\ p = 4 * g + k + 1
<1>1. g \in Int /\ k \in 0 .. 3 /\ p - 1 = 4 * g + k
  BY DEF IsAt
<1> QED
  BY <1>1

LEMMA PlaceOf ==
  ASSUME NEW g \in Nat, NEW k \in 0 .. 3
  PROVE  IsAt(4 * g + k + 1, g, k)
BY DEF IsAt

\* A character of the text is that of its six bits, or a pad.
LEMMA CharacterIs ==
  ASSUME NEW bytes, NEW in, NEW groups, NEW n, EncodedAs(bytes, in, groups, n),
         NEW p \in 1 .. 4 * groups, NEW g, NEW k, IsAt(p, g, k)
  PROVE  /\ g \in 0 .. groups - 1 /\ k \in 0 .. 3 /\ p = 4 * g + k + 1
         /\ p <= n <=> 3 * g + k <= Len(bytes)
         /\ p <= n => in[p] # 61 /\ B64!base64de(in[p]) = Sextet(bytes, g, k)
         /\ p > n => in[p] = 61
         /\ in[p] \in Nat
<1>1. /\ bytes \in Seq(0 .. 255) /\ Len(bytes) \in Nat
      /\ groups \in Nat /\ n \in 0 .. 4 * groups /\ n = Len(bytes) + groups
      /\ Len(bytes) \in 0 .. 3 * groups /\ 3 * groups < Len(bytes) + 3
      /\ in = [i \in 1 .. 4 * groups |-> B64!Encoded(bytes, (i - 1) \div 4, (i - 1) % 4)]
  BY TextIs
<1>2. g \in 0 .. groups - 1 /\ k \in 0 .. 3 /\ p = 4 * g + k + 1
  <2>1. groups \in Nat
    BY <1>1, Zenon
  <2> QED
    BY <2>1, PlaceIs
<1>3. p <= n <=> 3 * g + k <= Len(bytes)
  <2>1. ASSUME NEW G \in Nat, NEW f \in 0 .. G - 1, NEW j \in 0 .. 3, NEW L \in Nat,
               L <= 3 * G, 3 * G < L + 3
        PROVE  4 * f + j + 1 <= L + G <=> 3 * f + j <= L
    <3>1. CASE f = G - 1
      BY <2>1, <3>1
    <3>2. CASE f <= G - 2
      <4>1. 4 * f + j + 1 <= L + G /\ 3 * f + j <= L
        BY <2>1, <3>2
      <4> QED
        BY <4>1
    <3> QED
      BY <2>1, <3>1, <3>2
  <2>2. 4 * g + k + 1 <= Len(bytes) + groups <=> 3 * g + k <= Len(bytes)
    <3>1. groups \in Nat /\ Len(bytes) \in Nat /\ Len(bytes) <= 3 * groups /\ 3 * groups < Len(bytes) + 3
      BY <1>1
    <3> QED
      BY <1>2, <2>1, <3>1, Zenon
  <2>3. n = Len(bytes) + groups /\ p = 4 * g + k + 1
    BY <1>1, <1>2, Zenon
  <2> QED
    BY <2>2, <2>3, Zenon
<1>4. in[p] = B64!Encoded(bytes, g, k)
  BY <1>1 DEF IsAt
<1>5. in[p] = IF 3 * g + k > Len(bytes) THEN 61 ELSE B64!base64en(Sextet(bytes, g, k))
  BY <1>2, <1>4 DEF B64!Encoded, B64!BASE64_PAD, Sextet, ByteOf
<1>6. Sextet(bytes, g, k) \in 0 .. 63
  <2>1. g \in Nat
    BY <1>1, <1>2
  <2> QED
    BY <1>1, <1>2, <2>1, SextetsHold
<1>7. /\ B64!base64en(Sextet(bytes, g, k)) \in Nat /\ B64!base64en(Sextet(bytes, g, k)) # 61
      /\ B64!base64de(B64!base64en(Sextet(bytes, g, k))) = Sextet(bytes, g, k)
  BY <1>6, CharacterBack, Zenon
<1>8. p <= n => in[p] # 61 /\ B64!base64de(in[p]) = Sextet(bytes, g, k)
  BY <1>1, <1>2, <1>3, <1>5, <1>7
<1>9. p > n => in[p] = 61
  BY <1>1, <1>2, <1>3, <1>5
<1>10. in[p] \in Nat
  BY <1>5, <1>7
<1> QED
  BY <1>2, <1>3, <1>8, <1>9, <1>10

\* base64_decode stops at the first pad, or at the end.
LEMMA StopsAt ==
  ASSUME NEW bytes, NEW in, NEW groups, NEW n, EncodedAs(bytes, in, groups, n)
  PROVE  /\ Len(in) = 4 * groups /\ in \in Seq(Nat)
         /\ B64!Min({i \in 0 .. Len(in) :
              i < Len(in) => in[i + 1] = B64!BASE64_PAD \/ B64!base64de(in[i + 1]) = 255}) = n
<1> DEFINE X == {i \in 0 .. Len(in) : i < Len(in) => in[i + 1] = B64!BASE64_PAD \/ B64!base64de(in[i + 1]) = 255}
<1>1. /\ bytes \in Seq(0 .. 255) /\ Len(bytes) \in Nat
      /\ groups \in Nat /\ n \in 0 .. 4 * groups /\ n = Len(bytes) + groups
      /\ Len(bytes) \in 0 .. 3 * groups /\ 3 * groups < Len(bytes) + 3
      /\ in = [i \in 1 .. 4 * groups |-> B64!Encoded(bytes, (i - 1) \div 4, (i - 1) % 4)]
  BY TextIs
<1>2. ASSUME NEW p \in 1 .. 4 * groups
      PROVE  /\ in[p] \in Nat
             /\ p > n => in[p] = 61
             /\ p <= n => in[p] # 61 /\ B64!base64de(in[p]) # 255
  <2>1. PICK g, k : IsAt(p, g, k)
    BY DEF IsAt
  <2>2. /\ g \in 0 .. groups - 1 /\ k \in 0 .. 3 /\ in[p] \in Nat
        /\ p <= n => in[p] # 61 /\ B64!base64de(in[p]) = Sextet(bytes, g, k)
        /\ p > n => in[p] = 61
    BY <2>1, CharacterIs
  <2>3. Sextet(bytes, g, k) \in 0 .. 63
    <3>1. g \in Nat
      BY <1>1, <2>2
    <3> QED
      BY <1>1, <2>2, <3>1, SextetsHold
  <2> QED
    BY <2>2, <2>3
<1>3. in = [p \in 1 .. 4 * groups |-> in[p]] /\ 4 * groups \in Nat
  BY <1>1
<1>4. Len(in) = 4 * groups /\ in \in Seq(Nat)
  <2>1. PICK G \in Nat : G = 4 * groups
    BY <1>3
  <2>2. in = [p \in 1 .. G |-> in[p]] /\ \A p \in 1 .. G : in[p] \in Nat
    BY <1>2, <1>3, <2>1
  <2>3. Len(in) = G /\ in \in Seq(Nat)
    BY <2>2
  <2> QED
    BY <2>1, <2>3
<1>5. n \in X
  <2>1. n < 4 * groups => n + 1 \in 1 .. 4 * groups /\ n + 1 > n
    <3>1. n \in Nat /\ groups \in Nat
      BY <1>1
    <3> QED
      BY <3>1
  <2>2. n < 4 * groups => in[n + 1] = 61
    <3>1. PICK p : p = n + 1
      OBVIOUS
    <3> QED
      BY <1>2, <2>1, <3>1
  <2> QED
    BY <1>1, <1>4, <2>2 DEF B64!BASE64_PAD
<1>6. ASSUME NEW i \in X PROVE n <= i
  <2>1. CASE i < n
    <3>1. i + 1 \in 1 .. 4 * groups /\ i + 1 <= n /\ i < Len(in)
      BY <1>1, <1>4, <2>1
    <3>2. in[i + 1] # 61 /\ B64!base64de(in[i + 1]) # 255
      BY <1>2, <3>1
    <3> QED
      BY <3>1, <3>2 DEF B64!BASE64_PAD
  <2>2. i \in Nat /\ n \in Nat
    BY <1>1
  <2> QED
    BY <2>1, <2>2
<1>7. X \subseteq Nat
  OBVIOUS
<1> HIDE DEF X
<1>8. B64!Min(X) = n
  BY <1>5, <1>6, <1>7, StopIs
<1> QED
  BY <1>4, <1>8 DEF X

\* Byte j of group g, both from 0, is at i.
IsByteAt(i, g, j) == g = (i - 1) \div 3 /\ j = (i - 1) % 3

\* What is written are the bytes and zeros, and nothing else is missing.
LEMMA DecodedIs ==
  ASSUME NEW bytes, NEW in, NEW groups, NEW n, EncodedAs(bytes, in, groups, n),
         NEW i \in 1 .. 3 * groups, NEW g, NEW j, IsByteAt(i, g, j)
  PROVE  (IF 4 * g + j < n THEN B64!Decoded(in, n, g, j) ELSE 0) = ByteOf(bytes, i)
<1>1. /\ bytes \in Seq(0 .. 255) /\ Len(bytes) \in Nat
      /\ groups \in Nat /\ n \in 0 .. 4 * groups /\ n = Len(bytes) + groups
  <2>1. /\ bytes \in Seq(0 .. 255) /\ Len(bytes) \in Nat /\ groups \in Nat
    BY TextIs
  <2>2. n \in 0 .. 4 * groups /\ n = Len(bytes) + groups
    BY TextIs
  <2> QED
    BY <2>1, <2>2
<1>2. g \in 0 .. groups - 1 /\ j \in 0 .. 2 /\ i = 3 * g + j + 1
  <2>1. groups \in Nat
    BY <1>1, Zenon
  <2>2. g \in Int /\ j \in 0 .. 2 /\ i - 1 = 3 * g + j
    BY <2>1 DEF IsByteAt
  <2> QED
    BY <2>1, <2>2
<1>3. g \in Nat /\ j \in 0 .. 3 /\ j + 1 \in 1 .. 3 /\ j + 1 \in 0 .. 3
  BY <1>1, <1>2
<1>4. PICK p : p = 4 * g + j + 1
  OBVIOUS
<1>5. p \in 1 .. 4 * groups /\ p + 1 \in 1 .. 4 * groups
  <2>1. groups \in Nat
    BY <1>1, Zenon
  <2> QED
    BY <1>2, <1>4, <2>1
<1>6. IsAt(p, g, j) /\ IsAt(p + 1, g, j + 1)
  <2>1. IsAt(4 * g + j + 1, g, j)
    BY <1>3, PlaceOf
  <2>2. IsAt(4 * g + (j + 1) + 1, g, j + 1)
    BY <1>3, PlaceOf, Zenon
  <2>3. p + 1 = 4 * g + (j + 1) + 1
    BY <1>3, <1>4
  <2> QED
    BY <1>4, <2>1, <2>2, <2>3, Zenon
<1>7. /\ p <= n <=> 3 * g + j <= Len(bytes)
      /\ p <= n => B64!base64de(in[p]) = Sextet(bytes, g, j)
  BY <1>5, <1>6, CharacterIs
<1>8. /\ p + 1 <= n <=> 3 * g + (j + 1) <= Len(bytes)
      /\ p + 1 <= n => B64!base64de(in[p + 1]) = Sextet(bytes, g, j + 1)
  <2>1. PICK q, k : q = p + 1 /\ k = j + 1
    OBVIOUS
  <2>2. q \in 1 .. 4 * groups /\ IsAt(q, g, k)
    BY <1>5, <1>6, <2>1, Zenon
  <2>3. /\ q <= n <=> 3 * g + k <= Len(bytes)
        /\ q <= n => B64!base64de(in[q]) = Sextet(bytes, g, k)
    BY <2>2, CharacterIs
  <2> QED
    BY <2>1, <2>3, Zenon
<1>9. CASE p <= n
  <2>1. 4 * g + j < n
    BY <1>1, <1>3, <1>4, <1>9
  <2>2. B64!base64de(in[p]) = Sextet(bytes, g, j)
    BY <1>7, <1>9
  <2>3. (IF p < n THEN B64!base64de(in[p + 1]) ELSE 0) = Sextet(bytes, g, j + 1)
    <3>1. CASE p < n
      <4>1. p + 1 <= n
        BY <1>1, <1>5, <3>1
      <4> QED
        BY <1>8, <3>1, <4>1
    <3>2. CASE ~ (p < n)
      <4>1. ~ (p + 1 <= n)
        BY <1>1, <1>5, <3>2
      <4>2. 3 * g + (j + 1) > Len(bytes)
        BY <1>1, <1>3, <1>8, <4>1
      <4>3. Sextet(bytes, g, j + 1) = 0
        BY <1>1, <1>3, <4>2, SextetsHold
      <4> QED
        BY <3>2, <4>3
    <3> QED
      BY <3>1, <3>2
  <2>4. B64!Decoded(in, n, g, j) = ByteOf(bytes, 3 * g + j + 1)
    <3> DEFINE high == B64!base64de(in[p])
               low == IF p < n THEN B64!base64de(in[p + 1]) ELSE 0
    <3>1. B64!Decoded(in, n, g, j) =
            CASE j = 0 -> ((high * 4) % 256) + low \div 16
              [] j = 1 -> (high % 16) * 16 + low \div 4
              [] j = 2 -> (high % 4) * 64 + low
      BY <1>4 DEF B64!Decoded
    <3>2. high = Sextet(bytes, g, j) /\ low = Sextet(bytes, g, j + 1)
      BY <2>2, <2>3, Zenon
    <3> HIDE DEF high, low
    <3>3. /\ ((Sextet(bytes, g, 0) * 4) % 256) + Sextet(bytes, g, 1) \div 16 = ByteOf(bytes, 3 * g + 1)
          /\ (Sextet(bytes, g, 1) % 16) * 16 + Sextet(bytes, g, 2) \div 4 = ByteOf(bytes, 3 * g + 2)
          /\ (Sextet(bytes, g, 2) % 4) * 64 + Sextet(bytes, g, 3) = ByteOf(bytes, 3 * g + 3)
      BY <1>1, <1>3, SextetsHold, Zenon
    <3>4. CASE j = 0
      <4>1. B64!Decoded(in, n, g, j) = ((high * 4) % 256) + low \div 16
        BY <3>1, <3>4
      <4>2. high = Sextet(bytes, g, 0) /\ low = Sextet(bytes, g, 1) /\ 3 * g + j + 1 = 3 * g + 1
        <5>1. j + 1 = 1 /\ 3 * g + j + 1 = 3 * g + 1
          BY <1>3, <3>4
        <5> QED
          BY <3>2, <3>4, <5>1, Zenon
      <4> QED
        BY <3>3, <4>1, <4>2, Zenon
    <3>5. CASE j = 1
      <4>1. B64!Decoded(in, n, g, j) = (high % 16) * 16 + low \div 4
        BY <3>1, <3>5
      <4>2. high = Sextet(bytes, g, 1) /\ low = Sextet(bytes, g, 2) /\ 3 * g + j + 1 = 3 * g + 2
        <5>1. j + 1 = 2 /\ 3 * g + j + 1 = 3 * g + 2
          BY <1>3, <3>5
        <5> QED
          BY <3>2, <3>5, <5>1, Zenon
      <4> QED
        BY <3>3, <4>1, <4>2, Zenon
    <3>6. CASE j = 2
      <4>1. B64!Decoded(in, n, g, j) = (high % 4) * 64 + low
        BY <3>1, <3>6
      <4>2. high = Sextet(bytes, g, 2) /\ low = Sextet(bytes, g, 3) /\ 3 * g + j + 1 = 3 * g + 3
        <5>1. j + 1 = 3 /\ 3 * g + j + 1 = 3 * g + 3
          BY <1>3, <3>6
        <5> QED
          BY <3>2, <3>6, <5>1, Zenon
      <4> QED
        BY <3>3, <4>1, <4>2, Zenon
    <3> QED
      BY <1>2, <3>4, <3>5, <3>6
  <2> QED
    BY <1>2, <2>1, <2>4
<1>10. CASE ~ (p <= n)
  <2>1. ~ (4 * g + j < n)
    BY <1>1, <1>3, <1>4, <1>10
  <2>2. ~ (i <= Len(bytes))
    <3>1. ~ (3 * g + j <= Len(bytes))
      BY <1>7, <1>10
    <3> QED
      BY <1>1, <1>2, <1>3, <3>1
  <2> QED
    BY <2>1, <2>2 DEF ByteOf
<1> QED
  BY <1>9, <1>10

\* The bytes, filled up with zeros to whole groups of three, are what the loop of
\* decode should end with.
LEMMA FilledIs ==
  ASSUME NEW bytes, NEW in, NEW groups, NEW n, EncodedAs(bytes, in, groups, n)
  PROVE  Filled(bytes) = [i \in 1 .. 3 * groups |-> ByteOf(bytes, i)]
<1> DEFINE L == Len(bytes)
           z == (2 * L) % 3
           zeros == [i \in 1 .. z |-> 0]
<1>1. bytes \in Seq(0 .. 255) /\ L \in Nat /\ groups = (L + 2) \div 3
  BY LenProperties DEF EncodedAs
<1>2. z \in Nat /\ L + z = 3 * groups
  BY <1>1
<1>3. zeros \in Seq(0 .. 255) /\ Len(zeros) = z /\ \A i \in 1 .. z : zeros[i] = 0
  <2> HIDE DEF z
  <2> QED
    BY <1>2
<1>4. Filled(bytes) = bytes \o zeros
  BY DEF Filled
<1> HIDE DEF zeros
<1>5. /\ bytes \o zeros \in Seq(0 .. 255) /\ Len(bytes \o zeros) = L + Len(zeros)
      /\ \A i \in 1 .. L + Len(zeros) : (bytes \o zeros)[i] = IF i <= L THEN bytes[i] ELSE zeros[i - L]
  <2>1. PICK f : f = zeros
    OBVIOUS
  <2>2. f \in Seq(0 .. 255)
    BY <1>3, <2>1, Zenon
  <2>3. /\ bytes \o f \in Seq(0 .. 255) /\ Len(bytes \o f) = Len(bytes) + Len(f)
        /\ \A i \in 1 .. Len(bytes) + Len(f) :
             (bytes \o f)[i] = IF i <= Len(bytes) THEN bytes[i] ELSE f[i - Len(bytes)]
    BY <1>1, <2>2, ConcatProperties
  <2> QED
    BY <2>1, <2>3, Zenon
<1> HIDE DEF z, L
<1>6. PICK f : f = bytes \o zeros
  OBVIOUS
<1>7. f \in Seq(0 .. 255) /\ Len(f) = 3 * groups
  BY <1>2, <1>3, <1>5, <1>6
<1>8. ASSUME NEW i \in 1 .. 3 * groups PROVE f[i] = ByteOf(bytes, i)
  <2>1. f[i] = IF i <= L THEN bytes[i] ELSE zeros[i - L]
    BY <1>2, <1>3, <1>5, <1>6
  <2>2. CASE i <= L
    BY <2>1, <2>2 DEF ByteOf, L
  <2>3. CASE ~ (i <= L)
    <3>1. i - L \in 1 .. z
      BY <1>1, <1>2, <2>3
    <3>2. f[i] = 0
      BY <1>3, <2>1, <2>3, <3>1
    <3> QED
      BY <2>3, <3>2 DEF ByteOf, L
  <2> QED
    BY <2>2, <2>3
<1>9. f = [i \in 1 .. Len(f) |-> f[i]]
  BY <1>7
<1> QED
  BY <1>4, <1>6, <1>7, <1>8, <1>9

\* It does: decode gives the filled bytes for the text of any bytes.
LEMMA DecodesText ==
  ASSUME NEW bytes, NEW in, NEW groups, NEW n, EncodedAs(bytes, in, groups, n)
  PROVE  B64!decode(in) = [i \in 1 .. 3 * groups |-> ByteOf(bytes, i)]
<1> DEFINE out == [i \in 1 .. 3 * (Len(in) \div 4) |-> 0]
           X == {i \in 0 .. Len(in) :
                   i < Len(in) => in[i + 1] = B64!BASE64_PAD \/ B64!base64de(in[i + 1]) = 255}
           Written(k) == 4 * ((k - 1) \div 3) + ((k - 1) % 3) < n
           Byte1(k) == IF Written(k) THEN B64!Decoded(in, n, (k - 1) \div 3, (k - 1) % 3) ELSE 0
<1>1. groups \in Nat
  BY TextIs
<1>2. Len(in) = 4 * groups /\ B64!Min(X) = n
  BY StopsAt
<1>3. Len(in) % 4 = 0 /\ Len(in) \div 4 = groups
  BY <1>1, <1>2
<1>4. out = [i \in 1 .. 3 * groups |-> 0]
  BY <1>3
<1>5. B64!base64_decode(in, out).out =
        [k \in DOMAIN out |-> IF Written(k) THEN B64!Decoded(in, n, (k - 1) \div 3, (k - 1) % 3) ELSE out[k]]
  <2> HIDE DEF out
  <2>1. \A m : m = n => B64!Min(X) = m
    BY <1>2
  <2> HIDE DEF X
  <2> QED
    BY <1>2, <1>3 DEF B64!base64_decode, X
<1>6. ASSUME NEW k \in 1 .. 3 * groups PROVE Byte1(k) = ByteOf(bytes, k)
  <2>1. PICK g, j : g = (k - 1) \div 3 /\ j = (k - 1) % 3
    OBVIOUS
  <2>2. IsByteAt(k, g, j)
    BY <2>1 DEF IsByteAt
  <2>3. (IF 4 * g + j < n THEN B64!Decoded(in, n, g, j) ELSE 0) = ByteOf(bytes, k)
    BY <2>2, DecodedIs
  <2> QED
    BY <2>1, <2>3, Zenon
<1>7. B64!base64_decode(in, out).out = [k \in 1 .. 3 * groups |-> Byte1(k)]
  <2>1. DOMAIN out = 1 .. 3 * groups /\ \A k \in 1 .. 3 * groups : out[k] = 0
    BY <1>4
  <2> HIDE DEF out, Written
  <2> QED
    BY <1>5, <2>1
<1>8. B64!decode(in) = B64!base64_decode(in, out).out
  BY Zenon DEF B64!decode
<1> HIDE DEF out, Byte1
<1> QED
  BY <1>6, <1>7, <1>8

\* decode undoes base64_encode up to the zeros of the last group.
LEMMA BytesBack ==
  ASSUME NEW bytes \in Seq(0 .. 255)
  PROVE  BytesComeBack(bytes)
<1> DEFINE in == B64!base64_encode(bytes)
           groups == (Len(bytes) + 2) \div 3
           n == Len(bytes) + groups
           text == B64!encode(bytes)
<1>1. EncodedAs(bytes, in, groups, n)
  BY DEF EncodedAs
<1> HIDE DEF in, groups, n
<1>2. groups \in Nat
  BY <1>1, TextIs
<1>3. Len(in) = 4 * groups /\ in \in Seq(Nat)
  BY <1>1, StopsAt
<1>4. text = in \o <<0>>
  BY DEF B64!encode, in
<1>5. PICK t : t = <<0>>
  OBVIOUS
<1>6. t \in Seq(Nat) /\ Len(t) = 1
  BY <1>5
<1>7. Len(text) = 4 * groups + 1
  <2>1. Len(in \o t) = Len(in) + Len(t)
    BY <1>3, <1>6, ConcatProperties
  <2> QED
    BY <1>3, <1>4, <1>5, <1>6, <2>1
<1> HIDE DEF text
<1>8. SubSeq(text, 1, Len(text) - 1) = in
  <2>1. SubSeq(in \o t, 1, Len(in)) = SubSeq(in, 1, Len(in))
    <3>1. Len(in) \in Nat /\ Len(in) <= Len(in) /\ 1 \in Nat \ {0}
      BY <1>2, <1>3
    <3>2. in \in Seq(Nat)
      BY <1>3, Zenon
    <3> QED
      BY <1>6, <3>1, <3>2, PartOfLeft, Zenon
  <2>2. SubSeq(in, 1, Len(in)) = in
    BY <1>3, SubSeqFull, Zenon
  <2>3. Len(text) - 1 = Len(in)
    BY <1>2, <1>3, <1>7
  <2> QED
    BY <1>4, <1>5, <2>1, <2>2, <2>3, Zenon
<1>9. B64!decode(in) = Filled(bytes)
  <2>1. Filled(bytes) = [i \in 1 .. 3 * groups |-> ByteOf(bytes, i)]
    BY <1>1, FilledIs, Zenon
  <2>2. B64!decode(in) = [i \in 1 .. 3 * groups |-> ByteOf(bytes, i)]
    BY <1>1, DecodesText, Zenon
  <2> QED
    BY <2>1, <2>2, Zenon
<1>10. \A i \in DOMAIN B64!decode(text) : B64!decode(text)[i] = 0
  <2>1. Len(text) % 4 # 0
    BY <1>2, <1>7
  <2>2. PICK out : out = [i \in 1 .. 3 * (Len(text) \div 4) |-> 0]
    OBVIOUS
  <2>3. B64!decode(text) = out
    <3>1. B64!base64_decode(text, out).out = out
      BY <2>1 DEF B64!base64_decode
    <3> QED
      BY <2>2, <3>1, Zenon DEF B64!decode
  <2> QED
    BY <2>2, <2>3
<1> QED
  BY <1>8, <1>9, <1>10 DEF BytesComeBack, text

-----------------------------------------------------------------------------
(* Headers (WsMsg) *)

\* What set_size makes of a string of zeros.
LEMMA SizedIs ==
  ASSUME NEW s \in Nat, NEW bytes \in Nat, NEW msg, msg = Ws!set_size(Ws!Blank(bytes), s)
  PROVE  /\ msg = [mask |-> 0, len |-> msg.len, buffer |-> msg.buffer, bytes |-> bytes]
         /\ Ws!Size(msg) = s /\ Ws!PayloadSize(msg) = Ws!c_payload_size(s)
         /\ Ws!PayloadSize(msg) = 0 \/ (Ws!PayloadSize(msg) \in {4, 8} /\ 0 \in DOMAIN msg.buffer)
<1> USE DEF Ws!wsbit32, Ws!wsbit64, Ws!Blank, Ws!Size, Ws!PayloadSize, Ws!c_payload_size
<1>0. wsu32max \in Nat
  BY HelpersAssumption
<1>1. CASE s < 126
  <2>1. msg = [mask |-> 0, len |-> s, buffer |-> [i \in {} |-> 0], bytes |-> bytes]
    BY <1>1 DEF Ws!set_size
  <2> QED
    BY <1>1, <2>1
<1> DEFINE at0 == Ws!Put([i \in {} |-> 0], 0, s)
<1>2. at0[0] = s /\ 0 \in DOMAIN at0
  <2>1. PICK none : none = [i \in {} |-> 0]
    OBVIOUS
  <2>2. Ws!Put(none, 0, s)[0] = s /\ 0 \in DOMAIN Ws!Put(none, 0, s)
    BY DEF Ws!Put
  <2> QED
    BY <2>1, <2>2
<1>3. CASE ~ (s < 126) /\ s < wsu32max
  <2>1. msg = [mask |-> 0, len |-> 126, buffer |-> at0, bytes |-> bytes]
    BY <1>3 DEF Ws!set_size
  <2> HIDE DEF at0
  <2> QED
    BY <1>2, <1>3, <2>1
<1>4. CASE ~ (s < 126) /\ ~ (s < wsu32max)
  <2>1. msg = [mask |-> 0, len |-> 127, buffer |-> at0, bytes |-> bytes]
    BY <1>4 DEF Ws!set_size
  <2> HIDE DEF at0
  <2> QED
    BY <1>2, <1>4, <2>1
<1> QED
  BY <1>1, <1>3, <1>4

\* A message of make tells its size and mask, for every size and mask.
LEMMA HeaderIs ==
  ASSUME NEW s \in Nat, NEW mask
  PROVE  /\ HeaderTells(Ws!make_masked(mask, s), s, mask)
         /\ HeaderTells(Ws!make(s), s, 0)
<1> DEFINE p == Ws!c_payload_size(s)
           sized(b) == Ws!set_size(Ws!Blank(b), s)
<1>1. p \in {0, 4, 8}
  BY DEF Ws!c_payload_size
<1>2. HeaderTells(Ws!make(s), s, 0)
  <2> DEFINE bytes == 2 + p + s
  <2>1. PICK msg : msg = sized(bytes)
    OBVIOUS
  <2>2. Ws!make(s) = msg
    BY <2>1 DEF Ws!make, Ws!HeadSize
  <2>3. /\ msg = [mask |-> 0, len |-> msg.len, buffer |-> msg.buffer, bytes |-> bytes]
        /\ Ws!Size(msg) = s /\ Ws!PayloadSize(msg) = p
    <3>1. bytes \in Nat
      BY <1>1
    <3> HIDE DEF bytes
    <3> QED
      BY <2>1, <3>1, SizedIs
  <2> HIDE DEF p, sized
  <2>4. msg.mask = 0 /\ msg.bytes = 2 + p + s
    BY <2>3
  <2>5. Ws!get_mask(msg) = 0
    BY <2>4 DEF Ws!get_mask
  <2>6. Ws!message_size(msg) = 2 + p + s
    BY <1>1, <2>3, <2>4 DEF Ws!message_size, Ws!ExtendSize, Ws!HeadSize, Ws!MaskSize
  <2> QED
    BY <2>2, <2>3, <2>4, <2>5, <2>6 DEF HeaderTells
<1>3. HeaderTells(Ws!make_masked(mask, s), s, mask)
  <2> DEFINE bytes == 6 + p + s
  <2>1. PICK msg : msg = sized(bytes)
    OBVIOUS
  <2>2. PICK masked : masked = Ws!set_mask(msg, mask)
    OBVIOUS
  <2>3. Ws!make_masked(mask, s) = masked
    <3>1. 2 + 4 + p + s = bytes
      BY <1>1
    <3> HIDE DEF p, bytes
    <3> QED
      BY <2>1, <2>2, <3>1 DEF Ws!make_masked, Ws!HeadSize, Ws!MaskSize, p
  <2>4. /\ msg = [mask |-> 0, len |-> msg.len, buffer |-> msg.buffer, bytes |-> bytes]
        /\ Ws!Size(msg) = s /\ Ws!PayloadSize(msg) = p
        /\ p = 0 \/ (p \in {4, 8} /\ 0 \in DOMAIN msg.buffer)
    <3>1. bytes \in Nat
      BY <1>1
    <3> HIDE DEF bytes
    <3> QED
      BY <2>1, <3>1, SizedIs
  <2> HIDE DEF p, sized
  <2> DEFINE put == Ws!Put(msg.buffer, p, mask)
  <2>5. masked = [mask |-> 1, len |-> msg.len, buffer |-> put, bytes |-> bytes]
    <3>1. masked = [msg EXCEPT !.mask = 1, !.buffer = put]
      BY <2>2, <2>4 DEF Ws!set_mask
    <3> HIDE DEF put, bytes
    <3>2. PICK l, b : l = msg.len /\ b = msg.buffer
      OBVIOUS
    <3>3. msg = [mask |-> 0, len |-> l, buffer |-> b, bytes |-> bytes]
      BY <2>4, <3>2
    <3>4. masked = [mask |-> 1, len |-> l, buffer |-> put, bytes |-> bytes]
      BY <3>1, <3>3
    <3> QED
      BY <3>2, <3>4
  <2>6. put[p] = mask /\ (0 \in DOMAIN msg.buffer /\ 0 # p => put[0] = msg.buffer[0])
    <3>1. PICK b : b = msg.buffer
      OBVIOUS
    <3>2. Ws!Put(b, p, mask)[p] = mask /\ (0 \in DOMAIN b /\ 0 # p => Ws!Put(b, p, mask)[0] = b[0])
      BY DEF Ws!Put
    <3> QED
      BY <3>1, <3>2
  <2> HIDE DEF put, bytes
  <2>7. /\ masked.mask = 1 /\ masked.len = msg.len /\ masked.buffer = put /\ masked.bytes = bytes
    BY <2>5
  <2>8. Ws!PayloadSize(masked) = p
    BY <2>4, <2>7 DEF Ws!PayloadSize
  <2>9. Ws!Size(masked) = s
    <3>1. CASE msg.len < 126
      BY <2>4, <2>7, <3>1 DEF Ws!Size, Ws!wsbit32
    <3>2. CASE ~ (msg.len < 126)
      <4>1. p # 0
        BY <2>4, <3>2 DEF Ws!PayloadSize, Ws!wsbit32, Ws!wsbit64
      <4> QED
        BY <2>4, <2>6, <2>7, <3>2, <4>1 DEF Ws!Size, Ws!wsbit32
    <3> QED
      BY <3>1, <3>2
  <2>10. Ws!get_mask(masked) = mask
    BY <2>6, <2>7, <2>8 DEF Ws!get_mask
  <2>11. Ws!message_size(masked) = bytes
    BY <1>1, <2>7, <2>8, <2>9 DEF Ws!message_size, Ws!ExtendSize, Ws!HeadSize, Ws!MaskSize, bytes
  <2> QED
    BY <2>3, <2>7, <2>9, <2>10, <2>11 DEF HeaderTells
<1> QED
  BY <1>2, <1>3

-----------------------------------------------------------------------------
(* URLs (Address) *)

\* What the last, and the first, place of a separator is.
LEMMA MaxIs ==
  ASSUME NEW X, X \subseteq Nat, NEW x \in X, \A y \in X : y <= x
  PROVE  Addr!LastOf(X) = x
<1> DEFINE Greatest(z) == \A y \in X : z >= y
           max == CHOOSE z \in X : Greatest(z)
<1>1. Greatest(x)
  OBVIOUS
<1>2. max \in X /\ Greatest(max)
  BY <1>1
<1>3. max = x
  <2>1. max \in Nat /\ x \in Nat /\ max <= x /\ max >= x
    <3> HIDE DEF max
    <3> QED
      BY <1>2
  <2> HIDE DEF max
  <2> QED
    BY <2>1
<1> QED
  BY <1>3, Zenon DEF Addr!LastOf, Addr!Max

LEMMA MinIs ==
  ASSUME NEW X, X \subseteq Nat, NEW x \in X, \A y \in X : x <= y
  PROVE  Addr!First(X) = x
<1> DEFINE Least(z) == \A y \in X : z <= y
           min == CHOOSE z \in X : Least(z)
<1>1. Least(x)
  OBVIOUS
<1>2. min \in X /\ Least(min)
  BY <1>1
<1>3. min = x
  <2>1. min \in Nat /\ x \in Nat /\ x <= min /\ min <= x
    <3> HIDE DEF min
    <3> QED
      BY <1>2
  <2> HIDE DEF min
  <2> QED
    BY <2>1
<1> QED
  BY <1>3, Zenon DEF Addr!First, Addr!Min

\* url is n tokens of a name, k of what separates it, "@", and an address of three.
UrlOf(url, S, name, sep, address, n, k) ==
  /\ name \in Seq(S) /\ sep \in Seq(S) /\ address \in Seq(S) /\ "@" \in S
  /\ url = name \o sep \o <<"@">> \o address
  /\ n = Len(name) /\ k = Len(sep) /\ Len(address) = 3

\* What is behind the first of the k tokens of a separator.
Behind(sep, k) == SubSeq(sep, 2, k)

\* What stands where in a url,
LEMMA UrlPlaces ==
  ASSUME NEW url, NEW S, NEW name, NEW sep, NEW address, NEW n, NEW k,
         UrlOf(url, S, name, sep, address, n, k)
  PROVE  /\ url \in Seq(S) /\ n \in Nat /\ k \in Nat /\ Len(url) = n + k + 4
         /\ \A i \in 1 .. n : url[i] = name[i]
         /\ \A i \in 1 .. k : url[n + i] = sep[i]
         /\ url[n + k + 1] = "@"
         /\ url[n + k + 2] = address[1] /\ url[n + k + 3] = address[2]
<1>0. /\ name \in Seq(S) /\ sep \in Seq(S) /\ address \in Seq(S) /\ "@" \in S
      /\ n = Len(name) /\ k = Len(sep) /\ Len(address) = 3
  BY DEF UrlOf
<1>1. n \in Nat /\ k \in Nat
  BY <1>0, LenProperties
<1> DEFINE v == name \o sep
           w == v \o <<"@">>
<1>2. /\ v \in Seq(S) /\ Len(v) = n + k
      /\ \A i \in 1 .. n + k : v[i] = IF i <= n THEN name[i] ELSE sep[i - n]
  BY <1>0, ConcatProperties
<1>3. <<"@">> \in Seq(S) /\ Len(<<"@">>) = 1 /\ <<"@">>[1] = "@"
  BY <1>0
<1> HIDE DEF v
<1>4. /\ w \in Seq(S) /\ Len(w) = n + k + 1
      /\ \A i \in 1 .. n + k + 1 : w[i] = IF i <= n + k THEN v[i] ELSE <<"@">>[i - (n + k)]
  <2>1. PICK t : t = <<"@">>
    OBVIOUS
  <2>2. /\ v \o t \in Seq(S) /\ Len(v \o t) = Len(v) + Len(t)
        /\ \A i \in 1 .. Len(v) + Len(t) : (v \o t)[i] = IF i <= Len(v) THEN v[i] ELSE t[i - Len(v)]
    BY <1>2, <1>3, <2>1, ConcatProperties
  <2> QED
    BY <1>1, <1>2, <1>3, <2>1, <2>2
<1>5. url = w \o address
  BY DEF UrlOf, v
<1> HIDE DEF w
<1>6. /\ url \in Seq(S) /\ Len(url) = n + k + 1 + 3
      /\ \A i \in 1 .. n + k + 1 + 3 :
           url[i] = IF i <= n + k + 1 THEN w[i] ELSE address[i - (n + k + 1)]
  <2>1. /\ w \o address \in Seq(S) /\ Len(w \o address) = Len(w) + Len(address)
        /\ \A i \in 1 .. Len(w) + Len(address) :
             (w \o address)[i] = IF i <= Len(w) THEN w[i] ELSE address[i - Len(w)]
    <3>1. w \in Seq(S)
      BY <1>4, Zenon
    <3> QED
      BY <1>0, <3>1, ConcatProperties
  <2> QED
    BY <1>0, <1>4, <1>5, <2>1
<1>7. ASSUME NEW i \in 1 .. n PROVE url[i] = name[i]
  <2>1. /\ i \in 1 .. n + k /\ i \in 1 .. n + k + 1 /\ i \in 1 .. n + k + 1 + 3
        /\ i <= n /\ i <= n + k /\ i <= n + k + 1
    BY <1>1
  <2> QED
    BY <1>2, <1>4, <1>6, <2>1
<1>8. ASSUME NEW i \in 1 .. k PROVE url[n + i] = sep[i]
  <2>1. PICK j : j = n + i
    OBVIOUS
  <2>2. /\ j \in 1 .. n + k /\ j \in 1 .. n + k + 1 /\ j \in 1 .. n + k + 1 + 3
        /\ ~ (j <= n) /\ j <= n + k /\ j <= n + k + 1 /\ j - n = i
    BY <1>1, <2>1
  <2> QED
    BY <1>2, <1>4, <1>6, <2>1, <2>2
<1>9. url[n + k + 1] = "@"
  <2>1. PICK j : j = n + k + 1
    OBVIOUS
  <2>2. /\ j \in 1 .. n + k + 1 /\ j \in 1 .. n + k + 1 + 3
        /\ ~ (j <= n + k) /\ j <= n + k + 1 /\ j - (n + k) = 1
    BY <1>1, <2>1
  <2> QED
    BY <1>3, <1>4, <1>6, <2>1, <2>2
<1>10. ASSUME NEW i \in 1 .. 3 PROVE url[n + k + 1 + i] = address[i]
  <2>1. PICK j : j = n + k + 1 + i
    OBVIOUS
  <2>2. j \in 1 .. n + k + 1 + 3 /\ ~ (j <= n + k + 1) /\ j - (n + k + 1) = i
    BY <1>1, <2>1
  <2> QED
    BY <1>6, <2>1, <2>2
<1>11. url[n + k + 2] = address[1] /\ url[n + k + 3] = address[2]
  <2>1. 1 \in 1 .. 3 /\ 2 \in 1 .. 3
    OBVIOUS
  <2>2. url[n + k + 1 + 1] = address[1] /\ url[n + k + 1 + 2] = address[2]
    BY <1>10, <2>1, Zenon
  <2>3. n + k + 1 + 1 = n + k + 2 /\ n + k + 1 + 2 = n + k + 3
    BY <1>1
  <2> QED
    BY <2>2, <2>3
<1> QED
  BY <1>1, <1>6, <1>7, <1>8, <1>9, <1>11

\* and its parts, cut out at those places.
LEMMA UrlParts ==
  ASSUME NEW url, NEW S, NEW name, NEW sep, NEW address, NEW n, NEW k,
         UrlOf(url, S, name, sep, address, n, k)
  PROVE  /\ SubSeq(url, 1, n) = name
         /\ SubSeq(url, n + 2, n + k) = Behind(sep, k)
         /\ SubSeq(url, n + k + 2, n + k + 4) = address
<1>0. /\ name \in Seq(S) /\ sep \in Seq(S) /\ address \in Seq(S) /\ "@" \in S
      /\ n = Len(name) /\ k = Len(sep) /\ Len(address) = 3
  BY DEF UrlOf
<1>1. n \in Nat /\ k \in Nat
  BY <1>0, LenProperties
<1> DEFINE v == name \o sep
           w == v \o <<"@">>
<1>2. v \in Seq(S) /\ Len(v) = n + k
  BY <1>0, ConcatProperties
<1>3. <<"@">> \in Seq(S) /\ Len(<<"@">>) = 1
  BY <1>0
<1>4. w \in Seq(S) /\ Len(w) = n + k + 1
  <2> HIDE DEF v
  <2>1. PICK t : t = <<"@">>
    OBVIOUS
  <2>2. /\ v \o t \in Seq(S) /\ Len(v \o t) = Len(v) + Len(t)
        /\ \A i \in 1 .. Len(v) + Len(t) : (v \o t)[i] = IF i <= Len(v) THEN v[i] ELSE t[i - Len(v)]
    BY <1>2, <1>3, <2>1, ConcatProperties
  <2> QED
    BY <1>1, <1>2, <1>3, <2>1, <2>2
<1>5. url = w \o address
  BY DEF UrlOf
<1>6. ASSUME NEW a \in Nat \ {0}, NEW b \in Nat, b <= n + k
      PROVE  SubSeq(url, a, b) = SubSeq(v, a, b)
  <2> HIDE DEF v
  <2>1. SubSeq(w, a, b) = SubSeq(v, a, b)
    BY <1>2, <1>3, <1>6, PartOfLeft
  <2> HIDE DEF w
  <2>2. b <= Len(w)
    BY <1>1, <1>4, <1>6
  <2>3. SubSeq(url, a, b) = SubSeq(w, a, b)
    BY <1>4, <1>5, <2>2, PartOfLeft
  <2> QED
    BY <2>1, <2>3
<1>7. SubSeq(url, 1, n) = name
  <2>1. SubSeq(v, 1, n) = SubSeq(name, 1, n)
    BY <1>0, <1>1, PartOfLeft
  <2> HIDE DEF v, w
  <2>2. 1 \in Nat \ {0} /\ n \in Nat /\ n <= n + k
    BY <1>1
  <2>3. SubSeq(url, 1, n) = SubSeq(v, 1, n)
    BY <1>6, <2>2, Zenon
  <2> QED
    BY <1>0, <2>1, <2>3, SubSeqFull
<1>8. SubSeq(url, n + 2, n + k) = SubSeq(sep, 2, k)
  <2>1. SubSeq(v, n + 2, n + k) = SubSeq(sep, 2, k)
    BY <1>0, <1>1, PartOfRight
  <2> HIDE DEF v, w
  <2>2. n + 2 \in Nat \ {0} /\ n + k \in Nat /\ n + k <= n + k
    BY <1>1
  <2>3. SubSeq(url, n + 2, n + k) = SubSeq(v, n + 2, n + k)
    BY <1>6, <2>2, Zenon
  <2> QED
    BY <2>1, <2>3
<1>9. SubSeq(url, n + k + 2, n + k + 4) = address
  <2> HIDE DEF v, w
  <2>1. SubSeq(url, Len(w) + 1, Len(w) + 3) = SubSeq(address, 1, 3)
    <3>1. 1 \in Nat \ {0} /\ 3 \in Nat /\ 3 <= Len(address)
      BY <1>0
    <3>2. SubSeq(w \o address, Len(w) + 1, Len(w) + 3) = SubSeq(address, 1, 3)
      <4>1. ASSUME NEW a \in Nat \ {0}, NEW b \in Nat, b <= Len(address)
            PROVE  SubSeq(w \o address, Len(w) + a, Len(w) + b) = SubSeq(address, a, b)
        <5>1. w \in Seq(S)
          BY <1>4, Zenon
        <5> QED
          BY <4>1, <5>1, PartOfRight
      <4> QED
        BY <3>1, <4>1, Zenon
    <3> QED
      BY <1>5, <3>2
  <2>2. SubSeq(address, 1, 3) = address
    <3>1. SubSeq(address, 1, Len(address)) = address
      BY <1>0, SubSeqFull
    <3> QED
      BY <1>0, <3>1
  <2>3. Len(w) + 1 = n + k + 2 /\ Len(w) + 3 = n + k + 4
    BY <1>1, <1>4
  <2> QED
    BY <2>1, <2>2, <2>3
<1> QED
  BY <1>7, <1>8, <1>9 DEF Behind

\* spliturl finds name and password before the last "@", and in front of that
\* the last ":".
Separates(S, sep, password) ==
  /\ password \in Seq(S) /\ ":" \in S /\ password # <<>>
  /\ sep = <<":">> \o password /\ \A i \in DOMAIN password : password[i] # ":"

\* Such a separator has its only ":" in front.
LEMMA SeparatorIs ==
  ASSUME NEW S, NEW sep, NEW password, Separates(S, sep, password)
  PROVE  /\ sep \in Seq(S) /\ Len(sep) \in Nat /\ Len(sep) >= 2
         /\ sep[1] = ":" /\ \A i \in 2 .. Len(sep) : sep[i] # ":"
         /\ Behind(sep, Len(sep)) = password
<1>1. /\ password \in Seq(S) /\ ":" \in S /\ password # <<>>
      /\ \A i \in DOMAIN password : password[i] # ":"
  BY DEF Separates
<1>2. Len(password) \in Nat \ {0} /\ DOMAIN password = 1 .. Len(password)
  BY <1>1, LenProperties, EmptySeq
<1>3. PICK t : t = <<":">>
  OBVIOUS
<1>4. t \in Seq(S) /\ Len(t) = 1 /\ t[1] = ":"
  BY <1>1, <1>3
<1>5. sep = t \o password
  BY <1>3 DEF Separates
<1>6. /\ sep \in Seq(S) /\ Len(sep) = Len(t) + Len(password)
      /\ \A i \in 1 .. Len(t) + Len(password) :
           sep[i] = IF i <= Len(t) THEN t[i] ELSE password[i - Len(t)]
  BY <1>1, <1>4, <1>5, ConcatProperties
<1>7. ASSUME NEW i \in 2 .. Len(sep) PROVE sep[i] # ":"
  <2>1. i - 1 \in DOMAIN password /\ sep[i] = password[i - 1]
    BY <1>2, <1>4, <1>6
  <2> QED
    BY <1>1, <2>1
<1>8. SubSeq(sep, 2, Len(sep)) = password
  <2>1. ASSUME NEW a \in Nat \ {0}, NEW b \in Nat, b <= Len(password)
        PROVE  SubSeq(t \o password, Len(t) + a, Len(t) + b) = SubSeq(password, a, b)
    BY <1>1, <1>4, <2>1, PartOfRight
  <2>2. 1 \in Nat \ {0} /\ Len(password) \in Nat /\ Len(password) <= Len(password)
    BY <1>2
  <2>3. SubSeq(t \o password, Len(t) + 1, Len(t) + Len(password)) = SubSeq(password, 1, Len(password))
    BY <2>1, <2>2, Zenon
  <2>4. SubSeq(password, 1, Len(password)) = password
    BY <1>1, SubSeqFull
  <2>5. Len(t) + 1 = 2 /\ Len(t) + Len(password) = Len(sep)
    BY <1>4, <1>6
  <2> QED
    BY <1>5, <2>3, <2>4, <2>5
<1> QED
  BY <1>2, <1>4, <1>6, <1>7, <1>8 DEF Behind

\* spliturl takes a url with a password apart.
LEMMA UrlWithPassword ==
  ASSUME NEW url, NEW S, NEW name, NEW sep, NEW password, NEW address, NEW n, NEW k,
         UrlOf(url, S, name, sep, address, n, k), name # <<>>,
         Separates(S, sep, password), address[1] # "@", address[2] # "@"
  PROVE  Addr!spliturl(url) = [name |-> name, password |-> password, addr |-> address]
<1> DEFINE at == n + k + 1
           Ats == {i \in 2 .. Len(url) - 1 : url[i] = "@"}
           Colons == {i \in 2 .. at - 2 : url[i] = ":"}
<1>1. n \in Nat \ {0} /\ k = Len(sep)
  BY LenProperties, EmptySeq DEF UrlOf
<1>3. /\ k \in Nat /\ k >= 2 /\ sep[1] = ":" /\ \A i \in 2 .. k : sep[i] # ":"
      /\ Behind(sep, k) = password
  BY <1>1, SeparatorIs
<1>5. /\ url \in Seq(S) /\ Len(url) = n + k + 4
      /\ \A i \in 1 .. k : url[n + i] = sep[i]
      /\ url[n + k + 1] = "@"
      /\ url[n + k + 2] = address[1] /\ url[n + k + 3] = address[2]
  BY UrlPlaces
<1>6. /\ SubSeq(url, 1, n) = name /\ SubSeq(url, n + 2, n + k) = Behind(sep, k)
      /\ SubSeq(url, n + k + 2, n + k + 4) = address
  <2>1. SubSeq(url, 1, n) = name
    BY UrlParts
  <2>2. SubSeq(url, n + 2, n + k) = Behind(sep, k)
    BY UrlParts
  <2>3. SubSeq(url, n + k + 2, n + k + 4) = address
    BY UrlParts
  <2> QED
    BY <2>1, <2>2, <2>3
<1>8. Addr!LastOf(Ats) = at /\ Ats # {}
  <2>1. Ats \subseteq Nat /\ at \in Ats
    <3>1. at \in 2 .. Len(url) - 1
      BY <1>1, <1>3, <1>5
    <3> QED
      BY <1>5, <3>1
  <2>2. ASSUME NEW i \in Ats PROVE i <= at
    <3>1. i \in 2 .. Len(url) - 1 /\ url[i] = "@"
      OBVIOUS
    <3>2. CASE i = at + 1 \/ i = at + 2
      <4>1. at + 1 = n + k + 2 /\ at + 2 = n + k + 3
        BY <1>1, <1>3
      <4> HIDE DEF at
      <4>2. url[at + 1] # "@" /\ url[at + 2] # "@"
        BY <1>5, <4>1
      <4> QED
        BY <3>1, <3>2, <4>2
    <3>3. i \in Nat /\ at \in Nat /\ i <= at + 2
      <4>1. i \in 2 .. n + k + 3
        BY <1>1, <1>3, <1>5, <3>1
      <4> QED
        BY <1>1, <1>3, <4>1
    <3> HIDE DEF at
    <3>4. i <= at \/ i = at + 1 \/ i = at + 2
      BY <3>3
    <3> QED
      BY <3>2, <3>4
  <2> HIDE DEF Ats, at
  <2> QED
    BY <2>1, <2>2, MaxIs
<1>9. Addr!LastOf(Colons) = n + 1 /\ Colons # {}
  <2>1. Colons \subseteq Nat /\ n + 1 \in Colons
    <3>1. n + 1 \in 2 .. at - 2
      BY <1>1, <1>3
    <3>2. url[n + 1] = ":"
      <4>1. 1 \in 1 .. k
        BY <1>3
      <4> QED
        BY <1>3, <1>5, <4>1
    <3> QED
      BY <3>1, <3>2
  <2>2. ASSUME NEW i \in Colons PROVE i <= n + 1
    <3>1. i \in 2 .. at - 2 /\ url[i] = ":"
      OBVIOUS
    <3>2. CASE i > n + 1
      <4>1. PICK j : j = i - n
        OBVIOUS
      <4>2. j \in 2 .. k /\ j \in 1 .. k /\ n + j = i
        BY <1>1, <1>3, <3>1, <3>2, <4>1
      <4>3. url[n + j] = sep[j] /\ sep[j] # ":"
        BY <1>3, <1>5, <4>2
      <4> QED
        BY <3>1, <4>2, <4>3
    <3> QED
      BY <1>1, <1>3, <3>1, <3>2
  <2>3. n + 1 \in Nat
    BY <1>1
  <2> HIDE DEF Colons
  <2> QED
    BY <2>1, <2>2, <2>3, MaxIs
<1>10. Addr!spliturl(url) =
         [name |-> SubSeq(url, 1, (n + 1) - 1), password |-> SubSeq(url, (n + 1) + 1, at - 1),
          addr |-> SubSeq(url, at + 1, Len(url))]
  <2>1. Addr!spliturl(url) =
          [name |-> SubSeq(url, 1, Addr!LastOf(Colons) - 1),
           password |-> SubSeq(url, Addr!LastOf(Colons) + 1, Addr!LastOf(Ats) - 1),
           addr |-> SubSeq(url, Addr!LastOf(Ats) + 1, Len(url))]
    <3>1. Ats # {} /\ {i \in 2 .. Addr!LastOf(Ats) - 2 : url[i] = ":"} = Colons /\ Colons # {}
      <4> HIDE DEF at
      <4> QED
        BY <1>8, <1>9
    <3> QED
      BY <3>1 DEF Addr!spliturl
  <2> HIDE DEF at, Ats, Colons
  <2> QED
    BY <1>8, <1>9, <2>1
<1>11. (n + 1) - 1 = n /\ (n + 1) + 1 = n + 2 /\ at - 1 = n + k /\ at + 1 = n + k + 2
  BY <1>1, <1>3
<1> HIDE DEF at
<1> QED
  BY <1>3, <1>5, <1>6, <1>10, <1>11

\* Without a password, a name of one word ends at the "@".
LEMMA UrlWithoutPassword ==
  ASSUME NEW url, NEW S, NEW name, NEW address, UrlOf(url, S, name, <<>>, address, 1, 0),
         address[1] # "@", address[2] # "@"
  PROVE  Addr!spliturl(url) = [name |-> name, password |-> <<>>, addr |-> address]
<1> DEFINE Ats == {i \in 2 .. Len(url) - 1 : url[i] = "@"}
<1>1. /\ Len(url) = 1 + 0 + 4 /\ url[1 + 0 + 1] = "@"
      /\ url[1 + 0 + 2] = address[1] /\ url[1 + 0 + 3] = address[2]
  <2>1. ASSUME NEW n, NEW k, UrlOf(url, S, name, <<>>, address, n, k)
        PROVE  /\ Len(url) = n + k + 4 /\ url[n + k + 1] = "@"
               /\ url[n + k + 2] = address[1] /\ url[n + k + 3] = address[2]
    BY <2>1, UrlPlaces
  <2> QED
    BY <2>1, Zenon
<1>2. SubSeq(url, 1, 1) = name /\ SubSeq(url, 1 + 0 + 2, 1 + 0 + 4) = address
  <2>1. ASSUME NEW n, NEW k, UrlOf(url, S, name, <<>>, address, n, k)
        PROVE  SubSeq(url, 1, n) = name /\ SubSeq(url, n + k + 2, n + k + 4) = address
    BY <2>1, UrlParts
  <2> QED
    BY <2>1, Zenon
<1>3. Len(url) = 5 /\ url[2] = "@" /\ url[3] # "@" /\ url[4] # "@"
  BY <1>1
<1>4. Addr!LastOf(Ats) = 2 /\ Ats # {}
  <2>1. Ats \subseteq Nat /\ 2 \in Ats /\ \A i \in Ats : i <= 2
    BY <1>3
  <2> HIDE DEF Ats
  <2> QED
    BY <2>1, MaxIs
<1>5. SubSeq(url, 3, 5) = address
  <2>1. 1 + 0 + 2 = 3 /\ 1 + 0 + 4 = 5
    OBVIOUS
  <2> QED
    BY <1>2, <2>1
<1>6. Addr!spliturl(url) = [name |-> SubSeq(url, 1, 2 - 1), password |-> <<>>, addr |-> SubSeq(url, 2 + 1, Len(url))]
  <2>1. \A a : a = 2 => {i \in 2 .. a - 2 : url[i] = ":"} = {}
    OBVIOUS
  <2> QED
    BY <1>4, <2>1 DEF Addr!spliturl
<1>7. 2 - 1 = 1 /\ 2 + 1 = 3
  OBVIOUS
<1> QED
  BY <1>2, <1>3, <1>5, <1>6, <1>7

\* splitaddr takes an address apart.
LEMMA AddressSplits ==
  ASSUME NEW ip \in Quads, NEW port \in Numbers
  PROVE  Addr!splitaddr(<<ip, ":", port>>) = [ip |-> ip, port |-> port]
<1>1. PICK addr : addr = <<ip, ":", port>>
  OBVIOUS
<1> DEFINE Port == {i \in 1 .. Len(addr) - 1 : addr[i] = ":" /\ addr[i + 1] \in Numbers}
           IpPort == {i \in Port : i > 1 /\ addr[i - 1] \in Quads}
<1>2. Len(addr) = 3 /\ addr[1] = ip /\ addr[2] = ":" /\ addr[3] = port
  BY <1>1
<1>3. 2 \in IpPort
  BY <1>2
<1>4. \A i \in IpPort : i \in Nat /\ 2 <= i
  BY <1>2
<1>5. Addr!First(IpPort) = 2 /\ IpPort # {}
  <2> HIDE DEF IpPort
  <2> QED
    BY <1>3, <1>4, MinIs
<1>6. Addr!splitaddr(addr) = [ip |-> addr[2 - 1], port |-> addr[2 + 1]]
  BY <1>5 DEF Addr!splitaddr
<1> QED
  BY <1>1, <1>2, <1>6

\* Both take apart every url of the inputs, those without a password too.
LEMMA UrlsSplit ==
  ASSUME NEW u \in Inputs, u.kind = "url"
  PROVE  UrlSplits(u)
<1> DEFINE S == Quads \cup Numbers \cup Words \cup {":", "@"}
           address == <<u.ip, ":", u.port>>
           sep == IF u.password = <<>> THEN <<>> ELSE <<":">> \o u.password
           url == u.name \o sep \o <<"@">> \o address
           parts == Addr!spliturl(url)
<1>1. /\ u.ip \in Quads /\ u.port \in Numbers /\ u.name \in Names
      /\ \/ u.password \in Passwords
         \/ u.password = <<>> /\ \E w \in Words : u.name = <<w>>
  BY DEF Inputs, Names
<1>2. {":", "@"} \cap (Quads \cup Numbers \cup Words) = {}
  BY HelpersAssumption
<1>3. /\ u.name \in Seq(S) /\ Len(u.name) \in Nat \ {0} /\ u.name # <<>>
      /\ address \in Seq(S) /\ Len(address) = 3 /\ address[1] = u.ip /\ address[2] = ":"
  <2>1. /\ u.name \in Seq(S) /\ Len(u.name) \in Nat \ {0} /\ u.name # <<>>
    <3>1. CASE \E w \in Words : u.name = <<w>>
      <4>1. PICK w \in Words : u.name = <<w>>
        BY <3>1
      <4> QED
        BY <4>1
    <3>2. CASE \E w, v \in Words : u.name = <<w, ":", v>>
      <4>1. PICK w \in Words, v \in Words : u.name = <<w, ":", v>>
        BY <3>2
      <4> QED
        BY <4>1
    <3> QED
      BY <1>1, <3>1, <3>2 DEF Names
  <2>2. /\ address \in Seq(S) /\ Len(address) = 3 /\ address[1] = u.ip /\ address[2] = ":"
    BY <1>1
  <2> QED
    BY <2>1, <2>2
<1>4. address[1] # "@" /\ address[2] # "@"
  BY <1>1, <1>2, <1>3
<1>5. Addr!splitaddr(address) = [ip |-> u.ip, port |-> u.port]
  BY <1>1, AddressSplits
<1> HIDE DEF address
<1>6. parts = [name |-> u.name, password |-> u.password, addr |-> address]
  <2>1. CASE u.password \in Passwords
    <3>1. /\ u.password \in Seq(S) /\ u.password # <<>>
          /\ \A i \in DOMAIN u.password : u.password[i] # ":"
      <4>1. CASE \E w \in Words : u.password = <<w>>
        <5>1. PICK w \in Words : u.password = <<w>>
          BY <4>1
        <5> QED
          BY <1>2, <5>1
      <4>2. CASE \E w, v \in Words : u.password = <<w, "@", v>>
        <5>1. PICK w \in Words, v \in Words : u.password = <<w, "@", v>>
          BY <4>2
        <5>2. w # ":" /\ v # ":"
          BY <1>2
        <5>3. \A i \in DOMAIN <<w, "@", v>> : i = 1 \/ i = 2 \/ i = 3
          OBVIOUS
        <5> QED
          BY <5>1, <5>2, <5>3
      <4> QED
        BY <2>1, <4>1, <4>2 DEF Passwords
    <3>2. Separates(S, sep, u.password)
      BY <3>1 DEF Separates
    <3>3. sep \in Seq(S)
      <4> HIDE DEF sep, S
      <4> QED
        BY <3>2, SeparatorIs
    <3>4. UrlOf(url, S, u.name, sep, address, Len(u.name), Len(sep))
      <4> HIDE DEF sep
      <4> QED
        BY <1>3, <3>3 DEF UrlOf
    <3> HIDE DEF S, sep, url
    <3> QED
      BY <1>3, <1>4, <3>2, <3>4, UrlWithPassword
  <2>2. CASE u.password = <<>> /\ \E w \in Words : u.name = <<w>>
    <3>1. UrlOf(url, S, u.name, <<>>, address, 1, 0)
      BY <1>3, <2>2 DEF UrlOf
    <3> HIDE DEF S, url
    <3> QED
      BY <1>4, <2>2, <3>1, UrlWithoutPassword
  <2> QED
    BY <1>1, <2>1, <2>2
<1>7. parts.name = u.name /\ parts.password = u.password /\ parts.addr = address
  <2> HIDE DEF parts
  <2> QED
    BY <1>6
<1> HIDE DEF parts
<1> QED
  BY <1>5, <1>7 DEF UrlSplits, parts, url, sep, address

-----------------------------------------------------------------------------
(* The utilities side by side (Helpers) *)

\* Whatever a digest is made of.
DigestBytes ==
  {Byte(i) : i \in Nat} \cup {0, 128} \cup {Digest!Bits(n)[i] : n \in Nat, i \in 1 .. 8}

\* The inductive invariants: the context holds the message, and nothing changes
\* what is converted.
HoldsMessage ==
  part = "md5" =>
    /\ message \in Seq(DigestBytes)
    /\ Holds(Digest!MD5Init(long).state, context, message)

InputsStay == part = "conversion" => input \in Inputs

\* Nothing waits in a context at its beginning (MD5Init).
LEMMA InitHolds ==
  ASSUME NEW size
  PROVE  Holds(Digest!MD5Init(size).state, Digest!MD5Init(size), <<>>)
<1> DEFINE ctx == Digest!MD5Init(size)
           m == <<>>
<1>1. ctx.count = 0 /\ ctx.buffer = <<>>
  BY DEF Digest!MD5Init
<1> HIDE DEF ctx
<1>2. Len(m) = 0 /\ Len(m) \div 64 = 0 /\ 64 * (Len(m) \div 64) + 1 = 1
  OBVIOUS
<1>3. SubSeq(m, 1, 0) = m
  BY SubSeqFull
<1>4. Digest!Transforms(ctx.state, m) = ctx.state
  BY <1>2, StateAfterDef DEF Digest!Transforms
<1> HIDE DEF m
<1>5. Holds(ctx.state, ctx, m)
  BY <1>1, <1>2, <1>3, <1>4 DEF Holds, m
<1> QED
  BY <1>5 DEF ctx, m

\* HoldsMessage is inductive,
LEMMA InitHoldsMessage == HelpersInit => HoldsMessage
<1> SUFFICES ASSUME HelpersInit, part = "md5" PROVE HoldsMessage
  BY DEF HoldsMessage
<1>1. context = Digest!MD5Init(long) /\ message = <<>>
  BY DEF HelpersInit, Digest!Init
<1>2. message \in Seq(DigestBytes)
  BY <1>1
<1> QED
  BY <1>1, <1>2, InitHolds DEF HoldsMessage

\* in each step,
LEMMA StepHoldsMessage ==
  HoldsMessage /\ [HelpersNext]_<<registryVars, part, long, context, message, input>> => HoldsMessage'
<1> SUFFICES ASSUME HoldsMessage, part' = "md5",
                    [HelpersNext]_<<registryVars, part, long, context, message, input>>
             PROVE  HoldsMessage'
  BY DEF HoldsMessage
<1>1. CASE UNCHANGED <<part, long, context, message>>
  BY <1>1 DEF HoldsMessage
<1>2. CASE part = "md5" /\ Digest!Next
  <2>1. PICK n \in Pieces : Digest!Update(n)
    BY <1>2 DEF Digest!Next
  <2>2. n \in Nat
    BY HelpersAssumption
  <2> DEFINE x == [i \in 1 .. n |-> Byte(Len(message) + i)]
  <2>3. context' = Digest!MD5Update(context, x) /\ message' = message \o x /\ long' = long
    BY <2>1 DEF Digest!Update
  <2>4. message \in Seq(DigestBytes) /\ Holds(Digest!MD5Init(long).state, context, message)
    BY <1>2 DEF HoldsMessage
  <2>5. Len(message) \in Nat
    BY <2>4, LenProperties
  <2>6. x \in Seq(DigestBytes)
    <3>1. ASSUME NEW i \in 1 .. n PROVE Byte(Len(message) + i) \in DigestBytes
      <4>1. Len(message) + i \in Nat
        BY <2>2, <2>5
      <4> QED
        BY <4>1 DEF DigestBytes
    <3> QED
      BY <2>2, <3>1
  <2> HIDE DEF x
  <2>7. Holds(Digest!MD5Init(long).state, Digest!MD5Update(context, x), message \o x)
    BY <2>4, <2>6, UpdateHolds
  <2>8. message \o x \in Seq(DigestBytes)
    BY <2>4, <2>6, ConcatProperties
  <2> QED
    BY <2>3, <2>7, <2>8 DEF HoldsMessage
<1> QED
  BY <1>1, <1>2 DEF HelpersNext

\* and MD5Final of a context that holds the message gives the digest of the whole.
LEMMA HoldsMessageImplies == HoldsMessage => DigestOfWhole
<1> SUFFICES ASSUME HoldsMessage, part = "md5" PROVE Digest!DigestOfWhole
  BY DEF DigestOfWhole
<1> DEFINE s == Digest!MD5Init(long).state
           q == Len(message) \div 64
<1>1. message \in Seq(DigestBytes) /\ Holds(s, context, message)
  BY DEF HoldsMessage
<1> HIDE DEF s
<1>2. Len(message) \in Nat
  BY <1>1, LenProperties
<1>3. Digest!TypeOK
  <2>1. context.count = Len(message) /\ context.buffer = SubSeq(message, 64 * q + 1, Len(message))
    BY <1>1 DEF Holds
  <2>2. q \in Nat /\ 64 * q + 1 \in Nat \ {0} /\ 64 * q <= Len(message)
        /\ Len(message) - (64 * q) = Len(message) % 64
    BY <1>2
  <2>3. \A i \in 64 * q + 1 .. Len(message) : message[i] \in DigestBytes
    BY <1>1, <1>2, <2>2, ElementOfSeq
  <2> HIDE DEF q
  <2>4. Len(context.buffer) =
          IF 64 * q + 1 <= Len(message) THEN Len(message) - (64 * q + 1) + 1 ELSE 0
    BY <1>2, <2>1, <2>2, <2>3, SubSeqProperties
  <2>5. Len(context.buffer) = Len(message) % 64
    BY <1>2, <2>2, <2>4
  <2> QED
    BY <2>1, <2>5 DEF Digest!TypeOK
<1>4. Digest!MD5Final(context) = Digest!Encode(Digest!Transforms(s, Digest!Padded(message)))
  <2>1. 128 \in DigestBytes /\ 0 \in DigestBytes
    BY DEF DigestBytes
  <2>2. Digest!Bits(Len(message)) \in Seq(DigestBytes)
    <3>1. \A i \in 1 .. 8 : Digest!Bits(Len(message))[i] \in DigestBytes
      BY <1>2 DEF DigestBytes
    <3>2. Digest!Bits(Len(message)) = [i \in 1 .. 8 |-> Digest!Bits(Len(message))[i]]
      BY DEF Digest!Bits
    <3> QED
      BY <3>1, <3>2
  <2> QED
    BY <1>1, <2>1, <2>2, FinalIs
<1> QED
  BY <1>3, <1>4 DEF Digest!DigestOfWhole, s

\* However a message is cut into updates, MD5Final makes the digest of the whole
\* (md5.cpp): for any bytes, any sizes of the pieces, and whatever MD5Transform
\* computes.
THEOREM DigestsOfWholes == HelpersSpec => []DigestOfWhole
<1>1. HelpersSpec => []HoldsMessage
  BY InitHoldsMessage, StepHoldsMessage, PTL DEF HelpersSpec
<1> QED
  BY <1>1, HoldsMessageImplies, PTL

\* Each kind of input comes back from its conversion.
LEMMA InputsRound == InputsStay => RoundTrip
<1> SUFFICES ASSUME InputsStay, part = "conversion"
             PROVE  /\ input.kind = "base64" => BytesComeBack(input.bytes)
                    /\ input.kind = "wsmsg" =>
                         /\ HeaderTells(Ws!make_masked(input.mask, input.size), input.size, input.mask)
                         /\ HeaderTells(Ws!make(input.size), input.size, 0)
                    /\ input.kind = "url" => UrlSplits(input)
  BY DEF RoundTrip
<1>1. input \in Inputs
  BY DEF InputsStay
<1>2. CASE input.kind = "base64"
  <2>1. input.bytes \in UNION {[1 .. n -> Bytes] : n \in 0 .. MaxLen}
    BY <1>1, <1>2 DEF Inputs
  <2>2. input.bytes \in Seq(0 .. 255)
    <3>1. PICK n \in 0 .. MaxLen : input.bytes \in [1 .. n -> Bytes]
      BY <2>1
    <3>2. n \in Nat /\ Bytes \subseteq 0 .. 255
      BY HelpersAssumption
    <3>3. PICK f : f = input.bytes
      OBVIOUS
    <3>4. f \in [1 .. n -> 0 .. 255]
      BY <3>1, <3>2, <3>3
    <3>5. PICK B : B = 0 .. 255
      OBVIOUS
    <3>6. \A k \in Nat : \A g \in [1 .. k -> B] : g \in Seq(B)
      OBVIOUS
    <3> QED
      BY <3>2, <3>3, <3>4, <3>5, <3>6, Zenon
  <2> QED
    BY <1>2, <2>2, BytesBack
<1>3. CASE input.kind = "wsmsg"
  <2>1. input.size \in Nat
    BY <1>1, <1>3, HelpersAssumption DEF Inputs
  <2> QED
    BY <1>3, <2>1, HeaderIs
<1>4. CASE input.kind = "url"
  BY <1>1, <1>4, UrlsSplit
<1> QED
  BY <1>2, <1>3, <1>4

\* What one half of a conversion makes, the other takes apart again (base64.cpp,
\* wsmsg.cpp, asyncsys.cpp): for bytes of any number, messages of any size and
\* mask, and any words, numbers and addresses of which none is a ":" or "@".
THEOREM ConversionsRound == HelpersSpec => []RoundTrip
<1>1. HelpersInit => InputsStay
  BY DEF HelpersInit, InputsStay
<1>2. InputsStay /\ [HelpersNext]_<<registryVars, part, long, context, message, input>> => InputsStay'
  BY DEF InputsStay, HelpersNext, Inputs, Names, Passwords
<1>3. HelpersSpec => []InputsStay
  BY <1>1, <1>2, PTL DEF HelpersSpec
<1> QED
  BY <1>3, InputsRound, PTL
=============================================================================
