--------------------------- MODULE FollowupProofs ---------------------------
(***************************************************************************)
(* The types and bounds of FollowupManager, for every value of its         *)
(* constants.                                                              *)
(*                                                                         *)
(* FollowupTypeOK is not inductive.  TypeInv adds to it what the calls in  *)
(* flight rely on: a waiting call is in the queue of its pull request and  *)
(* a working one at its head (QueuesOK), the items a webhook's loop has    *)
(* still to end are there to be ended (LeftLive), an identifier is spare   *)
(* for each call that may create an item (RoomLeft), one call at a time is *)
(* in such a loop (OneResolves), a dead process holds nothing              *)
(* (NothingDown).                                                          *)
(*                                                                         *)
(* Every step is a CallStep, which moves only calls and queues, a BodyStep *)
(* of the call at the head of a queue, Tick, Crash or Restart (StepIs).    *)
(* To memory and rows a BodyStep does one of five things (Does): nothing   *)
(* (Kept), or it moves an item on (MovesTo), creates one (Creates), ends   *)
(* one (Ends) or notes a push (Notes).  Invariants about the data are      *)
(* proved over these, here and in FollowupSafetyProofs, whatever calls     *)
(* there are.                                                              *)
(*                                                                         *)
(* Recursion over the rows (hydrate's list of seen events) is a recursive  *)
(* function; that it exists and what it holds is proved from the well-     *)
(* foundedness of the natural numbers, by its least counterexample         *)
(* (LeastNumber, LoopExists, LoopSeen).                                    *)
(***************************************************************************)
EXTENDS FollowupManager, SequenceTheorems, FiniteSetTheorems, WellFoundedInduction, TLAPS

USE DEF Procs

-----------------------------------------------------------------------------
(* Sets of numbers, and sequences without repetitions                      *)

\* The least element of a set of natural numbers.
LEMMA LeastNumber ==
  ASSUME NEW T \in SUBSET Nat, T # {}
  PROVE  \E x \in T : \A y \in T : x <= y
<1>. DEFINE R == OpToRel(<, Nat)
<1>1. IsWellFoundedOn(R, Nat)
  BY NatLessThanWellFounded
<1>2. \A x, y \in Nat : x < y => <<x, y>> \in R
  BY DEF OpToRel
<1>3. T \subseteq Nat
  OBVIOUS
<1>. HIDE DEF R
<1>4. PICK x \in T : \A y \in T : ~(<<y, x>> \in R)
  BY <1>1, <1>3, WFMin
<1>5. \A y \in T : ~(y < x)
  BY <1>2, <1>3, <1>4
<1>. QED  BY <1>3, <1>5

Distinct(s) == \A m, n \in 1..Len(s) : s[m] = s[n] => m = n

LEMMA ToSetOf ==
  ASSUME NEW S, NEW s \in Seq(S)
  PROVE  /\ ToSet(s) = {s[n] : n \in 1..Len(s)}
         /\ ToSet(s) \subseteq S
<1>1. DOMAIN s = 1..Len(s)
  BY LenProperties
<1>2. \A n \in 1..Len(s) : s[n] \in S
  BY ElementOfSeq
<1>. QED  BY <1>1, <1>2 DEF ToSet

\* A sequence of different elements of a set is no longer than the set.
LEMMA DistinctLen ==
  ASSUME NEW S, IsFiniteSet(S), NEW s \in Seq(S), Distinct(s)
  PROVE  Len(s) <= Cardinality(S)
<1>1. Len(s) \in Nat /\ s \in [1..Len(s) -> S]
  BY LenProperties
<1>2. s \in Injection(1..Len(s), S)
  BY <1>1 DEF Distinct, Injection, IsInjective
<1>3. Cardinality(1..Len(s)) <= Cardinality(S)
  BY <1>2, FS_Injection
<1>4. Cardinality(1..Len(s)) = Len(s)
  BY <1>1, FS_Interval
<1>. QED  BY <1>3, <1>4

\* A sequence without the element at one of its places.
LEMMA RemovedAt ==
  ASSUME NEW S, NEW s \in Seq(S), NEW i \in 1..Len(s)
  PROVE  /\ RemoveAt(s, i) \in Seq(S)
         /\ Len(RemoveAt(s, i)) = Len(s) - 1
         /\ \A n \in 1..(Len(s) - 1) :
              RemoveAt(s, i)[n] = IF n < i THEN s[n] ELSE s[n + 1]
<1>. DEFINE a == SubSeq(s, 1, i - 1)
            b == SubSeq(s, i + 1, Len(s))
<1>1. Len(s) \in Nat /\ \A n \in 1..Len(s) : s[n] \in S
  BY ElementOfSeq, LenProperties
<1>2. /\ a \in Seq(S) /\ Len(a) = i - 1
      /\ \A n \in 1..(i - 1) : a[n] = s[n]
  <2>1. \A n \in 1..(i - 1) : s[n] \in S
    BY <1>1
  <2>2. /\ a \in Seq(S)
        /\ Len(a) = IF 1 <= i - 1 THEN i - 1 - 1 + 1 ELSE 0
        /\ \A n \in 1..(i - 1 - 1 + 1) : a[n] = s[1 + n - 1]
    BY <1>1, <2>1, SubSeqProperties
  <2>. QED  BY <1>1, <2>2
<1>3. /\ b \in Seq(S) /\ Len(b) = Len(s) - i
      /\ \A n \in 1..(Len(s) - i) : b[n] = s[n + i]
  <2>1. \A n \in (i + 1)..Len(s) : s[n] \in S
    BY <1>1
  <2>2. /\ b \in Seq(S)
        /\ Len(b) = IF i + 1 <= Len(s) THEN Len(s) - (i + 1) + 1 ELSE 0
        /\ \A n \in 1..(Len(s) - (i + 1) + 1) : b[n] = s[(i + 1) + n - 1]
    BY <1>1, <2>1, SubSeqProperties
  <2>. QED  BY <1>1, <2>2
<1>4. /\ a \o b \in Seq(S) /\ Len(a \o b) = Len(a) + Len(b)
      /\ \A n \in 1..(Len(a) + Len(b)) :
           (a \o b)[n] = IF n <= Len(a) THEN a[n] ELSE b[n - Len(a)]
  BY <1>2, <1>3, ConcatProperties
<1>5. RemoveAt(s, i) = a \o b
  BY DEF RemoveAt
<1>. HIDE DEF a, b
<1>6. ASSUME NEW n \in 1..(Len(s) - 1)
      PROVE  (a \o b)[n] = IF n < i THEN s[n] ELSE s[n + 1]
  <2>1. CASE n < i
    BY <1>1, <1>2, <1>3, <1>4, <2>1
  <2>2. CASE ~ (n < i)
    <3>1. (a \o b)[n] = b[n - (i - 1)] /\ n - (i - 1) \in 1..(Len(s) - i)
      BY <1>1, <1>2, <1>3, <1>4, <2>2
    <3>2. b[n - (i - 1)] = s[(n - (i - 1)) + i]
      BY <1>3, <3>1
    <3>3. (n - (i - 1)) + i = n + 1
      BY <1>1
    <3>. QED  BY <2>2, <3>1, <3>2, <3>3
  <2>. QED  BY <2>1, <2>2
<1>. QED  BY <1>1, <1>2, <1>3, <1>4, <1>5, <1>6

\* Without an element, a sequence of different elements has all the others.
LEMMA RemovedFirst ==
  ASSUME NEW S, NEW s \in Seq(S), Distinct(s), NEW e
  PROVE  /\ RemoveFirst(s, e) \in Seq(S)
         /\ Distinct(RemoveFirst(s, e))
         /\ ToSet(RemoveFirst(s, e)) = ToSet(s) \ {e}
         /\ Len(RemoveFirst(s, e)) <= Len(s)
<1>. DEFINE at == {i \in 1..Len(s) : s[i] = e}
            k == Min(at)
            r == RemoveAt(s, k)
<1>1. Len(s) \in Nat
  BY LenProperties
<1>2. ToSet(s) = {s[n] : n \in 1..Len(s)}
  BY ToSetOf
<1>3. CASE at = {}
  <2>1. RemoveFirst(s, e) = s
    BY <1>3 DEF RemoveFirst
  <2>. QED  BY <1>1, <1>2, <1>3, <2>1
<1>4. CASE at # {}
  <2>1. k \in at
    <3>1. at \in SUBSET Nat
      BY <1>1
    <3>2. \E x \in at : \A y \in at : x <= y
      BY <1>4, <3>1, LeastNumber
    <3>. QED  BY <3>2 DEF Min
  <2>2. RemoveFirst(s, e) = r
    BY <1>4 DEF RemoveFirst, SelectInSeq
  <2>. HIDE DEF k
  <2>3. k \in 1..Len(s) /\ s[k] = e
    BY <2>1
  <2>4. /\ r \in Seq(S) /\ Len(r) = Len(s) - 1
        /\ \A n \in 1..(Len(s) - 1) : r[n] = IF n < k THEN s[n] ELSE s[n + 1]
    BY <2>3, RemovedAt
  <2>. HIDE DEF r, at
  <2>5. Distinct(r)
    BY <1>1, <2>3, <2>4 DEF Distinct
  <2>6. ToSet(r) = {r[n] : n \in 1..Len(r)}
    BY <2>4, ToSetOf
  <2>7. \A n \in 1..Len(r) : r[n] \in ToSet(s) /\ r[n] # e
    BY <1>1, <1>2, <2>3, <2>4 DEF Distinct
  <2>8. ASSUME NEW n \in 1..Len(s), s[n] # e
        PROVE  \E m \in 1..Len(r) : r[m] = s[n]
    <3>1. CASE n < k
      <4>1. n \in 1..Len(r) /\ r[n] = s[n]
        BY <1>1, <2>3, <2>4, <3>1
      <4>. QED  BY <4>1
    <3>2. CASE ~ (n < k)
      <4>1. n # k
        BY <2>3, <2>8
      <4>2. n - 1 \in 1..Len(r) /\ r[n - 1] = s[(n - 1) + 1] /\ (n - 1) + 1 = n
        BY <1>1, <2>3, <2>4, <3>2, <4>1
      <4>. QED  BY <4>2
    <3>. QED  BY <3>1, <3>2
  <2>. QED  BY <1>1, <1>2, <2>2, <2>4, <2>5, <2>6, <2>7, <2>8
<1>. QED  BY <1>3, <1>4

-----------------------------------------------------------------------------
(* The list of seen events                                                 *)

SeenList == {s \in Seq(SourceEvents) : Len(s) <= SeenCap /\ Distinct(s)}

LEMMA CapIsNat == SeenCap \in Nat /\ SeenCap >= 1
BY ConfigAssumption

LEMMA FrontedIs ==
  ASSUME NEW s \in Seq(SourceEvents), Distinct(s), NEW e \in SourceEvents
  PROVE  /\ Fronted(s, e) \in Seq(SourceEvents)
         /\ Distinct(Fronted(s, e))
         /\ ToSet(Fronted(s, e)) = ToSet(s) \cup {e}
         /\ Len(Fronted(s, e)) <= Len(s) + 1
<1>. DEFINE r == RemoveFirst(s, e)
            f == <<e>> \o r
<1>1. /\ r \in Seq(SourceEvents) /\ Distinct(r) /\ Len(r) <= Len(s)
      /\ ToSet(r) = ToSet(s) \ {e}
  BY RemovedFirst
<1>. HIDE DEF r
<1>2. Len(r) \in Nat /\ Len(s) \in Nat /\ <<e>> \in Seq(SourceEvents)
  BY <1>1, LenProperties
<1>3. /\ f \in Seq(SourceEvents) /\ Len(f) = 1 + Len(r)
      /\ \A n \in 1..(1 + Len(r)) : f[n] = IF n <= 1 THEN <<e>>[n] ELSE r[n - 1]
  BY <1>1, <1>2, ConcatProperties
<1>4. f[1] = e /\ \A n \in 1..Len(r) : f[n + 1] = r[n]
  <2>1. 1 \in 1..(1 + Len(r)) /\ \A n \in 1..Len(r) : n + 1 \in 1..(1 + Len(r))
    BY <1>2
  <2>. QED  BY <1>2, <1>3, <2>1
<1>5. ToSet(r) = {r[n] : n \in 1..Len(r)} /\ ToSet(f) = {f[n] : n \in 1..Len(f)}
  BY <1>1, <1>3, ToSetOf
<1>. HIDE DEF f
<1>6. \A n \in 1..Len(f) : n = 1 \/ (n - 1 \in 1..Len(r) /\ f[n] = r[n - 1])
  BY <1>2, <1>3
<1>7. Distinct(f)
  <2>1. ASSUME NEW m \in 1..Len(f), NEW n \in 1..Len(f), f[m] = f[n]
        PROVE  m = n
    <3>1. \A j \in 1..Len(r) : r[j] # e
      BY <1>1, <1>5
    <3>2. CASE m = 1
      BY <1>4, <1>6, <2>1, <3>1, <3>2
    <3>3. CASE n = 1
      BY <1>4, <1>6, <2>1, <3>1, <3>3
    <3>4. CASE m # 1 /\ n # 1
      <4>1. m - 1 \in 1..Len(r) /\ n - 1 \in 1..Len(r) /\ r[m - 1] = r[n - 1]
        BY <1>6, <2>1, <3>4
      <4>2. m - 1 = n - 1
        BY <1>1, <4>1 DEF Distinct
      <4>. QED  BY <1>2, <1>3, <4>2
    <3>. QED  BY <3>2, <3>3, <3>4
  <2>. QED  BY <2>1 DEF Distinct
<1>8. ToSet(f) = ToSet(r) \cup {e}
  <2>1. ASSUME NEW x \in ToSet(f) PROVE x \in ToSet(r) \cup {e}
    BY <1>4, <1>5, <1>6
  <2>2. ASSUME NEW x \in ToSet(r) PROVE x \in ToSet(f)
    <3>1. PICK n \in 1..Len(r) : x = r[n]
      BY <1>5
    <3>2. n + 1 \in 1..Len(f) /\ f[n + 1] = x
      BY <1>2, <1>3, <1>4, <3>1
    <3>. QED  BY <1>5, <3>2
  <2>3. e \in ToSet(f)
    <3>1. 1 \in 1..Len(f)
      BY <1>2, <1>3
    <3>. QED  BY <1>4, <1>5, <3>1
  <2>. QED  BY <2>1, <2>2, <2>3
<1>9. Fronted(s, e) = f
  BY DEF Fronted, f, r
<1>. QED  BY <1>1, <1>2, <1>3, <1>7, <1>8, <1>9

LEMMA CutIs ==
  ASSUME NEW s \in Seq(SourceEvents), Distinct(s)
  PROVE  /\ Cut(s) \in SeenList
         /\ ToSet(Cut(s)) \subseteq ToSet(s)
         /\ Len(s) <= SeenCap => Cut(s) = s
<1>. DEFINE n == AtMost(SeenCap, Len(s))
            c == SubSeq(s, 1, n)
<1>1. Len(s) \in Nat /\ \A i \in 1..Len(s) : s[i] \in SourceEvents
  BY ElementOfSeq, LenProperties
<1>2. n \in Nat /\ n <= Len(s) /\ n <= SeenCap /\ (Len(s) <= SeenCap => n = Len(s))
  BY <1>1, CapIsNat DEF AtMost
<1>3. Cut(s) = c
  BY DEF Cut
<1>. HIDE DEF n
<1>4. /\ c \in Seq(SourceEvents) /\ Len(c) = IF 1 <= n THEN n - 1 + 1 ELSE 0
      /\ \A i \in 1..(n - 1 + 1) : c[i] = s[1 + i - 1]
  <2>1. \A i \in 1..n : s[i] \in SourceEvents
    BY <1>1, <1>2
  <2>. QED  BY <1>2, <2>1, SubSeqProperties
<1>5. Len(c) = n /\ \A i \in 1..n : c[i] = s[i]
  BY <1>2, <1>4
<1>6. Len(s) <= SeenCap => c = s
  BY <1>2, SubSeqFull
<1>. HIDE DEF c
<1>7. Distinct(c)
  BY <1>1, <1>2, <1>5 DEF Distinct
<1>8. ToSet(c) \subseteq ToSet(s)
  <2>1. ToSet(s) = {s[i] : i \in 1..Len(s)} /\ ToSet(c) = {c[i] : i \in 1..Len(c)}
    BY <1>4, ToSetOf
  <2>2. \A i \in 1..n : i \in 1..Len(s)
    BY <1>1, <1>2
  <2>. QED  BY <1>5, <2>1, <2>2
<1>. QED  BY <1>2, <1>3, <1>4, <1>5, <1>6, <1>7, <1>8 DEF SeenList

\* A set of events that the list has room for.
Fitting(N) == N \subseteq SourceEvents /\ IsFiniteSet(N) /\ Cardinality(N) <= SeenCap

LEMMA FittingCut ==
  ASSUME NEW s \in Seq(SourceEvents), Distinct(s), NEW N, Fitting(N), ToSet(s) \subseteq N
  PROVE  Len(s) <= SeenCap /\ Cut(s) = s
<1>1. s \in Seq(N)
  <2>1. \A n \in 1..Len(s) : s[n] \in N
    BY ToSetOf
  <2>2. Len(s) \in Nat /\ s = [n \in 1..Len(s) |-> s[n]]
    BY LenProperties
  <2>. QED  BY <2>1, <2>2, SeqDef
<1>2. Len(s) <= Cardinality(N)
  BY <1>1, DistinctLen DEF Fitting
<1>3. Len(s) \in Nat /\ Cardinality(N) \in Nat
  BY LenProperties, FS_CardinalityType DEF Fitting
<1>4. Len(s) <= SeenCap
  BY <1>2, <1>3, CapIsNat DEF Fitting
<1>. QED  BY <1>4, CutIs

\* An event is added to the list; nothing is lost while there is room.
LEMMA AddedSeen ==
  ASSUME NEW s \in SeenList, NEW e \in SourceEvents
  PROVE  /\ addSeenSourceEventId(s, e) \in SeenList
         /\ ToSet(addSeenSourceEventId(s, e)) \subseteq ToSet(s) \cup {e}
         /\ \A N : Fitting(N) /\ ToSet(s) \cup {e} \subseteq N =>
              ToSet(addSeenSourceEventId(s, e)) = ToSet(s) \cup {e}
<1>. DEFINE f == Fronted(s, e)
<1>1. s \in Seq(SourceEvents) /\ Distinct(s)
  BY DEF SeenList
<1>2. /\ f \in Seq(SourceEvents) /\ Distinct(f)
      /\ ToSet(f) = ToSet(s) \cup {e}
  BY <1>1, FrontedIs
<1>3. addSeenSourceEventId(s, e) = Cut(f)
  BY DEF addSeenSourceEventId
<1>. HIDE DEF f
<1>4. Cut(f) \in SeenList /\ ToSet(Cut(f)) \subseteq ToSet(f)
  BY <1>2, CutIs
<1>5. ASSUME NEW N, Fitting(N), ToSet(s) \cup {e} \subseteq N
      PROVE  Cut(f) = f
  BY <1>2, <1>5, FittingCut
<1>. QED  BY <1>2, <1>3, <1>4, <1>5

RowSeen(s, e) ==
  LET gone == Evicted(seenSourceEventIds, e)
  IN Cut(IF gone = <<>> THEN Fronted(s, e) ELSE RemoveFirst(Fronted(s, e), Head(gone)))

LEMMA RowNotedIs ==
  ASSUME NEW rows, NEW e
  PROVE  RowNoted(rows, e) = [rows EXCEPT !.seen = RowSeen(@, e)]
BY DEF RowNoted, RowSeen

\* The rows are cut like the list, and lose nothing while both have room.
LEMMA NotedSeen ==
  ASSUME NEW s \in SeenList, seenSourceEventIds \in SeenList, NEW e \in SourceEvents
  PROVE  /\ RowSeen(s, e) \in SeenList
         /\ ToSet(RowSeen(s, e)) \subseteq ToSet(s) \cup {e}
         /\ \A N : /\ Fitting(N) /\ ToSet(s) \cup {e} \subseteq N
                   /\ ToSet(seenSourceEventIds) \subseteq N
                   => ToSet(RowSeen(s, e)) = ToSet(s) \cup {e}
<1>. DEFINE f == Fronted(s, e)
            gone == Evicted(seenSourceEventIds, e)
            g == IF gone = <<>> THEN f ELSE RemoveFirst(f, Head(gone))
<1>1. s \in Seq(SourceEvents) /\ Distinct(s)
  BY DEF SeenList
<1>2. f \in Seq(SourceEvents) /\ Distinct(f) /\ ToSet(f) = ToSet(s) \cup {e}
  BY <1>1, FrontedIs
<1>3. RowSeen(s, e) = Cut(g)
  BY DEF RowSeen
<1>4. ASSUME NEW N, Fitting(N), e \in N, ToSet(seenSourceEventIds) \subseteq N
      PROVE  gone = <<>>
  <2>. DEFINE h == Fronted(seenSourceEventIds, e)
  <2>1. h \in Seq(SourceEvents) /\ Distinct(h) /\ ToSet(h) \subseteq N
    BY <1>4, FrontedIs DEF SeenList
  <2>2. gone = SubSeq(h, SeenCap + 1, Len(h))
    BY DEF Evicted
  <2>. HIDE DEF h, gone
  <2>3. Len(h) <= SeenCap /\ Len(h) \in Nat
    BY <1>4, <2>1, FittingCut, LenProperties
  <2>. QED  BY <2>2, <2>3, CapIsNat, SubSeqEmpty
<1>. HIDE DEF f, gone
<1>5. /\ g \in Seq(SourceEvents) /\ Distinct(g) /\ ToSet(g) \subseteq ToSet(f)
      /\ (gone = <<>> => g = f)
  BY <1>2, RemovedFirst
<1>. HIDE DEF g
<1>6. Cut(g) \in SeenList /\ ToSet(Cut(g)) \subseteq ToSet(g)
  BY <1>5, CutIs
<1>7. ASSUME NEW N, Fitting(N), ToSet(s) \cup {e} \subseteq N,
             ToSet(seenSourceEventIds) \subseteq N
      PROVE  Cut(g) = f
  <2>1. g = f
    BY <1>4, <1>5, <1>7
  <2>. QED  BY <1>2, <1>7, <2>1, FittingCut
<1>. QED  BY <1>2, <1>3, <1>5, <1>6, <1>7

\* The list as hydrate's loop leaves it after n of the events: the recursion
\* that hydratedSeen writes down has a solution.
Loop(list, base, events) ==
  list = [n \in 0..Len(events) |->
            IF n = 0 THEN base ELSE addSeenSourceEventId(list[n - 1], events[n])]

LEMMA LoopExists ==
  ASSUME NEW base, NEW events \in Seq(SourceEvents)
  PROVE  \E list : Loop(list, base, events)
<1>. DEFINE Upto(n, f) == /\ f = [m \in 0..n |-> f[m]]
                          /\ \A m \in 0..n :
                               f[m] = IF m = 0 THEN base
                                      ELSE addSeenSourceEventId(f[m - 1], events[m])
            Bad == {n \in 0..Len(events) : ~ \E f : Upto(n, f)}
<1>1. Len(events) \in Nat
  BY LenProperties
<1>2. Bad = {}
  <2>1. SUFFICES ASSUME Bad # {} PROVE FALSE
    OBVIOUS
  <2>2. PICK n \in Bad : \A y \in Bad : n <= y
    <3>1. Bad \in SUBSET Nat
      BY <1>1
    <3>. HIDE DEF Bad
    <3>. QED  BY <2>1, <3>1, LeastNumber
  <2>3. n \in Nat /\ n <= Len(events)
    BY <1>1
  <2>4. CASE n = 0
    <3>1. Upto(0, [m \in 0..0 |-> base])
      OBVIOUS
    <3>. QED  BY <2>4, <3>1
  <2>5. CASE n # 0
    <3>1. n - 1 \in 0..Len(events) /\ n - 1 \notin Bad
      BY <1>1, <2>2, <2>3, <2>5
    <3>2. PICK f : Upto(n - 1, f)
      BY <3>1
    <3>. DEFINE g == [m \in 0..n |-> IF m = n THEN addSeenSourceEventId(f[n - 1], events[n])
                                     ELSE f[m]]
    <3>3. g = [m \in 0..n |-> g[m]]
      OBVIOUS
    <3>4. ASSUME NEW m \in 0..n
          PROVE  g[m] = IF m = 0 THEN base ELSE addSeenSourceEventId(g[m - 1], events[m])
      <4>1. CASE m = n
        <5>1. n - 1 \in 0..n /\ n - 1 # n
          BY <2>3, <2>5
        <5>2. g[n - 1] = f[n - 1]
          BY <5>1
        <5>. QED  BY <2>5, <4>1, <5>2
      <4>2. CASE m # n
        <5>1. m \in 0..(n - 1) /\ (m # 0 => m - 1 \in 0..n /\ m - 1 # n)
          BY <2>3, <4>2
        <5>2. g[m] = f[m] /\ (m # 0 => g[m - 1] = f[m - 1])
          BY <4>2, <5>1
        <5>. QED  BY <3>2, <5>1, <5>2
      <4>. QED  BY <4>1, <4>2
    <3>5. Upto(n, g)
      BY <3>3, <3>4
    <3>. QED  BY <3>5
  <2>. QED  BY <2>4, <2>5
<1>3. PICK f : Upto(Len(events), f)
  BY <1>1, <1>2
<1>4. f = [n \in 0..Len(events) |->
             IF n = 0 THEN base ELSE addSeenSourceEventId(f[n - 1], events[n])]
  BY <1>3
<1>. QED  BY <1>4 DEF Loop

\* hydrate's list: within its bound, of the events of the rows and of the items;
\* and while there is room, with all of the rows.
LEMMA LoopSeen ==
  ASSUME NEW base \in SeenList, NEW events \in Seq(SourceEvents),
         NEW list, Loop(list, base, events)
  PROVE  LET s == list[Len(events)]
         IN  /\ s \in SeenList
             /\ ToSet(s) \subseteq ToSet(base) \cup ToSet(events)
             /\ \A N : Fitting(N) /\ ToSet(base) \cup ToSet(events) \subseteq N =>
                  ToSet(base) \subseteq ToSet(s)
<1>. DEFINE Good(n) ==
       /\ list[n] \in SeenList
       /\ ToSet(list[n]) \subseteq ToSet(base) \cup ToSet(events)
       /\ \A N : Fitting(N) /\ ToSet(base) \cup ToSet(events) \subseteq N =>
            ToSet(base) \subseteq ToSet(list[n])
            Bad == {n \in 0..Len(events) : ~ Good(n)}
<1>1. Len(events) \in Nat
  BY LenProperties
<1>2. \A n \in 0..Len(events) :
        list[n] = IF n = 0 THEN base ELSE addSeenSourceEventId(list[n - 1], events[n])
  BY DEF Loop
<1>3. Good(0)
  BY <1>1, <1>2
<1>4. ASSUME NEW n \in 1..Len(events), Good(n - 1)
      PROVE  Good(n)
  <2>1. events[n] \in SourceEvents /\ events[n] \in ToSet(events)
    BY ElementOfSeq, ToSetOf
  <2>2. list[n] = addSeenSourceEventId(list[n - 1], events[n])
    BY <1>1, <1>2
  <2>3. list[n - 1] \in SeenList
    BY <1>4
  <2>4. /\ list[n] \in SeenList
        /\ ToSet(list[n]) \subseteq ToSet(list[n - 1]) \cup {events[n]}
        /\ \A N : Fitting(N) /\ ToSet(list[n - 1]) \cup {events[n]} \subseteq N =>
             ToSet(list[n]) = ToSet(list[n - 1]) \cup {events[n]}
    BY <2>1, <2>2, <2>3, AddedSeen
  <2>5. ToSet(list[n]) \subseteq ToSet(base) \cup ToSet(events)
    BY <1>4, <2>1, <2>4
  <2>6. ASSUME NEW N, Fitting(N), ToSet(base) \cup ToSet(events) \subseteq N
        PROVE  ToSet(base) \subseteq ToSet(list[n])
    <3>1. ToSet(base) \subseteq ToSet(list[n - 1])
      BY <1>4, <2>6
    <3>2. ToSet(list[n - 1]) \cup {events[n]} \subseteq N
      BY <1>4, <2>1, <2>6
    <3>. QED  BY <2>4, <2>6, <3>1, <3>2
  <2>. QED  BY <2>4, <2>5, <2>6
<1>. HIDE DEF Good
<1>5. Bad = {}
  <2>1. SUFFICES ASSUME Bad # {} PROVE FALSE
    OBVIOUS
  <2>2. PICK n \in Bad : \A y \in Bad : n <= y
    <3>1. Bad \in SUBSET Nat
      BY <1>1
    <3>. HIDE DEF Bad
    <3>. QED  BY <2>1, <3>1, LeastNumber
  <2>3. n \in 1..Len(events)
    BY <1>1, <1>3
  <2>4. n - 1 \in 0..Len(events) /\ n - 1 \notin Bad
    BY <1>1, <2>2, <2>3
  <2>. QED  BY <1>4, <2>2, <2>3, <2>4
<1>6. Good(Len(events))
  BY <1>1, <1>5
<1>. QED  BY <1>6 DEF Good

LEMMA HydratedIsLoop ==
  ASSUME NEW rows, NEW order,
         order \o [n \in 1..Len(rows.history) |-> rows.history[n].event] \in Seq(SourceEvents)
  PROVE  LET events == order \o [n \in 1..Len(rows.history) |-> rows.history[n].event]
         IN \E list : Loop(list, rows.seen, events)
                      /\ hydratedSeen(rows, order) = list[Len(events)]
<1>. DEFINE events == order \o [n \in 1..Len(rows.history) |-> rows.history[n].event]
            list == CHOOSE l : Loop(l, rows.seen, events)
<1>1. Loop(list, rows.seen, events)
  BY LoopExists
<1>2. hydratedSeen(rows, order) = list[Len(events)]
  BY DEF hydratedSeen, Loop
<1>. QED  BY <1>1, <1>2

-----------------------------------------------------------------------------
(* Records and rows                                                        *)

Items == [WorkItems -> Followup \cup {NoWork}]

Rows == [active : Items, history : Seq(Entry), seen : Seq(SourceEvents)]

\* Work that is queued is nobody's, and work in hand is somebody's.
HandsOK(items) ==
  \A id \in Live(items) :
    /\ items[id].status = "queued" => items[id].agent = NoAgent
    /\ items[id].status \in {"claimed", "in_progress"} => items[id].agent \in Agents

LEMMA TransitionsIn ==
  \A s \in Open : /\ FOLLOWUP_TRANSITIONS[s] \subseteq Status
                  /\ "queued" \notin FOLLOWUP_TRANSITIONS[s]
                  /\ s \notin FOLLOWUP_TRANSITIONS[s]
BY DEF FOLLOWUP_TRANSITIONS, Open, Status, Settled

LEMMA LiveType ==
  ASSUME NEW items \in Items, NEW id \in Live(items)
  PROVE  id \in WorkItems /\ items[id] \in Followup /\ items[id] # NoWork
BY DEF Live, Items

LEMMA WorkItemsAreNumbers == WorkItems \subseteq Nat /\ WorkItems \subseteq Int
BY ConfigAssumption DEF WorkItems

LEMMA AgedType ==
  ASSUME NEW items \in Items
  PROVE  /\ Aged(items) \in Items /\ Live(Aged(items)) = Live(items)
         /\ \A id \in Live(items) :
              /\ Aged(items)[id].event = items[id].event
              /\ Aged(items)[id].status = items[id].status
              /\ Aged(items)[id].agent = items[id].agent
<1>1. ASSUME NEW c \in Followup
      PROVE  LET d == [c EXCEPT !.idle = AtMost(StaleMinutes, @ + 1)]
             IN  d \in Followup /\ d.event = c.event /\ d.status = c.status /\ d.agent = c.agent
  <2>1. PICK i \in 0..StaleMinutes : i = AtMost(StaleMinutes, c.idle + 1)
    BY ConfigAssumption DEF Followup, AtMost
  <2>2. [c EXCEPT !.idle = AtMost(StaleMinutes, @ + 1)] = [c EXCEPT !.idle = i]
    BY <2>1 DEF Followup
  <2>. QED  BY <2>2 DEF Followup
<1>2. ASSUME NEW id \in WorkItems
      PROVE  /\ Aged(items)[id] \in Followup \cup {NoWork}
             /\ (Aged(items)[id] = NoWork) <=> (items[id] = NoWork)
             /\ items[id] # NoWork =>
                  /\ Aged(items)[id].event = items[id].event
                  /\ Aged(items)[id].status = items[id].status
                  /\ Aged(items)[id].agent = items[id].agent
  <2>1. CASE items[id] = NoWork
    BY <2>1 DEF Aged
  <2>2. CASE items[id] # NoWork
    <3>1. items[id] \in Followup
      BY <2>2 DEF Items
    <3>2. Aged(items)[id] = [items[id] EXCEPT !.idle = AtMost(StaleMinutes, @ + 1)]
      BY <2>2 DEF Aged
    <3>. QED  BY <1>1, <2>2, <3>1, <3>2, SentinelAssumption
  <2>. QED  BY <2>1, <2>2
<1>3. Aged(items) \in Items
  <2>1. Aged(items) = [id \in WorkItems |-> Aged(items)[id]]
    BY DEF Aged
  <2>. QED  BY <1>2, <2>1 DEF Items
<1>. QED  BY <1>2, <1>3 DEF Live

LEMMA NoTime == 0 \in 0..StaleMinutes
BY ConfigAssumption

\* A record moved to another status that keeps it active.
LEMMA MovedType ==
  ASSUME NEW c \in Followup, NEW to \in Open, NEW a \in Agents \cup {NoAgent}
  PROVE  /\ Moved(c, to, a) \in Followup
         /\ Moved(c, to, a).event = c.event /\ Moved(c, to, a).status = to
         /\ Moved(c, to, a).agent = IF c.agent = NoAgent THEN a ELSE c.agent
<1>1. PICK b \in Agents \cup {NoAgent} : b = IF c.agent = NoAgent THEN a ELSE c.agent
  BY DEF Followup
<1>2. Moved(c, to, a) = [c EXCEPT !.status = to, !.idle = 0, !.agent = b]
  BY <1>1 DEF Moved, Followup
<1>. QED  BY <1>1, <1>2, NoTime DEF Followup

LEMMA TakenType ==
  ASSUME NEW c \in Followup, NEW a \in Agents
  PROVE  /\ TakenBy(c, a) \in Followup
         /\ TakenBy(c, a).event = c.event /\ TakenBy(c, a).status = "claimed"
         /\ TakenBy(c, a).agent = a
BY NoTime DEF Followup, TakenBy, Open

LEMMA NewItemType ==
  ASSUME NEW e \in Comments
  PROVE  /\ NewItem(e) \in Followup /\ NewItem(e).event = e
         /\ NewItem(e).status = "queued" /\ NewItem(e).agent = NoAgent
BY NoTime DEF Followup, NewItem, Open

LEMMA TrimIs ==
  ASSUME NEW h \in Seq(Entry)
  PROVE  /\ trimHistory(h) \in Seq(Entry)
         /\ Len(trimHistory(h)) = AtMost(MaxEntries, Len(h))
         /\ Len(trimHistory(h)) <= MaxEntries /\ Len(trimHistory(h)) <= Len(h)
         /\ \A n \in 1..Len(trimHistory(h)) : n \in 1..Len(h) /\ trimHistory(h)[n] = h[n]
<1>. DEFINE n == AtMost(MaxEntries, Len(h))
            t == SubSeq(h, 1, n)
<1>1. Len(h) \in Nat /\ \A i \in 1..Len(h) : h[i] \in Entry
  BY ElementOfSeq, LenProperties
<1>2. n \in Nat /\ n <= Len(h) /\ n <= MaxEntries
  BY <1>1, ConfigAssumption DEF AtMost
<1>3. trimHistory(h) = t
  BY DEF trimHistory
<1>. HIDE DEF n
<1>4. /\ t \in Seq(Entry) /\ Len(t) = IF 1 <= n THEN n - 1 + 1 ELSE 0
      /\ \A i \in 1..(n - 1 + 1) : t[i] = h[1 + i - 1]
  <2>1. \A i \in 1..n : h[i] \in Entry
    BY <1>1, <1>2
  <2>. QED  BY <1>2, <2>1, SubSeqProperties
<1>5. t \in Seq(Entry) /\ Len(t) = n /\ \A i \in 1..n : i \in 1..Len(h) /\ t[i] = h[i]
  BY <1>1, <1>2, <1>4
<1>. QED  BY <1>2, <1>3, <1>5 DEF n

LEMMA TrimIdle ==
  ASSUME NEW h \in Seq(Entry), Len(h) <= MaxEntries
  PROVE  trimHistory(h) = h
<1>1. AtMost(MaxEntries, Len(h)) = Len(h)
  BY ConfigAssumption, LenProperties DEF AtMost
<1>. QED  BY <1>1, SubSeqFull DEF trimHistory

LEMMA LongerIs ==
  ASSUME NEW h \in Seq(Entry), NEW x \in Entry
  PROVE  /\ <<x>> \o h \in Seq(Entry) /\ Len(<<x>> \o h) = Len(h) + 1
         /\ (<<x>> \o h)[1] = x
         /\ \A n \in 1..Len(h) : (<<x>> \o h)[n + 1] = h[n]
<1>1. <<x>> \in Seq(Entry) /\ Len(<<x>>) = 1 /\ Len(h) \in Nat
  BY LenProperties
<1>2. /\ <<x>> \o h \in Seq(Entry) /\ Len(<<x>> \o h) = 1 + Len(h)
      /\ \A n \in 1..(1 + Len(h)) :
           (<<x>> \o h)[n] = IF n <= 1 THEN <<x>>[n] ELSE h[n - 1]
  BY <1>1, ConcatProperties
<1>3. 1 \in 1..(1 + Len(h)) /\ \A n \in 1..Len(h) : n + 1 \in 1..(1 + Len(h)) /\ ~(n + 1 <= 1)
  BY <1>1
<1>. QED  BY <1>1, <1>2, <1>3

LEMMA EntryType ==
  ASSUME NEW id \in WorkItems, NEW c \in Followup, NEW to \in Settled
  PROVE  [item |-> id, event |-> c.event, agent |-> c.agent, status |-> to] \in Entry
BY DEF Followup, Entry

\* The order of a request for work has a first among the records of a snapshot.
LEMMA FirstIn ==
  ASSUME NEW vs \in SUBSET Visit, vs # {}, \A v, w \in vs : v.item = w.item => v = w
  PROVE  First(vs) \in vs
<1>. DEFINE scores == {Score[v.event] : v \in vs}
<1>1. \A v \in vs : Score[v.event] \in Nat /\ v.item \in Nat
  BY InputAssumption, WorkItemsAreNumbers DEF Visit
<1>2. PICK least \in scores : \A s \in scores : least <= s
  <2>1. scores \in SUBSET Nat /\ scores # {}
    BY <1>1
  <2>. HIDE DEF scores
  <2>. QED  BY <2>1, LeastNumber
<1>. DEFINE urgent == {v \in vs : Score[v.event] = least}
            ids == {v.item : v \in urgent}
<1>3. PICK id \in ids : \A i \in ids : id <= i
  <2>1. ids \in SUBSET Nat /\ ids # {}
    BY <1>1
  <2>. HIDE DEF ids
  <2>. QED  BY <2>1, LeastNumber
<1>4. PICK v \in urgent : v.item = id
  BY <1>3
<1>5. ASSUME NEW w \in vs \ {v} PROVE Before(v, w)
  <2>1. Score[v.event] = least /\ least <= Score[w.event]
    BY <1>2, <1>4
  <2>2. CASE Score[w.event] = least
    <3>1. w.item \in ids /\ w.item # v.item
      BY <1>4, <1>5, <2>2
    <3>2. v.item <= w.item
      BY <1>3, <1>4, <3>1
    <3>. QED  BY <1>1, <2>1, <2>2, <3>1, <3>2 DEF Before
  <2>3. CASE Score[w.event] # least
    BY <1>1, <2>1, <2>3 DEF Before
  <2>. QED  BY <2>2, <2>3
<1>. QED  BY <1>4, <1>5 DEF First

LEMMA VisitsIn ==
  ASSUME active \in Items, NEW ids, ids \subseteq Live(active)
  PROVE  /\ Visits(ids) \in SUBSET Visit
         /\ \A v, w \in Visits(ids) : v.item = w.item => v = w
         /\ \A v \in Visits(ids) : v.item \in ids /\ v.event = active[v.item].event
<1>1. \A id \in ids : id \in WorkItems /\ active[id].event \in Comments
  BY LiveType DEF Followup
<1>. QED  BY <1>1 DEF Visits, Visit

-----------------------------------------------------------------------------
(* Calls and their locks                                                   *)

InQueue == {"waiting", "resolving", "done"}

\* A call that awaits a lock stands in its queue, and one that has it stands
\* at the head.  What a call does next fits what it was asked.
QueuesOK ==
  \A p \in Procs :
    /\ pc[p] \in InQueue =>
         /\ request[p] \in Request
         /\ \E n \in 1..Len(lockQueues[request[p].pr]) : lockQueues[request[p].pr][n] = p
         /\ pc[p] # "waiting" => lockQueues[request[p].pr][1] = p
    /\ pc[p] = "looking" => request[p] \in NextRequest \cup SweepRequest
    /\ pc[p] = "resolving" => request[p] \in ResolveRequest

LEMMA RequestPr == \A r \in Request : r.pr \in Prs
BY DEF Request, CreateRequest, ResolveRequest, NextRequest, UpdateRequest, SweepRequest

\* A request is known by what it asks for.
LEMMA RequestOp ==
  ASSUME NEW r \in Request
  PROVE  /\ r.op = "create" => r \in CreateRequest
         /\ r.op = "resolve" => r \in ResolveRequest
         /\ r.op = "next" => r \in NextRequest
         /\ r.op = "update" => r \in UpdateRequest
         /\ r.op = "sweep" => r \in SweepRequest
BY DEF Request, CreateRequest, ResolveRequest, NextRequest, UpdateRequest, SweepRequest

\* A call joins its pull request's queue.
LEMMA EnqueueCalls ==
  ASSUME CallsOK, QueuesOK, NEW p \in Procs, pc[p] \in {"idle", "looking"},
         NEW r \in Request, withIssueLock(p, r)
  PROVE  CallsOK' /\ QueuesOK'
<1>. DEFINE i == r.pr
            s == lockQueues[i]
<1>1. i \in Prs /\ s \in Seq(Procs)
  BY RequestPr DEF CallsOK
<1>2. /\ Append(s, p) \in Seq(Procs) /\ Len(Append(s, p)) = Len(s) + 1
      /\ Append(s, p)[Len(s) + 1] = p
      /\ \A n \in 1..Len(s) : Append(s, p)[n] = s[n]
  BY <1>1, AppendProperties
<1>3. Len(s) \in Nat
  BY <1>1, LenProperties
<1>4. /\ lockQueues' = [lockQueues EXCEPT ![i] = Append(s, p)]
      /\ pc' = [pc EXCEPT ![p] = "waiting"]
      /\ request' = [request EXCEPT ![p] = r]
      /\ answer' = answer /\ sweepTimer' = sweepTimer
  BY DEF withIssueLock
<1>5. CallsOK'
  BY <1>1, <1>2, <1>4 DEF CallsOK, PcValues
<1>6. ASSUME NEW q \in Procs, pc'[q] \in InQueue
      PROVE  /\ request'[q] \in Request
             /\ \E n \in 1..Len(lockQueues'[request'[q].pr]) :
                  lockQueues'[request'[q].pr][n] = q
             /\ pc'[q] # "waiting" => lockQueues'[request'[q].pr][1] = q
  <2>1. CASE q = p
    <3>1. request'[q] = r /\ pc'[q] = "waiting" /\ lockQueues'[i] = Append(s, p)
      BY <1>1, <1>4, <2>1 DEF CallsOK
    <3>2. Len(s) + 1 \in 1..Len(Append(s, p))
      BY <1>2, <1>3
    <3>. QED  BY <1>2, <2>1, <3>1, <3>2
  <2>2. CASE q # p
    <3>. DEFINE j == request[q].pr
    <3>1. request'[q] = request[q] /\ pc'[q] = pc[q]
      BY <1>4, <2>2 DEF CallsOK
    <3>2. request[q] \in Request /\ j \in Prs
      BY <1>6, <3>1, RequestPr DEF QueuesOK
    <3>3. PICK n \in 1..Len(lockQueues[j]) : lockQueues[j][n] = q
      BY <1>6, <3>1 DEF QueuesOK
    <3>4. pc[q] # "waiting" => lockQueues[j][1] = q
      BY <1>6, <3>1 DEF QueuesOK
    <3>5. CASE j # i
      <4>1. lockQueues'[j] = lockQueues[j]
        BY <1>4, <3>2, <3>5 DEF CallsOK
      <4>. QED  BY <3>1, <3>2, <3>3, <3>4, <4>1
    <3>6. CASE j = i
      <4>1. lockQueues'[j] = Append(s, p)
        BY <1>1, <1>4, <3>6 DEF CallsOK
      <4>2. n \in 1..Len(s) /\ 1 \in 1..Len(s) /\ n \in 1..Len(Append(s, p))
        BY <1>2, <1>3, <3>3, <3>6
      <4>3. Append(s, p)[n] = q /\ (pc[q] # "waiting" => Append(s, p)[1] = q)
        BY <1>2, <3>3, <3>4, <3>6, <4>2
      <4>. QED  BY <3>1, <3>2, <4>1, <4>2, <4>3
    <3>. QED  BY <3>5, <3>6
  <2>. QED  BY <2>1, <2>2
<1>7. ASSUME NEW q \in Procs, pc'[q] \in {"looking", "resolving"}
      PROVE  /\ pc'[q] = "looking" => request'[q] \in NextRequest \cup SweepRequest
             /\ pc'[q] = "resolving" => request'[q] \in ResolveRequest
  <2>1. q # p /\ request'[q] = request[q] /\ pc'[q] = pc[q]
    BY <1>4, <1>7 DEF CallsOK
  <2>. QED  BY <1>7, <2>1 DEF QueuesOK
<1>8. QueuesOK'
  BY <1>6, <1>7 DEF QueuesOK
<1>. QED  BY <1>5, <1>8

\* A body's step keeps the call at the head of its queue: it answers, or the
\* webhook's loop goes on.
BodyCalls(p) ==
  /\ \E s \in {"resolving", "done"} : pc' = [pc EXCEPT ![p] = s]
  /\ answer' \in [Procs -> Answer]
  /\ \/ request' = request /\ pc'[p] = "done"
     \/ /\ request[p] \in ResolveRequest
        /\ \E left \in SUBSET Visit : request' = [request EXCEPT ![p].left = left]
  /\ UNCHANGED <<lockQueues, sweepTimer>>

LEMMA BodyCallsKeep ==
  ASSUME CallsOK, QueuesOK, NEW p \in Procs, HasLock(p) \/ pc[p] = "resolving", BodyCalls(p)
  PROVE  CallsOK' /\ QueuesOK'
<1>1. PICK s \in {"resolving", "done"} : pc' = [pc EXCEPT ![p] = s]
  BY DEF BodyCalls
<1>2. pc[p] \in InQueue /\ DOMAIN pc = Procs /\ DOMAIN request = Procs
  BY DEF HasLock, InQueue, CallsOK
<1>3. \/ request' = request /\ s = "done"
      \/ /\ request[p] \in ResolveRequest
         /\ \E left \in SUBSET Visit : request' = [request EXCEPT ![p].left = left]
  BY <1>1, <1>2 DEF BodyCalls
<1>4. /\ request' \in [Procs -> Request \cup {NoRequest}]
      /\ \A q \in Procs : q # p => request'[q] = request[q]
      /\ request'[p].pr = request[p].pr /\ request'[p] \in Request
      /\ s = "resolving" => request'[p] \in ResolveRequest
  <2>0. request[p] \in Request
    BY <1>2 DEF QueuesOK
  <2>1. CASE request' = request /\ s = "done"
    BY <2>0, <2>1 DEF CallsOK
  <2>2. CASE /\ request[p] \in ResolveRequest
             /\ \E left \in SUBSET Visit : request' = [request EXCEPT ![p].left = left]
    <3>1. PICK left \in SUBSET Visit : request' = [request EXCEPT ![p].left = left]
      BY <2>2
    <3>2. [request[p] EXCEPT !.left = left] \in ResolveRequest
          /\ [request[p] EXCEPT !.left = left].pr = request[p].pr
      BY <2>2 DEF ResolveRequest
    <3>3. request' = [request EXCEPT ![p] = [request[p] EXCEPT !.left = left]]
      BY <1>2, <3>1
    <3>4. [request[p] EXCEPT !.left = left] \in Request
      BY <3>2 DEF Request
    <3>. HIDE DEF Request, ResolveRequest
    <3>. QED  BY <1>2, <3>2, <3>3, <3>4 DEF CallsOK
  <2>. QED  BY <1>3, <2>1, <2>2
<1>5. CallsOK'
  BY <1>1, <1>4 DEF CallsOK, PcValues, BodyCalls
<1>6. lockQueues' = lockQueues
  BY DEF BodyCalls
<1>7. lockQueues[request[p].pr][1] = p
  <2>1. request[p].pr \in Prs
    BY <1>2, RequestPr DEF QueuesOK
  <2>2. lockQueues[request[p].pr] \in Seq(Procs)
    BY <2>1 DEF CallsOK
  <2>3. lockQueues[request[p].pr] # <<>>
    BY <1>2, <2>2, EmptySeq DEF QueuesOK
  <2>4. CASE HasLock(p)
    BY <2>2, <2>3, <2>4 DEF HasLock
  <2>5. CASE pc[p] = "resolving"
    BY <2>5 DEF QueuesOK, InQueue
  <2>. QED  BY <2>4, <2>5
<1>8. ASSUME NEW q \in Procs
      PROVE  /\ pc'[q] \in InQueue =>
                  /\ request'[q] \in Request
                  /\ \E n \in 1..Len(lockQueues'[request'[q].pr]) :
                       lockQueues'[request'[q].pr][n] = q
                  /\ pc'[q] # "waiting" => lockQueues'[request'[q].pr][1] = q
             /\ pc'[q] = "looking" => request'[q] \in NextRequest \cup SweepRequest
             /\ pc'[q] = "resolving" => request'[q] \in ResolveRequest
  <2>1. CASE q = p
    BY <1>1, <1>2, <1>4, <1>6, <1>7, <2>1 DEF QueuesOK
  <2>2. CASE q # p
    <3>1. pc'[q] = pc[q] /\ request'[q] = request[q]
      BY <1>1, <1>2, <1>4, <2>2
    <3>. QED  BY <1>6, <3>1 DEF QueuesOK
  <2>. QED  BY <2>1, <2>2
<1>9. QueuesOK'
  BY <1>8 DEF QueuesOK
<1>. QED  BY <1>5, <1>9

\* Only one call per pull request has its lock, so a call that leaves takes no
\* other call's place.
LEMMA FinishCalls ==
  ASSUME CallsOK, QueuesOK, NEW p \in Procs, Finish(p)
  PROVE  CallsOK' /\ QueuesOK'
<1>. DEFINE i == request[p].pr
            s == lockQueues[i]
<1>1. /\ pc[p] = "done" /\ request[p] \in Request /\ i \in Prs
      /\ s \in Seq(Procs) /\ s # <<>> /\ s[1] = p
  <2>1. pc[p] = "done" /\ request[p] \in Request /\ i \in Prs /\ s[1] = p
    BY RequestPr DEF Finish, QueuesOK, InQueue
  <2>2. s \in Seq(Procs)
    BY <2>1 DEF CallsOK
  <2>3. s # <<>>
    BY <2>1, <2>2, EmptySeq DEF QueuesOK, InQueue
  <2>. QED  BY <2>1, <2>2, <2>3
<1>2. /\ Tail(s) \in Seq(Procs) /\ Len(Tail(s)) = Len(s) - 1
      /\ \A n \in 1..Len(Tail(s)) : Tail(s)[n] = s[n + 1]
  BY <1>1, HeadTailProperties
<1>3. Len(s) \in Nat
  BY <1>1, LenProperties
<1>4. /\ pc' = [pc EXCEPT ![p] = IF GoesOn(p) THEN "looking" ELSE "idle"]
      /\ request' = [request EXCEPT ![p] = IF GoesOn(p) THEN request[p] ELSE NoRequest]
      /\ lockQueues' = [lockQueues EXCEPT ![i] = Tail(s)]
      /\ answer' = [answer EXCEPT ![p] = "none"] /\ sweepTimer' = sweepTimer
  BY DEF Finish, CallsOK
<1>5. DOMAIN pc = Procs /\ DOMAIN request = Procs
  BY DEF CallsOK
<1>6. CallsOK'
  BY <1>1, <1>2, <1>4 DEF CallsOK, Answer, PcValues
<1>7. pc'[p] \in {"looking", "idle"} /\ \A q \in Procs : q # p => pc'[q] = pc[q]
  BY <1>4, <1>5
<1>8. pc'[p] = "looking" => request'[p] \in NextRequest \cup SweepRequest
  <2>1. pc'[p] = "looking" => GoesOn(p) /\ request'[p] = request[p]
    BY <1>4, <1>5
  <2>. QED  BY <1>1, <2>1, RequestOp DEF GoesOn
<1>9. ASSUME NEW q \in Procs, q # p
      PROVE  /\ pc'[q] \in InQueue =>
                  /\ request'[q] \in Request
                  /\ \E n \in 1..Len(lockQueues'[request'[q].pr]) :
                       lockQueues'[request'[q].pr][n] = q
                  /\ pc'[q] # "waiting" => lockQueues'[request'[q].pr][1] = q
             /\ pc'[q] = "looking" => request'[q] \in NextRequest \cup SweepRequest
             /\ pc'[q] = "resolving" => request'[q] \in ResolveRequest
  <2>. DEFINE j == request[q].pr
  <2>1. request'[q] = request[q] /\ pc'[q] = pc[q]
    BY <1>4, <1>5, <1>9
  <2>2. CASE pc[q] \in InQueue
    <3>1. request[q] \in Request /\ j \in Prs
      BY <2>2, RequestPr DEF QueuesOK
    <3>2. PICK n \in 1..Len(lockQueues[j]) : lockQueues[j][n] = q
      BY <2>2 DEF QueuesOK
    <3>3. pc[q] # "waiting" => lockQueues[j][1] = q
      BY <2>2 DEF QueuesOK
    <3>4. pc[q] = "resolving" => request[q] \in ResolveRequest
      BY DEF QueuesOK
    <3>5. CASE j # i
      <4>1. lockQueues'[j] = lockQueues[j]
        BY <1>4, <3>1, <3>5 DEF CallsOK
      <4>. QED  BY <2>1, <2>2, <3>1, <3>2, <3>3, <3>4, <4>1 DEF InQueue
    <3>6. CASE j = i
      <4>1. lockQueues'[j] = Tail(s)
        BY <1>1, <1>4, <3>6 DEF CallsOK
      <4>2. n # 1 /\ pc[q] = "waiting"
        BY <1>1, <1>9, <3>2, <3>3, <3>6
      <4>3. n - 1 \in 1..Len(Tail(s)) /\ Tail(s)[n - 1] = s[(n - 1) + 1] /\ (n - 1) + 1 = n
        BY <1>2, <1>3, <3>2, <3>6, <4>2
      <4>4. Tail(s)[n - 1] = q
        BY <3>2, <3>6, <4>3
      <4>. QED  BY <2>1, <3>1, <4>1, <4>2, <4>3, <4>4
    <3>. QED  BY <3>5, <3>6
  <2>3. CASE pc[q] \notin InQueue
    BY <2>1, <2>3 DEF QueuesOK, InQueue
  <2>. QED  BY <2>2, <2>3
<1>10. QueuesOK'
  BY <1>7, <1>8, <1>9 DEF QueuesOK, InQueue
<1>. QED  BY <1>6, <1>10

-----------------------------------------------------------------------------
(* What a step may do to the records, the rows and what is known of them   *)

DataOK ==
  /\ active \in Items /\ history \in Seq(Entry) /\ Len(history) <= MaxEntries
  /\ sourceEventToWorkItemId \in [Comments -> WorkItems \cup {NoItem}]
  /\ seenSourceEventIds \in SeenList
  /\ db \in Rows /\ Len(db.history) <= MaxEntries /\ db.seen \in SeenList
  /\ failures \in 0..MaxFailures /\ dirty \subseteq WorkItems
  /\ made \in 0..MaxItems /\ unsaved \cup noted \subseteq SourceEvents
  /\ finished \subseteq Comments
  /\ HandsOK(active) /\ HandsOK(db.active)

\* The transaction of a body, without what the call makes of it.
Wrote(ids, after) ==
  \/ /\ Fits(after) /\ db' = [after EXCEPT !.history = trimHistory(@)]
     /\ dirty' = dirty \ ids /\ failures' = failures
  \/ /\ Fits(after) => failures < MaxFailures
     /\ failures' = IF Fits(after) THEN failures + 1 ELSE failures
     /\ db' = db /\ dirty' = dirty \cup ids

\* How an active item may change hands and status.
MoveRule(b, c) ==
  \/ /\ b.status \in {"queued", "stale"}
     /\ c.status \in {"claimed", "in_progress"} /\ c.agent \in Agents
  \/ b.status # "stale" /\ c.status = "stale" /\ c.agent = b.agent
  \/ b.status = "claimed" /\ c.status = "in_progress" /\ c.agent = b.agent

Kept == UNCHANGED <<memory, disk, ghosts>>

MovesTo(id, c) ==
  /\ c.event = active[id].event /\ MoveRule(active[id], c)
  /\ active' = [active EXCEPT ![id] = c]
  /\ Wrote({id}, RowPut(db, id, c))
  /\ UNCHANGED <<history, sourceEventToWorkItemId, seenSourceEventIds, ghosts>>

Creates(id, e) ==
  /\ id = made + 1 /\ ~hasSeenSourceEventId(e)
  /\ active' = [active EXCEPT ![id] = NewItem(e)]
  /\ sourceEventToWorkItemId' = [sourceEventToWorkItemId EXCEPT ![e] = id]
  /\ seenSourceEventIds' = addSeenSourceEventId(seenSourceEventIds, e)
  /\ made' = id /\ noted' = noted \cup {e}
  /\ Wrote({id}, RowNoted(RowPut(db, id, NewItem(e)), e))
  /\ unsaved' = IF id \in dirty' THEN unsaved \cup {e} ELSE unsaved
  /\ UNCHANGED <<history, finished>>

Ended(id, to) ==
  [item |-> id, event |-> active[id].event, agent |-> active[id].agent, status |-> to]

Longer(id, to) == <<Ended(id, to)>> \o history

Ends(id, to) ==
  /\ active' = [active EXCEPT ![id] = NoWork]
  /\ history' = trimHistory(Longer(id, to))
  /\ sourceEventToWorkItemId' =
       Unmapped(sourceEventToWorkItemId,
                SubSeq(Longer(id, to), MaxEntries + 1, Len(Longer(id, to))))
  /\ Wrote({id}, RowRetired(db, id, Ended(id, to)))
  /\ finished' = IF id \in dirty' THEN finished ELSE finished \cup {active[id].event}
  /\ UNCHANGED <<seenSourceEventIds, made, unsaved, noted>>

Notes(e) ==
  /\ seenSourceEventIds' = addSeenSourceEventId(seenSourceEventIds, e)
  /\ noted' = noted \cup {e}
  /\ Wrote({}, RowNoted(db, e))
  /\ unsaved' = IF failures' # failures THEN unsaved \cup {e} ELSE unsaved
  /\ UNCHANGED <<active, history, sourceEventToWorkItemId, made, finished>>

\* A step of a call: one of these.
Does ==
  \/ Kept
  \/ \E id \in Live(active), c \in Followup : MovesTo(id, c)
  \/ \E id \in WorkItems, e \in Comments : Creates(id, e)
  \/ \E id \in Live(active), to \in Settled : Ends(id, to)
  \/ \E e \in Pushes : Notes(e)

LEMMA PushOrComment == Comments \subseteq SourceEvents /\ Pushes \subseteq SourceEvents
BY DEF SourceEvents

\* The rows a transaction leaves are rows, for each kind of write.
LEMMA WroteRows ==
  ASSUME DataOK, NEW ids \in SUBSET WorkItems, NEW after \in Rows, Wrote(ids, after),
         after.seen \in SeenList, HandsOK(after.active)
  PROVE  /\ db' \in Rows /\ Len(db'.history) <= MaxEntries /\ db'.seen \in SeenList
         /\ HandsOK(db'.active)
         /\ failures' \in 0..MaxFailures /\ dirty' \subseteq WorkItems
<1>1. CASE /\ Fits(after) /\ db' = [after EXCEPT !.history = trimHistory(@)]
           /\ dirty' = dirty \ ids /\ failures' = failures
  <2>1. after.history \in Seq(Entry)
    BY DEF Rows
  <2>2. trimHistory(after.history) \in Seq(Entry)
        /\ Len(trimHistory(after.history)) <= MaxEntries
    BY <2>1, TrimIs
  <2>3. /\ db' \in Rows /\ db'.history = trimHistory(after.history)
        /\ db'.seen = after.seen /\ db'.active = after.active
    BY <1>1, <2>2 DEF Rows
  <2>. QED  BY <1>1, <2>2, <2>3 DEF DataOK
<1>2. CASE /\ Fits(after) => failures < MaxFailures
           /\ failures' = IF Fits(after) THEN failures + 1 ELSE failures
           /\ db' = db /\ dirty' = dirty \cup ids
  <2>1. failures' \in 0..MaxFailures
    BY <1>2, ConfigAssumption DEF DataOK
  <2>. QED  BY <1>2, <2>1 DEF DataOK
<1>. QED  BY <1>1, <1>2 DEF Wrote

LEMMA RowPutType ==
  ASSUME NEW rows \in Rows, NEW id \in WorkItems, NEW c \in Followup
  PROVE  /\ RowPut(rows, id, c) \in Rows
         /\ RowPut(rows, id, c).active = [rows.active EXCEPT ![id] = c]
         /\ RowPut(rows, id, c).history = rows.history
         /\ RowPut(rows, id, c).seen = rows.seen
BY DEF Rows, RowPut, Items

LEMMA RowRetiredType ==
  ASSUME NEW rows \in Rows, NEW id \in WorkItems, NEW x \in Entry
  PROVE  /\ RowRetired(rows, id, x) \in Rows
         /\ RowRetired(rows, id, x).active = [rows.active EXCEPT ![id] = NoWork]
         /\ RowRetired(rows, id, x).history = <<x>> \o rows.history
         /\ RowRetired(rows, id, x).seen = rows.seen
<1>1. rows.history \in Seq(Entry)
  BY DEF Rows
<1>2. <<x>> \o rows.history \in Seq(Entry)
  BY <1>1, LongerIs
<1>. QED  BY <1>2 DEF Rows, RowRetired, Items

LEMMA RowNotedType ==
  ASSUME NEW rows \in Rows, rows.seen \in SeenList, seenSourceEventIds \in SeenList,
         NEW e \in SourceEvents
  PROVE  /\ RowNoted(rows, e) \in Rows
         /\ RowNoted(rows, e).active = rows.active
         /\ RowNoted(rows, e).history = rows.history
         /\ RowNoted(rows, e).seen = RowSeen(rows.seen, e)
         /\ RowNoted(rows, e).seen \in SeenList
<1>1. RowSeen(rows.seen, e) \in SeenList
  BY NotedSeen
<1>2. RowSeen(rows.seen, e) \in Seq(SourceEvents)
  BY <1>1 DEF SeenList
<1>3. RowNoted(rows, e) = [rows EXCEPT !.seen = RowSeen(rows.seen, e)]
  BY RowNotedIs DEF Rows
<1>. QED  BY <1>1, <1>2, <1>3 DEF Rows

\* Items stay items, and in the right hands, when one is put or ends.
LEMMA PutHands ==
  ASSUME NEW items \in Items, HandsOK(items), NEW id \in WorkItems, NEW c \in Followup,
         c.status = "queued" => c.agent = NoAgent,
         c.status \in {"claimed", "in_progress"} => c.agent \in Agents
  PROVE  /\ [items EXCEPT ![id] = c] \in Items
         /\ HandsOK([items EXCEPT ![id] = c])
BY DEF Items, HandsOK, Live

LEMMA GoneHands ==
  ASSUME NEW items \in Items, HandsOK(items), NEW id \in WorkItems
  PROVE  /\ [items EXCEPT ![id] = NoWork] \in Items
         /\ HandsOK([items EXCEPT ![id] = NoWork])
BY DEF Items, HandsOK, Live

-----------------------------------------------------------------------------
(* Each of these keeps the types                                           *)

LEMMA MovesData ==
  ASSUME DataOK, NEW id \in Live(active), NEW c \in Followup, MovesTo(id, c)
  PROVE  DataOK'
<1>1. /\ id \in WorkItems /\ active \in Items /\ db \in Rows
      /\ HandsOK(active) /\ HandsOK(db.active) /\ db.active \in Items
      /\ active[id] \in Followup /\ active[id] # NoWork
  BY LiveType DEF DataOK, Rows
<1>2. /\ c.status = "queued" => c.agent = NoAgent
      /\ c.status \in {"claimed", "in_progress"} => c.agent \in Agents
  <2>1. active[id].status = "claimed" => active[id].agent \in Agents
    BY <1>1 DEF HandsOK
  <2>. QED  BY <2>1 DEF MovesTo, MoveRule
<1>3. active' \in Items /\ HandsOK(active')
  BY <1>1, <1>2, PutHands DEF MovesTo
<1>4. /\ RowPut(db, id, c) \in Rows /\ RowPut(db, id, c).seen = db.seen
      /\ HandsOK(RowPut(db, id, c).active)
  <2>1. /\ RowPut(db, id, c) \in Rows /\ RowPut(db, id, c).seen = db.seen
        /\ RowPut(db, id, c).active = [db.active EXCEPT ![id] = c]
    BY <1>1, RowPutType
  <2>2. HandsOK([db.active EXCEPT ![id] = c])
    BY <1>1, <1>2, PutHands
  <2>. QED  BY <2>1, <2>2
<1>5. Wrote({id}, RowPut(db, id, c)) /\ {id} \in SUBSET WorkItems /\ db.seen \in SeenList
  BY <1>1 DEF MovesTo, DataOK
<1>6. /\ db' \in Rows /\ Len(db'.history) <= MaxEntries /\ db'.seen \in SeenList
      /\ HandsOK(db'.active) /\ failures' \in 0..MaxFailures /\ dirty' \subseteq WorkItems
  BY <1>4, <1>5, WroteRows
<1>. QED  BY <1>3, <1>6 DEF MovesTo, DataOK, ghosts

LEMMA CreatesData ==
  ASSUME DataOK, NEW id \in WorkItems, NEW e \in Comments, Creates(id, e)
  PROVE  DataOK'
<1>1. /\ active \in Items /\ db \in Rows /\ db.seen \in SeenList
      /\ seenSourceEventIds \in SeenList
      /\ HandsOK(active) /\ HandsOK(db.active) /\ db.active \in Items
      /\ e \in SourceEvents
  BY PushOrComment DEF DataOK, Rows
<1>2. NewItem(e) \in Followup /\ NewItem(e).status = "queued" /\ NewItem(e).agent = NoAgent
  BY NewItemType
<1>3. active' \in Items /\ HandsOK(active')
  BY <1>1, <1>2, PutHands DEF Creates
<1>. DEFINE put == RowPut(db, id, NewItem(e))
<1>4. put \in Rows /\ put.seen = db.seen /\ HandsOK(put.active)
  <2>1. /\ put \in Rows /\ put.seen = db.seen
        /\ put.active = [db.active EXCEPT ![id] = NewItem(e)]
    BY <1>1, <1>2, RowPutType
  <2>2. HandsOK([db.active EXCEPT ![id] = NewItem(e)])
    BY <1>1, <1>2, PutHands
  <2>. QED  BY <2>1, <2>2
<1>. HIDE DEF put
<1>5. /\ RowNoted(put, e) \in Rows /\ RowNoted(put, e).seen \in SeenList
      /\ HandsOK(RowNoted(put, e).active)
  BY <1>1, <1>4, RowNotedType
<1>6. Wrote({id}, RowNoted(put, e)) /\ {id} \in SUBSET WorkItems
  BY DEF Creates, put
<1>7. /\ db' \in Rows /\ Len(db'.history) <= MaxEntries /\ db'.seen \in SeenList
      /\ HandsOK(db'.active) /\ failures' \in 0..MaxFailures /\ dirty' \subseteq WorkItems
  BY <1>5, <1>6, WroteRows
<1>8. seenSourceEventIds' \in SeenList
  BY <1>1, AddedSeen DEF Creates
<1>9. sourceEventToWorkItemId' \in [Comments -> WorkItems \cup {NoItem}]
  BY DEF Creates, DataOK
<1>10. made' \in 0..MaxItems /\ unsaved' \cup noted' \subseteq SourceEvents
  BY <1>1 DEF Creates, DataOK, WorkItems
<1>. QED  BY <1>3, <1>7, <1>8, <1>9, <1>10 DEF Creates, DataOK

LEMMA EndedType ==
  ASSUME DataOK, NEW id \in Live(active), NEW to \in Settled
  PROVE  /\ Ended(id, to) \in Entry /\ Longer(id, to) \in Seq(Entry)
         /\ id \in WorkItems /\ active[id] \in Followup
<1>1. id \in WorkItems /\ active[id] \in Followup /\ history \in Seq(Entry)
  BY LiveType DEF DataOK
<1>2. Ended(id, to) \in Entry
  BY <1>1, EntryType DEF Ended
<1>. QED  BY <1>1, <1>2, LongerIs DEF Longer

LEMMA UnmappedType ==
  ASSUME NEW map \in [Comments -> WorkItems \cup {NoItem}], NEW removed
  PROVE  Unmapped(map, removed) \in [Comments -> WorkItems \cup {NoItem}]
BY DEF Unmapped

LEMMA EndsData ==
  ASSUME DataOK, NEW id \in Live(active), NEW to \in Settled, Ends(id, to)
  PROVE  DataOK'
<1>1. /\ id \in WorkItems /\ active \in Items /\ db \in Rows
      /\ HandsOK(active) /\ HandsOK(db.active) /\ db.active \in Items
      /\ active[id] \in Followup /\ db.seen \in SeenList
  BY LiveType DEF DataOK, Rows
<1>2. Ended(id, to) \in Entry /\ Longer(id, to) \in Seq(Entry)
  BY EndedType
<1>3. active' \in Items /\ HandsOK(active')
  BY <1>1, GoneHands DEF Ends
<1>4. /\ RowRetired(db, id, Ended(id, to)) \in Rows
      /\ RowRetired(db, id, Ended(id, to)).seen = db.seen
      /\ HandsOK(RowRetired(db, id, Ended(id, to)).active)
  BY <1>1, <1>2, GoneHands, RowRetiredType
<1>5. Wrote({id}, RowRetired(db, id, Ended(id, to))) /\ {id} \in SUBSET WorkItems
  BY <1>1 DEF Ends
<1>6. /\ db' \in Rows /\ Len(db'.history) <= MaxEntries /\ db'.seen \in SeenList
      /\ HandsOK(db'.active) /\ failures' \in 0..MaxFailures /\ dirty' \subseteq WorkItems
  BY <1>1, <1>4, <1>5, WroteRows
<1>7. history' \in Seq(Entry) /\ Len(history') <= MaxEntries
  BY <1>2, TrimIs DEF Ends
<1>8. sourceEventToWorkItemId' \in [Comments -> WorkItems \cup {NoItem}]
  BY UnmappedType DEF Ends, DataOK
<1>9. finished' \subseteq Comments
  BY <1>1 DEF Ends, DataOK, Followup
<1>. QED  BY <1>3, <1>6, <1>7, <1>8, <1>9 DEF Ends, DataOK

LEMMA NotesData ==
  ASSUME DataOK, NEW e \in Pushes, Notes(e)
  PROVE  DataOK'
<1>1. /\ db \in Rows /\ db.seen \in SeenList /\ seenSourceEventIds \in SeenList
      /\ HandsOK(db.active) /\ e \in SourceEvents
  BY PushOrComment DEF DataOK
<1>2. /\ RowNoted(db, e) \in Rows /\ RowNoted(db, e).seen \in SeenList
      /\ HandsOK(RowNoted(db, e).active)
  BY <1>1, RowNotedType
<1>3. Wrote({}, RowNoted(db, e)) /\ {} \in SUBSET WorkItems
  BY DEF Notes
<1>4. /\ db' \in Rows /\ Len(db'.history) <= MaxEntries /\ db'.seen \in SeenList
      /\ HandsOK(db'.active) /\ failures' \in 0..MaxFailures /\ dirty' \subseteq WorkItems
  BY <1>2, <1>3, WroteRows
<1>5. seenSourceEventIds' \in SeenList
  BY <1>1, AddedSeen DEF Notes
<1>6. unsaved' \cup noted' \subseteq SourceEvents
  BY <1>1 DEF Notes, DataOK
<1>. QED  BY <1>4, <1>5, <1>6 DEF Notes, DataOK

LEMMA DoesData ==
  ASSUME DataOK, Does
  PROVE  DataOK'
<1>1. CASE Kept
  BY <1>1 DEF Kept, DataOK, memory, disk, ghosts
<1>. QED  BY <1>1, MovesData, CreatesData, EndsData, NotesData DEF Does

LEMMA TickData ==
  ASSUME DataOK, Tick
  PROVE  DataOK'
<1>1. /\ active \in Items /\ db \in Rows /\ db.active \in Items
      /\ HandsOK(active) /\ HandsOK(db.active)
  BY DEF DataOK, Rows
<1>2. /\ active' \in Items /\ HandsOK(active')
  BY <1>1, AgedType DEF Tick, HandsOK
<1>3. Aged(db.active) \in Items /\ HandsOK(Aged(db.active))
  BY <1>1, AgedType DEF HandsOK
<1>4. /\ db' \in Rows /\ db'.active = Aged(db.active)
      /\ db'.history = db.history /\ db'.seen = db.seen
  <2>1. db' = [db EXCEPT !.active = Aged(db.active)]
    BY DEF Tick, DataOK, Rows
  <2>. QED  BY <1>1, <1>3, <2>1 DEF Rows
<1>. QED  BY <1>2, <1>3, <1>4 DEF Tick, DataOK, ghosts

LEMMA NothingHeld == [id \in WorkItems |-> NoWork] \in Items
                     /\ Live([id \in WorkItems |-> NoWork]) = {}
BY DEF Items, Live

LEMMA EmptySeen == <<>> \in SeenList /\ ToSet(<<>>) = {}
<1>1. <<>> \in Seq(SourceEvents) /\ Len(<<>>) = 0
  BY EmptySeq
<1>2. ToSet(<<>>) = {<<>>[n] : n \in 1..0}
  BY <1>1, ToSetOf
<1>. QED  BY <1>1, <1>2, CapIsNat DEF SeenList, Distinct

LEMMA CrashData ==
  ASSUME DataOK, Crash
  PROVE  DataOK'
<1>1. active' \in Items /\ HandsOK(active')
  BY NothingHeld DEF Crash, HandsOK
<1>2. history' \in Seq(Entry) /\ Len(history') <= MaxEntries
  BY EmptySeq, ConfigAssumption DEF Crash
<1>3. seenSourceEventIds' \in SeenList
  BY EmptySeen DEF Crash
<1>. QED  BY <1>1, <1>2, <1>3 DEF Crash, DataOK, disk, ghosts

LEMMA HydratedIndexType ==
  ASSUME NEW rows \in Rows
  PROVE  /\ hydratedIndex(rows) \in [Comments -> WorkItems \cup {NoItem}]
         /\ \A e \in Comments :
              /\ \A id \in Live(rows.active) : rows.active[id].event = e =>
                   /\ hydratedIndex(rows)[e] \in Live(rows.active)
                   /\ rows.active[hydratedIndex(rows)[e]].event = e
              /\ (\A id \in Live(rows.active) : rows.active[id].event # e) =>
                   \/ /\ hydratedIndex(rows)[e] = NoItem
                      /\ \A n \in 1..Len(rows.history) : rows.history[n].event # e
                   \/ \E n \in 1..Len(rows.history) :
                        /\ rows.history[n].event = e
                        /\ hydratedIndex(rows)[e] = rows.history[n].item
<1>1. \A n \in 1..Len(rows.history) : rows.history[n].item \in WorkItems
  <2>1. rows.history \in Seq(Entry)
    BY DEF Rows
  <2>2. \A n \in 1..Len(rows.history) : rows.history[n] \in Entry
    BY <2>1, ElementOfSeq
  <2>. QED  BY <2>2 DEF Entry
<1>2. ASSUME NEW e \in Comments
      PROVE  /\ hydratedIndex(rows)[e] \in WorkItems \cup {NoItem}
             /\ \A id \in Live(rows.active) : rows.active[id].event = e =>
                  /\ hydratedIndex(rows)[e] \in Live(rows.active)
                  /\ rows.active[hydratedIndex(rows)[e]].event = e
             /\ (\A id \in Live(rows.active) : rows.active[id].event # e) =>
                  \/ /\ hydratedIndex(rows)[e] = NoItem
                     /\ \A n \in 1..Len(rows.history) : rows.history[n].event # e
                  \/ \E n \in 1..Len(rows.history) :
                       /\ rows.history[n].event = e
                       /\ hydratedIndex(rows)[e] = rows.history[n].item
  <2>. DEFINE inActive  == {id \in Live(rows.active) : rows.active[id].event = e}
              inHistory == {n \in 1..Len(rows.history) : rows.history[n].event = e}
  <2>1. hydratedIndex(rows)[e] =
          IF inActive # {} THEN CHOOSE id \in inActive : TRUE
          ELSE IF inHistory # {} THEN rows.history[CHOOSE n \in inHistory : TRUE].item
          ELSE NoItem
    BY DEF hydratedIndex
  <2>2. CASE inActive # {}
    <3>1. hydratedIndex(rows)[e] \in inActive
      BY <2>1, <2>2
    <3>. QED  BY <3>1, <2>2 DEF Live
  <2>3. CASE inActive = {} /\ inHistory # {}
    <3>1. PICK n \in inHistory : hydratedIndex(rows)[e] = rows.history[n].item
      BY <2>1, <2>3
    <3>. QED  BY <1>1, <2>3, <3>1
  <2>4. CASE inActive = {} /\ inHistory = {}
    BY <2>1, <2>4
  <2>. QED  BY <2>2, <2>3, <2>4
<1>3. hydratedIndex(rows) = [e \in Comments |-> hydratedIndex(rows)[e]]
  BY DEF hydratedIndex
<1>. QED  BY <1>2, <1>3

\* The list that hydrate builds, whatever the order of the rows of active items.
LEMMA HydratedSeenIs ==
  ASSUME NEW rows \in Rows, rows.seen \in SeenList,
         NEW order \in SetToSeqs({rows.active[id].event : id \in Live(rows.active)})
  PROVE  LET events == {rows.active[id].event : id \in Live(rows.active)}
                         \cup {rows.history[n].event : n \in 1..Len(rows.history)}
             s == hydratedSeen(rows, order)
         IN  /\ s \in SeenList
             /\ ToSet(s) \subseteq ToSet(rows.seen) \cup events
             /\ \A N : Fitting(N) /\ ToSet(rows.seen) \cup events \subseteq N =>
                  ToSet(rows.seen) \subseteq ToSet(s)
<1>. DEFINE here == {rows.active[id].event : id \in Live(rows.active)}
            gone == {rows.history[n].event : n \in 1..Len(rows.history)}
            past == [n \in 1..Len(rows.history) |-> rows.history[n].event]
            replay == order \o past
<1>1. rows.active \in Items /\ rows.history \in Seq(Entry)
  BY DEF Rows
<1>2. here \subseteq SourceEvents
  BY <1>1, LiveType, PushOrComment DEF Followup
<1>3. IsFiniteSet(here)
  <2>1. IsFiniteSet(Live(rows.active))
    <3>1. IsFiniteSet(WorkItems)
      BY ConfigAssumption, FS_Interval DEF WorkItems
    <3>. QED  BY <3>1, FS_Subset DEF Live
  <2>2. [id \in Live(rows.active) |-> rows.active[id].event]
          \in Surjection(Live(rows.active), here)
    BY DEF Surjection
  <2>. QED  BY <2>1, <2>2, FS_Surjection
<1>4. order \in Seq(SourceEvents) /\ ToSet(order) \subseteq here
  <2>1. order \in [1..Cardinality(here) -> here] /\ Cardinality(here) \in Nat
    BY <1>3, FS_CardinalityType DEF SetToSeqs
  <2>. HIDE DEF here
  <2>2. order \in Seq(here)
    BY <2>1, SeqDef
  <2>3. order \in Seq(SourceEvents)
    BY <1>2, <2>2, SeqMonotonic
  <2>. QED  BY <2>2, <2>3, ToSetOf
<1>5. past \in Seq(SourceEvents) /\ ToSet(past) = gone /\ Len(past) = Len(rows.history)
  <2>1. Len(rows.history) \in Nat
    BY <1>1, LenProperties
  <2>2. \A n \in 1..Len(rows.history) : rows.history[n] \in Entry
    BY <1>1, ElementOfSeq
  <2>3. \A n \in 1..Len(rows.history) : rows.history[n].event \in SourceEvents
    BY <2>2, PushOrComment DEF Entry
  <2>4. past \in [1..Len(rows.history) -> SourceEvents]
    BY <2>3
  <2>5. past \in Seq(SourceEvents)
    BY <2>1, <2>4, SeqDef
  <2>6. DOMAIN past = 1..Len(rows.history)
    OBVIOUS
  <2>7. Len(past) = Len(rows.history)
    BY <2>1, <2>5, <2>6, LenProperties
  <2>. QED  BY <2>5, <2>6, <2>7 DEF ToSet
<1>6. replay \in Seq(SourceEvents) /\ ToSet(replay) \subseteq here \cup gone
  <2>. HIDE DEF past, here, gone
  <2>1. /\ replay \in Seq(SourceEvents) /\ Len(replay) = Len(order) + Len(past)
        /\ \A n \in 1..(Len(order) + Len(past)) :
             replay[n] = IF n <= Len(order) THEN order[n] ELSE past[n - Len(order)]
    BY <1>4, <1>5, ConcatProperties
  <2>2. Len(order) \in Nat /\ Len(past) \in Nat
    BY <1>4, <1>5, LenProperties
  <2>3. /\ ToSet(replay) = {replay[n] : n \in 1..Len(replay)}
        /\ ToSet(order) = {order[n] : n \in 1..Len(order)}
        /\ ToSet(past) = {past[n] : n \in 1..Len(past)}
    BY <1>4, <1>5, <2>1, ToSetOf
  <2>. HIDE DEF replay
  <2>4. ASSUME NEW n \in 1..Len(replay) PROVE replay[n] \in ToSet(order) \cup ToSet(past)
    <3>1. CASE n <= Len(order)
      <4>1. n \in 1..Len(order) /\ replay[n] = order[n]
        BY <2>1, <2>2, <3>1
      <4>. QED  BY <2>3, <4>1
    <3>2. CASE ~(n <= Len(order))
      <4>1. n - Len(order) \in 1..Len(past) /\ replay[n] = past[n - Len(order)]
        BY <2>1, <2>2, <3>2
      <4>. QED  BY <2>3, <4>1
    <3>. QED  BY <3>1, <3>2
  <2>. QED  BY <1>4, <1>5, <2>1, <2>3, <2>4
<1>7. PICK list : /\ Loop(list, rows.seen, replay)
                  /\ hydratedSeen(rows, order) = list[Len(replay)]
  BY <1>6, HydratedIsLoop
<1>8. LET s == list[Len(replay)]
      IN  /\ s \in SeenList
          /\ ToSet(s) \subseteq ToSet(rows.seen) \cup ToSet(replay)
          /\ \A N : Fitting(N) /\ ToSet(rows.seen) \cup ToSet(replay) \subseteq N =>
               ToSet(rows.seen) \subseteq ToSet(s)
  <2>. HIDE DEF replay
  <2>. QED  BY <1>6, <1>7, LoopSeen
<1>. HIDE DEF replay, here, gone
<1>9. ASSUME NEW N, Fitting(N), ToSet(rows.seen) \cup (here \cup gone) \subseteq N
      PROVE  ToSet(rows.seen) \subseteq ToSet(list[Len(replay)])
  <2>1. ToSet(rows.seen) \cup ToSet(replay) \subseteq N
    BY <1>6, <1>9
  <2>. QED  BY <1>8, <1>9, <2>1
<1>10. ToSet(list[Len(replay)]) \subseteq ToSet(rows.seen) \cup (here \cup gone)
  BY <1>6, <1>8
<1>. QED  BY <1>7, <1>8, <1>9, <1>10 DEF here, gone

LEMMA RestartData ==
  ASSUME DataOK, Restart
  PROVE  DataOK'
<1>1. db \in Rows /\ db.active \in Items /\ db.history \in Seq(Entry)
      /\ db.seen \in SeenList /\ HandsOK(db.active)
  BY DEF DataOK, Rows
<1>2. seenSourceEventIds' \in SeenList
  <2>1. PICK order \in SetToSeqs({db.active[id].event : id \in Live(db.active)}) :
               seenSourceEventIds' = hydratedSeen(db, order)
    BY DEF Restart
  <2>. QED  BY <1>1, <2>1, HydratedSeenIs
<1>3. sourceEventToWorkItemId' \in [Comments -> WorkItems \cup {NoItem}]
  BY <1>1, HydratedIndexType DEF Restart
<1>. QED  BY <1>1, <1>2, <1>3 DEF Restart, DataOK, ghosts

-----------------------------------------------------------------------------
(* The inductive invariant                                                 *)

\* The calls whose comment may still become an item.
Creating == {h \in Hooks : pc[h] = "waiting" /\ request[h].op = "create"}

RoomLeft == made + Cardinality(Creating) <= MaxItems

\* What the webhook's loop has still to end is there to be ended.
StillThere(items, left) ==
  \A v \in left : items[v.item] # NoWork /\ items[v.item].event = v.event

LeftLive == \A p \in Procs : pc[p] = "resolving" => StillThere(active, request[p].left)

OneResolves ==
  \A p, q \in Procs : pc[p] = "resolving" /\ pc[q] = "resolving" => p = q

NothingDown == ~up => Live(active) = {} /\ \A p \in Procs : pc[p] = "idle"

TypeInv ==
  /\ DataOK /\ CallsOK /\ QueuesOK
  /\ up \in BOOLEAN /\ crashes \in 0..MaxCrashes /\ tainted \in BOOLEAN
  /\ RoomLeft /\ LeftLive /\ OneResolves /\ NothingDown

\* The step of a body: what it does to the records, and where it leaves its call.
BodyStep(p) ==
  /\ HasLock(p) \/ pc[p] = "resolving"
  /\ BodyCalls(p) /\ Does /\ UNCHANGED world
  /\ made' = made \/ (made' = made + 1 /\ p \in Creating /\ request' = request)
  /\ pc'[p] = "resolving" => StillThere(active', request'[p].left)

Answered(p) ==
  /\ pc' = [pc EXCEPT ![p] = "done"] /\ request' = request
  /\ answer' \in [Procs -> Answer]

LEMMA NothingDoneIs ==
  ASSUME CallsOK, NEW p \in Procs, NEW a \in Answer, NothingDone(p, a)
  PROVE  Answered(p) /\ Kept
BY DEF NothingDone, Respond, Answered, Kept, CallsOK

LEMMA TransactIs ==
  ASSUME CallsOK, NEW p \in Procs, NEW ids, NEW after, NEW a \in Answer, Transact(p, ids, after, a)
  PROVE  /\ Wrote(ids, after)
         /\ \E s \in {"resolving", "done"} :
              /\ pc' = [pc EXCEPT ![p] = s]
              /\ s = "resolving" => request'[p].op = "resolve"
         /\ answer' \in [Procs -> Answer]
         /\ request' = request /\ request[p].op # "resolve" => Answered(p)
<1>1. Wrote(ids, after)
  BY DEF Transact, Wrote
<1>2. \/ pc' = [pc EXCEPT ![p] = "resolving"] /\ answer' = answer
         /\ request'[p].op = "resolve"
      \/ \E b \in Answer : pc' = [pc EXCEPT ![p] = "done"] /\ answer' = [answer EXCEPT ![p] = b]
  BY DEF Transact, Proceed, Respond, Answer
<1>3. answer' \in [Procs -> Answer]
  BY <1>2 DEF CallsOK
<1>. QED  BY <1>1, <1>2, <1>3 DEF Answered

\* A body that answers at once, with or without a transaction.
LEMMA AnsweredStep ==
  ASSUME CallsOK, NEW p \in Procs, HasLock(p), Answered(p), Does,
         UNCHANGED <<lockQueues, sweepTimer, world>>,
         made' = made \/ (made' = made + 1 /\ p \in Creating)
  PROVE  BodyStep(p)
<1>1. pc'[p] = "done"
  BY DEF Answered, CallsOK
<1>2. BodyCalls(p)
  BY <1>1 DEF BodyCalls, Answered
<1>. QED  BY <1>1, <1>2 DEF BodyStep, Answered

LEMMA MoveItemIs ==
  ASSUME TypeInv, NEW p \in Procs, NEW id \in Live(active), NEW to \in Open,
         NEW a \in Agents \cup {NoAgent},
         to \in FOLLOWUP_TRANSITIONS[active[id].status],
         IF a = NoAgent THEN to = "stale" ELSE MayUpdate(active[id], to, a),
         MoveItem(p, id, active[id], to, a), request' = request, request[p].op # "resolve"
  PROVE  Answered(p) /\ Does /\ made' = made
<1>. DEFINE b == active[id]
            c == Moved(b, to, a)
<1>1. b \in Followup /\ b # NoWork /\ HandsOK(active) /\ CallsOK
  BY LiveType DEF TypeInv, DataOK
<1>2. /\ c \in Followup /\ c.event = b.event /\ c.status = to
      /\ c.agent = IF b.agent = NoAgent THEN a ELSE b.agent
  BY <1>1, MovedType
<1>3. /\ b.status = "queued" => b.agent = NoAgent
      /\ b.status \in {"claimed", "in_progress"} => b.agent \in Agents
  BY <1>1 DEF HandsOK
<1>4. /\ b.status \in {"queued", "claimed", "in_progress", "stale"}
      /\ b.agent \in Agents \cup {NoAgent}
  BY <1>1 DEF Followup, Open
<1>5. /\ active' = [active EXCEPT ![id] = c]
      /\ Transact(p, {id}, RowPut(db, id, c), "applied")
      /\ UNCHANGED <<history, sourceEventToWorkItemId, seenSourceEventIds, ghosts>>
  BY DEF MoveItem
<1>. HIDE DEF b, c
<1>6. MoveRule(b, c)
  <2>1. CASE b.status = "queued"
    <3>1. to \in {"claimed", "in_progress", "stale"}
      BY <2>1 DEF FOLLOWUP_TRANSITIONS, Open, b
    <3>. QED  BY <1>2, <1>3, <2>1, <3>1 DEF MayUpdate, MoveRule, b
  <2>2. CASE b.status = "claimed"
    <3>1. to \in {"in_progress", "stale"}
      BY <2>2 DEF FOLLOWUP_TRANSITIONS, Open, b
    <3>. QED  BY <1>2, <1>3, <2>2, <3>1, SentinelAssumption DEF MoveRule
  <2>3. CASE b.status = "in_progress"
    <3>1. to = "stale"
      BY <2>3 DEF FOLLOWUP_TRANSITIONS, Open, b
    <3>. QED  BY <1>2, <1>3, <2>3, <3>1, SentinelAssumption DEF MoveRule
  <2>4. CASE b.status = "stale"
    <3>1. to \in {"claimed", "in_progress"}
      BY <2>4 DEF FOLLOWUP_TRANSITIONS, Open, b
    <3>2. c.agent \in Agents
      BY <1>2, <1>4, <3>1
    <3>. QED  BY <1>2, <2>4, <3>1, <3>2 DEF MoveRule
  <2>. QED  BY <1>4, <2>1, <2>2, <2>3, <2>4
<1>7. "applied" \in Answer
  BY DEF Answer
<1>8. Wrote({id}, RowPut(db, id, c)) /\ Answered(p)
  BY <1>1, <1>5, <1>7, TransactIs
<1>9. MovesTo(id, c)
  BY <1>2, <1>5, <1>6, <1>8 DEF MovesTo, b
<1>. QED  BY <1>2, <1>5, <1>8, <1>9 DEF Does, ghosts

LEMMA EndItemIs ==
  ASSUME NEW p \in Procs, NEW id \in Live(active), NEW to \in Settled, CallsOK,
         EndItem(p, id, active[id], to)
  PROVE  /\ Ends(id, to) /\ Does /\ made' = made
         /\ \E s \in {"resolving", "done"} :
              /\ pc' = [pc EXCEPT ![p] = s]
              /\ s = "resolving" => request'[p].op = "resolve"
         /\ answer' \in [Procs -> Answer]
         /\ request' = request /\ request[p].op # "resolve" => Answered(p)
<1>1. "applied" \in Answer
  BY DEF Answer
<1>2. Transact(p, {id}, RowRetired(db, id, Ended(id, to)), "applied")
  BY DEF EndItem, Ended
<1>3. Ends(id, to)
  <2>1. Wrote({id}, RowRetired(db, id, Ended(id, to)))
    BY <1>1, <1>2, TransactIs
  <2>. QED  BY <2>1 DEF EndItem, Ends, Ended, Longer
<1>. QED  BY <1>1, <1>2, <1>3, TransactIs DEF Does, Ends

LEMMA TransitionIs ==
  ASSUME TypeInv, NEW p \in Procs, NEW id \in Live(active), NEW to \in Status,
         NEW a \in Agents \cup {NoAgent}, a = NoAgent => to = "stale",
         applyStatusTransition(p, id, active[id], to, a), request[p].op # "resolve"
  PROVE  Answered(p) /\ Does /\ made' = made
<1>1. CallsOK /\ "same" \in Answer /\ "rejected" \in Answer
  BY DEF TypeInv, Answer
<1>2. CASE NothingDone(p, "same") \/ NothingDone(p, "rejected")
  BY <1>1, <1>2, NothingDoneIs DEF Does, Kept, ghosts
<1>3. CASE /\ to \in FOLLOWUP_TRANSITIONS[active[id].status]
           /\ a # NoAgent => MayUpdate(active[id], to, a)
           /\ request' = request
           /\ IF to \in Settled THEN EndItem(p, id, active[id], to)
              ELSE MoveItem(p, id, active[id], to, a)
  <2>1. CASE to \in Settled
    BY <1>1, <1>3, <2>1, EndItemIs
  <2>2. CASE to \notin Settled
    <3>1. to \in Open
      BY <2>2 DEF Status
    <3>. QED  BY <1>3, <2>2, <3>1, MoveItemIs
  <2>. QED  BY <2>1, <2>2
<1>. QED  BY <1>2, <1>3 DEF applyStatusTransition


-----------------------------------------------------------------------------
(* Every body does one of these things to the data                         *)

LEMMA WaitingRequest ==
  ASSUME TypeInv, NEW p \in Procs, HasLock(p)
  PROVE  pc[p] = "waiting" /\ request[p] \in Request
BY DEF HasLock, TypeInv, QueuesOK, InQueue

\* There is a number left for every comment that still waits for its lock.
LEMMA RoomFor ==
  ASSUME TypeInv, NEW h \in Creating
  PROVE  made + 1 \in WorkItems
<1>1. IsFiniteSet(Hooks) /\ Creating \subseteq Hooks
  BY InputAssumption DEF Creating
<1>2. IsFiniteSet(Creating)
  BY <1>1, FS_Subset
<1>3. Cardinality(Creating) \in Nat /\ Cardinality(Creating) # 0
  BY <1>2, FS_CardinalityType, FS_EmptySet
<1>. QED  BY <1>3, ConfigAssumption DEF TypeInv, RoomLeft, DataOK, WorkItems

LEMMA RunCreateStep ==
  ASSUME TypeInv, NEW h \in Hooks, RunCreate(h)
  PROVE  BodyStep(h)
<1>. DEFINE e == request[h].event
<1>1. h \in Procs /\ HasLock(h) /\ CallsOK /\ UNCHANGED <<lockQueues, sweepTimer, world>>
  BY DEF RunCreate, TypeInv
<1>2. request[h] \in CreateRequest /\ request[h].op = "create" /\ h \in Creating
  BY <1>1, WaitingRequest, RequestOp DEF RunCreate, Creating
<1>3. e \in Comments
  BY <1>2 DEF CreateRequest
<1>4. "known" \in Answer /\ "created" \in Answer
  BY DEF Answer
<1>5. CASE hasSeenSourceEventId(e)
  <2>1. NothingDone(h, "known")
    BY <1>5 DEF RunCreate
  <2>2. Answered(h) /\ Kept
    BY <1>1, <1>4, <2>1, NothingDoneIs
  <2>. QED  BY <1>1, <2>2, AnsweredStep DEF Does, Kept, ghosts
<1>6. CASE ~hasSeenSourceEventId(e)
  <2>1. CreateItem(h, made + 1, e)
    BY <1>6 DEF RunCreate
  <2>2. made + 1 \in WorkItems
    BY <1>2, RoomFor
  <2>3. Transact(h, {made + 1}, RowNoted(RowPut(db, made + 1, NewItem(e)), e), "created")
        /\ request' = request /\ made' = made + 1
    BY <2>1 DEF CreateItem
  <2>4. Answered(h) /\ Wrote({made + 1}, RowNoted(RowPut(db, made + 1, NewItem(e)), e))
    BY <1>1, <1>2, <1>4, <2>3, TransactIs
  <2>5. Creates(made + 1, e)
    BY <1>6, <2>1, <2>4 DEF Creates, CreateItem
  <2>6. Does
    BY <1>3, <2>2, <2>5 DEF Does
  <2>. QED  BY <1>1, <1>2, <2>3, <2>4, <2>6, AnsweredStep
<1>. QED  BY <1>5, <1>6

LEMMA RunNextStep ==
  ASSUME TypeInv, NEW w \in Workers, RunNext(w)
  PROVE  BodyStep(w)
<1>. DEFINE id == request[w].item
            c == TakenBy(active[id], request[w].agent)
<1>1. w \in Procs /\ HasLock(w) /\ CallsOK /\ UNCHANGED <<lockQueues, sweepTimer, world>>
  BY DEF RunNext, TypeInv
<1>2. request[w] \in NextRequest /\ request[w].op = "next"
  BY <1>1, WaitingRequest, RequestOp DEF RunNext
<1>3. id \in WorkItems /\ request[w].agent \in Agents
  BY <1>2 DEF NextRequest
<1>4. "skipped" \in Answer /\ "claimed" \in Answer
  BY DEF Answer
<1>5. CASE ~StillOffered(id)
  <2>1. NothingDone(w, "skipped")
    BY <1>5 DEF RunNext
  <2>2. Answered(w) /\ Kept
    BY <1>1, <1>4, <2>1, NothingDoneIs
  <2>. QED  BY <1>1, <2>2, AnsweredStep DEF Does, Kept, ghosts
<1>6. CASE StillOffered(id)
  <2>1. id \in Live(active) /\ active[id].status \in {"queued", "stale"}
    BY <1>3, <1>6 DEF StillOffered, Live
  <2>2. active[id] \in Followup /\ active \in Items
    BY <2>1, LiveType DEF TypeInv, DataOK
  <2>3. /\ c \in Followup /\ c.event = active[id].event
        /\ c.status = "claimed" /\ c.agent = request[w].agent
    BY <1>3, <2>2, TakenType
  <2>4. /\ request' = request /\ active' = [active EXCEPT ![id] = c]
        /\ Transact(w, {id}, RowPut(db, id, c), "claimed")
        /\ UNCHANGED <<history, sourceEventToWorkItemId, seenSourceEventIds, ghosts>>
    BY <1>3, <1>6, <2>2 DEF RunNext, Items
  <2>. HIDE DEF c
  <2>5. Wrote({id}, RowPut(db, id, c)) /\ Answered(w)
    BY <1>1, <1>2, <1>4, <2>4, TransactIs
  <2>6. MovesTo(id, c)
    BY <1>3, <2>1, <2>3, <2>4, <2>5 DEF MovesTo, MoveRule
  <2>7. Does /\ made' = made
    BY <2>1, <2>3, <2>4, <2>6 DEF Does, ghosts
  <2>. QED  BY <1>1, <2>5, <2>7, AnsweredStep
<1>. QED  BY <1>5, <1>6

LEMMA RunUpdateStep ==
  ASSUME TypeInv, NEW w \in Workers, RunUpdate(w)
  PROVE  BodyStep(w)
<1>. DEFINE r == request[w]
<1>1. w \in Procs /\ HasLock(w) /\ CallsOK /\ UNCHANGED <<lockQueues, sweepTimer, world>>
  BY DEF RunUpdate, TypeInv
<1>2. r \in UpdateRequest /\ r.op = "update"
  BY <1>1, WaitingRequest, RequestOp DEF RunUpdate
<1>3. r.item \in WorkItems /\ r.to \in Status /\ r.agent \in Agents /\ r.agent # NoAgent
  BY <1>2, SentinelAssumption DEF UpdateRequest
<1>4. CASE active[r.item] = NoWork
  <2>1. NothingDone(w, "rejected") /\ "rejected" \in Answer
    BY <1>4 DEF RunUpdate, Answer
  <2>2. Answered(w) /\ Kept
    BY <1>1, <2>1, NothingDoneIs
  <2>. QED  BY <1>1, <2>2, AnsweredStep DEF Does, Kept, ghosts
<1>5. CASE active[r.item] # NoWork
  <2>1. r.item \in Live(active)
    BY <1>3, <1>5 DEF Live
  <2>2. applyStatusTransition(w, r.item, active[r.item], r.to, r.agent)
    BY <1>5 DEF RunUpdate
  <2>3. Answered(w) /\ Does /\ made' = made
    BY <1>1, <1>2, <1>3, <2>1, <2>2, TransitionIs
  <2>. QED  BY <1>1, <2>3, AnsweredStep
<1>. QED  BY <1>4, <1>5

LEMMA RunSweepStep ==
  ASSUME TypeInv, RunSweep
  PROVE  BodyStep(Sweeper)
<1>. DEFINE id == request[Sweeper].item
<1>1. /\ Sweeper \in Procs /\ HasLock(Sweeper) /\ CallsOK
      /\ UNCHANGED <<lockQueues, sweepTimer, world>>
  BY DEF RunSweep, TypeInv
<1>2. request[Sweeper] \in SweepRequest /\ request[Sweeper].op = "sweep"
  BY <1>1, WaitingRequest, RequestOp DEF RunSweep
<1>3. id \in WorkItems /\ "stale" \in Status
  BY <1>2 DEF SweepRequest, Status, Open
<1>4. CASE ~MarksStale(active[id])
  <2>1. NothingDone(Sweeper, "same") /\ "same" \in Answer
    BY <1>4 DEF RunSweep, Answer
  <2>2. Answered(Sweeper) /\ Kept
    BY <1>1, <2>1, NothingDoneIs
  <2>. QED  BY <1>1, <2>2, AnsweredStep DEF Does, Kept, ghosts
<1>5. CASE MarksStale(active[id])
  <2>1. id \in Live(active)
    BY <1>3, <1>5 DEF Live, MarksStale
  <2>2. applyStatusTransition(Sweeper, id, active[id], "stale", NoAgent)
    BY <1>5 DEF RunSweep
  <2>3. Answered(Sweeper) /\ Does /\ made' = made
    BY <1>1, <1>2, <1>3, <2>1, <2>2, TransitionIs
  <2>. QED  BY <1>1, <2>3, AnsweredStep
<1>. QED  BY <1>4, <1>5

LEMMA RunResolveStep ==
  ASSUME TypeInv, NEW h \in Hooks, RunResolve(h)
  PROVE  BodyStep(h)
<1>. DEFINE r == request[h]
            left == Visits(OpenOf(r.pr))
<1>1. h \in Procs /\ HasLock(h) /\ CallsOK /\ UNCHANGED <<lockQueues, sweepTimer, world>>
  BY DEF RunResolve, TypeInv
<1>2. r \in ResolveRequest /\ r.op = "resolve" /\ r.event \in Pushes
  BY <1>1, WaitingRequest, RequestOp DEF RunResolve, ResolveRequest
<1>3. /\ left \in SUBSET Visit
      /\ \A v \in left : v.item \in Live(active) /\ v.event = active[v.item].event
  <2>1. OpenOf(r.pr) \subseteq Live(active) /\ active \in Items
    BY DEF OpenOf, TypeInv, DataOK
  <2>. QED  BY <2>1, VisitsIn
<1>4. /\ Transact(h, {}, RowNoted(db, r.event), "applied") /\ "applied" \in Answer
      /\ request' = [request EXCEPT ![h].left = left]
      /\ active' = active /\ made' = made
  BY DEF RunResolve, Answer
<1>. HIDE DEF left
<1>5. /\ Wrote({}, RowNoted(db, r.event)) /\ answer' \in [Procs -> Answer]
      /\ \E s \in {"resolving", "done"} : pc' = [pc EXCEPT ![h] = s]
  BY <1>1, <1>4, TransactIs
<1>6. Notes(r.event)
  BY <1>5 DEF Notes, RunResolve
<1>7. Does
  BY <1>2, <1>6 DEF Does
<1>8. request'[h].left = left
  BY <1>1, <1>2, <1>4 DEF CallsOK, ResolveRequest
<1>9. StillThere(active', request'[h].left)
  BY <1>3, <1>4, <1>8 DEF StillThere, Live
<1>10. BodyCalls(h)
  BY <1>1, <1>2, <1>3, <1>4, <1>5 DEF BodyCalls
<1>. QED  BY <1>1, <1>4, <1>7, <1>9, <1>10 DEF BodyStep

LEMMA ResolveNextStep ==
  ASSUME TypeInv, NEW h \in Hooks, ResolveNext(h)
  PROVE  BodyStep(h)
<1>1. /\ h \in Procs /\ pc[h] = "resolving" /\ CallsOK /\ active \in Items
      /\ UNCHANGED <<lockQueues, sweepTimer, world>>
  BY DEF ResolveNext, TypeInv, DataOK
<1>2. request[h] \in ResolveRequest /\ request[h].left \in SUBSET Visit
  BY <1>1 DEF TypeInv, QueuesOK, ResolveRequest
<1>3. PICK v \in request[h].left :
             /\ request' = [request EXCEPT ![h].left = @ \ {v}]
             /\ EndItem(h, v.item, active[v.item], "done")
  BY DEF ResolveNext
<1>4. StillThere(active, request[h].left)
  BY <1>1 DEF TypeInv, LeftLive
<1>5. v.item \in Live(active) /\ "done" \in Settled
  BY <1>2, <1>4 DEF StillThere, Visit, Live, Settled
<1>6. /\ Ends(v.item, "done") /\ Does /\ made' = made
      /\ answer' \in [Procs -> Answer]
      /\ \E s \in {"resolving", "done"} : pc' = [pc EXCEPT ![h] = s]
  BY <1>1, <1>3, <1>5, EndItemIs
<1>. DEFINE left == request[h].left \ {v}
<1>7. /\ left \in SUBSET Visit /\ request' = [request EXCEPT ![h].left = left]
      /\ request'[h].left = left
  BY <1>1, <1>2, <1>3 DEF CallsOK, ResolveRequest
<1>8. BodyCalls(h)
  BY <1>1, <1>2, <1>6, <1>7 DEF BodyCalls
<1>9. \A x \in left : x.item # v.item
  <2>1. \A x \in left : x.item = v.item => x = v
    BY <1>2, <1>4 DEF StillThere, Visit
  <2>. QED  BY <2>1
<1>10. active' = [active EXCEPT ![v.item] = NoWork]
  BY <1>6 DEF Ends
<1>11. StillThere(active', left)
  BY <1>1, <1>4, <1>9, <1>10 DEF StillThere, Items
<1>. QED  BY <1>1, <1>6, <1>7, <1>8, <1>11 DEF BodyStep


-----------------------------------------------------------------------------
(* The invariant is kept                                                   *)

LEMMA CreatingFinite ==
  /\ IsFiniteSet(Creating) /\ Cardinality(Creating) \in Nat
  /\ \A T \in SUBSET Creating : IsFiniteSet(T) /\ Cardinality(T) <= Cardinality(Creating)
  /\ \A h \in Creating : Cardinality(Creating \ {h}) = Cardinality(Creating) - 1
  /\ \A h \in Hooks : Cardinality(Creating \cup {h}) <= Cardinality(Creating) + 1
<1>1. IsFiniteSet(Creating)
  BY InputAssumption, FS_Subset DEF Creating
<1>. QED  BY <1>1, FS_CardinalityType, FS_Subset, FS_RemoveElement, FS_AddElement

LEMMA BodyStepInv ==
  ASSUME TypeInv, NEW p \in Procs, BodyStep(p)
  PROVE  TypeInv'
<1>1. CallsOK' /\ QueuesOK'
  BY BodyCallsKeep DEF TypeInv, BodyStep
<1>2. DataOK'
  BY DoesData DEF TypeInv, BodyStep
<1>3. up' = up /\ crashes' = crashes /\ tainted' = tainted
  BY DEF BodyStep, world
<1>4. up
  BY DEF BodyStep, HasLock, Calm, TypeInv, NothingDown
<1>5. PICK s \in {"resolving", "done"} : pc' = [pc EXCEPT ![p] = s]
  BY DEF BodyStep, BodyCalls
<1>6. \A q \in Procs : q # p => pc'[q] = pc[q] /\ request'[q] = request[q]
  BY <1>5 DEF BodyStep, BodyCalls, TypeInv, CallsOK
<1>7. \A q \in Procs : q # p => pc[q] # "resolving"
  BY DEF BodyStep, HasLock, Calm, TypeInv, OneResolves
<1>8. OneResolves' /\ LeftLive'
  BY <1>6, <1>7 DEF OneResolves, LeftLive, BodyStep
<1>9. pc'[p] # "waiting"
  BY <1>5 DEF TypeInv, CallsOK
<1>10. Creating' \subseteq Creating \ {p}
  BY <1>6, <1>9 DEF Creating
<1>11. RoomLeft'
  <2>1. Cardinality(Creating') \in Nat /\ Cardinality(Creating') <= Cardinality(Creating)
    BY <1>10, CreatingFinite, FS_CardinalityType
  <2>2. CASE made' = made
    BY <2>1, <2>2, CreatingFinite, ConfigAssumption DEF TypeInv, RoomLeft, DataOK
  <2>3. CASE made' = made + 1 /\ p \in Creating
    <3>1. IsFiniteSet(Creating \ {p}) /\ Cardinality(Creating \ {p}) = Cardinality(Creating) - 1
      BY <2>3, CreatingFinite
    <3>2. Cardinality(Creating') <= Cardinality(Creating \ {p})
      BY <1>10, <3>1, FS_Subset
    <3>. QED  BY <2>1, <2>3, <3>1, <3>2, CreatingFinite, ConfigAssumption
              DEF TypeInv, RoomLeft, DataOK
  <2>. QED  BY <2>2, <2>3 DEF BodyStep
<1>. QED  BY <1>1, <1>2, <1>3, <1>4, <1>8, <1>11 DEF TypeInv, NothingDown

\* A step that only moves calls, while nobody is in the webhook's loop.
CallStep ==
  /\ Calm /\ Kept /\ UNCHANGED world
  /\ \A q \in Procs : pc'[q] # "resolving"
  /\ CallsOK' /\ QueuesOK' /\ RoomLeft'

LEMMA CallStepInv ==
  ASSUME TypeInv, CallStep
  PROVE  TypeInv'
<1>1. DataOK'
  BY DEF TypeInv, CallStep, Kept, DataOK, memory, disk, ghosts
<1>2. up /\ up' = up /\ crashes' = crashes /\ tainted' = tainted
  BY DEF CallStep, Calm, world
<1>. QED  BY <1>1, <1>2 DEF TypeInv, CallStep, LeftLive, OneResolves, NothingDown

LEMMA EnqueueStep ==
  ASSUME TypeInv, NEW p \in Procs, Calm, pc[p] \in {"idle", "looking"},
         NEW r \in Request, withIssueLock(p, r),
         r.op = "create" => p \in Hooks /\ SpareItems
  PROVE  CallStep
<1>1. CallsOK' /\ QueuesOK'
  BY EnqueueCalls DEF TypeInv
<1>2. /\ pc' = [pc EXCEPT ![p] = "waiting"] /\ request' = [request EXCEPT ![p] = r]
      /\ UNCHANGED <<memory, answer, sweepTimer, disk, world, ghosts>>
  BY DEF withIssueLock
<1>3. /\ pc'[p] = "waiting" /\ request'[p] = r
      /\ \A q \in Procs : q # p => pc'[q] = pc[q] /\ request'[q] = request[q]
  BY <1>2 DEF TypeInv, CallsOK
<1>4. \A q \in Procs : pc'[q] # "resolving"
  BY <1>3 DEF Calm
<1>5. RoomLeft'
  <2>1. made' = made /\ made \in Nat /\ made + Cardinality(Creating) <= MaxItems
    BY <1>2 DEF ghosts, TypeInv, DataOK, RoomLeft
  <2>2. CASE r.op # "create"
    <3>1. Creating' \in SUBSET Creating
      BY <1>3, <2>2 DEF Creating
    <3>2. IsFiniteSet(Creating') /\ Cardinality(Creating') <= Cardinality(Creating)
      BY <3>1, CreatingFinite
    <3>. QED  BY <2>1, <3>2, FS_CardinalityType, CreatingFinite, ConfigAssumption DEF RoomLeft
  <2>3. CASE r.op = "create"
    <3>1. Creating' \subseteq Creating \cup {p}
      BY <1>3 DEF Creating
    <3>2. IsFiniteSet(Creating \cup {p})
          /\ Cardinality(Creating \cup {p}) <= Cardinality(Creating) + 1
      BY <2>3, CreatingFinite, FS_AddElement
    <3>3. /\ IsFiniteSet(Creating')
          /\ Cardinality(Creating') <= Cardinality(Creating \cup {p})
      BY <3>1, <3>2, FS_Subset
    <3>4. made + Cardinality(Creating) < MaxItems
      BY <2>3 DEF SpareItems, Creating
    <3>5. Cardinality(Creating') \in Nat /\ Cardinality(Creating \cup {p}) \in Nat
      BY <3>2, <3>3, FS_CardinalityType
    <3>. QED  BY <2>1, <3>2, <3>3, <3>4, <3>5, CreatingFinite, ConfigAssumption DEF RoomLeft
  <2>. QED  BY <2>2, <2>3
<1>. QED  BY <1>1, <1>2, <1>4, <1>5 DEF CallStep, Kept

LEMMA LookOnStep ==
  ASSUME TypeInv, NEW p \in Procs, LookOn(p)
  PROVE  CallStep
<1>1. Calm /\ pc[p] = "looking" /\ request[p] \in NextRequest \cup SweepRequest
  BY DEF LookOn, TypeInv, QueuesOK
<1>2. PICK v \in request[p].left :
        withIssueLock(p, [request[p] EXCEPT !.pr = PrOf[v.event], !.item = v.item,
                                            !.left = @ \ {v}])
  BY DEF LookOn
<1>. DEFINE r == [request[p] EXCEPT !.pr = PrOf[v.event], !.item = v.item,
                                    !.left = @ \ {v}]
<1>3. v \in Visit /\ request[p].left \in SUBSET Visit
  BY <1>1 DEF NextRequest, SweepRequest
<1>4. PrOf[v.event] \in Prs /\ v.item \in WorkItems
  BY <1>3, InputAssumption, PushOrComment DEF Visit
<1>5. r \in NextRequest \cup SweepRequest /\ r.op # "create"
  BY <1>1, <1>3, <1>4 DEF NextRequest, SweepRequest
<1>6. r \in Request
  BY <1>5 DEF Request
<1>. HIDE DEF r
<1>. QED  BY <1>1, <1>2, <1>5, <1>6, EnqueueStep DEF r

LEMMA BeginStep ==
  ASSUME TypeInv, NEW p \in Procs, NEW r \in Request, Begin(p, r),
         r.op = "create" => p \in Hooks /\ SpareItems
  PROVE  CallStep
BY EnqueueStep DEF Begin

LEMMA HookRequestStep ==
  ASSUME TypeInv, NEW h \in Hooks, HookRequest(h)
  PROVE  CallStep
<1>1. CASE \E e \in Comments : InvokeCreate(h, e)
  <2>1. PICK e \in Comments : InvokeCreate(h, e)
    BY <1>1
  <2>. DEFINE r == [op |-> "create", pr |-> PrOf[e], event |-> e]
  <2>2. r \in CreateRequest
    BY InputAssumption, PushOrComment DEF CreateRequest
  <2>3. r \in Request
    BY <2>2 DEF Request
  <2>4. Begin(h, r) /\ SpareItems
    BY <2>1 DEF InvokeCreate
  <2>. QED  BY <2>3, <2>4, BeginStep
<1>2. CASE \E e \in Pushes : InvokeResolve(h, e)
  <2>1. PICK e \in Pushes : InvokeResolve(h, e)
    BY <1>2
  <2>. DEFINE r == [op |-> "resolve", pr |-> PrOf[e], event |-> e, left |-> {}]
  <2>2. r \in ResolveRequest /\ r.op # "create"
    BY InputAssumption, PushOrComment DEF ResolveRequest
  <2>3. r \in Request
    BY <2>2 DEF Request
  <2>4. Begin(h, r)
    BY <2>1 DEF InvokeResolve
  <2>. QED  BY <2>2, <2>3, <2>4, BeginStep
<1>. QED  BY <1>1, <1>2 DEF HookRequest

LEMMA InvokeNextStep ==
  ASSUME TypeInv, NEW w \in Workers, NEW a \in Agents, NEW scope, InvokeNext(w, a, scope)
  PROVE  CallStep
<1>. DEFINE vs == Visits(Offered(scope))
            c == First(vs)
            r == [op |-> "next", pr |-> PrOf[c.event], agent |-> a, item |-> c.item,
                  left |-> vs \ {c}]
<1>1. active \in Items /\ Offered(scope) \subseteq Live(active) /\ Offered(scope) # {}
  BY DEF InvokeNext, Offered, TypeInv, DataOK
<1>2. vs \in SUBSET Visit /\ \A v, x \in vs : v.item = x.item => v = x
  BY <1>1, VisitsIn
<1>3. vs # {}
  BY <1>1 DEF Visits
<1>4. c \in vs
  BY <1>2, <1>3, FirstIn
<1>5. Begin(w, r)
  BY DEF InvokeNext
<1>. HIDE DEF vs, c
<1>6. PrOf[c.event] \in Prs /\ c.item \in WorkItems
  BY <1>2, <1>4, InputAssumption, PushOrComment DEF Visit
<1>7. r \in NextRequest /\ r.op # "create"
  BY <1>2, <1>6 DEF NextRequest
<1>8. r \in Request
  BY <1>7 DEF Request
<1>. QED  BY <1>5, <1>7, <1>8, BeginStep

LEMMA InvokeUpdateStep ==
  ASSUME TypeInv, NEW w \in Workers, NEW a \in Agents, NEW id \in WorkItems,
         NEW to \in AgentUpdates, InvokeUpdate(w, a, id, to)
  PROVE  CallStep
<1>. DEFINE r == [op |-> "update", pr |-> PrOf[active[id].event], agent |-> a,
                  item |-> id, to |-> to]
<1>1. active[id] \in Followup /\ to \in Status
  BY InputAssumption DEF InvokeUpdate, TypeInv, DataOK, Items
<1>2. PrOf[active[id].event] \in Prs
  BY <1>1, InputAssumption, PushOrComment DEF Followup
<1>3. r \in UpdateRequest /\ r.op # "create"
  BY <1>1, <1>2 DEF UpdateRequest
<1>4. r \in Request
  BY <1>3 DEF Request
<1>5. Begin(w, r)
  BY DEF InvokeUpdate
<1>. QED  BY <1>3, <1>4, <1>5, BeginStep

LEMMA StartSweepStep ==
  ASSUME TypeInv, StartSweep
  PROVE  CallStep
<1>1. PICK v \in Visits(Live(active)) :
        Begin(Sweeper, [op |-> "sweep", pr |-> PrOf[v.event], item |-> v.item,
                        left |-> Visits(Live(active)) \ {v}])
  BY DEF StartSweep
<1>. DEFINE r == [op |-> "sweep", pr |-> PrOf[v.event], item |-> v.item,
                  left |-> Visits(Live(active)) \ {v}]
<1>2. Visits(Live(active)) \in SUBSET Visit
  BY VisitsIn DEF TypeInv, DataOK
<1>3. PrOf[v.event] \in Prs /\ v.item \in WorkItems
  BY <1>2, InputAssumption, PushOrComment DEF Visit
<1>4. r \in SweepRequest /\ r.op # "create"
  BY <1>2, <1>3 DEF SweepRequest
<1>5. r \in Request
  BY <1>4 DEF Request
<1>. HIDE DEF r
<1>. QED  BY <1>1, <1>4, <1>5, BeginStep DEF r

LEMMA FinishStep ==
  ASSUME TypeInv, NEW p \in Procs, Finish(p)
  PROVE  CallStep
<1>1. CallsOK' /\ QueuesOK'
  BY FinishCalls DEF TypeInv
<1>2. /\ pc' = [pc EXCEPT ![p] = IF GoesOn(p) THEN "looking" ELSE "idle"]
      /\ request' = [request EXCEPT ![p] = IF GoesOn(p) THEN request[p] ELSE NoRequest]
      /\ Calm /\ UNCHANGED <<memory, sweepTimer, disk, world, ghosts>>
  BY DEF Finish, TypeInv, CallsOK
<1>3. /\ pc'[p] \in {"looking", "idle"}
      /\ \A q \in Procs : q # p => pc'[q] = pc[q] /\ request'[q] = request[q]
  BY <1>2 DEF TypeInv, CallsOK
<1>4. Creating' \in SUBSET Creating
  BY <1>3 DEF Creating
<1>5. IsFiniteSet(Creating') /\ Cardinality(Creating') <= Cardinality(Creating)
  BY <1>4, CreatingFinite
<1>6. RoomLeft'
  BY <1>2, <1>5, CreatingFinite, FS_CardinalityType, ConfigAssumption
     DEF RoomLeft, TypeInv, DataOK, ghosts
<1>. QED  BY <1>1, <1>2, <1>3, <1>6 DEF CallStep, Kept, Calm

LEMMA StopStep ==
  ASSUME TypeInv, stop
  PROVE  CallStep
<1>1. CallsOK' /\ QueuesOK'
  BY DEF stop, TypeInv, CallsOK, QueuesOK
<1>2. RoomLeft'
  BY DEF stop, TypeInv, RoomLeft, Creating, ghosts
<1>. QED  BY <1>1, <1>2 DEF stop, CallStep, Kept, Calm

\* What any step is: the calls move, a body runs, time passes, or the process
\* dies or starts.
LEMMA StepIs ==
  ASSUME TypeInv, Next
  PROVE  \/ CallStep
         \/ \E p \in Procs : BodyStep(p)
         \/ Tick \/ Crash \/ Restart
<1>1. ASSUME NEW p \in Procs, Step(p) PROVE CallStep \/ BodyStep(p)
  <2>1. CASE Run(p)
    BY <2>1, RunSweepStep, RunNextStep, RunUpdateStep, RunCreateStep, RunResolveStep,
       ResolveNextStep DEF Run
  <2>. QED  BY <1>1, <2>1, FinishStep, LookOnStep DEF Step
<1>2. ASSUME NEW w \in Workers, AgentRequest(w) PROVE CallStep
  BY <1>2, InvokeNextStep, InvokeUpdateStep DEF AgentRequest
<1>. QED  BY <1>1, <1>2, HookRequestStep, StartSweepStep, StopStep DEF Next

LEMMA TickInv ==
  ASSUME TypeInv, Tick
  PROVE  TypeInv'
<1>1. DataOK'
  BY TickData DEF TypeInv
<1>2. UNCHANGED <<calls, world, ghosts>>
  BY DEF Tick
<1>3. CallsOK' /\ QueuesOK' /\ OneResolves' /\ RoomLeft'
  BY <1>2 DEF calls, ghosts, TypeInv, CallsOK, QueuesOK, OneResolves, RoomLeft, Creating
<1>4. \A p \in Procs : pc'[p] # "resolving"
  BY <1>2 DEF calls, Tick, Calm, TypeInv, NothingDown
<1>5. Live(active') = Live(active)
  BY AgedType DEF Tick, TypeInv, DataOK
<1>. QED  BY <1>1, <1>2, <1>3, <1>4, <1>5 DEF TypeInv, LeftLive, NothingDown, world, calls

LEMMA AllIdle ==
  ASSUME TypeInv, UNCHANGED made, \A p \in Procs : pc'[p] = "idle"
  PROVE  QueuesOK' /\ OneResolves' /\ LeftLive' /\ RoomLeft'
<1>1. Creating' = {}
  BY DEF Creating
<1>2. RoomLeft'
  BY <1>1, FS_EmptySet, CreatingFinite, ConfigAssumption DEF RoomLeft, TypeInv, DataOK
<1>. QED  BY <1>2 DEF QueuesOK, InQueue, OneResolves, LeftLive

LEMMA CrashInv ==
  ASSUME TypeInv, Crash
  PROVE  TypeInv'
<1>1. DataOK'
  BY CrashData DEF TypeInv
<1>2. CallsOK'
  BY EmptySeq DEF Crash, CallsOK, PcValues, Answer
<1>3. /\ \A p \in Procs : pc'[p] = "idle"
      /\ made' = made /\ Live(active') = {}
  BY NothingHeld DEF Crash, ghosts
<1>4. crashes' \in 0..MaxCrashes /\ tainted' \in BOOLEAN /\ up' \in BOOLEAN
  <2>1. crashes' \in 0..MaxCrashes
    BY ConfigAssumption DEF Crash, TypeInv
  <2>2. tainted' = tainted /\ up' = FALSE /\ tainted \in BOOLEAN
    BY DEF Crash, TypeInv
  <2>. QED  BY <2>1, <2>2
<1>5. QueuesOK' /\ OneResolves' /\ LeftLive' /\ RoomLeft'
  BY <1>3, AllIdle
<1>6. NothingDown'
  BY <1>3 DEF NothingDown
<1>. QED  BY <1>1, <1>2, <1>4, <1>5, <1>6 DEF TypeInv

LEMMA RestartInv ==
  ASSUME TypeInv, Restart
  PROVE  TypeInv'
<1>1. DataOK'
  BY RestartData DEF TypeInv
<1>2. CallsOK'
  BY DEF Restart, CallsOK, TypeInv
<1>3. /\ \A p \in Procs : pc'[p] = "idle"
      /\ made' = made
  BY DEF Restart, ghosts, TypeInv, NothingDown
<1>4. crashes' \in 0..MaxCrashes /\ tainted' \in BOOLEAN /\ up'
  BY DEF Restart, TypeInv
<1>. QED  BY <1>1, <1>2, <1>3, <1>4, AllIdle DEF TypeInv, NothingDown

LEMMA InitInv ==
  ASSUME Init
  PROVE  TypeInv
<1>1. active \in Items /\ Live(active) = {} /\ db \in Rows /\ HandsOK(active)
      /\ HandsOK(db.active)
  BY NothingHeld, EmptySeq DEF Init, Rows, HandsOK
<1>2. /\ history \in Seq(Entry) /\ Len(history) = 0 /\ Len(db.history) = 0
      /\ seenSourceEventIds \in SeenList /\ db.seen \in SeenList
  BY EmptySeq, EmptySeen DEF Init
<1>3. DataOK
  BY <1>1, <1>2, ConfigAssumption DEF DataOK, Init
<1>4. CallsOK
  BY EmptySeq DEF Init, CallsOK, PcValues, Answer
<1>5. \A p \in Procs : pc[p] = "idle"
  BY DEF Init
<1>6. RoomLeft
  <2>1. Creating = {}
    BY <1>5 DEF Creating
  <2>. QED  BY <2>1, FS_EmptySet, ConfigAssumption DEF RoomLeft, Init
<1>7. QueuesOK /\ OneResolves /\ LeftLive
  BY <1>5 DEF QueuesOK, InQueue, OneResolves, LeftLive
<1>8. NothingDown /\ up \in BOOLEAN /\ tainted \in BOOLEAN /\ crashes \in 0..MaxCrashes
  <2>1. up = TRUE /\ tainted = FALSE /\ crashes = 0
    BY DEF Init
  <2>2. up \in BOOLEAN /\ tainted \in BOOLEAN
    BY <2>1
  <2>. QED  BY <2>1, <2>2, ConfigAssumption DEF NothingDown
<1>. QED  BY <1>3, <1>4, <1>6, <1>7, <1>8 DEF TypeInv

LEMMA StutterInv ==
  ASSUME TypeInv, UNCHANGED vars
  PROVE  TypeInv'
<1>1. DataOK'
  BY DEF TypeInv, DataOK, vars, memory, disk, ghosts
<1>2. CallsOK' /\ QueuesOK' /\ OneResolves'
  BY DEF TypeInv, CallsOK, QueuesOK, OneResolves, vars, calls
<1>3. RoomLeft' /\ LeftLive' /\ NothingDown'
  BY DEF TypeInv, RoomLeft, Creating, LeftLive, NothingDown, vars, calls, ghosts, world, memory
<1>. QED  BY <1>1, <1>2, <1>3 DEF TypeInv, vars, world

LEMMA NextInv ==
  ASSUME TypeInv, [Next]_vars
  PROVE  TypeInv'
BY StepIs, CallStepInv, BodyStepInv, TickInv, CrashInv, RestartInv, StutterInv

-----------------------------------------------------------------------------
(* Theorems                                                                *)

\* The types of the manager's variables, with what keeps them: calls stand in
\* the queues of the locks they need, at the head when they hold one; the
\* webhook's loop has only items to end that are there; work in hand is
\* somebody's; a dead process holds nothing.
THEOREM FollowupTypes == Spec => []TypeInv
<1>1. Init => TypeInv
  BY InitInv
<1>2. TypeInv /\ [Next]_vars => TypeInv'
  BY NextInv
<1>. QED  BY <1>1, <1>2, PTL DEF Spec

LEMMA TypesMean == TypeInv => FollowupTypeOK
<1>1. SUFFICES ASSUME TypeInv PROVE FollowupTypeOK
  OBVIOUS
<1>2. MemoryOK /\ DiskOK
  BY <1>1 DEF TypeInv, DataOK, MemoryOK, DiskOK, SeenList, Items, Rows
<1>3. WorldOK
  BY <1>1 DEF TypeInv, DataOK, WorldOK
<1>. QED  BY <1>1, <1>2, <1>3 DEF FollowupTypeOK, TypeInv

\* Every variable stays in its type; the history and the list of seen events
\* stay within their bounds, in memory and in the rows, which different code
\* trims (trimHistory, addSeenSourceEventId, trimSeenSourceEvents).
THEOREM TypesAndBounds == Spec => []FollowupTypeOK
BY TypesMean, FollowupTypes, PTL


-----------------------------------------------------------------------------
(* Who holds and awaits the locks                                          *)

\* Nobody leaves or joins a queue, and who is in one stays on its pull request.
LEMMA LocksKept ==
  ASSUME CallsOK, FollowupLocksHaveOwners, lockQueues' = lockQueues,
         \A q \in Procs : pc[q] \in InQueue =>
           pc'[q] \in InQueue /\ request'[q].pr = request[q].pr
  PROVE  FollowupLocksHaveOwners'
<1>1. \A i \in Prs : \A n \in 1..Len(lockQueues[i]) : lockQueues[i][n] \in Procs
  BY DEF CallsOK
<1>. QED  BY <1>1 DEF FollowupLocksHaveOwners, InQueue

\* A call that was in no queue goes to the end of one.
LEMMA LocksJoined ==
  ASSUME CallsOK, FollowupLocksHaveOwners, NEW p \in Procs, pc[p] \in {"idle", "looking"},
         NEW r, withIssueLock(p, r)
  PROVE  FollowupLocksHaveOwners'
<1>1. /\ lockQueues' = [lockQueues EXCEPT ![r.pr] = Append(@, p)]
      /\ pc'[p] \in InQueue /\ request'[p] = r
      /\ \A q \in Procs \ {p} : pc'[q] = pc[q] /\ request'[q] = request[q]
  BY DEF withIssueLock, CallsOK, InQueue
<1>2. SUFFICES ASSUME NEW i \in Prs, NEW n \in 1..Len(lockQueues'[i])
               PROVE  /\ pc'[lockQueues'[i][n]] \in InQueue
                      /\ request'[lockQueues'[i][n]].pr = i
                      /\ \A m \in 1..Len(lockQueues'[i]) :
                           lockQueues'[i][m] = lockQueues'[i][n] => m = n
  BY DEF FollowupLocksHaveOwners, InQueue
<1>. DEFINE s == lockQueues[i]
<1>3. /\ s \in Seq(Procs) /\ Len(s) \in Nat
      /\ \A m \in 1..Len(s) : /\ s[m] \in Procs \ {p}
                              /\ pc[s[m]] \in InQueue /\ request[s[m]].pr = i
                              /\ \A k \in 1..Len(s) : s[k] = s[m] => k = m
  BY LenProperties DEF CallsOK, InQueue, FollowupLocksHaveOwners
<1>4. \A m \in 1..Len(s) : pc'[s[m]] \in InQueue /\ request'[s[m]].pr = i
  BY <1>1, <1>3
<1>5. CASE i # r.pr
  <2>1. lockQueues'[i] = s
    BY <1>1, <1>5 DEF CallsOK
  <2>. QED  BY <1>3, <1>4, <2>1
<1>6. CASE i = r.pr
  <2>1. lockQueues'[i] = Append(s, p)
    BY <1>1, <1>6 DEF CallsOK
  <2>2. /\ Len(Append(s, p)) = Len(s) + 1 /\ Append(s, p)[Len(s) + 1] = p
        /\ \A m \in 1..Len(s) : Append(s, p)[m] = s[m]
    BY <1>3, AppendProperties
  <2>3. \A m \in 1..Len(Append(s, p)) : m \in 1..Len(s) \/ m = Len(s) + 1
    BY <1>3, <2>2
  <2>4. \A m, k \in 1..Len(Append(s, p)) : Append(s, p)[m] = Append(s, p)[k] => m = k
    BY <1>3, <2>2, <2>3
  <2>5. \A m \in 1..Len(Append(s, p)) :
          /\ pc'[Append(s, p)[m]] \in InQueue
          /\ request'[Append(s, p)[m]].pr = i
    BY <1>1, <1>4, <1>6, <2>2, <2>3
  <2>. QED  BY <2>1, <2>4, <2>5
<1>. QED  BY <1>5, <1>6

\* A call that leaves was at the head of its queue and nowhere else.
LEMMA LocksLeft ==
  ASSUME CallsOK, QueuesOK, FollowupLocksHaveOwners, NEW p \in Procs, Finish(p)
  PROVE  FollowupLocksHaveOwners'
<1>1. /\ lockQueues' = [lockQueues EXCEPT ![request[p].pr] = Tail(@)]
      /\ \A q \in Procs \ {p} : pc'[q] = pc[q] /\ request'[q] = request[q]
      /\ pc[p] = "done" /\ request[p].pr \in Prs /\ lockQueues[request[p].pr][1] = p
      /\ \E n \in 1..Len(lockQueues[request[p].pr]) : lockQueues[request[p].pr][n] = p
  BY RequestPr DEF Finish, CallsOK, QueuesOK, InQueue
<1>2. SUFFICES ASSUME NEW i \in Prs, NEW n \in 1..Len(lockQueues'[i])
               PROVE  /\ pc'[lockQueues'[i][n]] \in InQueue
                      /\ request'[lockQueues'[i][n]].pr = i
                      /\ \A m \in 1..Len(lockQueues'[i]) :
                           lockQueues'[i][m] = lockQueues'[i][n] => m = n
  BY DEF FollowupLocksHaveOwners, InQueue
<1>. DEFINE s == lockQueues[i]
<1>3. /\ s \in Seq(Procs) /\ Len(s) \in Nat
      /\ \A m \in 1..Len(s) : /\ s[m] \in Procs
                              /\ pc[s[m]] \in InQueue /\ request[s[m]].pr = i
                              /\ \A k \in 1..Len(s) : s[k] = s[m] => k = m
  BY LenProperties DEF CallsOK, InQueue, FollowupLocksHaveOwners
<1>4. CASE i # request[p].pr
  <2>1. lockQueues'[i] = s
    BY <1>1, <1>4 DEF CallsOK
  <2>2. \A m \in 1..Len(s) : s[m] # p
    BY <1>3, <1>4
  <2>. QED  BY <1>1, <1>3, <2>1, <2>2
<1>5. CASE i = request[p].pr
  <2>1. lockQueues'[i] = Tail(s)
    BY <1>1, <1>5 DEF CallsOK
  <2>2. s # <<>> /\ s[1] = p
    BY <1>1, <1>3, <1>5, EmptySeq
  <2>3. /\ Len(Tail(s)) = Len(s) - 1
        /\ \A m \in 1..Len(Tail(s)) : Tail(s)[m] = s[m + 1]
    BY <1>3, <2>2, HeadTailProperties
  <2>4. \A m \in 1..Len(Tail(s)) : m + 1 \in 1..Len(s) /\ 1 \in 1..Len(s) /\ m + 1 # 1
    BY <1>3, <2>3
  <2>5. \A m \in 1..Len(Tail(s)) : Tail(s)[m] \in Procs \ {p}
    BY <1>3, <2>2, <2>3, <2>4
  <2>6. \A m \in 1..Len(Tail(s)) :
          pc'[Tail(s)[m]] \in InQueue /\ request'[Tail(s)[m]].pr = i
    BY <1>1, <1>3, <2>3, <2>4, <2>5
  <2>7. \A m, k \in 1..Len(Tail(s)) : Tail(s)[m] = Tail(s)[k] => m = k
    <3>1. TAKE m, k \in 1..Len(Tail(s))
    <3>2. Tail(s)[m] = Tail(s)[k] => m + 1 = k + 1
      BY <1>3, <2>3, <2>4
    <3>. QED  BY <1>3, <3>2
  <2>. QED  BY <2>1, <2>6, <2>7
<1>. QED  BY <1>4, <1>5

LEMMA LocksNext ==
  ASSUME TypeInv, FollowupLocksHaveOwners, [Next]_vars
  PROVE  FollowupLocksHaveOwners'
<1>0. CallsOK /\ QueuesOK
  BY DEF TypeInv
<1>1. ASSUME NEW p \in Procs, BodyStep(p)
      PROVE  FollowupLocksHaveOwners'
  <2>1. PICK s \in {"resolving", "done"} : pc' = [pc EXCEPT ![p] = s]
    BY <1>1 DEF BodyStep, BodyCalls
  <2>2. /\ pc[p] \in InQueue /\ pc'[p] \in InQueue
        /\ \A q \in Procs \ {p} : pc'[q] = pc[q] /\ request'[q] = request[q]
        /\ request'[p].pr = request[p].pr
    BY <1>0, <1>1, <2>1 DEF BodyStep, BodyCalls, HasLock, InQueue, CallsOK, ResolveRequest
  <2>3. lockQueues' = lockQueues
    BY <1>1 DEF BodyStep, BodyCalls
  <2>. QED  BY <1>0, <2>2, <2>3, LocksKept
<1>2. ASSUME NEW p \in Procs, NEW r, withIssueLock(p, r), pc[p] \in {"idle", "looking"}
      PROVE  FollowupLocksHaveOwners'
  BY <1>0, <1>2, LocksJoined
<1>3. ASSUME NEW p \in Procs, Step(p)
      PROVE  FollowupLocksHaveOwners'
  <2>1. CASE Run(p)
    BY <1>1, <2>1, RunSweepStep, RunNextStep, RunUpdateStep, RunCreateStep, RunResolveStep,
       ResolveNextStep DEF Run
  <2>2. CASE Finish(p)
    BY <1>0, <2>2, LocksLeft
  <2>3. CASE LookOn(p)
    BY <1>2, <2>3 DEF LookOn
  <2>. QED  BY <1>3, <2>1, <2>2, <2>3 DEF Step
<1>4. ASSUME NEW p \in Procs, NEW r, Begin(p, r)
      PROVE  FollowupLocksHaveOwners'
  BY <1>2, <1>4 DEF Begin
<1>5. ASSUME NEW w \in Workers, AgentRequest(w)
      PROVE  FollowupLocksHaveOwners'
  BY <1>4, <1>5 DEF AgentRequest, InvokeNext, InvokeUpdate
<1>6. ASSUME NEW h \in Hooks, HookRequest(h)
      PROVE  FollowupLocksHaveOwners'
  BY <1>4, <1>6 DEF HookRequest, InvokeCreate, InvokeResolve
<1>7. CASE StartSweep
  BY <1>4, <1>7 DEF StartSweep
<1>8. CASE UNCHANGED <<lockQueues, pc, request>>
  BY <1>0, <1>8, LocksKept
<1>9. CASE Crash
  BY <1>9 DEF Crash, FollowupLocksHaveOwners
<1>10. CASE stop \/ Tick \/ Restart \/ UNCHANGED vars
  BY <1>8, <1>10 DEF stop, Tick, Restart, vars, calls
<1>. QED  BY <1>3, <1>5, <1>6, <1>7, <1>9, <1>10 DEF Next

\* No lock of a pull request is left with a call that is gone or that went on
\* to another one, through exceptions, cut loops, crashes and restarts
\* (withIssueLock).
THEOREM FollowupLocksOwned == Spec => []FollowupLocksHaveOwners
<1>1. Init => FollowupLocksHaveOwners
  BY DEF Init, FollowupLocksHaveOwners
<1>2. TypeInv /\ FollowupLocksHaveOwners /\ [Next]_vars => FollowupLocksHaveOwners'
  BY LocksNext
<1>. QED  BY <1>1, <1>2, FollowupTypes, PTL DEF Spec

=============================================================================
