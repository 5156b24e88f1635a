------------------------- MODULE TokenBucketProofs -------------------------
(***************************************************************************)
(* What is proved of TokenBucket for every value of its constants: the Map *)
(* keeps its bound, Retry-After is honest, and lazy refilling is not to be *)
(* told from refilling as time passes.                                     *)
(*                                                                         *)
(* Honesty needs what the code never writes down: a key that was told to   *)
(* come back at a time q has, if its bucket is still there, tokens that    *)
(* refill to a whole one by q (KeptFor).  A bucket that was evicted is     *)
(* made anew with a full burst, and keeps every promise.                   *)
(*                                                                         *)
(* Laziness needs two bounds on what an entry holds by the always refilled *)
(* bucket of its key (LazyInv).  The upper one survives the clock set back *)
(* but not an eviction before the bucket is full; the lower one survives   *)
(* every eviction, and needs lastRefillMs not to lie ahead of the clock.   *)
(***************************************************************************)
EXTENDS TokenBucket, SequenceTheorems, WellFoundedInduction, TLAPS

Entry == [key : Keys, tokens : 0..Burst, lastRefillMs : Nat, lastSeenMs : Nat]

OnePerKey(s) == \A m, n \in 1..Len(s) : s[m].key = s[n].key => m = n

IsMap(s) == s \in Seq(Entry) /\ Len(s) <= MaxKeys /\ OnePerKey(s)

\* In the map s, at the time t, the promise q that k was given is kept.
KeptFor(s, k, q, t) ==
  q # NoPromise =>
    \A n \in 1..Len(s) :
      s[n].key = k => /\ s[n].lastRefillMs <= t
                      /\ s[n].tokens + (q - s[n].lastRefillMs) * Rate >= Unit

Inv ==
  /\ now \in Nat /\ IsMap(states)
  /\ promise \in [Keys -> Int \cup {NoPromise}]
  /\ \A k \in Keys : KeptFor(states, k, promise[k], now)

-----------------------------------------------------------------------------
(* Arithmetic                                                              *)

\* A product grows with its factor.
LEMMA TimesMonotone ==
  ASSUME NEW a \in Int, NEW b \in Int, NEW c \in Nat, a <= b
  PROVE  a * c <= b * c
OBVIOUS

\* A product of natural numbers is one.
LEMMA TimesNatural ==
  ASSUME NEW a \in Nat, NEW b \in Nat
  PROVE  a * b \in Nat
OBVIOUS

\* Division rounds up.
LEMMA CeilDivCovers ==
  ASSUME NEW a \in Nat, NEW b \in Nat \ {0}
  PROVE  CeilDiv(a, b) \in Nat /\ CeilDiv(a, b) * b >= a
BY SMT DEF CeilDiv

\* The least element of a set of natural numbers.
LEMMA LeastNatural ==
  ASSUME NEW T \in SUBSET Nat, T # {}
  PROVE  \E x \in T : \A y \in T : x <= y
<1>. DEFINE R == OpToRel(<, Nat)
<1>1. IsWellFoundedOn(R, Nat)
  BY NatLessThanWellFounded
<1>2. PICK x \in T : \A y \in T : ~ (<<y, x>> \in R)
  <2>. HIDE DEF R
  <2>. QED  BY <1>1, WFMin
<1>3. ASSUME NEW y \in T PROVE x <= y
  <2>1. x \in Nat /\ y \in Nat
    OBVIOUS
  <2>2. y < x => <<y, x>> \in R
    BY <2>1, Zenon DEF OpToRel
  <2>. HIDE DEF R
  <2>3. ~ (<<y, x>> \in R)
    BY <1>2, Zenon
  <2>4. ~ (y < x)
    BY <2>2, <2>3, Zenon
  <2>. QED  BY <2>1, <2>4
<1>. QED  BY <1>3

-----------------------------------------------------------------------------
(* The Map                                                                 *)

\* What a Map holds are entries.
LEMMA EntryOfMap ==
  ASSUME NEW s, IsMap(s), NEW n \in 1..Len(s)
  PROVE  s[n] \in Entry
BY ElementOfSeq DEF IsMap

\* A Map that is not empty has an entry to lose.
LEMMA VictimIn ==
  ASSUME now \in Nat, NEW s \in Seq(Entry), Len(s) > 0
  PROVE  Victim(s) \in 1..Len(s)
<1>. DEFINE idle == {n \in 1..Len(s) : Idle(s[n])}
            oldest == {n \in 1..Len(s) :
                         \A o \in 1..Len(s) : s[n].lastSeenMs <= s[o].lastSeenMs}
            seen == {s[n].lastSeenMs : n \in 1..Len(s)}
<1>1. Len(s) \in Nat /\ \A n \in 1..Len(s) : s[n] \in Entry
  BY ElementOfSeq, LenProperties
<1>2. seen \in SUBSET Nat /\ seen # {}
  <2>1. 1 \in 1..Len(s)
    BY <1>1
  <2>. QED  BY <1>1, <2>1 DEF Entry
<1>3. oldest # {}
  <2>. HIDE DEF seen
  <2>1. PICK x \in seen : \A y \in seen : x <= y
    BY <1>2, LeastNatural
  <2>. USE DEF seen
  <2>2. PICK n \in 1..Len(s) : x = s[n].lastSeenMs
    BY <2>1
  <2>. QED  BY <2>1, <2>2
<1>4. ASSUME NEW ns \in SUBSET (1..Len(s)), ns # {}
      PROVE  (CHOOSE n \in ns : \A o \in ns : n <= o) \in ns
  <2>1. ns \in SUBSET Nat
    BY <1>1
  <2>2. PICK x \in ns : \A y \in ns : x <= y
    BY <1>4, <2>1, LeastNatural
  <2>. QED  BY <2>2
<1>5. CASE idle # {}
  <2>1. Victim(s) = CHOOSE n \in idle : \A o \in idle : n <= o
    BY <1>5 DEF Victim
  <2>. QED  BY <1>4, <1>5, <2>1
<1>6. CASE idle = {}
  <2>1. Victim(s) = CHOOSE n \in oldest : \A o \in oldest : n <= o
    BY <1>6 DEF Victim
  <2>. QED  BY <1>3, <1>4, <2>1
<1>. QED  BY <1>5, <1>6

\* A sequence without one of its elements.
LEMMA RemoveAtProperties ==
  ASSUME NEW s \in Seq(Entry), NEW i \in 1..Len(s)
  PROVE  /\ RemoveAt(s, i) \in Seq(Entry)
         /\ Len(RemoveAt(s, i)) = Len(s) - 1
         /\ \A n \in 1..(Len(s) - 1) :
              RemoveAt(s, i)[n] = IF n < i THEN s[n] ELSE s[n + 1]
<1>. DEFINE a == SubSeq(s, 1, i - 1)
            b == SubSeq(s, i + 1, Len(s))
<1>1. Len(s) \in Nat /\ \A n \in 1..Len(s) : s[n] \in Entry
  BY ElementOfSeq, LenProperties
<1>2. /\ a \in Seq(Entry) /\ Len(a) = i - 1
      /\ \A n \in 1..(i - 1) : a[n] = s[n]
  <2>1. \A n \in 1..(i - 1) : s[n] \in Entry
    BY <1>1
  <2>2. /\ a \in Seq(Entry)
        /\ Len(a) = IF 1 <= i - 1 THEN i - 1 - 1 + 1 ELSE 0
        /\ \A n \in 1..(i - 1 - 1 + 1) : a[n] = s[1 + n - 1]
    BY <2>1, SubSeqProperties
  <2>. QED  BY <1>1, <2>2
<1>3. /\ b \in Seq(Entry) /\ Len(b) = Len(s) - i
      /\ \A n \in 1..(Len(s) - i) : b[n] = s[i + n]
  <2>1. \A n \in (i + 1)..Len(s) : s[n] \in Entry
    BY <1>1
  <2>2. /\ b \in Seq(Entry)
        /\ Len(b) = IF i + 1 <= Len(s) THEN Len(s) - (i + 1) + 1 ELSE 0
        /\ \A n \in 1..(Len(s) - (i + 1) + 1) : b[n] = s[(i + 1) + n - 1]
    BY <1>1, <2>1, SubSeqProperties
  <2>. QED  BY <1>1, <2>2
<1>4. RemoveAt(s, i) = a \o b
  BY DEF RemoveAt
<1>. HIDE DEF a, b
<1>5. /\ a \o b \in Seq(Entry) /\ Len(a \o b) = Len(a) + Len(b)
      /\ \A n \in 1..(Len(a) + Len(b)) :
           (a \o b)[n] = IF n <= Len(a) THEN a[n] ELSE b[n - Len(a)]
  BY <1>2, <1>3, ConcatProperties
<1>6. ASSUME NEW n \in 1..(Len(s) - 1)
      PROVE  (a \o b)[n] = IF n < i THEN s[n] ELSE s[n + 1]
  <2>1. (a \o b)[n] = IF n <= i - 1 THEN a[n] ELSE b[n - (i - 1)]
    BY <1>1, <1>2, <1>3, <1>5
  <2>2. CASE n < i
    BY <1>1, <1>2, <2>1, <2>2
  <2>3. CASE ~ (n < i)
    <3>1. n - (i - 1) \in 1..(Len(s) - i) /\ i + (n - (i - 1)) = n + 1
      BY <1>1, <2>3
    <3>2. b[n - (i - 1)] = s[n + 1]
      BY <1>3, <3>1
    <3>. QED  BY <1>1, <2>1, <2>3, <3>2
  <2>. QED  BY <2>2, <2>3
<1>. QED  BY <1>1, <1>2, <1>3, <1>4, <1>5, <1>6

\* Pruning makes room and keeps entries as they are.
LEMMA PruneMap ==
  ASSUME now \in Nat, NEW s, IsMap(s)
  PROVE  /\ IsMap(pruneIfNeeded(s)) /\ Len(pruneIfNeeded(s)) < MaxKeys
         /\ \A n \in 1..Len(pruneIfNeeded(s)) :
              \E m \in 1..Len(s) : pruneIfNeeded(s)[n] = s[m]
<1>. DEFINE t == pruneIfNeeded(s)
<1>0. s \in Seq(Entry) /\ Len(s) \in Nat /\ MaxKeys \in Nat \ {0}
  BY LimitAssumption, LenProperties DEF IsMap
<1>1. CASE Len(s) < MaxKeys
  <2>1. t = s
    BY <1>1 DEF pruneIfNeeded
  <2>. QED  BY <1>1, <2>1
<1>2. CASE ~ (Len(s) < MaxKeys)
  <2>1. Victim(s) \in 1..Len(s)
    BY <1>0, <1>2, VictimIn
  <2>2. t = RemoveAt(s, Victim(s))
    BY <1>2 DEF pruneIfNeeded
  <2>3. PICK i \in 1..Len(s) : i = Victim(s)
    BY <2>1
  <2>4. /\ t \in Seq(Entry) /\ Len(t) = Len(s) - 1
        /\ \A n \in 1..(Len(s) - 1) : t[n] = IF n < i THEN s[n] ELSE s[n + 1]
    BY <1>0, <2>2, <2>3, RemoveAtProperties
  <2>5. Len(t) < MaxKeys
    BY <1>0, <2>4 DEF IsMap
  <2>6. \A n \in 1..Len(t) : \E m \in 1..Len(s) : t[n] = s[m]
    BY <1>0, <2>4
  <2>7. ASSUME NEW m \in 1..Len(t), NEW n \in 1..Len(t), t[m].key = t[n].key
        PROVE  m = n
    <3>. HIDE DEF t
    <3>1. PICK x \in 1..Len(s) : x = (IF m < i THEN m ELSE m + 1) /\ t[m] = s[x]
      BY <1>0, <2>4
    <3>2. PICK y \in 1..Len(s) : y = (IF n < i THEN n ELSE n + 1) /\ t[n] = s[y]
      BY <1>0, <2>4
    <3>3. x = y
      BY <2>7, <3>1, <3>2 DEF IsMap, OnePerKey
    <3>. QED  BY <1>0, <2>4, <3>1, <3>2, <3>3
  <2>. QED  BY <1>0, <2>4, <2>5, <2>6, <2>7 DEF IsMap, OnePerKey
<1>. QED  BY <1>1, <1>2

\* A lookup leaves a Map in which the key has an entry: its old one, or a full
\* bucket that is new.
LEMMA LookupMap ==
  ASSUME now \in Nat, NEW s, IsMap(s), NEW k \in Keys
  PROVE  /\ IsMap(getOrCreateState(s, k))
         /\ Place(getOrCreateState(s, k), k) \in 1..Len(getOrCreateState(s, k))
         /\ getOrCreateState(s, k)[Place(getOrCreateState(s, k), k)].key = k
         /\ \A n \in 1..Len(getOrCreateState(s, k)) :
              \/ \E m \in 1..Len(s) : getOrCreateState(s, k)[n] = s[m]
              \/ getOrCreateState(s, k)[n]
                   = [key |-> k, tokens |-> Burst, lastRefillMs |-> now, lastSeenMs |-> now]
<1>. DEFINE u == pruneIfNeeded(s)
            t == getOrCreateState(s, k)
            new == [key |-> k, tokens |-> Burst, lastRefillMs |-> now, lastSeenMs |-> now]
<1>1. /\ IsMap(u) /\ Len(u) < MaxKeys
      /\ \A n \in 1..Len(u) : \E m \in 1..Len(s) : u[n] = s[m]
  BY PruneMap
<1>2. u \in Seq(Entry) /\ Len(u) \in Nat /\ MaxKeys \in Nat
  BY <1>1, LimitAssumption, LenProperties DEF IsMap
<1>3. t = IF k \in KeysOf(u) THEN u ELSE Append(u, new)
  BY DEF getOrCreateState, Created
<1>. HIDE DEF u
<1>4. CASE k \in KeysOf(u)
  <2>1. t = u
    BY <1>3, <1>4
  <2>2. \E n \in 1..Len(u) : u[n].key = k
    BY <1>4 DEF KeysOf
  <2>. HIDE DEF t
  <2>3. Place(t, k) \in 1..Len(t) /\ t[Place(t, k)].key = k
    BY <2>1, <2>2 DEF Place
  <2>. QED  BY <1>1, <2>1, <2>3 DEF t
<1>5. CASE k \notin KeysOf(u)
  <2>1. t = Append(u, new)
    BY <1>3, <1>5
  <2>2. new \in Entry
    BY LimitAssumption DEF Entry
  <2>. HIDE DEF t, new
  <2>3. t \in Seq(Entry) /\ Len(t) = Len(u) + 1
    BY <1>2, <2>1, <2>2, AppendProperties
  <2>4. (\A n \in 1..Len(u) : t[n] = u[n]) /\ t[Len(u) + 1] = new
    BY <1>2, <2>1, <2>2, AppendProperties
  <2>5. \A n \in 1..Len(u) : u[n].key # k
    BY <1>5 DEF KeysOf
  <2>6. new.key = k
    BY DEF new
  <2>7. OnePerKey(t)
    BY <1>1, <1>2, <2>3, <2>4, <2>5, <2>6 DEF IsMap, OnePerKey
  <2>8. IsMap(t)
    BY <1>1, <1>2, <2>3, <2>7 DEF IsMap
  <2>9. Len(u) + 1 \in 1..Len(t) /\ t[Len(u) + 1].key = k
    BY <1>2, <2>3, <2>4, <2>6
  <2>10. Place(t, k) \in 1..Len(t) /\ t[Place(t, k)].key = k
    BY <2>9 DEF Place
  <2>11. \A n \in 1..Len(t) : (\E m \in 1..Len(s) : t[n] = s[m]) \/ t[n] = new
    BY <1>1, <1>2, <2>3, <2>4
  <2>. QED  BY <2>8, <2>10, <2>11 DEF t, new
<1>. QED  BY <1>4, <1>5

-----------------------------------------------------------------------------
(* Buckets                                                                 *)

\* Refilling moves lastRefillMs to the present, and fills no bucket over its
\* burst.
LEMMA RefillType ==
  ASSUME now \in Nat, NEW e \in Entry
  PROVE  /\ refill(e) \in Entry /\ refill(e).key = e.key
         /\ refill(e).lastRefillMs = now
<1>1. e.key \in Keys /\ e.tokens \in 0..Burst /\ e.lastRefillMs \in Nat /\ e.lastSeenMs \in Nat
  BY DEF Entry
<1>2. CASE now <= e.lastRefillMs
  BY <1>1, <1>2 DEF Entry, refill
<1>3. CASE ~ (now <= e.lastRefillMs)
  <2>1. PICK x \in Nat : x = (now - e.lastRefillMs) * Rate
    BY <1>1, <1>3, LimitAssumption, TimesNatural
  <2>2. PICK y \in 0..Burst : y = Smaller(Burst, e.tokens + x)
    BY <1>1, LimitAssumption DEF Smaller
  <2>3. refill(e) = [e EXCEPT !.tokens = y, !.lastRefillMs = now]
    BY <1>3, <2>1, <2>2 DEF refill
  <2>. QED  BY <1>1, <2>3 DEF Entry
<1>. QED  BY <1>2, <1>3

\* A bucket that refills to a whole token by q has one at q and after.
LEMMA RefillKeeps ==
  ASSUME now \in Nat, NEW e \in Entry, NEW q \in Int, q <= now,
         e.lastRefillMs <= now, e.tokens + (q - e.lastRefillMs) * Rate >= Unit
  PROVE  refill(e).tokens >= Unit
<1>1. e.tokens \in 0..Burst /\ e.lastRefillMs \in Nat /\ Rate \in Nat /\ Unit \in Nat
      /\ Burst \in Nat /\ Burst >= Unit
  BY LimitAssumption DEF Entry
<1>2. (q - e.lastRefillMs) * Rate <= (now - e.lastRefillMs) * Rate
  BY <1>1, TimesMonotone
<1>3. PICK x \in Int : x = (now - e.lastRefillMs) * Rate
  BY <1>1
<1>4. PICK z \in Int : z = (q - e.lastRefillMs) * Rate
  BY <1>1
<1>5. e.tokens + x >= Unit
  BY <1>1, <1>2, <1>3, <1>4
<1>6. CASE now <= e.lastRefillMs
  <2>1. x = 0
    BY <1>1, <1>3, <1>6
  <2>. QED  BY <1>1, <1>5, <1>6, <2>1 DEF refill
<1>7. CASE ~ (now <= e.lastRefillMs)
  <2>1. refill(e).tokens = Smaller(Burst, e.tokens + x)
    BY <1>3, <1>7 DEF refill, Entry
  <2>. QED  BY <1>1, <1>5, <2>1 DEF Smaller
<1>. QED  BY <1>6, <1>7

\* The bucket of a call: refilled now; and when it has no token, it is one that
\* was in the Map before.
LEMMA BucketProperties ==
  ASSUME now \in Nat, NEW s, IsMap(s), NEW k \in Keys
  PROVE  /\ Bucket(s, k) \in Entry /\ Bucket(s, k).key = k
         /\ Bucket(s, k).lastRefillMs = now
         /\ ~ Allows(s, k) =>
              /\ Bucket(s, k).tokens < Unit
              /\ \E m \in 1..Len(s) : s[m].key = k /\ Bucket(s, k) = refill(s[m])
<1>. DEFINE t == getOrCreateState(s, k)
            e == t[Place(t, k)]
            new == [key |-> k, tokens |-> Burst, lastRefillMs |-> now, lastSeenMs |-> now]
<1>1. /\ IsMap(t) /\ Place(t, k) \in 1..Len(t) /\ e.key = k
      /\ (\E m \in 1..Len(s) : e = s[m]) \/ e = new
  BY LookupMap
<1>2. e \in Entry
  BY <1>1, ElementOfSeq DEF IsMap
<1>3. Bucket(s, k) = refill(e)
  BY DEF Bucket
<1>. HIDE DEF e
<1>4. refill(e) \in Entry /\ refill(e).key = k /\ refill(e).lastRefillMs = now
  BY <1>1, <1>2, RefillType
<1>5. ASSUME ~ Allows(s, k)
      PROVE  /\ Bucket(s, k).tokens < Unit
             /\ \E m \in 1..Len(s) : s[m].key = k /\ Bucket(s, k) = refill(s[m])
  <2>1. refill(e).tokens < Unit
    BY <1>3, <1>4, <1>5, LimitAssumption DEF Allows, Entry
  <2>2. e # new
    <3>1. ASSUME e = new PROVE FALSE
      <4>1. refill(e).tokens = Burst
        BY <3>1 DEF refill
      <4>. QED  BY <2>1, <4>1, LimitAssumption
    <3>. QED  BY <3>1
  <2>. QED  BY <1>1, <1>3, <2>1, <2>2
<1>. QED  BY <1>3, <1>4, <1>5

\* consume leaves a Map whose other entries are as they were, and a bucket that
\* denied only refilled.
LEMMA ConsumeMap ==
  ASSUME now \in Nat, NEW s, IsMap(s), NEW k \in Keys
  PROVE  /\ IsMap(consume(s, k))
         /\ \A n \in 1..Len(consume(s, k)) :
              IF consume(s, k)[n].key = k
              THEN ~ Allows(s, k) => consume(s, k)[n] = Bucket(s, k)
              ELSE \E m \in 1..Len(s) : consume(s, k)[n] = s[m]
<1>. DEFINE t == getOrCreateState(s, k)
            p == Place(t, k)
            b == Bucket(s, k)
            e == IF Allows(s, k) THEN [b EXCEPT !.tokens = @ - Unit, !.lastSeenMs = now] ELSE b
            c == consume(s, k)
            new == [key |-> k, tokens |-> Burst, lastRefillMs |-> now, lastSeenMs |-> now]
<1>1. /\ IsMap(t) /\ p \in 1..Len(t) /\ t[p].key = k
      /\ \A n \in 1..Len(t) : (\E m \in 1..Len(s) : t[n] = s[m]) \/ t[n] = new
  BY LookupMap
<1>2. b \in Entry /\ b.key = k
  BY BucketProperties
<1>3. e \in Entry /\ e.key = k
  <2>1. CASE Allows(s, k)
    <3>1. b.tokens >= Unit
      BY <2>1 DEF Allows
    <3>2. b.tokens - Unit \in 0..Burst
      BY <1>2, <3>1, LimitAssumption DEF Entry
    <3>. HIDE DEF b
    <3>. QED  BY <1>2, <2>1, <3>2 DEF Entry
  <2>2. CASE ~ Allows(s, k)
    BY <1>2, <2>2
  <2>. QED  BY <2>1, <2>2
<1>4. c = [t EXCEPT ![p] = e]
  BY DEF consume
<1>5. t \in Seq(Entry) /\ Len(t) \in Nat
  BY <1>1, LenProperties DEF IsMap
<1>6. ~ Allows(s, k) => e = b
  OBVIOUS
<1>7. new.key = k
  OBVIOUS
<1>. HIDE DEF t, p, b, e, c, new
<1>8. /\ c \in Seq(Entry) /\ Len(c) = Len(t)
      /\ \A n \in 1..Len(t) : c[n] = IF n = p THEN e ELSE t[n]
  BY <1>1, <1>3, <1>4, <1>5, ExceptSeq
<1>9. \A n \in 1..Len(t) : c[n].key = t[n].key
  BY <1>1, <1>3, <1>8
<1>10. IsMap(c)
  BY <1>1, <1>8, <1>9 DEF IsMap, OnePerKey
<1>11. ASSUME NEW n \in 1..Len(c)
       PROVE  IF c[n].key = k THEN ~ Allows(s, k) => c[n] = b
              ELSE \E m \in 1..Len(s) : c[n] = s[m]
  <2>1. CASE c[n].key = k
    <3>1. n = p
      BY <1>1, <1>8, <1>9, <2>1 DEF IsMap, OnePerKey
    <3>. QED  BY <1>6, <1>8, <2>1, <3>1
  <2>2. CASE c[n].key # k
    <3>1. n # p /\ c[n] = t[n]
      BY <1>3, <1>8, <2>2
    <3>2. t[n] # new
      BY <1>7, <2>2, <3>1
    <3>. QED  BY <1>1, <1>8, <2>2, <3>1, <3>2
  <2>. QED  BY <2>1, <2>2
<1>. QED  BY <1>10, <1>11 DEF c, b

-----------------------------------------------------------------------------
(* Promises                                                                *)

\* The wait a denial names is long enough for a whole token.
LEMMA RetryCovers ==
  ASSUME NEW s, NEW k, Bucket(s, k).tokens \in Nat, Bucket(s, k).tokens < Unit
  PROVE  /\ retryAfter(s, k) \in Nat
         /\ Bucket(s, k).tokens + retryAfter(s, k) * Rate >= Unit
<1>. DEFINE b == Bucket(s, k).tokens
            q == CeilDiv(Unit - b, Rate)
            w == CeilDiv(q, Second)
<1>1. b \in Nat /\ Unit - b \in Nat
  BY LimitAssumption
<1>. HIDE DEF b
<1>2. q \in Nat /\ q * Rate >= Unit - b
  BY <1>1, LimitAssumption, CeilDivCovers
<1>. HIDE DEF q
<1>3. w \in Nat /\ w * Second >= q
  BY <1>2, LimitAssumption, CeilDivCovers
<1>4. retryAfter(s, k) = Second * w
  BY DEF retryAfter, b, q
<1>. HIDE DEF w
<1>5. PICK r \in Nat : r = Second * w
  BY <1>3, LimitAssumption, TimesNatural
<1>6. r >= q
  BY <1>2, <1>3, <1>5, LimitAssumption
<1>7. q * Rate <= r * Rate
  BY <1>2, <1>6, LimitAssumption, TimesMonotone
<1>8. b + r * Rate >= Unit
  BY <1>1, <1>2, <1>5, <1>7, LimitAssumption
<1>. QED  BY <1>4, <1>5, <1>8 DEF b

\* A key that has waited out its promise is not denied.
LEMMA KeptIsServed ==
  ASSUME now \in Nat, NEW s, IsMap(s), NEW k \in Keys, NEW q \in Int, q # NoPromise,
         KeptFor(s, k, q, now), ~ Allows(s, k)
  PROVE  now < q
<1>1. PICK m \in 1..Len(s) : s[m].key = k /\ Bucket(s, k) = refill(s[m])
  BY BucketProperties
<1>2. s[m] \in Entry
  BY ElementOfSeq DEF IsMap
<1>3. s[m].lastRefillMs <= now /\ s[m].tokens + (q - s[m].lastRefillMs) * Rate >= Unit
  BY <1>1 DEF KeptFor
<1>4. refill(s[m]).tokens < Unit
  BY <1>1, BucketProperties
<1>5. refill(s[m]).tokens \in Int
  BY <1>2, RefillType, LimitAssumption DEF Entry
<1>6. ASSUME q <= now PROVE FALSE
  <2>1. refill(s[m]).tokens >= Unit
    BY <1>2, <1>3, <1>6, RefillKeeps
  <2>. QED  BY <1>4, <1>5, <2>1, LimitAssumption
<1>. QED  BY <1>6

\* A call for one key leaves the promises of the others kept.
LEMMA OthersKept ==
  ASSUME now \in Nat, NEW s, IsMap(s), NEW k \in Keys, NEW j \in Keys, j # k, NEW q,
         KeptFor(s, j, q, now)
  PROVE  KeptFor(consume(s, k), j, q, now)
<1>. SUFFICES ASSUME q # NoPromise, NEW n \in 1..Len(consume(s, k)),
                     consume(s, k)[n].key = j
              PROVE  /\ consume(s, k)[n].lastRefillMs <= now
                     /\ consume(s, k)[n].tokens
                          + (q - consume(s, k)[n].lastRefillMs) * Rate >= Unit
  BY DEF KeptFor
<1>1. PICK m \in 1..Len(s) : consume(s, k)[n] = s[m]
  BY ConsumeMap
<1>. QED  BY <1>1 DEF KeptFor

\* A denial leaves the promise it makes kept, and that promise is a time.
LEMMA PromiseKept ==
  ASSUME now \in Nat, NEW s, IsMap(s), NEW k \in Keys, ~ Allows(s, k)
  PROVE  /\ now + retryAfter(s, k) \in Int
         /\ KeptFor(consume(s, k), k, now + retryAfter(s, k), now)
<1>1. /\ Bucket(s, k) \in Entry /\ Bucket(s, k).lastRefillMs = now
      /\ Bucket(s, k).tokens < Unit
  BY BucketProperties
<1>2. Bucket(s, k).tokens \in Nat
  BY <1>1, LimitAssumption DEF Entry
<1>3. retryAfter(s, k) \in Nat /\ Bucket(s, k).tokens + retryAfter(s, k) * Rate >= Unit
  BY <1>1, <1>2, RetryCovers
<1>4. (now + retryAfter(s, k)) - now = retryAfter(s, k)
  BY <1>3
<1>5. ASSUME NEW n \in 1..Len(consume(s, k)), consume(s, k)[n].key = k
      PROVE  consume(s, k)[n] = Bucket(s, k)
  BY <1>5, ConsumeMap
<1>. QED  BY <1>1, <1>3, <1>4, <1>5 DEF KeptFor

\* No promise is always kept.
LEMMA NoneKept ==
  ASSUME NEW s, NEW k, NEW t
  PROVE  KeptFor(s, k, NoPromise, t)
BY DEF KeptFor

-----------------------------------------------------------------------------
(* The invariant                                                           *)

\* No key has a promise yet, and the Map is empty.
LEMMA InvInitially ==
  Init => Inv
<1>. SUFFICES ASSUME Init PROVE Inv
  OBVIOUS
<1>1. <<>> \in Seq(Entry) /\ Len(<<>>) = 0
  BY EmptySeq
<1>2. IsMap(states)
  BY <1>1, LimitAssumption DEF Init, IsMap, OnePerKey
<1>3. \A k \in Keys : promise[k] = NoPromise
  BY DEF Init
<1>4. \A k \in Keys : KeptFor(states, k, promise[k], now)
  BY <1>3, NoneKept
<1>. QED  BY <1>2, <1>4 DEF Init, Inv

\* A key that is given a new promise had none, or came before its time.
Early(k) ==
  promise'[k] # promise[k] /\ promise'[k] # NoPromise /\ promise[k] # NoPromise
    => now < promise[k]

\* The principal is denied: its promise is new, the others' are kept.
LEMMA PrincipalDenied ==
  ASSUME Inv, NEW p \in Principals, DeniesPrincipal(p)
  PROVE  Inv' /\ \A k \in Keys : Early(k)
<1>1. p \in Keys /\ now' = now /\ now \in Nat /\ IsMap(states)
  BY DEF DeniesPrincipal, Inv, Keys
<1>2. /\ ~ Allows(states, p) /\ states' = consume(states, p)
      /\ promise' = [promise EXCEPT ![p] = now + retryAfter(states, p)]
  BY DEF DeniesPrincipal
<1>3. promise \in [Keys -> Int \cup {NoPromise}]
  BY DEF Inv
<1>4. IsMap(states')
  BY <1>1, <1>2, ConsumeMap
<1>5. /\ now + retryAfter(states, p) \in Int
      /\ KeptFor(consume(states, p), p, now + retryAfter(states, p), now)
  BY <1>1, <1>2, PromiseKept
<1>6. promise' \in [Keys -> Int \cup {NoPromise}]
  BY <1>2, <1>3, <1>5
<1>7. ASSUME NEW k \in Keys
      PROVE  KeptFor(states', k, promise'[k], now') /\ Early(k)
  <2>1. KeptFor(states, k, promise[k], now)
    BY DEF Inv
  <2>2. CASE k = p
    <3>1. promise'[k] = now + retryAfter(states, p)
      BY <1>2, <1>3, <1>1, <2>2
    <3>2. KeptFor(states', k, promise'[k], now')
      BY <1>1, <1>2, <1>5, <2>2, <3>1
    <3>3. promise[k] # NoPromise => now < promise[k]
      BY <1>1, <1>2, <1>3, <2>1, <2>2, KeptIsServed
    <3>. QED  BY <3>2, <3>3 DEF Early
  <2>3. CASE k # p
    <3>1. promise'[k] = promise[k]
      BY <1>2, <1>3, <2>3
    <3>2. KeptFor(consume(states, p), k, promise[k], now)
      BY <1>1, <2>1, <2>3, OthersKept
    <3>. QED  BY <1>1, <1>2, <3>1, <3>2 DEF Early
  <2>. QED  BY <2>2, <2>3
<1>. QED  BY <1>1, <1>4, <1>6, <1>7 DEF Inv

\* The agent is denied: its promise is new, the principal's is gone.
LEMMA AgentDenied ==
  ASSUME Inv, NEW p \in Principals, NEW a \in AgentIds, DeniesAgent(p, a)
  PROVE  Inv' /\ \A k \in Keys : Early(k)
<1>. DEFINE s == consume(states, p)
<1>1. /\ p \in Keys /\ a \in Keys /\ a # p /\ now' = now /\ now \in Nat
      /\ IsMap(states)
  BY LimitAssumption DEF DeniesAgent, Inv, Keys
<1>2. /\ ~ Allows(s, a) /\ states' = consume(s, a)
      /\ promise' = [promise EXCEPT ![p] = NoPromise, ![a] = now + retryAfter(s, a)]
  BY DEF DeniesAgent
<1>3. promise \in [Keys -> Int \cup {NoPromise}]
  BY DEF Inv
<1>4. IsMap(s)
  BY <1>1, ConsumeMap
<1>5. \A j \in Keys : j # p => KeptFor(s, j, promise[j], now)
  BY <1>1, OthersKept DEF Inv
<1>. HIDE DEF s
<1>6. IsMap(states')
  BY <1>1, <1>2, <1>4, ConsumeMap
<1>7. /\ now + retryAfter(s, a) \in Int
      /\ KeptFor(consume(s, a), a, now + retryAfter(s, a), now)
  BY <1>1, <1>2, <1>4, PromiseKept
<1>8. promise' \in [Keys -> Int \cup {NoPromise}]
  BY <1>2, <1>3, <1>7
<1>9. ASSUME NEW k \in Keys
      PROVE  KeptFor(states', k, promise'[k], now') /\ Early(k)
  <2>1. CASE k = p
    <3>1. promise'[k] = NoPromise
      BY <1>1, <1>2, <1>3, <2>1
    <3>. QED  BY <3>1, NoneKept DEF Early
  <2>2. CASE k = a
    <3>1. promise'[k] = now + retryAfter(s, a)
      BY <1>1, <1>2, <1>3, <2>2
    <3>2. KeptFor(states', k, promise'[k], now')
      BY <1>1, <1>2, <1>7, <2>2, <3>1
    <3>3. KeptFor(s, k, promise[k], now)
      BY <1>1, <1>5, <2>2
    <3>4. promise[k] # NoPromise => now < promise[k]
      BY <1>1, <1>2, <1>3, <1>4, <2>2, <3>3, KeptIsServed
    <3>. QED  BY <3>2, <3>4 DEF Early
  <2>3. CASE k # p /\ k # a
    <3>1. promise'[k] = promise[k]
      BY <1>2, <1>3, <2>3
    <3>2. KeptFor(consume(s, a), k, promise[k], now)
      BY <1>1, <1>4, <1>5, <2>3, OthersKept
    <3>. QED  BY <1>1, <1>2, <3>1, <3>2 DEF Early
  <2>. QED  BY <2>1, <2>2, <2>3
<1>. QED  BY <1>1, <1>6, <1>8, <1>9 DEF Inv

\* Both are served: neither has a promise any more.
LEMMA BothServed ==
  ASSUME Inv, NEW p \in Principals, NEW a \in AgentIds, Serves(p, a)
  PROVE  Inv' /\ \A k \in Keys : Early(k)
<1>. DEFINE s == consume(states, p)
<1>1. /\ p \in Keys /\ a \in Keys /\ now' = now /\ now \in Nat /\ IsMap(states)
  BY DEF Serves, Inv, Keys
<1>2. /\ states' = consume(s, a)
      /\ promise' = [promise EXCEPT ![p] = NoPromise, ![a] = NoPromise]
  BY DEF Serves
<1>3. promise \in [Keys -> Int \cup {NoPromise}]
  BY DEF Inv
<1>4. IsMap(s)
  BY <1>1, ConsumeMap
<1>5. \A j \in Keys : j # p => KeptFor(s, j, promise[j], now)
  BY <1>1, OthersKept DEF Inv
<1>. HIDE DEF s
<1>6. IsMap(states')
  BY <1>1, <1>2, <1>4, ConsumeMap
<1>7. promise' \in [Keys -> Int \cup {NoPromise}]
  BY <1>2, <1>3
<1>8. ASSUME NEW k \in Keys
      PROVE  KeptFor(states', k, promise'[k], now') /\ Early(k)
  <2>1. CASE k \in {p, a}
    <3>1. promise'[k] = NoPromise
      BY <1>1, <1>2, <1>3, <2>1
    <3>. QED  BY <3>1, NoneKept DEF Early
  <2>2. CASE k \notin {p, a}
    <3>1. promise'[k] = promise[k]
      BY <1>2, <1>3, <2>2
    <3>2. KeptFor(consume(s, a), k, promise[k], now)
      BY <1>1, <1>4, <1>5, <2>2, OthersKept
    <3>. QED  BY <1>1, <1>2, <3>1, <3>2 DEF Early
  <2>. QED  BY <2>1, <2>2
<1>. QED  BY <1>1, <1>6, <1>7, <1>8 DEF Inv

\* Time passes, which keeps promises, or is set back, which forgets them.
LEMMA ClockMoves ==
  ASSUME Inv, Tick \/ SetBack
  PROVE  Inv' /\ \A k \in Keys : Early(k)
<1>1. CASE Tick
  <2>1. now' = now + 1 /\ states' = states /\ promise' = promise /\ now \in Nat
    BY <1>1 DEF Tick, Inv
  <2>2. ASSUME NEW n \in 1..Len(states) PROVE states[n].lastRefillMs \in Nat
    BY EntryOfMap DEF Inv, Entry
  <2>3. ASSUME NEW k \in Keys PROVE KeptFor(states, k, promise[k], now + 1)
    <3>1. KeptFor(states, k, promise[k], now)
      BY DEF Inv
    <3>. QED  BY <2>1, <2>2, <3>1 DEF KeptFor
  <2>. QED  BY <2>1, <2>3 DEF Inv, Early
<1>2. CASE SetBack
  <2>1. /\ now' \in Nat /\ states' = states
        /\ promise' = [k \in Keys |-> NoPromise]
    BY <1>2 DEF SetBack, Inv
  <2>2. ASSUME NEW k \in Keys
        PROVE  KeptFor(states', k, promise'[k], now') /\ Early(k)
    <3>1. promise'[k] = NoPromise
      BY <2>1
    <3>. QED  BY <3>1, NoneKept DEF Early
  <2>3. promise' \in [Keys -> Int \cup {NoPromise}]
    BY <2>1
  <2>. QED  BY <2>1, <2>2, <2>3 DEF Inv
<1>. QED  BY <1>1, <1>2

\* Every step.
LEMMA InvSteps ==
  ASSUME Inv, [Next]_vars
  PROVE  Inv' /\ [\A k \in Keys : Early(k)]_vars
<1>1. CASE Next
  BY <1>1, PrincipalDenied, AgentDenied, BothServed, ClockMoves DEF Next
<1>2. CASE UNCHANGED vars
  BY <1>2 DEF vars, Inv
<1>. QED  BY <1>1, <1>2

-----------------------------------------------------------------------------
(* The theorems                                                            *)

\* The Map keeps its bound and one bucket per key, and no bucket is overfull or
\* in debt, whatever the clock does and whoever is evicted (pruneIfNeeded,
\* refill, consume).
THEOREM BoundedHolds == Spec => []BoundedStates
<1>1. Inv => BoundedStates
  <2>. SUFFICES ASSUME Inv PROVE BoundedStates
    OBVIOUS
  <2>1. ASSUME NEW n \in 1..Len(states) PROVE states[n].tokens \in 0..Burst
    BY EntryOfMap DEF Inv, Entry
  <2>. QED  BY <2>1 DEF Inv, IsMap, OnePerKey, BoundedStates
<1>. QED  BY <1>1, InvInitially, InvSteps, PTL DEF Spec

\* Retry-After is honest: who waited as long as it was told, and was not served
\* meanwhile, is not denied again, for every rate, burst, size of the Map and
\* order of the other callers (consume, checkMutationRateLimit).
THEOREM RetryAfterHonest == Spec => HonestRetryAfter
<1>1. [\A k \in Keys : Early(k)]_vars
        <=> [\A k \in Keys :
               promise'[k] # promise[k] /\ promise'[k] # NoPromise /\ promise[k] # NoPromise
                 => now < promise[k]]_vars
  BY DEF Early
<1>. QED  BY <1>1, InvInitially, InvSteps, PTL DEF Spec, HonestRetryAfter

-----------------------------------------------------------------------------
(* Lazy refilling is eager                                                 *)

\* What the bucket e holds at the time t.
Held(e, t) ==
  IF t <= e.lastRefillMs THEN e.tokens
  ELSE Smaller(Burst, e.tokens + (t - e.lastRefillMs) * Rate)

\* In the map s, at the time t, k has at most c units; a key without an entry
\* is full.
HasAtMost(s, k, c, t) ==
  /\ \A n \in 1..Len(s) : s[n].key = k => Held(s[n], t) <= c
  /\ (\A n \in 1..Len(s) : s[n].key # k) => c = Burst

\* It has at least c units, and a bucket that refills as time goes on.
HasAtLeast(s, k, c, t) ==
  \A n \in 1..Len(s) : s[n].key = k => s[n].lastRefillMs <= t /\ Held(s[n], t) >= c

LazyInv ==
  /\ credit \in [Keys -> 0..Burst] /\ setBacks \in Nat
  /\ \A k \in Keys \ evicted : HasAtMost(states, k, credit[k], now)
  /\ setBacks = 0 => \A k \in Keys : HasAtLeast(states, k, credit[k], now)

LEMMA EntryParts ==
  ASSUME NEW e \in Entry
  PROVE  /\ e.tokens \in 0..Burst /\ e.lastRefillMs \in Nat /\ e.lastSeenMs \in Nat
         /\ Burst \in Nat /\ Rate \in Nat
BY LimitAssumption DEF Entry

\* One unit of time refills the rate.
LEMMA TimesNext ==
  ASSUME NEW a \in Int, NEW b \in Int, NEW r \in Nat
  PROVE  ((a + 1) - b) * r = (a - b) * r + r
OBVIOUS

\* Refilling now makes the bucket hold what it holds now.
LEMMA RefillHeld ==
  ASSUME now \in Nat, NEW e \in Entry
  PROVE  /\ refill(e).tokens = Held(e, now) /\ Held(e, now) \in 0..Burst
         /\ Held(refill(e), now) = Held(e, now)
<1>1. /\ e.tokens \in 0..Burst /\ e.lastRefillMs \in Nat /\ Burst \in Nat /\ Rate \in Nat
  BY EntryParts
<1>2. refill(e) \in Entry /\ refill(e).lastRefillMs = now
  BY RefillType
<1>3. refill(e).tokens = Held(e, now)
  BY DEF refill, Held, Entry
<1>4. Held(refill(e), now) = refill(e).tokens
  BY <1>2 DEF Held
<1>. QED  BY <1>2, <1>3, <1>4, EntryParts

\* A bucket that was refilled just now.
LEMMA JustRefilled ==
  ASSUME now \in Nat, NEW e \in Entry, e.lastRefillMs = now
  PROVE  Held(e, now) = e.tokens
BY DEF Held

\* As time passes a bucket gains its rate, and it gains no more.
LEMMA HeldTicks ==
  ASSUME now \in Nat, NEW e \in Entry
  PROVE  /\ Held(e, now + 1) <= Smaller(Burst, Held(e, now) + Rate)
         /\ e.lastRefillMs <= now => Held(e, now + 1) = Smaller(Burst, Held(e, now) + Rate)
<1>1. /\ e.tokens \in 0..Burst /\ e.lastRefillMs \in Nat /\ Burst \in Nat /\ Rate \in Nat
  BY EntryParts
<1>2. CASE now + 1 <= e.lastRefillMs
  <2>1. Held(e, now + 1) = e.tokens /\ Held(e, now) = e.tokens
    BY <1>1, <1>2 DEF Held
  <2>. QED  BY <1>1, <1>2, <2>1 DEF Smaller
<1>3. CASE now = e.lastRefillMs
  <2>1. ((now + 1) - e.lastRefillMs) * Rate = Rate
    BY <1>1, <1>3
  <2>2. Held(e, now) = e.tokens
    BY <1>1, <1>3 DEF Held
  <2>3. Held(e, now + 1) = Smaller(Burst, e.tokens + Rate)
    BY <1>1, <1>3, <2>1 DEF Held
  <2>. QED  BY <1>1, <2>2, <2>3 DEF Smaller
<1>4. CASE e.lastRefillMs < now
  <2>1. PICK x \in Int : x = (now - e.lastRefillMs) * Rate
    BY <1>1
  <2>2. ((now + 1) - e.lastRefillMs) * Rate = x + Rate
    <3>1. now \in Int /\ e.lastRefillMs \in Int /\ Rate \in Nat
      BY <1>1
    <3>2. \A a, b \in Int : \A r \in Nat : ((a + 1) - b) * r = (a - b) * r + r
      BY TimesNext
    <3>3. ((now + 1) - e.lastRefillMs) * Rate = (now - e.lastRefillMs) * Rate + Rate
      BY <3>1, <3>2, Zenon
    <3>. QED  BY <2>1, <3>3, Zenon
  <2>3. Held(e, now) = Smaller(Burst, e.tokens + x)
    BY <1>1, <1>4, <2>1 DEF Held
  <2>4. Held(e, now + 1) = Smaller(Burst, e.tokens + (x + Rate))
    BY <1>1, <1>4, <2>2 DEF Held
  <2>. QED  BY <1>1, <2>3, <2>4 DEF Smaller
<1>. QED  BY <1>1, <1>2, <1>3, <1>4

\* The clock set back takes from a bucket, and gives it nothing.
LEMMA HeldBack ==
  ASSUME now \in Nat, NEW t \in Nat, t <= now, NEW e \in Entry
  PROVE  Held(e, t) <= Held(e, now)
<1>1. /\ e.tokens \in 0..Burst /\ e.lastRefillMs \in Nat /\ Burst \in Nat /\ Rate \in Nat
  BY EntryParts
<1>2. CASE t <= e.lastRefillMs
  <2>1. Held(e, t) = e.tokens
    BY <1>2 DEF Held
  <2>2. CASE now <= e.lastRefillMs
    BY <1>1, <2>1, <2>2 DEF Held
  <2>3. CASE ~ (now <= e.lastRefillMs)
    <3>1. PICK x \in Nat : x = (now - e.lastRefillMs) * Rate
      BY <1>1, <2>3, TimesNatural
    <3>2. Held(e, now) = Smaller(Burst, e.tokens + x)
      BY <2>3, <3>1 DEF Held
    <3>. QED  BY <1>1, <2>1, <3>2 DEF Smaller
  <2>. QED  BY <2>2, <2>3
<1>3. CASE ~ (t <= e.lastRefillMs)
  <2>1. (t - e.lastRefillMs) * Rate <= (now - e.lastRefillMs) * Rate
    BY <1>1, TimesMonotone
  <2>2. PICK x \in Int : x = (now - e.lastRefillMs) * Rate
    BY <1>1
  <2>3. PICK y \in Int : y = (t - e.lastRefillMs) * Rate
    BY <1>1
  <2>4. Held(e, now) = Smaller(Burst, e.tokens + x) /\ Held(e, t) = Smaller(Burst, e.tokens + y)
    BY <1>1, <1>3, <2>2, <2>3 DEF Held
  <2>. QED  BY <1>1, <2>1, <2>2, <2>3, <2>4 DEF Smaller
<1>. QED  BY <1>2, <1>3

\* Where the entries of k are the same, so is what it has.
LEMMA SameMost ==
  ASSUME NEW s, NEW u, NEW k, NEW c, NEW t, HasAtMost(s, k, c, t),
         \A n \in 1..Len(u) : u[n].key = k => \E m \in 1..Len(s) : u[n] = s[m],
         \A m \in 1..Len(s) : s[m].key = k => \E n \in 1..Len(u) : u[n] = s[m]
  PROVE  HasAtMost(u, k, c, t)
BY DEF HasAtMost

LEMMA SameLeast ==
  ASSUME NEW s, NEW u, NEW k, NEW c, NEW t, HasAtLeast(s, k, c, t),
         \A n \in 1..Len(u) : u[n].key = k => \E m \in 1..Len(s) : u[n] = s[m]
  PROVE  HasAtLeast(u, k, c, t)
BY DEF HasAtLeast

\* Pruning takes at most one entry, and says so when its bucket was not full.
LEMMA PruneTakes ==
  ASSUME now \in Nat, NEW s, IsMap(s)
  PROVE  \/ pruneIfNeeded(s) = s
         \/ \E i \in 1..Len(s) :
              /\ refill(s[i]).tokens < Burst => s[i].key \in EvictedEarly(s)
              /\ \A n \in 1..Len(pruneIfNeeded(s)) :
                   \E m \in 1..Len(s) : m # i /\ pruneIfNeeded(s)[n] = s[m]
              /\ \A m \in 1..Len(s) :
                   m # i => \E n \in 1..Len(pruneIfNeeded(s)) : pruneIfNeeded(s)[n] = s[m]
<1>. DEFINE t == pruneIfNeeded(s)
<1>1. s \in Seq(Entry) /\ Len(s) \in Nat /\ MaxKeys \in Nat \ {0}
  BY LimitAssumption, LenProperties DEF IsMap
<1>2. CASE Len(s) < MaxKeys
  BY <1>2 DEF pruneIfNeeded
<1>3. CASE ~ (Len(s) < MaxKeys)
  <2>1. PICK i \in 1..Len(s) : i = Victim(s)
    BY <1>1, <1>3, VictimIn
  <2>2. t = RemoveAt(s, i)
    BY <1>3, <2>1 DEF pruneIfNeeded
  <2>3. /\ Len(t) = Len(s) - 1
        /\ \A n \in 1..(Len(s) - 1) : t[n] = IF n < i THEN s[n] ELSE s[n + 1]
    BY <1>1, <2>2, RemoveAtProperties
  <2>4. Len(s) >= MaxKeys
    BY <1>1, <1>3
  <2>5. refill(s[i]).tokens < Burst => s[i].key \in EvictedEarly(s)
    BY <2>1, <2>4 DEF EvictedEarly
  <2>. HIDE DEF t
  <2>6. ASSUME NEW n \in 1..Len(t) PROVE \E m \in 1..Len(s) : m # i /\ t[n] = s[m]
    <3>1. CASE n < i
      BY <1>1, <2>3, <3>1
    <3>2. CASE ~ (n < i)
      <4>1. n + 1 \in 1..Len(s) /\ n + 1 # i /\ t[n] = s[n + 1]
        BY <1>1, <2>3, <3>2
      <4>. QED  BY <4>1
    <3>. QED  BY <3>1, <3>2
  <2>7. ASSUME NEW m \in 1..Len(s), m # i PROVE \E n \in 1..Len(t) : t[n] = s[m]
    <3>1. CASE m < i
      <4>1. m \in 1..Len(t) /\ t[m] = s[m]
        BY <1>1, <2>3, <3>1
      <4>. QED  BY <4>1
    <3>2. CASE ~ (m < i)
      <4>1. m - 1 \in 1..Len(t) /\ ~ (m - 1 < i) /\ (m - 1) + 1 = m
        BY <1>1, <2>3, <2>7, <3>2
      <4>2. t[m - 1] = s[m]
        BY <1>1, <2>3, <4>1
      <4>. QED  BY <4>1, <4>2
    <3>. QED  BY <3>1, <3>2
  <2>. QED  BY <2>5, <2>6, <2>7 DEF t
<1>. QED  BY <1>2, <1>3

\* Nobody has more after it but who was evicted early.
LEMMA PruneMost ==
  ASSUME now \in Nat, NEW s, IsMap(s), NEW k \in Keys \ EvictedEarly(s),
         NEW c \in 0..Burst, HasAtMost(s, k, c, now)
  PROVE  HasAtMost(pruneIfNeeded(s), k, c, now)
<1>. DEFINE t == pruneIfNeeded(s)
<1>1. CASE t = s
  BY <1>1
<1>2. ASSUME NEW i \in 1..Len(s),
             refill(s[i]).tokens < Burst => s[i].key \in EvictedEarly(s),
             \A n \in 1..Len(t) : \E m \in 1..Len(s) : m # i /\ t[n] = s[m],
             \A m \in 1..Len(s) : m # i => \E n \in 1..Len(t) : t[n] = s[m]
      PROVE  HasAtMost(t, k, c, now)
  <2>. HIDE DEF t
  <2>1. CASE s[i].key = k
    <3>1. s[i] \in Entry /\ Held(s[i], now) <= c /\ ~ (refill(s[i]).tokens < Burst)
      BY <1>2, <2>1, EntryOfMap DEF HasAtMost
    <3>2. refill(s[i]).tokens = Held(s[i], now) /\ Held(s[i], now) \in 0..Burst
      BY <3>1, RefillHeld
    <3>3. c = Burst
      BY <3>1, <3>2, LimitAssumption
    <3>4. \A n \in 1..Len(t) : t[n].key # k
      BY <1>2, <2>1 DEF IsMap, OnePerKey
    <3>. QED  BY <3>3, <3>4 DEF HasAtMost
  <2>2. CASE s[i].key # k
    <3>1. \A n \in 1..Len(t) : t[n].key = k => \E m \in 1..Len(s) : t[n] = s[m]
      BY <1>2
    <3>2. \A m \in 1..Len(s) : s[m].key = k => \E n \in 1..Len(t) : t[n] = s[m]
      BY <1>2, <2>2
    <3>. QED  BY <3>1, <3>2, SameMost
  <2>. QED  BY <2>1, <2>2
<1>. QED  BY <1>1, <1>2, PruneTakes

\* A lookup of j gives nobody more, but who is evicted early,
LEMMA LookupMost ==
  ASSUME now \in Nat, NEW s, IsMap(s), NEW j \in Keys, NEW k \in Keys \ EvictedEarly(s),
         NEW c \in 0..Burst, HasAtMost(s, k, c, now)
  PROVE  HasAtMost(getOrCreateState(s, j), k, c, now)
<1>. DEFINE u == pruneIfNeeded(s)
            t == getOrCreateState(s, j)
            new == [key |-> j, tokens |-> Burst, lastRefillMs |-> now, lastSeenMs |-> now]
<1>1. IsMap(u) /\ HasAtMost(u, k, c, now)
  BY PruneMap, PruneMost
<1>2. u \in Seq(Entry) /\ Len(u) \in Nat
  BY <1>1, LenProperties DEF IsMap
<1>3. t = IF j \in KeysOf(u) THEN u ELSE Append(u, new)
  BY DEF getOrCreateState, Created
<1>4. new \in Entry /\ new.key = j /\ new.tokens = Burst /\ new.lastRefillMs = now
  BY LimitAssumption DEF Entry
<1>. HIDE DEF u, new
<1>5. Held(new, now) = Burst
  BY <1>4, JustRefilled
<1>6. CASE j \in KeysOf(u)
  BY <1>1, <1>3, <1>6
<1>7. CASE j \notin KeysOf(u)
  <2>1. /\ t \in Seq(Entry) /\ Len(t) = Len(u) + 1
        /\ (\A n \in 1..Len(u) : t[n] = u[n]) /\ t[Len(u) + 1] = new
    BY <1>2, <1>3, <1>4, <1>7, AppendProperties
  <2>. HIDE DEF t
  <2>2. \A n \in 1..Len(t) : n \in 1..Len(u) \/ n = Len(u) + 1
    BY <1>2, <2>1
  <2>3. Len(u) + 1 \in 1..Len(t) /\ 1..Len(u) \subseteq 1..Len(t)
    BY <1>2, <2>1
  <2>4. \A n \in 1..Len(u) : u[n].key # j
    BY <1>7 DEF KeysOf
  <2>5. CASE j = k
    <3>1. c = Burst
      BY <1>1, <2>4, <2>5 DEF HasAtMost
    <3>2. \A n \in 1..Len(t) : t[n].key = k => t[n] = new
      BY <2>1, <2>2, <2>4, <2>5
    <3>3. Burst \in Nat
      BY LimitAssumption
    <3>. QED  BY <1>5, <3>1, <3>2, <3>3 DEF HasAtMost, t
  <2>6. CASE j # k
    <3>1. \A n \in 1..Len(t) : t[n].key = k => \E m \in 1..Len(u) : t[n] = u[m]
      BY <1>4, <2>1, <2>2, <2>6
    <3>2. \A m \in 1..Len(u) : u[m].key = k => \E n \in 1..Len(t) : t[n] = u[m]
      BY <2>1, <2>3
    <3>. QED  BY <1>1, <3>1, <3>2, SameMost DEF t
  <2>. QED  BY <2>5, <2>6
<1>. QED  BY <1>6, <1>7

\* and nobody less.
LEMMA LookupLeast ==
  ASSUME now \in Nat, NEW s, IsMap(s), NEW j \in Keys, NEW k \in Keys,
         NEW c \in 0..Burst, HasAtLeast(s, k, c, now)
  PROVE  HasAtLeast(getOrCreateState(s, j), k, c, now)
<1>. DEFINE t == getOrCreateState(s, j)
            new == [key |-> j, tokens |-> Burst, lastRefillMs |-> now, lastSeenMs |-> now]
<1>1. \A n \in 1..Len(t) : (\E m \in 1..Len(s) : t[n] = s[m]) \/ t[n] = new
  BY LookupMap
<1>2. new \in Entry /\ new.tokens = Burst /\ new.lastRefillMs = now
  BY LimitAssumption DEF Entry
<1>. HIDE DEF t, new
<1>3. Held(new, now) = Burst
  BY <1>2, JustRefilled
<1>4. new.lastRefillMs <= now /\ Held(new, now) >= c
  BY <1>2, <1>3, LimitAssumption
<1>5. HasAtLeast(t, k, c, now)
  BY <1>1, <1>4 DEF HasAtLeast
<1>. QED  BY <1>5 DEF t

\* The bucket of a call holds what its key has.
LEMMA BucketMost ==
  ASSUME now \in Nat, NEW s, IsMap(s), NEW k \in Keys \ EvictedEarly(s),
         NEW c \in 0..Burst, HasAtMost(s, k, c, now)
  PROVE  Bucket(s, k).tokens <= c
<1>. DEFINE t == getOrCreateState(s, k)
            e == t[Place(t, k)]
<1>1. IsMap(t) /\ Place(t, k) \in 1..Len(t) /\ e.key = k /\ HasAtMost(t, k, c, now)
  BY LookupMap, LookupMost
<1>2. e \in Entry /\ Held(e, now) <= c
  BY <1>1, EntryOfMap DEF HasAtMost
<1>3. Bucket(s, k) = refill(e)
  BY DEF Bucket
<1>. HIDE DEF e
<1>. QED  BY <1>2, <1>3, RefillHeld

LEMMA BucketLeast ==
  ASSUME now \in Nat, NEW s, IsMap(s), NEW k \in Keys,
         NEW c \in 0..Burst, HasAtLeast(s, k, c, now)
  PROVE  Bucket(s, k).tokens >= c
<1>. DEFINE t == getOrCreateState(s, k)
            e == t[Place(t, k)]
<1>1. IsMap(t) /\ Place(t, k) \in 1..Len(t) /\ e.key = k /\ HasAtLeast(t, k, c, now)
  BY LookupMap, LookupLeast
<1>2. e \in Entry /\ Held(e, now) >= c
  BY <1>1, EntryOfMap DEF HasAtLeast
<1>3. Bucket(s, k) = refill(e)
  BY DEF Bucket
<1>. HIDE DEF e
<1>. QED  BY <1>2, <1>3, RefillHeld

\* What a call of j leaves: j's entry is its bucket, less a token if it was
\* served, and the others are those that the lookup left.
LEMMA ConsumeEntries ==
  ASSUME now \in Nat, NEW s, IsMap(s), NEW j \in Keys
  PROVE  \E e \in Entry :
           /\ e.key = j /\ e.lastRefillMs = now
           /\ e.tokens = IF Allows(s, j) THEN Bucket(s, j).tokens - Unit ELSE Bucket(s, j).tokens
           /\ \E n \in 1..Len(consume(s, j)) : consume(s, j)[n] = e
           /\ \A n \in 1..Len(consume(s, j)) :
                \/ consume(s, j)[n] = e
                \/ /\ consume(s, j)[n].key # j
                   /\ \E m \in 1..Len(getOrCreateState(s, j)) :
                        consume(s, j)[n] = getOrCreateState(s, j)[m]
           /\ \A m \in 1..Len(getOrCreateState(s, j)) :
                getOrCreateState(s, j)[m].key # j =>
                  \E n \in 1..Len(consume(s, j)) : consume(s, j)[n] = getOrCreateState(s, j)[m]
<1>. DEFINE t == getOrCreateState(s, j)
            p == Place(t, j)
            b == Bucket(s, j)
            e == IF Allows(s, j) THEN [b EXCEPT !.tokens = @ - Unit, !.lastSeenMs = now] ELSE b
            d == consume(s, j)
<1>1. IsMap(t) /\ p \in 1..Len(t) /\ t[p].key = j
  BY LookupMap
<1>2. b \in Entry /\ b.key = j /\ b.lastRefillMs = now
  BY BucketProperties
<1>3. Allows(s, j) <=> b.tokens >= Unit
  BY DEF Allows
<1>4. /\ e \in Entry /\ e.key = j /\ e.lastRefillMs = now
      /\ e.tokens = IF Allows(s, j) THEN b.tokens - Unit ELSE b.tokens
  <2>1. CASE Allows(s, j)
    <3>1. b.tokens - Unit \in 0..Burst
      BY <1>2, <1>3, <2>1, LimitAssumption DEF Entry
    <3>. HIDE DEF b
    <3>. QED  BY <1>2, <2>1, <3>1 DEF Entry
  <2>2. CASE ~ Allows(s, j)
    BY <1>2, <2>2
  <2>. QED  BY <2>1, <2>2
<1>5. t \in Seq(Entry) /\ Len(t) \in Nat
  BY <1>1, LenProperties DEF IsMap
<1>6. d = [t EXCEPT ![p] = e]
  BY DEF consume
<1>. HIDE DEF t, p, e, d, b
<1>7. /\ Len(d) = Len(t)
      /\ \A n \in 1..Len(t) : d[n] = IF n = p THEN e ELSE t[n]
  BY <1>1, <1>4, <1>5, <1>6, ExceptSeq
<1>8. \A n \in 1..Len(t) : n # p => t[n].key # j
  BY <1>1 DEF IsMap, OnePerKey
<1>9. /\ \E n \in 1..Len(d) : d[n] = e
      /\ \A n \in 1..Len(d) : d[n] = e \/ (d[n].key # j /\ \E m \in 1..Len(t) : d[n] = t[m])
      /\ \A m \in 1..Len(t) : t[m].key # j => \E n \in 1..Len(d) : d[n] = t[m]
  BY <1>1, <1>7, <1>8
<1>. QED  BY <1>4, <1>9 DEF t, d, b

\* What the ghost account says k has after a call of j.
Left(s, j, k, c) == IF j = k /\ Allows(s, j) THEN Larger(0, c - Unit) ELSE c

LEMMA LeftType ==
  ASSUME NEW s, NEW j, NEW k, NEW c \in 0..Burst
  PROVE  Left(s, j, k, c) \in 0..Burst
BY LimitAssumption DEF Left, Larger

\* A call costs its key a token if it is served, and gives nobody more.
LEMMA ConsumeMost ==
  ASSUME now \in Nat, NEW s, IsMap(s), NEW j \in Keys, NEW k \in Keys \ EvictedEarly(s),
         NEW c \in 0..Burst, HasAtMost(s, k, c, now)
  PROVE  HasAtMost(consume(s, j), k, Left(s, j, k, c), now)
<1>. DEFINE t == getOrCreateState(s, j)
            d == consume(s, j)
<1>1. HasAtMost(t, k, c, now)
  BY LookupMost
<1>2. PICK e \in Entry :
        /\ e.key = j /\ e.lastRefillMs = now
        /\ e.tokens = IF Allows(s, j) THEN Bucket(s, j).tokens - Unit ELSE Bucket(s, j).tokens
        /\ \E n \in 1..Len(d) : d[n] = e
        /\ \A n \in 1..Len(d) : d[n] = e \/ (d[n].key # j /\ \E m \in 1..Len(t) : d[n] = t[m])
        /\ \A m \in 1..Len(t) : t[m].key # j => \E n \in 1..Len(d) : d[n] = t[m]
  BY ConsumeEntries
<1>. HIDE DEF t, d
<1>3. CASE j = k
  <2>1. Bucket(s, j).tokens <= c /\ Bucket(s, j) \in Entry
    BY <1>3, BucketMost, BucketProperties
  <2>2. e.tokens <= Left(s, j, k, c)
    BY <1>2, <1>3, <2>1, EntryParts, LimitAssumption DEF Left, Larger
  <2>3. Held(e, now) = e.tokens
    BY <1>2, JustRefilled
  <2>4. \A n \in 1..Len(d) : d[n].key = k => d[n] = e
    BY <1>2, <1>3
  <2>5. ~ \A n \in 1..Len(d) : d[n].key # k
    BY <1>2, <1>3
  <2>. QED  BY <2>2, <2>3, <2>4, <2>5 DEF HasAtMost, d
<1>4. CASE j # k
  <2>1. \A n \in 1..Len(d) : d[n].key = k => \E m \in 1..Len(t) : d[n] = t[m]
    BY <1>2, <1>4
  <2>2. \A m \in 1..Len(t) : t[m].key = k => \E n \in 1..Len(d) : d[n] = t[m]
    BY <1>2, <1>4
  <2>3. HasAtMost(d, k, c, now)
    BY <1>1, <2>1, <2>2, SameMost
  <2>. QED  BY <1>4, <2>3 DEF d, Left
<1>. QED  BY <1>3, <1>4

\* It takes from nobody else.
LEMMA ConsumeLeast ==
  ASSUME now \in Nat, NEW s, IsMap(s), NEW j \in Keys, NEW k \in Keys,
         NEW c \in 0..Burst, HasAtLeast(s, k, c, now)
  PROVE  HasAtLeast(consume(s, j), k, Left(s, j, k, c), now)
<1>. DEFINE t == getOrCreateState(s, j)
            d == consume(s, j)
<1>1. HasAtLeast(t, k, c, now)
  BY LookupLeast
<1>2. PICK e \in Entry :
        /\ e.key = j /\ e.lastRefillMs = now
        /\ e.tokens = IF Allows(s, j) THEN Bucket(s, j).tokens - Unit ELSE Bucket(s, j).tokens
        /\ \A n \in 1..Len(d) : d[n] = e \/ (d[n].key # j /\ \E m \in 1..Len(t) : d[n] = t[m])
  BY ConsumeEntries
<1>. HIDE DEF t, d
<1>3. CASE j = k
  <2>1. Bucket(s, j).tokens >= c /\ Bucket(s, j) \in Entry
    BY <1>3, BucketLeast, BucketProperties
  <2>2. e.tokens >= Left(s, j, k, c)
    BY <1>2, <1>3, <2>1, EntryParts, LimitAssumption DEF Left, Larger
  <2>3. Held(e, now) = e.tokens /\ e.lastRefillMs <= now
    BY <1>2, JustRefilled
  <2>4. \A n \in 1..Len(d) : d[n].key = k => d[n] = e
    BY <1>2, <1>3
  <2>. QED  BY <2>2, <2>3, <2>4 DEF HasAtLeast, d
<1>4. CASE j # k
  <2>1. \A n \in 1..Len(d) : d[n].key = k => \E m \in 1..Len(t) : d[n] = t[m]
    BY <1>2, <1>4
  <2>2. HasAtLeast(d, k, c, now)
    BY <1>1, <2>1, SameLeast
  <2>. QED  BY <1>4, <2>2 DEF d, Left
<1>. QED  BY <1>3, <1>4

\* A call of a principal alone.
LEMMA LazyDenied ==
  ASSUME Inv, LazyInv, NEW p \in Principals, DeniesPrincipal(p)
  PROVE  LazyInv'
<1>1. p \in Keys /\ now \in Nat /\ IsMap(states) /\ now' = now /\ setBacks' = setBacks
  BY DEF Inv, Keys, DeniesPrincipal
<1>2. /\ evicted' = evicted \cup EvictedEarly(states)
      /\ ~ Allows(states, p) /\ states' = consume(states, p)
  BY DEF DeniesPrincipal, Account
<1>3. credit' = credit
  BY DEF DeniesPrincipal, Account, LazyInv
<1>4. \A k \in Keys : credit[k] \in 0..Burst /\ Left(states, p, k, credit[k]) = credit[k]
  BY <1>2 DEF LazyInv, Left
<1>5. \A k \in Keys \ evicted' : HasAtMost(states', k, credit'[k], now')
  <2>. SUFFICES ASSUME NEW k \in Keys \ evicted' PROVE HasAtMost(states', k, credit'[k], now')
    OBVIOUS
  <2>1. k \in Keys \ EvictedEarly(states) /\ HasAtMost(states, k, credit[k], now)
    BY <1>2 DEF LazyInv
  <2>2. HasAtMost(consume(states, p), k, Left(states, p, k, credit[k]), now)
    BY <1>1, <1>4, <2>1, ConsumeMost
  <2>. QED  BY <1>1, <1>2, <1>3, <1>4, <2>2
<1>6. ASSUME setBacks = 0, NEW k \in Keys PROVE HasAtLeast(states', k, credit'[k], now')
  <2>1. HasAtLeast(consume(states, p), k, Left(states, p, k, credit[k]), now)
    BY <1>1, <1>4, <1>6, ConsumeLeast DEF LazyInv
  <2>. QED  BY <1>1, <1>2, <1>3, <1>4, <2>1
<1>. QED  BY <1>1, <1>3, <1>5, <1>6 DEF LazyInv

\* A call of a principal, and then of an agent.
LEMMA LazyPair ==
  ASSUME Inv, LazyInv, NEW p \in Principals, NEW a \in AgentIds,
         DeniesAgent(p, a) \/ Serves(p, a)
  PROVE  LazyInv'
<1>. DEFINE s == consume(states, p)
            c(k) == Left(states, p, k, credit[k])
<1>1. /\ p \in Keys /\ a \in Keys /\ a # p
      /\ now \in Nat /\ IsMap(states) /\ now' = now /\ setBacks' = setBacks
  BY LimitAssumption DEF Inv, Keys, DeniesAgent, Serves
<1>2. /\ evicted' = evicted \cup (EvictedEarly(states) \cup EvictedEarly(s))
      /\ Allows(states, p) /\ states' = consume(s, a)
      /\ credit' = [k \in Keys |-> IF k = p \/ (k = a /\ Allows(s, a))
                                   THEN Larger(0, credit[k] - Unit) ELSE credit[k]]
  BY <1>1 DEF DeniesAgent, Serves, Account
<1>3. IsMap(s) /\ \A k \in Keys : credit[k] \in 0..Burst /\ c(k) \in 0..Burst
  BY <1>1, ConsumeMap, LeftType DEF LazyInv
<1>4. \A k \in Keys : credit'[k] = Left(s, a, k, c(k))
  BY <1>1, <1>2 DEF Left
<1>. HIDE DEF s, c
<1>5. ASSUME NEW k \in Keys \ evicted' PROVE HasAtMost(states', k, credit'[k], now')
  <2>1. /\ k \in Keys \ EvictedEarly(states) /\ k \in Keys \ EvictedEarly(s)
        /\ HasAtMost(states, k, credit[k], now)
    BY <1>2, <1>5 DEF LazyInv
  <2>2. HasAtMost(s, k, c(k), now)
    BY <1>1, <1>3, <2>1, ConsumeMost DEF s, c
  <2>3. HasAtMost(consume(s, a), k, Left(s, a, k, c(k)), now)
    BY <1>1, <1>3, <2>1, <2>2, ConsumeMost
  <2>. QED  BY <1>1, <1>2, <1>4, <2>3
<1>6. ASSUME setBacks = 0, NEW k \in Keys PROVE HasAtLeast(states', k, credit'[k], now')
  <2>1. HasAtLeast(s, k, c(k), now)
    BY <1>1, <1>3, <1>6, ConsumeLeast DEF LazyInv, s, c
  <2>2. HasAtLeast(consume(s, a), k, Left(s, a, k, c(k)), now)
    BY <1>1, <1>3, <2>1, ConsumeLeast
  <2>. QED  BY <1>1, <1>2, <1>4, <2>2
<1>7. credit' \in [Keys -> 0..Burst]
  <2>1. \A k \in Keys : credit'[k] \in 0..Burst
    BY <1>3, <1>4, LeftType
  <2>. QED  BY <1>2, <2>1
<1>. QED  BY <1>1, <1>5, <1>6, <1>7 DEF LazyInv

LEMMA LazyTicks ==
  ASSUME Inv, LazyInv, Tick
  PROVE  LazyInv'
<1>1. /\ now \in Nat /\ now' = now + 1 /\ IsMap(states)
      /\ UNCHANGED <<states, setBacks, evicted>>
      /\ credit' = [k \in Keys |-> Smaller(Burst, credit[k] + Rate)]
  BY DEF Tick, Inv
<1>2. ASSUME NEW k \in Keys
      PROVE  /\ credit[k] \in 0..Burst /\ credit'[k] \in 0..Burst
             /\ credit'[k] = Smaller(Burst, credit[k] + Rate)
             /\ credit[k] = Burst => credit'[k] = Burst
  <2>1. credit[k] \in 0..Burst
    BY DEF LazyInv
  <2>. QED  BY <1>1, <2>1, LimitAssumption DEF Smaller
<1>3. ASSUME NEW n \in 1..Len(states)
      PROVE  /\ Held(states[n], now) \in 0..Burst /\ Held(states[n], now + 1) \in 0..Burst
             /\ Held(states[n], now + 1) <= Smaller(Burst, Held(states[n], now) + Rate)
             /\ states[n].lastRefillMs <= now =>
                  Held(states[n], now + 1) = Smaller(Burst, Held(states[n], now) + Rate)
             /\ states[n].lastRefillMs \in Nat
  <2>1. states[n] \in Entry
    BY <1>1, EntryOfMap
  <2>2. Held(states[n], now) \in 0..Burst
    BY <1>1, <2>1, RefillHeld
  <2>3. Held(states[n], now + 1) \in 0..Burst
    <3>1. PICK e \in Entry : e = states[n]
      BY <2>1
    <3>2. e.tokens \in 0..Burst /\ e.lastRefillMs \in Nat /\ Burst \in Nat /\ Rate \in Nat
      BY EntryParts
    <3>3. CASE now + 1 <= e.lastRefillMs
      BY <3>1, <3>2, <3>3 DEF Held
    <3>4. CASE ~ (now + 1 <= e.lastRefillMs)
      <4>1. PICK x \in Nat : x = ((now + 1) - e.lastRefillMs) * Rate
        BY <1>1, <3>2, <3>4, TimesNatural
      <4>2. Held(e, now + 1) = Smaller(Burst, e.tokens + x)
        BY <3>4, <4>1 DEF Held
      <4>. QED  BY <3>1, <3>2, <4>2 DEF Smaller
    <3>. QED  BY <3>3, <3>4
  <2>. QED  BY <1>1, <2>1, <2>2, <2>3, HeldTicks, EntryParts
<1>4. ASSUME NEW k \in Keys \ evicted PROVE HasAtMost(states, k, credit'[k], now + 1)
  <2>1. HasAtMost(states, k, credit[k], now)
    BY DEF LazyInv
  <2>2. ASSUME NEW n \in 1..Len(states), states[n].key = k
        PROVE  Held(states[n], now + 1) <= credit'[k]
    <3>1. Held(states[n], now) <= credit[k]
      BY <2>1, <2>2 DEF HasAtMost
    <3>. QED  BY <1>2, <1>3, <3>1, LimitAssumption DEF Smaller
  <2>. QED  BY <1>2, <2>1, <2>2 DEF HasAtMost
<1>5. ASSUME setBacks = 0, NEW k \in Keys PROVE HasAtLeast(states, k, credit'[k], now + 1)
  <2>1. HasAtLeast(states, k, credit[k], now)
    BY <1>5 DEF LazyInv
  <2>2. ASSUME NEW n \in 1..Len(states), states[n].key = k
        PROVE  states[n].lastRefillMs <= now + 1 /\ Held(states[n], now + 1) >= credit'[k]
    <3>1. states[n].lastRefillMs <= now /\ Held(states[n], now) >= credit[k]
      BY <2>1, <2>2 DEF HasAtLeast
    <3>. QED  BY <1>1, <1>2, <1>3, <3>1, LimitAssumption DEF Smaller
  <2>. QED  BY <2>2 DEF HasAtLeast
<1>6. credit' \in [Keys -> 0..Burst]
  BY <1>1, <1>2
<1>. QED  BY <1>1, <1>4, <1>5, <1>6 DEF LazyInv

LEMMA LazySetBack ==
  ASSUME Inv, LazyInv, SetBack
  PROVE  LazyInv'
<1>1. /\ now \in Nat /\ now' \in Nat /\ now' <= now /\ IsMap(states)
      /\ setBacks \in Nat /\ setBacks' = setBacks + 1
      /\ UNCHANGED <<states, credit, evicted>>
  BY DEF SetBack, Inv, LazyInv
<1>2. ASSUME NEW k \in Keys \ evicted PROVE HasAtMost(states, k, credit[k], now')
  <2>1. HasAtMost(states, k, credit[k], now) /\ credit[k] \in 0..Burst
    BY DEF LazyInv
  <2>2. ASSUME NEW n \in 1..Len(states), states[n].key = k
        PROVE  Held(states[n], now') <= credit[k]
    <3>1. PICK e \in Entry : e = states[n]
      BY <1>1, EntryOfMap
    <3>2. PICK t \in Nat : t = now'
      BY <1>1
    <3>3. Held(e, t) <= Held(e, now) /\ Held(e, now) \in 0..Burst /\ Held(e, now) <= credit[k]
      BY <1>1, <2>1, <2>2, <3>1, <3>2, HeldBack, RefillHeld DEF HasAtMost
    <3>4. Held(e, t) \in Int
      <4>1. e.tokens \in 0..Burst /\ e.lastRefillMs \in Nat /\ Burst \in Nat /\ Rate \in Nat
        BY EntryParts
      <4>. QED  BY <4>1 DEF Held, Smaller
    <3>. QED  BY <2>1, <3>1, <3>2, <3>3, <3>4, LimitAssumption
  <2>. QED  BY <2>1, <2>2 DEF HasAtMost
<1>3. setBacks' # 0 /\ setBacks' \in Nat
  BY <1>1
<1>. QED  BY <1>1, <1>2, <1>3 DEF LazyInv

LEMMA LazyInitially == Init => LazyInv
<1>1. Init => \A n \in 1..Len(states) : FALSE
  BY DEF Init
<1>. QED  BY <1>1, LimitAssumption DEF Init, LazyInv, HasAtMost, HasAtLeast

\* No key ever has more than a bucket refilled all the time would hold, the
\* clock set back or not, unless the full Map evicted it before its bucket was
\* full again; and none has less, unless the clock was set back: refilling on
\* demand, forgetting keys and starting afresh with a full bucket are not to be
\* told from it otherwise, for every rate, burst, idle time, size of the Map
\* and order of the callers (refill, pruneIfNeeded, consume,
\* checkMutationRateLimit).
THEOREM LazyHolds == Spec => []LazyIsEager
<1>1. Inv /\ LazyInv /\ [Next]_vars => LazyInv'
  <2>1. SUFFICES ASSUME Inv, LazyInv, [Next]_vars PROVE LazyInv'
    OBVIOUS
  <2>2. CASE UNCHANGED vars
    BY <2>1, <2>2 DEF vars, LazyInv
  <2>3. CASE Next
    BY <2>1, <2>3, LazyDenied, LazyPair, LazyTicks, LazySetBack DEF Next
  <2>. QED  BY <2>1, <2>2, <2>3
<1>2. Inv /\ LazyInv => LazyIsEager
  <2>1. SUFFICES ASSUME Inv, LazyInv, NEW k \in Keys
                 PROVE  /\ k \notin evicted => Tokens(k) <= credit[k]
                        /\ setBacks = 0 => Tokens(k) >= credit[k]
    BY DEF LazyIsEager, NoMore, NoLess
  <2>2. now \in Nat /\ IsMap(states) /\ credit[k] \in 0..Burst
    BY <2>1 DEF LazyInv, Inv
  <2>3. CASE k \in KeysOf(states)
    <3>1. Place(states, k) \in 1..Len(states) /\ states[Place(states, k)].key = k
      BY <2>3 DEF KeysOf, Place
    <3>2. PICK e \in Entry : e = states[Place(states, k)]
      BY <2>2, <3>1, EntryOfMap
    <3>3. Tokens(k) = Held(e, now)
      BY <2>2, <2>3, <3>2, RefillHeld DEF Tokens
    <3>4. k \notin evicted => Held(e, now) <= credit[k]
      BY <2>1, <3>1, <3>2 DEF LazyInv, HasAtMost
    <3>5. setBacks = 0 => Held(e, now) >= credit[k]
      BY <2>1, <3>1, <3>2 DEF LazyInv, HasAtLeast
    <3>. QED  BY <3>3, <3>4, <3>5
  <2>4. CASE k \notin KeysOf(states)
    <3>1. Tokens(k) = Burst
      BY <2>4 DEF Tokens
    <3>2. k \notin evicted => credit[k] = Burst
      BY <2>1, <2>4 DEF KeysOf, LazyInv, HasAtMost
    <3>. QED  BY <2>2, <3>1, <3>2, LimitAssumption
  <2>. QED  BY <2>3, <2>4
<1>. QED  BY <1>1, <1>2, InvInitially, InvSteps, LazyInitially, PTL DEF Spec

=============================================================================
