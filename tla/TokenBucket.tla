---------------------------- MODULE TokenBucket ----------------------------
(***************************************************************************)
(* TokenBucketLimiter (src/rate-limit.ts) as the mutation routes of        *)
(* src/http-server.ts use it: one limiter, asked first for the caller's    *)
(* principal and then for the agent it names.                              *)
(*                                                                         *)
(* Buckets are refilled lazily, when they are asked, from the time since   *)
(* they last were; they are kept in a Map of bounded size, here a sequence *)
(* in the order of insertion, and a full Map loses an entry before each    *)
(* lookup.  The clock is the system's: it may be set back.                 *)
(*                                                                         *)
(* A token is Unit units, a unit of time refills Rate units and a second   *)
(* is Second units of time, so that fractions of tokens are exact where    *)
(* the code has floating point; the two calls of a request read one clock. *)
(* A limiter configured with a rate or a burst of zero, which denies all   *)
(* but a first burst, is left out.                                         *)
(***************************************************************************)
EXTENDS Integers, Sequences, SequencesExt

CONSTANTS
  Principals, AgentIds,   \* who is limited: keys of one Map
  Unit, Rate, Burst,      \* ratePerMinute and burst, in units
  Second,
  MaxKeys, IdleTtl,       \* the Map's size; when an entry counts as idle
  MaxTime, MaxSetBacks,   \* bound the clock and how often it is set back
  NoPromise

Keys == Principals \cup AgentIds

ASSUME LimitAssumption ==
  /\ Unit \in Nat \ {0} /\ Rate \in Nat \ {0} /\ Second \in Nat \ {0}
  /\ Burst \in Nat /\ Burst >= Unit
  /\ MaxKeys \in Nat \ {0} /\ IdleTtl \in Nat /\ MaxTime \in Nat /\ MaxSetBacks \in Nat
  /\ NoPromise \notin Int /\ Principals \cap AgentIds = {}

VARIABLES
  states,     \* the Map's entries: key, tokens, lastRefillMs, lastSeenMs
  now, setBacks,
  credit,     \* ghost: each key's bucket as it would be, refilled as time passes
  evicted,    \* ghost: keys the full Map lost before their buckets were full again
  promise     \* ghost: the time a key was told to come back at, since it was last served

vars == <<states, now, setBacks, credit, evicted, promise>>

Smaller(a, b) == IF a < b THEN a ELSE b

Larger(a, b) == IF a < b THEN b ELSE a

CeilDiv(a, b) == (a + b - 1) \div b

KeysOf(s) == {s[n].key : n \in 1..Len(s)}

Init ==
  /\ states = <<>> /\ now = 0 /\ setBacks = 0
  /\ credit = [k \in Keys |-> Burst]
  /\ evicted = {} /\ promise = [k \in Keys |-> NoPromise]

-----------------------------------------------------------------------------
(* getOrCreateState                                                        *)

Idle(e) == now - e.lastSeenMs > IdleTtl

\* The entry a full Map loses: the first that is idle, else the one served
\* longest ago, the first of several.  (The Map never has more than MaxKeys
\* entries, so that one is enough: BoundedStates.)
Victim(s) ==
  LET idle == {n \in 1..Len(s) : Idle(s[n])}
      oldest == {n \in 1..Len(s) : \A o \in 1..Len(s) : s[n].lastSeenMs <= s[o].lastSeenMs}
      FirstOf(ns) == CHOOSE n \in ns : \A o \in ns : n <= o
  IN IF idle # {} THEN FirstOf(idle) ELSE FirstOf(oldest)

pruneIdleOnly(s) ==   \* mutant: no fallback when no entry is idle
  IF Len(s) < MaxKeys \/ ~Idle(s[Victim(s)]) THEN s ELSE RemoveAt(s, Victim(s))

pruneIfNeeded(s) == IF Len(s) < MaxKeys THEN s ELSE RemoveAt(s, Victim(s))

Created(s, k) ==
  IF k \in KeysOf(s) THEN s
  ELSE Append(s, [key |-> k, tokens |-> Burst, lastRefillMs |-> now, lastSeenMs |-> now])

\* The Map is pruned before the key is looked up: its own entry may be the one
\* that goes.
getOrCreateState(s, k) == Created(pruneIfNeeded(s), k)

-----------------------------------------------------------------------------
(* consume                                                                 *)

refillWhenServed(e) ==   \* mutant: lastRefillMs is not moved on
  [e EXCEPT !.tokens = Smaller(Burst, @ + (now - e.lastRefillMs) * Rate)]

\* The clock set back refills nothing, but moves lastRefillMs back with it.
refill(e) ==
  IF now <= e.lastRefillMs THEN [e EXCEPT !.lastRefillMs = now]
  ELSE [e EXCEPT !.tokens = Smaller(Burst, @ + (now - e.lastRefillMs) * Rate),
                 !.lastRefillMs = now]

Place(s, k) == CHOOSE n \in 1..Len(s) : s[n].key = k

Bucket(s, k) == refill(getOrCreateState(s, k)[Place(getOrCreateState(s, k), k)])

Allows(s, k) == Bucket(s, k).tokens >= Unit

\* The Map after consume.  A denial is not a use: lastSeenMs stays.
consume(s, k) ==
  LET b == Bucket(s, k)
  IN [getOrCreateState(s, k) EXCEPT
        ![Place(getOrCreateState(s, k), k)] =
          IF Allows(s, k) THEN [b EXCEPT !.tokens = @ - Unit, !.lastSeenMs = now] ELSE b]

retryAfterRounded(s, k) ==   \* mutant: the last fraction of a second is cut off
  LET needed == CeilDiv(Unit - Bucket(s, k).tokens, Rate)
  IN Second * (IF needed < Second THEN 1 ELSE needed \div Second)

\* retryAfterSeconds of a denial, in units of time: at least a second, and
\* rounded up to whole ones.
retryAfter(s, k) ==
  Second * CeilDiv(CeilDiv(Unit - Bucket(s, k).tokens, Rate), Second)

-----------------------------------------------------------------------------
(* checkMutationRateLimit                                                  *)

\* What a lookup evicts that was not full again.
EvictedEarly(s) ==
  IF Len(s) >= MaxKeys /\ refill(s[Victim(s)]).tokens < Burst THEN {s[Victim(s)].key} ELSE {}

\* The ghosts' account of a call that served the keys in paid.
Account(paid, early) ==
  /\ evicted' = evicted \cup early
  /\ credit' = [k \in Keys |-> IF k \in paid THEN Larger(0, credit[k] - Unit) ELSE credit[k]]

\* The principal is over its limit: the agent's bucket is not asked.
DeniesPrincipal(p) ==
  /\ ~Allows(states, p)
  /\ states' = consume(states, p)
  /\ promise' = [promise EXCEPT ![p] = now + retryAfter(states, p)]
  /\ Account({}, EvictedEarly(states))
  /\ UNCHANGED <<now, setBacks>>

\* The agent is over its limit: its principal has paid all the same.
DeniesAgent(p, a) ==
  LET s == consume(states, p)
  IN /\ Allows(states, p) /\ ~Allows(s, a)
     /\ states' = consume(s, a)
     /\ promise' = [promise EXCEPT ![p] = NoPromise, ![a] = now + retryAfter(s, a)]
     /\ Account({p}, EvictedEarly(states) \cup EvictedEarly(s))
     /\ UNCHANGED <<now, setBacks>>

Serves(p, a) ==
  LET s == consume(states, p)
  IN /\ Allows(states, p) /\ Allows(s, a)
     /\ states' = consume(s, a)
     /\ promise' = [promise EXCEPT ![p] = NoPromise, ![a] = NoPromise]
     /\ Account({p, a}, EvictedEarly(states) \cup EvictedEarly(s))
     /\ UNCHANGED <<now, setBacks>>

-----------------------------------------------------------------------------
(* The clock                                                               *)

Tick ==
  /\ now < MaxTime /\ now' = now + 1
  /\ credit' = [k \in Keys |-> Smaller(Burst, credit[k] + Rate)]
  /\ UNCHANGED <<states, setBacks, evicted, promise>>

\* What was told before no longer counts.
SetBack ==
  /\ setBacks < MaxSetBacks /\ setBacks' = setBacks + 1
  /\ now' \in 0..(now - 1)
  /\ promise' = [k \in Keys |-> NoPromise]
  /\ UNCHANGED <<states, credit, evicted>>

Next ==
  \/ \E p \in Principals : DeniesPrincipal(p)
  \/ \E p \in Principals, a \in AgentIds : DeniesAgent(p, a) \/ Serves(p, a)
  \/ Tick \/ SetBack

Spec == Init /\ [][Next]_vars

-----------------------------------------------------------------------------
(* Properties                                                              *)

\* The Map keeps its bound and one entry per key, and no bucket is overfull or
\* in debt, clock and evictions whatever.
BoundedStates ==
  /\ Len(states) <= MaxKeys
  /\ \A m, n \in 1..Len(states) : states[m].key = states[n].key => m = n
  /\ \A n \in 1..Len(states) : states[n].tokens \in 0..Burst

\* Lazy refilling, forgetting keys and creating full buckets is what a bucket
\* refilled all the time would do.  No key gets more than its burst and its
\* rate, the clock set back or not, unless the full Map evicted it before its
\* bucket was full again; no key gets less, evicted or not, unless the clock
\* was set back.
Tokens(k) ==
  IF k \in KeysOf(states) THEN refill(states[Place(states, k)]).tokens ELSE Burst

NoMore == \A k \in Keys \ evicted : Tokens(k) <= credit[k]

NoLess == setBacks = 0 => \A k \in Keys : Tokens(k) >= credit[k]

LazyIsEager == NoMore /\ NoLess

\* Retry-After is honest: a key that waited as long as it was told, and was
\* not served meanwhile, is not denied again, evictions whatever.
HonestRetryAfter ==
  [][\A k \in Keys :
       promise'[k] # promise[k] /\ promise'[k] # NoPromise /\ promise[k] # NoPromise
         => now < promise[k]]_vars

=============================================================================
