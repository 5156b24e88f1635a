--------------------------- MODULE WebhookProofs ---------------------------
(***************************************************************************)
(* What an answered delivery leaves behind (WebhookDelivery), for every    *)
(* value of the constants.                                                 *)
(*                                                                         *)
(* Of the manager the proof needs FollowsInv (FollowupSafetyProofs): it    *)
(* holds here too, because but for MarkFails, which only counts a failure, *)
(* every step of the hooks is one of the manager's own or leaves it alone  *)
(* (ManagerStep).                                                          *)
(*                                                                         *)
(* AckedIsActed is not inductive: a delivery is answered from the list in  *)
(* memory or from the table, so whatever is in one of them must be         *)
(* accounted for (Accounts), and so must an event the manager answers as   *)
(* known: what memory knows is in the rows, unless the transaction that    *)
(* should have written it failed, and then the hook that had it fail is    *)
(* still at it, under the lock (UnsavedLost), or has told GitHub so.       *)
(***************************************************************************)
EXTENDS WebhookDelivery, FollowupSafetyProofs

USE DEF Procs

-----------------------------------------------------------------------------
(* The invariant                                                           *)

Stages == {"idle", "duplicate", "marked", "acting"}

HookTypes ==
  /\ seenDeliveries \in Seq(Deliveries) /\ webhookDeliveries \in Seq(Deliveries)
  /\ inHand \in [Hooks -> Deliveries \cup {NoDelivery}] /\ stage \in [Hooks -> Stages]
  /\ fate \in [Actionable -> {"none", "acked", "lost"}]
  /\ \A h \in Hooks : stage[h] = "idle" <=> inHand[h] = NoDelivery

\* A hook has a call of the manager's exactly while it acts, the one its
\* delivery asks for.
HookCalls ==
  \A h \in Hooks :
    /\ stage[h] # "acting" => pc[h] = "idle"
    /\ stage[h] = "acting" =>
         /\ inHand[h] \in Actionable /\ pc[h] \in InQueue
         /\ request[h].op \in {"create", "resolve"}
         /\ request[h].event = EventOf[inHand[h]]
         /\ request[h].pr = PrOf[EventOf[inHand[h]]]

InTable(e) == e \in ToSet(db.seen) \/ Overflow

LostOf(e) == \E x \in Actionable : EventOf[x] = e /\ fate[x] = "lost"

Stays(e) == InTable(e) \/ LostOf(e)

InHandOf(d) == \E h \in Hooks : inHand[h] = d /\ stage[h] # "duplicate"

Accounted(d) == Stays(EventOf[d]) \/ InHandOf(d)

\* What the manager answers, but for a failure, it has written.
Decided ==
  \A h \in Hooks :
    pc[h] = "resolving" \/ (pc[h] = "done" /\ answer[h] # "error") => Stays(request[h].event)

FailedAt(h, e) == pc[h] = "done" /\ answer[h] = "error" /\ request[h].event = e

UnsavedLost ==
  \A e \in unsaved \cap Comments : LostOf(e) \/ \E h \in Hooks : FailedAt(h, e)

Met(d) ==
  \/ d \in ToSet(seenDeliveries) \/ d \in ToSet(webhookDeliveries)
  \/ fate[d] = "acked" \/ \E h \in Hooks : inHand[h] = d

Accounts == \A d \in Actionable : Met(d) => Accounted(d)

HookInv == HookTypes /\ HookCalls /\ Decided /\ UnsavedLost /\ Accounts

LEMMA AccountsMean ==
  ASSUME HookInv
  PROVE  AckedIsActed
<1>1. SUFFICES ASSUME NEW d \in Actionable, fate[d] = "acked"
      PROVE  \/ KnownRow(EventOf[d]) \/ Overflow
             \/ \E x \in Actionable : EventOf[x] = EventOf[d] /\ fate[x] = "lost"
             \/ \E h \in Hooks : inHand[h] = d /\ stage[h] # "duplicate"
  BY DEF AckedIsActed
<1>2. Accounted(d)
  BY <1>1 DEF HookInv, Accounts, Met
<1>. QED  BY <1>2 DEF Accounted, Stays, InTable, LostOf, InHandOf, KnownRow

LEMMA ActionableIs ==
  /\ Actionable \subseteq Deliveries
  /\ \A d \in Actionable : EventOf[d] \in SourceEvents
  /\ \A d \in Deliveries : EventOf[d] \in SourceEvents => d \in Actionable
BY DeliveryAssumption DEF Actionable

-----------------------------------------------------------------------------
(* The lists of deliveries                                                 *)

\* A delivery put in front of a list that is then cut.
LEMMA FrontCut ==
  ASSUME NEW s \in Seq(Deliveries), NEW d \in Deliveries, NEW bound \in Nat
  PROVE  LET t == SubSeq(<<d>> \o s, 1, AtMost(bound, Len(s) + 1))
         IN t \in Seq(Deliveries) /\ ToSet(t) \subseteq ToSet(s) \cup {d}
<1>. DEFINE f == <<d>> \o s
            n == AtMost(bound, Len(s) + 1)
            t == SubSeq(f, 1, n)
<1>1. <<d>> \in Seq(Deliveries) /\ Len(<<d>>) = 1 /\ <<d>>[1] = d /\ Len(s) \in Nat
  BY LenProperties
<1>2. /\ f \in Seq(Deliveries) /\ Len(f) = 1 + Len(s)
      /\ \A i \in 1..(1 + Len(s)) : f[i] = IF i <= 1 THEN <<d>>[i] ELSE s[i - 1]
  BY <1>1, ConcatProperties
<1>3. n \in Nat /\ n <= 1 + Len(s)
  BY <1>1 DEF AtMost
<1>4. \A i \in 1..Len(f) : f[i] \in ToSet(s) \cup {d}
  <2>1. ToSet(s) = {s[i] : i \in 1..Len(s)}
    BY ToSetOf
  <2>2. ASSUME NEW i \in 1..Len(f), ~(i <= 1) PROVE i - 1 \in 1..Len(s) /\ f[i] = s[i - 1]
    BY <1>1, <1>2, <2>2
  <2>3. ASSUME NEW i \in 1..Len(f), i <= 1 PROVE f[i] = d
    <3>1. i = 1
      BY <1>1, <1>2, <2>3
    <3>. QED  BY <1>1, <1>2, <3>1
  <2>. QED  BY <2>1, <2>2, <2>3
<1>. HIDE DEF f, n
<1>5. /\ t \in Seq(Deliveries) /\ Len(t) = IF 1 <= n THEN n - 1 + 1 ELSE 0
      /\ \A i \in 1..(n - 1 + 1) : t[i] = f[1 + i - 1]
  <2>1. \A i \in 1..n : f[i] \in Deliveries
    BY <1>1, <1>2, <1>3, ElementOfSeq
  <2>. QED  BY <1>3, <2>1, SubSeqProperties
<1>6. \A i \in 1..Len(t) : t[i] \in ToSet(s) \cup {d}
  BY <1>1, <1>2, <1>3, <1>4, <1>5
<1>7. ToSet(t) = {t[i] : i \in 1..Len(t)}
  BY <1>5, ToSetOf
<1>. HIDE DEF t
<1>8. ToSet(t) \subseteq ToSet(s) \cup {d}
  BY <1>6, <1>7
<1>. QED  BY <1>5, <1>8 DEF t, f, n

LEMMA FrontOf ==
  ASSUME NEW s \in Seq(Deliveries), NEW d \in Deliveries
  PROVE  <<d>> \o s \in Seq(Deliveries) /\ ToSet(<<d>> \o s) \subseteq ToSet(s) \cup {d}
<1>1. Len(s) + 1 \in Nat /\ AtMost(Len(s) + 1, Len(s) + 1) = Len(s) + 1
  BY LenProperties DEF AtMost
<1>2. <<d>> \in Seq(Deliveries) /\ Len(<<d>>) = 1
  OBVIOUS
<1>3. <<d>> \o s \in Seq(Deliveries) /\ Len(<<d>> \o s) = Len(s) + 1
  BY <1>1, <1>2, ConcatProperties
<1>4. SubSeq(<<d>> \o s, 1, Len(s) + 1) = <<d>> \o s
  BY <1>3, SubSeqFull
<1>. QED  BY <1>1, <1>3, <1>4, FrontCut

LEMMA Remembered ==
  ASSUME HookTypes, NEW d \in Deliveries
  PROVE  /\ addSeenDelivery(d) \in Seq(Deliveries)
         /\ ToSet(addSeenDelivery(d)) \subseteq ToSet(seenDeliveries) \cup {d}
         /\ markWebhookDeliveryIfNew(d) \in Seq(Deliveries)
         /\ ToSet(markWebhookDeliveryIfNew(d)) \subseteq ToSet(webhookDeliveries) \cup {d}
<1>1. MemoryCap \in Nat /\ TableCap \in Nat
  BY DeliveryAssumption
<1>. QED  BY <1>1, FrontCut DEF HookTypes, addSeenDelivery, markWebhookDeliveryIfNew

-----------------------------------------------------------------------------
(* The manager's steps among the hooks                                     *)

FailureCounted ==
  failures' \in 0..MaxFailures /\ UNCHANGED <<memory, calls, db, dirty, world, ghosts>>

LEMMA ActCalls ==
  ASSUME TypeInv, NEW h \in Hooks, Act(h)
  PROVE  CallStep
<1>. DEFINE e == EventOf[inHand[h]]
<1>1. CASE e \in Comments /\ InvokeCreate(h, e)
  <2>. DEFINE r == [op |-> "create", pr |-> PrOf[e], event |-> e]
  <2>1. r \in CreateRequest
    BY <1>1, InputAssumption, PushOrComment DEF CreateRequest
  <2>2. r \in Request
    BY <2>1 DEF Request
  <2>3. Begin(h, r) /\ SpareItems
    BY <1>1 DEF InvokeCreate
  <2>. QED  BY <2>2, <2>3, BeginStep
<1>2. CASE e \in Pushes /\ InvokeResolve(h, e)
  <2>. DEFINE r == [op |-> "resolve", pr |-> PrOf[e], event |-> e, left |-> {}]
  <2>1. r \in ResolveRequest /\ r.op # "create"
    BY <1>2, InputAssumption, PushOrComment DEF ResolveRequest
  <2>2. r \in Request
    BY <2>1 DEF Request
  <2>3. Begin(h, r)
    BY <1>2 DEF InvokeResolve
  <2>. QED  BY <2>1, <2>2, <2>3, BeginStep
<1>. QED  BY <1>1, <1>2 DEF Act

\* To the manager, a step is one of its own, a call that begins, a failure
\* counted, or nothing.
LEMMA ManagerStep ==
  ASSUME TypeInv, [HookNext]_allVars
  PROVE  [Next]_vars \/ CallStep \/ FailureCounted
<1>1. CASE UNCHANGED allVars
  BY <1>1 DEF allVars
<1>2. ASSUME NEW h \in Hooks, Delivered(h) PROVE [Next]_vars \/ FailureCounted
  <2>1. PICK d \in Deliveries : AnswerSeen(h, d) \/ Mark(h, d) \/ MarkFails(h, d)
    BY <1>2 DEF Delivered
  <2>2. CASE MarkFails(h, d)
    BY <2>2, ConfigAssumption DEF MarkFails, FailureCounted, TypeInv, DataOK
  <2>. QED  BY <2>1, <2>2 DEF AnswerSeen, Mark
<1>3. ASSUME NEW h \in Hooks, HookStep(h) PROVE [Next]_vars \/ CallStep
  <2>1. CASE AnswerDuplicate(h) \/ Ignore(h)
    BY <2>1 DEF AnswerDuplicate, Ignore
  <2>2. CASE Acted(h) \/ Run(h)
    BY <2>2 DEF Acted, Next, Step
  <2>. QED  BY <1>3, <2>1, <2>2, ActCalls DEF HookStep
<1>4. CASE HookCrash
  BY <1>4 DEF HookCrash, Next
<1>. QED  BY <1>1, <1>2, <1>3, <1>4 DEF HookNext, Next

LEMMA CallStepFollows ==
  ASSUME FollowsInv, CallStep
  PROVE  FollowsInv'
<1>1. TypeInv' /\ Kept /\ up' = up
  BY CallStepInv DEF FollowsInv, SafeInv, CallStep, world
<1>2. MemoryInv' /\ RowsInv'
  BY <1>1, KeptSafe DEF FollowsInv, SafeInv
<1>3. FollowInv'
  BY <1>1 DEF FollowsInv, FollowInv, Kept, memory, disk
<1>4. SeenInv'
  BY <1>1, SeenSame DEF FollowsInv, SeenInv, NotedAll, Kept, memory, disk, ghosts
<1>. QED  BY <1>1, <1>2, <1>3, <1>4 DEF FollowsInv, SafeInv

LEMMA FailureFollows ==
  ASSUME FollowsInv, FailureCounted
  PROVE  FollowsInv'
<1>1. /\ UNCHANGED <<active, history, sourceEventToWorkItemId, seenSourceEventIds, db, dirty>>
      /\ UNCHANGED <<lockQueues, pc, request, answer, sweepTimer, up, crashes, tainted>>
      /\ UNCHANGED <<made, unsaved, noted, finished>> /\ failures' \in 0..MaxFailures
  BY DEF FailureCounted, memory, calls, world, ghosts
<1>2. DataOK' /\ CallsOK' /\ QueuesOK'
  BY <1>1 DEF FollowsInv, SafeInv, TypeInv, DataOK, CallsOK, QueuesOK
<1>3. RoomLeft' /\ LeftLive' /\ OneResolves' /\ NothingDown'
  BY <1>1 DEF FollowsInv, SafeInv, TypeInv, RoomLeft, Creating, LeftLive, OneResolves, NothingDown
<1>4. TypeInv'
  BY <1>1, <1>2, <1>3 DEF FollowsInv, SafeInv, TypeInv
<1>5. MapOK'
  BY <1>1 DEF FollowsInv, SafeInv, MemoryInv, MapOK
<1>6. MemoryInv' /\ RowsInv'
  BY <1>1, <1>5 DEF FollowsInv, SafeInv, MemoryInv, RowsInv, NumberedIn
<1>7. FollowInv'
  BY <1>1 DEF FollowsInv, FollowInv
<1>8. SeenInv'
  BY <1>1, SeenSame DEF FollowsInv, SeenInv, NotedAll
<1>. QED  BY <1>4, <1>6, <1>7, <1>8 DEF FollowsInv, SafeInv

LEMMA HookFollows ==
  ASSUME FollowsInv, [HookNext]_allVars
  PROVE  FollowsInv'
<1>1. [Next]_vars \/ CallStep \/ FailureCounted
  BY ManagerStep DEF FollowsInv, SafeInv
<1>2. CASE [Next]_vars
  BY <1>2, NextSafe, FollowNext, SeenNext DEF FollowsInv
<1>. QED  BY <1>1, <1>2, CallStepFollows, FailureFollows

-----------------------------------------------------------------------------
(* What stays in the table of events                                       *)

\* No step takes an event out of the table but to make room for another.
TableGrows ==
  \/ db'.seen = db.seen /\ noted \subseteq noted'
  \/ \E e \in SourceEvents : db'.seen = RowSeen(db.seen, e) /\ noted' = noted \cup {e}

LEMMA TableStep ==
  ASSUME FollowsInv, [HookNext]_allVars
  PROVE  TableGrows
<1>1. TypeInv /\ DataOK /\ db \in Rows /\ Fits(db)
  BY DEF FollowsInv, SafeInv, TypeInv, RowsInv, DataOK
<1>2. CASE Kept \/ FailureCounted \/ Crash \/ Restart
  BY <1>2 DEF Kept, FailureCounted, Crash, Restart, disk, ghosts, TableGrows
<1>3. CASE Tick
  BY <1>1, <1>3 DEF Tick, ghosts, TableGrows, Rows
<1>4. ASSUME NEW id \in Live(active), NEW c \in Followup, MovesTo(id, c) PROVE TableGrows
  BY <1>1, <1>4, MovesRows DEF MovesTo, ghosts, MovedRows, SameRows, TableGrows
<1>5. ASSUME NEW id \in WorkItems, NEW e \in Comments, Creates(id, e) PROVE TableGrows
  BY <1>1, <1>5, CreatesRows, PushOrComment DEF Creates, CreatedRows, SameRows, TableGrows
<1>6. ASSUME NEW id \in Live(active), NEW to \in Settled, Ends(id, to) PROVE TableGrows
  BY <1>1, <1>6, EndsRows DEF Ends, EndedRows, SameRows, TableGrows
<1>7. ASSUME NEW e \in Pushes, Notes(e) PROVE TableGrows
  BY <1>1, <1>7, NotesRows, PushOrComment DEF Notes, NotedRows, SameRows, TableGrows
<1>8. CASE [Next]_vars
  BY <1>1, <1>2, <1>3, <1>4, <1>5, <1>6, <1>7, <1>8, DataStep
<1>. QED  BY <1>1, <1>2, <1>8, ManagerStep DEF CallStep

\* An event that is added is then in the table, and the others stay in it,
\* unless there were more than it holds.
LEMMA TableKeeps ==
  ASSUME FollowsInv, FollowsInv', TableGrows
  PROVE  /\ \A e : InTable(e) => InTable(e)'
         /\ \A e \in SourceEvents :
              db'.seen = RowSeen(db.seen, e) /\ noted' = noted \cup {e} => InTable(e)'
<1>1. /\ DataOK /\ DataOK' /\ IsFiniteSet(noted) /\ IsFiniteSet(noted')
      /\ db.seen \in SeenList /\ seenSourceEventIds \in SeenList
      /\ ToSet(db.seen) \subseteq noted /\ ToSet(seenSourceEventIds) \subseteq noted
  BY RowsAsTheyAre DEF FollowsInv, SafeInv, TypeInv, SeenInv, NotedAll
<1>2. noted \subseteq noted'
  BY DEF TableGrows
<1>3. ~Overflow' => ~Overflow
  BY <1>1, <1>2, StillRoom
<1>4. ~Overflow' => Fitting(noted')
  <2>1. Cardinality(noted') \in Nat
    BY <1>1, FS_CardinalityType
  <2>. QED  BY <1>1, <2>1, CapIsNat DEF Overflow, Fitting, DataOK
<1>5. ASSUME NEW e \in SourceEvents, db'.seen = RowSeen(db.seen, e), noted' = noted \cup {e},
             ~Overflow'
      PROVE  ToSet(db'.seen) = ToSet(db.seen) \cup {e}
  <2>1. ToSet(db.seen) \cup {e} \subseteq noted' /\ ToSet(seenSourceEventIds) \subseteq noted'
    BY <1>1, <1>5
  <2>. QED  BY <1>1, <1>4, <1>5, <2>1, NotedSeen
<1>6. ASSUME NEW e, InTable(e), ~Overflow' PROVE e \in ToSet(db'.seen)
  <2>1. e \in ToSet(db.seen)
    BY <1>3, <1>6 DEF InTable
  <2>. QED  BY <1>5, <1>6, <2>1 DEF TableGrows
<1>. QED  BY <1>5, <1>6 DEF InTable

-----------------------------------------------------------------------------
(* Calls                                                                   *)

AnswersOnly(p) ==
  /\ \E s : pc' = [pc EXCEPT ![p] = s]
  /\ answer' = answer \/ \E a : answer' = [answer EXCEPT ![p] = a]

LEMMA BodyAnswers ==
  /\ \A p, a : NothingDone(p, a) => AnswersOnly(p)
  /\ \A p, ids, after, a : Transact(p, ids, after, a) => AnswersOnly(p)
BY DEF NothingDone, Transact, Proceed, Respond, AnswersOnly

Untouched(q) == pc'[q] = pc[q] /\ request'[q] = request[q] /\ answer'[q] = answer[q]

\* A body answers its own call, and only the webhook's leave an event unsaved.
LEMMA RunOthers ==
  ASSUME CallsOK, NEW p \in Procs, Run(p)
  PROVE  /\ \A q \in Procs \ {p} : Untouched(q)
         /\ p \notin Hooks => unsaved' = unsaved
<1>1. AnswersOnly(p)
  BY BodyAnswers DEF Run, RunSweep, RunNext, RunUpdate, RunCreate, RunResolve, ResolveNext,
     applyStatusTransition, MoveItem, EndItem, CreateItem
<1>2. request' = request \/ \E left : request' = [request EXCEPT ![p].left = left]
  BY DEF Run, RunSweep, RunNext, RunUpdate, RunCreate, RunResolve, ResolveNext,
     NothingDone, applyStatusTransition, MoveItem, EndItem, CreateItem
<1>3. \A q \in Procs \ {p} : Untouched(q)
  BY <1>1, <1>2 DEF CallsOK, AnswersOnly, Untouched
<1>4. ASSUME p \notin Hooks PROVE unsaved' = unsaved
  BY <1>4 DEF Run, RunSweep, RunNext, RunUpdate, NothingDone, applyStatusTransition,
     MoveItem, EndItem, ghosts
<1>. QED  BY <1>3, <1>4

\* What an enqueued or a finished call does to the others: nothing.
LEMMA QueueOthers ==
  ASSUME CallsOK, NEW p \in Procs, (\E r : Begin(p, r)) \/ LookOn(p) \/ Finish(p)
  PROVE  /\ \A q \in Procs \ {p} : Untouched(q)
         /\ unsaved' = unsaved
<1>1. CASE \E r : withIssueLock(p, r)
  BY <1>1 DEF withIssueLock, CallsOK, Untouched, ghosts
<1>2. CASE Finish(p)
  BY <1>2 DEF Finish, CallsOK, Untouched, ghosts
<1>. QED  BY <1>1, <1>2 DEF Begin, LookOn

\* The steps that are not the hooks' leave the hooks' calls alone.
LEMMA OtherSteps ==
  ASSUME TypeInv,
         \/ \E p \in Procs \ Hooks : Step(p)
         \/ \E w \in Workers : AgentRequest(w)
         \/ StartSweep \/ stop \/ Tick \/ Restart \/ UNCHANGED vars
  PROVE  (\A h \in Hooks : Untouched(h)) /\ unsaved' = unsaved
<1>1. CallsOK /\ Workers \cap Hooks = {} /\ Sweeper \notin Hooks
  BY SentinelAssumption DEF TypeInv
<1>2. ASSUME NEW p \in Procs \ Hooks, Step(p)
      PROVE  (\A h \in Hooks : Untouched(h)) /\ unsaved' = unsaved
  BY <1>1, <1>2, RunOthers, QueueOthers DEF Step
<1>3. ASSUME NEW w \in Workers, AgentRequest(w)
      PROVE  (\A h \in Hooks : Untouched(h)) /\ unsaved' = unsaved
  <2>1. \E r : Begin(w, r)
    BY <1>3 DEF AgentRequest, InvokeNext, InvokeUpdate
  <2>. QED  BY <1>1, <2>1, QueueOthers
<1>4. CASE StartSweep
  <2>1. \E r : Begin(Sweeper, r)
    BY <1>4 DEF StartSweep
  <2>. QED  BY <1>1, <2>1, QueueOthers
<1>5. CASE stop \/ Tick \/ Restart \/ UNCHANGED vars
  BY <1>5 DEF stop, Tick, Restart, vars, calls, ghosts, Untouched
<1>. QED  BY <1>2, <1>3, <1>4, <1>5

LEMMA CreateWrites ==
  ASSUME DataOK, NEW id \in WorkItems, NEW e \in Comments
  PROVE  LET after == RowNoted(RowPut(db, id, NewItem(e)), e)
         IN after \in Rows /\ after.seen = RowSeen(db.seen, e)
<1>. DEFINE put == RowPut(db, id, NewItem(e))
<1>1. NewItem(e) \in Followup /\ e \in SourceEvents
  BY NewItemType, PushOrComment
<1>2. put \in Rows /\ put.seen = db.seen
  BY <1>1, RowPutType, RowsAsTheyAre
<1>. HIDE DEF put
<1>3. RowNoted(put, e) \in Rows /\ RowNoted(put, e).seen = RowSeen(put.seen, e)
  BY <1>1, <1>2, RowNotedType, RowsAsTheyAre
<1>. QED  BY <1>2, <1>3 DEF put

\* What a transaction is for the call that runs it: written, or failed.
LEMMA TransactAnswers ==
  ASSUME CallsOK, NEW p \in Procs, NEW ids, NEW after \in Rows, NEW a,
         Transact(p, ids, after, a)
  PROVE  \/ db'.seen = after.seen /\ dirty' = dirty \ ids /\ failures' = failures
         \/ pc'[p] = "done" /\ answer'[p] = "error"
BY DEF Transact, Respond, CallsOK, Rows

\* What a step of a webhook's call does: the event of its request is known, or
\* put into the table, or its transaction fails; or its loop goes on.
WasKnown(h) == HasLock(h) /\ request[h].op = "create" /\ Kept
                 /\ hasSeenSourceEventId(request[h].event)

Written(h) ==
  /\ request[h].event \in SourceEvents /\ unsaved' = unsaved
  /\ db'.seen = RowSeen(db.seen, request[h].event)
  /\ noted' = noted \cup {request[h].event}

Failed(h) ==
  /\ pc'[h] = "done" /\ answer'[h] = "error"
  /\ unsaved' \subseteq unsaved \cup {request[h].event}

WentOn(h) == pc[h] = "resolving" /\ unsaved' = unsaved

LEMMA HookRun ==
  ASSUME TypeInv, NEW h \in Hooks, Run(h)
  PROVE  /\ pc[h] \in {"waiting", "resolving"} /\ pc'[h] \in {"resolving", "done"}
         /\ request'[h].op = request[h].op /\ request'[h].event = request[h].event
         /\ request'[h].pr = request[h].pr
         /\ WasKnown(h) \/ Written(h) \/ Failed(h) \/ WentOn(h)
<1>. DEFINE e == request[h].event
<1>1. /\ CallsOK /\ DataOK /\ h \in Procs
      /\ RunCreate(h) \/ RunResolve(h) \/ ResolveNext(h)
  BY SentinelAssumption DEF TypeInv, Run
<1>2. BodyStep(h)
  BY <1>1, RunCreateStep, RunResolveStep, ResolveNextStep
<1>3. pc[h] \in {"waiting", "resolving"} /\ pc'[h] \in {"resolving", "done"}
  BY <1>1, <1>2 DEF BodyStep, BodyCalls, HasLock, CallsOK
<1>4. /\ request'[h].op = request[h].op /\ request'[h].event = request[h].event
      /\ request'[h].pr = request[h].pr
  BY <1>1, <1>2 DEF BodyStep, BodyCalls, CallsOK, ResolveRequest
<1>5. CASE RunCreate(h)
  <2>1. HasLock(h) /\ request[h].op = "create"
    BY <1>5 DEF RunCreate
  <2>2. h \in Creating /\ request[h] \in CreateRequest
    BY <1>1, <2>1, WaitingRequest, RequestOp DEF Creating
  <2>3. e \in Comments /\ e \in SourceEvents /\ made + 1 \in WorkItems
    BY <2>2, RoomFor, PushOrComment DEF CreateRequest
  <2>4. CASE hasSeenSourceEventId(e)
    BY <1>3, <1>4, <1>5, <2>1, <2>4 DEF RunCreate, NothingDone, Kept, WasKnown
  <2>5. CASE ~hasSeenSourceEventId(e)
    <3>. DEFINE after == RowNoted(RowPut(db, made + 1, NewItem(e)), e)
    <3>1. CreateItem(h, made + 1, e)
      BY <1>5, <2>5 DEF RunCreate
    <3>2. after \in Rows /\ after.seen = RowSeen(db.seen, e)
      BY <1>1, <2>3, CreateWrites
    <3>3. /\ Transact(h, {made + 1}, after, "created") /\ noted' = noted \cup {e}
          /\ unsaved' = IF made + 1 \in dirty' THEN unsaved \cup {e} ELSE unsaved
      BY <3>1 DEF CreateItem
    <3>. HIDE DEF after
    <3>4. \/ db'.seen = after.seen /\ dirty' = dirty \ {made + 1}
          \/ pc'[h] = "done" /\ answer'[h] = "error"
      BY <1>1, <3>2, <3>3, TransactAnswers
    <3>. QED  BY <1>3, <1>4, <2>3, <3>2, <3>3, <3>4 DEF Written, Failed
  <2>. QED  BY <2>4, <2>5
<1>6. CASE RunResolve(h)
  <2>1. HasLock(h) /\ request[h].op = "resolve"
    BY <1>6 DEF RunResolve
  <2>2. request[h] \in ResolveRequest
    BY <1>1, <2>1, WaitingRequest, RequestOp
  <2>3. e \in SourceEvents
    BY <2>2, PushOrComment DEF ResolveRequest
  <2>. DEFINE after == RowNoted(db, e)
  <2>4. after \in Rows /\ after.seen = RowSeen(db.seen, e)
    BY <1>1, <2>3, RowNotedType, RowsAsTheyAre
  <2>5. /\ Transact(h, {}, after, "applied") /\ noted' = noted \cup {e}
        /\ unsaved' = IF failures' # failures THEN unsaved \cup {e} ELSE unsaved
    BY <1>6 DEF RunResolve
  <2>. HIDE DEF after
  <2>6. \/ db'.seen = after.seen /\ failures' = failures
        \/ pc'[h] = "done" /\ answer'[h] = "error"
    BY <1>1, <2>4, <2>5, TransactAnswers
  <2>. QED  BY <1>3, <1>4, <2>3, <2>4, <2>5, <2>6 DEF Written, Failed
<1>7. CASE ResolveNext(h)
  BY <1>3, <1>4, <1>7 DEF ResolveNext, EndItem, WentOn
<1>. QED  BY <1>1, <1>5, <1>6, <1>7

-----------------------------------------------------------------------------
(* Each step keeps the hooks' invariant                                    *)

FateKept == \A x \in Actionable : fate[x] = "lost" => fate'[x] = "lost"

LEMMA FateSteps ==
  ASSUME HookTypes
  PROVE  /\ fate' = fate => FateKept
         /\ \A d : fate' = Acknowledged(d) =>
              /\ FateKept /\ fate' \in [Actionable -> {"none", "acked", "lost"}]
              /\ \A x \in Actionable : fate'[x] = "acked" => x = d \/ fate[x] = "acked"
         /\ \A ds : fate' = Lost(ds) =>
              /\ FateKept /\ fate' \in [Actionable -> {"none", "acked", "lost"}]
              /\ \A x \in Actionable : fate'[x] = "acked" => fate[x] = "acked"
              /\ \A x \in Actionable \cap ds : fate'[x] = "lost"
BY DEF HookTypes, FateKept, Acknowledged, Lost

\* What has its mark on the rows keeps it.
StaysOn == \A e : Stays(e) => Stays(e)'

LEMMA StaysStep ==
  ASSUME FollowsInv, FollowsInv', [HookNext]_allVars, FateKept
  PROVE  StaysOn
<1>1. \A e : InTable(e) => InTable(e)'
  BY TableStep, TableKeeps
<1>2. \A e : LostOf(e) => LostOf(e)'
  BY DEF LostOf, FateKept
<1>. QED  BY <1>1, <1>2 DEF StaysOn, Stays

SameHook(h) == inHand'[h] = inHand[h] /\ stage'[h] = stage[h]

\* A step that leaves the hooks' calls alone.
LEMMA QuietStep ==
  ASSUME HookInv, HookTypes', StaysOn, FateKept, unsaved' = unsaved,
         \A h \in Hooks : Untouched(h),
         \A h \in Hooks : SameHook(h) \/ (stage[h] # "acting" /\ stage'[h] # "acting"),
         \A d \in Actionable : Met(d)' => Accounted(d)'
  PROVE  HookInv'
<1>1. HookCalls'
  BY DEF HookInv, HookCalls, Untouched, SameHook
<1>2. Decided'
  BY DEF HookInv, Decided, Untouched, StaysOn
<1>3. UnsavedLost'
  <2>1. \A e : LostOf(e) => LostOf(e)'
    BY DEF LostOf, FateKept
  <2>2. \A h \in Hooks, e \in Comments : FailedAt(h, e) => FailedAt(h, e)'
    BY DEF FailedAt, Untouched
  <2>. QED  BY <2>1, <2>2 DEF HookInv, UnsavedLost
<1>4. Accounts'
  BY DEF Accounts
<1>. QED  BY <1>1, <1>2, <1>3, <1>4 DEF HookInv

\* Who is accounted for stays so while the hook that has it keeps it.
LEMMA AccountedOn ==
  ASSUME StaysOn, NEW d, Accounted(d),
         \A h \in Hooks : inHand[h] = d /\ stage[h] # "duplicate" =>
           (inHand'[h] = d /\ stage'[h] # "duplicate") \/ Stays(EventOf[d])'
  PROVE  Accounted(d)'
BY DEF Accounted, StaysOn, InHandOf

LEMMA OthersInv ==
  ASSUME HookInv, StaysOn, UNCHANGED hookVars, unsaved' = unsaved,
         \A h \in Hooks : Untouched(h)
  PROVE  HookInv'
<1>1. UNCHANGED <<seenDeliveries, inHand, stage, webhookDeliveries, fate>>
  BY DEF hookVars, connector
<1>2. HookTypes' /\ FateKept
  BY <1>1 DEF HookInv, HookTypes, FateKept
<1>3. ASSUME NEW d \in Actionable, Met(d)' PROVE Accounted(d)'
  <2>1. Accounted(d)
    BY <1>1, <1>3 DEF Met, HookInv, Accounts
  <2>. QED  BY <1>1, <2>1, AccountedOn
<1>. QED  BY <1>1, <1>2, <1>3, QuietStep DEF SameHook

LEMMA AnswerSeenInv ==
  ASSUME HookInv, StaysOn, NEW h \in Hooks, NEW d \in Deliveries, AnswerSeen(h, d)
  PROVE  HookInv'
<1>1. /\ UNCHANGED <<vars, seenDeliveries, inHand, stage, webhookDeliveries>>
      /\ fate' = Acknowledged(d) /\ d \in ToSet(seenDeliveries)
  BY DEF AnswerSeen, connector
<1>2. /\ FateKept /\ fate' \in [Actionable -> {"none", "acked", "lost"}]
      /\ \A x \in Actionable : fate'[x] = "acked" => x = d \/ fate[x] = "acked"
  BY <1>1, FateSteps DEF HookInv
<1>3. HookTypes'
  BY <1>1, <1>2 DEF HookInv, HookTypes
<1>4. ASSUME NEW x \in Actionable, Met(x)' PROVE Accounted(x)'
  <2>1. Accounted(x)
    BY <1>1, <1>2, <1>4 DEF Met, HookInv, Accounts
  <2>. QED  BY <1>1, <2>1, AccountedOn
<1>. QED  BY <1>1, <1>2, <1>3, <1>4, QuietStep DEF SameHook, Untouched, vars, calls, ghosts

\* A hook takes another delivery, or none.
LEMMA GoIs ==
  ASSUME HookTypes, NEW h \in Hooks, NEW d \in Deliveries \cup {NoDelivery}, NEW s \in Stages,
         s = "idle" <=> d = NoDelivery, Go(h, d, s)
  PROVE  /\ inHand' \in [Hooks -> Deliveries \cup {NoDelivery}] /\ stage' \in [Hooks -> Stages]
         /\ \A k \in Hooks : stage'[k] = "idle" <=> inHand'[k] = NoDelivery
         /\ inHand'[h] = d /\ stage'[h] = s
         /\ \A k \in Hooks \ {h} : SameHook(k)
BY DEF Go, HookTypes, SameHook

LEMMA MarkInv ==
  ASSUME HookInv, StaysOn, NEW h \in Hooks, NEW d \in Deliveries, Mark(h, d)
  PROVE  HookInv'
<1>. DEFINE s == IF d \in ToSet(webhookDeliveries) THEN "duplicate" ELSE "marked"
<1>1. /\ UNCHANGED <<vars, seenDeliveries, fate>> /\ stage[h] = "idle"
      /\ webhookDeliveries' = markWebhookDeliveryIfNew(d) /\ Go(h, d, s)
  BY DEF Mark
<1>2. s \in Stages /\ s # "idle" /\ s # "acting" /\ d # NoDelivery
  BY DeliveryAssumption DEF Stages
<1>. HIDE DEF s
<1>3. /\ inHand' \in [Hooks -> Deliveries \cup {NoDelivery}] /\ stage' \in [Hooks -> Stages]
      /\ \A k \in Hooks : stage'[k] = "idle" <=> inHand'[k] = NoDelivery
      /\ inHand'[h] = d /\ stage'[h] = s
      /\ \A k \in Hooks \ {h} : SameHook(k)
  BY <1>1, <1>2, GoIs DEF HookInv
<1>4. /\ webhookDeliveries' \in Seq(Deliveries)
      /\ ToSet(webhookDeliveries') \subseteq ToSet(webhookDeliveries) \cup {d}
  BY <1>1, Remembered DEF HookInv
<1>5. HookTypes' /\ FateKept
  BY <1>1, <1>3, <1>4 DEF HookInv, HookTypes, FateKept
<1>6. ASSUME NEW x \in Actionable, Met(x)' PROVE Accounted(x)'
  <2>1. CASE Met(x)
    <3>1. Accounted(x)
      BY <2>1 DEF HookInv, Accounts
    <3>2. inHand[h] = NoDelivery /\ x # NoDelivery
      BY <1>1, DeliveryAssumption DEF HookInv, HookTypes, Actionable
    <3>. QED  BY <1>3, <3>1, <3>2, AccountedOn DEF SameHook
  <2>2. CASE ~Met(x)
    <3>1. x = d /\ d \notin ToSet(webhookDeliveries)
      BY <1>1, <1>3, <1>4, <1>6, <2>2 DEF Met, SameHook
    <3>2. stage'[h] = "marked"
      BY <1>3, <3>1 DEF s
    <3>. QED  BY <1>3, <3>1, <3>2 DEF Accounted, InHandOf
  <2>. QED  BY <2>1, <2>2
<1>. QED  BY <1>1, <1>2, <1>3, <1>5, <1>6, QuietStep DEF SameHook, Untouched, vars, calls, ghosts

LEMMA MarkFailsInv ==
  ASSUME HookInv, StaysOn, NEW h \in Hooks, NEW d \in Deliveries, MarkFails(h, d)
  PROVE  HookInv'
<1>1. /\ UNCHANGED <<pc, request, answer, unsaved, seenDeliveries, inHand, stage>>
      /\ \/ UNCHANGED <<webhookDeliveries, fate>>
         \/ webhookDeliveries' = <<d>> \o webhookDeliveries /\ fate' = Lost({d})
  BY DEF MarkFails, calls, ghosts, connector
<1>2. CASE UNCHANGED <<webhookDeliveries, fate>>
  BY <1>1, <1>2, OthersInv DEF hookVars, connector, Untouched
<1>3. CASE webhookDeliveries' = <<d>> \o webhookDeliveries /\ fate' = Lost({d})
  <2>1. /\ FateKept /\ fate' \in [Actionable -> {"none", "acked", "lost"}]
        /\ \A x \in Actionable : fate'[x] = "acked" => fate[x] = "acked"
        /\ \A x \in Actionable \cap {d} : fate'[x] = "lost"
    BY <1>3, FateSteps DEF HookInv
  <2>2. /\ webhookDeliveries' \in Seq(Deliveries)
        /\ ToSet(webhookDeliveries') \subseteq ToSet(webhookDeliveries) \cup {d}
    BY <1>3, FrontOf DEF HookInv, HookTypes
  <2>3. HookTypes'
    BY <1>1, <2>1, <2>2 DEF HookInv, HookTypes
  <2>4. ASSUME NEW x \in Actionable, Met(x)' PROVE Accounted(x)'
    <3>1. CASE x = d
      BY <2>1, <3>1 DEF Accounted, Stays, LostOf
    <3>2. CASE x # d
      <4>1. Accounted(x)
        BY <1>1, <2>1, <2>2, <2>4, <3>2 DEF Met, HookInv, Accounts
      <4>. QED  BY <1>1, <4>1, AccountedOn
    <3>. QED  BY <3>1, <3>2
  <2>. QED  BY <1>1, <2>1, <2>3, <2>4, QuietStep DEF SameHook, Untouched
<1>. QED  BY <1>1, <1>2, <1>3

LEMMA AnswerDuplicateInv ==
  ASSUME HookInv, StaysOn, NEW h \in Hooks, AnswerDuplicate(h)
  PROVE  HookInv'
<1>. DEFINE d == inHand[h]
<1>1. /\ UNCHANGED <<vars, webhookDeliveries>> /\ stage[h] = "duplicate"
      /\ seenDeliveries' = addSeenDelivery(d) /\ fate' = Acknowledged(d)
      /\ Go(h, NoDelivery, "idle")
  BY DEF AnswerDuplicate
<1>2. d \in Deliveries
  BY <1>1 DEF HookInv, HookTypes
<1>3. /\ inHand' \in [Hooks -> Deliveries \cup {NoDelivery}] /\ stage' \in [Hooks -> Stages]
      /\ \A k \in Hooks : stage'[k] = "idle" <=> inHand'[k] = NoDelivery
      /\ inHand'[h] = NoDelivery /\ stage'[h] = "idle"
      /\ \A k \in Hooks \ {h} : SameHook(k)
  BY <1>1, GoIs DEF HookInv, Stages
<1>4. /\ seenDeliveries' \in Seq(Deliveries)
      /\ ToSet(seenDeliveries') \subseteq ToSet(seenDeliveries) \cup {d}
  BY <1>1, <1>2, Remembered DEF HookInv
<1>5. /\ FateKept /\ fate' \in [Actionable -> {"none", "acked", "lost"}]
      /\ \A x \in Actionable : fate'[x] = "acked" => x = d \/ fate[x] = "acked"
  BY <1>1, FateSteps DEF HookInv
<1>6. HookTypes'
  BY <1>1, <1>3, <1>4, <1>5 DEF HookInv, HookTypes
<1>7. ASSUME NEW x \in Actionable, Met(x)' PROVE Accounted(x)'
  <2>1. Met(x)
    <3>1. x # NoDelivery
      BY DeliveryAssumption DEF Actionable
    <3>. QED  BY <1>1, <1>3, <1>4, <1>5, <1>7, <3>1 DEF Met, SameHook
  <2>2. Accounted(x)
    BY <2>1 DEF HookInv, Accounts
  <2>. QED  BY <1>1, <1>3, <2>2, AccountedOn DEF SameHook
<1>. QED  BY <1>1, <1>3, <1>5, <1>6, <1>7, QuietStep
     DEF SameHook, Untouched, vars, calls, ghosts

LEMMA IgnoreInv ==
  ASSUME HookInv, StaysOn, NEW h \in Hooks, Ignore(h)
  PROVE  HookInv'
<1>. DEFINE d == inHand[h]
<1>1. /\ UNCHANGED <<vars, webhookDeliveries, fate>> /\ stage[h] = "marked"
      /\ seenDeliveries' = addSeenDelivery(d) /\ Go(h, NoDelivery, "idle")
      /\ d \in Deliveries /\ d \notin Actionable
  BY DEF Ignore
<1>2. /\ inHand' \in [Hooks -> Deliveries \cup {NoDelivery}] /\ stage' \in [Hooks -> Stages]
      /\ \A k \in Hooks : stage'[k] = "idle" <=> inHand'[k] = NoDelivery
      /\ inHand'[h] = NoDelivery /\ stage'[h] = "idle"
      /\ \A k \in Hooks \ {h} : SameHook(k)
  BY <1>1, GoIs DEF HookInv, Stages
<1>3. /\ seenDeliveries' \in Seq(Deliveries)
      /\ ToSet(seenDeliveries') \subseteq ToSet(seenDeliveries) \cup {d}
  BY <1>1, Remembered DEF HookInv
<1>4. HookTypes' /\ FateKept
  BY <1>1, <1>2, <1>3 DEF HookInv, HookTypes, FateKept
<1>5. ASSUME NEW x \in Actionable, Met(x)' PROVE Accounted(x)'
  <2>1. x # d /\ x # NoDelivery
    BY <1>1, DeliveryAssumption DEF Actionable
  <2>2. Met(x)
    BY <1>1, <1>2, <1>3, <1>5, <2>1 DEF Met, SameHook
  <2>3. Accounted(x)
    BY <2>2 DEF HookInv, Accounts
  <2>. QED  BY <1>2, <2>1, <2>3, AccountedOn DEF SameHook
<1>. QED  BY <1>1, <1>2, <1>4, <1>5, QuietStep DEF SameHook, Untouched, vars, calls, ghosts

\* The call a hook begins is the one its delivery asks for.
LEMMA ActRequest ==
  ASSUME TypeInv, NEW h \in Hooks, Act(h)
  PROVE  /\ EventOf[inHand[h]] \in SourceEvents /\ pc'[h] = "waiting"
         /\ request'[h].op \in {"create", "resolve"}
         /\ request'[h].event = EventOf[inHand[h]]
         /\ request'[h].pr = PrOf[EventOf[inHand[h]]]
         /\ unsaved' = unsaved
         /\ \A q \in Procs \ {h} : Untouched(q)
<1>. DEFINE e == EventOf[inHand[h]]
<1>1. CallsOK /\ (e \in Comments \/ e \in Pushes)
  BY DEF TypeInv, Act
<1>2. \E r : /\ r.op \in {"create", "resolve"} /\ r.event = e /\ r.pr = PrOf[e]
             /\ Begin(h, r)
  <2>1. CASE e \in Comments /\ InvokeCreate(h, e)
    <3>. DEFINE r == [op |-> "create", pr |-> PrOf[e], event |-> e]
    <3>1. r.op = "create" /\ r.event = e /\ r.pr = PrOf[e]
      OBVIOUS
    <3>2. Begin(h, r)
      BY <2>1 DEF InvokeCreate
    <3>. HIDE DEF r
    <3>. QED  BY <3>1, <3>2
  <2>2. CASE e \in Pushes /\ InvokeResolve(h, e)
    <3>. DEFINE r == [op |-> "resolve", pr |-> PrOf[e], event |-> e, left |-> {}]
    <3>1. r.op = "resolve" /\ r.event = e /\ r.pr = PrOf[e]
      OBVIOUS
    <3>2. Begin(h, r)
      BY <2>2 DEF InvokeResolve
    <3>. HIDE DEF r
    <3>. QED  BY <3>1, <3>2
  <2>. QED  BY <2>1, <2>2 DEF Act
<1>3. \A q \in Procs \ {h} : Untouched(q)
  BY <1>1, <1>2, QueueOthers
<1>4. PICK r : /\ r.op \in {"create", "resolve"} /\ r.event = e /\ r.pr = PrOf[e]
               /\ Begin(h, r)
  BY <1>2
<1>5. pc'[h] = "waiting" /\ request'[h] = r /\ unsaved' = unsaved
  BY <1>1, <1>4 DEF Begin, withIssueLock, ghosts, CallsOK
<1>. QED  BY <1>1, <1>3, <1>4, <1>5, PushOrComment

LEMMA ActInv ==
  ASSUME TypeInv, HookInv, StaysOn, NEW h \in Hooks, Act(h)
  PROVE  HookInv'
<1>. DEFINE d == inHand[h]
<1>1. /\ UNCHANGED <<webhookDeliveries, fate>> /\ stage[h] = "marked"
      /\ seenDeliveries' = addSeenDelivery(d) /\ Go(h, d, "acting")
  BY DEF Act
<1>2. /\ EventOf[d] \in SourceEvents /\ pc'[h] = "waiting"
      /\ request'[h].op \in {"create", "resolve"}
      /\ request'[h].event = EventOf[d] /\ request'[h].pr = PrOf[EventOf[d]]
      /\ unsaved' = unsaved /\ \A q \in Procs \ {h} : Untouched(q)
  BY ActRequest
<1>3. d \in Deliveries /\ d \in Actionable /\ pc[h] = "idle"
  BY <1>1, <1>2, ActionableIs DEF HookInv, HookTypes, HookCalls
<1>4. /\ inHand' \in [Hooks -> Deliveries \cup {NoDelivery}] /\ stage' \in [Hooks -> Stages]
      /\ \A k \in Hooks : stage'[k] = "idle" <=> inHand'[k] = NoDelivery
      /\ inHand'[h] = d /\ stage'[h] = "acting"
      /\ \A k \in Hooks \ {h} : SameHook(k)
  <2>1. d # NoDelivery /\ "acting" \in Stages
    BY <1>3, DeliveryAssumption DEF Stages
  <2>. HIDE DEF d
  <2>. QED  BY <1>1, <1>3, <2>1, GoIs DEF HookInv
<1>5. /\ seenDeliveries' \in Seq(Deliveries)
      /\ ToSet(seenDeliveries') \subseteq ToSet(seenDeliveries) \cup {d}
  BY <1>1, <1>3, Remembered DEF HookInv
<1>6. HookTypes'
  BY <1>1, <1>4, <1>5 DEF HookInv, HookTypes
<1>7. HookCalls'
  BY <1>2, <1>3, <1>4 DEF HookInv, HookCalls, SameHook, Untouched, InQueue
<1>8. Decided'
  BY <1>2 DEF HookInv, Decided, StaysOn, Untouched
<1>9. UnsavedLost'
  <2>1. \A k \in Hooks : \A e : FailedAt(k, e) => FailedAt(k, e)'
    BY <1>2, <1>3 DEF FailedAt, Untouched
  <2>2. \A e : LostOf(e) => LostOf(e)'
    BY <1>1 DEF LostOf
  <2>. QED  BY <1>2, <2>1, <2>2 DEF HookInv, UnsavedLost
<1>10. ASSUME NEW x \in Actionable, Met(x)' PROVE Accounted(x)'
  <2>1. Met(x)
    BY <1>1, <1>4, <1>5, <1>10 DEF Met, SameHook
  <2>2. Accounted(x)
    BY <2>1 DEF HookInv, Accounts
  <2>. QED  BY <1>4, <2>2, AccountedOn DEF SameHook
<1>. QED  BY <1>6, <1>7, <1>8, <1>9, <1>10 DEF HookInv, Accounts

\* The answer of the manager: an error is told GitHub, and anything else has
\* its mark on the rows.
LEMMA ActedInv ==
  ASSUME TypeInv, HookInv, StaysOn, NEW h \in Hooks, Acted(h), NEW d, d = inHand[h]
  PROVE  HookInv'
<1>1. /\ UNCHANGED <<seenDeliveries, webhookDeliveries>> /\ stage[h] = "acting"
      /\ Finish(h) /\ Go(h, NoDelivery, "idle")
      /\ fate' = IF answer[h] = "error" THEN Lost({d}) ELSE Acknowledged(d)
  BY DEF Acted
<1>2. /\ d \in Actionable /\ request[h].op \in {"create", "resolve"} /\ pc[h] = "done"
      /\ request[h].event = EventOf[d]
  BY <1>1 DEF HookInv, HookCalls, Finish
<1>3. pc'[h] = "idle" /\ unsaved' = unsaved /\ \A q \in Procs \ {h} : Untouched(q)
  <2>1. CallsOK /\ ~GoesOn(h)
    BY <1>2 DEF TypeInv, GoesOn
  <2>. QED  BY <1>1, <2>1, QueueOthers DEF Finish, CallsOK, ghosts
<1>4. /\ inHand' \in [Hooks -> Deliveries \cup {NoDelivery}] /\ stage' \in [Hooks -> Stages]
      /\ \A k \in Hooks : stage'[k] = "idle" <=> inHand'[k] = NoDelivery
      /\ inHand'[h] = NoDelivery /\ stage'[h] = "idle"
      /\ \A k \in Hooks \ {h} : SameHook(k)
  BY <1>1, GoIs DEF HookInv, Stages
<1>5. /\ FateKept /\ fate' \in [Actionable -> {"none", "acked", "lost"}]
      /\ \A x \in Actionable : fate'[x] = "acked" => x = d \/ fate[x] = "acked"
      /\ answer[h] = "error" => fate'[d] = "lost"
  BY <1>1, <1>2, FateSteps DEF HookInv
<1>6. HookTypes'
  BY <1>1, <1>4, <1>5 DEF HookInv, HookTypes
<1>7. HookCalls'
  BY <1>3, <1>4 DEF HookInv, HookCalls, SameHook, Untouched
<1>8. Decided'
  BY <1>3 DEF HookInv, Decided, StaysOn, Untouched
<1>9. UnsavedLost'
  <2>1. \A k \in Hooks \ {h} : \A e : FailedAt(k, e) => FailedAt(k, e)'
    BY <1>3 DEF FailedAt, Untouched
  <2>2. \A e : LostOf(e) => LostOf(e)'
    BY <1>5 DEF LostOf, FateKept
  <2>3. \A e : FailedAt(h, e) => LostOf(e)'
    BY <1>2, <1>5 DEF FailedAt, LostOf
  <2>. QED  BY <1>3, <2>1, <2>2, <2>3 DEF HookInv, UnsavedLost
<1>10. Stays(EventOf[d])'
  <2>1. CASE answer[h] = "error"
    BY <1>2, <1>5, <2>1 DEF Stays, LostOf
  <2>2. CASE answer[h] # "error"
    BY <1>2, <2>2 DEF HookInv, Decided, StaysOn
  <2>. QED  BY <2>1, <2>2
<1>11. ASSUME NEW x \in Actionable, Met(x)' PROVE Accounted(x)'
  <2>1. x # NoDelivery
    BY DeliveryAssumption DEF Actionable
  <2>2. x = d \/ Met(x)
    BY <1>1, <1>4, <1>5, <1>11, <2>1 DEF Met, SameHook
  <2>3. CASE x = d
    BY <1>10, <2>3 DEF Accounted
  <2>4. CASE x # d
    <3>1. Accounted(x)
      BY <2>2, <2>4 DEF HookInv, Accounts
    <3>. QED  BY <1>4, <2>4, <3>1, AccountedOn DEF SameHook
  <2>. QED  BY <2>3, <2>4
<1>. QED  BY <1>6, <1>7, <1>8, <1>9, <1>11 DEF HookInv, Accounts

\* An event the manager answers as known is on the rows, or a delivery of it
\* was lost: no other hook can be about to say so while this one has the lock.
LEMMA KnownStays ==
  ASSUME FollowsInv, HookInv, NEW h \in Hooks, WasKnown(h)
  PROVE  Stays(request[h].event)
<1>. DEFINE e == request[h].event
<1>1. TypeInv /\ CallsOK /\ QueuesOK /\ SeenInv /\ up
  BY DEF FollowsInv, SafeInv, TypeInv, WasKnown, HasLock, Calm
<1>2. /\ pc[h] = "waiting" /\ request[h] \in CreateRequest
      /\ Head(lockQueues[request[h].pr]) = h /\ hasSeenSourceEventId(e)
  BY <1>1, WaitingRequest, RequestOp DEF WasKnown, HasLock
<1>3. e \in Comments /\ e \in SourceEvents
  BY <1>2, PushOrComment DEF CreateRequest
<1>4. e \in noted
  BY <1>1, <1>2, <1>3 DEF SeenInv, NotedAll, hasSeenSourceEventId
<1>5. CASE e \notin unsaved
  BY <1>1, <1>4, <1>5 DEF SeenInv, Stays, InTable
<1>6. CASE e \in unsaved
  <2>1. LostOf(e) \/ \E k \in Hooks : FailedAt(k, e)
    BY <1>3, <1>6 DEF HookInv, UnsavedLost
  <2>2. ASSUME NEW k \in Hooks, FailedAt(k, e) PROVE FALSE
    <3>1. /\ pc[k] = "done" /\ request[k].event = e
          /\ stage[k] = "acting" /\ request[k].pr = PrOf[e]
      BY <2>2 DEF FailedAt, HookInv, HookCalls
    <3>2. request[h].pr = PrOf[e]
      BY <1>2 DEF HookInv, HookCalls
    <3>3. /\ lockQueues[PrOf[e]] \in Seq(Procs) /\ lockQueues[PrOf[e]][1] = k
          /\ \E n \in 1..Len(lockQueues[PrOf[e]]) : TRUE
      <4>1. PrOf[e] \in Prs
        BY <1>3, InputAssumption
      <4>. QED  BY <1>1, <3>1, <4>1 DEF CallsOK, QueuesOK, InQueue
    <3>4. lockQueues[PrOf[e]] # <<>>
      BY <3>3, EmptySeq
    <3>5. h = k
      BY <1>2, <3>2, <3>3, <3>4
    <3>. QED  BY <1>2, <3>1, <3>5
  <2>. QED  BY <2>1, <2>2 DEF Stays
<1>. QED  BY <1>5, <1>6

LEMMA RunInv ==
  ASSUME FollowsInv, FollowsInv', TableGrows, HookInv, StaysOn, NEW h \in Hooks, Run(h),
         UNCHANGED hookVars, NEW e, e = request[h].event
  PROVE  HookInv'
<1>1. UNCHANGED <<seenDeliveries, inHand, stage, webhookDeliveries, fate>>
  BY DEF hookVars, connector
<1>2. /\ pc[h] \in {"waiting", "resolving"} /\ pc'[h] \in {"resolving", "done"}
      /\ request'[h].op = request[h].op /\ request'[h].event = e
      /\ request'[h].pr = request[h].pr
      /\ WasKnown(h) \/ Written(h) \/ Failed(h) \/ WentOn(h)
  BY HookRun DEF FollowsInv, SafeInv
<1>3. \A q \in Procs \ {h} : Untouched(q)
  BY RunOthers DEF FollowsInv, SafeInv, TypeInv
<1>4. HookTypes'
  BY <1>1 DEF HookInv, HookTypes
<1>5. HookCalls'
  BY <1>1, <1>2, <1>3 DEF HookInv, HookCalls, Untouched, InQueue
<1>6. pc'[h] = "resolving" \/ answer'[h] # "error" => Stays(e)'
  <2>1. CASE WasKnown(h) \/ WentOn(h)
    <3>1. Stays(e)
      BY <2>1, KnownStays DEF WentOn, HookInv, Decided
    <3>. QED  BY <1>2, <3>1 DEF StaysOn
  <2>2. CASE Written(h)
    <3>1. InTable(e)'
      BY <2>2, TableKeeps DEF Written
    <3>. QED  BY <1>2, <3>1 DEF Stays
  <2>3. CASE Failed(h)
    BY <2>3 DEF Failed
  <2>. QED  BY <1>2, <2>1, <2>2, <2>3
<1>7. Decided'
  BY <1>2, <1>3, <1>6 DEF HookInv, Decided, StaysOn, Untouched
<1>8. UnsavedLost'
  <2>1. \A k \in Hooks : \A x : FailedAt(k, x) => FailedAt(k, x)'
    BY <1>2, <1>3 DEF FailedAt, Untouched
  <2>2. \A x : LostOf(x) => LostOf(x)'
    BY <1>1 DEF LostOf
  <2>3. unsaved' \subseteq unsaved \/ (Failed(h) /\ unsaved' \subseteq unsaved \cup {e})
    BY <1>2 DEF WasKnown, Kept, ghosts, Written, Failed, WentOn
  <2>4. Failed(h) => FailedAt(h, e)'
    BY <1>2 DEF Failed, FailedAt
  <2>. QED  BY <2>1, <2>2, <2>3, <2>4 DEF HookInv, UnsavedLost
<1>9. ASSUME NEW x \in Actionable, Met(x)' PROVE Accounted(x)'
  <2>1. Accounted(x)
    BY <1>1, <1>9 DEF Met, HookInv, Accounts
  <2>. QED  BY <1>1, <2>1, AccountedOn
<1>. QED  BY <1>4, <1>5, <1>7, <1>8, <1>9 DEF HookInv, Accounts

\* The process dies: what was at hand, and marked, is lost.
LEMMA HookCrashInv ==
  ASSUME HookInv, StaysOn, HookCrash
  PROVE  HookInv'
<1>. DEFINE cut == {inHand[h] : h \in {k \in Hooks : stage[k] \in {"marked", "acting"}}}
<1>1. /\ seenDeliveries' = <<>> /\ webhookDeliveries' = webhookDeliveries
      /\ inHand' = [h \in Hooks |-> NoDelivery] /\ stage' = [h \in Hooks |-> "idle"]
      /\ fate' = Lost(cut) /\ unsaved' = unsaved
      /\ \A h \in Hooks : pc'[h] = "idle"
  BY DEF HookCrash, Crash, ghosts
<1>. HIDE DEF cut
<1>2. /\ FateKept /\ fate' \in [Actionable -> {"none", "acked", "lost"}]
      /\ \A x \in Actionable : fate'[x] = "acked" => fate[x] = "acked"
      /\ \A x \in Actionable \cap cut : fate'[x] = "lost"
  BY <1>1, FateSteps DEF HookInv
<1>3. HookTypes' /\ HookCalls' /\ Decided'
  <2>1. <<>> \in Seq(Deliveries)
    BY EmptySeq
  <2>. QED  BY <1>1, <1>2, <2>1 DEF HookInv, HookTypes, HookCalls, Decided, Stages
<1>4. ASSUME NEW h \in Hooks, stage[h] \in {"marked", "acting"},
             NEW d \in Actionable, d = inHand[h]
      PROVE  LostOf(EventOf[d])'
  <2>1. d \in Actionable \cap cut
    BY <1>4 DEF cut
  <2>. QED  BY <1>2, <2>1 DEF LostOf
<1>5. UnsavedLost'
  <2>1. ASSUME NEW e \in unsaved \cap Comments PROVE LostOf(e)'
    <3>1. CASE LostOf(e)
      BY <1>2, <3>1 DEF LostOf, FateKept
    <3>2. CASE \E h \in Hooks : FailedAt(h, e)
      <4>1. PICK h \in Hooks : FailedAt(h, e)
        BY <3>2
      <4>2. stage[h] = "acting" /\ inHand[h] \in Actionable /\ EventOf[inHand[h]] = e
        BY <4>1 DEF FailedAt, HookInv, HookCalls
      <4>. QED  BY <1>4, <4>2
    <3>. QED  BY <3>1, <3>2 DEF HookInv, UnsavedLost
  <2>. QED  BY <1>1, <2>1 DEF UnsavedLost
<1>6. ASSUME NEW d \in Actionable, Met(d)' PROVE Accounted(d)'
  <2>1. Met(d)
    <3>1. ToSet(<<>>) = {} /\ d # NoDelivery
      BY EmptySeen, DeliveryAssumption DEF Actionable
    <3>. QED  BY <1>1, <1>2, <1>6, <3>1 DEF Met
  <2>2. Accounted(d)
    BY <2>1 DEF HookInv, Accounts
  <2>3. CASE Stays(EventOf[d])
    BY <2>3 DEF StaysOn, Accounted
  <2>4. CASE InHandOf(d)
    <3>1. PICK h \in Hooks : inHand[h] = d /\ stage[h] # "duplicate"
      BY <2>4 DEF InHandOf
    <3>2. stage[h] \in {"marked", "acting"}
      <4>1. d # NoDelivery
        BY DeliveryAssumption DEF Actionable
      <4>. QED  BY <3>1, <4>1 DEF HookInv, HookTypes, Stages
    <3>. QED  BY <1>4, <3>1, <3>2 DEF Accounted, Stays
  <2>. QED  BY <2>2, <2>3, <2>4 DEF Accounted
<1>. QED  BY <1>3, <1>5, <1>6 DEF HookInv, Accounts

-----------------------------------------------------------------------------
(* Theorems                                                                *)

LEMMA FateStep ==
  ASSUME HookTypes, [HookNext]_allVars
  PROVE  FateKept
<1>1. fate' = fate \/ (\E d : fate' = Acknowledged(d)) \/ (\E ds : fate' = Lost(ds))
  BY DEF HookNext, Delivered, HookStep, HookCrash, AnswerSeen, Mark, MarkFails,
     AnswerDuplicate, Act, Ignore, Acted, allVars, hookVars
<1>. QED  BY <1>1, FateSteps

LEMMA HookInvNext ==
  ASSUME FollowsInv, HookInv, [HookNext]_allVars
  PROVE  HookInv'
<1>1. FollowsInv' /\ TableGrows /\ FateKept /\ TypeInv
  BY HookFollows, TableStep, FateStep DEF HookInv, FollowsInv, SafeInv
<1>2. StaysOn
  BY <1>1, StaysStep
<1>3. ASSUME NEW h \in Hooks, Delivered(h) PROVE HookInv'
  <2>1. PICK d \in Deliveries : AnswerSeen(h, d) \/ Mark(h, d) \/ MarkFails(h, d)
    BY <1>3 DEF Delivered
  <2>. QED  BY <1>2, <2>1, AnswerSeenInv, MarkInv, MarkFailsInv
<1>4. ASSUME NEW h \in Hooks, HookStep(h) PROVE HookInv'
  <2>1. CASE Acted(h)
    BY <1>1, <1>2, <2>1, ActedInv
  <2>2. CASE Run(h) /\ UNCHANGED hookVars
    BY <1>1, <1>2, <2>2, RunInv
  <2>. QED  BY <1>1, <1>2, <1>4, <2>1, <2>2, AnswerDuplicateInv, ActInv, IgnoreInv DEF HookStep
<1>5. CASE /\ UNCHANGED hookVars
           /\ \/ \E p \in Procs \ Hooks : Step(p)
              \/ \E w \in Workers : AgentRequest(w)
              \/ StartSweep \/ stop \/ Tick \/ Restart \/ UNCHANGED vars
  BY <1>1, <1>2, <1>5, OtherSteps, OthersInv
<1>6. CASE HookCrash
  BY <1>2, <1>6, HookCrashInv
<1>. QED  BY <1>3, <1>4, <1>5, <1>6 DEF HookNext, allVars

LEMMA HookInitInv ==
  ASSUME HookInit
  PROVE  FollowsInv /\ HookInv
<1>1. FollowsInv
  BY InitFollowsAll DEF HookInit
<1>2. /\ seenDeliveries = <<>> /\ webhookDeliveries = <<>> /\ unsaved = {}
      /\ inHand = [h \in Hooks |-> NoDelivery] /\ stage = [h \in Hooks |-> "idle"]
      /\ fate = [d \in Actionable |-> "none"] /\ \A h \in Hooks : pc[h] = "idle"
  BY DEF HookInit, Init
<1>3. <<>> \in Seq(Deliveries) /\ ToSet(<<>>) = {}
  BY EmptySeq, EmptySeen
<1>4. HookTypes /\ HookCalls /\ Decided /\ UnsavedLost
  BY <1>2, <1>3 DEF HookTypes, HookCalls, Decided, UnsavedLost, Stages
<1>5. \A d \in Actionable : ~Met(d)
  BY <1>2, <1>3, DeliveryAssumption DEF Met, Actionable
<1>. QED  BY <1>1, <1>4, <1>5 DEF HookInv, Accounts

\* The hooks' deliveries, the manager's calls and the rows, in step; and with
\* them all that is proved of the manager alone (FollowsInv).
THEOREM WebhookSafety == HookSpec => [](FollowsInv /\ HookInv)
<1>1. HookInit => FollowsInv /\ HookInv
  BY HookInitInv
<1>2. (FollowsInv /\ HookInv) /\ [HookNext]_allVars => (FollowsInv /\ HookInv)'
  BY HookFollows, HookInvNext
<1>. QED  BY <1>1, <1>2, PTL DEF HookSpec

\* An actionable delivery that was answered ok, from memory, from the table or
\* by the manager, has left its mark on the rows, for good until more events
\* came in than they remember, or another hook is at it; but for a failure or a
\* crash that cut off a delivery of the same event after it was marked
\* (process, markWebhookDeliveryIfNew, createFromWebhook, resolveBySynchronize).
THEOREM AnsweredIsActed == HookSpec => []AckedIsActed
<1>1. HookInv => AckedIsActed
  BY AccountsMean
<1>. QED  BY <1>1, WebhookSafety, PTL

-----------------------------------------------------------------------------
(* What the manager promises, with the connector in front of it            *)

\* But for the manager's own steps, nothing changes that its promises are about.
LEMMA HookStill ==
  ASSUME TypeInv, [HookNext]_allVars
  PROVE  \/ [Next]_vars
         \/ UNCHANGED <<active, db, dirty, up, unsaved, noted, finished>>
<1>1. [Next]_vars \/ CallStep \/ FailureCounted
  BY ManagerStep
<1>2. CallStep => UNCHANGED <<active, db, dirty, up, unsaved, noted, finished>>
  BY DEF CallStep, Kept, memory, disk, world, ghosts
<1>3. FailureCounted => UNCHANGED <<active, db, dirty, up, unsaved, noted, finished>>
  BY DEF FailureCounted, memory, world, ghosts
<1>. QED  BY <1>1, <1>2, <1>3

LEMMA HookFinished ==
  ASSUME FollowsInv, FollowsInv', FinishedInv, [HookNext]_allVars
  PROVE  FinishedInv'
<1>1. CASE [Next]_vars
  BY <1>1, FinishedNext
<1>2. CASE UNCHANGED <<active, db, dirty, up, unsaved, noted, finished>>
  BY <1>2 DEF FinishedInv, Overflow, NoneOf
<1>. QED  BY <1>1, <1>2, HookStill DEF FollowsInv, SafeInv

\* Hooks join and leave the queues of locks as the manager's own calls do.
LEMMA HookLocks ==
  ASSUME TypeInv, FollowupLocksHaveOwners, [HookNext]_allVars
  PROVE  FollowupLocksHaveOwners'
<1>0. CallsOK /\ QueuesOK
  BY DEF TypeInv
<1>1. CASE UNCHANGED calls
  BY <1>0, <1>1, LocksKept DEF calls
<1>2. CASE [Next]_vars
  BY <1>2, LocksNext
<1>3. ASSUME NEW h \in Hooks, Delivered(h)
      PROVE  UNCHANGED calls
  BY <1>3 DEF Delivered, AnswerSeen, Mark, MarkFails, vars
<1>4. ASSUME NEW h \in Hooks, HookStep(h)
      PROVE  FollowupLocksHaveOwners'
  <2>1. CASE Act(h)
    <3>1. \E r : Begin(h, r)
      BY <2>1 DEF Act, InvokeCreate, InvokeResolve
    <3>. QED  BY <1>0, <3>1, LocksJoined DEF Begin
  <2>2. CASE Acted(h)
    BY <1>0, <2>2, LocksLeft DEF Acted
  <2>3. CASE Run(h)
    BY <1>2, <2>3 DEF Next, Step
  <2>4. CASE AnswerDuplicate(h) \/ Ignore(h)
    BY <1>2, <2>4 DEF AnswerDuplicate, Ignore
  <2>. QED  BY <1>4, <2>1, <2>2, <2>3, <2>4 DEF HookStep
<1>5. CASE HookCrash
  BY <1>2, <1>5 DEF HookCrash, Next
<1>6. CASE UNCHANGED allVars
  BY <1>2, <1>6 DEF allVars
<1>. QED  BY <1>1, <1>2, <1>3, <1>4, <1>5, <1>6 DEF HookNext, Next

\* The manager's promises on types, deduplication, rows, hand-overs, ends and
\* locks hold of the program in which GitHub's deliveries, repeated and cut off by
\* failures at will, are what makes work (process, processParsedEvent).
THEOREM FollowupsUnderWebhook ==
  HookSpec => /\ [](FollowupTypeOK /\ DedupeConsistent /\ RowsFollow)
              /\ [](FinishedStaysFinished /\ FollowupLocksHaveOwners)
              /\ HandedOverWhenStale
<1>1. HookInit => FollowsInv /\ FinishedInv
  BY InitFollowsAll DEF HookInit
<1>2. FollowsInv /\ FinishedInv /\ [HookNext]_allVars => (FollowsInv /\ FinishedInv)'
  BY HookFollows, HookFinished
<1>3. FollowsInv => FollowupTypeOK /\ DedupeConsistent /\ RowsFollow
  BY TypesMean, DedupeMeans, RowsMean DEF FollowsInv, SafeInv
<1>4. FollowsInv /\ [HookNext]_allVars =>
        [\A id \in Live(active) :
           /\ active'[id] # NoWork /\ active[id].agent # NoAgent
           /\ active'[id].agent # active[id].agent
           => active[id].status = "stale"]_vars
  <2>1. SUFFICES ASSUME FollowsInv, [HookNext]_allVars, NEW id \in Live(active),
                        active'[id] # NoWork, active[id].agent # NoAgent,
                        active'[id].agent # active[id].agent
                 PROVE  active[id].status = "stale"
    OBVIOUS
  <2>2. active' # active
    BY <2>1
  <2>3. Next
    BY <2>1, <2>2, HookStill DEF FollowsInv, SafeInv, vars, memory
  <2>. QED  BY <2>1, <2>3, HandOver DEF FollowsInv
<1>5. HookInit => FollowupLocksHaveOwners
  BY DEF HookInit, Init, FollowupLocksHaveOwners
<1>6. FollowsInv /\ FollowupLocksHaveOwners /\ [HookNext]_allVars => FollowupLocksHaveOwners'
  BY HookLocks DEF FollowsInv, SafeInv
<1>. QED
  BY <1>1, <1>2, <1>3, <1>4, <1>5, <1>6, FinishedMeans, PTL DEF HookSpec, HandedOverWhenStale

\* And so does the queue: a comment is work at most once, however often GitHub
\* delivers it and whatever the connector forgot of it in between.
THEOREM QueueUnderWebhook ==
  ASSUME MaxFailures = 0
  PROVE  HookSpec /\ []~Overflow => ImplementsQueue
<1>1. HookInit => FollowsInv /\ FinishedInv /\ CleanInv /\ Queue!Init
  BY InitFollowsAll, InitClean DEF HookInit
<1>2. FollowsInv /\ FinishedInv /\ [HookNext]_allVars => (FollowsInv /\ FinishedInv)'
  BY HookFollows, HookFinished
<1>3. FollowsInv /\ FinishedInv /\ CleanInv /\ ~Overflow /\ [HookNext]_allVars => CleanInv'
  <2>1. SUFFICES ASSUME FollowsInv, CleanInv, ~Overflow, [HookNext]_allVars PROVE CleanInv'
    OBVIOUS
  <2>2. CASE [Next]_vars
    BY <2>1, <2>2, CleanNext
  <2>3. CASE UNCHANGED <<active, db, dirty, up, unsaved, noted, finished>>
    BY <2>1, <2>3 DEF CleanInv
  <2>. QED  BY <2>1, <2>2, <2>3, HookStill DEF FollowsInv, SafeInv
<1>4. FollowsInv /\ CleanInv /\ ~Overflow => AllSeen
  BY StateIs DEF AllSeen
<1>5. FollowsInv /\ CleanInv /\ ~Overflow /\ AllSeen /\ AllSeen' /\ [HookNext]_allVars
        => [Queue!Next]_(Queue!vars)
  <2>1. SUFFICES ASSUME FollowsInv, CleanInv, ~Overflow, AllSeen, AllSeen', [HookNext]_allVars
                 PROVE  [Queue!Next]_(Queue!vars)
    OBVIOUS
  <2>2. CASE [Next]_vars
    BY <2>1, <2>2, StepMaps
  <2>3. CASE UNCHANGED <<active, db, dirty, up, unsaved, noted, finished>>
    <3>1. RowsStill
      BY <2>3 DEF RowsStill
    <3>. QED  BY <2>1, <3>1, StillMaps
  <2>. QED  BY <2>1, <2>2, <2>3, HookStill DEF FollowsInv, SafeInv
<1>. QED  BY <1>1, <1>2, <1>3, <1>4, <1>5, PTL
          DEF HookSpec, ImplementsQueue, Queue!Spec

=============================================================================
