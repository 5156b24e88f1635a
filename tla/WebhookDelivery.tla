-------------------------- MODULE WebhookDelivery --------------------------
(***************************************************************************)
(* GitHubWebhookConnector (src/github-webhook.ts) and the table of seen    *)
(* deliveries (src/persistence/sqlite-store.ts), composed with the manager *)
(* it calls and the agents that work through it.                           *)
(*                                                                         *)
(* GitHub delivers its events at any time, in any order, and again         *)
(* whenever it likes. A delivery is answered from memory, or marked in the *)
(* table and then, after an await, acted on: its event is created as work, *)
(* resolves the work of its pull request, or is not actionable and         *)
(* ignored. Requests that are not authorized or cannot be parsed are       *)
(* answered before anything changes, and a delivery without an id, which   *)
(* GitHub does not send, is left out: they have no step.                   *)
(***************************************************************************)
EXTENDS FollowupRefinement

CONSTANTS
  Deliveries,    \* X-GitHub-Delivery ids
  EventOf,       \* the source event a delivery reports, or NoEvent: nothing actionable
  MemoryCap,     \* maxSeenDeliveries
  TableCap,      \* webhookDedupeMaxEntries
  NoDelivery, NoEvent

ASSUME DeliveryAssumption ==
  /\ EventOf \in [Deliveries -> SourceEvents \cup {NoEvent}]
  /\ NoEvent \notin SourceEvents /\ NoDelivery \notin Deliveries
  /\ MemoryCap \in Nat \ {0} /\ TableCap \in Nat \ {0}

VARIABLES
  seenDeliveries,    \* the connector's list, newest first
  webhookDeliveries, \* the table, newest first
  inHand, stage,     \* per hook: its delivery, and how far process() is with it
  fate               \* ghost: of each actionable delivery, whether it was answered ok,
                     \* "acked", or once marked and then cut off, "lost"

connector == <<seenDeliveries, inHand, stage>>
hookVars  == <<connector, webhookDeliveries, fate>>
allVars   == <<vars, hookVars>>

Actionable == {d \in Deliveries : EventOf[d] # NoEvent}

HookInit ==
  /\ Init
  /\ seenDeliveries = <<>> /\ webhookDeliveries = <<>>
  /\ inHand = [h \in Hooks |-> NoDelivery] /\ stage = [h \in Hooks |-> "idle"]
  /\ fate = [d \in Actionable |-> "none"]

-----------------------------------------------------------------------------
(* process                                                                 *)

addSeenDelivery(d) ==
  IF d \in ToSet(seenDeliveries) THEN seenDeliveries
  ELSE SubSeq(<<d>> \o seenDeliveries, 1, AtMost(MemoryCap, Len(seenDeliveries) + 1))

\* INSERT OR IGNORE, then the trim.
markWebhookDeliveryIfNew(d) ==
  IF d \in ToSet(webhookDeliveries) THEN webhookDeliveries
  ELSE SubSeq(<<d>> \o webhookDeliveries, 1, AtMost(TableCap, Len(webhookDeliveries) + 1))

Go(h, d, s) ==
  /\ inHand' = [inHand EXCEPT ![h] = d]
  /\ stage' = [stage EXCEPT ![h] = s]

\* The ghost after d was answered ok, and after the deliveries in ds were cut off.
Acknowledged(d) ==
  [x \in Actionable |-> IF x = d /\ fate[x] = "none" THEN "acked" ELSE fate[x]]

Lost(ds) == [x \in Actionable |-> IF x \in ds THEN "lost" ELSE fate[x]]

\* A delivery the connector remembers is answered at once, 200.
AnswerSeen(h, d) ==
  /\ Calm /\ stage[h] = "idle"
  /\ d \in ToSet(seenDeliveries)
  /\ fate' = Acknowledged(d)
  /\ UNCHANGED <<vars, connector, webhookDeliveries>>

\* A delivery of a comment is marked only while a number is left for its item
\* and those of the deliveries at hand: MaxItems is the bound on items.
SpareFor(d) ==
  EventOf[d] \in Comments /\ d \notin ToSet(webhookDeliveries)
    => made + Cardinality({h \in Hooks : stage[h] \in {"marked", "acting"}}) < MaxItems

\* Any other is looked for, and entered, in the table.
Mark(h, d) ==
  /\ Calm /\ stage[h] = "idle" /\ SpareFor(d)
  /\ d \notin ToSet(seenDeliveries)
  /\ webhookDeliveries' = markWebhookDeliveryIfNew(d)
  /\ Go(h, d, IF d \in ToSet(webhookDeliveries) THEN "duplicate" ELSE "marked")
  /\ UNCHANGED <<vars, seenDeliveries, fate>>

\* The statement fails, 500; or it succeeds and the count or the deletion of
\* the trim after it fails, 500 too, and the delivery stays marked.
MarkFails(h, d) ==
  /\ Calm /\ stage[h] = "idle"
  /\ d \notin ToSet(seenDeliveries)
  /\ failures < MaxFailures /\ failures' = failures + 1
  /\ \/ UNCHANGED <<webhookDeliveries, fate>>
     \/ /\ d \notin ToSet(webhookDeliveries)
        /\ webhookDeliveries' = <<d>> \o webhookDeliveries
        /\ fate' = Lost({d})
  /\ UNCHANGED <<memory, calls, db, dirty, world, ghosts, connector>>

AnswerDuplicate(h) ==
  /\ Calm /\ stage[h] = "duplicate"
  /\ seenDeliveries' = addSeenDelivery(inHand[h])
  /\ fate' = Acknowledged(inHand[h])
  /\ Go(h, NoDelivery, "idle")
  /\ UNCHANGED <<vars, webhookDeliveries>>

\* addSeenDelivery and processParsedEvent, up to the manager's lock.
Act(h) ==
  /\ stage[h] = "marked"
  /\ LET e == EventOf[inHand[h]]
     IN \/ e \in Comments /\ InvokeCreate(h, e)
        \/ e \in Pushes /\ InvokeResolve(h, e)
  /\ seenDeliveries' = addSeenDelivery(inHand[h])
  /\ Go(h, inHand[h], "acting")
  /\ UNCHANGED <<webhookDeliveries, fate>>

\* Nothing actionable: 202.
Ignore(h) ==
  /\ Calm /\ stage[h] = "marked" /\ inHand[h] \in Deliveries \ Actionable
  /\ seenDeliveries' = addSeenDelivery(inHand[h])
  /\ Go(h, NoDelivery, "idle")
  /\ UNCHANGED <<vars, webhookDeliveries, fate>>

ActedQuietly(h) ==   \* mutant: a failed transaction is logged, and the answer is 202
  /\ stage[h] = "acting" /\ Finish(h)
  /\ fate' = Acknowledged(inHand[h])
  /\ Go(h, NoDelivery, "idle")
  /\ UNCHANGED <<seenDeliveries, webhookDeliveries>>

\* The manager's answer: 202, or 500 when its transaction failed.
Acted(h) ==
  /\ stage[h] = "acting" /\ Finish(h)
  /\ fate' = IF answer[h] = "error" THEN Lost({inHand[h]}) ELSE Acknowledged(inHand[h])
  /\ Go(h, NoDelivery, "idle")
  /\ UNCHANGED <<seenDeliveries, webhookDeliveries>>

-----------------------------------------------------------------------------
HookCrash ==
  /\ Crash
  /\ seenDeliveries' = <<>>
  /\ inHand' = [h \in Hooks |-> NoDelivery] /\ stage' = [h \in Hooks |-> "idle"]
  /\ fate' = Lost({inHand[h] : h \in {k \in Hooks : stage[k] \in {"marked", "acting"}}})
  /\ UNCHANGED webhookDeliveries

HookStep(h) ==
  \/ AnswerDuplicate(h) \/ Act(h) \/ Ignore(h) \/ Acted(h)
  \/ Run(h) /\ UNCHANGED hookVars

\* Shutdown ends the HTTP server before it stops the scheduler.
Delivered(h) ==
  sweepTimer /\ \E d \in Deliveries : AnswerSeen(h, d) \/ Mark(h, d) \/ MarkFails(h, d)

HookNext ==
  \/ \E h \in Hooks : Delivered(h) \/ HookStep(h)
  \/ \E p \in Procs \ Hooks : Step(p) /\ UNCHANGED hookVars
  \/ \E w \in Workers : AgentRequest(w) /\ UNCHANGED hookVars
  \/ (StartSweep \/ stop \/ Tick \/ Restart) /\ UNCHANGED hookVars
  \/ HookCrash

HookSpec == HookInit /\ [][HookNext]_allVars

\* A call goes on, and process() after its await: microtasks drain.  (The
\* fairness is strong because any number of synchronous loops, during which no
\* other call moves, may come between.)  The interval fires again for as long
\* as it is set, a dead process is started again, and time passes.  Agents and
\* GitHub owe nothing.
HookFairness ==
  /\ \A h \in Hooks : SF_allVars(HookStep(h))
  /\ \A p \in Procs \ Hooks : SF_allVars(Step(p) /\ UNCHANGED hookVars)
  /\ SF_allVars(StartSweep /\ UNCHANGED hookVars)
  /\ WF_allVars(Restart /\ UNCHANGED hookVars)
  /\ SF_allVars(Tick /\ UNCHANGED hookVars)

HookFairSpec == HookSpec /\ HookFairness

-----------------------------------------------------------------------------
(* Properties                                                              *)

\* An actionable delivery that was answered ok has left its mark on the rows,
\* for good until more events came in than they remember: its event was created
\* as work or resolved work, or another hook is at it.  The code has one
\* exception, a failure or a crash that cut off a delivery of the event after it
\* was marked ("lost"): GitHub's next try is then answered as a duplicate, or as
\* done already, when memory knows the event and the rows do not.
AckedIsActed ==
  \A d \in Actionable :
    fate[d] = "acked" =>
      \/ KnownRow(EventOf[d]) \/ Overflow
      \/ \E x \in Actionable : EventOf[x] = EventOf[d] /\ fate[x] = "lost"
      \/ \E h \in Hooks : inHand[h] = d /\ stage[h] # "duplicate"

\* Every delivery is answered, and every other call returns.
EveryCallReturns ==
  /\ FollowupCallsReturn
  /\ \A h \in Hooks : stage[h] # "idle" ~> stage[h] = "idle"

=============================================================================
