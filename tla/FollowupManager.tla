-------------------------- MODULE FollowupManager --------------------------
(***************************************************************************)
(* FollowupManager (src/followup-manager.ts) over the SQLite rows it       *)
(* writes through (src/persistence/sqlite-store.ts), and the scheduler     *)
(* that sweeps it (src/followup-sweep-scheduler.ts).                       *)
(*                                                                         *)
(* A review comment on a pull request becomes a work item, once; agents    *)
(* take the next item and move it along; a push to the pull request ends   *)
(* its items; a sweep flags the idle ones stale, and they are offered      *)
(* again.  Calls are split as in ClaimManager, where the code awaits:      *)
(*                                                                         *)
(*   Invoke...   the lookup and the place in the pull request's queue;     *)
(*   Run...      the body, under the lock;                                 *)
(*   Finish      the lock's finally clause, and the answer;                *)
(*   LookOn      the next candidate of a call that tries several.          *)
(*                                                                         *)
(* resolveBySynchronize has a transaction for each item it ends, and the   *)
(* process may die between two of them: each is a step (ResolveNext).      *)
(*                                                                         *)
(* Work items are numbered as they are created, so that a number stands    *)
(* for work_item_id and created_at.  A source event that is a comment has  *)
(* its pull request and its scorePriority given by constants.              *)
(***************************************************************************)
EXTENDS Integers, Sequences, FiniteSets, SequencesExt

CONSTANTS
  Agents,
  Prs,             \* pull requests: the lock keys repo#pr_number
  Comments,        \* source_event_ids of reviews and comments
  Pushes,          \* source_event_ids of synchronize deliveries
  PrOf,            \* the pull request of each source event
  Score,           \* scorePriority of each comment: 0 is most urgent
  Scopes,          \* what a request for work may be restricted to: sets of Prs
  AgentUpdates,    \* the statuses agents ask for
  Workers, Hooks,  \* concurrent calls of agents and of the webhook: bounds them
  Sweeper,         \* the scheduler's sweep: inFlight lets one run at a time
  MaxItems,        \* bounds the work items ever created
  StaleMinutes, MaxEntries, SeenCap,   \* the configuration
  MaxFailures,     \* bounds the transactions that fail
  MaxCrashes,      \* bounds the deaths of the process
  NoWork, NoItem, NoAgent, NoRequest

SourceEvents == Comments \cup Pushes
WorkItems    == 1..MaxItems
Procs        == Workers \cup Hooks \cup {Sweeper}

Open    == {"queued", "claimed", "in_progress", "stale"}
Settled == {"done", "dismissed"}
Status  == Open \cup Settled

ASSUME ConfigAssumption ==
  /\ StaleMinutes \in Nat /\ MaxEntries \in Nat /\ SeenCap \in Nat \ {0}
  /\ MaxItems \in Nat /\ MaxFailures \in Nat /\ MaxCrashes \in Nat

ASSUME InputAssumption ==
  /\ Comments \cap Pushes = {}
  /\ PrOf \in [SourceEvents -> Prs] /\ Score \in [Comments -> Nat]
  /\ Scopes \subseteq SUBSET Prs /\ AgentUpdates \subseteq Status
  /\ IsFiniteSet(Hooks)

Followup == [event : Comments, agent : Agents \cup {NoAgent}, status : Open,
             idle : 0..StaleMinutes]

\* A work item that ended, as the history keeps it.
Entry == [item : WorkItems, event : Comments, agent : Agents \cup {NoAgent},
          status : Settled]

\* A record of a snapshot that a loop has still to visit.
Visit == [item : WorkItems, event : Comments]

CreateRequest  == [op : {"create"}, pr : Prs, event : Comments]
ResolveRequest == [op : {"resolve"}, pr : Prs, event : Pushes, left : SUBSET Visit]
NextRequest    == [op : {"next"}, pr : Prs, agent : Agents, item : WorkItems,
                   left : SUBSET Visit]
UpdateRequest  == [op : {"update"}, pr : Prs, agent : Agents, item : WorkItems, to : Status]
SweepRequest   == [op : {"sweep"}, pr : Prs, item : WorkItems, left : SUBSET Visit]
Request == CreateRequest \cup ResolveRequest \cup NextRequest
             \cup UpdateRequest \cup SweepRequest

PcValues == {"idle", "looking", "waiting", "resolving", "done"}

Answer == {"none", "created", "known", "claimed", "skipped", "applied", "same",
           "rejected", "error"}

ASSUME SentinelAssumption ==
  /\ NoWork \notin Followup /\ NoItem \notin WorkItems /\ NoAgent \notin Agents
  /\ NoRequest \notin Request
  /\ Sweeper \notin Workers \cup Hooks /\ Workers \cap Hooks = {}

VARIABLES
  active, history, sourceEventToWorkItemId, seenSourceEventIds,  \* the manager's
  lockQueues,       \* issueLocks: per pull request, who holds or awaits its lock
  pc, request, answer,   \* per proc, where its call is and what it will answer
  sweepTimer,       \* the scheduler's interval is set: stop() was not called
  db,               \* followup_active, followup_history, followup_seen_source_events
  up, failures, crashes,
  made,             \* work items created so far
  dirty, tainted,   \* ghosts: items whose last write failed; a restart lost one
  unsaved,          \* ghost: events whose first transaction once failed
  noted,            \* ghost: source events ever put into the list of seen ones
  finished          \* ghost: comments whose work item's end was committed

memory == <<active, history, sourceEventToWorkItemId, seenSourceEventIds>>
calls  == <<lockQueues, pc, request, answer, sweepTimer>>
disk   == <<db, failures, dirty>>
world  == <<up, crashes, tainted>>
ghosts == <<made, unsaved, noted, finished>>
vars   == <<memory, calls, disk, world, ghosts>>

-----------------------------------------------------------------------------
(* Pure parts                                                              *)

AtMost(bound, n) == IF n < bound THEN n ELSE bound

Live(items) == {id \in WorkItems : items[id] # NoWork}

FOLLOWUP_TRANSITIONS ==
  [queued      |-> {"claimed", "in_progress", "done", "dismissed", "stale"},
   claimed     |-> {"in_progress", "done", "dismissed", "stale"},
   in_progress |-> {"done", "dismissed", "stale"},
   stale       |-> {"claimed", "in_progress", "done", "dismissed"},
   done        |-> {},
   dismissed   |-> {}]

Visits(ids) == {[item |-> id, event |-> active[id].event] : id \in ids}

\* The order of a request for work: scorePriority, then created_at.
Before(v, w) ==
  \/ Score[v.event] < Score[w.event]
  \/ Score[v.event] = Score[w.event] /\ v.item < w.item

First(vs) == CHOOSE v \in vs : \A w \in vs \ {v} : Before(v, w)

trimHistoryLate(h) == SubSeq(h, 1, AtMost(MaxEntries + 1, Len(h)))  \* mutant: off by one

trimHistory(h) == SubSeq(h, 1, AtMost(MaxEntries, Len(h)))

\* The list of seen events with e moved to its front, before it is cut.
Fronted(s, e) == <<e>> \o RemoveFirst(s, e)

Cut(s) == SubSeq(s, 1, AtMost(SeenCap, Len(s)))

addSeenSourceEventId(s, e) == Cut(Fronted(s, e))

\* What the list loses when e is added: it is within its bound, so that this is
\* one event at most.
Evicted(s, e) == SubSeq(Fronted(s, e), SeenCap + 1, Len(Fronted(s, e)))

RowNotedNever(rows, e) == rows   \* mutant: upsertSeenSourceEvent is forgotten

\* The rows after each kind of write.  deleteSeenSourceEvent removes what the
\* list in memory evicts, trimSeenSourceEvents then cuts the table itself.
RowNoted(rows, e) ==
  LET gone == Evicted(seenSourceEventIds, e)
  IN [rows EXCEPT !.seen = Cut(IF gone = <<>> THEN Fronted(@, e)
                               ELSE RemoveFirst(Fronted(@, e), Head(gone)))]

RowPut(rows, id, c) == [rows EXCEPT !.active[id] = c]

RowRetiredTwice(rows, id, x) ==   \* mutant: deleteActiveFollowup is forgotten
  [rows EXCEPT !.history = <<x>> \o @]

RowRetired(rows, id, x) ==
  [rows EXCEPT !.active[id] = NoWork, !.history = <<x>> \o @]

\* The UNIQUE source_event_id of the two tables, at each insert.
Fits(rows) ==
  /\ \A a, b \in Live(rows.active) : rows.active[a].event = rows.active[b].event => a = b
  /\ \A m, n \in 1..Len(rows.history) : rows.history[m].event = rows.history[n].event => m = n

Aged(items) ==
  [id \in WorkItems |->
     IF items[id] = NoWork THEN NoWork
     ELSE [items[id] EXCEPT !.idle = AtMost(StaleMinutes, @ + 1)]]

-----------------------------------------------------------------------------
(* Initial state: the first start, on an empty database                    *)

Init ==
  /\ active = [id \in WorkItems |-> NoWork] /\ history = <<>>
  /\ sourceEventToWorkItemId = [e \in Comments |-> NoItem]
  /\ seenSourceEventIds = <<>>
  /\ lockQueues = [r \in Prs |-> <<>>]
  /\ pc = [p \in Procs |-> "idle"]
  /\ request = [p \in Procs |-> NoRequest]
  /\ answer = [p \in Procs |-> "none"]
  /\ sweepTimer = TRUE
  /\ db = [active |-> [id \in WorkItems |-> NoWork], history |-> <<>>, seen |-> <<>>]
  /\ up = TRUE /\ failures = 0 /\ crashes = 0
  /\ made = 0 /\ dirty = {} /\ tainted = FALSE
  /\ unsaved = {} /\ noted = {} /\ finished = {}


-----------------------------------------------------------------------------
(* Calls begin                                                             *)

\* resolveBySynchronize goes through its items without an await: while it
\* does, nothing happens but its own steps, or the death of the process.
Calm == up /\ \A p \in Procs : pc[p] # "resolving"

withIssueLock(p, r) ==
  /\ lockQueues' = [lockQueues EXCEPT ![r.pr] = Append(@, p)]
  /\ pc' = [pc EXCEPT ![p] = "waiting"]
  /\ request' = [request EXCEPT ![p] = r]
  /\ UNCHANGED <<memory, answer, sweepTimer, disk, world, ghosts>>

Begin(p, r) == Calm /\ pc[p] = "idle" /\ withIssueLock(p, r)

\* A comment is brought in only while a number is left for its item and for
\* those of the calls already waiting: MaxItems is the bound on items.
SpareItems ==
  made + Cardinality({h \in Hooks : pc[h] = "waiting" /\ request[h].op = "create"})
    < MaxItems

InvokeCreate(h, e) ==
  SpareItems /\ Begin(h, [op |-> "create", pr |-> PrOf[e], event |-> e])

InvokeResolve(h, e) ==
  Begin(h, [op |-> "resolve", pr |-> PrOf[e], event |-> e, left |-> {}])

\* The candidates of claimNextFollowup.  When there are none it answers at
\* once, and nothing changes: only the other case is a step.
Offered(scope) ==
  {id \in Live(active) : /\ active[id].status \in {"queued", "stale"}
                         /\ PrOf[active[id].event] \in scope}

InvokeNext(w, a, scope) ==
  /\ Offered(scope) # {}
  /\ LET c == First(Visits(Offered(scope)))
     IN Begin(w, [op |-> "next", pr |-> PrOf[c.event], agent |-> a, item |-> c.item,
                  left |-> Visits(Offered(scope)) \ {c}])

\* An item that is not active is answered not_found at once.
InvokeUpdate(w, a, id, to) ==
  /\ active[id] # NoWork
  /\ Begin(w, [op |-> "update", pr |-> PrOf[active[id].event], agent |-> a,
               item |-> id, to |-> to])

\* The interval fires: a sweep begins unless one is in flight, with the
\* snapshot of its items and one of them.  Loops take the items in the map's
\* order, which a restart makes that of rows read with no ORDER BY: any order.
StartSweep ==
  /\ sweepTimer
  /\ \E v \in Visits(Live(active)) :
       Begin(Sweeper, [op |-> "sweep", pr |-> PrOf[v.event], item |-> v.item,
                       left |-> Visits(Live(active)) \ {v}])

\* The loop's next record, after the lock of the last one was released.
LookOn(p) ==
  /\ Calm /\ pc[p] = "looking"
  /\ \E v \in request[p].left :
       /\ request[p].op = "next" => v = First(request[p].left)
       /\ withIssueLock(p, [request[p] EXCEPT !.pr = PrOf[v.event], !.item = v.item,
                                              !.left = @ \ {v}])

-----------------------------------------------------------------------------
(* Locked bodies                                                           *)

HasLock(p) == Calm /\ pc[p] = "waiting" /\ Head(lockQueues[request[p].pr]) = p

Respond(p, a) ==
  /\ pc' = [pc EXCEPT ![p] = "done"]
  /\ answer' = [answer EXCEPT ![p] = a]

\* The webhook's loop goes on in the same stretch while it has items left.
Proceed(p, a) ==
  IF a # "error" /\ request'[p].op = "resolve" /\ request'[p].left # {}
  THEN pc' = [pc EXCEPT ![p] = "resolving"] /\ UNCHANGED answer
  ELSE Respond(p, a)

\* persistFollowupMutation: one transaction, trims included.  It fails when a
\* row breaks a UNIQUE, or for a reason of SQLite's own.  Then the exception
\* leaves the body, and memory stays changed.
Transact(p, ids, after, a) ==
  \/ /\ Fits(after) /\ db' = [after EXCEPT !.history = trimHistory(@)]
     /\ dirty' = dirty \ ids /\ failures' = failures
     /\ Proceed(p, a)
  \/ /\ Fits(after) => failures < MaxFailures
     /\ failures' = IF Fits(after) THEN failures + 1 ELSE failures
     /\ db' = db /\ dirty' = dirty \cup ids
     /\ Respond(p, "error")

NothingDone(p, a) == Respond(p, a) /\ UNCHANGED <<memory, request, disk, ghosts>>

\* A status change that keeps the item active.
Moved(c, to, a) ==
  [c EXCEPT !.status = to, !.idle = 0, !.agent = IF @ = NoAgent THEN a ELSE @]

MoveItem(p, id, c, to, a) ==
  /\ active' = [active EXCEPT ![id] = Moved(c, to, a)]
  /\ Transact(p, {id}, RowPut(db, id, Moved(c, to, a)), "applied")
  /\ UNCHANGED <<history, sourceEventToWorkItemId, seenSourceEventIds, ghosts>>

UnmappedNever(map, removed) == map   \* mutant: the dedupe entries stay

\* trimHistory: the dedupe entries of what it removes go with it, if they are
\* still theirs.
Unmapped(map, removed) ==
  [e \in Comments |->
     IF \E n \in 1..Len(removed) : removed[n].event = e /\ removed[n].item = map[e]
     THEN NoItem ELSE map[e]]

\* A status change to 'done' or 'dismissed'.
EndItem(p, id, c, to) ==
  LET x == [item |-> id, event |-> c.event, agent |-> c.agent, status |-> to]
      longer == <<x>> \o history
  IN /\ active' = [active EXCEPT ![id] = NoWork]
     /\ history' = trimHistory(longer)
     /\ sourceEventToWorkItemId' =
          Unmapped(sourceEventToWorkItemId, SubSeq(longer, MaxEntries + 1, Len(longer)))
     /\ Transact(p, {id}, RowRetired(db, id, x), "applied")
     /\ finished' = IF id \in dirty' THEN finished ELSE finished \cup {c.event}
     /\ UNCHANGED <<seenSourceEventIds, made, unsaved, noted>>

\* What an agent may ask: its own item, or to be the first to take it.
MayUpdate(c, to, a) ==
  IF c.agent = NoAgent THEN to \in {"claimed", "in_progress"} ELSE c.agent = a

\* a is NoAgent when the source is the webhook or the sweep.
applyStatusTransition(p, id, c, to, a) ==
  \/ /\ to = c.status
     /\ NothingDone(p, "same")
  \/ /\ to # c.status
     /\ to \notin FOLLOWUP_TRANSITIONS[c.status] \/ (a # NoAgent /\ ~MayUpdate(c, to, a))
     /\ NothingDone(p, "rejected")
  \/ /\ to \in FOLLOWUP_TRANSITIONS[c.status] /\ (a # NoAgent => MayUpdate(c, to, a))
     /\ request' = request
     /\ IF to \in Settled THEN EndItem(p, id, c, to) ELSE MoveItem(p, id, c, to, a)

-----------------------------------------------------------------------------
(* createFromWebhook                                                       *)

hasSeenInMap(e) ==   \* mutant: the list of seen events is not asked
  e \in Comments /\ sourceEventToWorkItemId[e] # NoItem

hasSeenSourceEventId(e) ==
  \/ e \in Comments /\ sourceEventToWorkItemId[e] # NoItem
  \/ e \in ToSet(seenSourceEventIds)

NewItem(e) == [event |-> e, agent |-> NoAgent, status |-> "queued", idle |-> 0]

CreateItem(h, id, e) ==
  /\ active' = [active EXCEPT ![id] = NewItem(e)]
  /\ sourceEventToWorkItemId' = [sourceEventToWorkItemId EXCEPT ![e] = id]
  /\ seenSourceEventIds' = addSeenSourceEventId(seenSourceEventIds, e)
  /\ made' = id /\ noted' = noted \cup {e} /\ request' = request
  /\ Transact(h, {id}, RowNoted(RowPut(db, id, NewItem(e)), e), "created")
  /\ unsaved' = IF id \in dirty' THEN unsaved \cup {e} ELSE unsaved
  /\ UNCHANGED <<history, finished>>

RunCreate(h) ==
  /\ HasLock(h) /\ request[h].op = "create"
  /\ IF hasSeenSourceEventId(request[h].event)
     THEN NothingDone(h, "known")
     ELSE CreateItem(h, made + 1, request[h].event)
  /\ UNCHANGED <<lockQueues, sweepTimer, world>>

-----------------------------------------------------------------------------
(* claimNextFollowup, updateFollowupStatus, runStaleSweep                  *)

TakenUnchecked(id) == active[id] # NoWork   \* mutant: the status is not read again

StillOffered(id) == active[id] # NoWork /\ active[id].status \in {"queued", "stale"}

TakenBy(c, a) == [c EXCEPT !.status = "claimed", !.agent = a, !.idle = 0]

RunNext(w) ==
  /\ HasLock(w) /\ request[w].op = "next"
  /\ LET id == request[w].item
     IN \/ /\ ~StillOffered(id)
           /\ NothingDone(w, "skipped")
        \/ /\ StillOffered(id) /\ request' = request
           /\ active' = [active EXCEPT ![id] = TakenBy(@, request[w].agent)]
           /\ Transact(w, {id}, RowPut(db, id, TakenBy(active[id], request[w].agent)), "claimed")
           /\ UNCHANGED <<history, sourceEventToWorkItemId, seenSourceEventIds, ghosts>>
  /\ UNCHANGED <<lockQueues, sweepTimer, world>>

RunUpdate(w) ==
  /\ HasLock(w) /\ request[w].op = "update"
  /\ LET r == request[w]
     IN \/ active[r.item] = NoWork /\ NothingDone(w, "rejected")
        \/ active[r.item] # NoWork
           /\ applyStatusTransition(w, r.item, active[r.item], r.to, r.agent)
  /\ UNCHANGED <<lockQueues, sweepTimer, world>>

MarksStale(c) == c # NoWork /\ c.status # "stale" /\ c.idle >= StaleMinutes

RunSweep ==
  /\ HasLock(Sweeper) /\ request[Sweeper].op = "sweep"
  /\ LET id == request[Sweeper].item
     IN \/ ~MarksStale(active[id]) /\ NothingDone(Sweeper, "same")
        \/ MarksStale(active[id])
           /\ applyStatusTransition(Sweeper, id, active[id], "stale", NoAgent)
  /\ UNCHANGED <<lockQueues, sweepTimer, world>>

-----------------------------------------------------------------------------
(* resolveBySynchronize                                                    *)

OpenOf(r) == {id \in Live(active) : PrOf[active[id].event] = r}

\* The event is noted, in a transaction of its own; the items to end are then
\* those that are open now, under the lock.
RunResolve(h) ==
  /\ HasLock(h) /\ request[h].op = "resolve"
  /\ LET r == request[h]
     IN /\ seenSourceEventIds' = addSeenSourceEventId(seenSourceEventIds, r.event)
        /\ noted' = noted \cup {r.event}
        /\ request' = [request EXCEPT ![h].left = Visits(OpenOf(r.pr))]
        /\ Transact(h, {}, RowNoted(db, r.event), "applied")
        /\ unsaved' = IF failures' # failures THEN unsaved \cup {r.event} ELSE unsaved
  /\ UNCHANGED <<active, history, sourceEventToWorkItemId, made, finished,
                 lockQueues, sweepTimer, world>>

\* The next of them ends with a transaction of its own.
ResolveNext(h) ==
  /\ pc[h] = "resolving"
  /\ \E v \in request[h].left :
       /\ request' = [request EXCEPT ![h].left = @ \ {v}]
       /\ EndItem(h, v.item, active[v.item], "done")
  /\ UNCHANGED <<lockQueues, sweepTimer, world>>

-----------------------------------------------------------------------------
(* The lock is released; a loop goes on or the caller is answered          *)

FinishLeak(p) ==   \* mutant: no finally, a throwing body keeps the lock
  /\ Calm /\ pc[p] = "done"
  /\ lockQueues' = IF answer[p] = "error" THEN lockQueues
                   ELSE [lockQueues EXCEPT ![request[p].pr] = Tail(@)]
  /\ pc' = [pc EXCEPT ![p] = "idle"]
  /\ request' = [request EXCEPT ![p] = NoRequest]
  /\ answer' = [answer EXCEPT ![p] = "none"]
  /\ UNCHANGED <<memory, sweepTimer, disk, world, ghosts>>

\* A request for work goes on when its candidate was taken meanwhile, a sweep
\* unless an exception ends it.
GoesOn(p) ==
  /\ \/ request[p].op = "next" /\ answer[p] = "skipped"
     \/ request[p].op = "sweep" /\ answer[p] # "error"
  /\ request[p].left # {}

\* mutant: inFlight is not reset after a sweep that threw, and stands for ever
FinishInFlight(p) ==
  /\ Calm /\ pc[p] = "done"
  /\ lockQueues' = [lockQueues EXCEPT ![request[p].pr] = Tail(@)]
  /\ LET stuck == p = Sweeper /\ answer[p] = "error"
     IN /\ pc' = [pc EXCEPT ![p] = IF GoesOn(p) \/ stuck THEN "looking" ELSE "idle"]
        /\ request' = [request EXCEPT ![p] = IF GoesOn(p) THEN @
                                             ELSE IF stuck THEN [@ EXCEPT !.left = {}]
                                             ELSE NoRequest]
  /\ answer' = [answer EXCEPT ![p] = "none"]
  /\ UNCHANGED <<memory, sweepTimer, disk, world, ghosts>>

Finish(p) ==
  /\ Calm /\ pc[p] = "done"
  /\ lockQueues' = [lockQueues EXCEPT ![request[p].pr] = Tail(@)]
  /\ pc' = [pc EXCEPT ![p] = IF GoesOn(p) THEN "looking" ELSE "idle"]
  /\ request' = [request EXCEPT ![p] = IF GoesOn(p) THEN @ ELSE NoRequest]
  /\ answer' = [answer EXCEPT ![p] = "none"]
  /\ UNCHANGED <<memory, sweepTimer, disk, world, ghosts>>

-----------------------------------------------------------------------------
(* The scheduler's stop, time, crashes and restarts                        *)

stop ==
  /\ Calm /\ sweepTimer /\ sweepTimer' = FALSE
  /\ UNCHANGED <<memory, lockQueues, pc, request, answer, disk, world, ghosts>>

Tick ==
  /\ up => Calm
  /\ active' = Aged(active)
  /\ db' = [db EXCEPT !.active = Aged(@)]
  /\ UNCHANGED <<history, sourceEventToWorkItemId, seenSourceEventIds, calls,
                 failures, dirty, world, ghosts>>

\* The process dies: memory and every call in flight are gone.
Crash ==
  /\ up /\ up' = FALSE
  /\ crashes < MaxCrashes /\ crashes' = crashes + 1
  /\ active' = [id \in WorkItems |-> NoWork] /\ history' = <<>>
  /\ sourceEventToWorkItemId' = [e \in Comments |-> NoItem]
  /\ seenSourceEventIds' = <<>>
  /\ lockQueues' = [r \in Prs |-> <<>>]
  /\ pc' = [p \in Procs |-> "idle"]
  /\ request' = [p \in Procs |-> NoRequest]
  /\ answer' = [p \in Procs |-> "none"]
  /\ sweepTimer' = FALSE
  /\ UNCHANGED <<disk, tainted, ghosts>>

\* hydrate's dedupe map: an active item's entry goes before a history's.
hydratedIndex(rows) ==
  [e \in Comments |->
     LET inActive  == {id \in Live(rows.active) : rows.active[id].event = e}
         inHistory == {n \in 1..Len(rows.history) : rows.history[n].event = e}
     IN IF inActive # {} THEN CHOOSE id \in inActive : TRUE
        ELSE IF inHistory # {} THEN rows.history[CHOOSE n \in inHistory : TRUE].item
        ELSE NoItem]

\* hydrate's list of seen events: the rows, then each active item, whose rows
\* are read in no order, and each entry of the history moved to the front.
hydratedSeen(rows, order) ==
  LET events == order \o [n \in 1..Len(rows.history) |-> rows.history[n].event]
      list[n \in 0..Len(events)] ==
        IF n = 0 THEN rows.seen ELSE addSeenSourceEventId(list[n - 1], events[n])
  IN list[Len(events)]

\* initialize: hydrate from the rows; then the scheduler is started.
Restart ==
  /\ ~up /\ up' = TRUE
  /\ active' = db.active /\ history' = db.history
  /\ sourceEventToWorkItemId' = hydratedIndex(db)
  /\ \E order \in SetToSeqs({db.active[id].event : id \in Live(db.active)}) :
       seenSourceEventIds' = hydratedSeen(db, order)
  /\ sweepTimer' = TRUE
  /\ tainted' = (tainted \/ dirty # {})
  /\ dirty' = {}
  /\ UNCHANGED <<lockQueues, pc, request, answer, db, failures, crashes, ghosts>>

-----------------------------------------------------------------------------
Run(p) ==
  IF p = Sweeper THEN RunSweep
  ELSE IF p \in Workers THEN RunNext(p) \/ RunUpdate(p)
  ELSE RunCreate(p) \/ RunResolve(p) \/ ResolveNext(p)

Step(p) == Run(p) \/ Finish(p) \/ LookOn(p)

AgentRequest(w) ==
  \E a \in Agents :
    \/ \E scope \in Scopes : InvokeNext(w, a, scope)
    \/ \E id \in WorkItems, to \in AgentUpdates : InvokeUpdate(w, a, id, to)

\* Shutdown ends the HTTP server before it stops the scheduler; agents may
\* still call over MCP.
HookRequest(h) ==
  /\ sweepTimer
  /\ \/ \E e \in Comments : InvokeCreate(h, e)
     \/ \E e \in Pushes : InvokeResolve(h, e)

Next ==
  \/ \E p \in Procs : Step(p)
  \/ \E w \in Workers : AgentRequest(w)
  \/ \E h \in Hooks : HookRequest(h)
  \/ StartSweep \/ stop \/ Tick \/ Crash \/ Restart

Spec == Init /\ [][Next]_vars

-----------------------------------------------------------------------------
(* Properties                                                              *)

MemoryOK ==
  /\ active \in [WorkItems -> Followup \cup {NoWork}]
  /\ history \in Seq(Entry) /\ Len(history) <= MaxEntries
  /\ sourceEventToWorkItemId \in [Comments -> WorkItems \cup {NoItem}]
  /\ seenSourceEventIds \in Seq(SourceEvents) /\ Len(seenSourceEventIds) <= SeenCap

DiskOK ==
  /\ db.active \in [WorkItems -> Followup \cup {NoWork}]
  /\ db.history \in Seq(Entry) /\ Len(db.history) <= MaxEntries
  /\ db.seen \in Seq(SourceEvents) /\ Len(db.seen) <= SeenCap
  /\ failures \in 0..MaxFailures /\ dirty \subseteq WorkItems

CallsOK ==
  /\ lockQueues \in [Prs -> Seq(Procs)] /\ pc \in [Procs -> PcValues]
  /\ request \in [Procs -> Request \cup {NoRequest}]
  /\ answer \in [Procs -> Answer] /\ sweepTimer \in BOOLEAN

WorldOK ==
  /\ up \in BOOLEAN /\ crashes \in 0..MaxCrashes /\ tainted \in BOOLEAN
  /\ made \in 0..MaxItems /\ unsaved \cup noted \subseteq SourceEvents
  /\ finished \subseteq Comments

\* Every variable stays in its type, and the history and the list of seen
\* events stay within their bounds, in memory and in the rows, which different
\* code trims.
FollowupTypeOK == MemoryOK /\ DiskOK /\ CallsOK /\ WorldOK

Overflow == Cardinality(noted) > SeenCap

InHistory(h, e) == \E n \in 1..Len(h) : h[n].event = e

\* The dedupe map and what it is about stay in step through failed writes,
\* trimmed histories and restarts: an entry leads to the event's active item,
\* or to an item of the history; no active item and no remembered one is
\* without an entry; so no comment has two active items.
DedupeConsistent ==
  /\ \A e \in Comments :
       LET id == sourceEventToWorkItemId[e]
       IN id # NoItem => IF active[id] # NoWork THEN active[id].event = e
                         ELSE \E n \in 1..Len(history) : history[n].item = id
  /\ \A id \in Live(active) : sourceEventToWorkItemId[active[id].event] = id
  /\ \A e \in Comments : InHistory(history, e) => sourceEventToWorkItemId[e] # NoItem

\* What a restart would load: an item's row is the item, but for the items
\* whose last write failed; the histories are the same while there are none;
\* and every event memory knows as handled is among the rows, as an item, in
\* the history or in the list, unless its first transaction failed.  (Once more
\* events came in than the list holds this no longer is so: hydrate reorders
\* the list in memory and not the rows, and each is cut by its own order.)
KnownRow(e) ==
  \/ e \in ToSet(db.seen) \/ InHistory(db.history, e)
  \/ \E id \in Live(db.active) : db.active[id].event = e

RowsFollow ==
  up => /\ \A id \in WorkItems \ dirty : db.active[id] = active[id]
        /\ dirty = {} => db.history = history
        /\ \A e \in SourceEvents \ unsaved :
             hasSeenSourceEventId(e) => KnownRow(e) \/ Overflow

\* A comment whose work was done or dismissed, on disk, never comes back as
\* work, redelivered or not, unless more events came in than the list of seen
\* ones holds.  (A comment whose creating transaction failed is the exception:
\* its row in the list was never written, and the item's later writes do not
\* write it.)
FinishedStaysFinished ==
  \A id \in Live(active) :
    active[id].event \in finished => Overflow \/ active[id].event \in unsaved

\* Work changes hands only through 'stale', by a sweep or its own agent's word:
\* two requests that chose the same item never both get it, nor does one of
\* them an item that was taken meanwhile (claimNextFollowup's second look, and
\* the owner applyStatusTransition compares).
HandedOverWhenStale ==
  [][\A id \in Live(active) :
       /\ active'[id] # NoWork /\ active[id].agent # NoAgent
       /\ active'[id].agent # active[id].agent
       => active[id].status = "stale"]_vars

\* Every call that holds or awaits a pull request's lock is still under way, on
\* that pull request, and is in the queue once: no exception, loop cut short or
\* crash leaves a lock to a call that is gone or went on to the next one.
FollowupLocksHaveOwners ==
  \A r \in Prs : \A n \in 1..Len(lockQueues[r]) :
    LET p == lockQueues[r][n]
    IN /\ pc[p] \in {"waiting", "resolving", "done"} /\ request[p].pr = r
       /\ \A m \in 1..Len(lockQueues[r]) : lockQueues[r][m] = p => m = n

\* Every call returns, a sweep that goes through several locks in turn included,
\* however locks, failed writes and crashes interleave.
FollowupCallsReturn == \A p \in Procs : pc[p] # "idle" ~> pc[p] = "idle"

\* Work nobody touches comes back: an item idle for the configured time is
\* flagged stale, and so on offer, or moves by itself, even if a sweep fails in
\* the middle, as long as the scheduler is not stopped.
WorkComesBack ==
  \A id \in WorkItems : MarksStale(active[id]) ~> (~MarksStale(active[id]) \/ ~sweepTimer)

=============================================================================
