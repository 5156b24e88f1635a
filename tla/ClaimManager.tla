---------------------------- MODULE ClaimManager ----------------------------
(***************************************************************************)
(* ClaimManager (src/claim-manager.ts) over the SQLite rows it writes      *)
(* through (src/persistence/sqlite-store.ts).                              *)
(*                                                                         *)
(* Agents claim issues, move their claims along TRANSITIONS and release    *)
(* them; the sync service sweeps for idle claims and reconciles claims     *)
(* with GitHub.  The program is one JavaScript thread: code between two    *)
(* awaits is atomic, and every operation is split here where the code      *)
(* awaits.                                                                 *)
(*                                                                         *)
(*   Invoke...   the synchronous prefix of a call: the first lookup, then  *)
(*               withIssueLock appends the caller to the issue's queue;    *)
(*   Run...      the locked body, which never awaits anything that is not  *)
(*               already resolved, the SQLite transaction included;        *)
(*   Finish      the lock's finally clause and the answer to the caller.   *)
(*                                                                         *)
(* Memory and disk are separate variables: a transaction may fail, the     *)
(* process may die between any two steps, and hydrate rebuilds memory from *)
(* the rows.  Time is kept as ages, so it may pass for ever in a finite    *)
(* state space: a claim's idle is min(minutes since last_updated,          *)
(* ClaimTimeout), its staleFor min(minutes since its last 'stale' entry,   *)
(* StaleAutoRelease).                                                      *)
(***************************************************************************)
EXTENDS Integers, Sequences, FiniteSets

CONSTANTS
  Agents, Issues,     \* agent_id's; issueKey(repo, issue_number)'s
  ClaimIds,           \* the randomUUID()s that can be drawn: bounds claims made
  Tasks,              \* concurrent calls of agents: bounds calls in flight
  Syncer,             \* the sync service's run: scheduleSyncRun lets one run at a time
  Metas,              \* an issue's title, labels and assignees
  AgentUpdates,       \* [to, pr]: the updates agents ask for
  ClaimTimeout, StaleAutoRelease, HistoryMax,   \* the configuration
  MaxFailures,        \* bounds the transactions that fail
  MaxCrashes,         \* bounds the deaths of the process
  NoClaim, NoId, NoRequest

Procs == Tasks \cup {Syncer}

Active   == {"claimed", "in_progress", "pr_submitted", "pr_merged", "stale"}
Terminal == {"closed", "released"}
Status   == Active \cup Terminal

ASSUME ConfigAssumption ==
  /\ ClaimTimeout \in Nat /\ StaleAutoRelease \in Nat /\ HistoryMax \in Nat
  /\ MaxFailures \in Nat /\ MaxCrashes \in Nat

ASSUME InputAssumption ==
  AgentUpdates \subseteq [to : Status, pr : BOOLEAN] /\ IsFiniteSet(ClaimIds)

Claim == [issue : Issues, agent : Agents, status : Active, pr : BOOLEAN,
          meta : Metas, idle : 0..ClaimTimeout, staleFor : 0..StaleAutoRelease]

\* A claim that ended, as the history keeps it.
Entry == [claim_id : ClaimIds, issue : Issues, agent : Agents,
          status : Terminal, pr : BOOLEAN]

\* Calls that wait for a lock or run under it.  A release is an update to
\* 'released'; claim_id of a claim call is filled in with the claim it got.
ClaimRequest     == [op : {"claim"}, issue : Issues, agent : Agents, meta : Metas,
                     claim_id : ClaimIds \cup {NoId}]
UpdateRequest    == [op : {"update"}, issue : Issues, agent : Agents,
                     claim_id : ClaimIds, to : Status, pr : BOOLEAN]
ReconcileRequest == [op : {"reconcile"}, issue : Issues, meta : Metas, closed : BOOLEAN]
SweepRequest     == [op : {"sweep"}, issue : Issues, claim_id : ClaimIds]
Request == ClaimRequest \cup UpdateRequest \cup ReconcileRequest \cup SweepRequest

Answer == {"none", "granted", "confirmed", "taken", "applied", "same", "rejected", "error"}

\* Sentinels are told apart from what they stand in for.
ASSUME SentinelAssumption ==
  /\ NoClaim \notin Claim /\ NoId \notin ClaimIds
  /\ NoRequest \notin Request /\ Syncer \notin Tasks

VARIABLES
  activeClaims, issueToClaimId, history, totalClaims,  \* the manager's maps
  lockQueues,       \* per issue, the procs that hold or await its lock
  pc, request, answer,   \* per proc, where its call is and what it will answer
  todo,             \* the claims the running sweep has still to visit
  db,               \* claim_active, claim_history and claim_runtime_state
  up, failures, crashes,
  issued, granted,  \* ghosts: claim ids made; claims a client was told it got
  dirty, tainted    \* ghosts: claims whose last write failed; a restart lost one

memory == <<activeClaims, issueToClaimId, history, totalClaims>>
calls  == <<lockQueues, pc, request, answer, todo>>
disk   == <<db, failures, dirty>>
world  == <<up, crashes, tainted>>
ghosts == <<issued, granted>>
vars   == <<memory, calls, disk, world, ghosts>>

-----------------------------------------------------------------------------
(* Pure parts                                                              *)

AtMost(bound, n) == IF n < bound THEN n ELSE bound

Live(claims) == {id \in ClaimIds : claims[id] # NoClaim}

TRANSITIONSLax ==   \* mutant: a stale claim may be closed by its agent
  [claimed      |-> {"in_progress", "released", "stale"},
   in_progress  |-> {"pr_submitted", "released", "stale"},
   pr_submitted |-> {"pr_merged", "released", "stale"},
   pr_merged    |-> {"closed", "released", "stale"},
   stale        |-> {"in_progress", "released", "closed"},
   closed       |-> {},
   released     |-> {}]

TRANSITIONS ==
  [claimed      |-> {"in_progress", "released", "stale"},
   in_progress  |-> {"pr_submitted", "released", "stale"},
   pr_submitted |-> {"pr_merged", "released", "stale"},
   pr_merged    |-> {"closed", "released", "stale"},
   stale        |-> {"in_progress", "released"},
   closed       |-> {},
   released     |-> {}]

\* The sync source may close a claim from any status that is not terminal.
canTransition(from, to, source) ==
  \/ source = "sync" /\ to = "closed" /\ from \notin Terminal
  \/ to \in TRANSITIONS[from]

\* What a transition does to the record, its status history included.
Moved(c, to, pr) ==
  [c EXCEPT !.status = to, !.pr = @ \/ pr, !.idle = 0, !.staleFor = 0]

EndEntry(id, c, to, pr) ==
  [claim_id |-> id, issue |-> c.issue, agent |-> c.agent, status |-> to, pr |-> c.pr \/ pr]

trimHistoryLate(h) == SubSeq(h, 1, AtMost(HistoryMax + 1, Len(h)))  \* mutant: off by one

trimHistory(h) == SubSeq(h, 1, AtMost(HistoryMax, Len(h)))

RowPutOnce(rows, id, c) ==   \* mutant: an insert that skips a row already there
  IF rows.active[id] = NoClaim THEN [rows EXCEPT !.active[id] = c] ELSE rows

\* The rows after the two kinds of transaction of a transition.
RowPut(rows, id, c) == [rows EXCEPT !.active[id] = c]

RowKept(rows, id, e) ==   \* mutant: deleteActiveClaim is forgotten
  [rows EXCEPT !.history = trimHistory(<<e>> \o @)]

RowDropped(rows, id, e) ==   \* mutant: upsertClaimHistory is forgotten
  [rows EXCEPT !.active[id] = NoClaim]

RowRetiredUntrimmed(rows, id, e) ==   \* mutant: trimClaimHistory is forgotten
  [rows EXCEPT !.active[id] = NoClaim, !.history = <<e>> \o @]

RowRetired(rows, id, e) ==
  [rows EXCEPT !.active[id] = NoClaim, !.history = trimHistory(<<e>> \o @)]

Older(c) ==
  [c EXCEPT !.idle = AtMost(ClaimTimeout, @ + 1),
            !.staleFor = IF c.status = "stale" THEN AtMost(StaleAutoRelease, @ + 1) ELSE 0]

Aged(claims) ==
  [id \in ClaimIds |-> IF claims[id] = NoClaim THEN NoClaim ELSE Older(claims[id])]

-----------------------------------------------------------------------------
(* Initial state: the first start, on an empty database.  db.total = -1    *)
(* stands for a claim_runtime_state row that was never written.            *)

Init ==
  /\ activeClaims = [id \in ClaimIds |-> NoClaim]
  /\ issueToClaimId = [i \in Issues |-> NoId]
  /\ history = <<>> /\ totalClaims = 0
  /\ lockQueues = [i \in Issues |-> <<>>]
  /\ pc = [p \in Procs |-> "idle"]
  /\ request = [p \in Procs |-> NoRequest]
  /\ answer = [p \in Procs |-> "none"]
  /\ todo = {}
  /\ db = [active |-> [id \in ClaimIds |-> NoClaim], history |-> <<>>, total |-> -1]
  /\ up = TRUE /\ failures = 0 /\ crashes = 0
  /\ issued = {} /\ granted = {} /\ dirty = {} /\ tainted = FALSE

-----------------------------------------------------------------------------
(* Calls begin: the lookup before the lock, then withIssueLock             *)

withIssueLock(p, r) ==
  /\ lockQueues' = [lockQueues EXCEPT ![r.issue] = Append(@, p)]
  /\ pc' = [pc EXCEPT ![p] = "waiting"]
  /\ request' = [request EXCEPT ![p] = r]
  /\ UNCHANGED <<memory, answer, disk, world, ghosts>>

\* A claim call is made only while an unused id is left for it and for each
\* claim call already waiting: ClaimIds is the bound on claims.
SpareIds ==
  Cardinality(ClaimIds \ issued)
    > Cardinality({t \in Tasks : pc[t] = "waiting" /\ request[t].op = "claim"})

InvokeClaim(t, a, i, m) ==
  /\ up /\ pc[t] = "idle" /\ SpareIds
  /\ withIssueLock(t, [op |-> "claim", issue |-> i, agent |-> a, meta |-> m, claim_id |-> NoId])
  /\ UNCHANGED todo

\* A claim that is not active is answered claim_not_found at once, and
\* nothing changes: only the other case is a step.
InvokeUpdate(t, a, id, u) ==
  /\ up /\ pc[t] = "idle" /\ activeClaims[id] # NoClaim
  /\ withIssueLock(t, [op |-> "update", issue |-> activeClaims[id].issue, agent |-> a,
                       claim_id |-> id, to |-> u.to, pr |-> u.pr])
  /\ UNCHANGED todo

InvokeRelease(t, a, id) == InvokeUpdate(t, a, id, [to |-> "released", pr |-> FALSE])

InvokeReconcile(i, m, closed) ==
  /\ up /\ pc[Syncer] = "idle" /\ issueToClaimId[i] # NoId
  /\ withIssueLock(Syncer, [op |-> "reconcile", issue |-> i, meta |-> m, closed |-> closed])
  /\ UNCHANGED todo

\* runStaleSweep takes its snapshot of the active claims; with none it is over.
StartSweep ==
  /\ up /\ pc[Syncer] = "idle" /\ Live(activeClaims) # {}
  /\ todo' = {[claim_id |-> id, issue |-> activeClaims[id].issue] : id \in Live(activeClaims)}
  /\ pc' = [pc EXCEPT ![Syncer] = "sweeping"]
  /\ UNCHANGED <<memory, lockQueues, request, answer, disk, world, ghosts>>

\* The loop's next claim.  The order of the snapshot is left open.
SweepNext ==
  /\ up /\ pc[Syncer] = "sweeping"
  /\ \E x \in todo :
       /\ todo' = todo \ {x}
       /\ withIssueLock(Syncer, [op |-> "sweep", issue |-> x.issue, claim_id |-> x.claim_id])

-----------------------------------------------------------------------------
(* Locked bodies                                                           *)

HasLockUnlocked(p) == pc[p] = "waiting"   \* mutant: the queue is not awaited

HasLock(p) == pc[p] = "waiting" /\ Head(lockQueues[request[p].issue]) = p

Respond(p, a) ==
  /\ pc' = [pc EXCEPT ![p] = "done"]
  /\ answer' = [answer EXCEPT ![p] = a]

\* mutant: a failed transaction is logged, and the caller told it succeeded
TransactQuietly(p, id, before, after, a) ==
  \/ /\ db' = after /\ dirty' = dirty \ {id} /\ failures' = failures
     /\ Respond(p, a)
  \/ /\ failures < MaxFailures /\ failures' = failures + 1
     /\ db' = before /\ dirty' = dirty \cup {id}
     /\ Respond(p, a)

\* persistClaimMutation: one SQLite transaction.  When it throws, the rows
\* are as before, the exception leaves the body, and memory stays changed.
Transact(p, id, before, after, a) ==
  \/ /\ db' = after /\ dirty' = dirty \ {id} /\ failures' = failures
     /\ Respond(p, a)
  \/ /\ failures < MaxFailures /\ failures' = failures + 1
     /\ db' = before /\ dirty' = dirty \cup {id}
     /\ Respond(p, "error")

NothingDone(p, a) == Respond(p, a) /\ UNCHANGED <<memory, disk>>

\* A status change that keeps the claim active.
MoveClaim(p, id, c, before, to, pr) ==
  /\ activeClaims' = [activeClaims EXCEPT ![id] = Moved(c, to, pr)]
  /\ Transact(p, id, before, RowPut(before, id, Moved(c, to, pr)), "applied")
  /\ UNCHANGED <<issueToClaimId, history, totalClaims>>

EndClaimKeepsIndex(p, id, c, before, to, pr) ==   \* mutant: the index entry stays
  /\ activeClaims' = [activeClaims EXCEPT ![id] = NoClaim]
  /\ history' = trimHistory(<<EndEntry(id, c, to, pr)>> \o history)
  /\ Transact(p, id, before, RowRetired(before, id, EndEntry(id, c, to, pr)), "applied")
  /\ UNCHANGED <<issueToClaimId, totalClaims>>

\* A status change to 'released' or 'closed': the claim leaves the maps for
\* the history, the issue's index entry is deleted whichever claim it names.
EndClaim(p, id, c, before, to, pr) ==
  /\ activeClaims' = [activeClaims EXCEPT ![id] = NoClaim]
  /\ issueToClaimId' = [issueToClaimId EXCEPT ![c.issue] = NoId]
  /\ history' = trimHistory(<<EndEntry(id, c, to, pr)>> \o history)
  /\ Transact(p, id, before, RowRetired(before, id, EndEntry(id, c, to, pr)), "applied")
  /\ UNCHANGED totalClaims

NeedsUrl(c, to, pr) == to = "pr_submitted" /\ ~pr /\ ~c.pr

\* c is the record as the body has it, before the rows as it has written them.
applyTransitionLocked(p, id, c, before, to, pr, source) ==
  \/ /\ to = c.status
     /\ NothingDone(p, "same")
  \/ /\ to # c.status
     /\ NeedsUrl(c, to, pr) \/ ~canTransition(c.status, to, source)
     /\ NothingDone(p, "rejected")
  \/ /\ to # c.status /\ ~NeedsUrl(c, to, pr) /\ canTransition(c.status, to, source)
     /\ to \notin Terminal
     /\ MoveClaim(p, id, c, before, to, pr)
  \/ /\ to # c.status /\ ~NeedsUrl(c, to, pr) /\ canTransition(c.status, to, source)
     /\ to \in Terminal
     /\ EndClaim(p, id, c, before, to, pr)

-----------------------------------------------------------------------------
(* claimIssue                                                              *)

HolderUnlessStale(i) ==   \* mutant: a stale claim counts as free
  IF \/ issueToClaimId[i] = NoId
     \/ activeClaims[issueToClaimId[i]] = NoClaim
     \/ activeClaims[issueToClaimId[i]].status = "stale"
  THEN NoClaim ELSE activeClaims[issueToClaimId[i]]

\* The active claim the issue's index entry leads to, if any.
Holder(i) ==
  IF issueToClaimId[i] = NoId THEN NoClaim ELSE activeClaims[issueToClaimId[i]]

NewClaim(r) == [issue |-> r.issue, agent |-> r.agent, status |-> "claimed", pr |-> FALSE,
                meta |-> r.meta, idle |-> 0, staleFor |-> 0]

CreateClaim(t, id, r) ==
  /\ activeClaims' = [activeClaims EXCEPT ![id] = NewClaim(r)]
  /\ issueToClaimId' = [issueToClaimId EXCEPT ![r.issue] = id]
  /\ totalClaims' = totalClaims + 1
  /\ issued' = issued \cup {id}
  /\ request' = [request EXCEPT ![t].claim_id = id]
  /\ Transact(t, id, db,
              [RowPut(db, id, NewClaim(r)) EXCEPT !.total = totalClaims + 1], "granted")
  /\ UNCHANGED history

RunClaim(t) ==
  /\ HasLock(t) /\ request[t].op = "claim"
  /\ \/ /\ Holder(request[t].issue) # NoClaim
        /\ NothingDone(t, IF Holder(request[t].issue).agent = request[t].agent
                          THEN "confirmed" ELSE "taken")
        /\ request' = [request EXCEPT ![t].claim_id = issueToClaimId[request[t].issue]]
        /\ UNCHANGED issued
     \/ /\ Holder(request[t].issue) = NoClaim
        /\ \E id \in ClaimIds \ issued : CreateClaim(t, id, request[t])
  /\ UNCHANGED <<lockQueues, todo, world, granted>>

-----------------------------------------------------------------------------
(* updateClaimStatus and releaseIssue                                      *)

OwnedByAnyone(c, a) == c # NoClaim   \* mutant: agent_id is not compared

OwnedBy(c, a) == c # NoClaim /\ c.agent = a

RunUpdate(t) ==
  /\ HasLock(t) /\ request[t].op = "update"
  /\ LET r == request[t]
         c == activeClaims[r.claim_id]
     IN \/ ~OwnedBy(c, r.agent) /\ NothingDone(t, "rejected")
        \/ OwnedBy(c, r.agent)
           /\ applyTransitionLocked(t, r.claim_id, c, db, r.to, r.pr, "agent")
  /\ UNCHANGED <<lockQueues, request, todo, world, ghosts>>

-----------------------------------------------------------------------------
(* runStaleSweep: one claim's visit                                        *)

MarksStale(c) == c # NoClaim /\ c.status # "stale" /\ c.idle >= ClaimTimeout

ReleasesAtOnce(c) ==   \* mutant: the time spent stale is not looked at
  c # NoClaim /\ c.status = "stale" /\ StaleAutoRelease > 0

ReleasesStale(c) ==
  /\ c # NoClaim /\ c.status = "stale"
  /\ StaleAutoRelease > 0 /\ c.staleFor >= StaleAutoRelease

RunSweep ==
  /\ HasLock(Syncer) /\ request[Syncer].op = "sweep"
  /\ LET id == request[Syncer].claim_id
         c  == activeClaims[id]
     IN \/ ~MarksStale(c) /\ ~ReleasesStale(c) /\ NothingDone(Syncer, "same")
        \/ MarksStale(c)
           /\ applyTransitionLocked(Syncer, id, c, db, "stale", FALSE, "sync")
        \/ ReleasesStale(c)
           /\ applyTransitionLocked(Syncer, id, c, db, "released", FALSE, "sync")
  /\ UNCHANGED <<lockQueues, request, todo, world, ghosts>>

-----------------------------------------------------------------------------
(* reconcileIssueSnapshot                                                  *)

Refreshed(c, m) == IF c.meta = m THEN c ELSE [c EXCEPT !.meta = m, !.idle = 0]

\* A changed title, label or assignee set is a transaction of its own, ahead
\* of the closing one.
RunReconcile ==
  /\ HasLock(Syncer) /\ request[Syncer].op = "reconcile"
  /\ LET r  == request[Syncer]
         id == issueToClaimId[r.issue]
         c  == Holder(r.issue)
         refreshed == Refreshed(c, r.meta)
         written == IF refreshed = c THEN db ELSE RowPut(db, id, refreshed)
     IN \/ /\ c = NoClaim
           /\ issueToClaimId' = [issueToClaimId EXCEPT ![r.issue] = NoId]
           /\ Respond(Syncer, "same")
           /\ UNCHANGED <<activeClaims, history, totalClaims, disk>>
        \/ /\ c # NoClaim /\ c.meta = r.meta /\ ~r.closed
           /\ NothingDone(Syncer, "same")
        \/ /\ c # NoClaim /\ c.meta # r.meta /\ ~r.closed
           /\ activeClaims' = [activeClaims EXCEPT ![id] = refreshed]
           /\ Transact(Syncer, id, db, written, "applied")
           /\ UNCHANGED <<issueToClaimId, history, totalClaims>>
        \/ /\ c # NoClaim /\ c.meta # r.meta /\ r.closed    \* the first write fails
           /\ activeClaims' = [activeClaims EXCEPT ![id] = refreshed]
           /\ failures < MaxFailures /\ failures' = failures + 1
           /\ dirty' = dirty \cup {id}
           /\ Respond(Syncer, "error")
           /\ UNCHANGED <<issueToClaimId, history, totalClaims, db>>
        \/ /\ c # NoClaim /\ r.closed
           /\ applyTransitionLocked(Syncer, id, refreshed, written, "closed", FALSE, "sync")
  /\ UNCHANGED <<lockQueues, request, todo, world, ghosts>>

-----------------------------------------------------------------------------
(* The lock is released and the caller answered                            *)

FinishLeak(p) ==   \* mutant: no finally, a throwing body keeps the lock
  /\ pc[p] = "done"
  /\ lockQueues' = IF answer[p] = "error" THEN lockQueues
                   ELSE [lockQueues EXCEPT ![request[p].issue] = Tail(@)]
  /\ todo' = IF p = Syncer /\ answer[p] = "error" THEN {} ELSE todo
  /\ pc' = [pc EXCEPT ![p] = IF p = Syncer /\ todo' # {} THEN "sweeping" ELSE "idle"]
  /\ request' = [request EXCEPT ![p] = NoRequest]
  /\ answer' = [answer EXCEPT ![p] = "none"]
  /\ granted' = granted
  /\ UNCHANGED <<memory, disk, world, issued>>

\* An exception ends a sweep where it is; else the sweep goes on to its next
\* claim.
Finish(p) ==
  /\ pc[p] = "done"
  /\ lockQueues' = [lockQueues EXCEPT ![request[p].issue] = Tail(@)]
  /\ todo' = IF p = Syncer /\ answer[p] = "error" THEN {} ELSE todo
  /\ pc' = [pc EXCEPT ![p] = IF p = Syncer /\ todo' # {} THEN "sweeping" ELSE "idle"]
  /\ request' = [request EXCEPT ![p] = NoRequest]
  /\ answer' = [answer EXCEPT ![p] = "none"]
  /\ granted' = IF answer[p] = "granted" THEN granted \cup {request[p].claim_id} ELSE granted
  /\ UNCHANGED <<memory, disk, world, issued>>

-----------------------------------------------------------------------------
(* setLastGithubSyncAt, time, crashes and restarts                         *)

setLastGithubSyncAt ==
  /\ up /\ pc[Syncer] = "idle"
  /\ \/ db' = [db EXCEPT !.total = totalClaims] /\ failures' = failures
     \/ failures < MaxFailures /\ failures' = failures + 1 /\ db' = db
  /\ UNCHANGED <<memory, calls, dirty, world, ghosts>>

Tick ==
  /\ activeClaims' = Aged(activeClaims)
  /\ db' = [db EXCEPT !.active = Aged(@)]
  /\ UNCHANGED <<issueToClaimId, history, totalClaims, calls, failures, dirty, world, ghosts>>

\* The process dies: memory and every call in flight are gone.
Crash ==
  /\ up /\ up' = FALSE
  /\ crashes < MaxCrashes /\ crashes' = crashes + 1
  /\ activeClaims' = [id \in ClaimIds |-> NoClaim]
  /\ issueToClaimId' = [i \in Issues |-> NoId]
  /\ history' = <<>> /\ totalClaims' = 0
  /\ lockQueues' = [i \in Issues |-> <<>>]
  /\ pc' = [p \in Procs |-> "idle"]
  /\ request' = [p \in Procs |-> NoRequest]
  /\ answer' = [p \in Procs |-> "none"]
  /\ todo' = {}
  /\ UNCHANGED <<disk, tainted, ghosts>>

\* claim_active is read with no ORDER BY: of two rows of one issue either may
\* come last and take the index entry.
Indexes(index, claims) ==
  \A i \in Issues :
    LET rows == {id \in Live(claims) : claims[id].issue = i}
    IN IF rows = {} THEN index[i] = NoId ELSE index[i] \in rows

\* initialize: hydrate from the rows.
Restart ==
  /\ ~up /\ up' = TRUE
  /\ activeClaims' = db.active
  /\ issueToClaimId' \in [Issues -> ClaimIds \cup {NoId}]
  /\ Indexes(issueToClaimId', db.active)
  /\ history' = trimHistory(db.history)
  /\ totalClaims' = IF db.total = -1 THEN Cardinality(Live(db.active)) + Len(db.history)
                    ELSE db.total
  /\ tainted' = (tainted \/ dirty # {})
  /\ dirty' = {}
  /\ UNCHANGED <<calls, db, failures, crashes, ghosts>>

-----------------------------------------------------------------------------
Run(p) == IF p = Syncer THEN RunSweep \/ RunReconcile ELSE RunClaim(p) \/ RunUpdate(p)

AgentStep(t) ==
  \/ \E a \in Agents, i \in Issues, m \in Metas : InvokeClaim(t, a, i, m)
  \/ \E a \in Agents, id \in ClaimIds :
       \/ InvokeRelease(t, a, id)
       \/ \E u \in AgentUpdates : InvokeUpdate(t, a, id, u)
  \/ Run(t) \/ Finish(t)

SyncStep ==
  \/ StartSweep \/ SweepNext
  \/ \E i \in Issues, m \in Metas, closed \in BOOLEAN : InvokeReconcile(i, m, closed)
  \/ setLastGithubSyncAt
  \/ Run(Syncer) \/ Finish(Syncer)

WorldStep == Tick \/ Crash \/ Restart

Next == (\E t \in Tasks : AgentStep(t)) \/ SyncStep \/ WorldStep

Spec == Init /\ [][Next]_vars

-----------------------------------------------------------------------------
(* Properties                                                              *)

MemoryOK ==
  /\ activeClaims \in [ClaimIds -> Claim \cup {NoClaim}]
  /\ issueToClaimId \in [Issues -> ClaimIds \cup {NoId}]
  /\ history \in Seq(Entry) /\ Len(history) <= HistoryMax
  /\ totalClaims \in Nat

Rows == [active : [ClaimIds -> Claim \cup {NoClaim}], history : Seq(Entry), total : Int]

DiskOK ==
  /\ db \in Rows /\ Len(db.history) <= HistoryMax /\ db.total >= -1
  /\ failures \in 0..MaxFailures /\ dirty \subseteq ClaimIds

CallsOK ==
  /\ lockQueues \in [Issues -> Seq(Procs)]
  /\ pc \in [Procs -> {"idle", "waiting", "done", "sweeping"}]
  /\ request \in [Procs -> Request \cup {NoRequest}]
  /\ answer \in [Procs -> Answer]
  /\ todo \subseteq [claim_id : ClaimIds, issue : Issues]

WorldOK ==
  /\ up \in BOOLEAN /\ crashes \in 0..MaxCrashes /\ tainted \in BOOLEAN
  /\ issued \subseteq ClaimIds /\ granted \subseteq ClaimIds

\* Every variable stays in its type; both histories stay within the
\* configured length (trimHistory, trimClaimHistory).
TypeOK == MemoryOK /\ DiskOK /\ CallsOK /\ WorldOK

\* No two active claims are on one issue: claimIssue's check, the index entry
\* it reads and the one applyTransitionLocked deletes stay in step through any
\* interleaving, failed writes included, until a restart reloads rows that a
\* failed write had left behind.
OneClaimEach(claims) ==
  \A a, b \in Live(claims) : claims[a].issue = claims[b].issue => a = b

Exclusive == ~tainted => OneClaimEach(activeClaims)

\* An index entry always leads to an active claim of its issue, even after a
\* restart on stale rows (so claimIssue's and reconcileIssueSnapshot's repairs
\* of a dangling entry never have work), and every active claim is indexed
\* until such a restart.
IndexSound ==
  \A i \in Issues :
    issueToClaimId[i] # NoId => /\ activeClaims[issueToClaimId[i]] # NoClaim
                                /\ activeClaims[issueToClaimId[i]].issue = i

IndexComplete ==
  \A id \in Live(activeClaims) : issueToClaimId[activeClaims[id].issue] = id

IndexConsistent == IndexSound /\ (~tainted => IndexComplete)

\* A transaction that failed leaves only its own claim's row behind memory,
\* and the next one that succeeds for the claim brings it up to date: every
\* change of a claim in memory has its write (persistClaimMutation).
DiskFollowsMemory ==
  up => /\ \A id \in ClaimIds \ dirty : db.active[id] = activeClaims[id]
        /\ dirty = {} => db.history = history

\* A claim its agent was told it got (not idempotently) is on disk from then
\* on, as active or as ended, through failed writes, crashes and restarts.
\* The history may forget it only once it is full.
Recorded(h, id) == \E n \in 1..Len(h) : h[n].claim_id = id

GrantedIsDurable ==
  \A id \in granted :
    \/ db.active[id] # NoClaim
    \/ Recorded(db.history, id)
    \/ Len(db.history) = HistoryMax

\* What a body decided is still so when its caller is answered: the lock is
\* held until then, and no other call can have changed the issue's claim.
AnswersHold ==
  \A t \in Tasks :
    pc[t] = "done" =>
      LET r == request[t]
      IN /\ answer[t] \in {"granted", "confirmed"} =>
              /\ issueToClaimId[r.issue] = r.claim_id
              /\ activeClaims[r.claim_id] # NoClaim
              /\ activeClaims[r.claim_id].agent = r.agent
         /\ answer[t] = "taken" =>
              /\ issueToClaimId[r.issue] = r.claim_id
              /\ activeClaims[r.claim_id].agent # r.agent
         /\ r.op = "update" /\ answer[t] \in {"applied", "same"} /\ r.to \in Active =>
              /\ activeClaims[r.claim_id] # NoClaim
              /\ activeClaims[r.claim_id].status = r.to

\* A change of state that is reported as done is on disk when it is reported:
\* the rows of its claim agree with memory, whatever failed before.
ChangesAreDurable ==
  \A p \in Procs :
    pc[p] = "done" /\ answer[p] \in {"granted", "applied"} =>
      LET id == IF request[p].op = "reconcile" THEN issueToClaimId[request[p].issue]
                ELSE request[p].claim_id
      IN id # NoId => db.active[id] = activeClaims[id]

\* A claim ends once: no id is twice in a history, or in it and active, in
\* memory or in the rows (claim_history's UNIQUE claim_id is never hit).
EndedOnce(claims, h) ==
  /\ \A m, n \in 1..Len(h) : h[m].claim_id = h[n].claim_id => m = n
  /\ \A n \in 1..Len(h) : claims[h[n].claim_id] = NoClaim

EndsOnce == EndedOnce(activeClaims, history) /\ EndedOnce(db.active, db.history)

\* The step is the locked body of p's call.
Decides(p) == pc[p] = "waiting" /\ pc'[p] = "done"

\* A claim past the pull request's submission has its URL, and so has a claim
\* when its agent closes it, by whatever way through 'stale' it came there.
PrOnRecord ==
  \A id \in Live(activeClaims) :
    activeClaims[id].status \in {"pr_submitted", "pr_merged"} => activeClaims[id].pr

ClosesWithPr(t) ==
  Decides(t) /\ request[t].op = "update" /\ request[t].to = "closed" =>
    LET id == request[t].claim_id
    IN activeClaims[id] # NoClaim /\ activeClaims'[id] = NoClaim => activeClaims[id].pr

PrBacked == []PrOnRecord /\ [][\A t \in Tasks : ClosesWithPr(t)]_vars

\* While the process runs, a claim stops being active only in a call of its
\* own agent, by its issue's closing on GitHub, or in a sweep that finds it
\* stale for the whole grace period.  (In particular a sweep that waited for
\* the lock does not act on what its snapshot showed.)
MayEnd(id, c, p) ==
  /\ Decides(p) /\ request[p].issue = c.issue
  /\ CASE request[p].op = "update" ->
            request[p].agent = c.agent /\ request[p].claim_id = id /\ request[p].to \in Terminal
       [] request[p].op = "reconcile" -> request[p].closed
       [] request[p].op = "sweep" ->
            /\ c.status = "stale"
            /\ StaleAutoRelease > 0 /\ c.staleFor = StaleAutoRelease
       [] OTHER -> FALSE

EndsRightly ==
  [][\A id \in ClaimIds :
       activeClaims[id] # NoClaim /\ activeClaims'[id] = NoClaim /\ up' =>
         \E p \in Procs : MayEnd(id, activeClaims[id], p)]_vars

\* Every call that holds or awaits an issue's lock is still under way, on that
\* issue, and is in the queue once: no exception, sweep cut short or crash
\* leaves a lock to a call that is gone, for which all others would wait.
LocksHaveOwners ==
  \A i \in Issues : \A n \in 1..Len(lockQueues[i]) :
    LET p == lockQueues[i][n]
    IN /\ pc[p] \in {"waiting", "done"} /\ request[p].issue = i
       /\ \A m \in 1..Len(lockQueues[i]) : lockQueues[i][m] = p => m = n

\* Every call returns, however calls, sweeps, failed writes and crashes
\* interleave: no issue's queue is ever left with an owner that is gone.
CallsReturn == \A p \in Procs : pc[p] # "idle" ~> pc[p] = "idle"

-----------------------------------------------------------------------------
(* What the documents promise without the qualifications above             *)

\* README.md:11 "Claim exclusivity with per-issue locking": two agents never
\* hold one issue.  A release whose transaction fails leaves the claim's row;
\* the next claim of the issue and a restart make two.
ExclusiveAlways == OneClaimEach(activeClaims)

\* README.md:53 "State is persisted ... and survives restarts": an agent that
\* is told it holds a claim holds it on disk.  The retry of a claim whose
\* first transaction failed is answered from memory alone.
HeldIsOnDisk ==
  \A t \in Tasks :
    pc[t] = "done" /\ answer[t] \in {"granted", "confirmed"} =>
      db.active[request[t].claim_id] # NoClaim

=============================================================================
