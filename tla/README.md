# IssueCommand in TLA+

IssueCommand hands GitHub issues to coding agents. One Bun process keeps the
claims in memory, writes every change through to SQLite, answers agents over
MCP and HTTP, and reconciles its claims with GitHub on a timer. This directory
holds TLA+ models of it, the TLC runs that check them and TLAPS proofs about
them. Paths below are relative to the repository.

The program is one JavaScript thread. Code between two `await`s is atomic, and
everything hard in it comes from what happens *at* the awaits: other calls, the
sync run, the clock, a failing write or the end of the process. All models
split operations exactly there.

## 1. Inventory

### ClaimManager (`src/claim-manager.ts`, modelled)

*State.* `activeClaims` (claim_id to record), `issueToClaimId` (the index that
decides whether an issue is free), `history` (ended claims, newest first,
bounded), `lockQueues` (per issue a chain of promises), `totalClaims`.

*Operations.* `claimIssue`, `releaseIssue`, `updateClaimStatus` for agents;
`reconcileIssueSnapshot`, `runStaleSweep`, `setLastGithubSyncAt` for the sync
service; `initialize`/`hydrate` at the start. The first five do a lookup, wait
for the issue's lock, look up again and change memory; the change is then
written in one SQLite transaction. When the transaction throws, memory stays
changed and the exception goes to the caller.

*What is hard.* The state seen before the lock is stale under it; a sweep works
through a snapshot; memory and rows differ after a failed write; a restart
reads rows that a failed write left; all calls on an issue hang if one owner of
its lock never lets go.

*What makes it correct.* One active claim per issue; index and claims agree;
rows and memory agree; a claim ends once and only for a reason the code has;
what a client was told is so, and stays so over a crash; every call returns;
idle claims are flagged and stale ones let go.

### SQLite tables (`src/persistence/sqlite-store.ts`, `sqlite-relational-persistence.ts`, partly)

`claim_active` (no uniqueness per issue, read without an order),
`claim_history` (ordered, `claim_id` unique, trimmed) and `claim_runtime_state`
(one row, absent until first written). `followup_active` and `followup_history`
(`source_event_id` unique in each), `followup_seen_source_events` (bounded) and
`webhook_deliveries` (bounded). Each mutation of a manager is one transaction,
atomic and synchronous; marking a delivery is an insert and, apart from it, a
trim. The debounced `scheduleSave` with its delta and the import of old JSON
state are not modelled; `index.ts` wires up the transactional path, so the
debounced one has nothing pending.

### SyncService (`src/sync.ts`, modelled)

*State.* the interval timer, `syncRunInFlight`, `syncRunPending`, and the local
state of the run: the repositories left, the open issues listed, the claims of
the repository still to be reconciled. `knownOpenIssues` only feeds a counter.

*Operations.* `start`, `stop`, `scheduleSyncRun`, `runOnce` (sweep, resolve the
repositories, and for each: list, snapshot, reconcile one by one; then note the
time and report).

*What is hard.* GitHub and the claims change between listing and snapshot,
and between snapshot and reconciliation; any step may throw; a tick comes
during a run; `stop` comes during a run.

*What makes it correct.* One run at a time; runs recur whatever throws; a
closed issue's claim ends, even if another repository can never be listed; no
run starts after `stop`, and `stop` returns.

### IssueCommandService (`src/issuecommand-service.ts`, modelled) and GitHubService (`src/github.ts`, partly)

*State.* None, but for the local state of each call: what was listed so far,
the candidates, what is awaited. GitHubService caches whether `gh` is there.

*Operations.* `claimIssue` fetches the issue and then claims it; `nextIssue`
lists the open issues of its repositories concurrently, drops the claimed ones,
sorts and tries the rest one after the other; `nextWork` asks for a follow-up
first; `updateClaimStatus` closes the GitHub issue once the claim is closed. A
listing is one `gh` call, or, when that fails or reaches its limit, page after
page of the REST interface, pull requests included.

*What is hard.* GitHub and other agents go on between any two awaits: an issue
is closed between two pages, claimed while a list is sorted, closed while a
claim waits for its lock.

*What makes it correct.* An agent is told there is no work only when there is
none, gets the most urgent issue first, and gets no issue that was closed
before it asked.

### FollowupManager (`src/followup-manager.ts`, modelled) and its sweep scheduler (`src/followup-sweep-scheduler.ts`, modelled)

*State.* `active` follow-ups, bounded `history`, `sourceEventToWorkItemId` (the
map that deduplicates), a bounded list of seen source events, a lock per pull
request; the scheduler's timer and its run in flight.

*Operations.* `createFromWebhook`, `claimNextFollowup`, `updateFollowupStatus`,
`resolveBySynchronize`, `runStaleSweep`, `hydrate`.

*What is hard.* Three sources of deduplication with bounds of their own, the
memory-before-disk order of the claims, UNIQUE constraints that the rows a
failed write left can violate, one transaction per item in
`resolveBySynchronize`, and calls that go through several locks in turn.

*What makes it correct.* A review comment is work at most once, one agent at a
time has it, it is over when it is over, redeliveries and restarts whatever;
abandoned work is offered again.

### GitHubWebhookConnector (`src/github-webhook.ts`, modelled)

*State.* the bounded list of seen deliveries in memory; the table of them.

*Operation.* `process`: authorise, parse, answer what memory has seen, mark in
the table, act. *What is hard:* GitHub repeats and reorders; a delivery is marked
before it is acted on, so that a failure in between loses it; the two lists
forget at different moments. *Correct* when what was answered ok was acted on,
but for that window.

### TokenBucketLimiter (`src/rate-limit.ts`, modelled)

A bounded map of buckets with lazy refill, idle expiry and eviction of the one
served longest ago. Correct when a key gets its burst and its rate, and may rely
on `Retry-After`; eviction and a clock that goes back are what can break that.

### HTTP server and SSE (partly), MCP server, configuration, logging, JSON persistence

HTTP and MCP validate and pass on to the service; what they let an agent ask for
is the constant `AgentUpdates` (the MCP schema admits every status, `stale`
included). Of the HTTP server, the rate limit of the mutation routes is in
TokenBucket and the webhook route in WebhookDelivery; SSE is a best-effort
broadcast. Configuration is constants. The rest is not modelled (section 7).

### Interactions

    agents -> MCP / HTTP -> IssueCommandService -> ClaimManager -> SQLite
                                    |    |
                                 GitHub  FollowupManager -> SQLite
    timer -> SyncService -> ClaimManager      ^
                  |                           |
                GitHub -> webhook connector --+

All calls are in one process; ClaimManager and FollowupManager share nothing
but the database file, and each has its own locks.

## 2. Modules

| module | models | built on |
|---|---|---|
| `ClaimManager` | the claim manager over its rows | |
| `ClaimRegistry` | what the manager promises: an abstract lock service | |
| `ClaimRefinement` | the refinement mapping between the two | `ClaimManager`, `ClaimRegistry` |
| `SyncService` | the reconciliation loop driving the claim manager | `ClaimManager` |
| `WorkService` | requests for work, listings and closings around the claim manager | `ClaimManager` |
| `FollowupManager` | the follow-up manager over its rows, and its scheduler | |
| `FollowupQueue` | what the manager promises: an abstract queue of comments | |
| `FollowupRefinement` | the refinement mapping between the two | `FollowupManager`, `FollowupQueue` |
| `WebhookDelivery` | the webhook connector driving the follow-up manager | `FollowupRefinement` |
| `TokenBucket` | the rate limiter as the mutation routes use it | |
| `MCClaimManager`, `MCSyncService`, `MCWorkService`, `MCFollowups`, `MCWebhook`, `MCTokenBucket` | inputs and symmetry for TLC | the module of that name |
| `ClaimManagerProofs` | types, exclusivity, index, rows, the refinement | `ClaimRefinement` |
| `ClaimLifeProofs` | answers, durability, ends of claims, locks | `ClaimManagerProofs` |
| `SyncServiceProofs` | that the sync loop uses the manager as specified | `SyncService`, `ClaimLifeProofs` |
| `WorkServiceProofs` | that the service does too, and that no work is overlooked | `WorkService`, `ClaimLifeProofs` |
| `FollowupProofs` | types, bounds and locks of the follow-up manager | `FollowupManager` |
| `FollowupSafetyProofs` | deduplication, rows, hand-overs, the refinement | `FollowupProofs`, `FollowupRefinement` |
| `WebhookProofs` | what answered deliveries leave, the manager behind the connector | `WebhookDelivery`, `FollowupSafetyProofs` |
| `TokenBucketProofs` | the bound of the map, honest waiting times, lazy refilling | `TokenBucket` |

Definitions whose comment starts with *mutant* are deliberately wrong variants
of the definition after them; no specification uses them. They are there to
show that each property notices the bug it is meant for.

### ClaimManager

A call is a process: each element of `Tasks` is a slot for a concurrent call of
an agent, `Syncer` is the sync run. A call takes three steps.

* `Invoke...` is the synchronous prefix: the first lookup, then the caller is
  appended to the issue's queue. `lockQueues[i]` is a sequence of processes; the
  chain of promises of `withIssueLock` is such a queue.
* `Run...` is the locked body, enabled at the head of the queue. The body
  awaits nothing unresolved, and bun:sqlite's transactions are synchronous, so
  that it is one step, with two outcomes: the transaction commits, or it throws
  and only memory has changed (`Transact`). `reconcileIssueSnapshot` may use
  two transactions: the outcome where the first commits and the second fails is
  there, and the one where the first fails.
* `Finish` is the `finally` that lets go of the lock, and the answer.

A sweep is `StartSweep` (the snapshot), then per claim `SweepNext`, `RunSweep`,
`Finish`; an exception ends it. `releaseIssue` is an update to `released`: the
two bodies are the same once the agent was checked. `Crash` empties memory and
drops the calls in flight, at any moment; `Restart` is `hydrate` on the rows,
with either of two rows of one issue taking the index entry.

Time is kept as two ages per claim, minutes since `last_updated` and since the
last `stale` entry of the status history, each capped at the timeout it is
compared with: nothing looks at more, and time may go on for ever in a finite
model. `Tick` ages memory and rows alike, since both hold the same timestamps.
That a failed write leaves an older timestamp in the row is kept: the row has
its own copy of the record and its ages.

Title, labels and assignees are one abstract value, `meta`. A pull request URL
is the Boolean `pr`. Two variables are ghosts of the world's view (`issued`,
`granted`) and two record what went wrong: `dirty` has the claims whose last
transaction failed, `tainted` is set when a restart loads rows while there are
such claims. Ghosts are never in a guard, `issued` excepted: it makes fresh
identifiers fresh, as `randomUUID` does.

### ClaimRegistry and ClaimRefinement

ClaimRegistry has two actions: `Grant` gives a free issue to an agent under an
identifier never used before, `End` ends a claim. It knows no locks, memory,
transactions, crashes or restarts. The mapping reads its state off the *rows*,
so that a crash and the restart after it are stutters: what the registry says
holds over a restart. It is implemented only while no write fails, and run
`TwoHolders` shows why.

### SyncService

It extends ClaimManager, whose actions it takes over, restricting the sync
service's to what `sync.ts` does. `run` is the program counter of `runOnce`;
`TimerFires`, `EndRun` and `stop` are `scheduleSyncRun` and `stop`; the rest is
`runOnce`, one action from each await to the next. `GitHubLists` is the moment
at which GitHub takes the list and `TakeSnapshot` the one at which it has arrived
and the claims are read: in between anything may happen. GitHub itself opens
and closes issues at will. That a sync run uses the claim manager only as
ClaimManager's `Spec` allows is the property `UsesClaimManager`, and with it
everything checked and proved of `Spec` holds for the composition.

### WorkService

A call of the service is a task again, and `at` says what it awaits: the
follow-up queue, the listings, the claim manager, the closing of an issue. While
it awaits the claim manager, the claim manager has a call of the task, and its
own actions (`InvokeClaim`, `Run`, `Finish`) are those of ClaimManager. `lists`
keeps each repository's listing apart, since they are made concurrently:
`GhAnswers` is a complete answer of the tool, `GhFallsShort` its failure or its
limit, `RestPage` a page *of what is open at that moment*, so that the items
shift under a listing as they do at GitHub. A listing and the candidates are
counts per issue, not sequences: the sort makes an end of whatever order they
came in, and the loop over the sorted candidates always takes the `Best` of those
left, by score and age (`Ahead`), an issue that was listed twice twice. The follow-up queue is any answer it may give; that module is composed
elsewhere and shares no state.

Three ghosts watch a call: `steady` has the issues that were open and unclaimed
ever since it began, `seenOpen` those open at some time, `shifted` the
repositories in which something closed between two of its pages.

### FollowupManager

The split of a call is ClaimManager's, with a queue per pull request. Two calls
go through several locks: a request for work tries its candidates
(`LookOn`), and the sweep its snapshot. `resolveBySynchronize` holds one lock
and awaits nothing between its transactions, but the process may die between
two: each is a step, `ResolveNext`, and `Calm` lets nothing else happen until
the last (`pc = "resolving"`).

Work items are numbered in the order of creation, so that the number is
`work_item_id` and `created_at`. `db` has the three follow-up tables, as records
and sequences. `Fits` is their UNIQUE constraints, so that a transaction fails
by itself where the rows a failed write left stand in its way, and such a
failure is not counted against `MaxFailures`. `RowNoted` does to the table of
seen events what the code does: the new row, the row of each event evicted from
memory, then a trim of the table's own. `Restart` is `hydrate`: active items in
any order, since their rows are read in none, then the history.

### FollowupQueue and FollowupRefinement

A comment is *none*, *waiting*, *held*, *lapsed* or *over*, once each but for
the alternation of held and lapsed; the queue knows no deliveries, locks, trims,
crashes. The mapping reads the rows: a comment without an item whose event is
known to the history or the table of seen events is *over*.

### WebhookDelivery

Composes `process` with the manager: a hook is a request in flight, `stage`
says where it is, and `Act` is the call of the manager, whose own actions it
takes. GitHub may deliver any delivery again at any time, and two hooks may have
the same one. `MarkFails` has both ways in which marking fails: nothing was
written, or the row was and the trim failed. The ghost `fate` says of each
actionable delivery whether it was answered ok, and whether it was once marked
and then cut off by a failure or a crash (*lost*).

### TokenBucket

One step is one request: the principal's bucket and, if it allows, the agent's.
The Map is a sequence in insertion order, since among equally old entries the
first is evicted. Tokens are in units, so that fractions are exact. The clock is
a number, and `SetBack` sets it to any earlier time. The ghost `credit` is each
key's bucket as it would be if it were refilled as time passes; `promise` is
the time a denied key was told to come back at.

## 3. Runs

| run | asks |
|---|---|
| `ClaimRaces` | two agents, two issues, two claims, two calls at once, sweeps, reconciliations, history of length 1, one crash, no failing write: refinement of the registry, with which goes that an issue has one claim at most, `AnswersHold`, `DiskFollowsMemory`, `EndsRightly` |
| `ClaimFailures` | two agents, one issue, two claims, two calls at once, one failing write, one crash: `Exclusive`, `IndexConsistent`, `DiskFollowsMemory`, `GrantedIsDurable`, `EndsOnce`, `LocksHaveOwners` |
| `ClaimLifecycle` | one claim, all fourteen updates, timeouts of two minutes, two metadata values, history of length 0, one failing write, one crash: types and bounds, `ChangesAreDurable`, `PrBacked`, `EndsRightly` |
| `SyncRuns` | the sync loop with two repositories, one of which may never list, one failing write, one crash, a stop, under fairness: `UsesClaimManager`, `RunsRecur`, `ClosedIsCaught`, `StopDrains`, `NoRunAfterStop`; and through the loop that really drives them, `CallsReturn`, `StaleClaimsReturn`, `IdleClaimsAreFlagged` |
| `FollowupFailures` | two comments and a push on one pull request, three items, one agent, one hook, the sweep, history of one, two seen events, one failing write, one crash (5.5 million states): types and bounds, `DedupeConsistent`, `RowsFollow`, `FinishedStaysFinished`, `FollowupLocksHaveOwners` |
| `FollowupRaces` | behind the connector, with lists of one delivery: one comment and a push, delivered at will to two hooks, two items, two agents with two calls, the sweep, a stop, no history, one crash, no failing write (1.8 million states): refinement of the queue, `HandedOverWhenStale`, `AckedIsActed` |
| `WebhookEvents` | three deliveries, of the comments of two pull requests and of something not actionable, repeated at will, one hook, one agent, lists of one delivery, one failing write, a stop, under fairness (72,000 states): `AckedIsActed`, `EveryCallReturns`, `WorkComesBack` |
| `RateLimit` | two principals, two agents, three buckets, a token of 5 units, a burst of 6, 2 units refilled per unit of time, idle after more than one unit and so before a bucket is full again, clock to 4 with one set-back (620,000 states): `BoundedStates`, `LazyIsEager`, `HonestRetryAfter` |
| `NextWork` | two agents, two calls at once, two claims, two issues and a pull request in two repositories, pages of one item, a limit of two (2.0 million states): `WorkTypeOK`, `NothingOverlooked`, `GivenWasOpen` |
| `TwoHolders` (violation) | `ExclusiveAlways` fails: release whose write fails, new claim, restart |
| `UnsavedRetry` (violation) | `HeldIsOnDisk` fails: claim whose write fails, retry answered from memory |
| `NewIssueClosed` (violation) | `NeverClosedIsKept` fails: an issue opened after the listing and claimed before the snapshot |

Deadlock is checked in every run; none of the systems stops.

*Bounds, and why they are enough.* Locks are per issue, so that a race needs
one issue; the second in `ClaimRaces` is there for what ignores the lock: the
index, the history and the sweep's snapshot. Two concurrent calls and the sync
run make a queue of three. Two identifiers let an issue be claimed again after
its first claim ended, which is what index repair, stale lookups and a row left
behind need. One failing write and one crash give every order of the two; more
failures repeat what one can do, since `dirty` forgets a claim at its next
successful write, and the proofs cover any number. A timeout of one minute
distinguishes *touched since the last minute* from *not*; `ClaimLifecycle` has
two to tell the boundary from what is below it, and asks for every status.
Histories of length 0, 1 and 2 all occur; `ClaimRaces` ends two claims with
room for one, so that trimming has an effect. `ClaimLifecycle` has a second
metadata value, so that a reconciliation that closes writes twice. A cut sweep
leaves something behind only when its snapshot has two items: `WebhookEvents`
has two comments for that. `SyncRuns` has one claim, with which a cut sweep
leaves nothing behind: two claims, with the repositories, the closings and the
crash the run has, are more than TLC can check for liveness.
Symmetry is used where agents, issues, identifiers, comments and tasks are
interchangeable, and in no run with a liveness property.

For follow-ups, two comments and three items let one comment be work, be
trimmed from a history of one by the other, and come back; with a push that is
three events for a list of two, so that it overflows. With no history at all
every end is trimmed at once and deduplication rests on the seen list alone,
which is what `FollowupRaces` wants. A second comment adds nothing to a race
for the work of one, which is about one item. The connector's lists of size one
forget at the second delivery, and with two hooks a forgotten one comes through
while the first hook is still at it. A page of one item makes every listing take several pages; the pull
request and one of the issues share a repository, so that a page without
issues occurs, and a limit of two lets that repository reach it or not. A burst
of 6 with tokens of 5 and a rate of 2 leaves fractions at every step, and takes
three units of time to refill, while an entry is idle after two: both ways of
losing a bucket that is not full occur.

Every bound is a constant or a guard: `ClaimIds` bounds the claims ever made
(`SpareIds` and WorkService's `SpareId` keep a call from starting without an
identifier for it), `MaxItems` the work items (`SpareItems` likewise), `Tasks`,
`Workers` and `Hooks` the calls in flight, `MaxTime` and `MaxSetBacks` the
clock, `MaxFailures` and `MaxCrashes` what goes wrong.

*Fairness.* `SyncService`: a body at the head of its queue runs and its call
finishes (microtasks drain), the run goes on, a dead process is started again
(`docker-compose.yml` has `restart: unless-stopped`), the interval fires, time
passes, and requests to GitHub end, with an answer or an error. The code has no
timeout for them, so that the last is an assumption about GitHub and the
network. Agents owe nothing: no call is assumed ever to be made. Only for
`ClosedIsCaught`, resolving the repositories and listing a `Reliable` one
succeed now and then. That sweeps recur is not assumed but follows.

`WebhookDelivery`, the manager behind it included: the same, and strong fairness for the
steps of calls, the sweep and the clock: a webhook's synchronous loop disables
them for its length, and any number of such loops may come between. A loop
ends, and the event loop serves what became ready before it serves what comes
after, which is what strong fairness says. That the clock's steps come between
is no more than that loops take no infinite number of minutes. No delivery is
assumed to be made or repeated.

*What the properties say.*
`Exclusive` and `IndexConsistent` are qualified by `tainted`, and the violation
run shows that the qualification is needed. `AnswersHold` is what the lock is
for: between the body and the answer nothing changed. `EndsRightly` constrains
a step by the state before it: whose call, which claim, how long stale.
`PrBacked` follows the pull request through the whole transition table: the
statuses that need one have it, and so has the claim at the step in which its
agent closes it, even out of `stale`.
`GrantedIsDurable` speaks of all claims ever granted, over crashes.
`ChangesAreDurable` says that no failure is swallowed.
`LocksHaveOwners` and `FollowupLocksHaveOwners` are the safety half of *every call
returns*: a queue whose head is under way moves on. The other half, that who is
under way gets there, needs fairness.
`DedupeConsistent`, `RowsFollow` and `FinishedStaysFinished` are the three sources
of deduplication, in memory, on disk, and over time. Two qualifications are the
code's: `Overflow` (more events than the list of seen ones holds) and `unsaved`
(an event whose first transaction failed; cf. section 5). `HandedOverWhenStale` is
what the second look under the lock is for. `AckedIsActed` admits *lost* ones: it
says that nothing *else* is dropped, in particular nothing that one hook answers
as a duplicate because another had it. `WorkComesBack` has a failing write
end a sweep in the middle, with an item behind it. Of the calls that take several
locks in turn, `EveryCallReturns` has the sweep; a request for work that goes
on to its next candidate is in `FollowupFailures` and under
`FollowupLocksOwned`. `LazyIsEager` compares the limiter with a textbook
one, fraction by fraction: no key has more unless it was evicted early (`NoMore`),
and none has less unless the clock was set back (`NoLess`). What an evicted key
gains is at most a full burst each time; how often it is evicted is not bounded
by the code. `NothingOverlooked` relates what an agent is told
to everything that was open through its call, over all the interleavings of
pages, claims and GitHub; `shifted` is the one exception.

## 4. Proofs

All theorems hold for every value of the constants, under the assumptions
the modules state and TLC evaluates: configured numbers are natural numbers,
agents ask for statuses there are, there are finitely many claim identifiers
and finitely many webhook slots (`InputAssumption`), the repositories are a
sequence of repositories (`RepoAssumption`), issues and pull requests are finitely
many and of different ages, pages and limits are not empty and an agent asks for
one repository or for all (`WorkAssumption`), the connector's list and its table have
room for at least one delivery (`DeliveryAssumption`), the limiter's rate is not zero and
its burst not less than a token (`LimitAssumption`), and sentinels differ
from what they stand in for. The two refinements assume in addition that no
write fails, which section 5 shows they must.

### ClaimManager

* `TypeCorrect`: `Spec => []TypeOK`. `TypeOK` is not inductive: `Finish` takes
  the tail of a queue, so `TypeInv` adds `QueuesOK` (a waiting call is in its
  queue, a finishing one at the head) and `GrantsOK` (a call that is to answer
  *granted* has an identifier).
* `ExclusiveHolds`, `IndexHolds`, `DiskHolds`: `Spec => []Exclusive`,
  `[]IndexConsistent`, `[]DiskFollowsMemory`. None is inductive alone, and
  `SafeInv` proves all of them together. Exclusivity needs the index to be
  complete, since `claimIssue` looks at nothing else. After a restart the index
  comes from the rows, so the rows must be exclusive (`RowsExclusive`); they
  are, because but for dirty claims they are memory (`RowsFollow`); and an
  unused identifier has neither claim nor row (`FreshIds`). `HistoryFollows`
  needs to know that a dirty claim may still be active in memory, and
  `NoCallsDown` that no body runs in a dead process. The proof has a lemma for
  each of the three ways in which a body changes state (`PutSafe`, `EndSafe`,
  `CreateSafe`), one for a transition, one per body and one per kind of step.
* `RegistryImplemented`: `MaxFailures = 0` gives `Spec => ImplementsRegistry`.
  With no failing write `Clean` (nothing dirty or tainted) is invariant, rows
  equal memory, and the check of the index in memory is a check of the rows.
  Each step then leaves the rows as the registry sees them, ends one of them
  or makes one (`RowStep`), and that is a stutter, an `End` or a `Grant`
  (`RowStepMaps`).
* `AnswersHoldTrue`, `DurableAnswers`, `GrantsLast`, `EndsOnceOnly`, `PrsBacked`
  (the invariants `AnswersHold`, `ChangesAreDurable`, `GrantedIsDurable`,
  `EndsOnce`, `PrBacked`) and `EndsByRightOnly` (the action property
  `EndsRightly`) rest on one more strengthening, `LifeInv`. Its heart is that
  two calls under locks are on different issues, and that a body changes only
  the claim its request is about. That this claim is of the issue whose lock
  the call took is not checked by any code: it holds because the lookup before
  the lock chose the lock by the claim, and a claim never changes its issue
  (`OnIssue`). So what a body decided stays so until its caller is answered.
* `LocksOwned` (`LocksHaveOwners`) is the converse of `QueuesOK`: not only is every
  call in its queue, there is nothing in a queue but calls, once each. That it is
  once is needed for itself: `Finish` takes one place away, and a second one
  would belong to a call that is gone.

### SyncService

* `ManagerUsedWell`: `SyncSpec => UsesClaimManager`. ClaimManager lets the sync
  service begin a sweep or a reconciliation only when its last call has
  returned; the service never looks whether it has. It need not, because
  `scheduleSyncRun` begins a run only when none is in flight, a run has a call
  in flight only where it awaits one, and one that an exception ended has none
  left (`OneCall`, `SweepsDone`).
* `ClaimsUnderSync`: all safety theorems about claims, and the refinement, hold
  of the composition.
  `SyncTypeCorrect` and `StopStops` (`NoRunAfterStop`) are the service's own.

### WorkService

* `WorkUsesManager`: `WorkSpec => Spec`, since a call of the service begins one of
  the manager's only where it has none; so `ClaimsUnderWork` carries over all that
  is proved of claims.
* `WorkSafety` proves `ServiceInv`, an invariant that says of each call what it has
  in hand at each of its awaits; the three theorems below read it off at the
  last one. It was checked with TLC on the bounds of `NextWork` first.
* `NoWorkOverlooked` (`NothingOverlooked`). An issue that was free all through a
  call must be somewhere at every stage: to be listed, on a page to come or in
  what was found (`Reaches`), then among the candidates or behind the one that is
  tried (`InSight`). The pages are the hard part. That page *n* is still to come
  for an issue means that at least *(n - 1) PageSize* open items are newer. An
  item that opens can only add to those that are newer, so that only a closing
  makes them fewer, and that is what `shifted` notes (`NewerStays`, `NewerCounts`,
  `ReachesOn`).
  The last page is known by its not being full, and then nothing is left behind
  it. And the loop drops a candidate only when the manager said *taken*, and then
  it was not free.
* `GivenIsOpen` (`GivenWasOpen`): what a call found was open when it was found, and
  what it tries was found (`WasOpen`). `WorkTypesHold` (`WorkTypeOK`): types, and that
  a call awaits the manager exactly while the manager has a call of its task.

### FollowupManager

* `TypesAndBounds`: `Spec => []FollowupTypeOK`, by the strengthening `TypeInv`.
  The bounds of the lists of seen events are the hard part: what is evicted from
  memory is deleted from the rows, one row per event, and the rows are then cut
  themselves; after a restart `hydrate` makes a third list of both.
* `FollowupLocksOwned` (`FollowupLocksHaveOwners`): as for claims, with calls that
  go on from one pull request's lock to the next one's.
* Every step is reduced to what it does to memory and rows: a body leaves them
  alone, moves an item, creates one, ends one or notes a push; or time passes,
  the process dies, it starts again (`StepIs`, `Does`). All that follows is
  proved over these cases and knows nothing of calls and locks.
* `DedupeStays` (`DedupeConsistent`) and `ChangesHandsWhenStale`
  (`HandedOverWhenStale`) come from `SafeInv`: item numbers are in order, an
  item ends once, the map that deduplicates leads to active items and knows all
  comments of the history; and the rows fit the UNIQUE constraints.
* `RowsFollowMemory` (`RowsFollow`) needs two invariants that feed each other,
  `FollowInv` (all items but dirty ones are the same in the rows) and `SeenInv`
  (what was noted is in the lists while they have not overflowed). The list
  that `hydrate` makes is a recursive function over the rows; `LoopSeen` says
  what it holds.
* `FinishedForGood` (`FinishedStaysFinished`): nothing that ended has an item, in
  memory or in the rows, until the list overflows. It needs to know that an
  item of memory and one of the rows for the same comment are the same item.
* `QueueImplemented`: `MaxFailures = 0` gives `Spec /\ []~Overflow =>
  ImplementsQueue`, and `QueueWithRoom` discharges `~Overflow` where the list has
  room for every event, as in `FollowupRaces`. With no failing write nothing is
  dirty and an event of the history is never active (`CleanInv`); a step then
  leaves the rows as they look, moves one, makes one or retires one, and each
  of these is a stutter or a step of the queue (`StepMaps`).

### WebhookDelivery

* `WebhookSafety`, `AnsweredIsActed`: `HookSpec => []AckedIsActed`. A delivery is
  answered without being acted on when memory or the table knows it, or when the
  manager knows its event; so whatever one of them knows must be accounted for:
  its event is in the table of seen events, it is in the hands of a hook, or a
  delivery of it was *lost* (`Accounts`). The manager in turn answers what its
  memory knows, and memory may be ahead of the rows: then the transaction that
  should have written them failed, and the hook that ran it is still about to
  tell GitHub so, under the lock that keeps others from asking, or has told it
  (`UnsavedLost`, `Decided`).
* `FollowupsUnderWebhook`, `QueueUnderWebhook`: types, deduplication, rows, ends,
  hand-overs, locks and the refinement of the queue hold of the manager behind the
  connector. This is not for free: deliveries go on after the scheduler's stop, and
  a marking that fails is no step of the manager's (`ManagerStep`); it takes that
  these steps leave alone what the promises are about (`HookStill`).

### TokenBucket

* `BoundedHolds`, `RetryAfterHonest`: `Spec => []BoundedStates` and
  `Spec => HonestRetryAfter` for TokenBucket, whatever the rates, the size of the
  map, the callers and the clock. The second needs `KeptFor`: the tokens of a
  bucket, refilled up to the time its key was told, make a whole token. It is
  inductive because a lookup of another key leaves a bucket as it is or evicts
  it (`OthersKept`), an evicted one comes back full (`BucketProperties`), and a
  denial rounds up (`RetryCovers`). That the map has an entry to lose rests on
  the well-foundedness of the natural numbers (`LeastNatural`).
* `LazyHolds`: `Spec => []LazyIsEager`, by two bounds on what each entry holds when it
  is refilled up to now (`Held`). It is at most the credit of its key, unless the
  key was evicted early, and a key without an entry then has full credit
  (`HasAtMost`): an entry goes either when it is full, and then its credit is
  full too, or early. It is at least the credit as long as the clock was not set back
  (`HasAtLeast`), since an entry is refilled at least for the time that passed. No
  relation of the idle time to rate and burst is assumed: the defaults of `config.ts` have one, but other rates do not.

### What stays with TLC

All liveness, since fairness and `ENABLED` are beyond TLAPS: `RunsRecur`,
`ClosedIsCaught`, `StopDrains`, `CallsReturn`, `StaleClaimsReturn`,
`IdleClaimsAreFlagged`, `EveryCallReturns`, `WorkComesBack`. Every invariant and
every other action property or refinement that a passing run checks is a theorem.
Induction over data is used where it can be put as a least counterexample
among the natural numbers; the theorems of the library that take a predicate
as an argument cannot be used.

## 5. What the runs found

* A transaction that throws leaves memory ahead of disk. Reported to the caller
  as an error, but not undone: a released issue can be claimed again while its
  old row survives (`TwoHolders`), and a retry of a claim succeeds without a
  row (`UnsavedRetry`). README.md:11 and :53 promise more.
* The sync closes claims of issues that are not in a list taken before the
  claims were read (`NewIssueClosed`).
* Of two claims that `TwoHolders` leaves on one issue, only the indexed one is
  ever reconciled; the other outlives the closing of its issue. `ClosedIsCaught`
  therefore excludes restarts of this kind (its disjunct `tainted`).
* A follow-up whose first transaction failed lives in memory, and its row in the
  table of seen events is never written, not by later transactions of the item
  either: once its history entry is trimmed and the process restarted, a
  redelivery makes it work again. Before a restart it can also run into the
  UNIQUE constraint of its own event. Both are the `unsaved` of
  `FinishedStaysFinished`. QA_RISK_REGISTER_2026-02-09.md:82 (IC-QA-007, work made
  again after a restart and a trim) is resolved but for that.
* After a restart the list of seen events is ordered by `hydrate`, and its rows
  by when they were seen; each is then cut by its own order. Events known to
  memory can have lost their row once the list has overflowed.
* A delivery whose processing fails is answered 500 and stays marked: GitHub's
  next try is a duplicate, answered ok. README.md:340 promises duplicate
  protection and not more, so that this is stated (*lost*) and not reported.
* An issue can be missed by a listing when another is closed between two of its
  pages (`shifted` in WorkService); the sync would then end its claim as *closed
  externally*. SyncService itself does not show this: its `GitHubLists` takes the
  whole list at one moment.
* Of two claims on one issue, ending one frees the index entry whichever it
  leads to (claim-manager.ts:525). `Exclusive` and `IndexConsistent` except the
  restart that makes such claims (`tainted`).
* A reconciliation ends the claim the issue has when its lock is had, which need not
  be the one of the snapshot; no property forbids it.
* An issue given to an agent may have been closed since its list was taken or
  its details were fetched; `GivenWasOpen` says by how much.
* At the cap the limiter prunes before it looks up, and a denial does not count
  as a use: a client that keeps being denied is the first to be evicted, and
  starts again with a full burst. An entry that counts as idle is not full
  again either when the burst takes longer to refill than the 15 minutes of
  `rate-limit.ts`: a rate of 1 a minute with a burst of 20 is enough, and
  `config.ts` admits it.

## 6. Abstractions to know about

* Outside TokenBucket the clock does not go back. (`minutesBetween` clamps at 0,
  so that a clock that does delays staleness.)
* WorkService has no process death, failing write or sync run, which are
  ClaimManager's and SyncService's; a pull request is never reopened; filters
  by label and milestone are left out.
* The limiter's floating point is exact fractions in TokenBucket, and the two
  buckets of a request are asked at one `now`, where each call reads the clock.
* Sweeps and pushes go through their items in any order:
  the code goes by the order of a Map, which a restart makes that of rows read
  without an order.
* Rows of the same millisecond keep their order of insertion where the code
  sorts by time.
* Deliveries that are unauthorized or unparsable change nothing and have no step;
  those without an identifier, which GitHub does not send, are left out. An event's repository, author and
  text are left out: a comment is its pull request and its priority.
* `releaseIssue` and `updateClaimStatus` trim the agent's name, `claimIssue`
  stores it as it came: a name with spaces around it never matches its own
  claim. Names are model values here.
* Events and logs are left out; the listeners (SSE) do not call back.
* Corrupt rows, at which `loadClaimState` throws, do not occur.
* A write that fails is one that rolls back: SQLite's atomicity is assumed, and
  so is durability of what was committed.

## 7. Not modelled, and the plan

Not modelled: the debounced persistence and its delta (nothing reaches it with
the transactional drivers that `index.ts` wires up), the JSON file driver and
its one-time import, the MCP server (stateless), routing, authentication and
the event stream of the HTTP server, configuration and logging. They are pure
or best effort. The lateness of a `synchronize` event is not stated as a
property: the code has no notion of a push's age to compare it with.

1. Shutdown: calls that await GitHub while the sync is stopped and the database
   closed.
2. Heartbeats: agents that repeat a status, against
   issuecommand-agent-prompt.md:98.
