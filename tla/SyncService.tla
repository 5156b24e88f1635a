---------------------------- MODULE SyncService ----------------------------
(***************************************************************************)
(* The reconciliation loop (src/sync.ts) composed with the claim manager   *)
(* it drives and the agents it races with.                                 *)
(*                                                                         *)
(* ClaimManager lets the sync service sweep and reconcile at any time and  *)
(* with any input.  Here it does what sync.ts does: a timer starts runs,   *)
(* one at a time; a run sweeps, resolves the repositories, and for each    *)
(* one lists GitHub's open issues, takes a snapshot of the claims when the *)
(* list has arrived, and reconciles the claims of the snapshot one by one. *)
(* Every await is a step boundary: the issues at GitHub and the claims go  *)
(* on changing between any two of them.                                    *)
(*                                                                         *)
(* knownOpenIssues, which only counts newly opened issues for the report,  *)
(* is left out.                                                            *)
(***************************************************************************)
EXTENDS ClaimManager

CONSTANTS
  RepoList,    \* the repositories' full names, sorted
  RepoOf,      \* the repository of each issue
  Reliable,    \* repositories whose listing is not down for ever
  NoListing

Repos == {RepoList[n] : n \in 1..Len(RepoList)}

ASSUME RepoAssumption ==
  RepoList \in Seq(Repos) /\ RepoOf \in [Issues -> Repos] /\ Reliable \subseteq Repos

VARIABLES
  github,     \* issue -> "absent", "open", "closed", or "reopened" after a closing
  timer,      \* the interval timer is set: start() was called and stop() was not
  run,        \* where the run in flight is; "off" when syncRunInFlight is false
  pending,    \* syncRunPending
  reposLeft,  \* the rest of RepoList, that the run has still to list
  listing,    \* openSet: a repository and its open issues, as they were listed
  visits      \* claimsForRepo: the claims the run has still to reconcile

thread   == <<run, pending, reposLeft, listing, visits>>
syncVars == <<github, timer, thread>>
allVars  == <<vars, syncVars>>

IsOpen(i) == github[i] \in {"open", "reopened"}

SyncInit ==
  /\ Init
  /\ github \in [Issues -> {"absent", "open"}]
  /\ timer = TRUE /\ run = "off" /\ pending = FALSE
  /\ reposLeft = <<>> /\ listing = NoListing /\ visits = {}

-----------------------------------------------------------------------------
(* scheduleSyncRun                                                         *)

BeginRunInProgress ==   \* mutant: only claims being worked on are visited
  LET visited == {id \in Live(activeClaims) : activeClaims[id].status = "in_progress"}
  IN /\ run' = "sweep"
     /\ todo' = {[claim_id |-> id, issue |-> activeClaims[id].issue] : id \in visited}
     /\ pc' = [pc EXCEPT ![Syncer] = IF visited = {} THEN "idle" ELSE "sweeping"]
     /\ UNCHANGED <<memory, lockQueues, request, answer, disk, world, ghosts>>

\* runOnce up to its first await: runStaleSweep's snapshot.
BeginRun ==
  /\ run' = "sweep"
  /\ todo' = {[claim_id |-> id, issue |-> activeClaims[id].issue] : id \in Live(activeClaims)}
  /\ pc' = [pc EXCEPT ![Syncer] = IF Live(activeClaims) = {} THEN "idle" ELSE "sweeping"]
  /\ UNCHANGED <<memory, lockQueues, request, answer, disk, world, ghosts>>

TimerFiresAnew ==   \* mutant: syncRunInFlight is not looked at
  /\ up /\ timer /\ BeginRun
  /\ UNCHANGED <<github, timer, pending, reposLeft, listing, visits>>

\* A tick during a run is remembered, once.
TimerFires ==
  /\ up /\ timer
  /\ \/ run = "off" /\ BeginRun /\ UNCHANGED pending
     \/ run # "off" /\ ~pending /\ pending' = TRUE /\ UNCHANGED <<vars, run>>
  /\ UNCHANGED <<github, timer, reposLeft, listing, visits>>

\* The loop of scheduleSyncRun: another run if a tick asked for one.
EndRun ==
  /\ run = "over"
  /\ \/ pending /\ pending' = FALSE /\ BeginRun
     \/ ~pending /\ run' = "off" /\ UNCHANGED <<vars, pending>>
  /\ UNCHANGED <<github, timer, reposLeft, listing, visits>>

stopKeepsPending ==   \* mutant: syncRunPending is not reset
  /\ up /\ timer /\ timer' = FALSE
  /\ UNCHANGED <<vars, github, run, pending, reposLeft, listing, visits>>

stop ==
  /\ up /\ timer /\ timer' = FALSE /\ pending' = FALSE
  /\ UNCHANGED <<vars, github, run, reposLeft, listing, visits>>

-----------------------------------------------------------------------------
(* runOnce                                                                 *)

GiveUpStuck ==   \* mutant: a run that threw does not reset syncRunInFlight
  /\ run' = "stuck" /\ reposLeft' = <<>> /\ listing' = NoListing /\ visits' = {}
  /\ UNCHANGED <<github, timer, pending>>

\* An exception ends the run; scheduleSyncRun catches it.
GiveUp ==
  /\ run' = "over" /\ reposLeft' = <<>> /\ listing' = NoListing /\ visits' = {}
  /\ UNCHANGED <<github, timer, pending>>

SweepOver ==
  /\ run = "sweep" /\ pc[Syncer] = "idle"
  /\ run' = "resolving"
  /\ UNCHANGED <<vars, github, timer, pending, reposLeft, listing, visits>>

ResolveRepos ==
  /\ run = "resolving"
  /\ reposLeft' = RepoList /\ run' = "listing"
  /\ UNCHANGED <<vars, github, timer, pending, listing, visits>>

ResolveFails == run = "resolving" /\ GiveUp /\ UNCHANGED vars

Scans(r) == run = "listing" /\ reposLeft # <<>> /\ r = Head(reposLeft)

\* GitHub answers with the issues open now; the answer is still on its way.
GitHubLists(r) ==
  /\ Scans(r)
  /\ listing' = [repo |-> r, open |-> {i \in Issues : RepoOf[i] = r /\ IsOpen(i)}]
  /\ reposLeft' = Tail(reposLeft)
  /\ run' = "listed"
  /\ UNCHANGED <<vars, github, timer, pending, visits>>

ScanFailsForAll(r) == Scans(r) /\ GiveUp /\ UNCHANGED vars   \* mutant: the run ends

\* A listing that fails is logged and its repository skipped.
ScanFails(r) ==
  /\ Scans(r)
  /\ reposLeft' = Tail(reposLeft)
  /\ UNCHANGED <<vars, github, timer, run, pending, listing, visits>>

\* The answer has arrived: the claims of its repository, as they are now.
TakeSnapshot ==
  /\ run = "listed"
  /\ visits' = {[issue |-> activeClaims[id].issue, meta |-> activeClaims[id].meta] :
                  id \in {d \in Live(activeClaims) : RepoOf[activeClaims[d].issue] = listing.repo}}
  /\ run' = "reconciling"
  /\ UNCHANGED <<vars, github, timer, pending, reposLeft, listing>>

\* The next claim of the snapshot: a listed issue is reconciled with GitHub's
\* metadata, an issue that is not in the list is taken to be closed.  When the
\* issue has no claim any more reconcileIssueSnapshot returns at once.
Visit ==
  /\ run = "reconciling" /\ pc[Syncer] = "idle"
  /\ \E x \in visits, m \in Metas :
       /\ visits' = visits \ {x}
       /\ \/ x.issue \in listing.open /\ InvokeReconcile(x.issue, m, FALSE)
          \/ x.issue \notin listing.open /\ m = x.meta /\ InvokeReconcile(x.issue, m, TRUE)
          \/ issueToClaimId[x.issue] = NoId /\ UNCHANGED vars
  /\ UNCHANGED <<github, timer, run, pending, reposLeft, listing>>

RepoDone ==
  /\ run = "reconciling" /\ pc[Syncer] = "idle" /\ visits = {}
  /\ listing' = NoListing /\ run' = "listing"
  /\ UNCHANGED <<vars, github, timer, pending, reposLeft, visits>>

\* After the last repository: setLastGithubSyncAt and the report.
Report ==
  /\ run = "listing" /\ reposLeft = <<>>
  /\ setLastGithubSyncAt
  /\ run' = "over"
  /\ UNCHANGED <<github, timer, pending, reposLeft, listing, visits>>

-----------------------------------------------------------------------------
(* The claim manager's steps, as the composition takes them                *)

\* An exception out of a sweep or a reconciliation ends the run.
FinishSync ==
  /\ Finish(Syncer)
  /\ IF answer[Syncer] = "error" THEN GiveUp ELSE UNCHANGED syncVars

\* An agent fetches the issue and finds it open before it claims it, at any
\* time before: only that the issue exists is certain when the claim is made.
AgentRequest(t) ==
  \/ \E a \in Agents, i \in Issues, m \in Metas :
       github[i] # "absent" /\ InvokeClaim(t, a, i, m)
  \/ \E a \in Agents, id \in ClaimIds :
       \/ InvokeRelease(t, a, id)
       \/ \E u \in AgentUpdates : InvokeUpdate(t, a, id, u)

SyncCrash ==
  /\ Crash
  /\ timer' = FALSE /\ run' = "off" /\ pending' = FALSE
  /\ reposLeft' = <<>> /\ listing' = NoListing /\ visits' = {}
  /\ UNCHANGED github

\* initialize, then start: its first run is the timer's first step.
SyncRestart ==
  /\ Restart /\ timer' = TRUE
  /\ UNCHANGED <<github, thread>>

-----------------------------------------------------------------------------
(* GitHub, of which nothing is known but that issues open and close        *)

OpenIssue(i) ==
  /\ \/ github[i] = "absent" /\ github' = [github EXCEPT ![i] = "open"]
     \/ github[i] = "closed" /\ github' = [github EXCEPT ![i] = "reopened"]
  /\ UNCHANGED <<vars, timer, thread>>

CloseIssue(i) ==
  /\ IsOpen(i) /\ github' = [github EXCEPT ![i] = "closed"]
  /\ UNCHANGED <<vars, timer, thread>>

-----------------------------------------------------------------------------
SyncThread ==
  \/ SweepNext /\ UNCHANGED syncVars
  \/ Run(Syncer) /\ UNCHANGED syncVars
  \/ FinishSync
  \/ SweepOver \/ ResolveRepos \/ ResolveFails
  \/ \E r \in Repos : GitHubLists(r) \/ ScanFails(r)
  \/ TakeSnapshot \/ Visit \/ RepoDone \/ Report \/ EndRun

AgentThread(t) ==
  \/ Run(t) /\ UNCHANGED syncVars
  \/ Finish(t) /\ UNCHANGED syncVars

SyncNext ==
  \/ SyncThread \/ TimerFires \/ stop
  \/ \E t \in Tasks : AgentRequest(t) /\ UNCHANGED syncVars
  \/ \E t \in Tasks : AgentThread(t)
  \/ \E i \in Issues : OpenIssue(i) \/ CloseIssue(i)
  \/ Tick /\ UNCHANGED syncVars
  \/ SyncCrash \/ SyncRestart

SyncSpec == SyncInit /\ [][SyncNext]_allVars

\* The run goes on: microtasks drain and a request to GitHub ends, with an
\* answer or with an error.  The interval fires for ever.  The repositories
\* are resolved, and a reliable one is listed, now and then.  A dead process
\* is started again, and time passes.  Agents owe nothing.
SyncFairness ==
  /\ WF_allVars(SyncThread) /\ WF_allVars(TimerFires)
  /\ \A t \in Tasks : WF_allVars(AgentThread(t))
  /\ SF_allVars(ResolveRepos) /\ \A r \in Reliable : SF_allVars(GitHubLists(r))
  /\ WF_allVars(SyncRestart) /\ WF_allVars(Tick /\ UNCHANGED syncVars)

SyncFairSpec == SyncSpec /\ SyncFairness

-----------------------------------------------------------------------------
(* Properties                                                              *)

SyncTypeOK ==
  /\ github \in [Issues -> {"absent", "open", "closed", "reopened"}]
  /\ timer \in BOOLEAN /\ pending \in BOOLEAN
  /\ run \in {"off", "sweep", "resolving", "listing", "listed", "reconciling", "over"}
  /\ reposLeft \in Seq(Repos) /\ visits \subseteq [issue : Issues, meta : Metas]
  /\ listing = NoListing \/ (listing.repo \in Repos /\ listing.open \subseteq Issues)

\* The sync service asks of the claim manager only what ClaimManager's Spec
\* lets it ask: one call at a time, and no new sweep or reconciliation while
\* one holds a lock or waits for it, whatever the timer does
\* (syncRunInFlight, syncRunPending).
UsesClaimManager == Spec

\* Runs go on for ever while the timer is set, whichever step of a run throws.
RunsRecur == []<>(run = "sweep" \/ ~timer)

\* A claim whose issue was closed on GitHub does not stay active: it ends
\* unless the issue opens again or the service stops, even if the listing of
\* another repository never works.  (Of two claims that a restart left on one
\* issue only the indexed one is reconciled, so that the other is not caught.)
ClosedIsCaught ==
  \A id \in ClaimIds :
    LET claimed == activeClaims[id] # NoClaim
        issue   == activeClaims[id].issue
    IN claimed /\ RepoOf[issue] \in Reliable /\ github[issue] = "closed"
         ~> (~claimed \/ IsOpen(issue) \/ ~timer \/ tainted)

\* With auto release on, no claim stays stale for ever, unless the service
\* stops, however many runs fail and whatever transactions do.
StaleClaimsReturn ==
  StaleAutoRelease > 0 =>
    \A id \in ClaimIds :
      activeClaims[id] # NoClaim /\ activeClaims[id].status = "stale"
        ~> (activeClaims[id] = NoClaim \/ activeClaims[id].status # "stale" \/ ~timer)

\* A claim nobody touches is flagged stale: it does not stay idle past the
\* timeout for ever, unless the service stops.
IdleClaimsAreFlagged ==
  \A id \in ClaimIds :
    MarksStale(activeClaims[id]) ~> (~MarksStale(activeClaims[id]) \/ ~timer)

\* Once stop was called no run begins, not even for a tick that came during
\* the last one: shutdown closes the database after it.
NoRunAfterStop == [][~timer /\ run' = "sweep" => run = "sweep"]_allVars

\* stop's wait for the run in flight ends, whichever of its steps throws.
StopDrains == ~timer ~> (run = "off" \/ timer)

-----------------------------------------------------------------------------
\* issuecommand-agent-prompt.md:101 "Catch issues closed externally (outside
\* this system)": a reconciliation closes no claim of an issue that has never
\* been closed.  An issue opened after its repository was listed, and claimed
\* before the list was processed, is not in the list.
NeverClosedIsKept ==
  [][\A id \in ClaimIds :
       LET c == activeClaims[id]
       IN c # NoClaim /\ activeClaims'[id] = NoClaim /\ up'
            /\ request[Syncer] # NoRequest /\ request[Syncer].op = "reconcile"
            /\ pc'[Syncer] # pc[Syncer]
          => github[c.issue] # "open"]_allVars

=============================================================================
