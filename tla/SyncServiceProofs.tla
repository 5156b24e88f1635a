-------------------------- MODULE SyncServiceProofs --------------------------
(***************************************************************************)
(* The sync service uses the claim manager as ClaimManager's Spec lets it  *)
(* be used, for every value of the constants.  All that is proved of the   *)
(* claim manager alone is so proved of the two together.                   *)
(*                                                                         *)
(* Why it is so: scheduleSyncRun starts a run only when the one before is  *)
(* over, and a run that is over has no call of the manager in flight, the  *)
(* runs that an exception ended included.                                  *)
(***************************************************************************)
EXTENDS SyncService, ClaimLifeProofs

USE DEF Procs

\* A run waits for a call of the manager only where it sweeps or reconciles.
OneCall ==
  run \in {"off", "resolving", "listing", "listed", "over"} => pc[Syncer] = "idle"

\* No sweep is left half done.
SweepsDone == pc[Syncer] = "idle" => todo = {}

\* A tick is remembered only while the timer is set.
TicksKept == pending => timer

\* A dead process runs nothing.
NoRunDown == ~up => run = "off"

SyncInv == SyncTypeOK /\ OneCall /\ SweepsDone /\ TicksKept /\ NoRunDown

LEMMA NoReposLeft == <<>> \in Seq(Repos)
BY EmptySeq

LEMMA SyncInitInv == SyncInit => SyncInv
<1>. SUFFICES ASSUME SyncInit PROVE SyncInv
  OBVIOUS
<1>1. pc[Syncer] = "idle" /\ todo = {} /\ up
  BY DEF SyncInit, Init
<1>2. reposLeft \in Seq(Repos)
  BY NoReposLeft DEF SyncInit
<1>. QED
  BY <1>1, <1>2 DEF SyncInit, SyncInv, SyncTypeOK, OneCall, SweepsDone, TicksKept, NoRunDown

-----------------------------------------------------------------------------
(* Every step is one of ClaimManager's, or none of it                      *)

\* The sweep of a run that begins, when no call is in flight.
LEMMA BeginRunIsNext ==
  ASSUME TypeInv, SyncInv, up, pc[Syncer] = "idle", BeginRun
  PROVE  [Next]_vars
<1>1. CASE Live(activeClaims) # {}
  BY <1>1 DEF BeginRun, StartSweep, SyncStep, Next
<1>2. CASE Live(activeClaims) = {}
  <2>1. DOMAIN pc = Procs /\ pc \in [Procs -> {"idle", "waiting", "done", "sweeping"}]
    BY DEF TypeInv, TypeOK, CallsOK
  <2>2. pc' = pc
    BY <1>2, <2>1 DEF BeginRun
  <2>3. todo' = {} /\ todo = {}
    BY <1>2 DEF BeginRun, SyncInv, SweepsDone
  <2>. QED  BY <2>2, <2>3 DEF BeginRun, vars, calls
<1>. QED  BY <1>1, <1>2

LEMMA SyncThreadIsNext ==
  ASSUME TypeInv, SyncInv, SyncThread
  PROVE  [Next]_vars
<1>0. up \in BOOLEAN /\ (~up => run = "off") /\ OneCall
  BY DEF TypeInv, TypeOK, WorldOK, SyncInv, NoRunDown
<1>1. CASE SweepNext \/ Run(Syncer) \/ FinishSync
  BY <1>1 DEF FinishSync, SyncStep, Next
<1>2. CASE \/ SweepOver \/ ResolveRepos \/ ResolveFails \/ TakeSnapshot \/ RepoDone
           \/ \E r \in Repos : GitHubLists(r) \/ ScanFails(r)
  BY <1>2 DEF SweepOver, ResolveRepos, ResolveFails, TakeSnapshot, RepoDone, GitHubLists, ScanFails
<1>3. CASE Visit
  <2>1. PICK x \in visits, m \in Metas :
          \/ InvokeReconcile(x.issue, m, FALSE)
          \/ InvokeReconcile(x.issue, m, TRUE)
          \/ UNCHANGED vars
    BY <1>3 DEF Visit
  <2>2. x.issue \in Issues
    BY DEF SyncInv, SyncTypeOK
  <2>. QED  BY <2>1, <2>2 DEF SyncStep, Next
<1>4. CASE Report
  BY <1>4 DEF Report, SyncStep, Next
<1>5. CASE EndRun
  <2>1. up /\ pc[Syncer] = "idle"
    BY <1>0, <1>5 DEF EndRun, OneCall
  <2>. QED  BY <1>5, <2>1, BeginRunIsNext DEF EndRun
<1>. QED  BY <1>1, <1>2, <1>3, <1>4, <1>5 DEF SyncThread

LEMMA StepIsNext ==
  ASSUME TypeInv, SyncInv, [SyncNext]_allVars
  PROVE  [Next]_vars
<1>1. CASE SyncThread
  BY <1>1, SyncThreadIsNext
<1>2. CASE TimerFires
  <2>1. run = "off" /\ BeginRun => [Next]_vars
    BY <1>2, BeginRunIsNext DEF TimerFires, SyncInv, OneCall
  <2>. QED  BY <1>2, <2>1 DEF TimerFires
<1>3. CASE stop \/ \E i \in Issues : OpenIssue(i) \/ CloseIssue(i)
  BY <1>3 DEF stop, OpenIssue, CloseIssue
<1>4. ASSUME NEW t \in Tasks, AgentRequest(t) \/ AgentThread(t)
      PROVE  [Next]_vars
  BY <1>4 DEF AgentRequest, AgentThread, AgentStep, Next
<1>5. CASE Tick \/ SyncCrash \/ SyncRestart
  BY <1>5 DEF SyncCrash, SyncRestart, WorldStep, Next
<1>6. CASE UNCHANGED allVars
  BY <1>6 DEF allVars
<1>. QED  BY <1>1, <1>2, <1>3, <1>4, <1>5, <1>6 DEF SyncNext

-----------------------------------------------------------------------------
(* The invariant                                                           *)

ManagerInv == TypeInv /\ SafeInv /\ LifeInv

\* What the agents' steps leave of the call in flight.
LEMMA AgentLeavesSyncer ==
  ASSUME ManagerInv, NEW t \in Tasks, AgentStep(t)
  PROVE  pc'[Syncer] = pc[Syncer] /\ todo' = todo /\ up' = up
<1>1. DOMAIN pc = Procs /\ t # Syncer /\ t \in Procs /\ Syncer \in Procs
  BY SentinelAssumption DEF ManagerInv, TypeInv, TypeOK, CallsOK
<1>2. ASSUME NEW r, withIssueLock(t, r)
      PROVE  pc'[Syncer] = pc[Syncer] /\ up' = up
  BY <1>1, <1>2 DEF withIssueLock, world
<1>3. ASSUME NEW a \in Agents, NEW id \in ClaimIds, NEW u, InvokeUpdate(t, a, id, u)
      PROVE  pc'[Syncer] = pc[Syncer] /\ todo' = todo /\ up' = up
  BY <1>2, <1>3 DEF InvokeUpdate
<1>4. ASSUME NEW a \in Agents, NEW i \in Issues, NEW m \in Metas, InvokeClaim(t, a, i, m)
      PROVE  pc'[Syncer] = pc[Syncer] /\ todo' = todo /\ up' = up
  BY <1>2, <1>4 DEF InvokeClaim
<1>5. CASE Finish(t)
  BY <1>1, <1>5 DEF Finish, world
<1>6. CASE Run(t)
  <2>1. BodyFrame(t)
    BY <1>1, <1>6, BodyOf DEF ManagerInv
  <2>. QED  BY <1>1, <2>1 DEF BodyFrame
<1>. QED  BY <1>3, <1>4, <1>5, <1>6 DEF AgentStep, InvokeRelease

\* A run that begins has the types, and its sweep in hand.
LEMMA BeginRunInv ==
  ASSUME TypeInv, BeginRun
  PROVE  run' = "sweep" /\ up' = up /\ SweepsDone'
<1>1. DOMAIN pc = Procs
  BY DEF TypeInv, TypeOK, CallsOK
<1>2. pc'[Syncer] = "idle" => Live(activeClaims) = {}
  BY <1>1 DEF BeginRun
<1>. QED  BY <1>2 DEF BeginRun, SweepsDone, world

\* The steps of a run between its calls of the manager.
LEMMA RunStepInv ==
  ASSUME ManagerInv, SyncInv, UNCHANGED vars,
         \/ SweepOver \/ ResolveRepos \/ ResolveFails \/ TakeSnapshot \/ RepoDone
         \/ \E r \in Repos : GitHubLists(r) \/ ScanFails(r)
  PROVE  SyncInv'
<1>0. /\ UNCHANGED <<pc, todo, up, timer, pending, github>> /\ SyncTypeOK
      /\ OneCall /\ SweepsDone /\ TicksKept /\ NoRunDown
      /\ activeClaims \in [ClaimIds -> Claim \cup {NoClaim}]
  BY DEF vars, calls, world, SyncInv, SweepOver, ResolveRepos, ResolveFails, GiveUp, TakeSnapshot,
         RepoDone, GitHubLists, ScanFails, ManagerInv, TypeInv, TypeOK, MemoryOK
<1>1. SweepsDone' /\ TicksKept'
  BY <1>0 DEF SweepsDone, TicksKept
<1>2. CASE SweepOver
  BY <1>0, <1>1, <1>2 DEF SweepOver, SyncInv, SyncTypeOK, OneCall, NoRunDown
<1>3. CASE ResolveRepos
  <2>1. RepoList \in Seq(Repos)
    BY RepoAssumption
  <2>. QED  BY <1>0, <1>1, <1>3, <2>1 DEF ResolveRepos, SyncInv, SyncTypeOK, OneCall, NoRunDown
<1>4. CASE ResolveFails
  BY <1>0, <1>1, <1>4, NoReposLeft
     DEF ResolveFails, GiveUp, SyncInv, SyncTypeOK, OneCall, NoRunDown
<1>5. ASSUME NEW r \in Repos, reposLeft # <<>>
      PROVE  Tail(reposLeft) \in Seq(Repos)
  BY <1>0, <1>5, HeadTailProperties DEF SyncTypeOK
<1>6. ASSUME NEW r \in Repos, GitHubLists(r)
      PROVE  SyncInv'
  BY <1>0, <1>1, <1>5, <1>6 DEF GitHubLists, Scans, SyncInv, SyncTypeOK, OneCall, NoRunDown
<1>7. ASSUME NEW r \in Repos, ScanFails(r)
      PROVE  SyncInv'
  BY <1>0, <1>1, <1>5, <1>7 DEF ScanFails, Scans, SyncInv, SyncTypeOK, OneCall, NoRunDown
<1>8. CASE TakeSnapshot
  <2>1. visits' \subseteq [issue : Issues, meta : Metas]
    BY <1>0, <1>8 DEF TakeSnapshot, Live, Claim
  <2>. QED  BY <1>0, <1>1, <1>8, <2>1 DEF TakeSnapshot, SyncInv, SyncTypeOK, OneCall, NoRunDown
<1>9. CASE RepoDone
  BY <1>0, <1>1, <1>9 DEF RepoDone, SyncInv, SyncTypeOK, OneCall, NoRunDown
<1>. QED  BY <1>2, <1>3, <1>4, <1>6, <1>7, <1>8, <1>9

\* A run begins; the rest of the service's state is as it was, but pending.
LEMMA BeginsInv ==
  ASSUME ManagerInv, SyncInv, up, BeginRun, pending' \in BOOLEAN, pending' => pending,
         UNCHANGED <<github, timer, reposLeft, listing, visits>>
  PROVE  SyncInv'
<1>1. run' = "sweep" /\ up' = up /\ SweepsDone'
  BY BeginRunInv DEF ManagerInv
<1>2. SyncTypeOK'
  BY <1>1 DEF SyncInv, SyncTypeOK
<1>3. OneCall' /\ TicksKept' /\ NoRunDown'
  BY <1>1 DEF SyncInv, OneCall, TicksKept, NoRunDown
<1>. QED  BY <1>1, <1>2, <1>3 DEF SyncInv

\* The manager's steps of the run's call.
LEMMA CallInv ==
  ASSUME ManagerInv, SyncInv, SweepNext \/ Run(Syncer), UNCHANGED syncVars
  PROVE  SyncInv'
<1>1. DOMAIN pc = Procs /\ Syncer \in Procs
  BY DEF ManagerInv, TypeInv, TypeOK, CallsOK
<1>2. pc[Syncer] \notin {"idle"} /\ pc'[Syncer] # "idle" /\ up' = up
  <2>1. CASE SweepNext
    BY <1>1, <2>1 DEF SweepNext, withIssueLock, world
  <2>2. CASE Run(Syncer)
    <3>1. BodyFrame(Syncer)
      BY <1>1, <2>2, BodyOf DEF ManagerInv
    <3>. QED  BY <3>1 DEF BodyFrame
  <2>. QED  BY <2>1, <2>2
<1>. QED
  BY <1>2 DEF SyncInv, SyncTypeOK, OneCall, SweepsDone, TicksKept, NoRunDown, syncVars, thread

LEMMA FinishInv ==
  ASSUME ManagerInv, SyncInv, FinishSync
  PROVE  SyncInv'
<1>1. DOMAIN pc = Procs /\ Syncer \in Procs /\ <<>> \in Seq(Repos) /\ up
  BY NoReposLeft DEF ManagerInv, TypeInv, TypeOK, CallsOK, WorldOK, SafeInv, NoCallsDown,
                     FinishSync, Finish
<1>2. /\ pc[Syncer] = "done" /\ pc'[Syncer] \in {"idle", "sweeping"}
      /\ pc'[Syncer] = "idle" <=> todo' = {}
      /\ answer[Syncer] = "error" => todo' = {}
      /\ up' = up
  BY <1>1 DEF FinishSync, Finish, world
<1>3. CASE answer[Syncer] = "error" /\ GiveUp
  BY <1>1, <1>2, <1>3
     DEF GiveUp, SyncInv, SyncTypeOK, OneCall, SweepsDone, TicksKept, NoRunDown
<1>4. CASE UNCHANGED syncVars
  BY <1>1, <1>2, <1>4
     DEF SyncInv, SyncTypeOK, OneCall, SweepsDone, TicksKept, NoRunDown, syncVars, thread
<1>. QED  BY <1>3, <1>4 DEF FinishSync

LEMMA VisitInv ==
  ASSUME ManagerInv, SyncInv, Visit
  PROVE  SyncInv'
<1>1. DOMAIN pc = Procs /\ Syncer \in Procs /\ run = "reconciling" /\ run' = run
  BY DEF ManagerInv, TypeInv, TypeOK, CallsOK, Visit
<1>2. SyncTypeOK'
  BY DEF Visit, SyncInv, SyncTypeOK
<1>3. up' = up /\ todo' = todo /\ (pc'[Syncer] = "waiting" \/ pc' = pc)
  BY <1>1 DEF Visit, InvokeReconcile, withIssueLock, world, vars, calls
<1>. QED
  BY <1>1, <1>2, <1>3 DEF Visit, SyncInv, OneCall, SweepsDone, TicksKept, NoRunDown

LEMMA ReportInv ==
  ASSUME SyncInv, Report
  PROVE  SyncInv'
BY DEF Report, setLastGithubSyncAt, calls, world,
       SyncInv, SyncTypeOK, OneCall, SweepsDone, TicksKept, NoRunDown

LEMMA SyncThreadInv ==
  ASSUME ManagerInv, SyncInv, SyncThread
  PROVE  SyncInv'
<1>1. CASE EndRun
  <2>1. up
    BY <1>1 DEF EndRun, SyncInv, NoRunDown, ManagerInv, TypeInv, TypeOK, WorldOK
  <2>2. CASE pending /\ pending' = FALSE /\ BeginRun
    BY <1>1, <2>1, <2>2, BeginsInv DEF EndRun
  <2>3. CASE run' = "off" /\ UNCHANGED <<vars, pending>>
    BY <1>1, <2>3 DEF EndRun, vars, calls, world,
       SyncInv, SyncTypeOK, OneCall, SweepsDone, TicksKept, NoRunDown
  <2>. QED  BY <1>1, <2>2, <2>3 DEF EndRun
<1>2. CASE \/ SweepOver \/ ResolveRepos \/ ResolveFails \/ TakeSnapshot \/ RepoDone
           \/ \E r \in Repos : GitHubLists(r) \/ ScanFails(r)
  <2>1. UNCHANGED vars
    BY <1>2 DEF SweepOver, ResolveRepos, ResolveFails, TakeSnapshot, RepoDone, GitHubLists, ScanFails
  <2>. QED  BY <1>2, <2>1, RunStepInv
<1>. QED  BY <1>1, <1>2, CallInv, FinishInv, VisitInv, ReportInv DEF SyncThread

\* Steps that are not the run's, and leave it in place.
LEMMA OtherInv ==
  ASSUME ManagerInv, SyncInv,
         pc'[Syncer] = pc[Syncer], todo' = todo, up' = up, UNCHANGED <<timer, thread>>,
         github' \in [Issues -> {"absent", "open", "closed", "reopened"}]
  PROVE  SyncInv'
BY DEF SyncInv, SyncTypeOK, OneCall, SweepsDone, TicksKept, NoRunDown, thread

LEMMA SyncNextInv == ManagerInv /\ SyncInv /\ [SyncNext]_allVars => SyncInv'
<1>. SUFFICES ASSUME ManagerInv, SyncInv, [SyncNext]_allVars PROVE SyncInv'
  OBVIOUS
<1>0. github \in [Issues -> {"absent", "open", "closed", "reopened"}]
  BY DEF SyncInv, SyncTypeOK
<1>1. CASE SyncThread
  BY <1>1, SyncThreadInv
<1>2. CASE TimerFires
  <2>1. CASE BeginRun /\ UNCHANGED pending
    BY <1>2, <2>1, BeginsInv DEF TimerFires, SyncInv, SyncTypeOK
  <2>2. CASE run # "off" /\ pending' = TRUE /\ UNCHANGED <<vars, run>>
    BY <1>2, <2>2 DEF TimerFires, vars, calls, world,
       SyncInv, SyncTypeOK, OneCall, SweepsDone, TicksKept, NoRunDown
  <2>. QED  BY <1>2, <2>1, <2>2 DEF TimerFires
<1>3. CASE stop
  BY <1>3 DEF stop, vars, calls, world,
     SyncInv, SyncTypeOK, OneCall, SweepsDone, TicksKept, NoRunDown
<1>4. ASSUME NEW t \in Tasks, (AgentRequest(t) /\ UNCHANGED syncVars) \/ AgentThread(t)
      PROVE  SyncInv'
  <2>1. AgentStep(t) /\ UNCHANGED syncVars
    BY <1>4 DEF AgentRequest, AgentThread, AgentStep
  <2>2. pc'[Syncer] = pc[Syncer] /\ todo' = todo /\ up' = up
    BY <2>1, AgentLeavesSyncer
  <2>. QED  BY <1>0, <2>1, <2>2, OtherInv DEF syncVars
<1>5. ASSUME NEW i \in Issues, OpenIssue(i) \/ CloseIssue(i)
      PROVE  SyncInv'
  <2>1. github' \in [Issues -> {"absent", "open", "closed", "reopened"}]
    BY <1>0, <1>5 DEF OpenIssue, CloseIssue
  <2>2. UNCHANGED <<pc, todo, up, timer, thread>>
    BY <1>5 DEF OpenIssue, CloseIssue, vars, calls, world
  <2>. QED  BY <2>1, <2>2, OtherInv
<1>6. CASE Tick /\ UNCHANGED syncVars
  BY <1>0, <1>6, OtherInv DEF Tick, calls, world, syncVars
<1>7. CASE SyncCrash
  <2>1. pc'[Syncer] = "idle" /\ todo' = {}
    BY <1>7 DEF SyncCrash, Crash
  <2>. QED
    BY <1>0, <1>7, <2>1, NoReposLeft
       DEF SyncCrash, SyncInv, SyncTypeOK, OneCall, SweepsDone, TicksKept, NoRunDown
<1>8. CASE SyncRestart
  <2>1. UNCHANGED <<pc, todo, github, thread>> /\ up' /\ timer' = TRUE
    BY <1>8 DEF SyncRestart, Restart, calls
  <2>. QED  BY <1>0, <2>1 DEF SyncInv, SyncTypeOK, OneCall, SweepsDone, TicksKept, NoRunDown, thread
<1>9. CASE UNCHANGED allVars
  <2>1. UNCHANGED <<pc, todo, up, timer, github, thread>>
    BY <1>9 DEF allVars, vars, calls, world, syncVars
  <2>. QED  BY <1>0, <2>1, OtherInv
<1>. QED  BY <1>1, <1>2, <1>3, <1>4, <1>5, <1>6, <1>7, <1>8, <1>9 DEF SyncNext

-----------------------------------------------------------------------------
(* The theorems                                                            *)

\* Every behaviour of the composition keeps the manager's invariants too.
THEOREM SyncTheorem == SyncSpec => [](ManagerInv /\ SyncInv)
<1>1. SyncInit => ManagerInv /\ SyncInv
  BY SyncInitInv, TypeInit, SafeInit, LifeInit DEF SyncInit, ManagerInv
<1>2. ManagerInv /\ SyncInv /\ [SyncNext]_allVars => (ManagerInv /\ SyncInv)'
  <2>. SUFFICES ASSUME ManagerInv, SyncInv, [SyncNext]_allVars PROVE (ManagerInv /\ SyncInv)'
    OBVIOUS
  <2>1. [Next]_vars
    BY StepIsNext DEF ManagerInv
  <2>2. TypeInv'
    BY <2>1, TypeNext DEF ManagerInv
  <2>. QED  BY <2>1, <2>2, SafeNext, LifeNext, SyncNextInv DEF ManagerInv
<1>. QED  BY <1>1, <1>2, PTL DEF SyncSpec

\* The timer, the runs and their failures, stop, crashes and restarts ask of
\* the claim manager only what its Spec allows (syncRunInFlight).
THEOREM ManagerUsedWell == SyncSpec => UsesClaimManager
<1>1. SyncInit => Init
  BY DEF SyncInit
<1>2. ManagerInv /\ SyncInv /\ [SyncNext]_allVars => [Next]_vars
  BY StepIsNext DEF ManagerInv
<1>. QED  BY <1>1, <1>2, SyncTheorem, PTL DEF SyncSpec, UsesClaimManager, Spec

\* The types of the sync service's own state.
THEOREM SyncTypeCorrect == SyncSpec => []SyncTypeOK
<1>1. SyncInv => SyncTypeOK
  BY DEF SyncInv
<1>. QED  BY <1>1, SyncTheorem, PTL

\* After stop no run begins, though a tick had asked for one (syncRunPending).
THEOREM StopStops == SyncSpec => NoRunAfterStop
<1>1. SyncInv /\ [SyncNext]_allVars => (~timer /\ run' = "sweep" => run = "sweep")
  <2>. SUFFICES ASSUME SyncInv, [SyncNext]_allVars, ~timer, run' = "sweep" PROVE run = "sweep"
    OBVIOUS
  <2>1. ~pending
    BY DEF SyncInv, TicksKept
  <2>. QED
    BY <2>1 DEF SyncNext, SyncThread, syncVars, thread, allVars, FinishSync, GiveUp, SweepOver,
                ResolveRepos, ResolveFails, GitHubLists, ScanFails, TakeSnapshot, Visit, RepoDone,
                Report, EndRun, TimerFires, stop, AgentThread, OpenIssue, CloseIssue,
                SyncCrash, SyncRestart
<1>. QED  BY <1>1, SyncTheorem, PTL DEF SyncSpec, NoRunAfterStop

\* What agents were promised of the claim manager they get while it is swept
\* and reconciled by the service's runs.
THEOREM ClaimsUnderSync ==
  SyncSpec => /\ [](Exclusive /\ IndexConsistent /\ AnswersHold /\ ChangesAreDurable)
              /\ [](GrantedIsDurable /\ EndsOnce /\ LocksHaveOwners)
              /\ PrBacked /\ EndsRightly
              /\ MaxFailures = 0 => ImplementsRegistry
<1>1. Spec => (MaxFailures = 0 => ImplementsRegistry)
  <2>1. CASE MaxFailures = 0
    BY <2>1, RegistryImplemented
  <2>2. CASE MaxFailures # 0
    BY <2>2
  <2>. QED  BY <2>1, <2>2
<1>. QED
  BY <1>1, ManagerUsedWell, ExclusiveHolds, IndexHolds, AnswersHoldTrue, DurableAnswers, GrantsLast,
     EndsOnceOnly, PrsBacked, LocksOwned, EndsByRightOnly, PTL DEF UsesClaimManager

=============================================================================
