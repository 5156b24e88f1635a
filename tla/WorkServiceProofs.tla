-------------------------- MODULE WorkServiceProofs --------------------------
(***************************************************************************)
(* That no work is overlooked, and none given that was not open, for every *)
(* value of the constants: any agents, repositories, pages and priorities, *)
(* any order in which GitHub and other agents step in between.             *)
(*                                                                         *)
(* The service uses the claim manager as its Spec lets it be used, so that *)
(* all that is proved of the claim manager alone is proved of the two.     *)
(*                                                                         *)
(* What an agent is told at the end of its call rests on what the call has *)
(* in hand at each stage before: an issue that was free all along is in    *)
(* the listing or on a page to come (Reaches), then among the candidates,  *)
(* then behind the one that is tried (InSight).  A page that is still to   *)
(* come cannot miss it, since as many items as the pages before have are   *)
(* newer, and only a closing makes them fewer.  And a candidate that was   *)
(* refused was not free (Watched), so that the loop may drop it.           *)
(***************************************************************************)
EXTENDS WorkService, ClaimLifeProofs

USE DEF Procs

Stages == {"idle", "followups", "listing", "choosing", "claiming",
           "details", "updating", "closing"}

\* Those at which a call looks for work, or for one issue.
Seeking == {"followups", "listing", "choosing", "claiming", "details"}

Listings == [page : Nat, found : [Issues -> Nat], over : BOOLEAN]

CallTypes ==
  /\ github \in [Items -> {"absent", "open", "closed"}]
  /\ at \in [Tasks -> Stages]
  /\ caller \in [Tasks -> Agents \cup {NoId}]
  /\ asked \in [Tasks -> SUBSET Repos]
  /\ lists \in [Tasks -> [Repos -> Listings]]
  /\ candidates \in [Tasks -> [Issues -> Nat]]
  /\ closing \in [Tasks -> Issues \cup {NoId}]

WorkTypes ==
  /\ CallTypes
  /\ steady \in [Tasks -> SUBSET Issues]
  /\ seenOpen \in [Tasks -> SUBSET Issues]
  /\ shifted \in [Tasks -> SUBSET Repos]

\* What a call has in hand at each of its stages, and in the claim manager.
InHand(t) ==
  /\ (pc[t] # "idle") <=> at[t] \in {"claiming", "updating"}
  /\ at[t] = "claiming" => request[t].op = "claim"
  /\ at[t] \in Seeking => caller[t] \in Agents
  /\ (at[t] = "closing") <=> closing[t] \in Issues
  /\ at[t] \in {"idle", "details", "updating", "closing"} => asked[t] = {}
  /\ at[t] # "listing" => lists[t] = NoLists
  /\ at[t] \notin {"choosing", "claiming", "details"} => candidates[t] = NoneFound

\* What a call may still give was open since it began.
WasOpen(t) ==
  /\ at[t] \in Seeking => OpenIssues \subseteq seenOpen[t]
  /\ \A r \in Repos, i \in Issues : lists[t][r].found[i] > 0 => i \in seenOpen[t]
  /\ at[t] \in {"choosing", "claiming"} => Untried(t) \subseteq seenOpen[t]
  /\ at[t] = "claiming" => request[t].issue \in seenOpen[t]

\* A listing has the issue, or will have: it is on none of the pages before the next.
Reaches(l, j) ==
  \/ l.found[j] > 0
  \/ /\ ~l.over
     /\ l.page = 0 \/ Cardinality(Newer(j)) >= (l.page - 1) * PageSize

\* The issue is on its way to the agent, behind more urgent ones only.
InSight(t, j) ==
  /\ at[t] = "listing" => Reaches(lists[t][RepoOf[j]], j)
  /\ at[t] = "choosing" => j \in Untried(t)
  /\ at[t] = "claiming" =>
       j = request[t].issue \/ (j \in Untried(t) /\ Ahead(request[t].issue, j))

\* The issues watched are what they are meant to be, and none is overlooked.
Watched(t) ==
  /\ steady[t] \subseteq FreeIssues
  /\ steady[t] # {} => at[t] \in {"followups", "listing", "choosing", "claiming"}
  /\ \A j \in steady[t] : RepoOf[j] \in asked[t]
  /\ at[t] = "claiming" /\ pc[t] = "done" => request[t].issue \notin steady[t]
  /\ \A j \in steady[t] : RepoOf[j] \notin shifted[t] => InSight(t, j)

USE DEF Seeking

ManagerInv == TypeInv /\ SafeInv /\ LifeInv

ServiceInv ==
  /\ WorkTypes /\ up
  /\ \A t \in Tasks : InHand(t) /\ WasOpen(t) /\ Watched(t)

-----------------------------------------------------------------------------
(* Every step is one of ClaimManager's, or none of it                      *)

LEMMA CallIsNext ==
  ASSUME NEW t \in Tasks, AgentStep(t)
  PROVE  Next
BY DEF Next

LEMMA StepIsNext ==
  ASSUME TypeInv, ServiceInv, [WorkNext]_workVars
  PROVE  [Next]_vars
<1>1. ASSUME NEW t \in Tasks, Proceeds(t)
      PROVE  [Next]_vars
  <2>1. CASE \/ FollowupAnswers(t) \/ NoFollowup(t) \/ ListingFails(t)
             \/ \E r \in Repos : GhAnswers(t, r) \/ GhFallsShort(t, r) \/ RestPage(t, r)
             \/ collectCandidates(t) \/ NothingLeft(t) \/ NotClaimable(t)
             \/ closeIssue(t) \/ CloseFails(t)
    BY <2>1 DEF FollowupAnswers, NoFollowup, ListingFails, GhAnswers, GhFallsShort, RestPage,
                Listing, collectCandidates, NothingLeft, NotClaimable, closeIssue, CloseFails,
                EndsOtherwise
  <2>2. CASE TryCandidate(t)
    <3>1. PICK i \in Issues, m \in Metas : InvokeClaim(t, caller[t], i, m)
      BY <2>2 DEF TryCandidate
    <3>2. caller[t] \in Agents
      BY <2>2 DEF TryCandidate, ServiceInv, InHand
    <3>. QED  BY <3>1, <3>2, CallIsNext DEF AgentStep
  <2>3. CASE DetailsShowOpen(t)
    <3>1. PICK i \in Issues, m \in Metas : InvokeClaim(t, caller[t], i, m)
      BY <2>3 DEF DetailsShowOpen, Untried
    <3>2. caller[t] \in Agents
      BY <2>3 DEF DetailsShowOpen, ServiceInv, InHand
    <3>. QED  BY <3>1, <3>2, CallIsNext DEF AgentStep
  <2>4. CASE ClaimAnswered(t) \/ UpdateAnswered(t) \/ RunBody(t)
    BY <2>4, CallIsNext DEF ClaimAnswered, UpdateAnswered, RunBody, AgentStep
  <2>. QED  BY <1>1, <2>1, <2>2, <2>3, <2>4 DEF Proceeds
<1>2. ASSUME NEW t \in Tasks, NEW id \in ClaimIds, Updates(t, id)
      PROVE  [Next]_vars
  <2>1. activeClaims[id].agent \in Agents
    BY <1>2 DEF Updates, TypeInv, TypeOK, MemoryOK, Claim
  <2>. QED  BY <1>2, <2>1, CallIsNext DEF Updates, AgentStep
<1>3. ASSUME NEW t \in Tasks, NEW a, NEW repos, NEW i,
             nextWork(t, a, repos) \/ nextIssue(t, a, repos) \/ claimIssue(t, a, i)
      PROVE  [Next]_vars
  BY <1>3 DEF nextWork, nextIssue, claimIssue
<1>4. ASSUME NEW x \in Items, OpenItem(x) \/ CloseItem(x)
      PROVE  [Next]_vars
  BY <1>4 DEF OpenItem, CloseItem
<1>5. CASE UNCHANGED workVars
  BY <1>5 DEF workVars
<1>. QED  BY <1>1, <1>2, <1>3, <1>4, <1>5 DEF WorkNext, Asks

-----------------------------------------------------------------------------
(* What a step leaves of the calls it is not about                         *)

SameCall(q) ==
  /\ at'[q] = at[q] /\ caller'[q] = caller[q] /\ asked'[q] = asked[q]
  /\ lists'[q] = lists[q] /\ candidates'[q] = candidates[q] /\ closing'[q] = closing[q]
  /\ (pc'[q] = "idle") <=> (pc[q] = "idle")
  /\ request'[q].op = request[q].op /\ request'[q].issue = request[q].issue

CallOK(q) == InHand(q) /\ WasOpen(q) /\ Watched(q)

LEMMA Times == \A m, n \in Int : m * n \in Int
OBVIOUS

\* Where nothing closed, what is newer stays newer.
LEMMA NewerStays ==
  ASSUME NEW j \in Issues,
         \A x \in Items : RepoOf[x] = RepoOf[j] /\ IsOpen(x) => IsOpen(x)'
  PROVE  /\ Cardinality(Newer(j)) \in Nat /\ Cardinality(Newer(j)') \in Nat
         /\ Cardinality(Newer(j)) <= Cardinality(Newer(j)')
<1>1. Newer(j) \subseteq Newer(j)'
  BY DEF Newer, OpenIn
<1>2. Newer(j)' \subseteq Items
  BY DEF Newer, OpenIn
<1>3. IsFiniteSet(Newer(j)')
  BY <1>2, WorkAssumption, FS_Subset
<1>4. IsFiniteSet(Newer(j))
  BY <1>1, <1>3, FS_Subset
<1>. QED  BY <1>1, <1>3, <1>4, FS_Subset, FS_CardinalityType

LEMMA NewerCounts ==
  ASSUME NEW j \in Issues
  PROVE  /\ Cardinality(Newer(j)) \in Nat /\ Cardinality(OpenIn(RepoOf[j])) \in Nat
         /\ Cardinality(Newer(j)) <= Cardinality(OpenIn(RepoOf[j]))
<1>1. Newer(j) \subseteq OpenIn(RepoOf[j]) /\ OpenIn(RepoOf[j]) \subseteq Items
  BY DEF Newer, OpenIn
<1>2. IsFiniteSet(OpenIn(RepoOf[j]))
  BY <1>1, WorkAssumption, FS_Subset
<1>3. IsFiniteSet(Newer(j))
  BY <1>1, <1>2, FS_Subset
<1>. QED  BY <1>1, <1>2, <1>3, FS_Subset, FS_CardinalityType

\* The first page cannot miss anything.
LEMMA FirstPage ==
  ASSUME NEW newer \in SUBSET Items
  PROVE  Cardinality(newer) >= (1 - 1) * PageSize
<1>1. (1 - 1) * PageSize = 0
  BY WorkAssumption
<1>2. Cardinality(newer) \in Nat
  BY WorkAssumption, FS_Subset, FS_CardinalityType
<1>. QED  BY <1>1, <1>2

\* What the ghosts are after a step that watches.
LEMMA WatchOf ==
  ASSUME Watch, NEW q \in Tasks
  PROVE  /\ at'[q] = "idle" =>
              steady'[q] = {} /\ seenOpen'[q] = {} /\ shifted'[q] = {}
         /\ at'[q] # "idle" /\ at[q] # "idle" =>
              /\ steady'[q] = steady[q] \cap FreeIssues'
              /\ shifted[q] \subseteq shifted'[q]
              /\ at'[q] \notin {"updating", "closing"} =>
                   seenOpen'[q] = seenOpen[q] \cup OpenIssues'
         /\ at'[q] # "idle" /\ at[q] = "idle" =>
              /\ steady'[q] = {i \in FreeIssues' : RepoOf[i] \in asked'[q]}
              /\ at'[q] \notin {"updating", "closing"} => seenOpen'[q] = OpenIssues'
<1>1. /\ DOMAIN steady' = Tasks /\ DOMAIN seenOpen' = Tasks /\ DOMAIN shifted' = Tasks
  BY DEF Watch
<1>. QED  BY <1>1 DEF Watch

LEMMA WatchTypes ==
  ASSUME ServiceInv, Watch
  PROVE  /\ steady' \in [Tasks -> SUBSET Issues]
         /\ seenOpen' \in [Tasks -> SUBSET Issues]
         /\ shifted' \in [Tasks -> SUBSET Repos]
<1>1. OpenIssues' \subseteq Issues /\ FreeIssues' \subseteq Issues
  BY DEF OpenIssues, FreeIssues
<1>2. /\ steady \in [Tasks -> SUBSET Issues] /\ seenOpen \in [Tasks -> SUBSET Issues]
      /\ shifted \in [Tasks -> SUBSET Repos]
  BY DEF ServiceInv, WorkTypes, CallTypes
<1>3. steady' \in [Tasks -> SUBSET Issues]
  BY <1>1, <1>2 DEF Watch
<1>4. seenOpen' \in [Tasks -> SUBSET Issues]
  BY <1>1, <1>2 DEF Watch
<1>5. shifted' \in [Tasks -> SUBSET Repos]
  BY <1>2 DEF Watch
<1>. QED  BY <1>3, <1>4, <1>5

\* A page to come does not miss an issue that stays open, whatever opens, and
\* whatever closes but for a closing that the ghost notes.
LEMMA ReachesOn ==
  ASSUME ServiceInv, Watch, NEW q \in Tasks, SameCall(q), at[q] = "listing",
         NEW j \in Issues, RepoOf[j] \notin shifted'[q], Reaches(lists[q][RepoOf[j]], j)
  PROVE  Reaches(lists[q][RepoOf[j]], j)'
<1>. DEFINE r == RepoOf[j]
            l == lists[q][r]
<1>1. r \in Repos
  BY WorkAssumption DEF Items
<1>2. l \in Listings
  BY <1>1 DEF ServiceInv, WorkTypes, CallTypes
<1>3. lists'[q][r] = l
  BY DEF SameCall
<1>4. CASE l.found[j] > 0 \/ (~l.over /\ l.page = 0)
  BY <1>3, <1>4 DEF Reaches
<1>5. CASE ~l.over /\ l.page = 1
  <2>0. Newer(j)' \in SUBSET Items
    BY DEF Newer, OpenIn
  <2>1. Cardinality(Newer(j)') >= (1 - 1) * PageSize
    BY <2>0, FirstPage
  <2>. QED  BY <1>3, <1>5, <2>1 DEF Reaches
<1>6. CASE l.found[j] <= 0 /\ ~l.over /\ l.page > 1
  <2>1. Cardinality(Newer(j)) >= (l.page - 1) * PageSize
    BY <1>2, <1>6 DEF Reaches, Listings
  <2>2. \A x \in Items : RepoOf[x] = r /\ IsOpen(x) => IsOpen(x)'
    <3>1. at'[q] = "listing" /\ DOMAIN shifted' = Tasks
      BY DEF SameCall, Watch
    <3>2. r \notin {s \in Repos : /\ at[q] = "listing" /\ lists[q][s].page > 1 /\ ~lists[q][s].over
                                  /\ \E x \in Items : RepoOf[x] = s /\ IsOpen(x) /\ ~IsOpen(x)'}
      BY <3>1 DEF Watch
    <3>. QED  BY <1>1, <1>6, <3>2
  <2>3. /\ Cardinality(Newer(j)) \in Nat /\ Cardinality(Newer(j)') \in Nat
        /\ Cardinality(Newer(j)) <= Cardinality(Newer(j)')
    BY <2>2, NewerStays
  <2>4. (l.page - 1) * PageSize \in Int
    <3>1. l.page - 1 \in Int /\ PageSize \in Int
      BY <1>2, WorkAssumption DEF Listings
    <3>. QED  BY <3>1, Times
  <2>5. Cardinality(Newer(j)') >= (l.page - 1) * PageSize
    BY <2>1, <2>3, <2>4
  <2>. QED  BY <1>3, <1>6, <2>5 DEF Reaches
<1>7. l.found[j] > 0 \/ ~l.over
  BY DEF Reaches
<1>8. l.page \in Nat /\ l.found[j] \in Nat
  BY <1>2 DEF Listings
<1>. QED  BY <1>4, <1>5, <1>6, <1>7, <1>8


\* Nothing is found that was not there.
LEMMA NothingListed ==
  ASSUME NEW r \in Repos, NEW i \in Issues
  PROVE  ~(NoLists[r].found[i] > 0) /\ ~(NoneFound[i] > 0)
BY DEF NoLists, NotListed, NoneFound

LEMMA QuietSeen ==
  ASSUME ServiceInv, Watch, NEW q \in Tasks, SameCall(q)
  PROVE  WasOpen(q)'
<1>1. InHand(q) /\ WasOpen(q)
  BY DEF ServiceInv
<1>2. Untried(q)' = Untried(q)
  BY DEF Untried, SameCall
<1>3. CASE at[q] \in Seeking
  <2>1. seenOpen'[q] = seenOpen[q] \cup OpenIssues'
    BY <1>3, WatchOf DEF SameCall
  <2>. QED  BY <1>1, <1>2, <1>3, <2>1 DEF WasOpen, SameCall
<1>4. CASE at[q] \notin Seeking
  <2>1. lists'[q] = NoLists
    BY <1>1, <1>4 DEF InHand, SameCall
  <2>. QED  BY <1>4, <2>1, NothingListed DEF WasOpen, SameCall
<1>. QED  BY <1>3, <1>4

LEMMA QuietWatched ==
  ASSUME ServiceInv, Watch, NEW q \in Tasks, SameCall(q),
         at[q] = "claiming" /\ pc'[q] = "done" =>
           pc[q] = "done" \/ request[q].issue \notin FreeIssues'
  PROVE  Watched(q)'
<1>1. InHand(q) /\ Watched(q)
  BY DEF ServiceInv
<1>2. CASE at[q] = "idle"
  BY <1>2, WatchOf DEF Watched, SameCall
<1>3. CASE at[q] # "idle"
  <2>1. steady'[q] = steady[q] \cap FreeIssues' /\ shifted[q] \subseteq shifted'[q]
    BY <1>3, WatchOf DEF SameCall
  <2>2. at[q] = "claiming" /\ pc'[q] = "done" => request[q].issue \notin steady'[q]
    BY <1>1, <2>1 DEF Watched
  <2>3. ASSUME NEW j \in steady'[q], RepoOf[j] \notin shifted'[q]
        PROVE  InSight(q, j)'
    <3>1. InSight(q, j) /\ j \in Issues
      BY <1>1, <2>1, <2>3 DEF Watched, FreeIssues, OpenIssues
    <3>2. at[q] = "listing" => Reaches(lists[q][RepoOf[j]], j)'
      BY <2>3, <3>1, ReachesOn DEF InSight
    <3>3. Untried(q)' = Untried(q)
      BY DEF Untried, SameCall
    <3>. QED  BY <3>1, <3>2, <3>3 DEF InSight, SameCall, Ahead
  <2>. QED  BY <1>1, <2>1, <2>2, <2>3 DEF Watched, SameCall
<1>. QED  BY <1>2, <1>3

LEMMA QuietCall ==
  ASSUME ServiceInv, Watch, NEW q \in Tasks, SameCall(q),
         at[q] = "claiming" /\ pc'[q] = "done" =>
           pc[q] = "done" \/ request[q].issue \notin FreeIssues'
  PROVE  CallOK(q)'
<1>1. InHand(q)'
  BY DEF ServiceInv, InHand, SameCall
<1>. QED  BY <1>1, QuietSeen, QuietWatched DEF CallOK

\* The steps that end an await and change nothing that the ghosts look at.
LEMMA UnwatchedCall ==
  ASSUME ServiceInv, NEW q \in Tasks, SameCall(q), pc'[q] = pc[q],
         UNCHANGED <<github, issueToClaimId, watchVars>>
  PROVE  CallOK(q)'
<1>1. InHand(q) /\ WasOpen(q) /\ Watched(q)
  BY DEF ServiceInv
<1>2. /\ OpenIssues' = OpenIssues /\ FreeIssues' = FreeIssues /\ Untried(q)' = Untried(q)
      /\ \A j \in Issues : Newer(j)' = Newer(j)
      /\ steady' = steady /\ seenOpen' = seenOpen /\ shifted' = shifted
  BY DEF OpenIssues, FreeIssues, Untried, Newer, OpenIn, IsOpen, isIssueClaimed, SameCall, watchVars
<1>3. InHand(q)'
  BY <1>1 DEF InHand, SameCall
<1>4. WasOpen(q)'
  BY <1>1, <1>2 DEF WasOpen, SameCall
<1>5. ASSUME NEW j \in Issues, InSight(q, j)
      PROVE  InSight(q, j)'
  BY <1>2, <1>5 DEF InSight, Reaches, SameCall, Ahead
<1>6. steady[q] \subseteq Issues
  BY DEF ServiceInv, WorkTypes, CallTypes
<1>7. Watched(q)'
  BY <1>1, <1>2, <1>5, <1>6 DEF Watched, SameCall
<1>. QED  BY <1>3, <1>4, <1>7 DEF CallOK

\* A call that has ended has nothing in hand.
LEMMA EndedCall ==
  ASSUME ServiceInv, Watch, NEW t \in Tasks, at'[t] = "idle", pc'[t] = "idle",
         asked'[t] = {}, lists'[t] = NoLists, candidates'[t] = NoneFound, closing'[t] = NoId
  PROVE  CallOK(t)'
<1>1. InHand(t)'
  BY WorkAssumption DEF InHand
<1>2. WasOpen(t)'
  BY NothingListed DEF WasOpen
<1>3. Watched(t)'
  BY WatchOf DEF Watched
<1>. QED  BY <1>1, <1>2, <1>3 DEF CallOK


-----------------------------------------------------------------------------
(* The steps of a call                                                     *)

\* The calls of the other tasks are as they were.
OthersSame(t) == \A q \in Tasks \ {t} : SameCall(q) /\ pc'[q] = pc[q]

\* What remains to be shown of a step of t that watches.
LEMMA OneCallMoves ==
  ASSUME ServiceInv, Watch, NEW t \in Tasks, CallTypes', up' = up,
         OthersSame(t), CallOK(t)'
  PROVE  ServiceInv'
<1>1. WorkTypes'
  BY WatchTypes DEF WorkTypes
<1>2. ASSUME NEW q \in Tasks
      PROVE  CallOK(q)'
  BY <1>2, QuietCall DEF OthersSame
<1>. QED  BY <1>1, <1>2 DEF ServiceInv, CallOK

\* And of one that does not.
LEMMA OneCallGoesOn ==
  ASSUME ServiceInv, NEW t \in Tasks, CallTypes', up' = up,
         UNCHANGED <<github, issueToClaimId, watchVars>>,
         OthersSame(t), CallOK(t)'
  PROVE  ServiceInv'
<1>1. WorkTypes'
  BY DEF ServiceInv, WorkTypes, watchVars
<1>2. ASSUME NEW q \in Tasks
      PROVE  CallOK(q)'
  BY <1>2, UnwatchedCall DEF OthersSame
<1>. QED  BY <1>1, <1>2 DEF ServiceInv, CallOK

LEMMA EmptyTypes ==
  /\ NoneFound \in [Issues -> Nat] /\ NotListed \in Listings
  /\ NoLists \in [Repos -> Listings]
<1>1. NoneFound \in [Issues -> Nat]
  BY DEF NoneFound
<1>2. NotListed \in Listings
  BY <1>1 DEF NotListed, Listings
<1>. QED  BY <1>1, <1>2 DEF NoLists

LEMMA WithType ==
  ASSUME NEW found \in [Issues -> Nat], NEW items
  PROVE  /\ With(found, items) \in [Issues -> Nat]
         /\ \A i \in Issues : With(found, items)[i] > 0 <=> found[i] > 0 \/ i \in items
BY DEF With

\* The claim manager's part of a step of t.
LocksOn(t) ==
  /\ up' = up /\ issueToClaimId' = issueToClaimId
  /\ \A q \in Tasks \ {t} : pc'[q] = pc[q] /\ request'[q] = request[q]

LEMMA InvokeLocks ==
  ASSUME TypeInv, NEW t \in Tasks, NEW r, withIssueLock(t, r)
  PROVE  LocksOn(t) /\ pc'[t] = "waiting" /\ request'[t] = r
<1>1. DOMAIN pc = Procs /\ DOMAIN request = Procs /\ Tasks \subseteq Procs
  BY DEF TypeInv, TypeOK, CallsOK
<1>. QED  BY <1>1 DEF withIssueLock, LocksOn, memory, world

LEMMA FinishLocks ==
  ASSUME TypeInv, NEW t \in Tasks, Finish(t)
  PROVE  LocksOn(t) /\ pc'[t] = "idle" /\ pc[t] = "done"
<1>1. DOMAIN pc = Procs /\ DOMAIN request = Procs /\ Tasks \subseteq Procs /\ t # Syncer
  BY SentinelAssumption DEF TypeInv, TypeOK, CallsOK
<1>. QED  BY <1>1 DEF Finish, LocksOn, memory, world

LEMMA IdleLocks ==
  ASSUME UNCHANGED vars, NEW t
  PROVE  LocksOn(t) /\ pc' = pc /\ request' = request
BY DEF vars, memory, calls, world, LocksOn

\* A call ends.
LEMMA EndsInv ==
  ASSUME ServiceInv, NEW t \in Tasks, Ends(t), Watch, LocksOn(t), pc'[t] = "idle",
         github' \in [Items -> {"absent", "open", "closed"}]
  PROVE  ServiceInv'
<1>0. CallTypes
  BY DEF ServiceInv, WorkTypes
<1>1. CallTypes'
  BY <1>0, EmptyTypes DEF CallTypes, Ends, Stages
<1>2. /\ at'[t] = "idle" /\ asked'[t] = {} /\ lists'[t] = NoLists
      /\ candidates'[t] = NoneFound /\ closing'[t] = NoId
  BY <1>0 DEF CallTypes, Ends
<1>3. OthersSame(t)
  BY <1>0 DEF CallTypes, Ends, OthersSame, SameCall, LocksOn
<1>. QED  BY <1>1, <1>2, <1>3, EndedCall, OneCallMoves DEF LocksOn

LEMMA EndsOtherwiseInv ==
  ASSUME ServiceInv, NEW t \in Tasks, NEW stage, stage \notin {"claiming", "updating"},
         EndsOtherwise(t, stage)
  PROVE  ServiceInv'
<1>1. LocksOn(t) /\ pc' = pc
  BY IdleLocks DEF EndsOtherwise
<1>2. pc[t] = "idle"
  BY DEF ServiceInv, InHand, EndsOtherwise
<1>3. github' \in [Items -> {"absent", "open", "closed"}]
  BY DEF ServiceInv, WorkTypes, CallTypes, EndsOtherwise
<1>. QED  BY <1>1, <1>2, <1>3, EndsInv DEF EndsOtherwise

LEMMA closeIssueInv ==
  ASSUME ServiceInv, NEW t \in Tasks, closeIssue(t)
  PROVE  ServiceInv'
<1>1. LocksOn(t) /\ pc' = pc
  BY IdleLocks DEF closeIssue
<1>2. pc[t] = "idle"
  BY DEF ServiceInv, InHand, closeIssue
<1>3. github' \in [Items -> {"absent", "open", "closed"}]
  BY DEF ServiceInv, WorkTypes, CallTypes, closeIssue
<1>. QED  BY <1>1, <1>2, <1>3, EndsInv DEF closeIssue


LEMMA ScopesType == \A repos \in Scopes : repos \subseteq Repos
BY WorkAssumption

LEMMA BegunCall ==
  ASSUME ServiceInv, Watch, NEW t \in Tasks, at[t] = "idle", pc'[t] = pc[t],
         at'[t] \in {"followups", "listing", "details"}, caller'[t] \in Agents,
         lists'[t] = lists[t], closing'[t] = closing[t],
         at'[t] = "details" => asked'[t] = {},
         at'[t] # "details" => candidates'[t] = candidates[t]
  PROVE  CallOK(t)'
<1>1. /\ pc[t] = "idle" /\ lists[t] = NoLists /\ candidates[t] = NoneFound
      /\ closing[t] \notin Issues
  BY DEF ServiceInv, InHand
<1>2. /\ steady'[t] = {i \in FreeIssues' : RepoOf[i] \in asked'[t]}
      /\ seenOpen'[t] = OpenIssues'
  BY WatchOf
<1>3. InHand(t)'
  BY <1>1 DEF InHand
<1>4. WasOpen(t)'
  BY <1>1, <1>2, NothingListed DEF WasOpen
<1>5. ASSUME NEW j \in steady'[t]
      PROVE  InSight(t, j)'
  <2>1. RepoOf[j] \in Repos
    BY <1>2, <1>5, WorkAssumption DEF FreeIssues, OpenIssues, Items
  <2>2. lists'[t][RepoOf[j]] = NotListed
    BY <1>1, <2>1 DEF NoLists
  <2>. QED  BY <2>2 DEF InSight, Reaches, NotListed
<1>6. Watched(t)'
  BY <1>2, <1>5 DEF Watched
<1>. QED  BY <1>3, <1>4, <1>6 DEF CallOK

LEMMA AsksInv ==
  ASSUME ServiceInv, NEW t \in Tasks, NEW a \in Agents,
         \/ \E repos \in SUBSET Repos : nextWork(t, a, repos) \/ nextIssue(t, a, repos)
         \/ \E i \in Issues : claimIssue(t, a, i)
  PROVE  ServiceInv'
<1>0. CallTypes
  BY DEF ServiceInv, WorkTypes
<1>1. UNCHANGED <<vars, github, lists, closing>> /\ Watch /\ at[t] = "idle"
  BY DEF nextWork, nextIssue, claimIssue, Begins
<1>2. LocksOn(t) /\ pc' = pc
  BY <1>1, IdleLocks
<1>. DEFINE Begun(stage, rs, found) ==
              /\ Begins(t, stage, a, rs)
              /\ candidates' = [candidates EXCEPT ![t] = found]
              /\ stage = "details" => rs = {}
              /\ stage # "details" => found = candidates[t]
<1>3. PICK stage \in {"followups", "listing", "details"}, rs \in SUBSET Repos,
           found \in [Issues -> Nat] : Begun(stage, rs, found)
  <2>1. CASE \E i \in Issues : claimIssue(t, a, i)
    <3>1. PICK i \in Issues : claimIssue(t, a, i)
      BY <2>1
    <3>2. With(NoneFound, {i}) \in [Issues -> Nat]
      BY EmptyTypes, WithType
    <3>3. Begun("details", {}, With(NoneFound, {i}))
      BY <3>1 DEF claimIssue
    <3>. HIDE DEF Begun
    <3>. QED  BY <3>2, <3>3
  <2>2. CASE \E repos \in SUBSET Repos : nextWork(t, a, repos) \/ nextIssue(t, a, repos)
    <3>1. PICK repos \in SUBSET Repos : nextWork(t, a, repos) \/ nextIssue(t, a, repos)
      BY <2>2
    <3>2. candidates[t] \in [Issues -> Nat]
      BY <1>0 DEF CallTypes
    <3>3. candidates' = [candidates EXCEPT ![t] = candidates[t]]
      BY <1>0, <3>1 DEF CallTypes, nextWork, nextIssue
    <3>4. \/ Begun("followups", repos, candidates[t])
          \/ Begun("listing", repos, candidates[t])
      BY <3>1, <3>3 DEF nextWork, nextIssue
    <3>. HIDE DEF Begun
    <3>. QED  BY <3>2, <3>4
  <2>. QED  BY <2>1, <2>2
<1>4. CallTypes'
  BY <1>0, <1>1, <1>3 DEF CallTypes, Begins, Stages
<1>5. /\ at'[t] = stage /\ caller'[t] = a /\ asked'[t] = rs
      /\ stage # "details" => candidates'[t] = candidates[t]
  BY <1>0, <1>3 DEF CallTypes, Begins
<1>6. OthersSame(t)
  BY <1>0, <1>1, <1>2, <1>3 DEF CallTypes, Begins, OthersSame, SameCall, LocksOn
<1>7. CallOK(t)'
  BY <1>1, <1>2, <1>3, <1>5, BegunCall
<1>. QED  BY <1>1, <1>2, <1>4, <1>6, <1>7, OneCallMoves DEF LocksOn

LEMMA UpdatesInv ==
  ASSUME TypeInv, ServiceInv, NEW t \in Tasks, NEW id \in ClaimIds, Updates(t, id)
  PROVE  ServiceInv'
<1>0. CallTypes /\ InHand(t) /\ at[t] = "idle"
  BY DEF ServiceInv, WorkTypes, Updates
<1>1. PICK r : withIssueLock(t, r)
  BY DEF Updates, InvokeRelease, InvokeUpdate
<1>2. LocksOn(t) /\ pc'[t] = "waiting"
  BY <1>1, InvokeLocks
<1>3. /\ at' = [at EXCEPT ![t] = "updating"] /\ Watch
      /\ UNCHANGED <<github, caller, asked, lists, candidates, closing>>
  BY DEF Updates
<1>4. CallTypes' /\ at'[t] = "updating"
  BY <1>0, <1>3 DEF CallTypes, Stages
<1>5. OthersSame(t)
  BY <1>0, <1>2, <1>3 DEF CallTypes, OthersSame, SameCall, LocksOn
<1>6. InHand(t)'
  BY <1>0, <1>2, <1>3, <1>4 DEF InHand
<1>7. WasOpen(t)'
  BY <1>0, <1>3, <1>4, NothingListed DEF WasOpen, InHand
<1>8. Watched(t)'
  <2>1. steady'[t] = {}
    BY <1>0, <1>3, <1>4, WatchOf DEF InHand
  <2>. QED  BY <1>4, <2>1 DEF Watched
<1>. QED  BY <1>2, <1>3, <1>4, <1>5, <1>6, <1>7, <1>8, OneCallMoves DEF LocksOn, CallOK

\* A body of the claim manager runs: a claim that was made, or found, means
\* that the issue is not free.
LEMMA RunBodyInv ==
  ASSUME ManagerInv, ServiceInv, NEW t \in Tasks, RunBody(t)
  PROVE  ServiceInv'
<1>0. CallTypes /\ t \in Procs /\ t # Syncer
  BY SentinelAssumption DEF ServiceInv, WorkTypes
<1>1. BodyFrame(t) /\ HasLock(t)
  BY <1>0, BodyOf DEF RunBody, ManagerInv
<1>2. UNCHANGED <<github, at, caller, asked, lists, candidates, closing>> /\ Watch
  BY DEF RunBody, callVars
<1>3. OthersSame(t)
  BY <1>1, <1>2 DEF BodyFrame, OthersSame, SameCall
<1>4. SameCall(t)
  BY <1>1, <1>2 DEF BodyFrame, SameCall
<1>5. ASSUME at[t] = "claiming"
      PROVE  request[t].issue \notin FreeIssues'
  <2>1. request[t].op = "claim"
    BY <1>5 DEF ServiceInv, InHand
  <2>2. RunClaim(t)
    BY <1>0, <2>1 DEF RunBody, Run, RunUpdate
  <2>3. request[t].issue \in Issues
    BY <1>1, RequestIssue DEF ManagerInv, TypeInv, QueuesOK, HasLock
  <2>4. issueToClaimId \in [Issues -> ClaimIds \cup {NoId}]
    BY DEF ManagerInv, TypeInv, TypeOK, MemoryOK
  <2>5. issueToClaimId'[request[t].issue] # NoId
    <3>1. CASE Holder(request[t].issue) # NoClaim
      BY <2>2, <3>1 DEF RunClaim, Holder, NothingDone, memory
    <3>2. ASSUME NEW id \in ClaimIds, CreateClaim(t, id, request[t])
          PROVE  issueToClaimId'[request[t].issue] # NoId
      BY <2>3, <2>4, <3>2, SentinelAssumption DEF CreateClaim
    <3>. QED  BY <2>2, <3>1, <3>2 DEF RunClaim
  <2>. QED  BY <2>5 DEF FreeIssues, isIssueClaimed
<1>6. CallOK(t)'
  BY <1>2, <1>4, <1>5, QuietCall
<1>7. CallTypes'
  BY <1>0, <1>2 DEF CallTypes
<1>8. up' = up
  BY <1>1 DEF BodyFrame
<1>. QED  BY <1>2, <1>3, <1>6, <1>7, <1>8, OneCallMoves

LEMMA GitHubInv ==
  ASSUME ServiceInv, NEW x \in Items, OpenItem(x) \/ CloseItem(x)
  PROVE  ServiceInv'
<1>1. UNCHANGED <<vars, callVars>> /\ Watch
  BY DEF OpenItem, CloseItem
<1>2. CallTypes'
  BY <1>1 DEF OpenItem, CloseItem, ServiceInv, WorkTypes, CallTypes, callVars
<1>3. pc' = pc /\ request' = request /\ up' = up
  BY <1>1 DEF vars, calls, world
<1>4. ASSUME NEW q \in Tasks
      PROVE  CallOK(q)'
  <2>1. SameCall(q) /\ pc'[q] = pc[q]
    BY <1>1, <1>3 DEF SameCall, callVars
  <2>. QED  BY <1>1, <2>1, QuietCall
<1>5. WorkTypes'
  BY <1>1, <1>2, WatchTypes DEF WorkTypes
<1>. QED  BY <1>3, <1>4, <1>5 DEF ServiceInv, CallOK


LEMMA NoFollowupInv ==
  ASSUME ServiceInv, NEW t \in Tasks, NoFollowup(t)
  PROVE  ServiceInv'
<1>0. CallTypes /\ InHand(t) /\ WasOpen(t) /\ Watched(t) /\ at[t] = "followups"
  BY DEF ServiceInv, WorkTypes, NoFollowup
<1>1. /\ UNCHANGED <<vars, github, caller, asked, lists, candidates, closing, watchVars>>
      /\ at' = [at EXCEPT ![t] = "listing"]
  BY DEF NoFollowup
<1>2. LocksOn(t) /\ pc' = pc /\ request' = request
  BY <1>1, IdleLocks
<1>3. CallTypes' /\ at'[t] = "listing"
  BY <1>0, <1>1 DEF CallTypes, Stages
<1>4. OthersSame(t)
  BY <1>0, <1>1, <1>2 DEF CallTypes, OthersSame, SameCall, LocksOn
<1>5. InHand(t)'
  BY <1>0, <1>1, <1>2, <1>3 DEF InHand
<1>6. steady' = steady /\ seenOpen' = seenOpen /\ shifted' = shifted
      /\ OpenIssues' = OpenIssues /\ FreeIssues' = FreeIssues
  BY <1>1, <1>2
     DEF watchVars, vars, memory, OpenIssues, FreeIssues, IsOpen, isIssueClaimed
<1>7. WasOpen(t)'
  BY <1>0, <1>1, <1>3, <1>6 DEF WasOpen
<1>8. ASSUME NEW j \in steady'[t]
      PROVE  InSight(t, j)'
  <2>1. RepoOf[j] \in Repos
    BY <1>0, <1>6, <1>8, WorkAssumption DEF Watched, FreeIssues, OpenIssues, Items
  <2>2. lists'[t][RepoOf[j]] = NotListed
    BY <1>0, <1>1, <2>1 DEF NoLists, InHand
  <2>. QED  BY <1>3, <2>2 DEF InSight, Reaches, NotListed
<1>9. Watched(t)'
  BY <1>0, <1>1, <1>3, <1>6, <1>8 DEF Watched
<1>. QED  BY <1>1, <1>2, <1>3, <1>4, <1>5, <1>7, <1>9, OneCallGoesOn DEF LocksOn, CallOK

\* A step of a listing, if it finds open issues only and reaches what it did.
LEMMA ListingInv ==
  ASSUME ServiceInv, NEW t \in Tasks, NEW r \in Repos, Lists(t, r), NEW l \in Listings,
         Listing(t, r, l),
         \A i \in Issues : l.found[i] > 0 => lists[t][r].found[i] > 0 \/ i \in OpenIssues,
         \A j \in Issues : IsOpen(j) /\ RepoOf[j] = r /\ Reaches(lists[t][r], j)
                             => Reaches(l, j)
  PROVE  ServiceInv'
<1>0. CallTypes /\ InHand(t) /\ WasOpen(t) /\ Watched(t) /\ at[t] = "listing"
  BY DEF ServiceInv, WorkTypes, Lists
<1>1. /\ UNCHANGED <<vars, github, at, caller, asked, candidates, closing, watchVars>>
      /\ lists' = [lists EXCEPT ![t][r] = l]
  BY DEF Listing
<1>2. LocksOn(t) /\ pc' = pc /\ request' = request
  BY <1>1, IdleLocks
<1>3. CallTypes'
  BY <1>0, <1>1 DEF CallTypes
<1>4. OthersSame(t)
  BY <1>0, <1>1, <1>2 DEF CallTypes, OthersSame, SameCall, LocksOn
<1>5. InHand(t)'
  BY <1>0, <1>1, <1>2 DEF InHand
<1>6. /\ steady' = steady /\ seenOpen' = seenOpen /\ shifted' = shifted
      /\ OpenIssues' = OpenIssues /\ FreeIssues' = FreeIssues
      /\ \A j \in Issues : Newer(j)' = Newer(j)
  BY <1>1, <1>2
     DEF watchVars, vars, memory, OpenIssues, FreeIssues, IsOpen, isIssueClaimed, Newer, OpenIn
<1>7. lists'[t][r] = l /\ \A s \in Repos \ {r} : lists'[t][s] = lists[t][s]
  BY <1>0, <1>1 DEF CallTypes
<1>8. WasOpen(t)'
  <2>1. ASSUME NEW s \in Repos, NEW i \in Issues, lists'[t][s].found[i] > 0
        PROVE  i \in seenOpen[t]
    <3>1. lists[t][s].found[i] > 0 \/ i \in OpenIssues
      BY <1>7, <2>1
    <3>. QED  BY <1>0, <3>1 DEF WasOpen
  <2>. QED  BY <1>0, <1>1, <1>6, <2>1 DEF WasOpen
<1>9. ASSUME NEW j \in steady'[t], RepoOf[j] \notin shifted'[t]
      PROVE  InSight(t, j)'
  <2>1. j \in Issues /\ IsOpen(j) /\ RepoOf[j] \in Repos /\ InSight(t, j)
    BY <1>0, <1>6, <1>9, WorkAssumption DEF Watched, FreeIssues, OpenIssues, Items
  <2>2. Reaches(lists[t][RepoOf[j]], j)
    BY <1>0, <2>1 DEF InSight
  <2>3. Reaches(lists'[t][RepoOf[j]], j)
    BY <1>7, <2>1, <2>2
  <2>4. Reaches(lists[t][RepoOf[j]], j)'
    BY <1>6, <2>1, <2>3 DEF Reaches
  <2>. QED  BY <1>0, <1>1, <2>4 DEF InSight
<1>10. Watched(t)'
  BY <1>0, <1>1, <1>2, <1>6, <1>9 DEF Watched
<1>. QED  BY <1>1, <1>2, <1>3, <1>4, <1>5, <1>8, <1>10, OneCallGoesOn
          DEF LocksOn, CallOK, vars, memory

LEMMA GhAnswersInv ==
  ASSUME ServiceInv, NEW t \in Tasks, NEW r \in Repos, GhAnswers(t, r)
  PROVE  ServiceInv'
<1>. DEFINE f == With(NoneFound, OpenIn(r))
            l == [page |-> 0, found |-> f, over |-> TRUE]
<1>1. l \in Listings /\ \A i \in Issues : f[i] > 0 <=> i \in OpenIn(r)
  BY EmptyTypes, WithType DEF Listings, NoneFound
<1>2. \A i \in Issues : l.found[i] > 0 => i \in OpenIssues
  BY <1>1 DEF OpenIn, OpenIssues
<1>3. \A j \in Issues : IsOpen(j) /\ RepoOf[j] = r => Reaches(l, j)
  BY <1>1 DEF OpenIn, Reaches, Items
<1>. QED  BY <1>1, <1>2, <1>3, ListingInv DEF GhAnswers

LEMMA GhFallsShortInv ==
  ASSUME ServiceInv, NEW t \in Tasks, NEW r \in Repos, GhFallsShort(t, r)
  PROVE  ServiceInv'
<1>. DEFINE l == [page |-> 1, found |-> NoneFound, over |-> FALSE]
<1>1. l \in Listings /\ \A i \in Issues : ~(l.found[i] > 0)
  BY EmptyTypes DEF Listings, NoneFound
<1>2. \A j \in Issues : Reaches(l, j)
  <2>1. ASSUME NEW j \in Issues
        PROVE  Cardinality(Newer(j)) >= (1 - 1) * PageSize
    <3>1. Newer(j) \in SUBSET Items
      BY DEF Newer, OpenIn
    <3>. QED  BY <3>1, FirstPage
  <2>. QED  BY <2>1 DEF Reaches
<1>. QED  BY <1>1, <1>2, ListingInv DEF GhFallsShort

\* A page has the issue, or as many newer items fill it and it is not the last.
LEMMA RestPageInv ==
  ASSUME ServiceInv, NEW t \in Tasks, NEW r \in Repos, RestPage(t, r)
  PROVE  ServiceInv'
<1>. DEFINE k == lists[t][r]
            last == Cardinality(OpenIn(r)) < k.page * PageSize
            f == With(k.found, Page(r, k.page))
            l == [page |-> IF last THEN 0 ELSE k.page + 1, found |-> f, over |-> last]
<1>0. k \in Listings /\ k.page \in Nat /\ k.page > 0 /\ ~k.over
  BY DEF ServiceInv, WorkTypes, CallTypes, RestPage, Lists, Listings
<1>1. /\ f \in [Issues -> Nat]
      /\ \A i \in Issues : f[i] > 0 <=> k.found[i] > 0 \/ i \in Page(r, k.page)
  BY <1>0, WithType DEF Listings
<1>2. l \in Listings
  BY <1>0, <1>1 DEF Listings
<1>3. \A i \in Issues : l.found[i] > 0 => k.found[i] > 0 \/ i \in OpenIssues
  BY <1>1 DEF Page, OpenIn, OpenIssues
<1>4. ASSUME NEW j \in Issues, IsOpen(j), RepoOf[j] = r, Reaches(k, j)
      PROVE  Reaches(l, j)
  <2>1. CASE k.found[j] > 0
    BY <1>1, <2>1 DEF Reaches
  <2>2. CASE Cardinality(Newer(j)) >= (k.page - 1) * PageSize
    <3>1. /\ Cardinality(Newer(j)) \in Nat /\ Cardinality(OpenIn(r)) \in Nat
          /\ Cardinality(Newer(j)) <= Cardinality(OpenIn(r))
      BY <1>4, NewerCounts
    <3>2. k.page * PageSize \in Int /\ (k.page - 1) * PageSize \in Int
      <4>1. k.page \in Int /\ k.page - 1 \in Int /\ PageSize \in Int
        BY <1>0, WorkAssumption
      <4>. QED  BY <4>1, Times
    <3>3. CASE Cardinality(Newer(j)) < k.page * PageSize
      <4>1. j \in Page(r, k.page)
        BY <1>4, <2>2, <3>1, <3>2, <3>3 DEF Page, OpenIn, Items
      <4>. QED  BY <1>1, <4>1 DEF Reaches
    <3>4. CASE Cardinality(Newer(j)) >= k.page * PageSize
      <4>1. ~last
        BY <3>1, <3>2, <3>4
      <4>2. l.page = k.page + 1 /\ ~l.over /\ l.page - 1 = k.page
        <5>. HIDE DEF k, f, last
        <5>. QED  BY <1>0, <4>1
      <4>. HIDE DEF l
      <4>3. Cardinality(Newer(j)) >= (l.page - 1) * PageSize
        BY <3>4, <4>2
      <4>. QED  BY <4>2, <4>3 DEF Reaches
    <3>. QED  BY <3>1, <3>2, <3>3, <3>4
  <2>. QED  BY <1>0, <1>4, <2>1, <2>2 DEF Reaches
<1>5. Lists(t, r) /\ Listing(t, r, l)
  BY DEF RestPage
<1>. QED  BY <1>2, <1>3, <1>4, <1>5, ListingInv


\* Every listing of the call is over, and every free issue of them is in it.
LEMMA CollectInv ==
  ASSUME ServiceInv, NEW t \in Tasks, collectCandidates(t)
  PROVE  ServiceInv'
<1>0. CallTypes /\ InHand(t) /\ WasOpen(t) /\ Watched(t) /\ at[t] = "listing"
  BY DEF ServiceInv, WorkTypes, collectCandidates
<1>1. /\ UNCHANGED <<vars, github, caller, asked, closing, watchVars>>
      /\ candidates' = [candidates EXCEPT ![t] = Collected(t)]
      /\ lists' = [lists EXCEPT ![t] = NoLists]
      /\ at' = [at EXCEPT ![t] = "choosing"]
  BY DEF collectCandidates
<1>2. LocksOn(t) /\ pc' = pc /\ request' = request
  BY <1>1, IdleLocks
<1>3. /\ Collected(t) \in [Issues -> Nat]
      /\ \A i \in Issues : Collected(t)[i] > 0 <=>
           /\ RepoOf[i] \in asked[t] /\ ~isIssueClaimed(i)
           /\ lists[t][RepoOf[i]].found[i] > 0
  <2>1. ASSUME NEW i \in Issues
        PROVE  lists[t][RepoOf[i]].found[i] \in Nat
    <3>1. RepoOf[i] \in Repos
      BY WorkAssumption DEF Items
    <3>. QED  BY <1>0, <3>1 DEF CallTypes, Listings
  <2>. QED  BY <2>1 DEF Collected
<1>4. CallTypes' /\ at'[t] = "choosing" /\ lists'[t] = NoLists /\ candidates'[t] = Collected(t)
  BY <1>0, <1>1, <1>3, EmptyTypes DEF CallTypes, Stages
<1>5. OthersSame(t)
  BY <1>0, <1>1, <1>2 DEF CallTypes, OthersSame, SameCall, LocksOn
<1>6. InHand(t)'
  BY <1>0, <1>1, <1>2, <1>4 DEF InHand
<1>7. steady' = steady /\ seenOpen' = seenOpen /\ shifted' = shifted
      /\ OpenIssues' = OpenIssues /\ FreeIssues' = FreeIssues
  BY <1>1, <1>2
     DEF watchVars, vars, memory, OpenIssues, FreeIssues, IsOpen, isIssueClaimed
<1>8. WasOpen(t)'
  <2>1. ASSUME NEW i \in Issues, candidates'[t][i] > 0
        PROVE  i \in seenOpen[t]
    <3>1. lists[t][RepoOf[i]].found[i] > 0 /\ RepoOf[i] \in Repos
      BY <1>3, <1>4, <2>1, WorkAssumption DEF Items
    <3>. QED  BY <1>0, <3>1 DEF WasOpen
  <2>. QED  BY <1>0, <1>4, <1>7, <2>1, NothingListed DEF WasOpen, Untried
<1>9. ASSUME NEW j \in steady'[t], RepoOf[j] \notin shifted'[t]
      PROVE  InSight(t, j)'
  <2>1. j \in Issues /\ ~isIssueClaimed(j) /\ RepoOf[j] \in asked[t] /\ InSight(t, j)
    BY <1>0, <1>7, <1>9 DEF Watched, FreeIssues, OpenIssues
  <2>2. lists[t][RepoOf[j]].over /\ Reaches(lists[t][RepoOf[j]], j)
    BY <1>0, <2>1 DEF collectCandidates, InSight
  <2>3. Collected(t)[j] > 0
    BY <1>3, <2>1, <2>2 DEF Reaches
  <2>. QED  BY <1>4, <2>1, <2>3 DEF InSight, Untried
<1>10. Watched(t)'
  BY <1>0, <1>1, <1>4, <1>7, <1>9 DEF Watched
<1>. QED  BY <1>1, <1>2, <1>4, <1>5, <1>6, <1>8, <1>10, OneCallGoesOn
          DEF LocksOn, CallOK, vars, memory

\* The claim of an issue is asked for: what is left of the candidates, and who
\* is behind it.
LEMMA ClaimBegins ==
  ASSUME TypeInv, ServiceInv, NEW t \in Tasks, at[t] \in {"choosing", "details"},
         NEW i \in Issues, NEW m \in Metas, InvokeClaim(t, caller[t], i, m),
         NEW left \in [Issues -> Nat], candidates' = [candidates EXCEPT ![t] = left],
         at' = [at EXCEPT ![t] = "claiming"],
         UNCHANGED <<github, caller, asked, lists, closing, watchVars>>,
         i \in seenOpen[t], \A j \in Issues : left[j] > 0 => j \in seenOpen[t],
         at[t] = "choosing" =>
           \A j \in Untried(t) \ {i} : left[j] > 0 /\ Ahead(i, j)
  PROVE  ServiceInv'
<1>0. CallTypes /\ InHand(t) /\ WasOpen(t) /\ Watched(t)
  BY DEF ServiceInv, WorkTypes
<1>1. PICK r : withIssueLock(t, r) /\ r.op = "claim" /\ r.issue = i
  BY DEF InvokeClaim
<1>2. LocksOn(t) /\ pc'[t] = "waiting" /\ request'[t] = r
  BY <1>1, InvokeLocks
<1>3. CallTypes' /\ at'[t] = "claiming" /\ candidates'[t] = left
  BY <1>0 DEF CallTypes, Stages
<1>4. OthersSame(t)
  BY <1>0, <1>2 DEF CallTypes, OthersSame, SameCall, LocksOn
<1>5. InHand(t)'
  BY <1>0, <1>1, <1>2, <1>3 DEF InHand
<1>6. steady' = steady /\ seenOpen' = seenOpen /\ shifted' = shifted
      /\ OpenIssues' = OpenIssues /\ FreeIssues' = FreeIssues
  BY <1>2 DEF LocksOn, watchVars, OpenIssues, FreeIssues, IsOpen, isIssueClaimed
<1>7. WasOpen(t)'
  BY <1>0, <1>1, <1>2, <1>3, <1>6, NothingListed DEF WasOpen, InHand, Untried
<1>8. ASSUME NEW j \in steady'[t], RepoOf[j] \notin shifted'[t]
      PROVE  InSight(t, j)'
  <2>1. j \in Issues /\ InSight(t, j) /\ at[t] = "choosing"
    BY <1>0, <1>6, <1>8 DEF Watched, FreeIssues, OpenIssues
  <2>2. j = i \/ (left[j] > 0 /\ Ahead(i, j))
    BY <2>1 DEF InSight
  <2>. QED  BY <1>1, <1>2, <1>3, <2>1, <2>2 DEF InSight, Untried, Ahead
<1>9. Watched(t)'
  BY <1>0, <1>2, <1>3, <1>6, <1>8 DEF Watched
<1>. QED  BY <1>2, <1>3, <1>4, <1>5, <1>7, <1>9, OneCallGoesOn DEF LocksOn, CallOK

LEMMA TryCandidateInv ==
  ASSUME TypeInv, ServiceInv, NEW t \in Tasks, TryCandidate(t)
  PROVE  ServiceInv'
<1>1. PICK i \in Issues, m \in Metas :
        /\ Best(t, i) /\ InvokeClaim(t, caller[t], i, m)
        /\ candidates' = [candidates EXCEPT ![t][i] = @ - 1]
  BY DEF TryCandidate
<1>2. candidates \in [Tasks -> [Issues -> Nat]] /\ Untried(t) \subseteq seenOpen[t]
  BY DEF ServiceInv, WorkTypes, CallTypes, WasOpen, TryCandidate
<1>. DEFINE left == [candidates[t] EXCEPT ![i] = @ - 1]
<1>3. candidates[t][i] > 0
  BY <1>1 DEF Best, Untried
<1>4. left \in [Issues -> Nat] /\ candidates' = [candidates EXCEPT ![t] = left]
  BY <1>1, <1>2, <1>3
<1>5. \A j \in Issues : left[j] > 0 => j \in seenOpen[t]
  BY <1>2, <1>3 DEF Untried
<1>6. \A j \in Untried(t) \ {i} : left[j] > 0 /\ Ahead(i, j)
  BY <1>1, <1>2 DEF Best, Untried
<1>7. i \in seenOpen[t]
  BY <1>2, <1>3 DEF Untried
<1>. HIDE DEF left
<1>. QED  BY <1>1, <1>4, <1>5, <1>6, <1>7, ClaimBegins DEF TryCandidate

LEMMA DetailsInv ==
  ASSUME TypeInv, ServiceInv, NEW t \in Tasks, DetailsShowOpen(t)
  PROVE  ServiceInv'
<1>1. PICK i \in Issues, m \in Metas : IsOpen(i) /\ InvokeClaim(t, caller[t], i, m)
  BY DEF DetailsShowOpen, Untried
<1>2. i \in seenOpen[t]
  BY <1>1 DEF ServiceInv, WasOpen, DetailsShowOpen, OpenIssues
<1>3. \A j \in Issues : ~(NoneFound[j] > 0)
  BY DEF NoneFound
<1>. QED  BY <1>1, <1>2, <1>3, EmptyTypes, ClaimBegins DEF DetailsShowOpen

\* A candidate that was refused is no issue that is watched.
LEMMA ClaimAnsweredInv ==
  ASSUME TypeInv, ServiceInv, NEW t \in Tasks, ClaimAnswered(t)
  PROVE  ServiceInv'
<1>0. CallTypes /\ InHand(t) /\ WasOpen(t) /\ Watched(t) /\ at[t] = "claiming"
  BY DEF ServiceInv, WorkTypes, ClaimAnswered
<1>1. LocksOn(t) /\ pc'[t] = "idle" /\ pc[t] = "done"
  BY FinishLocks DEF ClaimAnswered
<1>2. Watch /\ github' = github
  BY DEF ClaimAnswered
<1>3. CASE Ends(t)
  BY <1>0, <1>1, <1>2, <1>3, EndsInv DEF CallTypes
<1>4. CASE at' = [at EXCEPT ![t] = "choosing"]
           /\ UNCHANGED <<caller, asked, lists, candidates, closing>>
  <2>1. CallTypes' /\ at'[t] = "choosing"
    BY <1>0, <1>2, <1>4 DEF CallTypes, Stages
  <2>2. OthersSame(t)
    BY <1>0, <1>1, <1>4 DEF CallTypes, OthersSame, SameCall, LocksOn
  <2>3. InHand(t)'
    BY <1>0, <1>1, <1>4, <2>1 DEF InHand
  <2>4. /\ steady'[t] = steady[t] \cap FreeIssues' /\ shifted[t] \subseteq shifted'[t]
        /\ seenOpen'[t] = seenOpen[t] \cup OpenIssues'
    BY <1>0, <1>2, <2>1, WatchOf
  <2>5. WasOpen(t)'
    BY <1>0, <1>4, <2>1, <2>4 DEF WasOpen, Untried
  <2>6. Watched(t)'
    <3>1. ASSUME NEW j \in steady'[t], RepoOf[j] \notin shifted'[t]
          PROVE  InSight(t, j)'
      <4>1. j # request[t].issue /\ InSight(t, j)
        BY <1>0, <1>1, <2>4, <3>1 DEF Watched
      <4>. QED  BY <1>0, <1>4, <2>1, <4>1 DEF InSight, Untried
    <3>. QED  BY <1>0, <1>4, <2>1, <2>4, <3>1 DEF Watched
  <2>. QED  BY <1>1, <1>2, <2>1, <2>2, <2>3, <2>5, <2>6, OneCallMoves DEF LocksOn, CallOK
<1>. QED  BY <1>3, <1>4 DEF ClaimAnswered

LEMMA UpdateAnsweredInv ==
  ASSUME TypeInv, ServiceInv, NEW t \in Tasks, UpdateAnswered(t)
  PROVE  ServiceInv'
<1>0. CallTypes /\ InHand(t) /\ Watched(t) /\ at[t] = "updating"
  BY DEF ServiceInv, WorkTypes, UpdateAnswered
<1>1. LocksOn(t) /\ pc'[t] = "idle" /\ pc[t] = "done"
  BY FinishLocks DEF UpdateAnswered
<1>2. Watch /\ github' = github
  BY DEF UpdateAnswered
<1>3. CASE Ends(t)
  BY <1>0, <1>1, <1>2, <1>3, EndsInv DEF CallTypes
<1>4. CASE /\ at' = [at EXCEPT ![t] = "closing"]
           /\ closing' = [closing EXCEPT ![t] = request[t].issue]
           /\ UNCHANGED <<caller, asked, lists, candidates>>
  <2>0. request[t].issue \in Issues
    BY <1>1, RequestIssue DEF TypeInv, QueuesOK
  <2>1. CallTypes' /\ at'[t] = "closing" /\ closing'[t] \in Issues
    BY <1>0, <1>2, <1>4, <2>0 DEF CallTypes, Stages
  <2>2. OthersSame(t)
    BY <1>0, <1>1, <1>4 DEF CallTypes, OthersSame, SameCall, LocksOn
  <2>3. InHand(t)'
    BY <1>0, <1>1, <1>4, <2>1 DEF InHand
  <2>4. steady'[t] = {}
    BY <1>0, <1>2, <2>1, WatchOf DEF Watched
  <2>5. WasOpen(t)'
    BY <1>0, <1>4, <2>1, NothingListed DEF WasOpen, InHand
  <2>6. Watched(t)'
    BY <2>1, <2>4 DEF Watched
  <2>. QED  BY <1>1, <1>2, <2>1, <2>2, <2>3, <2>5, <2>6, OneCallMoves DEF LocksOn, CallOK
<1>. QED  BY <1>3, <1>4 DEF UpdateAnswered


-----------------------------------------------------------------------------
(* The invariant                                                           *)

LEMMA ServiceInit == WorkInit => ServiceInv
<1>. SUFFICES ASSUME WorkInit PROVE ServiceInv
  OBVIOUS
<1>1. /\ at = [t \in Tasks |-> "idle"] /\ asked = [t \in Tasks |-> {}]
      /\ lists = [t \in Tasks |-> NoLists] /\ candidates = [t \in Tasks |-> NoneFound]
      /\ closing = [t \in Tasks |-> NoId] /\ steady = [t \in Tasks |-> {}]
  BY DEF WorkInit
<1>2. WorkTypes
  BY EmptyTypes DEF WorkInit, WorkTypes, CallTypes, Stages
<1>3. up /\ pc = [p \in Procs |-> "idle"]
  BY DEF WorkInit, Init
<1>4. ASSUME NEW t \in Tasks
      PROVE  InHand(t) /\ WasOpen(t) /\ Watched(t)
  <2>1. InHand(t)
    BY <1>1, <1>3, WorkAssumption DEF InHand
  <2>2. WasOpen(t)
    BY <1>1, NothingListed DEF WasOpen
  <2>3. Watched(t)
    BY <1>1 DEF Watched
  <2>. QED  BY <2>1, <2>2, <2>3
<1>. QED  BY <1>2, <1>3, <1>4 DEF ServiceInv

LEMMA ProceedsInv ==
  ASSUME ManagerInv, ServiceInv, NEW t \in Tasks, Proceeds(t)
  PROVE  ServiceInv'
<1>0. TypeInv
  BY DEF ManagerInv
<1>1. CASE \/ FollowupAnswers(t) \/ ListingFails(t) \/ NothingLeft(t)
           \/ NotClaimable(t) \/ CloseFails(t)
  BY <1>1, EndsOtherwiseInv
     DEF FollowupAnswers, ListingFails, NothingLeft, NotClaimable, CloseFails
<1>2. CASE \E r \in Repos : GhAnswers(t, r) \/ GhFallsShort(t, r) \/ RestPage(t, r)
  BY <1>2, GhAnswersInv, GhFallsShortInv, RestPageInv
<1>3. CASE NoFollowup(t) \/ collectCandidates(t) \/ closeIssue(t) \/ RunBody(t)
  BY <1>3, NoFollowupInv, CollectInv, closeIssueInv, RunBodyInv
<1>4. CASE \/ TryCandidate(t) \/ ClaimAnswered(t) \/ DetailsShowOpen(t)
           \/ UpdateAnswered(t)
  BY <1>0, <1>4, TryCandidateInv, ClaimAnsweredInv, DetailsInv, UpdateAnsweredInv
<1>. QED  BY <1>1, <1>2, <1>3, <1>4 DEF Proceeds

LEMMA ServiceNext == ManagerInv /\ ServiceInv /\ [WorkNext]_workVars => ServiceInv'
<1>. SUFFICES ASSUME ManagerInv, ServiceInv, [WorkNext]_workVars PROVE ServiceInv'
  OBVIOUS
<1>1. ASSUME NEW t \in Tasks, Asks(t)
      PROVE  ServiceInv'
  <2>1. ASSUME NEW a \in Agents, NEW repos \in Scopes,
               nextWork(t, a, repos) \/ nextIssue(t, a, repos)
        PROVE  ServiceInv'
    <3>1. repos \subseteq Repos
      BY ScopesType
    <3>2. PICK rs \in SUBSET Repos : nextWork(t, a, rs) \/ nextIssue(t, a, rs)
      BY <2>1, <3>1
    <3>. QED  BY <3>2, AsksInv
  <2>2. ASSUME NEW a \in Agents, NEW i \in Issues, claimIssue(t, a, i)
        PROVE  ServiceInv'
    BY <2>2, AsksInv
  <2>3. ASSUME NEW id \in ClaimIds, Updates(t, id)
        PROVE  ServiceInv'
    BY <2>3, UpdatesInv DEF ManagerInv
  <2>. QED  BY <1>1, <2>1, <2>2, <2>3 DEF Asks
<1>2. ASSUME NEW t \in Tasks, Proceeds(t)
      PROVE  ServiceInv'
  BY <1>2, ProceedsInv
<1>3. ASSUME NEW x \in Items, OpenItem(x) \/ CloseItem(x)
      PROVE  ServiceInv'
  BY <1>3, GitHubInv
<1>4. CASE UNCHANGED workVars
  <2>1. UNCHANGED <<vars, github, callVars, watchVars>>
    BY <1>4 DEF workVars
  <2>2. CallTypes'
    BY <2>1 DEF ServiceInv, WorkTypes, CallTypes, callVars
  <2>3. /\ pc' = pc /\ request' = request /\ up' = up /\ issueToClaimId' = issueToClaimId
        /\ UNCHANGED <<github, watchVars>>
    BY <2>1 DEF vars, calls, world, memory
  <2>4. ASSUME NEW q \in Tasks
        PROVE  CallOK(q)'
    <3>1. SameCall(q) /\ pc'[q] = pc[q]
      BY <2>1, <2>3 DEF SameCall, callVars
    <3>. QED  BY <2>3, <3>1, UnwatchedCall
  <2>5. WorkTypes'
    BY <2>2, <2>3 DEF ServiceInv, WorkTypes, watchVars
  <2>. QED  BY <2>3, <2>4, <2>5 DEF ServiceInv, CallOK
<1>. QED  BY <1>1, <1>2, <1>3, <1>4 DEF WorkNext

-----------------------------------------------------------------------------
(* The theorems                                                            *)

\* The claim manager's invariants and the service's, of the two together.
THEOREM WorkSafety == WorkSpec => [](ManagerInv /\ ServiceInv)
<1>1. WorkInit => ManagerInv /\ ServiceInv
  BY ServiceInit, TypeInit, SafeInit, LifeInit DEF WorkInit, ManagerInv
<1>2. ManagerInv /\ ServiceInv /\ [WorkNext]_workVars => (ManagerInv /\ ServiceInv)'
  <2>. SUFFICES ASSUME ManagerInv, ServiceInv, [WorkNext]_workVars
                PROVE  (ManagerInv /\ ServiceInv)'
    OBVIOUS
  <2>1. [Next]_vars
    BY StepIsNext DEF ManagerInv
  <2>2. TypeInv'
    BY <2>1, TypeNext DEF ManagerInv
  <2>. QED  BY <2>1, <2>2, SafeNext, LifeNext, ServiceNext DEF ManagerInv
<1>. QED  BY <1>1, <1>2, PTL DEF WorkSpec

\* Whatever agents, GitHub and failing requests make of its calls, the service
\* asks of the claim manager only what its Spec allows (nextIssue, claimIssue,
\* updateClaimStatus, releaseIssue).
THEOREM WorkUsesManager == WorkSpec => Spec
<1>1. WorkInit => Init
  BY DEF WorkInit
<1>2. ManagerInv /\ ServiceInv /\ [WorkNext]_workVars => [Next]_vars
  BY StepIsNext DEF ManagerInv
<1>. QED  BY <1>1, <1>2, WorkSafety, PTL DEF WorkSpec, Spec

\* What agents were promised of the claim manager they get through the service.
THEOREM ClaimsUnderWork ==
  WorkSpec => /\ [](Exclusive /\ IndexConsistent /\ AnswersHold /\ ChangesAreDurable)
              /\ [](GrantedIsDurable /\ EndsOnce /\ LocksHaveOwners)
              /\ PrBacked /\ EndsRightly
              /\ MaxFailures = 0 => ImplementsRegistry
<1>1. Spec => (MaxFailures = 0 => ImplementsRegistry)
  <2>1. CASE MaxFailures = 0
    BY <2>1, RegistryImplemented
  <2>2. CASE MaxFailures # 0
    BY <2>2
  <2>. QED  BY <2>1, <2>2
<1>. QED
  BY <1>1, WorkUsesManager, ExclusiveHolds, IndexHolds, AnswersHoldTrue, DurableAnswers, GrantsLast,
     EndsOnceOnly, PrsBacked, LocksOwned, EndsByRightOnly, PTL

\* The types, and that a call of the service awaits the claim manager exactly
\* while the claim manager has a call of its task.
THEOREM WorkTypesHold == WorkSpec => []WorkTypeOK
<1>1. ServiceInv => WorkTypeOK
  BY DEF ServiceInv, WorkTypes, CallTypes, InHand, WorkTypeOK
<1>. QED  BY <1>1, WorkSafety, PTL

\* An issue that is given was open at some time since the call began, however
\* long that waited for listings, locks and other claims (nextIssue, claimIssue).
THEOREM GivenIsOpen == WorkSpec => []GivenWasOpen
<1>1. ServiceInv => GivenWasOpen
  BY DEF ServiceInv, WasOpen, GivenWasOpen, GivesIssue
<1>. QED  BY <1>1, WorkSafety, PTL

\* No issue that was open and unclaimed all through a call is passed over for
\* a less urgent one, or for the answer that there is none, whatever the pages,
\* their size, gh's limit, the other agents and GitHub do in between; but for
\* the repositories in which an item closed between two pages (nextIssue,
\* listOpenIssues, compareIssuesByPriority).
THEOREM NoWorkOverlooked == WorkSpec => []NothingOverlooked
<1>1. ServiceInv => NothingOverlooked
  <2>. SUFFICES ASSUME ServiceInv, NEW t \in Tasks, NEW j \in steady[t],
                       RepoOf[j] \notin shifted[t]
                PROVE  ~SaysNothing(t) /\ (GivesIssue(t) => Ahead(request[t].issue, j))
    BY DEF NothingOverlooked
  <2>1. InSight(t, j) /\ Watched(t)
    BY DEF ServiceInv, Watched
  <2>2. ~SaysNothing(t)
    BY <2>1 DEF InSight, SaysNothing
  <2>3. GivesIssue(t) => Ahead(request[t].issue, j)
    BY <2>1 DEF InSight, GivesIssue, Watched
  <2>. QED  BY <2>2, <2>3
<1>. QED  BY <1>1, WorkSafety, PTL


=============================================================================
