---------------------------- MODULE WorkService ----------------------------
(***************************************************************************)
(* How agents get work: IssueCommandService (src/issuecommand-service.ts)  *)
(* and GitHubService's listings (src/github.ts) composed with the claim    *)
(* manager.                                                                *)
(*                                                                         *)
(* A request for work asks the follow-up queue, then lists the open issues *)
(* of its repositories, all at once, drops those that are claimed, and     *)
(* tries the rest in the order of their priority until a claim is made.    *)
(* The listing is one answer of the gh tool, or, when gh fails or reaches  *)
(* its limit, page after page of the REST interface, newest first, with    *)
(* pull requests among the issues.  Every await is a step boundary: issues *)
(* open and close at GitHub, and other agents claim them, between any two  *)
(* steps, two pages included.                                              *)
(*                                                                         *)
(* The sync service and its sweeps are SyncService's, the death of the     *)
(* process is ClaimManager's, and the follow-up queue is FollowupManager's *)
(* and stands here for any answer it may give.                             *)
(***************************************************************************)
EXTENDS ClaimManager

CONSTANTS
  Repos,       \* the repositories that are allowed
  Scopes,      \* the sets of them that agents ask for: one that is named, or all
  Pulls,       \* pull requests, which the REST interface lists with the issues
  ByAge,       \* issues and pull requests, oldest first: created_at
  RepoOf,      \* the repository of each
  Score,       \* scoreIssuePriority of an issue's labels
  GhLimit, PageSize,   \* GH_ISSUE_LIST_LIMIT, REST_PAGE_SIZE
  AutoClose    \* autoCloseGithubIssue

Items == Issues \cup Pulls

ASSUME WorkAssumption ==
  /\ Issues \cap Pulls = {} /\ IsFiniteSet(Items) /\ NoId \notin Issues
  /\ ByAge \in Seq(Items) /\ Len(ByAge) = Cardinality(Items)
  /\ \A x \in Items : \E n \in 1..Len(ByAge) : ByAge[n] = x
  /\ Scopes \subseteq {{r} : r \in Repos} \cup {Repos}
  /\ RepoOf \in [Items -> Repos] /\ Score \in [Issues -> 0..2]
  /\ GhLimit \in Nat \ {0} /\ PageSize \in Nat \ {0} /\ AutoClose \in BOOLEAN

VARIABLES
  github,      \* item -> "absent", "open" or "closed"
  at,          \* per task, what its service call awaits
  caller,      \* the agent that asks for work
  asked,       \* the repositories whose issues it may get
  lists,       \* per repository, its listing so far
  candidates,  \* of each issue, how many times it is still to be tried
  closing,     \* the issue to close at GitHub, once its claim is closed
  steady,      \* ghost: issues open and unclaimed ever since the call began
  seenOpen,    \* ghost: issues open at some time since the call began
  shifted      \* ghost: repositories in which an item closed between two pages

callVars == <<at, caller, asked, lists, candidates, closing>>
watchVars == <<steady, seenOpen, shifted>>
workVars == <<vars, github, callVars, watchVars>>

\* A list of issues, whatever its order: of each issue, how often it is there.
NoneFound == [i \in Issues |-> 0]

With(found, items) == [i \in Issues |-> IF i \in items THEN found[i] + 1 ELSE found[i]]

NotListed == [page |-> 0, found |-> NoneFound, over |-> FALSE]
NoLists   == [r \in Repos |-> NotListed]

IsOpen(x) == github[x] = "open"

isIssueClaimed(i) == issueToClaimId[i] # NoId

Age(x) == CHOOSE n \in 1..Len(ByAge) : ByAge[n] = x

-----------------------------------------------------------------------------
(* The ghosts, from the state after a step                                 *)

OpenIssues == {i \in Issues : IsOpen(i)}

FreeIssues == {i \in OpenIssues : ~isIssueClaimed(i)}

\* Part of every step that begins or ends a service call, changes GitHub or
\* runs a body of the claim manager.
Watch ==
  /\ steady' = [t \in Tasks |->
       IF at'[t] = "idle" THEN {}
       ELSE IF at[t] = "idle" THEN {i \in FreeIssues' : RepoOf[i] \in asked'[t]}
       ELSE steady[t] \cap FreeIssues']
  /\ seenOpen' = [t \in Tasks |->
       IF at'[t] \in {"idle", "updating", "closing"} THEN {}
       ELSE IF at[t] = "idle" THEN OpenIssues' ELSE seenOpen[t] \cup OpenIssues']
  /\ shifted' = [t \in Tasks |->
       IF at'[t] = "idle" THEN {}
       ELSE shifted[t] \cup
              {r \in Repos : /\ at[t] = "listing" /\ lists[t][r].page > 1 /\ ~lists[t][r].over
                             /\ \E x \in Items : RepoOf[x] = r /\ IsOpen(x) /\ ~IsOpen(x)'}]

WorkInit ==
  /\ Init
  /\ github \in [Items -> {"absent", "open"}]
  /\ at = [t \in Tasks |-> "idle"] /\ caller = [t \in Tasks |-> NoId]
  /\ asked = [t \in Tasks |-> {}] /\ lists = [t \in Tasks |-> NoLists]
  /\ candidates = [t \in Tasks |-> NoneFound] /\ closing = [t \in Tasks |-> NoId]
  /\ steady = [t \in Tasks |-> {}] /\ seenOpen = [t \in Tasks |-> {}]
  /\ shifted = [t \in Tasks |-> {}]

-----------------------------------------------------------------------------
(* Calls begin and end                                                     *)

\* Each call that may claim has an unused id kept for it: a bound on claims.
SpareId ==
  Cardinality(ClaimIds \ issued)
    > Cardinality({t \in Tasks : at[t] \notin {"idle", "closing"}})

Begins(t, stage, a, repos) ==
  /\ up /\ at[t] = "idle" /\ SpareId
  /\ at' = [at EXCEPT ![t] = stage]
  /\ caller' = [caller EXCEPT ![t] = a]
  /\ asked' = [asked EXCEPT ![t] = repos]

Ends(t) ==
  /\ at' = [at EXCEPT ![t] = "idle"]
  /\ caller' = [caller EXCEPT ![t] = NoId]
  /\ asked' = [asked EXCEPT ![t] = {}]
  /\ lists' = [lists EXCEPT ![t] = NoLists]
  /\ candidates' = [candidates EXCEPT ![t] = NoneFound]
  /\ closing' = [closing EXCEPT ![t] = NoId]

\* The call ends, and nothing but the call has changed.
EndsOtherwise(t, stage) ==
  /\ at[t] = stage /\ Ends(t)
  /\ UNCHANGED <<vars, github>>
  /\ Watch

-----------------------------------------------------------------------------
(* nextWork and nextIssue                                                  *)

\* Of one repository, or of all.
nextWork(t, a, repos) ==
  /\ Begins(t, "followups", a, repos)
  /\ UNCHANGED <<vars, github, lists, candidates, closing>>
  /\ Watch

\* The next_issue tool asks for an issue at once.  That listRepos is awaited
\* first when no repository was named only delays the listings.
nextIssue(t, a, repos) ==
  /\ Begins(t, "listing", a, repos)
  /\ UNCHANGED <<vars, github, lists, candidates, closing>>
  /\ Watch

\* claimNextFollowup's item, or its error, is the answer.
FollowupAnswers(t) == EndsOtherwise(t, "followups")

\* It has nothing.
NoFollowup(t) ==
  /\ at[t] = "followups" /\ at' = [at EXCEPT ![t] = "listing"]
  /\ UNCHANGED <<vars, github, caller, asked, lists, candidates, closing, watchVars>>

-----------------------------------------------------------------------------
(* listOpenIssues                                                          *)

Lists(t, r) == at[t] = "listing" /\ r \in asked[t] /\ ~lists[t][r].over

Listing(t, r, listing) ==
  /\ lists' = [lists EXCEPT ![t][r] = listing]
  /\ UNCHANGED <<vars, github, at, caller, asked, candidates, closing, watchVars>>

OpenIn(r) == {x \in Items : RepoOf[x] = r /\ IsOpen(x)}

\* gh lists the issues, but no more of them than the limit: at the limit there
\* may be more, and the REST interface is asked instead, as when gh fails.
GhAnswers(t, r) ==
  /\ Lists(t, r) /\ lists[t][r].page = 0
  /\ Cardinality(OpenIn(r) \cap Issues) < GhLimit
  /\ Listing(t, r, [page |-> 0, found |-> With(NoneFound, OpenIn(r)), over |-> TRUE])

GhFallsShort(t, r) ==
  /\ Lists(t, r) /\ lists[t][r].page = 0
  /\ Listing(t, r, [page |-> 1, found |-> NoneFound, over |-> FALSE])

\* What is open in x's repository and comes before it: the newest come first.
Newer(x) == {y \in OpenIn(RepoOf[x]) : Age(y) > Age(x)}

Page(r, n) ==
  {x \in OpenIn(r) : /\ (n - 1) * PageSize <= Cardinality(Newer(x))
                     /\ Cardinality(Newer(x)) < n * PageSize}

RestPageOfIssues(t, r) ==   \* mutant: a page counts as the last when few of it are issues
  /\ Lists(t, r) /\ lists[t][r].page > 0
  /\ LET l == lists[t][r]
         last == Cardinality(Page(r, l.page) \cap Issues) < PageSize
     IN Listing(t, r, [page |-> IF last THEN 0 ELSE l.page + 1,
                       found |-> With(l.found, Page(r, l.page)), over |-> last])

\* The next page, of what is open by now.  It is the last when it is not full:
\* when what is open does not reach to its end.
RestPage(t, r) ==
  /\ Lists(t, r) /\ lists[t][r].page > 0
  /\ LET l == lists[t][r]
         last == Cardinality(OpenIn(r)) < l.page * PageSize
     IN Listing(t, r, [page |-> IF last THEN 0 ELSE l.page + 1,
                       found |-> With(l.found, Page(r, l.page)), over |-> last])

\* A page that fails fails the call, whatever the other repositories answer.
ListingFails(t) == (\E r \in Repos : Lists(t, r)) /\ EndsOtherwise(t, "listing")

-----------------------------------------------------------------------------
(* The candidates, and the attempts at them                                *)

\* compareIssuesByPriority: the lower score first, then the older issue.
Ahead(i, j) == Score[i] < Score[j] \/ (Score[i] = Score[j] /\ Age(i) < Age(j))

\* An issue that was listed twice is there twice.
Collected(t) ==
  [i \in Issues |-> IF RepoOf[i] \in asked[t] /\ ~isIssueClaimed(i)
                    THEN lists[t][RepoOf[i]].found[i] ELSE 0]

collectCandidates(t) ==
  /\ at[t] = "listing" /\ \A r \in asked[t] : lists[t][r].over
  /\ candidates' = [candidates EXCEPT ![t] = Collected(t)]
  /\ lists' = [lists EXCEPT ![t] = NoLists]
  /\ at' = [at EXCEPT ![t] = "choosing"]
  /\ UNCHANGED <<vars, github, caller, asked, closing, watchVars>>

Untried(t) == {i \in Issues : candidates[t][i] > 0}

\* The next in the order of the sort.
Best(t, i) == i \in Untried(t) /\ \A j \in Untried(t) \ {i} : Ahead(i, j)

TryUnawaited(t) ==   \* mutant: the claim is not awaited
  /\ at[t] = "choosing"
  /\ \E i \in Issues, m \in Metas :
       /\ Best(t, i) /\ InvokeClaim(t, caller[t], i, m)
       /\ candidates' = [candidates EXCEPT ![t][i] = @ - 1]
  /\ UNCHANGED <<github, at, caller, asked, lists, closing, watchVars>>

TryCandidate(t) ==
  /\ at[t] = "choosing"
  /\ \E i \in Issues, m \in Metas :
       /\ Best(t, i) /\ InvokeClaim(t, caller[t], i, m)
       /\ candidates' = [candidates EXCEPT ![t][i] = @ - 1]
  /\ at' = [at EXCEPT ![t] = "claiming"]
  /\ UNCHANGED <<github, caller, asked, lists, closing, watchVars>>

\* No candidates, or none that was not claimed meanwhile.
SaysNothing(t) == at[t] = "choosing" /\ Untried(t) = {}

NothingLeft(t) == SaysNothing(t) /\ EndsOtherwise(t, "choosing")

\* Only already_claimed sends the loop on to the next candidate.
ClaimAnswered(t) ==
  /\ at[t] = "claiming" /\ Finish(t)
  /\ \/ /\ answer[t] = "taken" /\ at' = [at EXCEPT ![t] = "choosing"]
        /\ UNCHANGED <<caller, asked, lists, candidates, closing>>
     \/ answer[t] # "taken" /\ Ends(t)
  /\ UNCHANGED github
  /\ Watch

-----------------------------------------------------------------------------
(* claimIssue: one issue, if it is open                                    *)

claimIssue(t, a, i) ==
  /\ github[i] # "absent" /\ Begins(t, "details", a, {})
  /\ candidates' = [candidates EXCEPT ![t] = With(NoneFound, {i})]
  /\ UNCHANGED <<vars, github, lists, closing>>
  /\ Watch

ClaimUnseen(t) ==   \* mutant: the issue's state is not looked at
  /\ at[t] = "details"
  /\ \E i \in Untried(t), m \in Metas : InvokeClaim(t, caller[t], i, m)
  /\ candidates' = [candidates EXCEPT ![t] = NoneFound]
  /\ at' = [at EXCEPT ![t] = "claiming"]
  /\ UNCHANGED <<github, caller, asked, lists, closing, watchVars>>

\* getIssueDetails shows it open.
DetailsShowOpen(t) ==
  /\ at[t] = "details"
  /\ \E i \in Untried(t), m \in Metas : IsOpen(i) /\ InvokeClaim(t, caller[t], i, m)
  /\ candidates' = [candidates EXCEPT ![t] = NoneFound]
  /\ at' = [at EXCEPT ![t] = "claiming"]
  /\ UNCHANGED <<github, caller, asked, lists, closing, watchVars>>

\* It is closed, or getIssueDetails fails.
NotClaimable(t) == EndsOtherwise(t, "details")

-----------------------------------------------------------------------------
(* updateClaimStatus and releaseIssue                                      *)

\* Of a claim of the agent's own: what becomes of others' calls is no matter
\* of this module.
Updates(t, id) ==
  /\ at[t] = "idle" /\ activeClaims[id] # NoClaim
  /\ \/ InvokeRelease(t, activeClaims[id].agent, id)
     \/ \E u \in AgentUpdates : InvokeUpdate(t, activeClaims[id].agent, id, u)
  /\ at' = [at EXCEPT ![t] = "updating"]
  /\ UNCHANGED <<github, caller, asked, lists, candidates, closing>>
  /\ Watch

\* A claim that was closed has its issue closed at GitHub, after the claim has
\* ended and its lock was released.
UpdateAnswered(t) ==
  /\ at[t] = "updating" /\ Finish(t)
  /\ IF AutoClose /\ answer[t] = "applied" /\ request[t].to = "closed"
     THEN /\ at' = [at EXCEPT ![t] = "closing"]
          /\ closing' = [closing EXCEPT ![t] = request[t].issue]
          /\ UNCHANGED <<caller, asked, lists, candidates>>
     ELSE Ends(t)
  /\ UNCHANGED github
  /\ Watch

closeIssue(t) ==
  /\ at[t] = "closing"
  /\ github' = [github EXCEPT ![closing[t]] = "closed"]
  /\ Ends(t)
  /\ UNCHANGED vars
  /\ Watch

\* The claim has ended all the same; the agent is told of the error.
CloseFails(t) == EndsOtherwise(t, "closing")

-----------------------------------------------------------------------------
(* The claim manager's bodies, and GitHub                                  *)

RunBody(t) ==
  /\ Run(t)
  /\ UNCHANGED <<github, callVars>>
  /\ Watch

\* An issue may be reopened; a pull request that was merged may not.
OpenItem(x) ==
  /\ github[x] = "absent" \/ (x \in Issues /\ ~IsOpen(x))
  /\ github' = [github EXCEPT ![x] = "open"]
  /\ UNCHANGED <<vars, callVars>>
  /\ Watch

CloseItem(x) ==
  /\ IsOpen(x) /\ github' = [github EXCEPT ![x] = "closed"]
  /\ UNCHANGED <<vars, callVars>>
  /\ Watch

-----------------------------------------------------------------------------
\* A call in flight goes on, or ends without what it asked for.
Proceeds(t) ==
  \/ FollowupAnswers(t) \/ NoFollowup(t) \/ ListingFails(t)
  \/ \E r \in Repos : GhAnswers(t, r) \/ GhFallsShort(t, r) \/ RestPage(t, r)
  \/ collectCandidates(t) \/ TryCandidate(t) \/ NothingLeft(t) \/ ClaimAnswered(t)
  \/ DetailsShowOpen(t) \/ NotClaimable(t)
  \/ UpdateAnswered(t) \/ closeIssue(t) \/ CloseFails(t)
  \/ RunBody(t)

Asks(t) ==
  \/ \E a \in Agents, repos \in Scopes :
       nextWork(t, a, repos) \/ nextIssue(t, a, repos)
  \/ \E a \in Agents, i \in Issues : claimIssue(t, a, i)
  \/ \E id \in ClaimIds : Updates(t, id)

WorkNext ==
  \/ \E t \in Tasks : Asks(t) \/ Proceeds(t)
  \/ \E x \in Items : OpenItem(x) \/ CloseItem(x)

WorkSpec == WorkInit /\ [][WorkNext]_workVars

-----------------------------------------------------------------------------
(* Properties                                                              *)

\* Every variable stays in its type, and a service call awaits the claim manager
\* exactly while the claim manager has a call of its task.
WorkTypeOK ==
  /\ github \in [Items -> {"absent", "open", "closed"}]
  /\ \A t \in Tasks :
       /\ (pc[t] # "idle") = (at[t] \in {"claiming", "updating"})
       /\ (at[t] = "closing") = (closing[t] \in Issues)
       /\ asked[t] \subseteq Repos /\ candidates[t] \in [Issues -> Nat]

GivesIssue(t) ==
  /\ at[t] = "claiming" /\ pc[t] = "done" /\ answer[t] \in {"granted", "confirmed"}

\* Work that is there is found, and the most urgent first: an agent is told
\* that there is none, or is given an issue, only when no issue that was open
\* and unclaimed all through its call is ahead of that.  This holds through
\* the fallback from gh, pages with pull requests among them, claims of other
\* agents and issues opened between two pages; an issue closed between two
\* pages moves the others up, and one of its repository may be missed.
NothingOverlooked ==
  \A t \in Tasks : \A j \in steady[t] :
    RepoOf[j] \notin shifted[t] =>
      /\ ~SaysNothing(t)
      /\ GivesIssue(t) => Ahead(request[t].issue, j)

\* However long a call waits for listings, locks and other claims, the issue
\* it gives was open at some time since it began.  (It need not be any more.)
GivenWasOpen ==
  \A t \in Tasks : GivesIssue(t) => request[t].issue \in seenOpen[t]

=============================================================================
