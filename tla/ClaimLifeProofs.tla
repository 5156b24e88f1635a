--------------------------- MODULE ClaimLifeProofs ---------------------------
(***************************************************************************)
(* What callers of ClaimManager are told, how claims end, and what stays   *)
(* on disk, for every value of the constants.                              *)
(*                                                                         *)
(* Two calls under locks are on different issues, and a body changes only  *)
(* the claim its request is about, which is of the request's issue         *)
(* (RequestsMatch: the lookup before the lock chose the lock by the claim, *)
(* and a claim never changes its issue).  So what a body decided stays so  *)
(* until its caller is answered.                                           *)
(***************************************************************************)
EXTENDS ClaimManagerProofs

USE DEF Procs

\* The claim of an update, of a sweep's visit and of a sweep's plan was made,
\* and is on the issue whose lock the call takes, for as long as it is active.
OnIssue(id, i) == id \in issued /\ (activeClaims[id] # NoClaim => activeClaims[id].issue = i)

RequestsMatch ==
  /\ \A p \in Procs :
       pc[p] \in {"waiting", "done"} /\ request[p].op \in {"update", "sweep"} =>
         OnIssue(request[p].claim_id, request[p].issue)
  /\ \A x \in todo : OnIssue(x.claim_id, x.issue)

\* A dead process has no memory.
NothingDown == ~up => todo = {} /\ \A id \in ClaimIds : activeClaims[id] = NoClaim

\* What a call under its lock will answer is so.
AnswerRight(t) ==
  pc[t] = "done" =>
    /\ answer[t] \in {"granted", "confirmed"} =>
         /\ issueToClaimId[request[t].issue] = request[t].claim_id
         /\ activeClaims[request[t].claim_id] # NoClaim
         /\ activeClaims[request[t].claim_id].agent = request[t].agent
    /\ answer[t] = "taken" =>
         /\ issueToClaimId[request[t].issue] = request[t].claim_id
         /\ activeClaims[request[t].claim_id].agent # request[t].agent
    /\ request[t].op = "update" /\ answer[t] \in {"applied", "same"} /\ request[t].to \in Active =>
         /\ activeClaims[request[t].claim_id] # NoClaim
         /\ activeClaims[request[t].claim_id].status = request[t].to

\* The claim a call is about, and whether its row is what memory has.
Subject(p) ==
  IF request[p].op = "reconcile" THEN issueToClaimId[request[p].issue] ELSE request[p].claim_id

DurableAt(p) ==
  pc[p] = "done" /\ answer[p] \in {"granted", "applied"} /\ Subject(p) # NoId =>
    db.active[Subject(p)] = activeClaims[Subject(p)]

\* Only the claim calls of agents are answered 'granted', 'confirmed' or
\* 'taken', and these name the claim; they are never answered 'applied'.
AnswerFits(p) ==
  pc[p] = "done" =>
    /\ answer[p] \in {"granted", "confirmed", "taken"} =>
         p \in Tasks /\ request[p].op = "claim" /\ request[p].claim_id \in ClaimIds
    /\ answer[p] = "applied" => request[p].op # "claim"

\* What is in a history was issued, and is not active.
Over(h) ==
  \A n \in 1..Len(h) :
    h[n].claim_id \in issued /\ (up => activeClaims[h[n].claim_id] = NoClaim)

Backed(c) == c # NoClaim /\ c.status \in {"pr_submitted", "pr_merged"} => c.pr

AllBacked(claims) == \A id \in ClaimIds : Backed(claims[id])

LifeInv ==
  /\ RequestsMatch /\ NothingDown
  /\ \A t \in Tasks : AnswerRight(t)
  /\ \A p \in Procs : DurableAt(p) /\ AnswerFits(p)
  /\ EndsOnce /\ Over(history) /\ Over(db.history)
  /\ AllBacked(activeClaims) /\ AllBacked(db.active)
  /\ GrantedIsDurable

-----------------------------------------------------------------------------
(* What a body does                                                        *)

\* It leaves the claims, the index, the histories and the rows as they are,
Kept ==
  /\ activeClaims' = activeClaims /\ issueToClaimId' = issueToClaimId
  /\ history' = history /\ db' = db /\ issued' = issued

\* or touches one claim: it changes the record,
Rewrites(id) ==
  /\ history' = history /\ db'.history = db.history
  /\ activeClaims'[id] # NoClaim
  /\ db.active[id] # NoClaim => db'.active[id] # NoClaim

\* or ends the claim, and with it its row unless the write fails.
Retires(id) ==
  /\ activeClaims[id] # NoClaim /\ activeClaims'[id] = NoClaim
  /\ \E e \in Entry :
       /\ e.claim_id = id
       /\ history' = trimHistory(<<e>> \o history)
       /\ \/ /\ db'.history = db.history
             /\ db.active[id] # NoClaim => db'.active[id] # NoClaim
          \/ /\ db'.history = trimHistory(<<e>> \o db.history)
             /\ db'.active[id] = NoClaim

\* The claim is active on the request's issue, or new.
Touches(p, id) ==
  /\ \A d \in ClaimIds \ {id} :
       activeClaims'[d] = activeClaims[d] /\ db'.active[d] = db.active[d]
  /\ \A i \in Issues \ {request[p].issue} : issueToClaimId'[i] = issueToClaimId[i]
  /\ \/ /\ activeClaims[id] # NoClaim /\ activeClaims[id].issue = request[p].issue
        /\ activeClaims'[id] # NoClaim => activeClaims'[id].issue = request[p].issue
        /\ issued' = issued
     \/ id \notin issued /\ issued' = issued \cup {id} /\ activeClaims'[id] # NoClaim
  /\ Backed(activeClaims'[id]) /\ Backed(db'.active[id])
  /\ Rewrites(id) \/ Retires(id)

BodyStep(p) == Kept \/ \E id \in ClaimIds : Touches(p, id)

\* The rest of the state: p answers, nobody else moves.
BodyFrame(p) ==
  /\ pc[p] = "waiting" /\ pc'[p] = "done"
  /\ \A q \in Procs \ {p} : pc'[q] = pc[q] /\ answer'[q] = answer[q] /\ request'[q] = request[q]
  /\ request'[p].op = request[p].op /\ request'[p].issue = request[p].issue
  /\ request[p].op # "claim" => request'[p] = request[p]
  /\ UNCHANGED <<todo, up, granted>>

\* A claim ends in a body only by right of the call that runs it, and is
\* closed by its agent only with a URL.
EndsByRight(p) ==
  \A id \in ClaimIds :
    activeClaims[id] # NoClaim /\ activeClaims'[id] = NoClaim =>
      /\ MayEnd(id, activeClaims[id], p)
      /\ request[p].op = "update" /\ request[p].to = "closed" => activeClaims[id].pr

\* What p itself will answer is so.
OwnAnswer(p) ==
  /\ p \in Tasks => AnswerRight(p)'
  /\ DurableAt(p)' /\ AnswerFits(p)'

LEMMA BackedMoved ==
  ASSUME NEW c \in Claim, Backed(c), NEW to \in Active, NEW pr \in BOOLEAN, NEW source,
         ~NeedsUrl(c, to, pr), canTransition(c.status, to, source)
  PROVE  Backed(Moved(c, to, pr))
<1>1. Moved(c, to, pr).status = to /\ (Moved(c, to, pr).pr <=> c.pr \/ pr)
  BY DEF Moved, Claim
<1>2. CASE to = "pr_submitted"
  BY <1>1, <1>2 DEF NeedsUrl, Backed
<1>3. CASE to = "pr_merged"
  <2>1. c.status \in Active
    BY DEF Claim
  <2>2. c.status = "pr_submitted"
    BY <1>3, <2>1 DEF canTransition, TRANSITIONS, Active
  <2>3. c.pr
    BY <2>2, SentinelAssumption DEF Backed
  <2>. QED  BY <1>1, <2>3 DEF Backed
<1>4. CASE to \notin {"pr_submitted", "pr_merged"}
  BY <1>1, <1>4 DEF Backed
<1>. QED  BY <1>2, <1>3, <1>4

\* The two outcomes of a transition asked of p: nothing is done, or the claim
\* is touched, and the answer is by what was done.
StaysAt(p, c, to) ==
  Kept /\ \E a \in {"same", "rejected"} : Respond(p, a) /\ (a = "same" => to = c.status)

MovesTo(p, id, to) ==
  /\ Touches(p, id)
  /\ \E a \in {"applied", "error"} :
       Respond(p, a) /\ (a = "applied" => db'.active[id] = activeClaims'[id])
  /\ to \in Active => activeClaims'[id] # NoClaim /\ activeClaims'[id].status = to
  /\ activeClaims'[id] = NoClaim <=> to \in Terminal
  /\ activeClaims'[id] = NoClaim => issueToClaimId'[request[p].issue] = NoId

LEMMA TransitionLife ==
  ASSUME TypeInv, UNCHANGED ghosts,
         NEW p \in Procs, NEW id \in ClaimIds, activeClaims[id] # NoClaim,
         activeClaims[id].issue = request[p].issue,
         NEW c \in Claim, c.issue = activeClaims[id].issue, Backed(c),
         NEW before \in Rows, before.history = db.history, Backed(before.active[id]),
         db.active[id] # NoClaim => before.active[id] # NoClaim,
         \A d \in ClaimIds \ {id} : before.active[d] = db.active[d],
         NEW to \in Status, NEW pr \in BOOLEAN, NEW source,
         applyTransitionLocked(p, id, c, before, to, pr, source)
  PROVE  StaysAt(p, c, to) \/ MovesTo(p, id, to)
<1>0. /\ activeClaims \in [ClaimIds -> Claim \cup {NoClaim}]
      /\ issueToClaimId \in [Issues -> ClaimIds \cup {NoId}]
      /\ before.active \in [ClaimIds -> Claim \cup {NoClaim}]
      /\ issued' = issued /\ c.issue \in Issues
  BY DEF TypeInv, TypeOK, MemoryOK, Rows, ghosts, Claim
<1>1. CASE /\ NothingDone(p, "same") /\ to = c.status
  BY <1>0, <1>1 DEF NothingDone, StaysAt, Kept, memory, disk
<1>2. CASE NothingDone(p, "rejected")
  BY <1>0, <1>2 DEF NothingDone, StaysAt, Kept, memory, disk
<1>3. CASE /\ ~NeedsUrl(c, to, pr) /\ canTransition(c.status, to, source)
           /\ to \notin Terminal /\ MoveClaim(p, id, c, before, to, pr)
  <2>. DEFINE m == Moved(c, to, pr)
  <2>1. to \in Active
    BY <1>3 DEF Status
  <2>2. /\ m \in Claim /\ m.issue = request[p].issue /\ m.status = to /\ m # NoClaim
        /\ Backed(m)
    <3>1. m \in Claim /\ m.issue = c.issue /\ m # NoClaim
      BY <2>1, MovedType, SentinelAssumption
    <3>2. m.status = to
      BY DEF Moved, Claim
    <3>3. Backed(m)
      BY <1>3, <2>1, BackedMoved
    <3>. QED  BY <3>1, <3>2, <3>3
  <2>3. /\ RowPut(before, id, m).history = db.history
        /\ RowPut(before, id, m).active = [before.active EXCEPT ![id] = m]
    BY <2>2, RowPutType
  <2>4. /\ activeClaims' = [activeClaims EXCEPT ![id] = m]
        /\ UNCHANGED <<issueToClaimId, history>>
        /\ Transact(p, id, before, RowPut(before, id, m), "applied")
    BY <1>3 DEF MoveClaim
  <2>5. /\ activeClaims'[id] = m
        /\ \A d \in ClaimIds \ {id} : activeClaims'[d] = activeClaims[d]
    BY <1>0, <2>4
  <2>6. \/ /\ db' = RowPut(before, id, m) /\ Respond(p, "applied")
        \/ /\ db' = before /\ Respond(p, "error")
    BY <2>4 DEF Transact
  <2>7. /\ db'.history = db.history
        /\ \A d \in ClaimIds \ {id} : db'.active[d] = db.active[d]
        /\ db'.active[id] = m \/ db'.active[id] = before.active[id]
    BY <1>0, <2>3, <2>6
  <2>8. Touches(p, id)
    BY <1>0, <2>2, <2>4, <2>5, <2>7 DEF Touches, Rewrites
  <2>9. \E a \in {"applied", "error"} :
          Respond(p, a) /\ (a = "applied" => db'.active[id] = activeClaims'[id])
    BY <1>0, <2>3, <2>5, <2>6
  <2>. QED  BY <1>3, <2>1, <2>2, <2>5, <2>8, <2>9 DEF MovesTo
<1>4. CASE to \in Terminal /\ EndClaim(p, id, c, before, to, pr)
  <2>. DEFINE e == EndEntry(id, c, to, pr)
  <2>1. e \in Entry /\ e.claim_id = id
    BY <1>4, EndEntryType DEF EndEntry
  <2>2. /\ RowRetired(before, id, e).history = trimHistory(<<e>> \o db.history)
        /\ RowRetired(before, id, e).active = [before.active EXCEPT ![id] = NoClaim]
    BY <2>1, RowRetiredType
  <2>3. /\ activeClaims' = [activeClaims EXCEPT ![id] = NoClaim]
        /\ issueToClaimId' = [issueToClaimId EXCEPT ![request[p].issue] = NoId]
        /\ history' = trimHistory(<<e>> \o history)
        /\ Transact(p, id, before, RowRetired(before, id, e), "applied")
    BY <1>4 DEF EndClaim
  <2>4. /\ activeClaims'[id] = NoClaim
        /\ \A d \in ClaimIds \ {id} : activeClaims'[d] = activeClaims[d]
        /\ issueToClaimId'[request[p].issue] = NoId
        /\ \A i \in Issues \ {request[p].issue} : issueToClaimId'[i] = issueToClaimId[i]
    BY <1>0, <2>3
  <2>5. \/ /\ db' = RowRetired(before, id, e) /\ Respond(p, "applied")
        \/ /\ db' = before /\ Respond(p, "error")
    BY <2>3 DEF Transact
  <2>6. /\ \A d \in ClaimIds \ {id} : db'.active[d] = db.active[d]
        /\ \/ db'.history = db.history /\ db'.active[id] = before.active[id]
           \/ db'.history = trimHistory(<<e>> \o db.history) /\ db'.active[id] = NoClaim
    BY <1>0, <2>2, <2>5
  <2>7. Retires(id)
    BY <2>1, <2>3, <2>4, <2>6 DEF Retires
  <2>8. Backed(activeClaims'[id]) /\ Backed(db'.active[id])
    BY <2>4, <2>6 DEF Backed
  <2>9. Touches(p, id)
    BY <1>0, <2>4, <2>6, <2>7, <2>8 DEF Touches
  <2>10. \E a \in {"applied", "error"} :
           Respond(p, a) /\ (a = "applied" => db'.active[id] = activeClaims'[id])
    BY <1>0, <2>2, <2>4, <2>5
  <2>11. to \notin Active
    BY <1>4 DEF Active, Terminal
  <2>. QED  BY <1>4, <2>4, <2>9, <2>10, <2>11 DEF MovesTo
<1>. QED  BY <1>1, <1>2, <1>3, <1>4 DEF applyTransitionLocked

\* A body that answers with its request left as it was.
LEMMA FrameOf ==
  ASSUME TypeInv, NEW p \in Procs, HasLock(p), NEW a, Respond(p, a),
         UNCHANGED <<request, todo, up, granted>>
  PROVE  BodyFrame(p) /\ answer'[p] = a /\ request'[p] = request[p]
<1>1. DOMAIN pc = Procs /\ DOMAIN answer = Procs
  BY DEF TypeInv, TypeOK, CallsOK
<1>2. /\ pc[p] = "waiting" /\ pc'[p] = "done" /\ answer'[p] = a
      /\ \A q \in Procs \ {p} : pc'[q] = pc[q] /\ answer'[q] = answer[q]
  BY <1>1 DEF HasLock, Respond
<1>. QED  BY <1>2 DEF BodyFrame

\* What a body answers when nothing was done or applied.
LEMMA PlainAnswer ==
  ASSUME NEW p \in Procs, BodyFrame(p), answer'[p] \in {"same", "rejected", "error"},
         answer'[p] = "same" => request'[p].op # "update"
  PROVE  OwnAnswer(p)
BY DEF OwnAnswer, AnswerFits, AnswerRight, DurableAt

LEMMA RunUpdateLife ==
  ASSUME TypeInv, SafeInv, LifeInv, NEW t \in Tasks, RunUpdate(t)
  PROVE  BodyStep(t) /\ BodyFrame(t) /\ EndsByRight(t) /\ OwnAnswer(t)
<1>. DEFINE r == request[t]
            id == r.claim_id
            c == activeClaims[id]
<1>0. HasLock(t) /\ t \in Procs
  BY DEF RunUpdate
<1>1. r \in UpdateRequest /\ pc[t] = "waiting" /\ r.op = "update"
  BY <1>0, RequestKinds DEF RunUpdate, HasLock
<1>2. id \in ClaimIds /\ r.to \in Status /\ r.pr \in BOOLEAN
  BY <1>1 DEF UpdateRequest
<1>3. UNCHANGED <<request, todo, world, ghosts>> /\ UNCHANGED <<request, todo, up, granted>>
  BY DEF RunUpdate, world, ghosts
<1>4. CASE NothingDone(t, "rejected")
  <2>1. Kept
    BY <1>3, <1>4 DEF NothingDone, Kept, memory, disk, ghosts
  <2>2. BodyFrame(t) /\ answer'[t] = "rejected"
    BY <1>0, <1>3, <1>4, FrameOf DEF NothingDone
  <2>3. OwnAnswer(t)
    BY <1>0, <2>2, PlainAnswer
  <2>. QED  BY <2>1, <2>2, <2>3 DEF StaysAt, BodyStep, EndsByRight, Kept
<1>5. CASE OwnedBy(c, r.agent) /\ applyTransitionLocked(t, id, c, db, r.to, r.pr, "agent")
  <2>1. c \in Claim /\ c # NoClaim /\ c.agent = r.agent /\ db \in Rows
    BY <1>2, <1>5 DEF OwnedBy, TypeInv, TypeOK, MemoryOK, DiskOK
  <2>2. c.issue = r.issue /\ Backed(c) /\ Backed(db.active[id])
    BY <1>0, <1>1, <1>2, <2>1 DEF LifeInv, RequestsMatch, OnIssue, AllBacked
  <2>3. StaysAt(t, c, r.to) \/ MovesTo(t, id, r.to)
    BY <1>0, <1>2, <1>3, <1>5, <2>1, <2>2, TransitionLife
  <2>4. CASE StaysAt(t, c, r.to)
    <3>1. PICK a \in {"same", "rejected"} : Respond(t, a) /\ (a = "same" => r.to = c.status)
      BY <2>4 DEF StaysAt
    <3>2. BodyFrame(t) /\ answer'[t] = a /\ request'[t] = r
      BY <1>0, <1>3, <3>1, FrameOf
    <3>3. OwnAnswer(t)
      BY <1>1, <2>1, <2>4, <3>1, <3>2 DEF StaysAt, OwnAnswer, AnswerFits, AnswerRight, DurableAt, Kept
    <3>. QED  BY <2>4, <3>2, <3>3 DEF StaysAt, BodyStep, EndsByRight, Kept
  <2>5. CASE MovesTo(t, id, r.to)
    <3>1. PICK a \in {"applied", "error"} :
            Respond(t, a) /\ (a = "applied" => db'.active[id] = activeClaims'[id])
      BY <2>5 DEF MovesTo
    <3>2. BodyFrame(t) /\ answer'[t] = a /\ request'[t] = r
      BY <1>0, <1>3, <3>1, FrameOf
    <3>3. OwnAnswer(t)
      BY <1>1, <2>5, <3>1, <3>2 DEF MovesTo, OwnAnswer, AnswerFits, AnswerRight, DurableAt, Subject
    <3>4. activeClaims'[id] = NoClaim /\ r.to = "closed" => c.pr
      <4>. SUFFICES ASSUME activeClaims'[id] = NoClaim, r.to = "closed" PROVE c.pr
        OBVIOUS
      <4>1. canTransition(c.status, "closed", "agent")
        BY <1>5, <2>1 DEF applyTransitionLocked, NothingDone, memory
      <4>2. c.status = "pr_merged"
        BY <2>1, <4>1 DEF canTransition, TRANSITIONS, Claim, Active
      <4>. QED  BY <2>1, <2>2, <4>2 DEF Backed
    <3>5. Decides(t)
      BY <3>2 DEF BodyFrame, Decides
    <3>6. EndsByRight(t)
      BY <1>1, <2>1, <2>2, <2>5, <3>4, <3>5 DEF MovesTo, EndsByRight, Touches, MayEnd
    <3>. QED  BY <1>2, <2>5, <3>2, <3>3, <3>6 DEF MovesTo, BodyStep
  <2>. QED  BY <2>3, <2>4, <2>5
<1>. QED  BY <1>4, <1>5 DEF RunUpdate

LEMMA RunSweepLife ==
  ASSUME TypeInv, SafeInv, LifeInv, RunSweep
  PROVE  BodyStep(Syncer) /\ BodyFrame(Syncer) /\ EndsByRight(Syncer) /\ OwnAnswer(Syncer)
<1>. DEFINE r == request[Syncer]
            id == r.claim_id
            c == activeClaims[id]
<1>0. HasLock(Syncer) /\ Syncer \in Procs /\ Syncer \notin Tasks
  BY SentinelAssumption DEF RunSweep
<1>1. r \in SweepRequest /\ pc[Syncer] = "waiting" /\ r.op = "sweep"
  BY <1>0, RequestKinds DEF RunSweep, HasLock
<1>2. id \in ClaimIds
  BY <1>1 DEF SweepRequest
<1>3. /\ UNCHANGED <<request, todo, world, ghosts>>
      /\ UNCHANGED <<request, todo, up, granted>>
  BY DEF RunSweep, world, ghosts
<1>4. CASE NothingDone(Syncer, "same")
  <2>1. Kept
    BY <1>3, <1>4 DEF NothingDone, Kept, memory, disk, ghosts
  <2>2. BodyFrame(Syncer) /\ answer'[Syncer] = "same" /\ request'[Syncer] = r
    BY <1>0, <1>3, <1>4, FrameOf DEF NothingDone
  <2>3. OwnAnswer(Syncer)
    BY <1>0, <1>1, <2>2, PlainAnswer
  <2>. QED  BY <2>1, <2>2, <2>3 DEF StaysAt, BodyStep, EndsByRight, Kept
<1>5. ASSUME NEW to \in {"stale", "released"}, c # NoClaim, to = "released" => ReleasesStale(c),
             applyTransitionLocked(Syncer, id, c, db, to, FALSE, "sync")
      PROVE  BodyStep(Syncer) /\ BodyFrame(Syncer) /\ EndsByRight(Syncer) /\ OwnAnswer(Syncer)
  <2>1. c \in Claim /\ db \in Rows /\ to \in Status
    BY <1>2, <1>5 DEF TypeInv, TypeOK, MemoryOK, DiskOK, Status, Active, Terminal
  <2>2. c.issue = r.issue /\ Backed(c) /\ Backed(db.active[id])
    BY <1>0, <1>1, <1>2, <1>5 DEF LifeInv, RequestsMatch, OnIssue, AllBacked
  <2>3. StaysAt(Syncer, c, to) \/ MovesTo(Syncer, id, to)
    BY <1>0, <1>2, <1>3, <1>5, <2>1, <2>2, TransitionLife
  <2>4. CASE StaysAt(Syncer, c, to)
    <3>1. PICK a \in {"same", "rejected"} : Respond(Syncer, a)
      BY <2>4 DEF StaysAt
    <3>2. BodyFrame(Syncer) /\ answer'[Syncer] = a /\ request'[Syncer] = r
      BY <1>0, <1>3, <3>1, FrameOf
    <3>3. OwnAnswer(Syncer)
      BY <1>0, <1>1, <3>1, <3>2, PlainAnswer
    <3>. QED  BY <2>4, <3>2, <3>3 DEF StaysAt, BodyStep, EndsByRight, Kept
  <2>5. CASE MovesTo(Syncer, id, to)
    <3>1. PICK a \in {"applied", "error"} :
            Respond(Syncer, a) /\ (a = "applied" => db'.active[id] = activeClaims'[id])
      BY <2>5 DEF MovesTo
    <3>2. BodyFrame(Syncer) /\ answer'[Syncer] = a /\ request'[Syncer] = r
      BY <1>0, <1>3, <3>1, FrameOf
    <3>3. OwnAnswer(Syncer)
      BY <1>0, <1>1, <2>5, <3>1, <3>2 DEF MovesTo, OwnAnswer, AnswerFits, DurableAt, Subject
    <3>4. EndsByRight(Syncer)
      <4>1. activeClaims'[id] = NoClaim => ReleasesStale(c)
        BY <1>5, <2>5 DEF MovesTo, Terminal
      <4>2. ReleasesStale(c) => c.staleFor = StaleAutoRelease
        BY <2>1, ConfigAssumption DEF ReleasesStale, Claim
      <4>3. Decides(Syncer)
        BY <3>2 DEF BodyFrame, Decides
      <4>. QED
        BY <1>1, <2>2, <2>5, <4>1, <4>2, <4>3
           DEF MovesTo, EndsByRight, Touches, MayEnd, ReleasesStale
    <3>. QED  BY <1>2, <2>5, <3>2, <3>3, <3>4 DEF MovesTo, BodyStep
  <2>. QED  BY <2>3, <2>4, <2>5
<1>6. MarksStale(c) \/ ReleasesStale(c) => c # NoClaim
  BY DEF MarksStale, ReleasesStale
<1>. QED  BY <1>4, <1>5, <1>6 DEF RunSweep

LEMMA RefreshedBacked ==
  ASSUME NEW c \in Claim, Backed(c), NEW m \in Metas
  PROVE  Backed(Refreshed(c, m)) /\ Refreshed(c, m) # NoClaim
<1>1. Refreshed(c, m) \in Claim
  BY RefreshedType
<1>2. Refreshed(c, m).status = c.status /\ Refreshed(c, m).pr = c.pr
  BY DEF Refreshed, Claim
<1>. QED  BY <1>1, <1>2, SentinelAssumption DEF Backed

\* The first write of a reconciliation, whether it succeeds or not.
LEMMA RefreshLife ==
  ASSUME TypeInv, LifeInv, UNCHANGED ghosts, NEW p \in Procs, NEW id \in ClaimIds,
         NEW c \in Claim, Backed(c), c.issue = request[p].issue,
         activeClaims[id] # NoClaim, activeClaims[id].issue = c.issue,
         activeClaims' = [activeClaims EXCEPT ![id] = c],
         UNCHANGED <<issueToClaimId, history>>,
         db' = db \/ db' = RowPut(db, id, c)
  PROVE  /\ Touches(p, id) /\ activeClaims'[id] = c /\ c # NoClaim
         /\ db' = RowPut(db, id, c) => db'.active[id] = c
<1>1. /\ activeClaims \in [ClaimIds -> Claim \cup {NoClaim}]
      /\ db \in Rows /\ db.active \in [ClaimIds -> Claim \cup {NoClaim}]
      /\ c # NoClaim /\ issued' = issued
  BY SentinelAssumption DEF TypeInv, TypeOK, MemoryOK, DiskOK, Rows, ghosts
<1>2. /\ activeClaims'[id] = c
      /\ \A d \in ClaimIds \ {id} : activeClaims'[d] = activeClaims[d]
  BY <1>1
<1>3. /\ RowPut(db, id, c).history = db.history
      /\ RowPut(db, id, c).active = [db.active EXCEPT ![id] = c]
  BY <1>1, RowPutType
<1>4. /\ db'.history = db.history
      /\ \A d \in ClaimIds \ {id} : db'.active[d] = db.active[d]
      /\ db'.active[id] = c \/ db'.active[id] = db.active[id]
      /\ db' = RowPut(db, id, c) => db'.active[id] = c
  BY <1>1, <1>3
<1>5. Backed(db.active[id])
  BY DEF LifeInv, AllBacked
<1>6. Touches(p, id)
  BY <1>1, <1>2, <1>4, <1>5 DEF Touches, Rewrites
<1>. QED  BY <1>1, <1>2, <1>4, <1>6

LEMMA RunReconcileLife ==
  ASSUME TypeInv, SafeInv, LifeInv, RunReconcile
  PROVE  BodyStep(Syncer) /\ BodyFrame(Syncer) /\ EndsByRight(Syncer) /\ OwnAnswer(Syncer)
<1>. DEFINE r  == request[Syncer]
            id == issueToClaimId[r.issue]
            c  == Holder(r.issue)
            refreshed == Refreshed(c, r.meta)
            written == IF refreshed = c THEN db ELSE RowPut(db, id, refreshed)
<1>0. HasLock(Syncer) /\ Syncer \in Procs /\ Syncer \notin Tasks
  BY SentinelAssumption DEF RunReconcile
<1>1. r \in ReconcileRequest /\ pc[Syncer] = "waiting" /\ r.op = "reconcile"
  BY <1>0, RequestKinds DEF RunReconcile, HasLock
<1>2. r.issue \in Issues /\ r.meta \in Metas
  BY <1>1 DEF ReconcileRequest
<1>3. /\ UNCHANGED <<request, todo, world, ghosts>>
      /\ UNCHANGED <<request, todo, up, granted>>
      /\ issued' = issued
  BY DEF RunReconcile, world, ghosts
<1>4. /\ activeClaims \in [ClaimIds -> Claim \cup {NoClaim}]
      /\ issueToClaimId \in [Issues -> ClaimIds \cup {NoId}]
      /\ db \in Rows /\ db.active \in [ClaimIds -> Claim \cup {NoClaim}]
  BY DEF TypeInv, TypeOK, MemoryOK, DiskOK, Rows
<1>5. ASSUME c # NoClaim
      PROVE  /\ id \in ClaimIds /\ c = activeClaims[id] /\ activeClaims[id] # NoClaim
             /\ c.issue = r.issue /\ c \in Claim
             /\ refreshed \in Claim /\ refreshed.issue = c.issue /\ Backed(refreshed)
             /\ Backed(db.active[id])
  <2>1. id \in ClaimIds /\ c = activeClaims[id] /\ c \in Claim
    BY <1>2, <1>4, <1>5 DEF Holder
  <2>2. c.issue = r.issue
    BY <1>2, <1>5, <2>1, SentinelAssumption DEF SafeInv, IndexSound
  <2>3. Backed(c) /\ Backed(db.active[id])
    BY <2>1 DEF LifeInv, AllBacked
  <2>. QED  BY <1>2, <1>5, <2>1, <2>2, <2>3, RefreshedType, RefreshedBacked
<1>6. ASSUME NEW a \in {"same", "rejected"}, Respond(Syncer, a), Kept
      PROVE  BodyStep(Syncer) /\ BodyFrame(Syncer) /\ EndsByRight(Syncer) /\ OwnAnswer(Syncer)
  <2>1. BodyFrame(Syncer) /\ answer'[Syncer] = a /\ request'[Syncer] = r
    BY <1>0, <1>3, <1>6, FrameOf
  <2>2. OwnAnswer(Syncer)
    BY <1>0, <1>1, <1>6, <2>1, PlainAnswer
  <2>. QED  BY <1>6, <2>1, <2>2 DEF BodyStep, EndsByRight, Kept
<1>7. CASE /\ c = NoClaim
           /\ issueToClaimId' = [issueToClaimId EXCEPT ![r.issue] = NoId]
           /\ Respond(Syncer, "same")
           /\ UNCHANGED <<activeClaims, history, totalClaims, disk>>
  <2>1. issueToClaimId[r.issue] = NoId
    BY <1>2, <1>7 DEF Holder, SafeInv, IndexSound
  <2>2. issueToClaimId' = issueToClaimId
    BY <1>2, <1>4, <1>7, <2>1
  <2>. QED  BY <1>3, <1>6, <1>7, <2>2 DEF Kept, disk
<1>8. CASE NothingDone(Syncer, "same")
  BY <1>3, <1>6, <1>8 DEF NothingDone, Kept, memory, disk
<1>9. CASE /\ c # NoClaim /\ c.meta # r.meta
           /\ activeClaims' = [activeClaims EXCEPT ![id] = refreshed]
           /\ \/ Transact(Syncer, id, db, written, "applied")
              \/ db' = db /\ Respond(Syncer, "error")
           /\ UNCHANGED <<issueToClaimId, history>>
  <2>1. written = RowPut(db, id, refreshed)
    <3>1. refreshed.meta = r.meta
      BY <1>5, <1>9 DEF Refreshed, Claim
    <3>. QED  BY <1>9, <3>1
  <2>2. \/ db' = RowPut(db, id, refreshed) /\ Respond(Syncer, "applied")
        \/ db' = db /\ Respond(Syncer, "error")
    BY <1>9, <2>1 DEF Transact
  <2>3. /\ Touches(Syncer, id) /\ activeClaims'[id] = refreshed /\ refreshed # NoClaim
        /\ db' = RowPut(db, id, refreshed) => db'.active[id] = refreshed
    <3>. HIDE DEF refreshed, written, c, id
    <3>1. UNCHANGED ghosts /\ UNCHANGED <<issueToClaimId, history>>
      BY <1>3, <1>9
    <3>2. /\ refreshed \in Claim /\ Backed(refreshed) /\ refreshed.issue = r.issue
          /\ id \in ClaimIds /\ activeClaims[id] # NoClaim
          /\ activeClaims[id].issue = refreshed.issue
          /\ activeClaims' = [activeClaims EXCEPT ![id] = refreshed]
          /\ db' = db \/ db' = RowPut(db, id, refreshed)
      BY <1>5, <1>9, <2>2
    <3>. QED  BY <1>0, <3>1, <3>2, RefreshLife
  <2>4. BodyFrame(Syncer) /\ request'[Syncer] = r /\ answer'[Syncer] \in {"applied", "error"}
    BY <1>0, <1>3, <2>2, FrameOf
  <2>5. answer'[Syncer] = "applied" => db'.active[id] = activeClaims'[id]
    <3>1. Respond(Syncer, "error") => answer'[Syncer] = "error"
      BY <1>0, <1>3, FrameOf
    <3>. QED  BY <2>2, <2>3, <3>1
  <2>6. OwnAnswer(Syncer)
    BY <1>0, <1>1, <1>9, <2>4, <2>5 DEF OwnAnswer, AnswerFits, DurableAt, Subject
  <2>7. EndsByRight(Syncer)
    BY <2>3 DEF EndsByRight, Touches
  <2>. QED  BY <1>5, <1>9, <2>3, <2>4, <2>6, <2>7 DEF BodyStep
<1>10. CASE /\ c # NoClaim /\ r.closed
            /\ applyTransitionLocked(Syncer, id, refreshed, written, "closed", FALSE, "sync")
  <2>1. "closed" \in Status /\ "closed" \in Terminal /\ "closed" \notin Active
    BY DEF Status, Terminal, Active
  <2>2. /\ written \in Rows /\ written.history = db.history /\ Backed(written.active[id])
        /\ db.active[id] # NoClaim => written.active[id] # NoClaim
        /\ \A d \in ClaimIds \ {id} : written.active[d] = db.active[d]
    <3>1. /\ RowPut(db, id, refreshed) \in Rows
          /\ RowPut(db, id, refreshed).history = db.history
          /\ RowPut(db, id, refreshed).active = [db.active EXCEPT ![id] = refreshed]
      BY <1>4, <1>5, <1>10, RowPutType
    <3>2. /\ RowPut(db, id, refreshed).active[id] = refreshed
          /\ \A d \in ClaimIds \ {id} : RowPut(db, id, refreshed).active[d] = db.active[d]
      BY <1>4, <1>5, <1>10, <3>1
    <3>. QED  BY <1>4, <1>5, <1>10, <3>1, <3>2, SentinelAssumption
  <2>3. StaysAt(Syncer, refreshed, "closed") \/ MovesTo(Syncer, id, "closed")
    BY <1>0, <1>3, <1>5, <1>10, <2>1, <2>2, TransitionLife
  <2>4. CASE StaysAt(Syncer, refreshed, "closed")
    BY <1>6, <2>4 DEF StaysAt
  <2>5. CASE MovesTo(Syncer, id, "closed")
    <3>1. PICK a \in {"applied", "error"} : Respond(Syncer, a)
      BY <2>5 DEF MovesTo
    <3>2. BodyFrame(Syncer) /\ answer'[Syncer] = a /\ request'[Syncer] = r
      BY <1>0, <1>3, <3>1, FrameOf
    <3>3. activeClaims'[id] = NoClaim /\ issueToClaimId'[r.issue] = NoId
      BY <2>1, <2>5 DEF MovesTo
    <3>4. OwnAnswer(Syncer)
      BY <1>0, <1>1, <3>2, <3>3 DEF OwnAnswer, AnswerFits, DurableAt, Subject
    <3>5. EndsByRight(Syncer)
      <4>1. Decides(Syncer)
        BY <3>2 DEF BodyFrame, Decides
      <4>. QED  BY <1>1, <1>5, <1>10, <2>5, <4>1 DEF MovesTo, EndsByRight, Touches, MayEnd
    <3>. QED  BY <1>5, <1>10, <2>5, <3>2, <3>4, <3>5 DEF MovesTo, BodyStep
  <2>. QED  BY <2>3, <2>4, <2>5
<1>. QED  BY <1>7, <1>8, <1>9, <1>10 DEF RunReconcile

\* A claim call also notes the claim it answers with.
LEMMA ClaimFrame ==
  ASSUME TypeInv, NEW t \in Tasks, HasLock(t), request[t].op = "claim", NEW a, Respond(t, a),
         NEW id, request' = [request EXCEPT ![t].claim_id = id], UNCHANGED <<todo, up, granted>>
  PROVE  /\ BodyFrame(t) /\ answer'[t] = a
         /\ request'[t].op = "claim" /\ request'[t].issue = request[t].issue
         /\ request'[t].agent = request[t].agent /\ request'[t].claim_id = id
<1>1. DOMAIN pc = Procs /\ DOMAIN answer = Procs /\ DOMAIN request = Procs /\ t \in Procs
  BY DEF TypeInv, TypeOK, CallsOK
<1>2. /\ pc[t] = "waiting" /\ pc'[t] = "done" /\ answer'[t] = a
      /\ \A q \in Procs \ {t} : pc'[q] = pc[q] /\ answer'[q] = answer[q]
  BY <1>1 DEF HasLock, Respond
<1>3. request[t] \in ClaimRequest
  BY <1>1, RequestKinds
<1>4. /\ request'[t] = [request[t] EXCEPT !.claim_id = id]
      /\ \A q \in Procs \ {t} : request'[q] = request[q]
  BY <1>1
<1>5. /\ request'[t].op = "claim" /\ request'[t].issue = request[t].issue
      /\ request'[t].agent = request[t].agent /\ request'[t].claim_id = id
  BY <1>3, <1>4 DEF ClaimRequest
<1>. QED  BY <1>2, <1>4, <1>5 DEF BodyFrame

LEMMA RunClaimLife ==
  ASSUME TypeInv, SafeInv, LifeInv, NEW t \in Tasks, RunClaim(t)
  PROVE  BodyStep(t) /\ BodyFrame(t) /\ EndsByRight(t) /\ OwnAnswer(t)
<1>. DEFINE r == request[t]
<1>0. HasLock(t) /\ t \in Procs /\ r.op = "claim"
  BY DEF RunClaim
<1>1. r \in ClaimRequest /\ r.issue \in Issues
  BY <1>0, RequestKinds DEF ClaimRequest
<1>2. UNCHANGED <<todo, up, granted>>
  BY DEF RunClaim, world
<1>3. /\ activeClaims \in [ClaimIds -> Claim \cup {NoClaim}]
      /\ issueToClaimId \in [Issues -> ClaimIds \cup {NoId}]
      /\ db \in Rows /\ db.active \in [ClaimIds -> Claim \cup {NoClaim}]
  BY DEF TypeInv, TypeOK, MemoryOK, DiskOK, Rows
<1>4. CASE /\ Holder(r.issue) # NoClaim
           /\ NothingDone(t, IF Holder(r.issue).agent = r.agent THEN "confirmed" ELSE "taken")
           /\ request' = [request EXCEPT ![t].claim_id = issueToClaimId[r.issue]]
           /\ issued' = issued
  <2>. DEFINE a == IF Holder(r.issue).agent = r.agent THEN "confirmed" ELSE "taken"
              id == issueToClaimId[r.issue]
  <2>1. Kept
    BY <1>4 DEF NothingDone, Kept, memory, disk
  <2>2. /\ BodyFrame(t) /\ answer'[t] = a
        /\ request'[t].op = "claim" /\ request'[t].issue = r.issue
        /\ request'[t].agent = r.agent /\ request'[t].claim_id = id
    <3>1. Respond(t, a)
      BY <1>4 DEF NothingDone
    <3>. HIDE DEF a
    <3>. QED  BY <1>0, <1>2, <1>4, <3>1, ClaimFrame
  <2>3. id \in ClaimIds /\ activeClaims[id] = Holder(r.issue)
    BY <1>1, <1>3, <1>4 DEF Holder
  <2>4. OwnAnswer(t)
    BY <1>4, <2>1, <2>2, <2>3 DEF OwnAnswer, AnswerFits, AnswerRight, DurableAt, Kept
  <2>. QED  BY <2>1, <2>2, <2>4 DEF BodyStep, EndsByRight, Kept
<1>5. ASSUME NEW id \in ClaimIds \ issued, CreateClaim(t, id, r)
      PROVE  BodyStep(t) /\ BodyFrame(t) /\ EndsByRight(t) /\ OwnAnswer(t)
  <2>. DEFINE n == NewClaim(r)
              after == [RowPut(db, id, n) EXCEPT !.total = totalClaims + 1]
  <2>1. n \in Claim /\ n.issue = r.issue /\ n.agent = r.agent /\ n # NoClaim /\ Backed(n)
    BY <1>1, NewClaimType, SentinelAssumption DEF NewClaim, Backed
  <2>2. after.history = db.history /\ after.active = [db.active EXCEPT ![id] = n]
    <3>1. /\ RowPut(db, id, n) \in Rows /\ RowPut(db, id, n).history = db.history
          /\ RowPut(db, id, n).active = [db.active EXCEPT ![id] = n]
      BY <1>3, <2>1, RowPutType
    <3>. QED  BY <3>1 DEF Rows
  <2>3. /\ activeClaims' = [activeClaims EXCEPT ![id] = n]
        /\ issueToClaimId' = [issueToClaimId EXCEPT ![r.issue] = id]
        /\ issued' = issued \cup {id} /\ history' = history
        /\ request' = [request EXCEPT ![t].claim_id = id]
        /\ Transact(t, id, db, after, "granted")
    BY <1>5 DEF CreateClaim
  <2>. HIDE DEF n, after
  <2>4. /\ activeClaims'[id] = n /\ issueToClaimId'[r.issue] = id
        /\ \A d \in ClaimIds \ {id} : activeClaims'[d] = activeClaims[d]
        /\ \A i \in Issues \ {r.issue} : issueToClaimId'[i] = issueToClaimId[i]
    BY <1>1, <1>3, <2>3
  <2>5. \/ db' = after /\ Respond(t, "granted")
        \/ db' = db /\ Respond(t, "error")
    BY <2>3 DEF Transact
  <2>6. /\ db'.history = db.history
        /\ \A d \in ClaimIds \ {id} : db'.active[d] = db.active[d]
        /\ db' = after => db'.active[id] = n
        /\ db'.active[id] = n \/ db'.active[id] = db.active[id]
    BY <1>3, <2>2, <2>5
  <2>7. activeClaims[id] = NoClaim /\ Backed(db.active[id])
    BY DEF SafeInv, FreshIds, LifeInv, AllBacked
  <2>8. Touches(t, id)
    BY <2>1, <2>3, <2>4, <2>6, <2>7 DEF Touches, Rewrites
  <2>9. /\ BodyFrame(t) /\ answer'[t] \in {"granted", "error"}
        /\ answer'[t] = "granted" => db'.active[id] = n
        /\ request'[t].op = "claim" /\ request'[t].issue = r.issue
        /\ request'[t].agent = r.agent /\ request'[t].claim_id = id
    <3>1. ASSUME NEW a, Respond(t, a)
          PROVE  /\ BodyFrame(t) /\ answer'[t] = a
                 /\ request'[t].op = "claim" /\ request'[t].issue = r.issue
                 /\ request'[t].agent = r.agent /\ request'[t].claim_id = id
      BY <1>0, <1>2, <2>3, <3>1, ClaimFrame
    <3>. QED  BY <2>5, <2>6, <3>1
  <2>10. OwnAnswer(t)
    BY <2>1, <2>4, <2>9 DEF OwnAnswer, AnswerFits, AnswerRight, DurableAt, Subject
  <2>11. EndsByRight(t)
    BY <2>1, <2>4 DEF EndsByRight
  <2>. QED  BY <2>8, <2>9, <2>10, <2>11 DEF BodyStep
<1>. QED  BY <1>4, <1>5 DEF RunClaim

-----------------------------------------------------------------------------
(* What a body leaves to the others                                        *)

\* Of two calls that have a lock, each is on an issue of its own.
LEMMA LockAlone ==
  ASSUME TypeInv, NEW p \in Procs, NEW q \in Procs, q # p, HasLock(p), pc[q] = "done"
  PROVE  request[q].issue # request[p].issue /\ request[q].issue \in Issues
<1>1. request[q] \in Request /\ lockQueues[request[q].issue][1] = q
  BY DEF TypeInv, QueuesOK
<1>2. request[p] \in Request /\ Head(lockQueues[request[p].issue]) = p
  BY DEF TypeInv, QueuesOK, HasLock
<1>3. request[p].issue \in Issues /\ lockQueues[request[p].issue] \in Seq(Procs)
  BY <1>2, RequestIssue DEF TypeInv, TypeOK, CallsOK
<1>4. lockQueues[request[p].issue][1] = p
  BY <1>2, <1>3
<1>. QED  BY <1>1, <1>4, RequestIssue

\* A claim that was made keeps its issue.
LEMMA OnIssueKept ==
  ASSUME NEW p \in Procs, BodyStep(p), NEW d \in ClaimIds, NEW i, OnIssue(d, i)
  PROVE  OnIssue(d, i)'
<1>1. CASE Kept
  BY <1>1 DEF Kept, OnIssue
<1>2. ASSUME NEW id \in ClaimIds, Touches(p, id)
      PROVE  OnIssue(d, i)'
  BY <1>2 DEF Touches, OnIssue
<1>. QED  BY <1>1, <1>2 DEF BodyStep

LEMMA BodyRequests ==
  ASSUME TypeInv, SafeInv, LifeInv, NEW p \in Procs, HasLock(p), BodyStep(p), BodyFrame(p)
  PROVE  RequestsMatch' /\ NothingDown'
<1>1. /\ issued \subseteq ClaimIds /\ up /\ up' = up /\ todo' = todo
      /\ RequestsMatch
  BY BodyUp DEF TypeInv, TypeOK, WorldOK, BodyFrame, LifeInv
<1>2. ASSUME NEW q \in Procs, pc'[q] \in {"waiting", "done"},
             request'[q].op \in {"update", "sweep"}
      PROVE  OnIssue(request[q].claim_id, request[q].issue)'
  <2>1. pc[q] \in {"waiting", "done"} /\ request'[q] = request[q]
    BY <1>2 DEF BodyFrame
  <2>2. OnIssue(request[q].claim_id, request[q].issue)
    BY <1>1, <1>2, <2>1 DEF RequestsMatch
  <2>3. request[q].claim_id \in ClaimIds
    BY <1>1, <2>2 DEF OnIssue
  <2>. QED  BY <2>1, <2>2, <2>3, OnIssueKept DEF OnIssue
<1>3. ASSUME NEW x \in todo
      PROVE  OnIssue(x.claim_id, x.issue)'
  <2>1. OnIssue(x.claim_id, x.issue) /\ x.claim_id \in ClaimIds
    BY <1>1 DEF RequestsMatch, OnIssue
  <2>. QED  BY <2>1, OnIssueKept
<1>4. RequestsMatch'
  BY <1>1, <1>2, <1>3 DEF RequestsMatch
<1>. QED  BY <1>1, <1>4 DEF NothingDown

\* A claim of another issue than the body's is left alone.
LEMMA ElsewhereKept ==
  ASSUME NEW p \in Procs, BodyStep(p), NEW d \in ClaimIds, NEW i, OnIssue(d, i),
         i # request[p].issue
  PROVE  activeClaims'[d] = activeClaims[d] /\ db'.active[d] = db.active[d]
<1>1. CASE Kept
  BY <1>1 DEF Kept
<1>2. ASSUME NEW id \in ClaimIds, Touches(p, id)
      PROVE  activeClaims'[d] = activeClaims[d] /\ db'.active[d] = db.active[d]
  BY <1>2 DEF Touches, OnIssue
<1>. QED  BY <1>1, <1>2 DEF BodyStep

LEMMA IndexOn ==
  ASSUME TypeInv, SafeInv, NEW i \in Issues, issueToClaimId[i] # NoId
  PROVE  /\ issueToClaimId[i] \in ClaimIds /\ activeClaims[issueToClaimId[i]] # NoClaim
         /\ OnIssue(issueToClaimId[i], i)
<1>1. issueToClaimId[i] \in ClaimIds
  BY DEF TypeInv, TypeOK, MemoryOK
<1>. QED  BY <1>1 DEF SafeInv, IndexSound, FreshIds, OnIssue

\* The claim a call is about is of its issue.
LEMMA SubjectOn ==
  ASSUME TypeInv, SafeInv, LifeInv, NEW q \in Procs, pc[q] = "done", Subject(q) # NoId,
         request[q].op = "claim" => answer[q] \in {"granted", "confirmed", "taken"}
  PROVE  Subject(q) \in ClaimIds /\ OnIssue(Subject(q), request[q].issue)
<1>1. request[q] \in Request /\ request[q].issue \in Issues /\ issued \subseteq ClaimIds
  BY RequestIssue DEF TypeInv, QueuesOK, TypeOK, WorldOK
<1>2. CASE request[q].op \in {"update", "sweep"}
  BY <1>1, <1>2 DEF LifeInv, RequestsMatch, OnIssue, Subject
<1>3. CASE request[q].op = "reconcile"
  BY <1>1, <1>3, IndexOn DEF Subject
<1>4. CASE request[q].op = "claim"
  <2>1. q \in Tasks /\ Subject(q) \in ClaimIds
    BY <1>4 DEF LifeInv, AnswerFits, Subject
  <2>2. issueToClaimId[request[q].issue] = Subject(q)
    BY <1>4, <2>1 DEF LifeInv, AnswerRight, Subject
  <2>. QED  BY <1>1, <2>1, <2>2, IndexOn
<1>5. request[q].op \in {"claim", "update", "reconcile", "sweep"}
  BY <1>1 DEF Request, ClaimRequest, UpdateRequest, ReconcileRequest, SweepRequest
<1>. QED  BY <1>2, <1>3, <1>4, <1>5

\* What another call will answer stays so.
LEMMA OthersKept ==
  ASSUME TypeInv, SafeInv, LifeInv, NEW p \in Procs, HasLock(p), BodyStep(p), BodyFrame(p),
         NEW q \in Procs, q # p
  PROVE  (q \in Tasks => AnswerRight(q)') /\ DurableAt(q)' /\ AnswerFits(q)'
<1>1. /\ pc'[q] = pc[q] /\ answer'[q] = answer[q] /\ request'[q] = request[q]
      /\ (q \in Tasks => AnswerRight(q)) /\ DurableAt(q) /\ AnswerFits(q)
  BY DEF BodyFrame, LifeInv
<1>. SUFFICES ASSUME pc[q] = "done"
              PROVE  (q \in Tasks => AnswerRight(q)') /\ DurableAt(q)' /\ AnswerFits(q)'
  BY <1>1 DEF AnswerRight, DurableAt, AnswerFits
<1>2. /\ request[q].issue # request[p].issue
      /\ issueToClaimId'[request[q].issue] = issueToClaimId[request[q].issue]
  BY LockAlone DEF BodyStep, Kept, Touches
<1>3. Subject(q)' = Subject(q)
  BY <1>1, <1>2 DEF Subject
<1>4. ASSUME Subject(q) # NoId,
             request[q].op = "claim" => answer[q] \in {"granted", "confirmed", "taken"}
      PROVE  /\ activeClaims'[Subject(q)] = activeClaims[Subject(q)]
             /\ db'.active[Subject(q)] = db.active[Subject(q)]
  BY <1>2, <1>4, SubjectOn, ElsewhereKept
<1>5. DurableAt(q)'
  BY <1>1, <1>3, <1>4 DEF DurableAt, AnswerFits
<1>6. ASSUME q \in Tasks PROVE AnswerRight(q)'
  <2>1. CASE answer[q] \in {"granted", "confirmed", "taken"}
    <3>1. request[q].op = "claim" /\ request[q].claim_id = Subject(q) /\ Subject(q) # NoId
      BY <1>1, <2>1, SentinelAssumption DEF AnswerFits, Subject
    <3>. QED  BY <1>1, <1>2, <1>4, <1>6, <2>1, <3>1 DEF AnswerRight
  <2>2. CASE request[q].op = "update" /\ answer[q] \in {"applied", "same"}
    <3>1. request[q].claim_id = Subject(q) /\ Subject(q) # NoId
      BY <2>2, SentinelAssumption DEF LifeInv, RequestsMatch, OnIssue, Subject,
                                      TypeInv, TypeOK, WorldOK
    <3>. QED  BY <1>1, <1>4, <1>6, <2>2, <3>1 DEF AnswerRight
  <2>. QED  BY <1>1, <2>1, <2>2 DEF AnswerRight
<1>. QED  BY <1>1, <1>5, <1>6 DEF AnswerFits

LEMMA BodyAnswers ==
  ASSUME TypeInv, SafeInv, LifeInv, NEW p \in Procs, HasLock(p), BodyStep(p), BodyFrame(p),
         OwnAnswer(p)
  PROVE  /\ \A t \in Tasks : AnswerRight(t)'
         /\ \A q \in Procs : DurableAt(q)' /\ AnswerFits(q)'
BY OthersKept DEF OwnAnswer

-----------------------------------------------------------------------------
(* The histories                                                           *)

\* g is h with e in front, as much of it as a history holds.
Pushed(g, h, e) ==
  /\ g \in Seq(Entry) /\ Len(g) \in Nat /\ Len(h) \in Nat /\ Len(g) <= HistoryMax
  /\ Len(g) = HistoryMax \/ Len(g) = Len(h) + 1
  /\ \A n \in 1..Len(g) : n = 1 => g[n] = e
  /\ \A n \in 1..Len(g) : n # 1 => n - 1 \in 1..Len(h) /\ g[n] = h[n - 1]

LEMMA PushEntries ==
  ASSUME NEW h \in Seq(Entry), NEW e \in Entry
  PROVE  Pushed(trimHistory(<<e>> \o h), h, e)
<1>. DEFINE eh == <<e>> \o h
            k == AtMost(HistoryMax, Len(eh))
            g == trimHistory(eh)
<1>1. /\ eh \in Seq(Entry) /\ Len(eh) = Len(h) + 1 /\ Len(h) \in Nat
      /\ \A n \in 1..Len(eh) : (n = 1 => eh[n] = e) /\ (n # 1 => eh[n] = h[n - 1])
  <2>1. <<e>> \in Seq(Entry) /\ Len(<<e>>) = 1 /\ <<e>>[1] = e /\ Len(h) \in Nat
    OBVIOUS
  <2>2. /\ eh \in Seq(Entry) /\ Len(eh) = Len(<<e>>) + Len(h)
        /\ \A n \in 1..Len(<<e>>) + Len(h) :
             eh[n] = IF n <= Len(<<e>>) THEN <<e>>[n] ELSE h[n - Len(<<e>>)]
    BY <2>1, ConcatProperties
  <2>. QED  BY <2>1, <2>2
<1>2. k \in Nat /\ k <= Len(eh) /\ k <= HistoryMax /\ (k = HistoryMax \/ k = Len(eh))
  BY <1>1, ConfigAssumption DEF AtMost
<1>. HIDE DEF eh, k, g
<1>3. g = SubSeq(eh, 1, k)
  BY DEF trimHistory, k, g
<1>4. \A n \in 1..k : eh[n] \in Entry
  BY <1>1, <1>2, ElementOfSeq
<1>5. /\ g \in Seq(Entry) /\ Len(g) = k
      /\ \A n \in 1..k : g[n] = eh[n]
  <2>1. /\ g \in Seq(Entry) /\ Len(g) = IF 1 <= k THEN k - 1 + 1 ELSE 0
        /\ \A n \in 1..k - 1 + 1 : g[n] = eh[1 + n - 1]
    BY <1>2, <1>3, <1>4, SubSeqProperties
  <2>. QED  BY <1>2, <2>1
<1>6. Pushed(g, h, e)
  BY <1>1, <1>2, <1>5 DEF Pushed
<1>. QED  BY <1>6 DEF g, eh

\* An entry of a claim that had none is pushed, and the claim is not active.
LEMMA PushEndedOnce ==
  ASSUME NEW h \in Seq(Entry), NEW e \in Entry, NEW before, NEW after,
         EndedOnce(before, h), \A n \in 1..Len(h) : h[n].claim_id # e.claim_id,
         \A d \in ClaimIds \ {e.claim_id} : after[d] = before[d],
         after[e.claim_id] = NoClaim, NEW g, Pushed(g, h, e)
  PROVE  EndedOnce(after, g)
<1>1. /\ g \in Seq(Entry) /\ Len(h) \in Nat /\ Len(g) \in Nat
      /\ \A n \in 1..Len(g) : n = 1 => g[n] = e
      /\ \A n \in 1..Len(g) : n # 1 => n - 1 \in 1..Len(h) /\ g[n] = h[n - 1]
  BY DEF Pushed
<1>2. ASSUME NEW m \in 1..Len(g), NEW n \in 1..Len(g), g[m].claim_id = g[n].claim_id
      PROVE  m = n
  <2>1. CASE m # 1 /\ n # 1
    <3>1. /\ m - 1 \in 1..Len(h) /\ n - 1 \in 1..Len(h)
          /\ h[m - 1].claim_id = h[n - 1].claim_id
      BY <1>1, <1>2, <2>1
    <3>2. m - 1 = n - 1
      BY <3>1 DEF EndedOnce
    <3>. QED  BY <3>2
  <2>2. CASE m = 1 /\ n # 1
    BY <1>1, <1>2, <2>2
  <2>3. CASE m # 1 /\ n = 1
    BY <1>1, <1>2, <2>3
  <2>. QED  BY <2>1, <2>2, <2>3
<1>3. ASSUME NEW n \in 1..Len(g)
      PROVE  after[g[n].claim_id] = NoClaim
  <2>1. CASE n = 1
    BY <1>1, <2>1
  <2>2. CASE n # 1
    <3>1. n - 1 \in 1..Len(h) /\ g[n] = h[n - 1]
      BY <1>1, <2>2
    <3>2. before[h[n - 1].claim_id] = NoClaim /\ h[n - 1].claim_id # e.claim_id
      BY <3>1 DEF EndedOnce
    <3>3. h[n - 1] \in Entry
      BY <3>1, ElementOfSeq
    <3>. QED  BY <3>1, <3>2, <3>3 DEF Entry
  <2>. QED  BY <2>1, <2>2
<1>. QED  BY <1>2, <1>3 DEF EndedOnce

\* What a full history forgets is all that is lost.
LEMMA PushRecorded ==
  ASSUME NEW h \in Seq(Entry), NEW e \in Entry, NEW g, Pushed(g, h, e)
  PROVE  /\ Recorded(g, e.claim_id) \/ Len(g) = HistoryMax
         /\ \A id : Recorded(h, id) => Recorded(g, id) \/ Len(g) = HistoryMax
         /\ Len(h) = HistoryMax => Len(g) = HistoryMax
<1>1. /\ g \in Seq(Entry) /\ Len(h) \in Nat /\ Len(g) \in Nat /\ Len(g) <= HistoryMax
      /\ Len(g) = HistoryMax \/ Len(g) = Len(h) + 1
      /\ \A n \in 1..Len(g) : n = 1 => g[n] = e
      /\ \A n \in 1..Len(g) : n # 1 => n - 1 \in 1..Len(h) /\ g[n] = h[n - 1]
  BY DEF Pushed
<1>2. ASSUME Len(g) # HistoryMax
      PROVE  Recorded(g, e.claim_id)
  BY <1>1, <1>2 DEF Recorded
<1>3. ASSUME NEW id, NEW n \in 1..Len(h), h[n].claim_id = id, Len(g) # HistoryMax
      PROVE  Recorded(g, id)
  <2>1. n + 1 \in 1..Len(g) /\ n + 1 # 1 /\ n + 1 - 1 = n
    BY <1>1, <1>3
  <2>2. g[n + 1] = h[n]
    BY <1>1, <2>1
  <2>. QED  BY <1>3, <2>1, <2>2 DEF Recorded
<1>4. Len(h) = HistoryMax => Len(g) = HistoryMax
  BY <1>1, ConfigAssumption
<1>. QED  BY <1>2, <1>3, <1>4 DEF Recorded

\* What the entries of a history are, as two states need it: h holds no claim
\* that a body touches.
LEMMA NotTouched ==
  ASSUME SafeInv, up, NEW p \in Procs, NEW id \in ClaimIds, Touches(p, id),
         NEW h \in Seq(Entry), Over(h)
  PROVE  /\ \A n \in 1..Len(h) : h[n].claim_id \in ClaimIds \ {id}
         /\ \A n \in 1..Len(h) : /\ activeClaims'[h[n].claim_id] = activeClaims[h[n].claim_id]
                                  /\ db'.active[h[n].claim_id] = db.active[h[n].claim_id]
         /\ \A n \in 1..Len(h) : h[n].claim_id \in issued /\ activeClaims'[h[n].claim_id] = NoClaim
<1>. SUFFICES ASSUME NEW n \in 1..Len(h)
              PROVE  /\ h[n].claim_id \in ClaimIds \ {id}
                     /\ activeClaims'[h[n].claim_id] = activeClaims[h[n].claim_id]
                     /\ db'.active[h[n].claim_id] = db.active[h[n].claim_id]
                     /\ h[n].claim_id \in issued /\ activeClaims'[h[n].claim_id] = NoClaim
  OBVIOUS
<1>1. h[n] \in Entry
  BY ElementOfSeq
<1>2. h[n].claim_id \in issued /\ activeClaims[h[n].claim_id] = NoClaim
  BY DEF Over
<1>3. h[n].claim_id # id
  BY <1>2 DEF Touches
<1>4. h[n].claim_id \in ClaimIds \ {id}
  BY <1>1, <1>3 DEF Entry
<1>. QED  BY <1>2, <1>4 DEF Touches

\* A history that gets the entry of a claim that ended.
LEMMA OverPushed ==
  ASSUME SafeInv, up, up' = up, NEW p \in Procs, NEW id \in ClaimIds, Touches(p, id),
         Retires(id), NEW h \in Seq(Entry), Over(h), NEW e \in Entry, e.claim_id = id,
         NEW g, Pushed(g, h, e)
  PROVE  \A n \in 1..Len(g) : g[n].claim_id \in issued' /\ activeClaims'[g[n].claim_id] = NoClaim
<1>1. id \in issued /\ issued \subseteq issued' /\ activeClaims'[id] = NoClaim
  BY DEF SafeInv, FreshIds, Retires, Touches
<1>2. ASSUME NEW n \in 1..Len(g), n # 1
      PROVE  g[n].claim_id \in issued /\ activeClaims'[g[n].claim_id] = NoClaim
  <2>1. n - 1 \in 1..Len(h) /\ g[n] = h[n - 1]
    BY <1>2 DEF Pushed
  <2>2. \A m \in 1..Len(h) : h[m].claim_id \in issued /\ activeClaims'[h[m].claim_id] = NoClaim
    BY NotTouched
  <2>. QED  BY <2>1, <2>2
<1>3. ASSUME NEW n \in 1..Len(g), n = 1
      PROVE  g[n].claim_id = id
  BY <1>3 DEF Pushed
<1>. QED  BY <1>1, <1>2, <1>3

LEMMA BodyHistories ==
  ASSUME TypeInv, SafeInv, LifeInv, NEW p \in Procs, HasLock(p), BodyStep(p), BodyFrame(p)
  PROVE  /\ EndsOnce' /\ Over(history)' /\ Over(db.history)'
         /\ AllBacked(activeClaims)' /\ AllBacked(db.active)' /\ GrantedIsDurable'
<1>1. /\ up /\ up' = up /\ granted' = granted /\ granted \subseteq ClaimIds
      /\ history \in Seq(Entry) /\ db.history \in Seq(Entry)
      /\ EndedOnce(activeClaims, history) /\ EndedOnce(db.active, db.history)
      /\ Over(history) /\ Over(db.history)
      /\ AllBacked(activeClaims) /\ AllBacked(db.active) /\ GrantedIsDurable
  BY BodyUp DEF BodyFrame, TypeInv, TypeOK, MemoryOK, DiskOK, WorldOK, Rows, LifeInv, EndsOnce
<1>2. CASE Kept
  BY <1>1, <1>2 DEF Kept, EndsOnce, EndedOnce, Over, AllBacked, GrantedIsDurable, Recorded
<1>3. ASSUME NEW id \in ClaimIds, Touches(p, id)
      PROVE  /\ EndsOnce' /\ Over(history)' /\ Over(db.history)'
             /\ AllBacked(activeClaims)' /\ AllBacked(db.active)' /\ GrantedIsDurable'
  <2>1. /\ \A n \in 1..Len(history) : history[n].claim_id \in ClaimIds \ {id}
        /\ \A n \in 1..Len(history) :
             history[n].claim_id \in issued /\ activeClaims'[history[n].claim_id] = NoClaim
    BY <1>1, <1>3, NotTouched
  <2>2. /\ \A n \in 1..Len(db.history) : db.history[n].claim_id \in ClaimIds \ {id}
        /\ \A n \in 1..Len(db.history) :
             db'.active[db.history[n].claim_id] = db.active[db.history[n].claim_id]
        /\ \A n \in 1..Len(db.history) :
             db.history[n].claim_id \in issued /\ activeClaims'[db.history[n].claim_id] = NoClaim
    BY <1>1, <1>3, NotTouched
  <2>3. issued \subseteq issued'
    BY <1>3 DEF Touches
  <2>4. AllBacked(activeClaims)' /\ AllBacked(db.active)'
    BY <1>1, <1>3 DEF Touches, AllBacked
  <2>5. ASSUME db'.history = db.history, db.active[id] # NoClaim => db'.active[id] # NoClaim
        PROVE  EndedOnce(db.active, db.history)' /\ Over(db.history)' /\ GrantedIsDurable'
    <3>1. EndedOnce(db.active, db.history)'
      BY <1>1, <2>2, <2>5 DEF EndedOnce
    <3>2. Over(db.history)'
      BY <2>2, <2>3, <2>5 DEF Over
    <3>3. GrantedIsDurable'
      BY <1>1, <1>3, <2>5 DEF GrantedIsDurable, Recorded, Touches
    <3>. QED  BY <3>1, <3>2, <3>3
  <2>6. CASE Rewrites(id)
    <3>1. EndedOnce(activeClaims, history)'
      BY <1>1, <2>1, <2>6 DEF EndedOnce, Rewrites
    <3>2. Over(history)'
      BY <2>1, <2>3, <2>6 DEF Over, Rewrites
    <3>. QED  BY <2>4, <2>5, <2>6, <3>1, <3>2 DEF Rewrites, EndsOnce
  <2>7. CASE Retires(id)
    <3>1. PICK e \in Entry :
            /\ e.claim_id = id
            /\ history' = trimHistory(<<e>> \o history)
            /\ \/ /\ db'.history = db.history
                  /\ db.active[id] # NoClaim => db'.active[id] # NoClaim
               \/ /\ db'.history = trimHistory(<<e>> \o db.history)
                  /\ db'.active[id] = NoClaim
      BY <2>7 DEF Retires
    <3>2. Pushed(history', history, e)
      BY <1>1, <3>1, PushEntries
    <3>3. EndedOnce(activeClaims, history)'
      <4>1. /\ activeClaims'[id] = NoClaim
            /\ \A d \in ClaimIds \ {id} : activeClaims'[d] = activeClaims[d]
        BY <1>3, <2>7 DEF Retires, Touches
      <4>2. \A n \in 1..Len(history) : history[n].claim_id # e.claim_id
        BY <2>1, <3>1
      <4>. QED  BY <1>1, <3>1, <3>2, <4>1, <4>2, PushEndedOnce
    <3>4. Over(history)'
      <4>1. \A n \in 1..Len(history') :
              history'[n].claim_id \in issued' /\ activeClaims'[history'[n].claim_id] = NoClaim
        BY <1>1, <1>3, <2>7, <3>1, <3>2, OverPushed
      <4>. QED  BY <4>1 DEF Over
    <3>5. ASSUME db'.history = trimHistory(<<e>> \o db.history), db'.active[id] = NoClaim
          PROVE  EndedOnce(db.active, db.history)' /\ Over(db.history)' /\ GrantedIsDurable'
      <4>1. Pushed(db'.history, db.history, e)
        BY <1>1, <3>5, PushEntries
      <4>2. EndedOnce(db.active, db.history)'
        <5>1. /\ db'.active[e.claim_id] = NoClaim
              /\ \A d \in ClaimIds \ {e.claim_id} : db'.active[d] = db.active[d]
              /\ \A n \in 1..Len(db.history) : db.history[n].claim_id # e.claim_id
          BY <1>3, <2>2, <3>1, <3>5 DEF Touches
        <5>. QED  BY <1>1, <4>1, <5>1, PushEndedOnce
      <4>3. Over(db.history)'
        <5>1. \A n \in 1..Len(db'.history) :
                /\ db'.history[n].claim_id \in issued'
                /\ activeClaims'[db'.history[n].claim_id] = NoClaim
          BY <1>1, <1>3, <2>7, <3>1, <4>1, OverPushed
        <5>. QED  BY <5>1 DEF Over
      <4>4. GrantedIsDurable'
        <5>1. /\ Recorded(db'.history, id) \/ Len(db'.history) = HistoryMax
              /\ \A d : Recorded(db.history, d) =>
                   Recorded(db'.history, d) \/ Len(db'.history) = HistoryMax
              /\ Len(db.history) = HistoryMax => Len(db'.history) = HistoryMax
          BY <1>1, <3>1, <4>1, PushRecorded
        <5>2. \A d \in ClaimIds \ {id} : db'.active[d] = db.active[d]
          BY <1>3 DEF Touches
        <5>. QED  BY <1>1, <5>1, <5>2 DEF GrantedIsDurable
      <4>. QED  BY <4>2, <4>3, <4>4
    <3>. QED  BY <2>4, <2>5, <3>1, <3>3, <3>4, <3>5 DEF EndsOnce
  <2>. QED  BY <1>3, <2>6, <2>7 DEF Touches
<1>. QED  BY <1>2, <1>3 DEF BodyStep

LEMMA BodyLife ==
  ASSUME TypeInv, SafeInv, LifeInv, NEW p \in Procs, HasLock(p), BodyStep(p), BodyFrame(p),
         OwnAnswer(p)
  PROVE  LifeInv'
BY BodyRequests, BodyAnswers, BodyHistories DEF LifeInv

-----------------------------------------------------------------------------
(* The other steps                                                         *)

\* A step that leaves memory, the rows' claims and what was answered alone.
LEMMA QuietLife ==
  ASSUME LifeInv, UNCHANGED <<activeClaims, issueToClaimId, history, issued, up>>,
         db'.active = db.active, db'.history = db.history,
         \A q \in Procs : pc'[q] = "done" =>
           pc[q] = "done" /\ answer'[q] = answer[q] /\ request'[q] = request[q],
         \A id \in granted' \ granted : db.active[id] = activeClaims[id] /\ activeClaims[id] # NoClaim,
         RequestsMatch', up \/ todo' = {}
  PROVE  LifeInv'
<1>1. NothingDown'
  BY DEF LifeInv, NothingDown
<1>2. ASSUME NEW q \in Procs
      PROVE  /\ q \in Tasks => AnswerRight(q)'
             /\ DurableAt(q)' /\ AnswerFits(q)'
  <2>1. /\ q \in Tasks => AnswerRight(q)
        /\ DurableAt(q) /\ AnswerFits(q)
    BY DEF LifeInv
  <2>2. pc'[q] = "done" => Subject(q)' = Subject(q)
    BY DEF Subject
  <2>. QED  BY <2>1, <2>2 DEF AnswerRight, DurableAt, AnswerFits
<1>3. EndsOnce' /\ Over(history)' /\ Over(db.history)'
  BY DEF LifeInv, EndsOnce, EndedOnce, Over
<1>4. AllBacked(activeClaims)' /\ AllBacked(db.active)'
  BY DEF LifeInv, AllBacked
<1>5. GrantedIsDurable'
  BY DEF LifeInv, GrantedIsDurable, Recorded
<1>. QED  BY <1>1, <1>2, <1>3, <1>4, <1>5 DEF LifeInv

\* A call that begins, for a claim of the issue whose lock it takes.
LEMMA EnqueueLife ==
  ASSUME TypeInv, LifeInv, up, NEW p \in Procs, NEW r, withIssueLock(p, r), todo' \subseteq todo,
         r.op \in {"update", "sweep"} => OnIssue(r.claim_id, r.issue)
  PROVE  LifeInv'
<1>1. DOMAIN pc = Procs /\ DOMAIN request = Procs
  BY DEF TypeInv, TypeOK, CallsOK
<1>2. /\ pc'[p] = "waiting" /\ request'[p] = r
      /\ \A q \in Procs \ {p} : pc'[q] = pc[q] /\ request'[q] = request[q]
  BY <1>1 DEF withIssueLock
<1>3. UNCHANGED <<activeClaims, issueToClaimId, history, issued, granted, up, db, answer>>
  BY DEF withIssueLock, memory, disk, world, ghosts
<1>4. RequestsMatch'
  BY <1>2, <1>3 DEF LifeInv, RequestsMatch, OnIssue
<1>. QED  BY <1>2, <1>3, <1>4, QuietLife

LEMMA FinishLife ==
  ASSUME TypeInv, SafeInv, LifeInv, NEW p \in Procs, Finish(p)
  PROVE  LifeInv'
<1>0. pc[p] = "done" /\ up
  BY DEF Finish, TypeInv, TypeOK, WorldOK, SafeInv, NoCallsDown
<1>1. DOMAIN pc = Procs /\ DOMAIN request = Procs /\ DOMAIN answer = Procs
  BY DEF TypeInv, TypeOK, CallsOK
<1>2. /\ pc'[p] \in {"idle", "sweeping"}
      /\ \A q \in Procs \ {p} :
           pc'[q] = pc[q] /\ request'[q] = request[q] /\ answer'[q] = answer[q]
  BY <1>1 DEF Finish
<1>3. UNCHANGED <<activeClaims, issueToClaimId, history, issued, up, db>> /\ todo' \subseteq todo
  BY DEF Finish, memory, disk, world
<1>4. RequestsMatch'
  BY <1>2, <1>3 DEF LifeInv, RequestsMatch, OnIssue
<1>5. ASSUME NEW id \in granted' \ granted
      PROVE  db.active[id] = activeClaims[id] /\ activeClaims[id] # NoClaim
  <2>1. answer[p] = "granted" /\ id = request[p].claim_id
    BY DEF Finish
  <2>2. p \in Tasks /\ request[p].op = "claim" /\ id \in ClaimIds
    BY <1>0, <2>1 DEF LifeInv, AnswerFits
  <2>3. activeClaims[id] # NoClaim
    BY <1>0, <2>1, <2>2 DEF LifeInv, AnswerRight
  <2>4. Subject(p) = id /\ id # NoId
    BY <2>1, <2>2, SentinelAssumption DEF Subject
  <2>5. DurableAt(p)
    BY DEF LifeInv
  <2>. QED  BY <1>0, <2>1, <2>3, <2>4, <2>5 DEF DurableAt
<1>. QED  BY <1>0, <1>2, <1>3, <1>4, <1>5, QuietLife

LEMMA BodyOf ==
  ASSUME TypeInv, SafeInv, LifeInv, NEW p \in Procs, Run(p)
  PROVE  HasLock(p) /\ BodyStep(p) /\ BodyFrame(p) /\ EndsByRight(p) /\ OwnAnswer(p)
<1>1. CASE p = Syncer /\ RunSweep
  <2>1. HasLock(Syncer)
    BY <1>1 DEF RunSweep
  <2>. QED  BY <1>1, <2>1, RunSweepLife
<1>2. CASE p = Syncer /\ RunReconcile
  <2>1. HasLock(Syncer)
    BY <1>2 DEF RunReconcile
  <2>. QED  BY <1>2, <2>1, RunReconcileLife
<1>3. CASE p \in Tasks /\ RunClaim(p)
  <2>1. HasLock(p)
    BY <1>3 DEF RunClaim
  <2>. QED  BY <1>3, <2>1, RunClaimLife
<1>4. CASE p \in Tasks /\ RunUpdate(p)
  <2>1. HasLock(p)
    BY <1>4 DEF RunUpdate
  <2>. QED  BY <1>4, <2>1, RunUpdateLife
<1>. QED  BY <1>1, <1>2, <1>3, <1>4 DEF Run

LEMMA AgentLife ==
  ASSUME TypeInv, SafeInv, LifeInv, NEW t \in Tasks, AgentStep(t)
  PROVE  LifeInv'
<1>1. ASSUME NEW a \in Agents, NEW i \in Issues, NEW m \in Metas, InvokeClaim(t, a, i, m)
      PROVE  LifeInv'
  <2>. DEFINE r == [op |-> "claim", issue |-> i, agent |-> a, meta |-> m, claim_id |-> NoId]
  <2>1. withIssueLock(t, r) /\ up /\ todo' = todo
    BY <1>1 DEF InvokeClaim
  <2>. QED  BY <2>1, EnqueueLife
<1>2. ASSUME NEW a \in Agents, NEW id \in ClaimIds, NEW u, InvokeUpdate(t, a, id, u)
      PROVE  LifeInv'
  <2>. DEFINE r == [op |-> "update", issue |-> activeClaims[id].issue, agent |-> a,
                    claim_id |-> id, to |-> u.to, pr |-> u.pr]
  <2>1. withIssueLock(t, r) /\ up /\ todo' = todo
    BY <1>2 DEF InvokeUpdate
  <2>2. OnIssue(r.claim_id, r.issue)
    BY <1>2 DEF InvokeUpdate, SafeInv, FreshIds, OnIssue
  <2>. QED  BY <2>1, <2>2, EnqueueLife
<1>3. CASE Run(t)
  BY <1>3, BodyOf, BodyLife
<1>4. CASE Finish(t)
  BY <1>4, FinishLife
<1>. QED  BY <1>1, <1>2, <1>3, <1>4 DEF AgentStep, InvokeRelease

LEMMA SyncLife ==
  ASSUME TypeInv, SafeInv, LifeInv, SyncStep
  PROVE  LifeInv'
<1>0. Syncer \in Procs /\ db \in Rows
  BY DEF TypeInv, TypeOK, DiskOK
<1>1. CASE StartSweep
  <2>1. /\ UNCHANGED <<activeClaims, issueToClaimId, history, issued, granted, up, db, answer, request>>
        /\ up
    BY <1>1 DEF StartSweep, memory, disk, world, ghosts
  <2>2. /\ pc'[Syncer] = "sweeping" /\ \A q \in Procs \ {Syncer} : pc'[q] = pc[q]
    BY <1>1 DEF StartSweep, TypeInv, TypeOK, CallsOK
  <2>3. \A x \in todo' : OnIssue(x.claim_id, x.issue)
    BY <1>1 DEF StartSweep, Live, SafeInv, FreshIds, OnIssue
  <2>4. RequestsMatch'
    BY <2>1, <2>2, <2>3 DEF LifeInv, RequestsMatch, OnIssue
  <2>. QED  BY <2>1, <2>2, <2>4, QuietLife
<1>2. CASE SweepNext
  <2>1. PICK x \in todo :
          /\ todo' = todo \ {x}
          /\ withIssueLock(Syncer, [op |-> "sweep", issue |-> x.issue, claim_id |-> x.claim_id])
    BY <1>2 DEF SweepNext
  <2>2. up /\ OnIssue(x.claim_id, x.issue)
    BY <1>2 DEF SweepNext, LifeInv, RequestsMatch
  <2>. QED  BY <1>0, <2>1, <2>2, EnqueueLife
<1>3. ASSUME NEW i \in Issues, NEW m \in Metas, NEW closed \in BOOLEAN, InvokeReconcile(i, m, closed)
      PROVE  LifeInv'
  <2>. DEFINE r == [op |-> "reconcile", issue |-> i, meta |-> m, closed |-> closed]
  <2>1. withIssueLock(Syncer, r) /\ up /\ todo' = todo
    BY <1>3 DEF InvokeReconcile
  <2>. QED  BY <1>0, <2>1, EnqueueLife
<1>4. CASE setLastGithubSyncAt
  <2>1. db'.active = db.active /\ db'.history = db.history
    BY <1>0, <1>4 DEF setLastGithubSyncAt, Rows
  <2>2. UNCHANGED <<activeClaims, issueToClaimId, history, issued, granted, up, pc, answer, request, todo>> /\ up
    BY <1>4 DEF setLastGithubSyncAt, memory, calls, world, ghosts
  <2>3. RequestsMatch'
    BY <2>2 DEF LifeInv, RequestsMatch, OnIssue
  <2>. QED  BY <2>1, <2>2, <2>3, QuietLife
<1>5. CASE Run(Syncer)
  BY <1>0, <1>5, BodyOf, BodyLife
<1>6. CASE Finish(Syncer)
  BY <1>0, <1>6, FinishLife
<1>. QED  BY <1>1, <1>2, <1>3, <1>4, <1>5, <1>6 DEF SyncStep

\* Time changes only ages.
LEMMA AgedKeeps ==
  ASSUME NEW claims \in [ClaimIds -> Claim \cup {NoClaim}], NEW id \in ClaimIds
  PROVE  /\ Aged(claims)[id] # NoClaim <=> claims[id] # NoClaim
         /\ claims[id] # NoClaim =>
              /\ Aged(claims)[id].issue = claims[id].issue
              /\ Aged(claims)[id].agent = claims[id].agent
              /\ Aged(claims)[id].status = claims[id].status
              /\ Aged(claims)[id].pr = claims[id].pr
<1>1. claims[id] # NoClaim => claims[id] \in Claim
  OBVIOUS
<1>. QED  BY <1>1, OlderType, SentinelAssumption DEF Aged

LEMMA TickLife ==
  ASSUME TypeInv, SafeInv, LifeInv, Tick
  PROVE  LifeInv'
<1>1. /\ activeClaims \in [ClaimIds -> Claim \cup {NoClaim}]
      /\ db \in Rows /\ db.active \in [ClaimIds -> Claim \cup {NoClaim}]
      /\ history \in Seq(Entry) /\ db.history \in Seq(Entry)
      /\ issueToClaimId \in [Issues -> ClaimIds \cup {NoId}]
      /\ issued \subseteq ClaimIds /\ granted \subseteq ClaimIds
  BY DEF TypeInv, TypeOK, MemoryOK, DiskOK, WorldOK, Rows
<1>2. /\ activeClaims' = Aged(activeClaims)
      /\ db'.active = Aged(db.active) /\ db'.history = db.history
      /\ UNCHANGED <<issueToClaimId, history, pc, request, answer, todo, up, issued, granted>>
  BY <1>1 DEF Tick, Rows, calls, world, ghosts
<1>3. ASSUME NEW id \in ClaimIds
      PROVE  /\ activeClaims'[id] # NoClaim <=> activeClaims[id] # NoClaim
             /\ activeClaims[id] # NoClaim =>
                  /\ activeClaims'[id].issue = activeClaims[id].issue
                  /\ activeClaims'[id].agent = activeClaims[id].agent
                  /\ activeClaims'[id].status = activeClaims[id].status
                  /\ activeClaims'[id].pr = activeClaims[id].pr
             /\ db'.active[id] # NoClaim <=> db.active[id] # NoClaim
             /\ db.active[id] # NoClaim =>
                  /\ db'.active[id].status = db.active[id].status
                  /\ db'.active[id].pr = db.active[id].pr
             /\ db.active[id] = activeClaims[id] => db'.active[id] = activeClaims'[id]
  BY <1>1, <1>2, AgedKeeps DEF Aged
<1>4. ASSUME NEW h \in Seq(Entry), NEW n \in 1..Len(h)
      PROVE  h[n].claim_id \in ClaimIds
  <2>1. h[n] \in Entry
    BY <1>4, ElementOfSeq
  <2>. QED  BY <2>1 DEF Entry
<1>5. /\ \A n \in 1..Len(history) : history[n].claim_id \in ClaimIds
      /\ \A n \in 1..Len(db.history) : db.history[n].claim_id \in ClaimIds
  BY <1>1, <1>4
<1>6. \A d \in ClaimIds : \A i : OnIssue(d, i) => OnIssue(d, i)'
  BY <1>2, <1>3 DEF OnIssue
<1>7. RequestsMatch'
  <2>1. RequestsMatch
    BY DEF LifeInv
  <2>2. ASSUME NEW q \in Procs, pc'[q] \in {"waiting", "done"},
               request'[q].op \in {"update", "sweep"}
        PROVE  OnIssue(request[q].claim_id, request[q].issue)'
    <3>1. OnIssue(request[q].claim_id, request[q].issue) /\ request[q].claim_id \in ClaimIds
      BY <1>1, <1>2, <2>1, <2>2 DEF RequestsMatch, OnIssue
    <3>. QED  BY <1>2, <1>6, <3>1 DEF OnIssue
  <2>3. ASSUME NEW x \in todo
        PROVE  OnIssue(x.claim_id, x.issue)'
    <3>1. OnIssue(x.claim_id, x.issue) /\ x.claim_id \in ClaimIds
      BY <1>1, <2>1 DEF RequestsMatch, OnIssue
    <3>. QED  BY <1>6, <3>1
  <2>. QED  BY <1>2, <2>2, <2>3 DEF RequestsMatch
<1>8. NothingDown'
  BY <1>2, <1>3 DEF LifeInv, NothingDown
<1>9. ASSUME NEW q \in Procs
      PROVE  (q \in Tasks => AnswerRight(q)') /\ DurableAt(q)' /\ AnswerFits(q)'
  <2>1. (q \in Tasks => AnswerRight(q)) /\ DurableAt(q) /\ AnswerFits(q)
    BY DEF LifeInv
  <2>2. AnswerFits(q)'
    BY <1>2, <2>1 DEF AnswerFits
  <2>3. Subject(q)' = Subject(q)
    BY <1>2 DEF Subject
  <2>4. DurableAt(q)'
    <3>. SUFFICES ASSUME pc[q] = "done", answer[q] \in {"granted", "applied"}, Subject(q) # NoId
                  PROVE  db'.active[Subject(q)] = activeClaims'[Subject(q)]
      BY <1>2, <2>3 DEF DurableAt
    <3>1. Subject(q) \in ClaimIds
      BY <2>1, SubjectOn DEF AnswerFits
    <3>. QED  BY <1>3, <2>1, <3>1 DEF DurableAt
  <2>5. ASSUME q \in Tasks PROVE AnswerRight(q)'
    <3>. SUFFICES ASSUME pc[q] = "done" PROVE AnswerRight(q)'
      BY <1>2 DEF AnswerRight
    <3>1. request[q].issue \in Issues
      BY RequestIssue DEF TypeInv, QueuesOK
    <3>2. CASE answer[q] \in {"granted", "confirmed", "taken"}
      <4>1. request[q].op = "claim" /\ request[q].claim_id \in ClaimIds
        BY <2>1, <3>2 DEF AnswerFits
      <4>2. issueToClaimId[request[q].issue] = request[q].claim_id
        BY <2>1, <2>5, <3>2 DEF AnswerRight
      <4>3. activeClaims[request[q].claim_id] # NoClaim
        BY <3>1, <4>1, <4>2, IndexOn, SentinelAssumption
      <4>. QED  BY <1>2, <1>3, <2>1, <2>5, <3>2, <4>1, <4>2, <4>3 DEF AnswerRight
    <3>3. CASE request[q].op = "update" /\ answer[q] \notin {"granted", "confirmed", "taken"}
      <4>1. request[q].claim_id \in ClaimIds
        BY <1>1, <3>3 DEF LifeInv, RequestsMatch, OnIssue
      <4>. QED  BY <1>2, <1>3, <2>1, <2>5, <3>3, <4>1 DEF AnswerRight
    <3>. QED  BY <1>2, <3>2, <3>3 DEF AnswerRight
  <2>. QED  BY <2>2, <2>4, <2>5
<1>10. EndsOnce' /\ Over(history)' /\ Over(db.history)'
  <2>1. EndsOnce'
    BY <1>2, <1>3, <1>5 DEF LifeInv, EndsOnce, EndedOnce
  <2>2. Over(history)' /\ Over(db.history)'
    BY <1>2, <1>3, <1>5 DEF LifeInv, Over
  <2>. QED  BY <2>1, <2>2
<1>11. AllBacked(activeClaims)' /\ AllBacked(db.active)'
  BY <1>3 DEF LifeInv, AllBacked, Backed
<1>12. GrantedIsDurable'
  BY <1>1, <1>2, <1>3 DEF LifeInv, GrantedIsDurable, Recorded
<1>. QED  BY <1>7, <1>8, <1>9, <1>10, <1>11, <1>12 DEF LifeInv

LEMMA CrashLife ==
  ASSUME TypeInv, LifeInv, Crash
  PROVE  LifeInv'
<1>1. /\ \A d \in ClaimIds : activeClaims'[d] = NoClaim
      /\ \A q \in Procs : pc'[q] = "idle"
      /\ up' = FALSE /\ todo' = {} /\ history' = <<>>
      /\ UNCHANGED <<db, issued, granted>>
  BY DEF Crash, disk, ghosts
<1>2. RequestsMatch' /\ NothingDown'
  BY <1>1 DEF RequestsMatch, NothingDown
<1>3. \A q \in Procs : AnswerRight(q)' /\ DurableAt(q)' /\ AnswerFits(q)'
  BY <1>1 DEF AnswerRight, DurableAt, AnswerFits
<1>4. Len(history') = 0
  BY <1>1
<1>5. EndsOnce' /\ Over(history)' /\ Over(db.history)'
  BY <1>1, <1>4 DEF LifeInv, EndsOnce, EndedOnce, Over
<1>6. AllBacked(activeClaims)' /\ AllBacked(db.active)' /\ GrantedIsDurable'
  BY <1>1 DEF LifeInv, AllBacked, Backed, GrantedIsDurable, Recorded
<1>. QED  BY <1>2, <1>3, <1>5, <1>6 DEF LifeInv

\* What is true of the rows is true of the memory that is made of them.
LEMMA RestartLife ==
  ASSUME TypeInv, SafeInv, LifeInv, Restart
  PROVE  LifeInv'
<1>1. /\ activeClaims' = db.active /\ ~up /\ up'
      /\ history' = trimHistory(db.history)
      /\ UNCHANGED <<db, issued, granted, pc, request, answer, todo>>
  BY DEF Restart, calls, ghosts
<1>2. history' = db.history
  BY <1>1, TrimIdle DEF TypeInv, TypeOK, DiskOK, Rows
<1>3. todo = {} /\ \A q \in Procs : pc'[q] = "idle"
  BY <1>1 DEF LifeInv, NothingDown, SafeInv, NoCallsDown
<1>4. RequestsMatch' /\ NothingDown'
  BY <1>1, <1>3 DEF RequestsMatch, NothingDown
<1>5. \A q \in Procs : AnswerRight(q)' /\ DurableAt(q)' /\ AnswerFits(q)'
  BY <1>3 DEF AnswerRight, DurableAt, AnswerFits
<1>6. EndsOnce' /\ Over(history)' /\ Over(db.history)'
  BY <1>1, <1>2 DEF LifeInv, EndsOnce, EndedOnce, Over
<1>7. AllBacked(activeClaims)' /\ AllBacked(db.active)' /\ GrantedIsDurable'
  BY <1>1 DEF LifeInv, AllBacked, GrantedIsDurable, Recorded
<1>. QED  BY <1>4, <1>5, <1>6, <1>7 DEF LifeInv

LEMMA LifeInit == Init => LifeInv
<1>. SUFFICES ASSUME Init PROVE LifeInv
  OBVIOUS
<1>1. /\ \A d \in ClaimIds : activeClaims[d] = NoClaim /\ db.active[d] = NoClaim
      /\ \A q \in Procs : pc[q] = "idle"
      /\ todo = {} /\ Len(history) = 0 /\ Len(db.history) = 0 /\ granted = {}
  BY DEF Init
<1>. QED
  BY <1>1 DEF LifeInv, RequestsMatch, NothingDown, AnswerRight, DurableAt, AnswerFits, EndsOnce,
              EndedOnce, Over, AllBacked, Backed, GrantedIsDurable

LEMMA LifeNext == TypeInv /\ SafeInv /\ LifeInv /\ [Next]_vars => LifeInv'
<1>. SUFFICES ASSUME TypeInv, SafeInv, LifeInv, [Next]_vars PROVE LifeInv'
  OBVIOUS
<1>1. CASE UNCHANGED vars
  <2>1. UNCHANGED <<activeClaims, issueToClaimId, history, issued, granted, up, db,
                    pc, answer, request, todo>>
    BY <1>1 DEF vars, memory, calls, disk, world, ghosts
  <2>2. RequestsMatch'
    BY <2>1 DEF LifeInv, RequestsMatch, OnIssue
  <2>3. up \/ todo' = {}
    BY <2>1 DEF LifeInv, NothingDown
  <2>. QED  BY <2>1, <2>2, <2>3, QuietLife
<1>2. CASE Next
  BY <1>2, AgentLife, SyncLife, TickLife, CrashLife, RestartLife DEF Next, WorldStep
<1>. QED  BY <1>1, <1>2

\* The strengthened invariant holds in every behaviour.
THEOREM LifeTheorem == Spec => []LifeInv
<1>. QED  BY LifeInit, LifeNext, TypeTheorem, SafeTheorem, PTL DEF Spec

-----------------------------------------------------------------------------
(* The properties                                                          *)

\* What a claim or an update decided is still so when its caller is answered:
\* the lock is held until then, and nobody else can have changed the claim.
THEOREM AnswersHoldTrue == Spec => []AnswersHold
<1>1. LifeInv => AnswersHold
  BY DEF LifeInv, AnswerRight, AnswersHold
<1>. QED  BY <1>1, LifeTheorem, PTL

\* A change that is reported as done is on disk when it is reported.
THEOREM DurableAnswers == Spec => []ChangesAreDurable
<1>1. LifeInv => ChangesAreDurable
  BY DEF LifeInv, DurableAt, Subject, ChangesAreDurable
<1>. QED  BY <1>1, LifeTheorem, PTL

\* What an agent was told it got is not lost by failed writes, crashes and
\* restarts, until the history is full.
THEOREM GrantsLast == Spec => []GrantedIsDurable
<1>1. LifeInv => GrantedIsDurable
  BY DEF LifeInv
<1>. QED  BY <1>1, LifeTheorem, PTL

\* No claim ends twice, and none that ended is active.
THEOREM EndsOnceOnly == Spec => []EndsOnce
<1>1. LifeInv => EndsOnce
  BY DEF LifeInv
<1>. QED  BY <1>1, LifeTheorem, PTL

\* A step that ends a claim while the process runs is the body of a call that
\* may end it.
RightEnd ==
  \A id \in ClaimIds :
    activeClaims[id] # NoClaim /\ activeClaims'[id] = NoClaim /\ up' =>
      \E p \in Procs : MayEnd(id, activeClaims[id], p)

LEMMA RightEndStep == TypeInv /\ SafeInv /\ LifeInv /\ [Next]_vars => RightEnd
<1>. SUFFICES ASSUME TypeInv, SafeInv, LifeInv, [Next]_vars PROVE RightEnd
  OBVIOUS
<1>1. ASSUME NEW p \in Procs, Run(p)
      PROVE  RightEnd
  BY <1>1, BodyOf DEF EndsByRight, RightEnd
<1>2. CASE activeClaims' = activeClaims
  BY <1>2 DEF RightEnd
<1>3. CASE Tick
  <2>1. activeClaims \in [ClaimIds -> Claim \cup {NoClaim}]
    BY DEF TypeInv, TypeOK, MemoryOK
  <2>. QED  BY <1>3, <2>1, AgedKeeps DEF Tick, RightEnd
<1>4. CASE Crash
  BY <1>4 DEF Crash, RightEnd
<1>5. CASE Restart
  BY <1>5 DEF Restart, LifeInv, NothingDown, RightEnd
<1>6. ASSUME NEW t \in Tasks, AgentStep(t)
      PROVE  RightEnd
  BY <1>1, <1>2, <1>6
     DEF AgentStep, InvokeClaim, InvokeRelease, InvokeUpdate, withIssueLock, Finish, memory
<1>7. CASE SyncStep
  <2>1. Syncer \in Procs
    OBVIOUS
  <2>. QED  BY <1>1, <1>2, <1>7, <2>1
               DEF SyncStep, StartSweep, SweepNext, InvokeReconcile, withIssueLock,
                   setLastGithubSyncAt, Finish, memory
<1>8. CASE UNCHANGED vars
  BY <1>2, <1>8 DEF vars, memory
<1>. QED  BY <1>3, <1>4, <1>5, <1>6, <1>7, <1>8 DEF Next, WorldStep

\* While the process runs, a claim stops being active only by its own agent,
\* by its issue's closing, or in a sweep that finds it stale for long enough.
THEOREM EndsByRightOnly == Spec => EndsRightly
<1>1. Spec => [][RightEnd]_vars
  BY RightEndStep, TypeTheorem, SafeTheorem, LifeTheorem, PTL DEF Spec
<1>. QED  BY <1>1, PTL DEF EndsRightly, RightEnd

\* The step that closes an agent's claim is the body of its update.
BackedClosing == \A t \in Tasks : ClosesWithPr(t)

LEMMA ClosingStep == TypeInv /\ SafeInv /\ LifeInv /\ [Next]_vars => BackedClosing
<1>. SUFFICES ASSUME TypeInv, SafeInv, LifeInv, [Next]_vars PROVE BackedClosing
  OBVIOUS
<1>0. DOMAIN pc = Procs
  BY DEF TypeInv, TypeOK, CallsOK
<1>1. ASSUME NEW p \in Procs, Run(p)
      PROVE  BackedClosing
  <2>. SUFFICES ASSUME NEW t \in Tasks, Decides(t), request[t].op = "update",
                       request[t].to = "closed"
                PROVE  ClosesWithPr(t)
    BY DEF BackedClosing, ClosesWithPr
  <2>1. HasLock(p) /\ BodyFrame(p) /\ EndsByRight(p)
    BY <1>1, BodyOf
  <2>2. t = p
    BY <2>1 DEF BodyFrame, Decides
  <2>3. request[t].claim_id \in ClaimIds
    BY <2>1, <2>2, RequestKinds DEF UpdateRequest
  <2>. QED  BY <2>1, <2>2, <2>3 DEF EndsByRight, ClosesWithPr
<1>2. ASSUME \A t \in Tasks : ~Decides(t)
      PROVE  BackedClosing
  BY <1>2 DEF BackedClosing, ClosesWithPr
<1>3. ASSUME NEW p \in Procs, NEW x \in {"idle", "waiting", "sweeping"},
             pc' = [pc EXCEPT ![p] = x]
      PROVE  BackedClosing
  BY <1>0, <1>2, <1>3 DEF Decides
<1>4. ASSUME NEW p \in Procs, Finish(p)
      PROVE  BackedClosing
  BY <1>3, <1>4 DEF Finish
<1>5. ASSUME NEW t \in Tasks, AgentStep(t)
      PROVE  BackedClosing
  BY <1>1, <1>3, <1>4, <1>5
     DEF AgentStep, InvokeClaim, InvokeRelease, InvokeUpdate, withIssueLock
<1>6. CASE pc' = pc
  BY <1>2, <1>6 DEF Decides
<1>7. CASE SyncStep
  BY <1>1, <1>3, <1>4, <1>6, <1>7
     DEF SyncStep, StartSweep, SweepNext, InvokeReconcile, withIssueLock, setLastGithubSyncAt, calls
<1>8. CASE WorldStep
  BY <1>2, <1>6, <1>8 DEF WorldStep, Tick, Crash, Restart, calls, Decides
<1>9. CASE UNCHANGED vars
  BY <1>6, <1>9 DEF vars, calls
<1>. QED  BY <1>5, <1>7, <1>8, <1>9 DEF Next

\* No claim is past its pull request's submission without a URL, and no agent
\* closes one without, by whatever way the claim came to be pr_merged.
THEOREM PrsBacked == Spec => PrBacked
<1>1. LifeInv => PrOnRecord
  BY DEF LifeInv, AllBacked, Backed, PrOnRecord, Live
<1>2. Spec => []PrOnRecord
  BY <1>1, LifeTheorem, PTL
<1>3. Spec => [][BackedClosing]_vars
  BY ClosingStep, TypeTheorem, SafeTheorem, LifeTheorem, PTL DEF Spec
<1>. QED  BY <1>2, <1>3, PTL DEF PrBacked, BackedClosing

-----------------------------------------------------------------------------
(* Who holds and awaits the locks                                          *)

\* Nobody leaves or joins a queue, and who is in one stays on its issue.
LEMMA LocksKept ==
  ASSUME CallsOK, LocksHaveOwners, lockQueues' = lockQueues,
         \A q \in Procs : pc[q] \in {"waiting", "done"} =>
           pc'[q] \in {"waiting", "done"} /\ request'[q].issue = request[q].issue
  PROVE  LocksHaveOwners'
<1>1. \A i \in Issues : \A n \in 1..Len(lockQueues[i]) : lockQueues[i][n] \in Procs
  BY DEF CallsOK
<1>. QED  BY <1>1 DEF LocksHaveOwners

\* A call that was in no queue goes to the end of one.
LEMMA LocksJoined ==
  ASSUME CallsOK, LocksHaveOwners, NEW p \in Procs, pc[p] \in {"idle", "sweeping"},
         NEW r, withIssueLock(p, r)
  PROVE  LocksHaveOwners'
<1>1. /\ lockQueues' = [lockQueues EXCEPT ![r.issue] = Append(@, p)]
      /\ pc'[p] = "waiting" /\ request'[p] = r
      /\ \A q \in Procs \ {p} : pc'[q] = pc[q] /\ request'[q] = request[q]
  BY DEF withIssueLock, CallsOK
<1>2. SUFFICES ASSUME NEW i \in Issues, NEW n \in 1..Len(lockQueues'[i])
               PROVE  /\ pc'[lockQueues'[i][n]] \in {"waiting", "done"}
                      /\ request'[lockQueues'[i][n]].issue = i
                      /\ \A m \in 1..Len(lockQueues'[i]) :
                           lockQueues'[i][m] = lockQueues'[i][n] => m = n
  BY DEF LocksHaveOwners
<1>. DEFINE s == lockQueues[i]
<1>3. /\ s \in Seq(Procs) /\ Len(s) \in Nat
      /\ \A m \in 1..Len(s) : /\ s[m] \in Procs \ {p}
                              /\ pc[s[m]] \in {"waiting", "done"} /\ request[s[m]].issue = i
                              /\ \A k \in 1..Len(s) : s[k] = s[m] => k = m
  BY LenProperties DEF CallsOK, LocksHaveOwners
<1>4. \A m \in 1..Len(s) : pc'[s[m]] \in {"waiting", "done"} /\ request'[s[m]].issue = i
  BY <1>1, <1>3
<1>5. CASE i # r.issue
  <2>1. lockQueues'[i] = s
    BY <1>1, <1>5 DEF CallsOK
  <2>. QED  BY <1>3, <1>4, <2>1
<1>6. CASE i = r.issue
  <2>1. lockQueues'[i] = Append(s, p)
    BY <1>1, <1>6 DEF CallsOK
  <2>2. /\ Len(Append(s, p)) = Len(s) + 1 /\ Append(s, p)[Len(s) + 1] = p
        /\ \A m \in 1..Len(s) : Append(s, p)[m] = s[m]
    BY <1>3, AppendProperties
  <2>3. \A m \in 1..Len(Append(s, p)) : m \in 1..Len(s) \/ m = Len(s) + 1
    BY <1>3, <2>2
  <2>4. \A m, k \in 1..Len(Append(s, p)) : Append(s, p)[m] = Append(s, p)[k] => m = k
    BY <1>3, <2>2, <2>3
  <2>5. \A m \in 1..Len(Append(s, p)) :
          /\ pc'[Append(s, p)[m]] \in {"waiting", "done"}
          /\ request'[Append(s, p)[m]].issue = i
    BY <1>1, <1>4, <1>6, <2>2, <2>3
  <2>. QED  BY <2>1, <2>4, <2>5
<1>. QED  BY <1>5, <1>6

\* A call that leaves was at the head of its queue and nowhere else.
LEMMA LocksLeft ==
  ASSUME CallsOK, QueuesOK, LocksHaveOwners, NEW p \in Procs, Finish(p)
  PROVE  LocksHaveOwners'
<1>1. /\ lockQueues' = [lockQueues EXCEPT ![request[p].issue] = Tail(@)]
      /\ \A q \in Procs \ {p} : pc'[q] = pc[q] /\ request'[q] = request[q]
      /\ pc[p] = "done" /\ request[p].issue \in Issues /\ lockQueues[request[p].issue][1] = p
      /\ \E n \in 1..Len(lockQueues[request[p].issue]) : lockQueues[request[p].issue][n] = p
  BY RequestIssue DEF Finish, CallsOK, QueuesOK
<1>2. SUFFICES ASSUME NEW i \in Issues, NEW n \in 1..Len(lockQueues'[i])
               PROVE  /\ pc'[lockQueues'[i][n]] \in {"waiting", "done"}
                      /\ request'[lockQueues'[i][n]].issue = i
                      /\ \A m \in 1..Len(lockQueues'[i]) :
                           lockQueues'[i][m] = lockQueues'[i][n] => m = n
  BY DEF LocksHaveOwners
<1>. DEFINE s == lockQueues[i]
<1>3. /\ s \in Seq(Procs) /\ Len(s) \in Nat
      /\ \A m \in 1..Len(s) : /\ s[m] \in Procs
                              /\ pc[s[m]] \in {"waiting", "done"} /\ request[s[m]].issue = i
                              /\ \A k \in 1..Len(s) : s[k] = s[m] => k = m
  BY LenProperties DEF CallsOK, LocksHaveOwners
<1>4. CASE i # request[p].issue
  <2>1. lockQueues'[i] = s
    BY <1>1, <1>4 DEF CallsOK
  <2>2. \A m \in 1..Len(s) : s[m] # p
    BY <1>3, <1>4
  <2>. QED  BY <1>1, <1>3, <2>1, <2>2
<1>5. CASE i = request[p].issue
  <2>1. lockQueues'[i] = Tail(s)
    BY <1>1, <1>5 DEF CallsOK
  <2>2. s # <<>> /\ s[1] = p
    BY <1>1, <1>3, <1>5, EmptySeq
  <2>3. /\ Len(Tail(s)) = Len(s) - 1
        /\ \A m \in 1..Len(Tail(s)) : Tail(s)[m] = s[m + 1]
    BY <1>3, <2>2, HeadTailProperties
  <2>4. \A m \in 1..Len(Tail(s)) : m + 1 \in 1..Len(s) /\ 1 \in 1..Len(s) /\ m + 1 # 1
    BY <1>3, <2>3
  <2>5. \A m \in 1..Len(Tail(s)) : Tail(s)[m] \in Procs \ {p}
    BY <1>3, <2>2, <2>3, <2>4
  <2>6. \A m \in 1..Len(Tail(s)) :
          pc'[Tail(s)[m]] \in {"waiting", "done"} /\ request'[Tail(s)[m]].issue = i
    BY <1>1, <1>3, <2>3, <2>4, <2>5
  <2>7. \A m, k \in 1..Len(Tail(s)) : Tail(s)[m] = Tail(s)[k] => m = k
    <3>1. TAKE m, k \in 1..Len(Tail(s))
    <3>2. Tail(s)[m] = Tail(s)[k] => m + 1 = k + 1
      BY <1>3, <2>3, <2>4
    <3>. QED  BY <1>3, <3>2
  <2>. QED  BY <2>1, <2>6, <2>7
<1>. QED  BY <1>4, <1>5

LEMMA LocksNext ==
  ASSUME TypeInv, SafeInv, LifeInv, LocksHaveOwners, [Next]_vars
  PROVE  LocksHaveOwners'
<1>0. CallsOK /\ QueuesOK
  BY DEF TypeInv, TypeOK
<1>1. ASSUME NEW p \in Procs, Run(p)
      PROVE  LocksHaveOwners'
  <2>1. BodyFrame(p)
    BY <1>1, BodyOf
  <2>2. lockQueues' = lockQueues
    BY <1>1 DEF Run, RunSweep, RunReconcile, RunClaim, RunUpdate
  <2>. QED  BY <1>0, <2>1, <2>2, LocksKept DEF BodyFrame
<1>2. CASE UNCHANGED calls
  BY <1>0, <1>2, LocksKept DEF calls
<1>3. CASE Crash
  BY <1>3 DEF Crash, LocksHaveOwners
<1>4. ASSUME NEW t \in Tasks, AgentStep(t)
      PROVE  LocksHaveOwners'
  <2>1. CASE Run(t)
    BY <1>1, <2>1
  <2>2. CASE Finish(t)
    BY <1>0, <2>2, LocksLeft
  <2>3. ASSUME NEW r, withIssueLock(t, r), pc[t] = "idle"
        PROVE  LocksHaveOwners'
    BY <1>0, <2>3, LocksJoined
  <2>. QED  BY <1>4, <2>1, <2>2, <2>3 DEF AgentStep, InvokeClaim, InvokeRelease, InvokeUpdate
<1>5. CASE SyncStep
  <2>0. Syncer \in Procs
    OBVIOUS
  <2>1. CASE Run(Syncer)
    BY <1>1, <2>0, <2>1
  <2>2. CASE Finish(Syncer)
    BY <1>0, <2>0, <2>2, LocksLeft
  <2>3. ASSUME NEW r, withIssueLock(Syncer, r), pc[Syncer] \in {"idle", "sweeping"}
        PROVE  LocksHaveOwners'
    BY <1>0, <2>0, <2>3, LocksJoined
  <2>4. CASE StartSweep
    <3>1. /\ UNCHANGED <<lockQueues, request>> /\ pc[Syncer] = "idle"
          /\ \A q \in Procs \ {Syncer} : pc'[q] = pc[q]
      BY <1>0, <2>4 DEF StartSweep, CallsOK
    <3>. QED  BY <1>0, <3>1, LocksKept
  <2>5. CASE setLastGithubSyncAt
    BY <1>2, <2>5 DEF setLastGithubSyncAt
  <2>. QED  BY <1>5, <2>1, <2>2, <2>3, <2>4, <2>5 DEF SyncStep, SweepNext, InvokeReconcile
<1>6. CASE Tick \/ Restart
  BY <1>2, <1>6 DEF Tick, Restart
<1>7. CASE UNCHANGED vars
  BY <1>2, <1>7 DEF vars
<1>. QED  BY <1>3, <1>4, <1>5, <1>6, <1>7 DEF Next, WorldStep

\* No lock is left with a call that is gone: whoever an issue's queue names is
\* under way on that issue and is named once, through exceptions, cut sweeps,
\* crashes and restarts (withIssueLock).
THEOREM LocksOwned == Spec => []LocksHaveOwners
<1>1. Init => LocksHaveOwners
  BY DEF Init, LocksHaveOwners
<1>2. TypeInv /\ SafeInv /\ LifeInv /\ LocksHaveOwners /\ [Next]_vars => LocksHaveOwners'
  BY LocksNext
<1>. QED  BY <1>1, <1>2, TypeTheorem, SafeTheorem, LifeTheorem, PTL DEF Spec

=============================================================================
