------------------------- MODULE ClaimManagerProofs -------------------------
(***************************************************************************)
(* The types of ClaimManager, its exclusivity, index and rows, and that it *)
(* implements ClaimRegistry, for every value of its constants.             *)
(*                                                                         *)
(* The types need one strengthening: Finish takes the tail of a queue, so  *)
(* a call under the lock must be known to stand at the queue's head, and a *)
(* waiting one to stand in it.                                             *)
(*                                                                         *)
(* Exclusivity, the index and the rows are not inductive one by one.       *)
(* Exclusivity needs the index to be complete (claimIssue looks at nothing *)
(* else); the index after a restart is rebuilt from the rows, so the rows  *)
(* must be exclusive; and the rows are exclusive because, but for the      *)
(* claims whose last write failed, they are what memory was (SafeInv).     *)
(*                                                                         *)
(* Without a failed write the rows never lag behind memory (Clean), so the *)
(* check claimIssue makes against memory is a check against the rows.      *)
(* Every step then does one of three things to the rows as the registry    *)
(* sees them: nothing, the end of one claim, or a grant.                   *)
(***************************************************************************)
EXTENDS ClaimRefinement, SequenceTheorems, FiniteSetTheorems, TLAPS

USE DEF Procs

-----------------------------------------------------------------------------
(* Pure parts                                                              *)

\* trimHistory keeps a history a history, of at most HistoryMax entries.
LEMMA TrimType ==
  ASSUME NEW h \in Seq(Entry)
  PROVE  trimHistory(h) \in Seq(Entry) /\ Len(trimHistory(h)) <= HistoryMax
<1>. DEFINE n == AtMost(HistoryMax, Len(h))
<1>1. n \in Nat /\ n <= Len(h) /\ n <= HistoryMax
  BY ConfigAssumption, LenProperties DEF AtMost
<1>2. \A i \in 1..n : h[i] \in Entry
  BY <1>1, ElementOfSeq, LenProperties
<1>3. SubSeq(h, 1, n) \in Seq(Entry) /\ Len(SubSeq(h, 1, n)) = n
  <2>1. Len(SubSeq(h, 1, n)) = IF 1 <= n THEN n - 1 + 1 ELSE 0
    BY <1>1, <1>2, SubSeqProperties
  <2>2. SubSeq(h, 1, n) \in Seq(Entry)
    BY <1>1, <1>2, SubSeqProperties
  <2>. QED  BY <1>1, <2>1, <2>2
<1>. QED  BY <1>1, <1>3 DEF trimHistory

\* A history with one more entry in front, trimmed, is a history.
LEMMA PushType ==
  ASSUME NEW h \in Seq(Entry), NEW e \in Entry
  PROVE  /\ trimHistory(<<e>> \o h) \in Seq(Entry)
         /\ Len(trimHistory(<<e>> \o h)) <= HistoryMax
<1>1. <<e>> \in Seq(Entry)
  OBVIOUS
<1>2. <<e>> \o h \in Seq(Entry)
  BY <1>1, ConcatProperties
<1>. QED  BY <1>2, TrimType

\* A history within its bound is not changed by trimming.
LEMMA TrimIdle ==
  ASSUME NEW h \in Seq(Entry), Len(h) <= HistoryMax
  PROVE  trimHistory(h) = h
<1>1. AtMost(HistoryMax, Len(h)) = Len(h)
  BY ConfigAssumption, LenProperties DEF AtMost
<1>. QED  BY <1>1, SubSeqFull DEF trimHistory

LEMMA OlderType ==
  ASSUME NEW c \in Claim
  PROVE  /\ Older(c) \in Claim
         /\ Older(c).issue = c.issue /\ Older(c).agent = c.agent
         /\ Older(c).status = c.status /\ Older(c).pr = c.pr
<1>1. PICK i \in 0..ClaimTimeout : i = AtMost(ClaimTimeout, c.idle + 1)
  BY ConfigAssumption DEF Claim, AtMost
<1>2. PICK s \in 0..StaleAutoRelease :
        s = IF c.status = "stale" THEN AtMost(StaleAutoRelease, c.staleFor + 1) ELSE 0
  BY ConfigAssumption DEF Claim, AtMost
<1>3. Older(c) = [c EXCEPT !.idle = i, !.staleFor = s]
  BY <1>1, <1>2 DEF Older
<1>. QED  BY <1>3 DEF Claim

LEMMA AgedType ==
  ASSUME NEW claims \in [ClaimIds -> Claim \cup {NoClaim}]
  PROVE  /\ Aged(claims) \in [ClaimIds -> Claim \cup {NoClaim}]
         /\ Live(Aged(claims)) = Live(claims)
         /\ \A id \in Live(claims) : Aged(claims)[id].issue = claims[id].issue
<1>1. \A id \in ClaimIds : claims[id] # NoClaim => Older(claims[id]) \in Claim
  BY OlderType
<1>. QED  BY <1>1, OlderType, SentinelAssumption DEF Aged, Live

\* A record moved to another active status is still a claim.
LEMMA MovedType ==
  ASSUME NEW c \in Claim, NEW to \in Active, NEW pr \in BOOLEAN
  PROVE  Moved(c, to, pr) \in Claim /\ Moved(c, to, pr).issue = c.issue
<1>1. PICK u \in BOOLEAN : u = (c.pr \/ pr)
  OBVIOUS
<1>2. Moved(c, to, pr) = [c EXCEPT !.status = to, !.pr = u, !.idle = 0, !.staleFor = 0]
  BY <1>1 DEF Moved
<1>3. 0 \in 0..ClaimTimeout /\ 0 \in 0..StaleAutoRelease
  BY ConfigAssumption
<1>. QED  BY <1>2, <1>3 DEF Claim

LEMMA EndEntryType ==
  ASSUME NEW id \in ClaimIds, NEW c \in Claim, NEW to \in Terminal, NEW pr \in BOOLEAN
  PROVE  EndEntry(id, c, to, pr) \in Entry
BY DEF Claim, Entry, EndEntry

LEMMA RefreshedType ==
  ASSUME NEW c \in Claim, NEW m \in Metas
  PROVE  Refreshed(c, m) \in Claim /\ Refreshed(c, m).issue = c.issue
<1>1. 0 \in 0..ClaimTimeout
  BY ConfigAssumption
<1>2. [c EXCEPT !.meta = m, !.idle = 0] \in Claim
  BY <1>1 DEF Claim
<1>3. [c EXCEPT !.meta = m, !.idle = 0].issue = c.issue
  BY DEF Claim
<1>. QED  BY <1>2, <1>3 DEF Refreshed

LEMMA NewClaimType ==
  ASSUME NEW r \in ClaimRequest
  PROVE  NewClaim(r) \in Claim /\ NewClaim(r).issue = r.issue
BY ConfigAssumption DEF ClaimRequest, Claim, NewClaim, Active

\* The rows stay rows under both kinds of transaction.
LEMMA RowPutType ==
  ASSUME NEW rows \in Rows, NEW id \in ClaimIds, NEW c \in Claim
  PROVE  /\ RowPut(rows, id, c) \in Rows
         /\ RowPut(rows, id, c).history = rows.history
         /\ RowPut(rows, id, c).total = rows.total
         /\ RowPut(rows, id, c).active = [rows.active EXCEPT ![id] = c]
BY DEF Rows, RowPut

LEMMA RowRetiredType ==
  ASSUME NEW rows \in Rows, NEW id \in ClaimIds, NEW e \in Entry
  PROVE  /\ RowRetired(rows, id, e) \in Rows
         /\ Len(RowRetired(rows, id, e).history) <= HistoryMax
         /\ RowRetired(rows, id, e).history = trimHistory(<<e>> \o rows.history)
         /\ RowRetired(rows, id, e).total = rows.total
         /\ RowRetired(rows, id, e).active = [rows.active EXCEPT ![id] = NoClaim]
BY PushType DEF Rows, RowRetired

-----------------------------------------------------------------------------
(* Calls and their locks                                                   *)

\* A call that waits stands in its issue's queue; one that is under the lock
\* stands at the head of it.
QueuesOK ==
  \A p \in Procs :
    pc[p] \in {"waiting", "done"} =>
      /\ request[p] \in Request
      /\ \E n \in 1..Len(lockQueues[request[p].issue]) : lockQueues[request[p].issue][n] = p
      /\ pc[p] = "done" => lockQueues[request[p].issue][1] = p

LEMMA RequestIssue == \A r \in Request : r.issue \in Issues
BY DEF Request, ClaimRequest, UpdateRequest, ReconcileRequest, SweepRequest

LEMMA EnqueueCalls ==
  ASSUME CallsOK, QueuesOK, NEW p \in Procs, pc[p] \in {"idle", "sweeping"},
         NEW r \in Request, withIssueLock(p, r),
         todo' \subseteq [claim_id : ClaimIds, issue : Issues]
  PROVE  CallsOK' /\ QueuesOK'
<1>. DEFINE i == r.issue
            s == lockQueues[i]
<1>1. i \in Issues /\ s \in Seq(Procs)
  BY RequestIssue DEF CallsOK
<1>2. /\ Append(s, p) \in Seq(Procs) /\ Len(Append(s, p)) = Len(s) + 1
      /\ Append(s, p)[Len(s) + 1] = p
      /\ \A n \in 1..Len(s) : Append(s, p)[n] = s[n]
  BY <1>1, AppendProperties
<1>3. Len(s) \in Nat
  BY <1>1, LenProperties
<1>4. /\ lockQueues' = [lockQueues EXCEPT ![i] = Append(s, p)]
      /\ pc' = [pc EXCEPT ![p] = "waiting"]
      /\ request' = [request EXCEPT ![p] = r]
      /\ answer' = answer
  BY DEF withIssueLock
<1>5. CallsOK'
  BY <1>1, <1>2, <1>4 DEF CallsOK
<1>6. ASSUME NEW q \in Procs, pc'[q] \in {"waiting", "done"}
      PROVE  /\ request'[q] \in Request
             /\ \E n \in 1..Len(lockQueues'[request'[q].issue]) :
                  lockQueues'[request'[q].issue][n] = q
             /\ pc'[q] = "done" => lockQueues'[request'[q].issue][1] = q
  <2>1. CASE q = p
    <3>1. request'[q] = r /\ pc'[q] = "waiting" /\ lockQueues'[i] = Append(s, p)
      BY <1>1, <1>4, <2>1 DEF CallsOK
    <3>2. Len(s) + 1 \in 1..Len(Append(s, p))
      BY <1>2, <1>3
    <3>. QED  BY <1>2, <2>1, <3>1, <3>2
  <2>2. CASE q # p
    <3>. DEFINE j == request[q].issue
    <3>1. request'[q] = request[q] /\ pc'[q] = pc[q]
      BY <1>4, <2>2 DEF CallsOK
    <3>2. request[q] \in Request /\ j \in Issues
      BY <1>6, <3>1, RequestIssue DEF QueuesOK
    <3>3. PICK n \in 1..Len(lockQueues[j]) : lockQueues[j][n] = q
      BY <1>6, <3>1 DEF QueuesOK
    <3>4. pc[q] = "done" => lockQueues[j][1] = q
      BY <1>6, <3>1 DEF QueuesOK
    <3>5. CASE j # i
      <4>1. lockQueues'[j] = lockQueues[j]
        BY <1>4, <3>2, <3>5 DEF CallsOK
      <4>. QED  BY <3>1, <3>2, <3>3, <3>4, <4>1
    <3>6. CASE j = i
      <4>1. lockQueues'[j] = Append(s, p)
        BY <1>1, <1>4, <3>6 DEF CallsOK
      <4>2. n \in 1..Len(s) /\ 1 \in 1..Len(s) /\ n \in 1..Len(Append(s, p))
        BY <1>2, <1>3, <3>3, <3>6
      <4>3. Append(s, p)[n] = q /\ (pc[q] = "done" => Append(s, p)[1] = q)
        BY <1>2, <3>3, <3>4, <3>6, <4>2
      <4>. QED  BY <3>1, <3>2, <4>1, <4>2, <4>3
    <3>. QED  BY <3>5, <3>6
  <2>. QED  BY <2>1, <2>2
<1>7. QueuesOK'
  BY <1>6 DEF QueuesOK
<1>. QED  BY <1>5, <1>7

\* A body that answers keeps its place at the head of the queue.
LEMMA RespondCalls ==
  ASSUME CallsOK, QueuesOK, NEW p \in Procs, HasLock(p), NEW a \in Answer, Respond(p, a),
         request' \in [Procs -> Request \cup {NoRequest}],
         \A q \in Procs : request[q] \in Request =>
           request'[q] \in Request /\ request'[q].issue = request[q].issue,
         UNCHANGED <<lockQueues, todo>>
  PROVE  CallsOK' /\ QueuesOK'
<1>1. CallsOK'
  BY DEF CallsOK, Respond
<1>2. ASSUME NEW q \in Procs, pc'[q] \in {"waiting", "done"}
      PROVE  /\ request'[q] \in Request
             /\ \E n \in 1..Len(lockQueues'[request'[q].issue]) :
                  lockQueues'[request'[q].issue][n] = q
             /\ pc'[q] = "done" => lockQueues'[request'[q].issue][1] = q
  <2>1. pc[q] \in {"waiting", "done"} /\ (q # p => pc'[q] = pc[q])
    BY <1>2 DEF CallsOK, Respond, HasLock
  <2>2. /\ request[q] \in Request
        /\ \E n \in 1..Len(lockQueues[request[q].issue]) : lockQueues[request[q].issue][n] = q
        /\ pc[q] = "done" => lockQueues[request[q].issue][1] = q
    BY <2>1 DEF QueuesOK
  <2>3. request'[q] \in Request /\ request'[q].issue = request[q].issue
    BY <2>2
  <2>4. q = p => lockQueues[request[q].issue][1] = q
    <3>1. request[q].issue \in Issues
      BY <2>2, RequestIssue
    <3>2. lockQueues[request[q].issue] \in Seq(Procs)
      BY <3>1 DEF CallsOK
    <3>3. lockQueues[request[q].issue] # <<>>
      BY <2>2, <3>2, EmptySeq
    <3>. QED  BY <3>2, <3>3 DEF HasLock
  <2>. QED  BY <2>1, <2>2, <2>3, <2>4
<1>. QED  BY <1>1, <1>2 DEF QueuesOK

\* Only one call per issue is under its lock, so a call that leaves takes no
\* other call's place.
LEMMA FinishCalls ==
  ASSUME CallsOK, QueuesOK, NEW p \in Procs, Finish(p)
  PROVE  CallsOK' /\ QueuesOK'
<1>. DEFINE i == request[p].issue
            s == lockQueues[i]
<1>1. /\ pc[p] = "done" /\ request[p] \in Request /\ i \in Issues
      /\ s \in Seq(Procs) /\ s # <<>> /\ s[1] = p
  <2>1. pc[p] = "done" /\ request[p] \in Request /\ i \in Issues /\ s[1] = p
    BY RequestIssue DEF Finish, QueuesOK
  <2>2. s \in Seq(Procs)
    BY <2>1 DEF CallsOK
  <2>3. s # <<>>
    BY <2>1, <2>2, EmptySeq DEF QueuesOK
  <2>. QED  BY <2>1, <2>2, <2>3
<1>2. /\ Tail(s) \in Seq(Procs) /\ Len(Tail(s)) = Len(s) - 1
      /\ \A n \in 1..Len(Tail(s)) : Tail(s)[n] = s[n + 1]
  BY <1>1, HeadTailProperties
<1>3. Len(s) \in Nat
  BY <1>1, LenProperties
<1>4. PICK next \in {"idle", "sweeping"} : pc' = [pc EXCEPT ![p] = next]
  BY DEF Finish
<1>5. /\ lockQueues' = [lockQueues EXCEPT ![i] = Tail(s)]
      /\ request' = [request EXCEPT ![p] = NoRequest]
      /\ answer' = [answer EXCEPT ![p] = "none"]
  BY DEF Finish
<1>6. todo' \subseteq [claim_id : ClaimIds, issue : Issues]
  BY DEF Finish, CallsOK
<1>7. CallsOK'
  BY <1>1, <1>2, <1>4, <1>5, <1>6 DEF CallsOK, Answer
<1>8. ASSUME NEW q \in Procs, pc'[q] \in {"waiting", "done"}
      PROVE  /\ request'[q] \in Request
             /\ \E n \in 1..Len(lockQueues'[request'[q].issue]) :
                  lockQueues'[request'[q].issue][n] = q
             /\ pc'[q] = "done" => lockQueues'[request'[q].issue][1] = q
  <2>. DEFINE j == request[q].issue
  <2>1. q # p /\ request'[q] = request[q] /\ pc'[q] = pc[q]
    BY <1>4, <1>5, <1>8 DEF CallsOK
  <2>2. request[q] \in Request /\ j \in Issues
    BY <1>8, <2>1, RequestIssue DEF QueuesOK
  <2>3. PICK n \in 1..Len(lockQueues[j]) : lockQueues[j][n] = q
    BY <1>8, <2>1 DEF QueuesOK
  <2>4. pc[q] = "done" => lockQueues[j][1] = q
    BY <1>8, <2>1 DEF QueuesOK
  <2>5. CASE j # i
    <3>1. lockQueues'[j] = lockQueues[j]
      BY <1>5, <2>2, <2>5 DEF CallsOK
    <3>. QED  BY <2>1, <2>2, <2>3, <2>4, <3>1
  <2>6. CASE j = i
    <3>1. lockQueues'[j] = Tail(s)
      BY <1>1, <1>5, <2>6 DEF CallsOK
    <3>2. n # 1 /\ pc[q] # "done"
      BY <1>1, <2>1, <2>3, <2>4, <2>6
    <3>3. n - 1 \in 1..Len(Tail(s)) /\ Tail(s)[n - 1] = s[(n - 1) + 1] /\ (n - 1) + 1 = n
      BY <1>2, <1>3, <2>3, <2>6, <3>2
    <3>4. Tail(s)[n - 1] = q
      BY <2>3, <2>6, <3>3
    <3>. QED  BY <2>1, <2>2, <3>1, <3>2, <3>3, <3>4
  <2>. QED  BY <2>5, <2>6
<1>9. QueuesOK'
  BY <1>8 DEF QueuesOK
<1>. QED  BY <1>7, <1>9

-----------------------------------------------------------------------------
(* The effect of the bodies on memory and rows                             *)

\* A transaction leaves the rows as they were before it or after it.
LEMMA TransactDisk ==
  ASSUME DiskOK, NEW p \in Procs, NEW id \in ClaimIds,
         NEW before \in Rows, Len(before.history) <= HistoryMax, before.total >= -1,
         NEW after \in Rows, Len(after.history) <= HistoryMax, after.total >= -1,
         NEW a \in Answer, Transact(p, id, before, after, a)
  PROVE  DiskOK' /\ \E b \in {a, "error"} : Respond(p, b)
<1>1. CASE db' = after /\ dirty' = dirty \ {id} /\ failures' = failures /\ Respond(p, a)
  BY <1>1 DEF DiskOK
<1>2. CASE /\ failures < MaxFailures /\ failures' = failures + 1
           /\ db' = before /\ dirty' = dirty \cup {id} /\ Respond(p, "error")
  BY <1>2, ConfigAssumption DEF DiskOK, Answer
<1>. QED  BY <1>1, <1>2 DEF Transact

LEMMA MoveType ==
  ASSUME MemoryOK, DiskOK, NEW p \in Procs, NEW id \in ClaimIds, NEW c \in Claim,
         NEW before \in Rows, Len(before.history) <= HistoryMax, before.total >= -1,
         NEW to \in Active, NEW pr \in BOOLEAN,
         MoveClaim(p, id, c, before, to, pr)
  PROVE  MemoryOK' /\ DiskOK' /\ \E b \in Answer \ {"granted"} : Respond(p, b)
<1>. DEFINE m == Moved(c, to, pr)
<1>1. m \in Claim
  BY MovedType
<1>2. MemoryOK'
  BY <1>1 DEF MemoryOK, MoveClaim
<1>3. /\ RowPut(before, id, m) \in Rows
      /\ RowPut(before, id, m).history = before.history
      /\ RowPut(before, id, m).total = before.total
  BY <1>1, RowPutType
<1>4. Transact(p, id, before, RowPut(before, id, m), "applied")
  BY DEF MoveClaim
<1>5. DiskOK' /\ \E b \in Answer \ {"granted"} : Respond(p, b)
  BY <1>3, <1>4, TransactDisk DEF Answer
<1>. QED  BY <1>2, <1>5

LEMMA EndType ==
  ASSUME MemoryOK, DiskOK, NEW p \in Procs, NEW id \in ClaimIds, NEW c \in Claim,
         NEW before \in Rows, Len(before.history) <= HistoryMax, before.total >= -1,
         NEW to \in Terminal, NEW pr \in BOOLEAN,
         EndClaim(p, id, c, before, to, pr)
  PROVE  MemoryOK' /\ DiskOK' /\ \E b \in Answer \ {"granted"} : Respond(p, b)
<1>. DEFINE e == EndEntry(id, c, to, pr)
<1>1. e \in Entry
  BY EndEntryType
<1>2. MemoryOK'
  BY <1>1, PushType DEF MemoryOK, EndClaim
<1>3. /\ RowRetired(before, id, e) \in Rows
      /\ Len(RowRetired(before, id, e).history) <= HistoryMax
      /\ RowRetired(before, id, e).total = before.total
  BY <1>1, RowRetiredType
<1>4. Transact(p, id, before, RowRetired(before, id, e), "applied")
  BY DEF EndClaim
<1>5. DiskOK' /\ \E b \in Answer \ {"granted"} : Respond(p, b)
  BY <1>3, <1>4, TransactDisk DEF Answer
<1>. QED  BY <1>2, <1>5

LEMMA TransitionType ==
  ASSUME MemoryOK, DiskOK, NEW p \in Procs, NEW id \in ClaimIds, NEW c \in Claim,
         NEW before \in Rows, Len(before.history) <= HistoryMax, before.total >= -1,
         NEW to \in Status, NEW pr \in BOOLEAN, NEW source,
         applyTransitionLocked(p, id, c, before, to, pr, source)
  PROVE  MemoryOK' /\ DiskOK' /\ \E b \in Answer \ {"granted"} : Respond(p, b)
<1>1. ASSUME NEW b \in {"same", "rejected"}, NothingDone(p, b)
      PROVE  MemoryOK' /\ DiskOK' /\ \E d \in Answer \ {"granted"} : Respond(p, d)
  <2>1. Respond(p, b) /\ b \in Answer \ {"granted"}
    BY <1>1 DEF NothingDone, Answer
  <2>2. MemoryOK' /\ DiskOK'
    BY <1>1 DEF NothingDone, MemoryOK, DiskOK, memory, disk
  <2>. QED  BY <2>1, <2>2
<1>2. CASE to \notin Terminal /\ MoveClaim(p, id, c, before, to, pr)
  BY <1>2, MoveType DEF Status
<1>3. CASE to \in Terminal /\ EndClaim(p, id, c, before, to, pr)
  BY <1>3, EndType
<1>. QED  BY <1>1, <1>2, <1>3 DEF applyTransitionLocked

-----------------------------------------------------------------------------
(* Type correctness                                                        *)

\* Only a call under its lock has an answer, and 'granted' names a claim.
GrantsOK ==
  \A p \in Procs :
    /\ pc[p] # "done" => answer[p] = "none"
    /\ answer[p] = "granted" => request[p].claim_id \in ClaimIds

TypeInv == TypeOK /\ QueuesOK /\ GrantsOK

\* A body that answers anything but 'granted' and leaves the request alone
\* keeps the invariant if it keeps the types of memory and disk.
LEMMA BodyType ==
  ASSUME TypeInv, NEW p \in Procs, HasLock(p), MemoryOK', DiskOK',
         \E b \in Answer \ {"granted"} : Respond(p, b),
         UNCHANGED <<lockQueues, request, todo, world, ghosts>>
  PROVE  TypeInv'
<1>1. PICK b \in Answer \ {"granted"} : Respond(p, b)
  OBVIOUS
<1>2. CallsOK' /\ QueuesOK'
  <2>1. request' \in [Procs -> Request \cup {NoRequest}] /\ request' = request
    BY DEF TypeInv, TypeOK, CallsOK
  <2>. QED  BY <1>1, <2>1, RespondCalls DEF TypeInv, TypeOK
<1>3. GrantsOK'
  BY <1>1 DEF TypeInv, TypeOK, CallsOK, GrantsOK, Respond, HasLock
<1>4. WorldOK'
  BY DEF TypeInv, TypeOK, WorldOK, world, ghosts
<1>. QED  BY <1>2, <1>3, <1>4 DEF TypeInv, TypeOK

\* What the request of a call under the lock is.
LEMMA RequestKinds ==
  ASSUME TypeInv, NEW p \in Procs, HasLock(p)
  PROVE  /\ request[p] \in Request
         /\ request[p].op = "claim" => request[p] \in ClaimRequest
         /\ request[p].op = "update" => request[p] \in UpdateRequest
         /\ request[p].op = "reconcile" => request[p] \in ReconcileRequest
         /\ request[p].op = "sweep" => request[p] \in SweepRequest
<1>1. request[p] \in Request
  BY DEF TypeInv, QueuesOK, HasLock
<1>. QED
  BY <1>1 DEF Request, ClaimRequest, UpdateRequest, ReconcileRequest, SweepRequest

LEMMA RunUpdateType ==
  ASSUME TypeInv, NEW t \in Tasks, RunUpdate(t)
  PROVE  TypeInv'
<1>. DEFINE r == request[t]
            c == activeClaims[r.claim_id]
<1>1. HasLock(t) /\ t \in Procs /\ r \in UpdateRequest
  BY RequestKinds DEF RunUpdate
<1>2. r.claim_id \in ClaimIds /\ r.to \in Status /\ r.pr \in BOOLEAN
  BY <1>1 DEF UpdateRequest
<1>3. MemoryOK /\ DiskOK
  BY DEF TypeInv, TypeOK
<1>4. MemoryOK' /\ DiskOK' /\ \E b \in Answer \ {"granted"} : Respond(t, b)
  <2>1. CASE NothingDone(t, "rejected")
    BY <1>3, <2>1 DEF NothingDone, MemoryOK, DiskOK, memory, disk, Answer
  <2>2. CASE OwnedBy(c, r.agent)
             /\ applyTransitionLocked(t, r.claim_id, c, db, r.to, r.pr, "agent")
    <3>1. c \in Claim
      BY <1>2, <1>3, <2>2 DEF OwnedBy, MemoryOK
    <3>2. db \in Rows /\ Len(db.history) <= HistoryMax /\ db.total >= -1
      BY <1>3 DEF DiskOK
    <3>. QED  BY <1>1, <1>2, <1>3, <2>2, <3>1, <3>2, TransitionType
  <2>. QED  BY <2>1, <2>2 DEF RunUpdate
<1>5. UNCHANGED <<lockQueues, request, todo, world, ghosts>>
  BY DEF RunUpdate
<1>. QED  BY <1>1, <1>4, <1>5, BodyType

LEMMA RunSweepType ==
  ASSUME TypeInv, RunSweep
  PROVE  TypeInv'
<1>. DEFINE id == request[Syncer].claim_id
            c  == activeClaims[id]
<1>1. HasLock(Syncer) /\ Syncer \in Procs /\ request[Syncer] \in SweepRequest
  BY RequestKinds DEF RunSweep
<1>2. id \in ClaimIds
  BY <1>1 DEF SweepRequest
<1>3. /\ MemoryOK /\ DiskOK
      /\ db \in Rows /\ Len(db.history) <= HistoryMax /\ db.total >= -1
  BY DEF TypeInv, TypeOK, DiskOK
<1>4. MemoryOK' /\ DiskOK' /\ \E b \in Answer \ {"granted"} : Respond(Syncer, b)
  <2>1. CASE NothingDone(Syncer, "same")
    BY <1>3, <2>1 DEF NothingDone, MemoryOK, DiskOK, memory, disk, Answer
  <2>2. ASSUME NEW to \in {"stale", "released"}, MarksStale(c) \/ ReleasesStale(c),
               applyTransitionLocked(Syncer, id, c, db, to, FALSE, "sync")
        PROVE  MemoryOK' /\ DiskOK' /\ \E b \in Answer \ {"granted"} : Respond(Syncer, b)
    <3>1. c \in Claim
      BY <1>2, <1>3, <2>2 DEF MarksStale, ReleasesStale, MemoryOK
    <3>2. to \in Status
      BY DEF Status, Active, Terminal
    <3>. QED  BY <1>1, <1>2, <1>3, <2>2, <3>1, <3>2, TransitionType
  <2>. QED  BY <2>1, <2>2 DEF RunSweep
<1>5. UNCHANGED <<lockQueues, request, todo, world, ghosts>>
  BY DEF RunSweep
<1>. QED  BY <1>1, <1>4, <1>5, BodyType

LEMMA RunReconcileType ==
  ASSUME TypeInv, RunReconcile
  PROVE  TypeInv'
<1>. DEFINE r  == request[Syncer]
            id == issueToClaimId[r.issue]
            c  == Holder(r.issue)
            refreshed == Refreshed(c, r.meta)
            written == IF refreshed = c THEN db ELSE RowPut(db, id, refreshed)
<1>1. HasLock(Syncer) /\ Syncer \in Procs /\ r \in ReconcileRequest
  BY RequestKinds DEF RunReconcile
<1>2. r.issue \in Issues /\ r.meta \in Metas
  BY <1>1 DEF ReconcileRequest
<1>3. /\ MemoryOK /\ DiskOK
      /\ db \in Rows /\ Len(db.history) <= HistoryMax /\ db.total >= -1
  BY DEF TypeInv, TypeOK, DiskOK
<1>4. ASSUME c # NoClaim
      PROVE  /\ id \in ClaimIds /\ c \in Claim /\ refreshed \in Claim
             /\ RowPut(db, id, refreshed) \in Rows
             /\ written \in Rows /\ Len(written.history) <= HistoryMax /\ written.total >= -1
  <2>1. id \in ClaimIds /\ c \in Claim
    BY <1>2, <1>3, <1>4 DEF Holder, MemoryOK
  <2>2. refreshed \in Claim
    BY <1>2, <2>1, RefreshedType
  <2>3. /\ RowPut(db, id, refreshed) \in Rows
        /\ RowPut(db, id, refreshed).history = db.history
        /\ RowPut(db, id, refreshed).total = db.total
    BY <1>3, <2>1, <2>2, RowPutType
  <2>. QED  BY <1>3, <2>1, <2>2, <2>3
<1>5. MemoryOK' /\ DiskOK' /\ \E b \in Answer \ {"granted"} : Respond(Syncer, b)
  <2>1. CASE /\ issueToClaimId' = [issueToClaimId EXCEPT ![r.issue] = NoId]
             /\ Respond(Syncer, "same")
             /\ UNCHANGED <<activeClaims, history, totalClaims, disk>>
    BY <1>3, <2>1 DEF MemoryOK, DiskOK, disk, Answer
  <2>2. CASE NothingDone(Syncer, "same")
    BY <1>3, <2>2 DEF NothingDone, MemoryOK, DiskOK, memory, disk, Answer
  <2>3. CASE /\ c # NoClaim
             /\ activeClaims' = [activeClaims EXCEPT ![id] = refreshed]
             /\ Transact(Syncer, id, db, written, "applied")
             /\ UNCHANGED <<issueToClaimId, history, totalClaims>>
    <3>1. DiskOK' /\ \E b \in {"applied", "error"} : Respond(Syncer, b)
      BY <1>1, <1>3, <1>4, <2>3, TransactDisk DEF Answer
    <3>2. MemoryOK'
      BY <1>3, <1>4, <2>3 DEF MemoryOK
    <3>. QED  BY <3>1, <3>2 DEF Answer
  <2>4. CASE /\ c # NoClaim
             /\ activeClaims' = [activeClaims EXCEPT ![id] = refreshed]
             /\ failures < MaxFailures /\ failures' = failures + 1
             /\ dirty' = dirty \cup {id}
             /\ Respond(Syncer, "error")
             /\ UNCHANGED <<issueToClaimId, history, totalClaims, db>>
    BY <1>3, <1>4, <2>4, ConfigAssumption DEF MemoryOK, DiskOK, Answer
  <2>5. CASE /\ c # NoClaim
             /\ applyTransitionLocked(Syncer, id, refreshed, written, "closed", FALSE, "sync")
    <3>1. "closed" \in Status
      BY DEF Status, Terminal
    <3>. QED  BY <1>1, <1>3, <1>4, <2>5, <3>1, TransitionType
  <2>. QED  BY <2>1, <2>2, <2>3, <2>4, <2>5 DEF RunReconcile
<1>6. UNCHANGED <<lockQueues, request, todo, world, ghosts>>
  BY DEF RunReconcile
<1>. QED  BY <1>1, <1>5, <1>6, BodyType

LEMMA RunClaimType ==
  ASSUME TypeInv, NEW t \in Tasks, RunClaim(t)
  PROVE  TypeInv'
<1>. DEFINE r == request[t]
<1>1. HasLock(t) /\ t \in Procs /\ r \in ClaimRequest /\ r \in Request
  BY RequestKinds DEF RunClaim
<1>2. r.issue \in Issues
  BY <1>1 DEF ClaimRequest
<1>3. /\ MemoryOK /\ DiskOK /\ CallsOK /\ QueuesOK /\ WorldOK /\ GrantsOK
      /\ db \in Rows /\ Len(db.history) <= HistoryMax /\ db.total >= -1
  BY DEF TypeInv, TypeOK, DiskOK
<1>4. \E a \in Answer, d \in ClaimIds \cup {NoId} :
        /\ Respond(t, a) /\ (a = "granted" => d \in ClaimIds)
        /\ request' = [request EXCEPT ![t].claim_id = d]
        /\ MemoryOK' /\ DiskOK' /\ issued' \subseteq ClaimIds
  <2>1. ASSUME NEW a \in {"confirmed", "taken"}, NothingDone(t, a),
               request' = [request EXCEPT ![t].claim_id = issueToClaimId[r.issue]],
               issued' = issued
        PROVE  <1>4
    <3>1. issueToClaimId[r.issue] \in ClaimIds \cup {NoId}
      BY <1>2, <1>3 DEF MemoryOK
    <3>2. MemoryOK' /\ DiskOK' /\ issued' \subseteq ClaimIds
      BY <1>3, <2>1 DEF NothingDone, MemoryOK, DiskOK, memory, disk, WorldOK
    <3>3. a \in Answer /\ a # "granted" /\ Respond(t, a)
      BY <2>1 DEF Answer, NothingDone
    <3>. QED  BY <2>1, <3>1, <3>2, <3>3
  <2>2. ASSUME NEW id \in ClaimIds \ issued, CreateClaim(t, id, r)
        PROVE  <1>4
    <3>. DEFINE n == NewClaim(r)
                after == [RowPut(db, id, n) EXCEPT !.total = totalClaims + 1]
    <3>1. n \in Claim
      BY <1>1, NewClaimType
    <3>2. RowPut(db, id, n) \in Rows /\ RowPut(db, id, n).history = db.history
      BY <1>3, <3>1, RowPutType
    <3>3. totalClaims + 1 \in Nat
      BY <1>3 DEF MemoryOK
    <3>4. after \in Rows /\ Len(after.history) <= HistoryMax /\ after.total >= -1
      <4>1. after \in Rows
        BY <3>2, <3>3 DEF Rows
      <4>2. after.history = db.history /\ after.total = totalClaims + 1
        BY <3>2 DEF Rows
      <4>. QED  BY <1>3, <3>3, <4>1, <4>2
    <3>5. DiskOK' /\ \E b \in {"granted", "error"} : Respond(t, b)
      BY <1>1, <1>3, <2>2, <3>4, TransactDisk DEF CreateClaim, Answer
    <3>6. MemoryOK'
      BY <1>2, <1>3, <2>2, <3>1, <3>3 DEF MemoryOK, CreateClaim
    <3>7. issued' \subseteq ClaimIds /\ request' = [request EXCEPT ![t].claim_id = id]
      BY <1>3, <2>2 DEF WorldOK, CreateClaim
    <3>. QED  BY <3>5, <3>6, <3>7 DEF Answer
  <2>. QED  BY <2>1, <2>2 DEF RunClaim
<1>5. PICK a \in Answer, d \in ClaimIds \cup {NoId} :
        /\ Respond(t, a) /\ (a = "granted" => d \in ClaimIds)
        /\ request' = [request EXCEPT ![t].claim_id = d]
        /\ MemoryOK' /\ DiskOK' /\ issued' \subseteq ClaimIds
  BY <1>4
<1>6. [r EXCEPT !.claim_id = d] \in ClaimRequest
  BY <1>1 DEF ClaimRequest
<1>7. /\ request' = [request EXCEPT ![t] = [r EXCEPT !.claim_id = d]]
      /\ [r EXCEPT !.claim_id = d] \in Request
      /\ [r EXCEPT !.claim_id = d].issue = r.issue
      /\ [r EXCEPT !.claim_id = d].claim_id = d
  BY <1>1, <1>5, <1>6 DEF ClaimRequest, Request
<1>8. UNCHANGED <<lockQueues, todo>>
  BY DEF RunClaim
<1>9. CallsOK' /\ QueuesOK'
  <2>1. request' \in [Procs -> Request \cup {NoRequest}]
    BY <1>3, <1>7 DEF CallsOK
  <2>2. \A q \in Procs : request[q] \in Request =>
          request'[q] \in Request /\ request'[q].issue = request[q].issue
    BY <1>3, <1>7 DEF CallsOK
  <2>. QED  BY <1>1, <1>3, <1>5, <1>8, <2>1, <2>2, RespondCalls
<1>10. GrantsOK'
  <2>1. request'[t].claim_id = d
    BY <1>1, <1>3, <1>7 DEF CallsOK
  <2>2. \A q \in Procs \ {t} : /\ pc'[q] = pc[q] /\ answer'[q] = answer[q]
                               /\ request'[q] = request[q]
    BY <1>3, <1>5, <1>7 DEF CallsOK, Respond
  <2>3. pc'[t] = "done" /\ answer'[t] = a
    BY <1>1, <1>3, <1>5 DEF CallsOK, Respond
  <2>. QED  BY <1>3, <1>5, <2>1, <2>2, <2>3 DEF GrantsOK
<1>11. WorldOK'
  BY <1>3, <1>5 DEF RunClaim, WorldOK, world
<1>. QED  BY <1>5, <1>9, <1>10, <1>11 DEF TypeInv, TypeOK

LEMMA EnqueueType ==
  ASSUME TypeInv, NEW p \in Procs, pc[p] \in {"idle", "sweeping"},
         NEW r \in Request, withIssueLock(p, r), todo' \subseteq todo
  PROVE  TypeInv'
<1>1. /\ MemoryOK /\ DiskOK /\ CallsOK /\ QueuesOK /\ WorldOK /\ GrantsOK
  BY DEF TypeInv, TypeOK
<1>2. todo' \subseteq [claim_id : ClaimIds, issue : Issues]
  BY <1>1 DEF CallsOK
<1>3. CallsOK' /\ QueuesOK'
  BY <1>1, <1>2, EnqueueCalls
<1>4. UNCHANGED <<memory, answer, disk, world, ghosts>>
  BY DEF withIssueLock
<1>5. MemoryOK' /\ DiskOK' /\ WorldOK'
  BY <1>1, <1>4 DEF MemoryOK, DiskOK, WorldOK, memory, disk, world, ghosts
<1>6. GrantsOK'
  <2>1. pc[p] # "done" /\ answer[p] = "none"
    BY <1>1 DEF GrantsOK
  <2>2. \A q \in Procs \ {p} : pc'[q] = pc[q] /\ request'[q] = request[q]
    BY <1>1 DEF withIssueLock, CallsOK
  <2>. QED  BY <1>1, <1>4, <2>1, <2>2 DEF GrantsOK
<1>. QED  BY <1>3, <1>5, <1>6 DEF TypeInv, TypeOK

LEMMA FinishRest ==
  ASSUME TypeInv, NEW p \in Procs, Finish(p), CallsOK', QueuesOK'
  PROVE  TypeInv'
<1>1. /\ MemoryOK /\ DiskOK /\ CallsOK /\ WorldOK /\ GrantsOK
  BY DEF TypeInv, TypeOK
<1>2. MemoryOK' /\ DiskOK'
  BY <1>1 DEF Finish, MemoryOK, DiskOK, memory, disk
<1>3. WorldOK'
  <2>1. granted' \subseteq ClaimIds
    BY <1>1 DEF Finish, GrantsOK, WorldOK
  <2>. QED  BY <1>1, <2>1 DEF Finish, WorldOK, world
<1>4. GrantsOK'
  BY <1>1 DEF Finish, GrantsOK, CallsOK
<1>. QED  BY <1>2, <1>3, <1>4 DEF TypeInv, TypeOK

LEMMA InvokeUpdateType ==
  ASSUME TypeInv, NEW t \in Tasks, NEW a \in Agents, NEW id \in ClaimIds,
         NEW u \in [to : Status, pr : BOOLEAN], InvokeUpdate(t, a, id, u)
  PROVE  TypeInv'
<1>. DEFINE r == [op |-> "update", issue |-> activeClaims[id].issue, agent |-> a,
                  claim_id |-> id, to |-> u.to, pr |-> u.pr]
<1>1. activeClaims[id] \in Claim
  BY DEF InvokeUpdate, TypeInv, TypeOK, MemoryOK
<1>2. r \in Request
  BY <1>1 DEF Claim, Request, UpdateRequest
<1>. QED  BY <1>2, EnqueueType DEF InvokeUpdate

LEMMA AgentType ==
  ASSUME TypeInv, NEW t \in Tasks, AgentStep(t)
  PROVE  TypeInv'
<1>1. ASSUME NEW a \in Agents, NEW i \in Issues, NEW m \in Metas, InvokeClaim(t, a, i, m)
      PROVE  TypeInv'
  <2>. DEFINE r == [op |-> "claim", issue |-> i, agent |-> a, meta |-> m, claim_id |-> NoId]
  <2>1. r \in Request
    BY DEF Request, ClaimRequest
  <2>. QED  BY <1>1, <2>1, EnqueueType DEF InvokeClaim
<1>2. ASSUME NEW a \in Agents, NEW id \in ClaimIds, InvokeRelease(t, a, id)
      PROVE  TypeInv'
  <2>1. [to |-> "released", pr |-> FALSE] \in [to : Status, pr : BOOLEAN]
    BY DEF Status, Terminal
  <2>. QED  BY <1>2, <2>1, InvokeUpdateType DEF InvokeRelease
<1>3. ASSUME NEW a \in Agents, NEW id \in ClaimIds, NEW u \in AgentUpdates,
             InvokeUpdate(t, a, id, u)
      PROVE  TypeInv'
  BY <1>3, InputAssumption, InvokeUpdateType
<1>4. CASE RunClaim(t)
  BY <1>4, RunClaimType
<1>5. CASE RunUpdate(t)
  BY <1>5, RunUpdateType
<1>6. CASE Finish(t)
  <2>1. /\ CallsOK' /\ QueuesOK'
    BY <1>6, FinishCalls DEF TypeInv, TypeOK
  <2>2. t \in Procs
    OBVIOUS
  <2>. QED  BY <1>6, <2>1, <2>2, FinishRest
<1>7. Run(t) => RunClaim(t) \/ RunUpdate(t)
  BY SentinelAssumption DEF Run
<1>. QED  BY <1>1, <1>2, <1>3, <1>4, <1>5, <1>6, <1>7 DEF AgentStep

LEMMA SyncType ==
  ASSUME TypeInv, SyncStep
  PROVE  TypeInv'
<1>0. /\ MemoryOK /\ DiskOK /\ CallsOK /\ QueuesOK /\ WorldOK /\ GrantsOK
      /\ Syncer \in Procs
  BY DEF TypeInv, TypeOK
<1>1. CASE StartSweep
  <2>1. todo' \subseteq [claim_id : ClaimIds, issue : Issues]
    <3>1. \A id \in Live(activeClaims) : id \in ClaimIds /\ activeClaims[id].issue \in Issues
      BY <1>0 DEF Live, MemoryOK, Claim
    <3>. QED  BY <1>1, <3>1 DEF StartSweep
  <2>2. CallsOK'
    BY <1>0, <1>1, <2>1 DEF StartSweep, CallsOK
  <2>3. MemoryOK' /\ DiskOK' /\ WorldOK'
    BY <1>0, <1>1 DEF StartSweep, MemoryOK, DiskOK, WorldOK, memory, disk, world, ghosts
  <2>4. QueuesOK' /\ GrantsOK'
    BY <1>0, <1>1 DEF StartSweep, CallsOK, QueuesOK, GrantsOK
  <2>. QED  BY <2>2, <2>3, <2>4 DEF TypeInv, TypeOK
<1>2. CASE SweepNext
  <2>1. PICK x \in todo :
          /\ todo' = todo \ {x}
          /\ withIssueLock(Syncer, [op |-> "sweep", issue |-> x.issue, claim_id |-> x.claim_id])
    BY <1>2 DEF SweepNext
  <2>2. [op |-> "sweep", issue |-> x.issue, claim_id |-> x.claim_id] \in Request
    BY <1>0 DEF CallsOK, Request, SweepRequest
  <2>3. pc[Syncer] \in {"idle", "sweeping"} /\ todo' \subseteq todo
    BY <1>2, <2>1 DEF SweepNext
  <2>. QED  BY <1>0, <2>1, <2>2, <2>3, EnqueueType
<1>3. ASSUME NEW i \in Issues, NEW m \in Metas, NEW closed \in BOOLEAN,
             InvokeReconcile(i, m, closed)
      PROVE  TypeInv'
  <2>. DEFINE r == [op |-> "reconcile", issue |-> i, meta |-> m, closed |-> closed]
  <2>1. r \in Request
    BY DEF Request, ReconcileRequest
  <2>. QED  BY <1>0, <1>3, <2>1, EnqueueType DEF InvokeReconcile
<1>4. CASE setLastGithubSyncAt
  <2>1. DiskOK'
    <3>1. totalClaims \in Nat /\ db \in Rows
      BY <1>0 DEF MemoryOK, DiskOK
    <3>2. /\ [db EXCEPT !.total = totalClaims] \in Rows
          /\ [db EXCEPT !.total = totalClaims].history = db.history
          /\ [db EXCEPT !.total = totalClaims].total = totalClaims
      BY <3>1 DEF Rows
    <3>3. failures' \in 0..MaxFailures /\ dirty' = dirty
      BY <1>0, <1>4, ConfigAssumption DEF setLastGithubSyncAt, DiskOK
    <3>4. db' = db \/ db' = [db EXCEPT !.total = totalClaims]
      BY <1>4 DEF setLastGithubSyncAt
    <3>5. DiskOK /\ totalClaims >= -1
      BY <1>0, <3>1
    <3>6. db' \in Rows /\ db'.history = db.history /\ db'.total >= -1
      BY <3>1, <3>2, <3>4, <3>5 DEF DiskOK
    <3>. QED  BY <3>3, <3>5, <3>6 DEF DiskOK
  <2>2. MemoryOK' /\ CallsOK' /\ WorldOK'
    BY <1>0, <1>4
    DEF setLastGithubSyncAt, MemoryOK, CallsOK, WorldOK, memory, calls, world, ghosts
  <2>3. QueuesOK' /\ GrantsOK'
    BY <1>0, <1>4 DEF setLastGithubSyncAt, calls, QueuesOK, GrantsOK
  <2>. QED  BY <2>1, <2>2, <2>3 DEF TypeInv, TypeOK
<1>5. CASE RunSweep
  BY <1>5, RunSweepType
<1>6. CASE RunReconcile
  BY <1>6, RunReconcileType
<1>7. CASE Finish(Syncer)
  BY <1>0, <1>7, FinishCalls, FinishRest
<1>8. Run(Syncer) => RunSweep \/ RunReconcile
  BY DEF Run
<1>. QED  BY <1>1, <1>2, <1>3, <1>4, <1>5, <1>6, <1>7, <1>8 DEF SyncStep

LEMMA WorldType ==
  ASSUME TypeInv, WorldStep
  PROVE  TypeInv'
<1>0. /\ MemoryOK /\ DiskOK /\ CallsOK /\ QueuesOK /\ WorldOK /\ GrantsOK
  BY DEF TypeInv, TypeOK
<1>1. CASE Tick
  <2>1. Aged(activeClaims) \in [ClaimIds -> Claim \cup {NoClaim}]
    BY <1>0, AgedType DEF MemoryOK
  <2>2. MemoryOK'
    BY <1>0, <1>1, <2>1 DEF Tick, MemoryOK
  <2>3. Aged(db.active) \in [ClaimIds -> Claim \cup {NoClaim}]
    BY <1>0, AgedType DEF DiskOK, Rows
  <2>4. DiskOK'
    <3>1. /\ [db EXCEPT !.active = Aged(db.active)] \in Rows
          /\ [db EXCEPT !.active = Aged(db.active)].history = db.history
          /\ [db EXCEPT !.active = Aged(db.active)].total = db.total
      BY <1>0, <2>3 DEF DiskOK, Rows
    <3>. QED  BY <1>0, <1>1, <3>1 DEF Tick, DiskOK
  <2>5. CallsOK' /\ WorldOK' /\ QueuesOK' /\ GrantsOK'
    BY <1>0, <1>1 DEF Tick, CallsOK, WorldOK, QueuesOK, GrantsOK, calls, world, ghosts
  <2>. QED  BY <2>2, <2>4, <2>5 DEF TypeInv, TypeOK
<1>2. CASE Crash
  <2>1. MemoryOK'
    BY <1>2, ConfigAssumption, EmptySeq DEF Crash, MemoryOK
  <2>2. DiskOK'
    BY <1>0, <1>2 DEF Crash, DiskOK, disk
  <2>5. WorldOK'
    <3>1. crashes' \in 0..MaxCrashes
      BY <1>0, <1>2, ConfigAssumption DEF Crash, WorldOK
    <3>2. up' = FALSE /\ UNCHANGED <<tainted, issued, granted>>
      BY <1>2 DEF Crash, ghosts
    <3>. QED  BY <1>0, <3>1, <3>2 DEF WorldOK
  <2>3. CallsOK'
    BY <1>2, EmptySeq DEF Crash, CallsOK, Answer
  <2>4. QueuesOK' /\ GrantsOK'
    BY <1>2 DEF Crash, QueuesOK, GrantsOK
  <2>. QED  BY <2>1, <2>2, <2>3, <2>4, <2>5 DEF TypeInv, TypeOK
<1>3. CASE Restart
  <2>1. /\ db.active \in [ClaimIds -> Claim \cup {NoClaim}]
        /\ db.history \in Seq(Entry) /\ db.total \in Int /\ db.total >= -1
    BY <1>0 DEF DiskOK, Rows
  <2>2. Cardinality(Live(db.active)) + Len(db.history) \in Nat
    <3>1. Live(db.active) \in SUBSET ClaimIds
      BY DEF Live
    <3>2. Cardinality(Live(db.active)) \in Nat
      BY <3>1, InputAssumption, FS_Subset, FS_CardinalityType
    <3>. QED  BY <2>1, <3>2, LenProperties
  <2>3. totalClaims' \in Nat
    BY <1>3, <2>1, <2>2 DEF Restart
  <2>4. MemoryOK'
    BY <1>3, <2>1, <2>3, TrimType DEF Restart, MemoryOK
  <2>5. DiskOK' /\ WorldOK'
    BY <1>0, <1>3 DEF Restart, DiskOK, WorldOK, ghosts
  <2>6. CallsOK' /\ QueuesOK' /\ GrantsOK'
    BY <1>0, <1>3 DEF Restart, CallsOK, QueuesOK, GrantsOK, calls
  <2>. QED  BY <2>4, <2>5, <2>6 DEF TypeInv, TypeOK
<1>. QED  BY <1>1, <1>2, <1>3 DEF WorldStep

LEMMA TypeInit == Init => TypeInv
<1>. SUFFICES ASSUME Init PROVE TypeInv
  OBVIOUS
<1>1. MemoryOK
  BY ConfigAssumption, EmptySeq DEF Init, MemoryOK
<1>2. DiskOK
  <2>1. db \in Rows /\ db.history = <<>> /\ db.total = -1
    BY EmptySeq DEF Init, Rows
  <2>. QED  BY <2>1, ConfigAssumption, EmptySeq DEF Init, DiskOK
<1>3. CallsOK
  BY EmptySeq DEF Init, CallsOK, Answer
<1>4. WorldOK
  <2>1. up = TRUE /\ crashes = 0 /\ tainted = FALSE /\ issued = {} /\ granted = {}
    BY DEF Init
  <2>2. 0 \in 0..MaxCrashes
    BY ConfigAssumption
  <2>. QED  BY <2>1, <2>2 DEF WorldOK
<1>5. \A p \in Procs : pc[p] = "idle" /\ answer[p] = "none"
  BY DEF Init
<1>6. QueuesOK /\ GrantsOK
  BY <1>5 DEF QueuesOK, GrantsOK
<1>. QED  BY <1>1, <1>2, <1>3, <1>4, <1>6 DEF TypeInv, TypeOK

LEMMA TypeNext == TypeInv /\ [Next]_vars => TypeInv'
<1>. SUFFICES ASSUME TypeInv, [Next]_vars PROVE TypeInv'
  OBVIOUS
<1>1. CASE UNCHANGED vars
  BY <1>1 DEF TypeInv, TypeOK, MemoryOK, DiskOK, CallsOK, WorldOK, QueuesOK, GrantsOK,
              vars, memory, disk, calls, world, ghosts
<1>2. CASE Next
  BY <1>2, AgentType, SyncType, WorldType DEF Next
<1>. QED  BY <1>1, <1>2

\* Every behaviour of the manager keeps its variables in their types, and the
\* lock queues in order.
THEOREM TypeTheorem == Spec => []TypeInv
<1>. QED  BY TypeInit, TypeNext, PTL DEF Spec

\* The types of ClaimManager, and the bounds of both histories.
THEOREM TypeCorrect == Spec => []TypeOK
<1>1. TypeInv => TypeOK
  BY DEF TypeInv
<1>. QED  BY <1>1, TypeTheorem, PTL

-----------------------------------------------------------------------------
(* Exclusivity, the index and the rows                                     *)

\* An id that was not drawn yet names no claim and no row.
FreshIds ==
  /\ \A id \in ClaimIds \ issued : activeClaims[id] = NoClaim /\ db.active[id] = NoClaim
  /\ dirty \subseteq issued

RowsFollow == up => \A id \in ClaimIds \ dirty : db.active[id] = activeClaims[id]

\* The histories differ only while a claim that ended in memory has its row.
HistoryFollows ==
  up /\ (\A id \in dirty : activeClaims[id] # NoClaim) => db.history = history

RowsExclusive == ~tainted /\ dirty = {} => OneClaimEach(db.active)

\* A dead process runs nothing.
NoCallsDown == ~up => \A p \in Procs : pc[p] = "idle"

SafeInv ==
  /\ IndexSound /\ (~tainted => IndexComplete)
  /\ FreshIds /\ RowsFollow /\ HistoryFollows /\ RowsExclusive /\ NoCallsDown

-----------------------------------------------------------------------------
(* The effect of a body on the rows, whether its write succeeds or not     *)

\* x is what memory now has for the claim id.
RowEffect(id, x) ==
  /\ \A d \in ClaimIds \ {id} : db'.active[d] = db.active[d]
  /\ id \notin dirty' => db'.active[id] = x
  /\ dirty' \ {id} = dirty \ {id}

LEMMA TransactRows ==
  ASSUME DiskOK, NEW p, NEW id \in ClaimIds, NEW x, NEW a,
         NEW before \in Rows, NEW after \in Rows,
         \A d \in ClaimIds \ {id} : before.active[d] = db.active[d],
         after.active = [before.active EXCEPT ![id] = x],
         Transact(p, id, before, after, a)
  PROVE  /\ RowEffect(id, x)
         /\ \/ db'.history = after.history /\ id \notin dirty'
            \/ db'.history = before.history /\ id \in dirty'
<1>1. /\ \A d \in ClaimIds \ {id} : after.active[d] = db.active[d]
      /\ after.active[id] = x
  BY DEF Rows
<1>2. CASE db' = after /\ dirty' = dirty \ {id}
  BY <1>1, <1>2 DEF RowEffect
<1>3. CASE db' = before /\ dirty' = dirty \cup {id}
  BY <1>3 DEF RowEffect
<1>. QED  BY <1>2, <1>3 DEF Transact

-----------------------------------------------------------------------------
(* The three changes a body can make                                       *)

\* An active claim's record is replaced by another on the same issue.
LEMMA PutSafe ==
  ASSUME TypeOK, TypeOK', SafeInv, up, UNCHANGED <<world, ghosts, issueToClaimId, history>>,
         NEW id \in ClaimIds, NEW c \in Claim,
         activeClaims[id] # NoClaim, c.issue = activeClaims[id].issue,
         activeClaims' = [activeClaims EXCEPT ![id] = c],
         RowEffect(id, c), db'.history = db.history
  PROVE  SafeInv'
<1>. USE DEF world, ghosts
<1>1. /\ activeClaims \in [ClaimIds -> Claim \cup {NoClaim}]
      /\ issueToClaimId \in [Issues -> ClaimIds \cup {NoId}]
  BY DEF TypeOK, MemoryOK
<1>2. activeClaims'[id] = c /\ c # NoClaim
  BY <1>1, SentinelAssumption
<1>3. \A d \in ClaimIds : /\ (activeClaims'[d] # NoClaim <=> activeClaims[d] # NoClaim)
                          /\ activeClaims'[d].issue = activeClaims[d].issue
                          /\ d # id => activeClaims'[d] = activeClaims[d]
  BY <1>1, <1>2
<1>4. IndexSound'
  BY <1>1, <1>3, SentinelAssumption DEF SafeInv, IndexSound
<1>5. (~tainted => IndexComplete)'
  BY <1>3 DEF SafeInv, IndexComplete, Live
<1>6. FreshIds'
  <2>1. id \in issued
    BY DEF SafeInv, FreshIds
  <2>. QED  BY <1>3, <2>1 DEF SafeInv, FreshIds, RowEffect
<1>7. RowsFollow'
  BY <1>2, <1>3 DEF SafeInv, RowsFollow, RowEffect
<1>8. HistoryFollows'
  <2>. SUFFICES ASSUME \A d \in dirty' : activeClaims'[d] # NoClaim
                PROVE  db.history = history
    BY DEF HistoryFollows
  <2>1. \A d \in dirty : activeClaims[d] # NoClaim
    <3>1. dirty \subseteq ClaimIds
      BY DEF TypeOK, DiskOK
    <3>. QED  BY <1>3, <3>1 DEF RowEffect
  <2>. QED  BY <2>1 DEF SafeInv, HistoryFollows
<1>9. RowsExclusive' /\ NoCallsDown'
  <2>1. RowsExclusive'
    <3>. SUFFICES ASSUME ~tainted', dirty' = {} PROVE OneClaimEach(db'.active)
      BY DEF RowsExclusive, OneClaimEach, Live
    <3>1. \A d \in Live(activeClaims') : issueToClaimId'[activeClaims'[d].issue] = d
      BY <1>5 DEF IndexComplete, Live
    <3>2. \A d \in ClaimIds : db'.active[d] = activeClaims'[d]
      BY <1>7 DEF RowsFollow
    <3>. QED  BY <3>1, <3>2 DEF OneClaimEach, Live
  <2>. QED  BY <2>1 DEF NoCallsDown
<1>. QED  BY <1>4, <1>5, <1>6, <1>7, <1>8, <1>9 DEF SafeInv

\* An active claim leaves memory for the history.
LEMMA EndSafe ==
  ASSUME TypeOK, TypeOK', SafeInv, up, UNCHANGED <<world, ghosts>>,
         NEW id \in ClaimIds, activeClaims[id] # NoClaim, NEW e \in Entry,
         activeClaims' = [activeClaims EXCEPT ![id] = NoClaim],
         issueToClaimId' = [issueToClaimId EXCEPT ![activeClaims[id].issue] = NoId],
         history' = trimHistory(<<e>> \o history),
         RowEffect(id, NoClaim),
         id \notin dirty' => db'.history = trimHistory(<<e>> \o db.history)
  PROVE  SafeInv'
<1>. USE DEF world, ghosts
<1>1. /\ activeClaims \in [ClaimIds -> Claim \cup {NoClaim}]
      /\ issueToClaimId \in [Issues -> ClaimIds \cup {NoId}]
      /\ activeClaims[id].issue \in Issues
  BY DEF TypeOK, MemoryOK, Claim
<1>2. /\ activeClaims'[id] = NoClaim
      /\ \A d \in ClaimIds \ {id} : activeClaims'[d] = activeClaims[d]
      /\ issueToClaimId'[activeClaims[id].issue] = NoId
      /\ \A i \in Issues \ {activeClaims[id].issue} : issueToClaimId'[i] = issueToClaimId[i]
  BY <1>1
<1>3. IndexSound'
  <2>. SUFFICES ASSUME NEW i \in Issues, issueToClaimId'[i] # NoId
                PROVE  /\ activeClaims'[issueToClaimId'[i]] # NoClaim
                       /\ activeClaims'[issueToClaimId'[i]].issue = i
    BY DEF IndexSound
  <2>1. i # activeClaims[id].issue /\ issueToClaimId'[i] = issueToClaimId[i]
    BY <1>2
  <2>2. /\ activeClaims[issueToClaimId[i]] # NoClaim
        /\ activeClaims[issueToClaimId[i]].issue = i
    BY <2>1 DEF SafeInv, IndexSound
  <2>3. issueToClaimId[i] \in ClaimIds \ {id}
    BY <1>1, <2>1, <2>2
  <2>. QED  BY <1>2, <2>1, <2>2, <2>3
<1>4. (~tainted => IndexComplete)'
  <2>. SUFFICES ASSUME ~tainted, NEW d \in Live(activeClaims)'
                PROVE  issueToClaimId'[activeClaims'[d].issue] = d
    BY DEF IndexComplete
  <2>1. d \in ClaimIds /\ d # id /\ activeClaims'[d] = activeClaims[d] /\ activeClaims[d] # NoClaim
    BY <1>2 DEF Live
  <2>2. issueToClaimId[activeClaims[d].issue] = d /\ issueToClaimId[activeClaims[id].issue] = id
    BY <2>1 DEF SafeInv, IndexComplete, Live
  <2>3. activeClaims[d].issue \in Issues
    BY <1>1, <2>1 DEF Claim
  <2>. QED  BY <1>2, <2>1, <2>2, <2>3
<1>5. FreshIds'
  <2>1. id \in issued
    BY DEF SafeInv, FreshIds
  <2>. QED  BY <1>2, <2>1 DEF SafeInv, FreshIds, RowEffect
<1>6. RowsFollow'
  BY <1>2 DEF SafeInv, RowsFollow, RowEffect
<1>7. HistoryFollows'
  <2>. SUFFICES ASSUME \A d \in dirty' : activeClaims'[d] # NoClaim
                PROVE  db'.history = history'
    BY DEF HistoryFollows
  <2>1. id \notin dirty'
    BY <1>2
  <2>2. \A d \in dirty : activeClaims[d] # NoClaim
    <3>1. dirty \subseteq ClaimIds
      BY DEF TypeOK, DiskOK
    <3>. QED  BY <1>2, <3>1 DEF RowEffect
  <2>3. db.history = history
    BY <2>2 DEF SafeInv, HistoryFollows
  <2>. QED  BY <2>1, <2>3
<1>8. RowsExclusive' /\ NoCallsDown'
  <2>1. RowsExclusive'
    <3>. SUFFICES ASSUME ~tainted', dirty' = {} PROVE OneClaimEach(db'.active)
      BY DEF RowsExclusive, OneClaimEach, Live
    <3>1. \A d \in Live(activeClaims') : issueToClaimId'[activeClaims'[d].issue] = d
      BY <1>4 DEF IndexComplete, Live
    <3>2. \A d \in ClaimIds : db'.active[d] = activeClaims'[d]
      BY <1>6 DEF RowsFollow
    <3>. QED  BY <3>1, <3>2 DEF OneClaimEach, Live
  <2>. QED  BY <2>1 DEF NoCallsDown
<1>. QED  BY <1>3, <1>4, <1>5, <1>6, <1>7, <1>8 DEF SafeInv

\* A claim is made on an issue whose index entry is free.
LEMMA CreateSafe ==
  ASSUME TypeOK, TypeOK', SafeInv, up, UNCHANGED <<world, history>>,
         NEW id \in ClaimIds \ issued, issued' = issued \cup {id},
         NEW c \in Claim, Holder(c.issue) = NoClaim,
         activeClaims' = [activeClaims EXCEPT ![id] = c],
         issueToClaimId' = [issueToClaimId EXCEPT ![c.issue] = id],
         RowEffect(id, c), db'.history = db.history
  PROVE  SafeInv'
<1>. USE DEF world
<1>1. /\ activeClaims \in [ClaimIds -> Claim \cup {NoClaim}]
      /\ issueToClaimId \in [Issues -> ClaimIds \cup {NoId}]
      /\ c.issue \in Issues
  BY DEF TypeOK, MemoryOK, Claim
<1>2. /\ activeClaims'[id] = c /\ c # NoClaim
      /\ \A d \in ClaimIds \ {id} : activeClaims'[d] = activeClaims[d]
      /\ issueToClaimId'[c.issue] = id
      /\ \A i \in Issues \ {c.issue} : issueToClaimId'[i] = issueToClaimId[i]
  BY <1>1, SentinelAssumption
<1>3. activeClaims[id] = NoClaim /\ db.active[id] = NoClaim /\ id \notin dirty
  BY DEF SafeInv, FreshIds
<1>4. issueToClaimId[c.issue] = NoId
  BY <1>1 DEF Holder, SafeInv, IndexSound
<1>5. IndexSound'
  <2>. SUFFICES ASSUME NEW i \in Issues, issueToClaimId'[i] # NoId
                PROVE  /\ activeClaims'[issueToClaimId'[i]] # NoClaim
                       /\ activeClaims'[issueToClaimId'[i]].issue = i
    BY DEF IndexSound
  <2>1. CASE i = c.issue
    BY <1>2, <2>1
  <2>2. CASE i # c.issue
    <3>1. issueToClaimId'[i] = issueToClaimId[i] /\ issueToClaimId[i] \in ClaimIds
      BY <1>1, <1>2, <2>2
    <3>2. /\ activeClaims[issueToClaimId[i]] # NoClaim
          /\ activeClaims[issueToClaimId[i]].issue = i
      BY <3>1 DEF SafeInv, IndexSound
    <3>3. issueToClaimId[i] # id
      BY <1>3, <3>2
    <3>. QED  BY <1>2, <3>1, <3>2, <3>3
  <2>. QED  BY <2>1, <2>2
<1>6. (~tainted => IndexComplete)'
  <2>. SUFFICES ASSUME ~tainted, NEW d \in Live(activeClaims)'
                PROVE  issueToClaimId'[activeClaims'[d].issue] = d
    BY DEF IndexComplete
  <2>1. CASE d = id
    BY <1>2, <2>1
  <2>2. CASE d # id
    <3>1. d \in ClaimIds /\ activeClaims'[d] = activeClaims[d] /\ activeClaims[d] # NoClaim
      BY <1>2, <2>2 DEF Live
    <3>2. issueToClaimId[activeClaims[d].issue] = d /\ activeClaims[d].issue \in Issues
      BY <1>1, <3>1 DEF SafeInv, IndexComplete, Live, Claim
    <3>3. activeClaims[d].issue # c.issue
      BY <1>4, <3>1, <3>2, SentinelAssumption
    <3>. QED  BY <1>2, <3>1, <3>2, <3>3
  <2>. QED  BY <2>1, <2>2
<1>7. FreshIds'
  <2>1. dirty' \subseteq dirty \cup {id}
    BY DEF RowEffect
  <2>. QED  BY <1>2, <2>1 DEF SafeInv, FreshIds, RowEffect
<1>8. RowsFollow'
  BY <1>2 DEF SafeInv, RowsFollow, RowEffect
<1>9. HistoryFollows'
  <2>. SUFFICES ASSUME \A d \in dirty' : activeClaims'[d] # NoClaim
                PROVE  db.history = history
    BY DEF HistoryFollows
  <2>1. \A d \in dirty : activeClaims[d] # NoClaim
    <3>1. dirty \subseteq ClaimIds
      BY DEF TypeOK, DiskOK
    <3>. QED  BY <1>2, <1>3, <3>1 DEF RowEffect
  <2>. QED  BY <2>1 DEF SafeInv, HistoryFollows
<1>10. RowsExclusive' /\ NoCallsDown'
  <2>1. RowsExclusive'
    <3>. SUFFICES ASSUME ~tainted', dirty' = {} PROVE OneClaimEach(db'.active)
      BY DEF RowsExclusive, OneClaimEach, Live
    <3>1. \A d \in Live(activeClaims') : issueToClaimId'[activeClaims'[d].issue] = d
      BY <1>6 DEF IndexComplete, Live
    <3>2. \A d \in ClaimIds : db'.active[d] = activeClaims'[d]
      BY <1>8 DEF RowsFollow
    <3>. QED  BY <3>1, <3>2 DEF OneClaimEach, Live
  <2>. QED  BY <2>1 DEF NoCallsDown
<1>. QED  BY <1>5, <1>6, <1>7, <1>8, <1>9, <1>10 DEF SafeInv

\* What a body that changes neither memory nor rows leaves.
LEMMA NothingSafe ==
  ASSUME SafeInv, up, UNCHANGED <<memory, world>>,
         issued' = issued, UNCHANGED dirty,
         db'.active = db.active, db'.history = db.history
  PROVE  SafeInv'
BY DEF SafeInv, IndexSound, IndexComplete, FreshIds, RowsFollow, HistoryFollows,
       RowsExclusive, NoCallsDown, OneClaimEach, Live, memory, world

-----------------------------------------------------------------------------
(* The bodies                                                              *)

\* c and before are what the body has made of the record and the rows so far;
\* they may differ from the state only in the claim id itself.
LEMMA TransitionSafe ==
  ASSUME TypeInv, TypeInv', SafeInv, up, UNCHANGED <<world, ghosts>>,
         NEW p \in Procs, NEW id \in ClaimIds, activeClaims[id] # NoClaim,
         NEW c \in Claim, c.issue = activeClaims[id].issue,
         NEW before \in Rows, before.history = db.history,
         \A d \in ClaimIds \ {id} : before.active[d] = db.active[d],
         NEW to \in Status, NEW pr \in BOOLEAN, NEW source,
         applyTransitionLocked(p, id, c, before, to, pr, source)
  PROVE  SafeInv'
<1>0. TypeOK /\ TypeOK' /\ DiskOK /\ MemoryOK
  BY DEF TypeInv, TypeOK
<1>1. ASSUME NEW b, NothingDone(p, b)
      PROVE  SafeInv'
  BY <1>1, NothingSafe DEF NothingDone, disk, ghosts
<1>2. CASE to \notin Terminal /\ MoveClaim(p, id, c, before, to, pr)
  <2>. DEFINE m == Moved(c, to, pr)
  <2>1. to \in Active
    BY <1>2 DEF Status
  <2>2. m \in Claim /\ m.issue = activeClaims[id].issue
    BY <2>1, MovedType
  <2>3. /\ RowPut(before, id, m) \in Rows
        /\ RowPut(before, id, m).history = before.history
        /\ RowPut(before, id, m).active = [before.active EXCEPT ![id] = m]
    BY <2>2, RowPutType
  <2>4. /\ Transact(p, id, before, RowPut(before, id, m), "applied")
        /\ activeClaims' = [activeClaims EXCEPT ![id] = m]
        /\ UNCHANGED <<issueToClaimId, history>>
    BY <1>2 DEF MoveClaim
  <2>5. RowEffect(id, m) /\ db'.history = db.history
    BY <1>0, <2>3, <2>4, TransactRows
  <2>. QED  BY <1>0, <2>2, <2>4, <2>5, PutSafe
<1>3. CASE to \in Terminal /\ EndClaim(p, id, c, before, to, pr)
  <2>. DEFINE e == EndEntry(id, c, to, pr)
  <2>1. e \in Entry
    BY <1>3, EndEntryType
  <2>2. /\ RowRetired(before, id, e) \in Rows
        /\ RowRetired(before, id, e).history = trimHistory(<<e>> \o before.history)
        /\ RowRetired(before, id, e).active = [before.active EXCEPT ![id] = NoClaim]
    BY <2>1, RowRetiredType
  <2>3. /\ Transact(p, id, before, RowRetired(before, id, e), "applied")
        /\ activeClaims' = [activeClaims EXCEPT ![id] = NoClaim]
        /\ issueToClaimId' = [issueToClaimId EXCEPT ![activeClaims[id].issue] = NoId]
        /\ history' = trimHistory(<<e>> \o history)
    BY <1>3 DEF EndClaim
  <2>4. /\ RowEffect(id, NoClaim)
        /\ id \notin dirty' => db'.history = trimHistory(<<e>> \o db.history)
    BY <1>0, <2>2, <2>3, TransactRows
  <2>. QED  BY <1>0, <2>1, <2>3, <2>4, EndSafe
<1>. QED  BY <1>1, <1>2, <1>3 DEF applyTransitionLocked

\* A body runs only while the process is up.
LEMMA BodyUp ==
  ASSUME TypeInv, SafeInv, NEW p \in Procs, HasLock(p)
  PROVE  up
BY DEF TypeInv, TypeOK, WorldOK, SafeInv, NoCallsDown, HasLock

LEMMA RunUpdateSafe ==
  ASSUME TypeInv, TypeInv', SafeInv, NEW t \in Tasks, RunUpdate(t)
  PROVE  SafeInv'
<1>. DEFINE r == request[t]
            c == activeClaims[r.claim_id]
<1>0. HasLock(t) /\ t \in Procs
  BY DEF RunUpdate
<1>1. HasLock(t) /\ t \in Procs /\ r \in UpdateRequest /\ up
  BY <1>0, RequestKinds, BodyUp DEF RunUpdate
<1>2. r.claim_id \in ClaimIds /\ r.to \in Status /\ r.pr \in BOOLEAN
  BY <1>1 DEF UpdateRequest
<1>3. UNCHANGED <<world, ghosts>>
  BY DEF RunUpdate
<1>4. CASE NothingDone(t, "rejected")
  BY <1>1, <1>3, <1>4, NothingSafe DEF NothingDone, disk, ghosts
<1>5. CASE OwnedBy(c, r.agent) /\ applyTransitionLocked(t, r.claim_id, c, db, r.to, r.pr, "agent")
  <2>1. c \in Claim /\ c # NoClaim /\ db \in Rows
    BY <1>2, <1>5 DEF OwnedBy, TypeInv, TypeOK, MemoryOK, DiskOK
  <2>. QED  BY <1>1, <1>2, <1>3, <1>5, <2>1, TransitionSafe
<1>. QED  BY <1>4, <1>5 DEF RunUpdate

LEMMA RunSweepSafe ==
  ASSUME TypeInv, TypeInv', SafeInv, RunSweep
  PROVE  SafeInv'
<1>. DEFINE id == request[Syncer].claim_id
            c  == activeClaims[id]
<1>0. HasLock(Syncer) /\ Syncer \in Procs
  BY DEF RunSweep
<1>1. HasLock(Syncer) /\ Syncer \in Procs /\ request[Syncer] \in SweepRequest /\ up
  BY <1>0, RequestKinds, BodyUp DEF RunSweep
<1>2. id \in ClaimIds
  BY <1>1 DEF SweepRequest
<1>3. UNCHANGED <<world, ghosts>>
  BY DEF RunSweep
<1>4. CASE NothingDone(Syncer, "same")
  BY <1>1, <1>3, <1>4, NothingSafe DEF NothingDone, disk, ghosts
<1>5. ASSUME NEW to \in {"stale", "released"}, MarksStale(c) \/ ReleasesStale(c),
             applyTransitionLocked(Syncer, id, c, db, to, FALSE, "sync")
      PROVE  SafeInv'
  <2>1. c \in Claim /\ c # NoClaim /\ db \in Rows
    BY <1>2, <1>5 DEF MarksStale, ReleasesStale, TypeInv, TypeOK, MemoryOK, DiskOK
  <2>2. to \in Status
    BY DEF Status, Active, Terminal
  <2>. QED  BY <1>1, <1>2, <1>3, <1>5, <2>1, <2>2, TransitionSafe
<1>. QED  BY <1>4, <1>5 DEF RunSweep

LEMMA RunReconcileSafe ==
  ASSUME TypeInv, TypeInv', SafeInv, RunReconcile
  PROVE  SafeInv'
<1>. DEFINE r  == request[Syncer]
            id == issueToClaimId[r.issue]
            c  == Holder(r.issue)
            refreshed == Refreshed(c, r.meta)
            written == IF refreshed = c THEN db ELSE RowPut(db, id, refreshed)
<1>0. HasLock(Syncer) /\ Syncer \in Procs
  BY DEF RunReconcile
<1>1. HasLock(Syncer) /\ Syncer \in Procs /\ r \in ReconcileRequest /\ up
  BY <1>0, RequestKinds, BodyUp DEF RunReconcile
<1>2. r.issue \in Issues /\ r.meta \in Metas
  BY <1>1 DEF ReconcileRequest
<1>3. UNCHANGED <<world, ghosts>>
  BY DEF RunReconcile
<1>4. MemoryOK /\ DiskOK /\ db \in Rows /\ TypeOK /\ TypeOK'
  BY DEF TypeInv, TypeOK, DiskOK
<1>5. ASSUME c # NoClaim
      PROVE  /\ id \in ClaimIds /\ c = activeClaims[id] /\ activeClaims[id] # NoClaim
             /\ refreshed \in Claim /\ refreshed.issue = activeClaims[id].issue
             /\ RowPut(db, id, refreshed) \in Rows
             /\ RowPut(db, id, refreshed).history = db.history
             /\ RowPut(db, id, refreshed).active = [db.active EXCEPT ![id] = refreshed]
             /\ \A d \in ClaimIds \ {id} : RowPut(db, id, refreshed).active[d] = db.active[d]
  <2>1. id \in ClaimIds /\ c = activeClaims[id] /\ c \in Claim
    BY <1>2, <1>4, <1>5 DEF Holder, MemoryOK
  <2>2. refreshed \in Claim /\ refreshed.issue = c.issue
    BY <1>2, <2>1, RefreshedType
  <2>3. /\ RowPut(db, id, refreshed) \in Rows
        /\ RowPut(db, id, refreshed).history = db.history
        /\ RowPut(db, id, refreshed).active = [db.active EXCEPT ![id] = refreshed]
    BY <1>4, <2>1, <2>2, RowPutType
  <2>4. \A d \in ClaimIds \ {id} : RowPut(db, id, refreshed).active[d] = db.active[d]
    BY <1>4, <2>3 DEF Rows
  <2>. QED  BY <1>5, <2>1, <2>2, <2>3, <2>4
<1>6. CASE /\ c = NoClaim
           /\ issueToClaimId' = [issueToClaimId EXCEPT ![r.issue] = NoId]
           /\ UNCHANGED <<activeClaims, history, totalClaims, disk>>
  <2>1. issueToClaimId[r.issue] = NoId
    BY <1>2, <1>6 DEF Holder, SafeInv, IndexSound
  <2>2. issueToClaimId' = issueToClaimId
    BY <1>2, <1>4, <1>6, <2>1 DEF MemoryOK
  <2>. QED  BY <1>1, <1>3, <1>6, <2>2, NothingSafe DEF memory, disk, ghosts
<1>7. CASE NothingDone(Syncer, "same")
  BY <1>1, <1>3, <1>7, NothingSafe DEF NothingDone, disk, ghosts
<1>8. CASE /\ c # NoClaim /\ c.meta # r.meta
           /\ activeClaims' = [activeClaims EXCEPT ![id] = refreshed]
           /\ Transact(Syncer, id, db, written, "applied")
           /\ UNCHANGED <<issueToClaimId, history, totalClaims>>
  <2>1. written \in Rows /\ written.history = db.history
        /\ written.active = [db.active EXCEPT ![id] = refreshed]
    <3>1. refreshed # c
      <4>1. c \in Claim
        BY <1>4, <1>5, <1>8 DEF MemoryOK
      <4>2. refreshed.meta = r.meta
        BY <1>8, <4>1 DEF Refreshed, Claim
      <4>. QED  BY <1>8, <4>2
    <3>. QED  BY <1>5, <1>8, <3>1
  <2>2. RowEffect(id, refreshed) /\ db'.history = db.history
    BY <1>4, <1>5, <1>8, <2>1, TransactRows
  <2>. QED  BY <1>1, <1>3, <1>4, <1>5, <1>8, <2>2, PutSafe
<1>9. CASE /\ c # NoClaim
           /\ activeClaims' = [activeClaims EXCEPT ![id] = refreshed]
           /\ dirty' = dirty \cup {id}
           /\ UNCHANGED <<issueToClaimId, history, totalClaims, db>>
  <2>1. RowEffect(id, refreshed)
    BY <1>9 DEF RowEffect
  <2>. QED  BY <1>1, <1>3, <1>4, <1>5, <1>9, <2>1, PutSafe
<1>10. CASE /\ c # NoClaim
            /\ applyTransitionLocked(Syncer, id, refreshed, written, "closed", FALSE, "sync")
  <2>1. "closed" \in Status
    BY DEF Status, Terminal
  <2>2. /\ written \in Rows /\ written.history = db.history
        /\ \A d \in ClaimIds \ {id} : written.active[d] = db.active[d]
    BY <1>4, <1>5, <1>10
  <2>. QED  BY <1>1, <1>3, <1>5, <1>10, <2>1, <2>2, TransitionSafe
<1>. QED  BY <1>6, <1>7, <1>8, <1>9, <1>10 DEF RunReconcile

LEMMA RunClaimSafe ==
  ASSUME TypeInv, TypeInv', SafeInv, NEW t \in Tasks, RunClaim(t)
  PROVE  SafeInv'
<1>. DEFINE r == request[t]
<1>0. HasLock(t) /\ t \in Procs
  BY DEF RunClaim
<1>1. HasLock(t) /\ t \in Procs /\ r \in ClaimRequest /\ up
  BY <1>0, RequestKinds, BodyUp DEF RunClaim
<1>2. UNCHANGED world
  BY DEF RunClaim
<1>3. ASSUME NEW a, NothingDone(t, a), issued' = issued
      PROVE  SafeInv'
  BY <1>1, <1>2, <1>3, NothingSafe DEF NothingDone, disk
<1>4. ASSUME NEW id \in ClaimIds \ issued, Holder(r.issue) = NoClaim, CreateClaim(t, id, r)
      PROVE  SafeInv'
  <2>. DEFINE n == NewClaim(r)
              after == [RowPut(db, id, n) EXCEPT !.total = totalClaims + 1]
  <2>1. n \in Claim /\ n.issue = r.issue
    BY <1>1, NewClaimType
  <2>2. DiskOK /\ MemoryOK /\ db \in Rows /\ TypeOK /\ TypeOK'
    BY DEF TypeInv, TypeOK, DiskOK
  <2>3. /\ RowPut(db, id, n) \in Rows /\ RowPut(db, id, n).history = db.history
        /\ RowPut(db, id, n).active = [db.active EXCEPT ![id] = n]
    BY <2>1, <2>2, RowPutType
  <2>4. totalClaims + 1 \in Int
    BY <2>2 DEF MemoryOK
  <2>5. after \in Rows /\ after.history = db.history /\ after.active = [db.active EXCEPT ![id] = n]
    BY <2>3, <2>4 DEF Rows
  <2>6. Transact(t, id, db, after, "granted")
    BY <1>4 DEF CreateClaim
  <2>. HIDE DEF after
  <2>7. RowEffect(id, n) /\ db'.history = db.history
    <3>1. id \in ClaimIds
      OBVIOUS
    <3>. QED  BY <2>2, <2>5, <2>6, <3>1, TransactRows
  <2>. QED  BY <1>1, <1>2, <1>4, <2>1, <2>2, <2>7, CreateSafe DEF CreateClaim
<1>. QED  BY <1>3, <1>4 DEF RunClaim

-----------------------------------------------------------------------------
(* The other steps                                                         *)

\* A step that leaves memory, rows and ids alone and runs no call when down.
LEMMA IdleSafe ==
  ASSUME SafeInv, UNCHANGED <<memory, world, issued, dirty>>,
         db'.active = db.active, db'.history = db.history,
         up \/ UNCHANGED pc
  PROVE  SafeInv'
BY DEF SafeInv, IndexSound, IndexComplete, FreshIds, RowsFollow, HistoryFollows,
       RowsExclusive, NoCallsDown, OneClaimEach, Live, memory, world

LEMMA AgentSafe ==
  ASSUME TypeInv, TypeInv', SafeInv, NEW t \in Tasks, AgentStep(t)
  PROVE  SafeInv'
<1>1. ASSUME up, NEW r, withIssueLock(t, r)
      PROVE  SafeInv'
  BY <1>1, IdleSafe DEF withIssueLock, disk, ghosts
<1>2. CASE \E a \in Agents, i \in Issues, m \in Metas : InvokeClaim(t, a, i, m)
  BY <1>1, <1>2 DEF InvokeClaim
<1>3. CASE \E a \in Agents, id \in ClaimIds : InvokeRelease(t, a, id)
  BY <1>1, <1>3 DEF InvokeRelease, InvokeUpdate
<1>4. CASE \E a \in Agents, id \in ClaimIds, u \in AgentUpdates : InvokeUpdate(t, a, id, u)
  BY <1>1, <1>4 DEF InvokeUpdate
<1>5. CASE RunClaim(t)
  BY <1>5, RunClaimSafe
<1>6. CASE RunUpdate(t)
  BY <1>6, RunUpdateSafe
<1>7. CASE Finish(t)
  <2>1. up
    BY <1>7 DEF Finish, TypeInv, TypeOK, WorldOK, SafeInv, NoCallsDown
  <2>. QED  BY <1>7, <2>1, IdleSafe DEF Finish, disk
<1>8. Run(t) => RunClaim(t) \/ RunUpdate(t)
  BY SentinelAssumption DEF Run
<1>. QED  BY <1>2, <1>3, <1>4, <1>5, <1>6, <1>7, <1>8 DEF AgentStep

LEMMA SyncSafe ==
  ASSUME TypeInv, TypeInv', SafeInv, SyncStep
  PROVE  SafeInv'
<1>1. CASE StartSweep
  BY <1>1, IdleSafe DEF StartSweep, disk, ghosts
<1>2. CASE SweepNext
  BY <1>2, IdleSafe DEF SweepNext, withIssueLock, disk, ghosts
<1>3. CASE \E i \in Issues, m \in Metas, closed \in BOOLEAN : InvokeReconcile(i, m, closed)
  BY <1>3, IdleSafe DEF InvokeReconcile, withIssueLock, disk, ghosts
<1>4. CASE setLastGithubSyncAt
  <2>1. db \in Rows
    BY DEF TypeInv, TypeOK, DiskOK
  <2>2. /\ [db EXCEPT !.total = totalClaims].active = db.active
        /\ [db EXCEPT !.total = totalClaims].history = db.history
    BY <2>1 DEF Rows
  <2>3. db' = db \/ db' = [db EXCEPT !.total = totalClaims]
    BY <1>4 DEF setLastGithubSyncAt
  <2>4. db'.active = db.active /\ db'.history = db.history
    BY <2>2, <2>3
  <2>. QED  BY <1>4, <2>4, IdleSafe DEF setLastGithubSyncAt, calls, ghosts
<1>5. CASE RunSweep
  BY <1>5, RunSweepSafe
<1>6. CASE RunReconcile
  BY <1>6, RunReconcileSafe
<1>7. CASE Finish(Syncer)
  <2>1. up
    BY <1>7 DEF Finish, TypeInv, TypeOK, WorldOK, SafeInv, NoCallsDown
  <2>. QED  BY <1>7, <2>1, IdleSafe DEF Finish, disk
<1>8. Run(Syncer) => RunSweep \/ RunReconcile
  BY DEF Run
<1>. QED  BY <1>1, <1>2, <1>3, <1>4, <1>5, <1>6, <1>7, <1>8 DEF SyncStep

LEMMA TickSafe ==
  ASSUME TypeInv, SafeInv, Tick
  PROVE  SafeInv'
<1>1. /\ activeClaims \in [ClaimIds -> Claim \cup {NoClaim}]
      /\ db \in Rows /\ db.active \in [ClaimIds -> Claim \cup {NoClaim}]
      /\ dirty \subseteq ClaimIds
      /\ issueToClaimId \in [Issues -> ClaimIds \cup {NoId}]
  BY DEF TypeInv, TypeOK, MemoryOK, DiskOK, Rows
<1>2. /\ activeClaims' = Aged(activeClaims)
      /\ db'.active = Aged(db.active) /\ db'.history = db.history
  BY <1>1 DEF Tick, Rows
<1>3. /\ \A d \in ClaimIds : activeClaims'[d] # NoClaim <=> activeClaims[d] # NoClaim
      /\ \A d \in ClaimIds : activeClaims[d] # NoClaim =>
           activeClaims'[d].issue = activeClaims[d].issue
      /\ \A d \in ClaimIds : db'.active[d] # NoClaim <=> db.active[d] # NoClaim
      /\ \A d \in ClaimIds : db.active[d] # NoClaim =>
           db'.active[d].issue = db.active[d].issue
  BY <1>1, <1>2, AgedType DEF Live
<1>4. \A d \in ClaimIds : db.active[d] = activeClaims[d] => db'.active[d] = activeClaims'[d]
  BY <1>2 DEF Aged
<1>5. UNCHANGED <<issueToClaimId, history, pc, dirty, up, tainted, issued>>
  BY DEF Tick, calls, world, ghosts
<1>6. IndexSound' /\ (~tainted => IndexComplete)'
  BY <1>1, <1>3, <1>5 DEF SafeInv, IndexSound, IndexComplete, Live
<1>7. FreshIds' /\ RowsFollow' /\ NoCallsDown'
  BY <1>1, <1>3, <1>4, <1>5 DEF SafeInv, FreshIds, RowsFollow, NoCallsDown
<1>8. HistoryFollows'
  BY <1>1, <1>2, <1>3, <1>5 DEF SafeInv, HistoryFollows
<1>9. RowsExclusive'
  BY <1>3, <1>5 DEF SafeInv, RowsExclusive, OneClaimEach, Live
<1>. QED  BY <1>6, <1>7, <1>8, <1>9 DEF SafeInv

LEMMA CrashSafe ==
  ASSUME TypeInv, SafeInv, Crash
  PROVE  SafeInv'
<1>1. /\ \A d \in ClaimIds : activeClaims'[d] = NoClaim
      /\ \A i \in Issues : issueToClaimId'[i] = NoId
      /\ \A p \in Procs : pc'[p] = "idle"
      /\ up' = FALSE /\ UNCHANGED <<db, dirty, tainted, issued>>
  BY DEF Crash, disk, ghosts
<1>. QED
  BY <1>1 DEF SafeInv, IndexSound, IndexComplete, FreshIds, RowsFollow, HistoryFollows,
              RowsExclusive, NoCallsDown, OneClaimEach, Live

\* Memory is the rows; it is complete if the rows were exclusive.
LEMMA RestartSafe ==
  ASSUME TypeInv, SafeInv, Restart
  PROVE  SafeInv'
<1>1. /\ activeClaims' = db.active /\ db' = db /\ dirty' = {} /\ issued' = issued
      /\ tainted' = (tainted \/ dirty # {}) /\ up' = TRUE
      /\ history' = trimHistory(db.history)
      /\ issueToClaimId' \in [Issues -> ClaimIds \cup {NoId}]
      /\ Indexes(issueToClaimId', db.active)
  BY DEF Restart, ghosts
<1>2. db.active \in [ClaimIds -> Claim \cup {NoClaim}]
  BY DEF TypeInv, TypeOK, DiskOK, Rows
<1>3. \A i \in Issues : issueToClaimId'[i] # NoId =>
        /\ issueToClaimId'[i] \in Live(db.active)
        /\ db.active[issueToClaimId'[i]].issue = i
  BY <1>1 DEF Indexes
<1>4. IndexSound'
  BY <1>1, <1>3 DEF IndexSound, Live
<1>5. (~tainted => IndexComplete)'
  <2>. SUFFICES ASSUME ~tainted', NEW d \in Live(db.active)
                PROVE  issueToClaimId'[db.active[d].issue] = d
    BY <1>1 DEF IndexComplete, Live
  <2>. DEFINE i == db.active[d].issue
  <2>1. i \in Issues
    BY <1>2 DEF Live, Claim
  <2>2. /\ issueToClaimId'[i] \in Live(db.active)
        /\ db.active[issueToClaimId'[i]].issue = i
    BY <1>1, <2>1 DEF Indexes
  <2>3. OneClaimEach(db.active)
    BY <1>1 DEF SafeInv, RowsExclusive
  <2>. QED  BY <2>2, <2>3 DEF OneClaimEach
<1>6. FreshIds' /\ RowsFollow' /\ NoCallsDown'
  BY <1>1 DEF SafeInv, FreshIds, RowsFollow, NoCallsDown
<1>7. HistoryFollows'
  BY <1>1, TrimIdle DEF HistoryFollows, TypeInv, TypeOK, DiskOK, Rows
<1>8. RowsExclusive'
  <2>. SUFFICES ASSUME ~tainted' PROVE OneClaimEach(db.active)
    BY <1>1 DEF RowsExclusive, OneClaimEach, Live
  <2>. QED  BY <1>1 DEF SafeInv, RowsExclusive
<1>. QED  BY <1>4, <1>5, <1>6, <1>7, <1>8 DEF SafeInv

LEMMA SafeInit == Init => SafeInv
<1>. SUFFICES ASSUME Init PROVE SafeInv
  OBVIOUS
<1>1. /\ \A d \in ClaimIds : activeClaims[d] = NoClaim /\ db.active[d] = NoClaim
      /\ \A i \in Issues : issueToClaimId[i] = NoId
      /\ db.history = history /\ dirty = {} /\ up = TRUE
  BY DEF Init
<1>. QED
  BY <1>1 DEF SafeInv, IndexSound, IndexComplete, FreshIds, RowsFollow, HistoryFollows,
              RowsExclusive, NoCallsDown, OneClaimEach, Live

LEMMA SafeNext == TypeInv /\ TypeInv' /\ SafeInv /\ [Next]_vars => SafeInv'
<1>. SUFFICES ASSUME TypeInv, TypeInv', SafeInv, [Next]_vars PROVE SafeInv'
  OBVIOUS
<1>1. CASE UNCHANGED vars
  BY <1>1, IdleSafe DEF vars, calls, disk, ghosts
<1>2. CASE Next
  BY <1>2, AgentSafe, SyncSafe, TickSafe, CrashSafe, RestartSafe DEF Next, WorldStep
<1>. QED  BY <1>1, <1>2

\* The strengthened invariant holds in every behaviour.
THEOREM SafeTheorem == Spec => []SafeInv
<1>. QED  BY SafeInit, SafeNext, TypeTheorem, PTL DEF Spec

-----------------------------------------------------------------------------
(* The properties                                                          *)

\* README.md "Claim exclusivity with per-issue locking", as far as it is true:
\* until a restart on rows that a failed write left behind, no two active
\* claims are on one issue.
THEOREM ExclusiveHolds == Spec => []Exclusive
<1>1. SafeInv => Exclusive
  BY DEF SafeInv, IndexComplete, Exclusive, OneClaimEach
<1>. QED  BY <1>1, SafeTheorem, PTL

\* The index leads to active claims of its issues, always, and to all of them
\* until such a restart.
THEOREM IndexHolds == Spec => []IndexConsistent
<1>1. SafeInv => IndexConsistent
  BY DEF SafeInv, IndexConsistent
<1>. QED  BY <1>1, SafeTheorem, PTL

\* The rows are memory, but for the claims whose last write failed.
THEOREM DiskHolds == Spec => []DiskFollowsMemory
<1>1. SafeInv => DiskFollowsMemory
  BY DEF SafeInv, RowsFollow, HistoryFollows, DiskFollowsMemory
<1>. QED  BY <1>1, SafeTheorem, PTL

-----------------------------------------------------------------------------
(* The refinement: no write is ever behind                                 *)

Clean == dirty = {} /\ ~tainted

\* A body's transaction cannot fail, so it leaves nothing behind.
LEMMA TransactClean ==
  ASSUME MaxFailures = 0, DiskOK, Clean, NEW p, NEW id, NEW before, NEW after, NEW a,
         Transact(p, id, before, after, a)
  PROVE  dirty' = {}
BY DEF Transact, Clean, DiskOK

LEMMA BodyClean ==
  ASSUME MaxFailures = 0, DiskOK, Clean, NEW p, NEW id, NEW c, NEW before, NEW to, NEW pr,
         NEW source, applyTransitionLocked(p, id, c, before, to, pr, source)
  PROVE  dirty' = {}
<1>1. ASSUME NEW a, NothingDone(p, a)
      PROVE  dirty' = {}
  BY <1>1 DEF NothingDone, disk, Clean
<1>2. CASE MoveClaim(p, id, c, before, to, pr)
  BY <1>2, TransactClean DEF MoveClaim
<1>3. CASE EndClaim(p, id, c, before, to, pr)
  BY <1>3, TransactClean DEF EndClaim
<1>. QED  BY <1>1, <1>2, <1>3 DEF applyTransitionLocked

LEMMA RunClean ==
  ASSUME MaxFailures = 0, DiskOK, Clean, NEW p, Run(p)
  PROVE  dirty' = {}
<1>1. ASSUME NEW q, NEW a, NothingDone(q, a)
      PROVE  dirty' = {}
  BY <1>1 DEF NothingDone, disk, Clean
<1>2. CASE RunClaim(p)
  <2>1. ASSUME NEW id, CreateClaim(p, id, request[p])
        PROVE  dirty' = {}
    BY <2>1, TransactClean DEF CreateClaim
  <2>. QED  BY <1>1, <1>2, <2>1 DEF RunClaim
<1>3. CASE RunUpdate(p)
  BY <1>1, <1>3, BodyClean DEF RunUpdate
<1>4. CASE RunSweep
  BY <1>1, <1>4, BodyClean DEF RunSweep
<1>5. CASE RunReconcile
  <2>1. ~(failures < MaxFailures)
    BY DEF DiskOK
  <2>2. UNCHANGED disk => dirty' = {}
    BY DEF disk, Clean
  <2>. QED  BY <1>1, <1>5, <2>1, <2>2, BodyClean, TransactClean DEF RunReconcile
<1>. QED  BY <1>2, <1>3, <1>4, <1>5 DEF Run

\* Nothing is ever behind, and no restart ever loses a write.
LEMMA CleanNext ==
  ASSUME MaxFailures = 0, DiskOK, Clean, [Next]_vars
  PROVE  Clean'
<1>1. ASSUME NEW p, Run(p)
      PROVE  Clean'
  <2>1. UNCHANGED world
    BY <1>1 DEF Run, RunClaim, RunUpdate, RunSweep, RunReconcile
  <2>. QED  BY <1>1, <2>1, RunClean DEF Clean, world
<1>2. CASE UNCHANGED <<dirty, tainted>>
  BY <1>2 DEF Clean
<1>3. ASSUME NEW p, NEW r, withIssueLock(p, r)
      PROVE  Clean'
  BY <1>2, <1>3 DEF withIssueLock, disk, world
<1>4. ASSUME NEW t \in Tasks, AgentStep(t)
      PROVE  Clean'
  <2>1. ASSUME Finish(t) PROVE Clean'
    BY <1>2, <2>1 DEF Finish, disk, world
  <2>. QED  BY <1>1, <1>3, <1>4, <2>1
            DEF AgentStep, InvokeClaim, InvokeUpdate, InvokeRelease
<1>5. CASE SyncStep
  <2>1. CASE StartSweep \/ setLastGithubSyncAt \/ Finish(Syncer)
    BY <1>2, <2>1 DEF StartSweep, setLastGithubSyncAt, Finish, disk, world
  <2>. QED  BY <1>1, <1>3, <1>5, <2>1 DEF SyncStep, SweepNext, InvokeReconcile
<1>6. CASE WorldStep
  <2>1. CASE Tick \/ Crash
    BY <1>2, <2>1 DEF Tick, Crash, disk, world
  <2>2. CASE Restart
    BY <2>2 DEF Restart, Clean
  <2>. QED  BY <1>6, <2>1, <2>2 DEF WorldStep
<1>7. CASE UNCHANGED vars
  BY <1>2, <1>7 DEF vars, disk, world
<1>. QED  BY <1>4, <1>5, <1>6, <1>7 DEF Next

-----------------------------------------------------------------------------
(* What a step does to the rows, as the registry sees them                 *)

RowsSame ==
  /\ \A d \in ClaimIds : HolderOf(db'.active[d]) = HolderOf(db.active[d])
  /\ issued' = issued

RowEnds(id) ==
  /\ db.active[id] # NoClaim /\ db'.active[id] = NoClaim
  /\ \A d \in ClaimIds \ {id} : db'.active[d] = db.active[d]
  /\ issued' = issued

RowMade(id, i, a) ==
  /\ id \notin issued /\ issued' = issued \cup {id}
  /\ db.active[id] = NoClaim
  /\ db'.active[id] # NoClaim /\ HolderOf(db'.active[id]) = [issue |-> i, agent |-> a]
  /\ \A d \in ClaimIds \ {id} : db'.active[d] = db.active[d]
  /\ \A d \in Live(db.active) : db.active[d].issue # i

RowStep ==
  \/ RowsSame
  \/ \E id \in ClaimIds : RowEnds(id)
  \/ \E id \in ClaimIds, i \in Issues, a \in Agents : RowMade(id, i, a)

\* HolderOf tells an active claim from none.
LEMMA HolderOfType ==
  ASSUME NEW c \in Claim
  PROVE  /\ HolderOf(c) = [issue |-> c.issue, agent |-> c.agent]
         /\ HolderOf(c) \in [issue : Issues, agent : Agents]
         /\ HolderOf(c) # NoClaim
<1>1. c # NoClaim /\ c.issue \in Issues /\ c.agent \in Agents
  BY SentinelAssumption DEF Claim
<1>2. HolderOf(c) = [issue |-> c.issue, agent |-> c.agent]
  BY <1>1 DEF HolderOf
<1>. QED  BY <1>1, <1>2, HolderAssumption

\* The facts about the rows that the step from memory to disk rests on.
LEMMA RowFacts ==
  ASSUME TypeInv, SafeInv, Clean, up
  PROVE  /\ db.active \in [ClaimIds -> Claim \cup {NoClaim}]
         /\ \A d \in ClaimIds : db.active[d] = activeClaims[d]
BY DEF TypeInv, TypeOK, DiskOK, Rows, SafeInv, RowsFollow, Clean

\* The row of one claim is written, and the registry sees no difference.
LEMMA PutRow ==
  ASSUME TypeInv, SafeInv, Clean, up, issued' = issued, dirty' = {},
         NEW id \in ClaimIds, activeClaims[id] # NoClaim,
         NEW c \in Claim, c.issue = activeClaims[id].issue, c.agent = activeClaims[id].agent,
         RowEffect(id, c)
  PROVE  RowStep
<1>1. /\ db.active[id] = activeClaims[id] /\ db.active[id] \in Claim
      /\ db'.active[id] = c
      /\ \A d \in ClaimIds \ {id} : db'.active[d] = db.active[d]
  BY RowFacts DEF RowEffect
<1>2. HolderOf(db'.active[id]) = HolderOf(db.active[id])
  BY <1>1, HolderOfType
<1>. QED  BY <1>1, <1>2 DEF RowStep, RowsSame

LEMMA TransitionRow ==
  ASSUME TypeInv, SafeInv, Clean, up, dirty' = {}, UNCHANGED ghosts,
         NEW p \in Procs, NEW id \in ClaimIds, activeClaims[id] # NoClaim,
         NEW c \in Claim, c.issue = activeClaims[id].issue, c.agent = activeClaims[id].agent,
         NEW before \in Rows, before.history = db.history,
         \A d \in ClaimIds \ {id} : before.active[d] = db.active[d],
         NEW to \in Status, NEW pr \in BOOLEAN, NEW source,
         applyTransitionLocked(p, id, c, before, to, pr, source)
  PROVE  RowStep
<1>0. DiskOK /\ MemoryOK /\ issued' = issued
  BY DEF TypeInv, TypeOK, ghosts
<1>1. ASSUME NEW b, NothingDone(p, b)
      PROVE  RowStep
  BY <1>0, <1>1 DEF NothingDone, disk, RowStep, RowsSame
<1>2. CASE to \notin Terminal /\ MoveClaim(p, id, c, before, to, pr)
  <2>. DEFINE m == Moved(c, to, pr)
  <2>1. to \in Active
    BY <1>2 DEF Status
  <2>2. m \in Claim /\ m.issue = activeClaims[id].issue
    BY <2>1, MovedType
  <2>3. m.agent = activeClaims[id].agent
    BY <2>1 DEF Moved, Claim
  <2>4. /\ RowPut(before, id, m) \in Rows
        /\ RowPut(before, id, m).active = [before.active EXCEPT ![id] = m]
    BY <2>2, RowPutType
  <2>5. Transact(p, id, before, RowPut(before, id, m), "applied")
    BY <1>2 DEF MoveClaim
  <2>6. RowEffect(id, m)
    BY <1>0, <2>4, <2>5, TransactRows
  <2>. QED  BY <1>0, <2>2, <2>3, <2>6, PutRow
<1>3. CASE to \in Terminal /\ EndClaim(p, id, c, before, to, pr)
  <2>. DEFINE e == EndEntry(id, c, to, pr)
  <2>1. e \in Entry
    BY <1>3, EndEntryType
  <2>2. /\ RowRetired(before, id, e) \in Rows
        /\ RowRetired(before, id, e).active = [before.active EXCEPT ![id] = NoClaim]
    BY <2>1, RowRetiredType
  <2>3. Transact(p, id, before, RowRetired(before, id, e), "applied")
    BY <1>3 DEF EndClaim
  <2>4. RowEffect(id, NoClaim)
    BY <1>0, <2>2, <2>3, TransactRows
  <2>5. RowEnds(id)
    BY <1>0, <2>4, RowFacts DEF RowEffect, RowEnds
  <2>. QED  BY <2>5 DEF RowStep
<1>. QED  BY <1>1, <1>2, <1>3 DEF applyTransitionLocked

-----------------------------------------------------------------------------
(* The bodies                                                              *)

LEMMA RunUpdateRow ==
  ASSUME TypeInv, SafeInv, Clean, dirty' = {}, NEW t \in Tasks, RunUpdate(t)
  PROVE  RowStep
<1>. DEFINE r == request[t]
            c == activeClaims[r.claim_id]
<1>0. HasLock(t) /\ t \in Procs
  BY DEF RunUpdate
<1>1. t \in Procs /\ r \in UpdateRequest /\ up
  BY <1>0, RequestKinds, BodyUp DEF RunUpdate
<1>2. r.claim_id \in ClaimIds /\ r.to \in Status /\ r.pr \in BOOLEAN
  BY <1>1 DEF UpdateRequest
<1>3. UNCHANGED ghosts
  BY DEF RunUpdate
<1>4. CASE NothingDone(t, "rejected")
  BY <1>3, <1>4 DEF NothingDone, disk, ghosts, RowStep, RowsSame
<1>5. CASE OwnedBy(c, r.agent) /\ applyTransitionLocked(t, r.claim_id, c, db, r.to, r.pr, "agent")
  <2>1. c \in Claim /\ c # NoClaim /\ db \in Rows
    BY <1>2, <1>5 DEF OwnedBy, TypeInv, TypeOK, MemoryOK, DiskOK
  <2>. QED  BY <1>1, <1>2, <1>3, <1>5, <2>1, TransitionRow
<1>. QED  BY <1>4, <1>5 DEF RunUpdate

LEMMA RunSweepRow ==
  ASSUME TypeInv, SafeInv, Clean, dirty' = {}, RunSweep
  PROVE  RowStep
<1>. DEFINE id == request[Syncer].claim_id
            c  == activeClaims[id]
<1>0. HasLock(Syncer) /\ Syncer \in Procs
  BY DEF RunSweep
<1>1. Syncer \in Procs /\ request[Syncer] \in SweepRequest /\ up
  BY <1>0, RequestKinds, BodyUp DEF RunSweep
<1>2. id \in ClaimIds
  BY <1>1 DEF SweepRequest
<1>3. UNCHANGED ghosts
  BY DEF RunSweep
<1>4. CASE NothingDone(Syncer, "same")
  BY <1>3, <1>4 DEF NothingDone, disk, ghosts, RowStep, RowsSame
<1>5. ASSUME NEW to \in {"stale", "released"}, MarksStale(c) \/ ReleasesStale(c),
             applyTransitionLocked(Syncer, id, c, db, to, FALSE, "sync")
      PROVE  RowStep
  <2>1. c \in Claim /\ c # NoClaim /\ db \in Rows
    BY <1>2, <1>5 DEF MarksStale, ReleasesStale, TypeInv, TypeOK, MemoryOK, DiskOK
  <2>2. to \in Status
    BY DEF Status, Active, Terminal
  <2>. QED  BY <1>1, <1>2, <1>3, <1>5, <2>1, <2>2, TransitionRow
<1>. QED  BY <1>4, <1>5 DEF RunSweep

LEMMA RunReconcileRow ==
  ASSUME MaxFailures = 0, TypeInv, SafeInv, Clean, dirty' = {}, RunReconcile
  PROVE  RowStep
<1>. DEFINE r  == request[Syncer]
            id == issueToClaimId[r.issue]
            c  == Holder(r.issue)
            refreshed == Refreshed(c, r.meta)
            written == IF refreshed = c THEN db ELSE RowPut(db, id, refreshed)
<1>0. HasLock(Syncer) /\ Syncer \in Procs
  BY DEF RunReconcile
<1>1. Syncer \in Procs /\ r \in ReconcileRequest /\ up
  BY <1>0, RequestKinds, BodyUp DEF RunReconcile
<1>2. r.issue \in Issues /\ r.meta \in Metas
  BY <1>1 DEF ReconcileRequest
<1>3. UNCHANGED ghosts /\ issued' = issued
  BY DEF RunReconcile, ghosts
<1>4. MemoryOK /\ DiskOK /\ db \in Rows
  BY DEF TypeInv, TypeOK, DiskOK
<1>5. ASSUME c # NoClaim
      PROVE  /\ id \in ClaimIds /\ c = activeClaims[id] /\ activeClaims[id] # NoClaim
             /\ refreshed \in Claim /\ refreshed.issue = activeClaims[id].issue
             /\ refreshed.agent = activeClaims[id].agent
             /\ RowPut(db, id, refreshed) \in Rows
             /\ RowPut(db, id, refreshed).history = db.history
             /\ RowPut(db, id, refreshed).active = [db.active EXCEPT ![id] = refreshed]
             /\ \A d \in ClaimIds \ {id} : RowPut(db, id, refreshed).active[d] = db.active[d]
  <2>1. id \in ClaimIds /\ c = activeClaims[id] /\ c \in Claim
    BY <1>2, <1>4, <1>5 DEF Holder, MemoryOK
  <2>2. refreshed \in Claim /\ refreshed.issue = c.issue
    BY <1>2, <2>1, RefreshedType
  <2>3. refreshed.agent = c.agent
    BY <2>1 DEF Refreshed, Claim
  <2>4. /\ RowPut(db, id, refreshed) \in Rows
        /\ RowPut(db, id, refreshed).history = db.history
        /\ RowPut(db, id, refreshed).active = [db.active EXCEPT ![id] = refreshed]
    BY <1>4, <2>1, <2>2, RowPutType
  <2>5. \A d \in ClaimIds \ {id} : RowPut(db, id, refreshed).active[d] = db.active[d]
    BY <1>4, <2>4 DEF Rows
  <2>. QED  BY <1>5, <2>1, <2>2, <2>3, <2>4, <2>5
<1>6. CASE UNCHANGED disk
  BY <1>3, <1>6 DEF disk, RowStep, RowsSame
<1>7. CASE /\ c # NoClaim /\ c.meta # r.meta
           /\ activeClaims' = [activeClaims EXCEPT ![id] = refreshed]
           /\ Transact(Syncer, id, db, written, "applied")
  <2>1. refreshed # c
    <3>1. c \in Claim
      BY <1>4, <1>5, <1>7 DEF MemoryOK
    <3>2. refreshed.meta = r.meta
      BY <1>7, <3>1 DEF Refreshed, Claim
    <3>. QED  BY <1>7, <3>2
  <2>2. written \in Rows /\ written.active = [db.active EXCEPT ![id] = refreshed]
    BY <1>5, <1>7, <2>1
  <2>3. RowEffect(id, refreshed)
    BY <1>4, <1>5, <1>7, <2>2, TransactRows
  <2>. QED  BY <1>1, <1>3, <1>5, <1>7, <2>3, PutRow
<1>8. CASE failures < MaxFailures
  BY <1>4, <1>8 DEF DiskOK
<1>9. CASE /\ c # NoClaim
           /\ applyTransitionLocked(Syncer, id, refreshed, written, "closed", FALSE, "sync")
  <2>1. "closed" \in Status
    BY DEF Status, Terminal
  <2>2. /\ written \in Rows /\ written.history = db.history
        /\ \A d \in ClaimIds \ {id} : written.active[d] = db.active[d]
    BY <1>4, <1>5, <1>9
  <2>. QED  BY <1>1, <1>3, <1>5, <1>9, <2>1, <2>2, TransitionRow
<1>. QED  BY <1>6, <1>7, <1>8, <1>9 DEF RunReconcile, NothingDone

\* claimIssue's check of the index is a check of all the rows.
LEMMA RunClaimRow ==
  ASSUME TypeInv, SafeInv, Clean, dirty' = {}, NEW t \in Tasks, RunClaim(t)
  PROVE  RowStep
<1>. DEFINE r == request[t]
<1>0. HasLock(t) /\ t \in Procs
  BY DEF RunClaim
<1>1. r \in ClaimRequest /\ up
  BY <1>0, RequestKinds, BodyUp DEF RunClaim
<1>2. ASSUME NEW a, NothingDone(t, a), issued' = issued
      PROVE  RowStep
  BY <1>2 DEF NothingDone, disk, RowStep, RowsSame
<1>3. ASSUME NEW id \in ClaimIds \ issued, Holder(r.issue) = NoClaim, CreateClaim(t, id, r)
      PROVE  RowStep
  <2>. DEFINE n == NewClaim(r)
              after == [RowPut(db, id, n) EXCEPT !.total = totalClaims + 1]
  <2>1. /\ n \in Claim /\ n.issue = r.issue /\ n.agent = r.agent
        /\ r.issue \in Issues /\ r.agent \in Agents
    BY <1>1, NewClaimType DEF NewClaim, ClaimRequest
  <2>2. DiskOK /\ MemoryOK /\ db \in Rows
    BY DEF TypeInv, TypeOK, DiskOK
  <2>3. /\ RowPut(db, id, n) \in Rows /\ RowPut(db, id, n).history = db.history
        /\ RowPut(db, id, n).active = [db.active EXCEPT ![id] = n]
    BY <2>1, <2>2, RowPutType
  <2>4. totalClaims + 1 \in Int
    BY <2>2 DEF MemoryOK
  <2>5. after \in Rows /\ after.active = [db.active EXCEPT ![id] = n]
    BY <2>3, <2>4 DEF Rows
  <2>6. Transact(t, id, db, after, "granted") /\ issued' = issued \cup {id}
    BY <1>3 DEF CreateClaim
  <2>. HIDE DEF after, n
  <2>7. RowEffect(id, n)
    <3>1. id \in ClaimIds
      OBVIOUS
    <3>. QED  BY <2>2, <2>5, <2>6, <3>1, TransactRows
  <2>8. /\ db'.active[id] = n /\ HolderOf(n) = [issue |-> r.issue, agent |-> r.agent]
        /\ n # NoClaim /\ db.active[id] = NoClaim
        /\ \A d \in ClaimIds \ {id} : db'.active[d] = db.active[d]
    BY <2>1, <2>7, HolderOfType, SentinelAssumption DEF RowEffect, SafeInv, FreshIds
  <2>9. \A d \in Live(db.active) : db.active[d].issue # r.issue
    <3>. SUFFICES ASSUME NEW d \in Live(db.active), db.active[d].issue = r.issue
                  PROVE  FALSE
      OBVIOUS
    <3>1. d \in Live(activeClaims) /\ activeClaims[d].issue = r.issue
      BY <1>1, RowFacts DEF Live
    <3>2. issueToClaimId[r.issue] = d
      BY <3>1 DEF SafeInv, IndexComplete, Clean
    <3>. QED  BY <1>3, <3>1, <3>2, SentinelAssumption DEF Holder, Live
  <2>10. RowMade(id, r.issue, r.agent)
    BY <2>6, <2>8, <2>9 DEF RowMade
  <2>. QED  BY <2>1, <2>10 DEF RowStep
<1>. QED  BY <1>2, <1>3 DEF RunClaim

-----------------------------------------------------------------------------
(* Every step                                                              *)

\* The passing of time ages the rows and moves none.
LEMMA TickRow ==
  ASSUME TypeInv, Tick
  PROVE  RowsSame
<1>1. db.active \in [ClaimIds -> Claim \cup {NoClaim}] /\ db'.active = Aged(db.active)
  BY DEF TypeInv, TypeOK, DiskOK, Rows, Tick
<1>2. ASSUME NEW d \in ClaimIds
      PROVE  HolderOf(db'.active[d]) = HolderOf(db.active[d])
  <2>1. CASE db.active[d] = NoClaim
    BY <1>1, <2>1 DEF Aged
  <2>2. CASE db.active[d] # NoClaim
    <3>1. db.active[d] \in Claim /\ db'.active[d] = Older(db.active[d])
      BY <1>1, <2>2 DEF Aged
    <3>. QED  BY <3>1, OlderType, HolderOfType
  <2>. QED  BY <2>1, <2>2
<1>. QED  BY <1>2 DEF RowsSame, Tick, ghosts

LEMMA RowStepNext ==
  ASSUME MaxFailures = 0, TypeInv, SafeInv, Clean, Clean', [Next]_vars
  PROVE  RowStep
<1>0. dirty' = {}
  BY DEF Clean
<1>1. CASE UNCHANGED <<db, issued>>
  BY <1>1 DEF RowStep, RowsSame
<1>2. ASSUME NEW p, NEW r, withIssueLock(p, r)
      PROVE  RowStep
  BY <1>1, <1>2 DEF withIssueLock, disk, ghosts
<1>3. ASSUME NEW p, Finish(p)
      PROVE  RowStep
  BY <1>1, <1>3 DEF Finish, disk
<1>4. ASSUME NEW t \in Tasks, AgentStep(t)
      PROVE  RowStep
  <2>1. CASE Run(t)
    BY <1>0, <2>1, RunClaimRow, RunUpdateRow, RunSweepRow, RunReconcileRow DEF Run
  <2>. QED  BY <1>2, <1>3, <1>4, <2>1
            DEF AgentStep, InvokeClaim, InvokeUpdate, InvokeRelease
<1>5. CASE SyncStep
  <2>1. CASE Run(Syncer)
    BY <1>0, <2>1, RunSweepRow, RunReconcileRow DEF Run
  <2>2. CASE setLastGithubSyncAt
    <3>1. db'.active = db.active /\ issued' = issued
      BY <2>2 DEF setLastGithubSyncAt, ghosts, TypeInv, TypeOK, DiskOK, Rows
    <3>. QED  BY <3>1 DEF RowStep, RowsSame
  <2>3. CASE StartSweep
    BY <1>1, <2>3 DEF StartSweep, disk, ghosts
  <2>. QED  BY <1>2, <1>3, <1>5, <2>1, <2>2, <2>3 DEF SyncStep, SweepNext, InvokeReconcile
<1>6. CASE WorldStep
  <2>1. CASE Tick
    BY <2>1, TickRow DEF RowStep
  <2>2. CASE Crash \/ Restart
    BY <1>1, <2>2 DEF Crash, Restart, disk, ghosts
  <2>. QED  BY <1>6, <2>1, <2>2 DEF WorldStep
<1>7. CASE UNCHANGED vars
  BY <1>1, <1>7 DEF vars, disk, ghosts
<1>. QED  BY <1>4, <1>5, <1>6, <1>7 DEF Next

-----------------------------------------------------------------------------
(* The registry                                                            *)

holderOfRows == [id \in ClaimIds |-> HolderOf(db.active[id])]

spentIds == issued \ Live(db.active)

\* A step on the rows is a step of the registry, or a stutter.
LEMMA RowStepMaps ==
  ASSUME TypeOK, TypeOK', FreshIds, FreshIds', RowStep
  PROVE  [Registry!Next]_(Registry!vars)
<1>1. /\ db.active \in [ClaimIds -> Claim \cup {NoClaim}]
      /\ db'.active \in [ClaimIds -> Claim \cup {NoClaim}]
      /\ issued \subseteq ClaimIds
  BY DEF TypeOK, DiskOK, Rows, WorldOK
<1>2. \A d \in ClaimIds : /\ db.active[d] # NoClaim <=> HolderOf(db.active[d]) # NoClaim
                          /\ db'.active[d] # NoClaim <=> HolderOf(db'.active[d]) # NoClaim
  BY <1>1, HolderOfType DEF HolderOf
<1>3. CASE RowsSame
  <2>1. holderOfRows' = holderOfRows
    BY <1>3 DEF RowsSame, holderOfRows
  <2>2. spentIds' = spentIds
    BY <1>2, <1>3 DEF RowsSame, spentIds, Live
  <2>. QED  BY <2>1, <2>2 DEF Registry!vars, holderOfRows, spentIds
<1>4. ASSUME NEW id \in ClaimIds, RowEnds(id)
      PROVE  Registry!End(id)
  <2>1. id \in issued
    BY <1>4 DEF RowEnds, FreshIds
  <2>2. holderOfRows' = [holderOfRows EXCEPT ![id] = NoClaim]
    <3>1. \A d \in ClaimIds :
            HolderOf(db'.active[d]) = IF d = id THEN NoClaim ELSE HolderOf(db.active[d])
      BY <1>4 DEF RowEnds, HolderOf
    <3>. QED  BY <3>1, Zenon DEF holderOfRows
  <2>3. spentIds' = spentIds \cup {id}
    BY <1>4, <2>1 DEF RowEnds, spentIds, Live
  <2>4. holderOfRows[id] # NoClaim
    BY <1>2, <1>4 DEF RowEnds, holderOfRows
  <2>. QED  BY <2>2, <2>3, <2>4 DEF Registry!End, holderOfRows, spentIds
<1>5. ASSUME NEW id \in ClaimIds, NEW i \in Issues, NEW a \in Agents, RowMade(id, i, a)
      PROVE  Registry!Grant(id, i, a)
  <2>1. id \notin spentIds /\ holderOfRows[id] = NoClaim
    BY <1>5 DEF RowMade, spentIds, holderOfRows, HolderOf
  <2>2. \A d \in ClaimIds : holderOfRows[d] # NoClaim => holderOfRows[d].issue # i
    <3>. SUFFICES ASSUME NEW d \in ClaimIds, holderOfRows[d] # NoClaim
                  PROVE  holderOfRows[d].issue # i
      OBVIOUS
    <3>1. db.active[d] # NoClaim /\ db.active[d] \in Claim
      BY <1>1, <1>2 DEF holderOfRows
    <3>2. holderOfRows[d].issue = db.active[d].issue
      BY <3>1, HolderOfType DEF holderOfRows
    <3>. QED  BY <1>5, <3>1, <3>2 DEF RowMade, Live
  <2>3. holderOfRows' = [holderOfRows EXCEPT ![id] = [issue |-> i, agent |-> a]]
    <3>1. \A d \in ClaimIds :
            HolderOf(db'.active[d]) = IF d = id THEN [issue |-> i, agent |-> a]
                                                ELSE HolderOf(db.active[d])
      BY <1>5 DEF RowMade
    <3>. QED  BY <3>1, Zenon DEF holderOfRows
  <2>4. spentIds' = spentIds
    BY <1>5 DEF RowMade, spentIds, Live
  <2>. QED  BY <2>1, <2>2, <2>3, <2>4 DEF Registry!Grant, Registry!Free, holderOfRows, spentIds
<1>. QED  BY <1>3, <1>4, <1>5 DEF RowStep, Registry!Next

\* While no write fails, the manager implements the lock service that
\* ClaimRegistry states, whatever calls, sweeps, crashes and restarts
\* interleave (claimIssue, applyTransitionLocked, hydrate).
THEOREM RegistryImplemented ==
  ASSUME MaxFailures = 0
  PROVE  Spec => ImplementsRegistry
<1>1. Init => Clean /\ Registry!Init
  <2>. SUFFICES ASSUME Init PROVE Clean /\ Registry!Init
    OBVIOUS
  <2>1. Live(db.active) = {} /\ issued = {} /\ \A id \in ClaimIds : db.active[id] = NoClaim
    BY DEF Init, Live
  <2>. QED  BY <2>1 DEF Init, Clean, Registry!Init, HolderOf
<1>2. TypeInv /\ SafeInv /\ Clean /\ [Next]_vars => Clean'
  BY CleanNext DEF TypeInv, TypeOK
<1>3. /\ TypeInv /\ SafeInv /\ Clean /\ TypeInv' /\ SafeInv' /\ Clean' /\ [Next]_vars
      => [Registry!Next]_(Registry!vars)
  BY RowStepNext, RowStepMaps DEF TypeInv, SafeInv
<1>. QED  BY <1>1, <1>2, <1>3, TypeTheorem, SafeTheorem, PTL
          DEF Spec, ImplementsRegistry, Registry!Spec

=============================================================================
