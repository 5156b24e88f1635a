------------------------ MODULE FollowupSafetyProofs ------------------------
(***************************************************************************)
(* What keeps FollowupManager's memory and rows right, for every value of  *)
(* its constants.                                                          *)
(*                                                                         *)
(* SafeInv is TypeInv with memory's consistency (MemoryInv: items are      *)
(* numbered in order, end once, and the map that deduplicates leads to     *)
(* them) and that of the rows (RowsInv: they fit the UNIQUE constraints).  *)
(* On top of it, and proved one after the other:                           *)
(*   FollowInv    but for dirty items, the rows are memory;                *)
(*   SeenInv      what is known of an event was noted, and what was noted  *)
(*                and written is known while the lists do not overflow;    *)
(*   FinishedInv  what has ended for good has no item any more;            *)
(*   CleanInv     while no write fails nothing is dirty, and no event of   *)
(*                the history is active.                                   *)
(* Each is preserved by the five things a body does to the data, by the    *)
(* clock, by a crash and by a restart.                                     *)
(*                                                                         *)
(* The refinement reads FollowupQueue's state off the rows.  With CleanInv *)
(* a step leaves the rows as they look (RowsStill), moves one (RowMoved),  *)
(* makes one (RowMade) or retires one (RowOver), which is a stutter, a     *)
(* Take or Lapse, an Enqueue, a Settle (StepMaps).                         *)
(***************************************************************************)
EXTENDS FollowupRefinement, FollowupProofs

-----------------------------------------------------------------------------
(* What each step leaves of the rows                                       *)

LEMMA FitsTrimmed ==
  ASSUME NEW rows, NEW cut, Fits(rows), rows.history \in Seq(Entry),
         cut.active = rows.active, cut.history = trimHistory(rows.history)
  PROVE  Fits(cut)
<1>1. \A n \in 1..Len(cut.history) :
        n \in 1..Len(rows.history) /\ cut.history[n] = rows.history[n]
  BY TrimIs
<1>. QED  BY <1>1 DEF Fits

\* A transaction commits, or leaves the rows as they were.
LEMMA WroteIs ==
  ASSUME NEW ids, NEW after \in Rows, Wrote(ids, after)
  PROVE  \/ /\ Fits(db') /\ dirty' = dirty \ ids /\ failures' = failures
            /\ db'.active = after.active /\ db'.seen = after.seen
            /\ db'.history = trimHistory(after.history)
         \/ /\ db' = db /\ dirty' = dirty \cup ids
            /\ Fits(after) => failures < MaxFailures /\ failures' = failures + 1
<1>1. CASE /\ Fits(after) /\ db' = [after EXCEPT !.history = trimHistory(@)]
           /\ dirty' = dirty \ ids /\ failures' = failures
  <2>1. /\ db'.active = after.active /\ db'.seen = after.seen
        /\ db'.history = trimHistory(after.history) /\ after.history \in Seq(Entry)
    BY <1>1 DEF Rows
  <2>2. Fits(db')
    BY <1>1, <2>1, FitsTrimmed
  <2>. QED  BY <1>1, <2>1, <2>2
<1>. QED  BY <1>1 DEF Wrote

MovedRows(id, c) ==
  /\ Fits(db') /\ dirty' = dirty \ {id}
  /\ db'.active = [db.active EXCEPT ![id] = c]
  /\ db'.history = db.history /\ db'.seen = db.seen

CreatedRows(id, e) ==
  /\ Fits(db') /\ dirty' = dirty \ {id}
  /\ db'.active = [db.active EXCEPT ![id] = NewItem(e)]
  /\ db'.history = db.history /\ db'.seen = RowSeen(db.seen, e)

EndedRows(id, to) ==
  /\ Fits(db') /\ dirty' = dirty \ {id}
  /\ db'.active = [db.active EXCEPT ![id] = NoWork]
  /\ db'.history = trimHistory(<<Ended(id, to)>> \o db.history) /\ db'.seen = db.seen

NotedRows(e) ==
  /\ Fits(db') /\ dirty' = dirty /\ failures' = failures
  /\ db'.active = db.active
  /\ db'.history = db.history /\ db'.seen = RowSeen(db.seen, e)

SameRows(ids) == db' = db /\ dirty' = dirty \cup ids

LEMMA RowsAsTheyAre ==
  ASSUME DataOK
  PROVE  /\ db \in Rows /\ db.active \in Items /\ db.history \in Seq(Entry)
         /\ db.seen \in SeenList /\ seenSourceEventIds \in SeenList
         /\ active \in Items /\ history \in Seq(Entry)
         /\ trimHistory(db.history) = db.history
BY TrimIdle DEF DataOK, Rows

LEMMA MovesRows ==
  ASSUME DataOK, NEW id \in Live(active), NEW c \in Followup, MovesTo(id, c)
  PROVE  \/ MovedRows(id, c)
         \/ SameRows({id}) /\ (Fits(RowPut(db, id, c)) => failures < MaxFailures)
<1>. DEFINE after == RowPut(db, id, c)
<1>1. id \in WorkItems
  BY DEF Live
<1>2. /\ after \in Rows /\ after.active = [db.active EXCEPT ![id] = c]
      /\ after.history = db.history /\ after.seen = db.seen
  BY <1>1, RowPutType, RowsAsTheyAre
<1>. HIDE DEF after
<1>3. Wrote({id}, after)
  BY DEF MovesTo, after
<1>4. \/ MovedRows(id, c)
      \/ SameRows({id}) /\ (Fits(after) => failures < MaxFailures)
  BY <1>2, <1>3, WroteIs, RowsAsTheyAre DEF MovedRows, SameRows
<1>. QED  BY <1>4 DEF after

LEMMA CreatesRows ==
  ASSUME DataOK, NEW id \in WorkItems, NEW e \in Comments, Creates(id, e)
  PROVE  \/ CreatedRows(id, e)
         \/ /\ SameRows({id})
            /\ Fits(RowNoted(RowPut(db, id, NewItem(e)), e)) => failures < MaxFailures
<1>. DEFINE put == RowPut(db, id, NewItem(e))
            after == RowNoted(put, e)
<1>1. NewItem(e) \in Followup /\ e \in SourceEvents
  BY NewItemType, PushOrComment
<1>2. /\ put \in Rows /\ put.active = [db.active EXCEPT ![id] = NewItem(e)]
      /\ put.history = db.history /\ put.seen = db.seen
  BY <1>1, RowPutType, RowsAsTheyAre
<1>. HIDE DEF put
<1>3. /\ after \in Rows /\ after.active = put.active
      /\ after.history = put.history /\ after.seen = RowSeen(put.seen, e)
  BY <1>1, <1>2, RowNotedType, RowsAsTheyAre
<1>. HIDE DEF after
<1>4. Wrote({id}, after)
  BY DEF Creates, after, put
<1>5. \/ CreatedRows(id, e)
      \/ SameRows({id}) /\ (Fits(after) => failures < MaxFailures)
  BY <1>2, <1>3, <1>4, WroteIs, RowsAsTheyAre DEF CreatedRows, SameRows
<1>. QED  BY <1>5 DEF after, put

LEMMA EndsRows ==
  ASSUME DataOK, NEW id \in Live(active), NEW to \in Settled, Ends(id, to)
  PROVE  \/ EndedRows(id, to)
         \/ /\ SameRows({id})
            /\ Fits(RowRetired(db, id, Ended(id, to))) => failures < MaxFailures
<1>. DEFINE after == RowRetired(db, id, Ended(id, to))
<1>1. id \in WorkItems /\ Ended(id, to) \in Entry
  BY EndedType
<1>2. /\ after \in Rows /\ after.active = [db.active EXCEPT ![id] = NoWork]
      /\ after.history = <<Ended(id, to)>> \o db.history /\ after.seen = db.seen
  BY <1>1, RowRetiredType, RowsAsTheyAre
<1>. HIDE DEF after
<1>3. Wrote({id}, after)
  BY DEF Ends, after
<1>4. \/ EndedRows(id, to)
      \/ SameRows({id}) /\ (Fits(after) => failures < MaxFailures)
  BY <1>2, <1>3, WroteIs DEF EndedRows, SameRows
<1>. QED  BY <1>4 DEF after

\* A failure to note a push is one of SQLite's own: no UNIQUE is broken.
LEMMA NotesRows ==
  ASSUME DataOK, Fits(db), NEW e \in Pushes, Notes(e)
  PROVE  \/ NotedRows(e)
         \/ SameRows({}) /\ failures < MaxFailures /\ failures' = failures + 1
<1>. DEFINE after == RowNoted(db, e)
<1>1. e \in SourceEvents
  BY PushOrComment
<1>2. /\ after \in Rows /\ after.active = db.active
      /\ after.history = db.history /\ after.seen = RowSeen(db.seen, e)
  BY <1>1, RowNotedType, RowsAsTheyAre
<1>. HIDE DEF after
<1>3. Wrote({}, after) /\ Fits(after)
  BY <1>2 DEF Notes, after, Fits
<1>. QED  BY <1>2, <1>3, WroteIs, RowsAsTheyAre DEF NotedRows, SameRows

\* The steps, as far as the data is concerned.
LEMMA DataStep ==
  ASSUME TypeInv, [Next]_vars
  PROVE  \/ Kept /\ up' = up
         \/ up /\ up' = up /\ \/ \E id \in Live(active), c \in Followup : MovesTo(id, c)
                              \/ \E id \in WorkItems, e \in Comments : Creates(id, e)
                              \/ \E id \in Live(active), to \in Settled : Ends(id, to)
                              \/ \E e \in Pushes : Notes(e)
         \/ Tick \/ Crash \/ Restart
<1>1. CASE UNCHANGED vars
  BY <1>1 DEF vars, Kept, world
<1>2. CASE CallStep
  BY <1>2 DEF CallStep, world
<1>3. ASSUME NEW p \in Procs, BodyStep(p) PROVE up /\ up' = up /\ Does
  BY <1>3 DEF BodyStep, world, HasLock, Calm, TypeInv, NothingDown
<1>. QED  BY <1>1, <1>2, <1>3, StepIs DEF Does

-----------------------------------------------------------------------------
(* Items, the history, and the dedupe map                                  *)

NumberedIn(items, h) ==
  /\ \A id \in Live(items) : id <= made
  /\ \A n \in 1..Len(h) : h[n].item <= made

\* An item ends once, and is then no longer active.
EndedOnce(items, h) ==
  /\ \A m, n \in 1..Len(h) : h[m].item = h[n].item => m = n
  /\ \A n \in 1..Len(h) : items[h[n].item] = NoWork

NotInHistory(id, h) == \A n \in 1..Len(h) : h[n].item # id

\* An entry leads to the event's active item, or to the newest of the event's
\* items in the history; active items and remembered ones have an entry.
MapOK ==
  /\ \A e \in Comments : sourceEventToWorkItemId[e] # NoItem =>
       LET id == sourceEventToWorkItemId[e]
       IN /\ id <= made
          /\ \/ active[id] # NoWork /\ active[id].event = e
             \/ /\ active[id] = NoWork
                /\ \E n \in 1..Len(history) :
                     /\ history[n].item = id /\ history[n].event = e
                     /\ \A m \in 1..Len(history) : history[m].event = e => n <= m
  /\ \A id \in Live(active) : sourceEventToWorkItemId[active[id].event] = id
  /\ \A n \in 1..Len(history) : sourceEventToWorkItemId[history[n].event] # NoItem

MemoryInv ==
  /\ NumberedIn(active, history) /\ EndedOnce(active, history) /\ MapOK

RowsInv ==
  /\ NumberedIn(db.active, db.history) /\ EndedOnce(db.active, db.history)
  /\ Fits(db) /\ \A id \in dirty : id <= made
  /\ \A id \in Live(active) : NotInHistory(id, db.history)

\* The history with an entry more, cut.
LEMMA TrimmedIs ==
  ASSUME NEW h \in Seq(Entry), NEW x \in Entry
  PROVE  LET t == trimHistory(<<x>> \o h)
         IN /\ t \in Seq(Entry)
            /\ \A n \in 1..Len(t) :
                 /\ n <= MaxEntries
                 /\ \/ n = 1 /\ t[n] = x
                    \/ n # 1 /\ n - 1 \in 1..Len(h) /\ t[n] = h[n - 1]
            /\ 1 <= MaxEntries => 1 \in 1..Len(t) /\ t[1] = x
            /\ \A n \in 1..Len(h) : n < MaxEntries => n + 1 \in 1..Len(t) /\ t[n + 1] = h[n]
<1>. DEFINE long == <<x>> \o h
            t == trimHistory(long)
<1>1. /\ long \in Seq(Entry) /\ Len(long) = Len(h) + 1 /\ long[1] = x
      /\ \A n \in 1..Len(h) : long[n + 1] = h[n]
  BY LongerIs
<1>. HIDE DEF long
<1>2. /\ t \in Seq(Entry) /\ Len(t) = AtMost(MaxEntries, Len(long))
      /\ Len(t) <= MaxEntries /\ Len(t) <= Len(long)
      /\ \A n \in 1..Len(t) : n \in 1..Len(long) /\ t[n] = long[n]
  BY <1>1, TrimIs
<1>3. Len(h) \in Nat /\ MaxEntries \in Nat
  BY LenProperties, ConfigAssumption
<1>. HIDE DEF t
<1>4. ASSUME NEW n \in 1..Len(t)
      PROVE  /\ n <= MaxEntries
             /\ \/ n = 1 /\ t[n] = x
                \/ n # 1 /\ n - 1 \in 1..Len(h) /\ t[n] = h[n - 1]
  <2>1. Len(t) \in Nat /\ n \in 1..(Len(h) + 1) /\ t[n] = long[n] /\ n <= MaxEntries
    BY <1>1, <1>2, <1>3, LenProperties
  <2>2. CASE n = 1
    BY <1>1, <2>1, <2>2
  <2>3. CASE n # 1
    <3>1. n - 1 \in 1..Len(h) /\ (n - 1) + 1 = n
      BY <1>3, <2>1, <2>3
    <3>. QED  BY <1>1, <2>1, <2>3, <3>1
  <2>. QED  BY <2>2, <2>3
<1>5. 1 <= MaxEntries => 1 \in 1..Len(t) /\ t[1] = x
  BY <1>1, <1>2, <1>3 DEF AtMost
<1>6. ASSUME NEW n \in 1..Len(h), n < MaxEntries
      PROVE  n + 1 \in 1..Len(t) /\ t[n + 1] = h[n]
  <2>1. n + 1 \in 1..Len(t)
    BY <1>1, <1>2, <1>3, <1>6 DEF AtMost
  <2>. QED  BY <1>1, <1>2, <2>1
<1>. QED  BY <1>2, <1>4, <1>5, <1>6 DEF t, long

\* What the cut removes, for the dedupe map.
LEMMA UnmappedIs ==
  ASSUME NEW h \in Seq(Entry), NEW x \in Entry, NEW e \in Comments,
         NEW map \in [Comments -> WorkItems \cup {NoItem}]
  PROVE  LET long == <<x>> \o h
             after == Unmapped(map, SubSeq(long, MaxEntries + 1, Len(long)))
             Gone == \/ MaxEntries = 0 /\ x.event = e /\ x.item = map[e]
                     \/ \E n \in 1..Len(h) :
                          n >= MaxEntries /\ h[n].event = e /\ h[n].item = map[e]
         IN  after[e] = IF Gone THEN NoItem ELSE map[e]
<1>. DEFINE long == <<x>> \o h
            cut == SubSeq(long, MaxEntries + 1, Len(long))
            Gone == \/ MaxEntries = 0 /\ x.event = e /\ x.item = map[e]
                    \/ \E n \in 1..Len(h) :
                         n >= MaxEntries /\ h[n].event = e /\ h[n].item = map[e]
<1>1. /\ long \in Seq(Entry) /\ Len(long) = Len(h) + 1 /\ long[1] = x
      /\ \A n \in 1..Len(h) : long[n + 1] = h[n]
  BY LongerIs
<1>2. Len(h) \in Nat /\ MaxEntries \in Nat
  BY LenProperties, ConfigAssumption
<1>. HIDE DEF long
<1>3. /\ Len(cut) = IF MaxEntries <= Len(h) THEN Len(h) + 1 - MaxEntries ELSE 0
      /\ \A i \in 1..Len(cut) : cut[i] = long[MaxEntries + i]
  <2>1. \A i \in (MaxEntries + 1)..Len(long) : long[i] \in Entry
    BY <1>1, <1>2, ElementOfSeq
  <2>2. /\ Len(cut) = IF MaxEntries + 1 <= Len(long)
                      THEN Len(long) - (MaxEntries + 1) + 1 ELSE 0
        /\ \A i \in 1..(Len(long) - (MaxEntries + 1) + 1) :
             cut[i] = long[(MaxEntries + 1) + i - 1]
    BY <1>1, <1>2, <2>1, SubSeqProperties
  <2>3. \A i \in 1..Len(cut) : /\ i \in 1..(Len(long) - (MaxEntries + 1) + 1)
                               /\ (MaxEntries + 1) + i - 1 = MaxEntries + i
    BY <1>1, <1>2, <2>2
  <2>. QED  BY <1>1, <1>2, <2>2, <2>3
<1>. HIDE DEF cut
<1>4. ASSUME NEW i \in 1..Len(cut), cut[i].event = e, cut[i].item = map[e]
      PROVE  Gone
  <2>1. /\ MaxEntries <= Len(h) /\ i \in 1..(Len(h) + 1 - MaxEntries)
        /\ cut[i] = long[MaxEntries + i]
    BY <1>2, <1>3
  <2>2. CASE MaxEntries + i = 1
    BY <1>1, <1>2, <1>4, <2>1, <2>2
  <2>3. CASE MaxEntries + i # 1
    <3>1. MaxEntries + i - 1 \in 1..Len(h) /\ (MaxEntries + i - 1) + 1 = MaxEntries + i
          /\ MaxEntries + i - 1 >= MaxEntries
      BY <1>2, <2>1, <2>3
    <3>2. h[MaxEntries + i - 1] = cut[i]
      BY <1>1, <2>1, <3>1
    <3>. QED  BY <1>4, <3>1, <3>2
  <2>. QED  BY <2>2, <2>3
<1>5. ASSUME Gone
      PROVE  \E i \in 1..Len(cut) : cut[i].event = e /\ cut[i].item = map[e]
  <2>1. CASE MaxEntries = 0 /\ x.event = e /\ x.item = map[e]
    <3>1. 1 \in 1..Len(cut) /\ cut[1] = x
      BY <1>1, <1>2, <1>3, <2>1
    <3>. QED  BY <2>1, <3>1
  <2>2. CASE \E n \in 1..Len(h) : n >= MaxEntries /\ h[n].event = e /\ h[n].item = map[e]
    <3>1. PICK n \in 1..Len(h) : n >= MaxEntries /\ h[n].event = e /\ h[n].item = map[e]
      BY <2>2
    <3>2. /\ n + 1 - MaxEntries \in 1..Len(cut)
          /\ MaxEntries + (n + 1 - MaxEntries) = n + 1
      BY <1>2, <1>3, <3>1
    <3>3. cut[n + 1 - MaxEntries] = h[n]
      BY <1>1, <1>3, <3>2
    <3>. QED  BY <3>1, <3>2, <3>3
  <2>. QED  BY <1>5, <2>1, <2>2
<1>6. Unmapped(map, cut)[e] = IF Gone THEN NoItem ELSE map[e]
  BY <1>4, <1>5 DEF Unmapped
<1>. QED  BY <1>6 DEF cut, long

LEMMA EndedOnceMore ==
  ASSUME NEW items \in Items, NEW h \in Seq(Entry), NEW x \in Entry,
         EndedOnce(items, h), NotInHistory(x.item, h)
  PROVE  EndedOnce([items EXCEPT ![x.item] = NoWork], trimHistory(<<x>> \o h))
<1>. DEFINE t == trimHistory(<<x>> \o h)
            after == [items EXCEPT ![x.item] = NoWork]
<1>1. /\ t \in Seq(Entry)
      /\ \A n \in 1..Len(t) : \/ n = 1 /\ t[n] = x
                              \/ n # 1 /\ n - 1 \in 1..Len(h) /\ t[n] = h[n - 1]
  BY TrimmedIs
<1>. HIDE DEF t
<1>2. ASSUME NEW m \in 1..Len(t), NEW n \in 1..Len(t), t[m].item = t[n].item
      PROVE  m = n
  <2>1. CASE m = 1 \/ n = 1
    BY <1>1, <1>2, <2>1 DEF NotInHistory
  <2>2. CASE m # 1 /\ n # 1
    <3>1. /\ m - 1 \in 1..Len(h) /\ n - 1 \in 1..Len(h)
          /\ h[m - 1].item = h[n - 1].item
      BY <1>1, <1>2, <2>2
    <3>2. m - 1 = n - 1
      BY <3>1 DEF EndedOnce
    <3>3. m \in Int /\ n \in Int
      OBVIOUS
    <3>. QED  BY <3>2, <3>3
  <2>. QED  BY <2>1, <2>2
<1>3. ASSUME NEW n \in 1..Len(t)
      PROVE  after[t[n].item] = NoWork
  <2>1. t[n] \in Entry
    BY <1>1, ElementOfSeq
  <2>2. t[n].item \in WorkItems /\ (t[n] = x \/ items[t[n].item] = NoWork)
    BY <1>1, <2>1 DEF EndedOnce, Entry
  <2>. QED  BY <2>2 DEF Items
<1>. QED  BY <1>2, <1>3 DEF EndedOnce, t

LEMMA NumberedMore ==
  ASSUME NEW items \in Items, NEW h \in Seq(Entry), NEW x \in Entry,
         NumberedIn(items, h), x.item <= made
  PROVE  NumberedIn([items EXCEPT ![x.item] = NoWork], trimHistory(<<x>> \o h))
<1>. DEFINE t == trimHistory(<<x>> \o h)
<1>1. \A n \in 1..Len(t) : \/ n = 1 /\ t[n] = x
                           \/ n # 1 /\ n - 1 \in 1..Len(h) /\ t[n] = h[n - 1]
  BY TrimmedIs
<1>. HIDE DEF t
<1>2. Live([items EXCEPT ![x.item] = NoWork]) \subseteq Live(items)
  BY DEF Live, Items
<1>3. NumberedIn([items EXCEPT ![x.item] = NoWork], t)
  BY <1>1, <1>2 DEF NumberedIn
<1>. QED  BY <1>3 DEF t

-----------------------------------------------------------------------------
(* The rows' part is kept                                                  *)

\* Rows left as they were, one more item at most being dirty.
LEMMA SameRowsInv ==
  ASSUME RowsInv, NEW ids, SameRows(ids), made' >= made, \A id \in ids : id <= made',
         made \in Nat, made' \in Nat, DataOK,
         \A id \in Live(active') : NotInHistory(id, db.history)
  PROVE  RowsInv'
<1>1. /\ \A id \in dirty : id \in Nat
      /\ \A id \in Live(db.active) : id \in Nat
      /\ \A n \in 1..Len(db.history) : db.history[n].item \in Nat
  <2>1. \A n \in 1..Len(db.history) : db.history[n] \in Entry
    BY RowsAsTheyAre, ElementOfSeq
  <2>. QED  BY <2>1, WorkItemsAreNumbers DEF DataOK, Live, Entry
<1>2. db' = db /\ dirty' = dirty \cup ids
  BY DEF SameRows
<1>3. NumberedIn(db.active, db.history)'
  BY <1>1, <1>2 DEF RowsInv, NumberedIn
<1>. QED  BY <1>1, <1>2, <1>3 DEF RowsInv, EndedOnce, Fits

LEMMA PutOnce ==
  ASSUME NEW items \in Items, NEW h, EndedOnce(items, h), NEW id \in WorkItems,
         NotInHistory(id, h), NEW c
  PROVE  EndedOnce([items EXCEPT ![id] = c], h)
BY DEF EndedOnce, NotInHistory, Items

LEMMA MovesRowsInv ==
  ASSUME DataOK, RowsInv, MemoryInv, NEW id \in Live(active), NEW c \in Followup,
         MovesTo(id, c)
  PROVE  RowsInv'
<1>1. /\ id \in WorkItems /\ id <= made /\ made' = made /\ made \in Nat
      /\ NotInHistory(id, db.history)
  BY DEF Live, MemoryInv, NumberedIn, MovesTo, ghosts, DataOK, RowsInv
<1>2. Live(active') \subseteq Live(active)
  BY DEF MovesTo, Live, DataOK, Items
<1>3. CASE SameRows({id})
  BY <1>1, <1>2, <1>3, SameRowsInv DEF RowsInv
<1>4. CASE MovedRows(id, c)
  <2>1. /\ db'.active = [db.active EXCEPT ![id] = c] /\ db'.history = db.history
        /\ dirty' = dirty \ {id} /\ Fits(db')
    BY <1>4 DEF MovedRows
  <2>2. db.active \in Items
    BY RowsAsTheyAre
  <2>3. EndedOnce(db'.active, db'.history)
    BY <1>1, <2>1, <2>2, PutOnce DEF RowsInv
  <2>4. Live(db'.active) \subseteq Live(db.active) \cup {id}
    BY <2>1, <2>2 DEF Live, Items
  <2>5. NumberedIn(db.active, db.history)'
    BY <1>1, <2>1, <2>4 DEF RowsInv, NumberedIn
  <2>. QED  BY <1>1, <1>2, <2>1, <2>3, <2>5 DEF RowsInv
<1>. QED  BY <1>3, <1>4, MovesRows

LEMMA CreatesRowsInv ==
  ASSUME DataOK, RowsInv, MemoryInv, NEW id \in WorkItems, NEW e \in Comments,
         Creates(id, e)
  PROVE  RowsInv'
<1>1. id = made + 1 /\ made' = id /\ made \in Nat /\ made' \in Nat /\ active \in Items
  BY DEF Creates, DataOK
<1>2. /\ \A n \in 1..Len(db.history) : db.history[n].item \in Nat
                                       /\ db.history[n].item <= made
      /\ \A i \in Live(db.active) : i \in Nat /\ i <= made
      /\ \A i \in dirty : i \in Nat /\ i <= made
  <2>1. \A n \in 1..Len(db.history) : db.history[n] \in Entry
    BY RowsAsTheyAre, ElementOfSeq
  <2>. QED  BY <2>1, WorkItemsAreNumbers DEF DataOK, Live, Entry, RowsInv, NumberedIn
<1>3. NotInHistory(id, db.history)
  BY <1>1, <1>2 DEF NotInHistory
<1>4. Live(active') \subseteq Live(active) \cup {id}
  BY <1>1 DEF Creates, Live, Items
<1>5. \A i \in Live(active') : NotInHistory(i, db.history)
  BY <1>3, <1>4 DEF RowsInv
<1>6. CASE SameRows({id})
  BY <1>1, <1>5, <1>6, SameRowsInv
<1>7. CASE CreatedRows(id, e)
  <2>1. /\ db'.active = [db.active EXCEPT ![id] = NewItem(e)] /\ db'.history = db.history
        /\ dirty' = dirty \ {id} /\ Fits(db')
    BY <1>7 DEF CreatedRows
  <2>2. db.active \in Items
    BY RowsAsTheyAre
  <2>3. EndedOnce(db'.active, db'.history)
    BY <1>3, <2>1, <2>2, PutOnce DEF RowsInv
  <2>4. Live(db'.active) \subseteq Live(db.active) \cup {id}
    BY <2>1, <2>2 DEF Live, Items
  <2>5. NumberedIn(db.active, db.history)'
    BY <1>1, <1>2, <2>1, <2>4 DEF NumberedIn
  <2>. QED  BY <1>1, <1>2, <1>5, <2>1, <2>3, <2>5 DEF RowsInv
<1>. QED  BY <1>6, <1>7, CreatesRows

LEMMA EndsRowsInv ==
  ASSUME DataOK, RowsInv, MemoryInv, NEW id \in Live(active), NEW to \in Settled,
         Ends(id, to)
  PROVE  RowsInv'
<1>. DEFINE x == Ended(id, to)
<1>1. /\ id \in WorkItems /\ id <= made /\ made' = made /\ made \in Nat
      /\ NotInHistory(id, db.history) /\ active \in Items
  BY DEF Live, MemoryInv, NumberedIn, Ends, DataOK, RowsInv
<1>2. x \in Entry /\ x.item = id
  BY EndedType DEF Ended
<1>3. Live(active') \subseteq Live(active) \ {id}
  BY <1>1 DEF Ends, Live, Items
<1>4. CASE SameRows({id})
  BY <1>1, <1>3, <1>4, SameRowsInv DEF RowsInv
<1>5. CASE EndedRows(id, to)
  <2>1. /\ db'.active = [db.active EXCEPT ![x.item] = NoWork]
        /\ db'.history = trimHistory(<<x>> \o db.history)
        /\ dirty' = dirty \ {id} /\ Fits(db')
    BY <1>2, <1>5 DEF EndedRows
  <2>2. db.active \in Items /\ db.history \in Seq(Entry)
    BY RowsAsTheyAre
  <2>. HIDE DEF x
  <2>3. EndedOnce(db'.active, db'.history)
    BY <1>1, <1>2, <2>1, <2>2, EndedOnceMore DEF RowsInv
  <2>4. NumberedIn(db.active, db.history)'
    <3>1. NumberedIn(db'.active, db'.history)
      BY <1>1, <1>2, <2>1, <2>2, NumberedMore DEF RowsInv
    <3>. QED  BY <1>1, <3>1 DEF NumberedIn
  <2>5. ASSUME NEW i \in Live(active') PROVE NotInHistory(i, db'.history)
    <3>1. i # id /\ NotInHistory(i, db.history)
      BY <1>3, <2>5 DEF RowsInv
    <3>. DEFINE t == trimHistory(<<x>> \o db.history)
    <3>2. \A n \in 1..Len(t) : \/ n = 1 /\ t[n] = x
                               \/ n # 1 /\ n - 1 \in 1..Len(db.history) /\ t[n] = db.history[n - 1]
      BY <1>2, <2>2, TrimmedIs
    <3>. HIDE DEF t
    <3>3. NotInHistory(i, t)
      BY <1>2, <3>1, <3>2 DEF NotInHistory
    <3>. QED  BY <2>1, <3>3 DEF t
  <2>. QED  BY <1>1, <2>1, <2>3, <2>4, <2>5 DEF RowsInv
<1>. QED  BY <1>4, <1>5, EndsRows

LEMMA NotesRowsInv ==
  ASSUME DataOK, RowsInv, NEW e \in Pushes, Notes(e)
  PROVE  RowsInv'
<1>1. made' = made /\ made \in Nat /\ active' = active
  BY DEF Notes, DataOK
<1>2. CASE SameRows({})
  BY <1>1, <1>2, SameRowsInv DEF RowsInv
<1>3. CASE NotedRows(e)
  BY <1>1, <1>3 DEF NotedRows, RowsInv, NumberedIn
<1>. QED  BY <1>2, <1>3, NotesRows DEF RowsInv

-----------------------------------------------------------------------------
(* The memory's part is kept                                               *)

LEMMA MovesMemoryInv ==
  ASSUME DataOK, MemoryInv, NEW id \in Live(active), NEW c \in Followup, MovesTo(id, c)
  PROVE  MemoryInv'
<1>1. /\ active \in Items /\ id \in WorkItems /\ active[id] # NoWork
      /\ active' = [active EXCEPT ![id] = c] /\ c.event = active[id].event /\ c # NoWork
      /\ history' = history /\ sourceEventToWorkItemId' = sourceEventToWorkItemId
      /\ made' = made
  BY SentinelAssumption DEF MovesTo, DataOK, Live, ghosts
<1>2. /\ Live(active') = Live(active)
      /\ \A i \in WorkItems : /\ active'[i] = NoWork <=> active[i] = NoWork
                              /\ active[i] # NoWork => active'[i].event = active[i].event
  BY <1>1 DEF Live, Items
<1>3. \A n \in 1..Len(history) : history[n].item \in WorkItems
  <2>1. \A n \in 1..Len(history) : history[n] \in Entry
    BY RowsAsTheyAre, ElementOfSeq
  <2>. QED  BY <2>1 DEF Entry
<1>4. NumberedIn(active, history)' /\ EndedOnce(active', history')
  BY <1>1, <1>2, <1>3 DEF MemoryInv, NumberedIn, EndedOnce
<1>5. \A e \in Comments : sourceEventToWorkItemId[e] \in WorkItems \cup {NoItem}
  BY DEF DataOK
<1>6. MapOK'
  BY <1>1, <1>2, <1>5 DEF MemoryInv, MapOK, Live
<1>. QED  BY <1>1, <1>4, <1>6 DEF MemoryInv

LEMMA CreatesMemoryInv ==
  ASSUME DataOK, MemoryInv, NEW id \in WorkItems, NEW e \in Comments, Creates(id, e)
  PROVE  MemoryInv'
<1>. DEFINE map == sourceEventToWorkItemId
<1>1. /\ id = made + 1 /\ made' = id /\ made \in Nat /\ active \in Items
      /\ active' = [active EXCEPT ![id] = NewItem(e)]
      /\ map' = [map EXCEPT ![e] = id] /\ history' = history
      /\ map \in [Comments -> WorkItems \cup {NoItem}] /\ map[e] = NoItem
  BY DEF Creates, DataOK, hasSeenSourceEventId
<1>2. NewItem(e) \in Followup /\ NewItem(e).event = e /\ NewItem(e) # NoWork
  BY NewItemType, SentinelAssumption
<1>3. \A n \in 1..Len(history) : /\ history[n].item \in WorkItems /\ history[n].event \in Comments
                                 /\ history[n].item <= made
  <2>1. \A n \in 1..Len(history) : history[n] \in Entry
    BY RowsAsTheyAre, ElementOfSeq
  <2>. QED  BY <2>1 DEF Entry, MemoryInv, NumberedIn
<1>4. \A i \in Live(active) : i \in WorkItems /\ i <= made
  BY DEF Live, MemoryInv, NumberedIn
<1>5. WorkItems \subseteq Int /\ made \in Int
  BY <1>1, WorkItemsAreNumbers
<1>6. /\ \A i \in WorkItems : i <= made => i # id /\ active'[i] = active[i]
      /\ active'[id] = NewItem(e)
      /\ \A i \in WorkItems : i <= made => i <= made'
  BY <1>1, <1>5 DEF Items
<1>7. Live(active') = Live(active) \cup {id}
  BY <1>1, <1>2 DEF Live, Items
<1>8. NumberedIn(active, history)'
  <2>1. \A i \in Live(active') : i <= made'
    <3>1. \A i \in Live(active) : i <= made'
      BY <1>4, <1>6
    <3>2. id \in Int
      BY WorkItemsAreNumbers
    <3>3. id <= made'
      BY <1>1, <3>2
    <3>. QED  BY <1>7, <3>1, <3>3
  <2>2. \A n \in 1..Len(history') : history'[n].item <= made'
    BY <1>1, <1>3, <1>6
  <2>. QED  BY <2>1, <2>2 DEF NumberedIn
<1>9. EndedOnce(active', history')
  BY <1>1, <1>3, <1>6 DEF MemoryInv, EndedOnce
<1>10. ASSUME NEW f \in Comments, map'[f] # NoItem
       PROVE  /\ map'[f] <= made'
              /\ \/ active'[map'[f]] # NoWork /\ active'[map'[f]].event = f
                 \/ /\ active'[map'[f]] = NoWork
                    /\ \E n \in 1..Len(history') :
                         /\ history'[n].item = map'[f] /\ history'[n].event = f
                         /\ \A m \in 1..Len(history') : history'[m].event = f => n <= m
  <2>1. CASE f = e
    <3>1. map'[f] = id /\ id <= made'
      BY <1>1, <1>5, <2>1
    <3>. QED  BY <1>2, <1>6, <2>1, <3>1
  <2>2. CASE f # e
    <3>1. map'[f] = map[f] /\ map[f] # NoItem /\ map[f] \in WorkItems
      BY <1>1, <1>10, <2>2
    <3>2. map[f] <= made
      BY <3>1 DEF MemoryInv, MapOK
    <3>3. active'[map[f]] = active[map[f]] /\ map[f] <= made'
      BY <1>6, <3>1, <3>2
    <3>. QED  BY <1>1, <3>1, <3>3 DEF MemoryInv, MapOK
  <2>. QED  BY <2>1, <2>2
<1>11. ASSUME NEW i \in Live(active') PROVE map'[active'[i].event] = i
  <2>1. CASE i = id
    BY <1>1, <1>2, <1>6, <2>1
  <2>2. CASE i # id
    <3>1. i \in Live(active) /\ i \in WorkItems /\ i <= made
      BY <1>4, <1>7, <2>2
    <3>2. active'[i] = active[i] /\ map[active[i].event] = i
      BY <1>6, <3>1 DEF MemoryInv, MapOK
    <3>3. active[i].event \in Comments /\ i # NoItem
      BY <1>1, <3>1, LiveType, SentinelAssumption DEF Followup
    <3>. QED  BY <1>1, <3>2, <3>3
  <2>. QED  BY <2>1, <2>2
<1>12. \A n \in 1..Len(history') : map'[history'[n].event] # NoItem
  BY <1>1, <1>3, SentinelAssumption DEF MemoryInv, MapOK
<1>13. MapOK'
  BY <1>10, <1>11, <1>12 DEF MapOK
<1>. QED  BY <1>8, <1>9, <1>13 DEF MemoryInv

LEMMA EndsMemoryInv ==
  ASSUME DataOK, MemoryInv, NEW id \in Live(active), NEW to \in Settled, Ends(id, to)
  PROVE  MemoryInv'
<1>. DEFINE map == sourceEventToWorkItemId
            x == Ended(id, to)
            h == history
            t == trimHistory(<<x>> \o h)
            Gone(f) == \/ MaxEntries = 0 /\ x.event = f /\ x.item = map[f]
                       \/ \E n \in 1..Len(h) :
                            n >= MaxEntries /\ h[n].event = f /\ h[n].item = map[f]
<1>1. /\ id \in WorkItems /\ active[id] # NoWork /\ active[id].event \in Comments
      /\ active \in Items /\ active' = [active EXCEPT ![id] = NoWork]
      /\ made' = made /\ made \in Nat
      /\ map \in [Comments -> WorkItems \cup {NoItem}]
  BY LiveType DEF Ends, DataOK, Live, Followup
<1>2. x \in Entry /\ x.item = id /\ x.event = active[id].event
  BY EndedType DEF Ended
<1>3. h \in Seq(Entry) /\ history' = t
  BY RowsAsTheyAre DEF Ends, Longer
<1>4. /\ map[x.event] = id /\ id <= made
      /\ NotInHistory(id, h)
  BY <1>1, <1>2 DEF MemoryInv, MapOK, NumberedIn, EndedOnce, NotInHistory
<1>. HIDE DEF x
<1>5. ASSUME NEW f \in Comments
      PROVE  map'[f] = IF Gone(f) THEN NoItem ELSE map[f]
  <2>1. map' = Unmapped(map, SubSeq(<<x>> \o h, MaxEntries + 1, Len(<<x>> \o h)))
    BY DEF Ends, Longer, x
  <2>. DEFINE cut == SubSeq(<<x>> \o h, MaxEntries + 1, Len(<<x>> \o h))
  <2>2. Unmapped(map, cut)[f] = IF Gone(f) THEN NoItem ELSE map[f]
    <3>. HIDE DEF h
    <3>. QED  BY <1>1, <1>2, <1>3, UnmappedIs
  <2>. QED  BY <2>1, <2>2
<1>6. EndedOnce(active', history')
  BY <1>1, <1>2, <1>3, <1>4, EndedOnceMore DEF MemoryInv
<1>7. NumberedIn(active, history)'
  <2>1. NumberedIn(active', history')
    BY <1>1, <1>2, <1>3, <1>4, NumberedMore DEF MemoryInv
  <2>. QED  BY <1>1, <2>1 DEF NumberedIn
<1>8. /\ t \in Seq(Entry)
      /\ \A n \in 1..Len(t) : /\ n <= MaxEntries
                              /\ \/ n = 1 /\ t[n] = x
                                 \/ n # 1 /\ n - 1 \in 1..Len(h) /\ t[n] = h[n - 1]
      /\ 1 <= MaxEntries => 1 \in 1..Len(t) /\ t[1] = x
      /\ \A n \in 1..Len(h) : n < MaxEntries => n + 1 \in 1..Len(t) /\ t[n + 1] = h[n]
  BY <1>2, <1>3, TrimmedIs
<1>. HIDE DEF t
<1>9. /\ MaxEntries \in Nat /\ Len(h) \in Nat /\ Len(t) \in Nat
  BY <1>3, <1>8, ConfigAssumption, LenProperties
<1>10. \A n \in 1..Len(h) : h[n].item \in WorkItems /\ h[n].event \in Comments
  <2>1. \A n \in 1..Len(h) : h[n] \in Entry
    BY <1>3, ElementOfSeq
  <2>. QED  BY <2>1 DEF Entry
<1>11. \A i \in WorkItems : i # id => active'[i] = active[i]
  BY <1>1 DEF Items
<1>12. active'[id] = NoWork
  BY <1>1 DEF Items
\* An event's item, if the event has an entry, as the map knew it.
<1>13. ASSUME NEW f \in Comments, map[f] # NoItem, f # x.event
       PROVE  /\ map[f] # id /\ map[f] \in WorkItems /\ map[f] <= made
              /\ \/ active[map[f]] # NoWork /\ active[map[f]].event = f
                 \/ /\ active[map[f]] = NoWork
                    /\ \E n \in 1..Len(h) :
                         /\ h[n].item = map[f] /\ h[n].event = f
                         /\ \A m \in 1..Len(h) : h[m].event = f => n <= m
  <2>1. map[f] \in WorkItems
    BY <1>1, <1>13
  <2>2. /\ map[f] <= made
        /\ \/ active[map[f]] # NoWork /\ active[map[f]].event = f
           \/ /\ active[map[f]] = NoWork
              /\ \E n \in 1..Len(h) :
                   /\ h[n].item = map[f] /\ h[n].event = f
                   /\ \A m \in 1..Len(h) : h[m].event = f => n <= m
    BY <1>13 DEF MemoryInv, MapOK
  <2>3. map[f] # id
    BY <1>1, <1>2, <1>13, <2>2
  <2>. QED  BY <2>1, <2>2, <2>3
<1>14. ASSUME NEW f \in Comments, map'[f] # NoItem
       PROVE  /\ map'[f] <= made'
              /\ \/ active'[map'[f]] # NoWork /\ active'[map'[f]].event = f
                 \/ /\ active'[map'[f]] = NoWork
                    /\ \E n \in 1..Len(t) :
                         /\ t[n].item = map'[f] /\ t[n].event = f
                         /\ \A m \in 1..Len(t) : t[m].event = f => n <= m
  <2>1. map'[f] = map[f] /\ map[f] # NoItem /\ ~Gone(f)
    BY <1>5, <1>14
  <2>2. CASE f = x.event
    <3>1. map'[f] = id /\ x.item = map[f]
      BY <1>2, <1>4, <2>1, <2>2
    <3>2. 1 <= MaxEntries
      BY <1>9, <2>1, <2>2, <3>1
    <3>3. 1 \in 1..Len(t) /\ t[1].item = id /\ t[1].event = f /\ \A m \in 1..Len(t) : 1 <= m
      BY <1>2, <1>8, <2>2, <3>2
    <3>. QED  BY <1>1, <1>4, <1>12, <3>1, <3>3
  <2>3. CASE f # x.event
    <3>1. /\ map[f] # id /\ map[f] \in WorkItems /\ map[f] <= made
          /\ \/ active[map[f]] # NoWork /\ active[map[f]].event = f
             \/ /\ active[map[f]] = NoWork
                /\ \E n \in 1..Len(h) :
                     /\ h[n].item = map[f] /\ h[n].event = f
                     /\ \A m \in 1..Len(h) : h[m].event = f => n <= m
      BY <1>13, <2>1, <2>3
    <3>2. active'[map[f]] = active[map[f]]
      BY <1>11, <3>1
    <3>3. CASE active[map[f]] # NoWork /\ active[map[f]].event = f
      BY <1>1, <2>1, <3>1, <3>2, <3>3
    <3>4. CASE /\ active[map[f]] = NoWork
               /\ \E n \in 1..Len(h) :
                    /\ h[n].item = map[f] /\ h[n].event = f
                    /\ \A m \in 1..Len(h) : h[m].event = f => n <= m
      <4>1. PICK n \in 1..Len(h) : /\ h[n].item = map[f] /\ h[n].event = f
                                   /\ \A m \in 1..Len(h) : h[m].event = f => n <= m
        BY <3>4
      <4>2. n < MaxEntries
        BY <1>9, <2>1, <4>1
      <4>3. n + 1 \in 1..Len(t) /\ t[n + 1] = h[n]
        BY <1>8, <4>2
      <4>4. ASSUME NEW m \in 1..Len(t), t[m].event = f PROVE n + 1 <= m
        <5>1. m # 1 /\ m - 1 \in 1..Len(h) /\ h[m - 1].event = f
          BY <1>8, <2>3, <4>4
        <5>2. n <= m - 1
          BY <4>1, <5>1
        <5>. QED  BY <1>9, <5>2
      <4>. QED  BY <1>1, <2>1, <3>1, <3>2, <3>4, <4>1, <4>3, <4>4
    <3>. QED  BY <3>1, <3>3, <3>4
  <2>. QED  BY <2>2, <2>3
<1>15. ASSUME NEW i \in Live(active') PROVE map'[active'[i].event] = i
  <2>1. i # id /\ i \in WorkItems /\ active'[i] = active[i] /\ i \in Live(active)
    BY <1>11, <1>12 DEF Live
  <2>. DEFINE f == active[i].event
  <2>2. f \in Comments /\ map[f] = i
    BY <1>1, <2>1, LiveType DEF Followup, MemoryInv, MapOK
  <2>3. \A n \in 1..Len(h) : h[n].item # i
    BY <2>1 DEF MemoryInv, EndedOnce, Live
  <2>4. ~Gone(f)
    BY <1>2, <2>1, <2>2, <2>3
  <2>. QED  BY <1>5, <2>1, <2>2, <2>4
<1>16. ASSUME NEW n \in 1..Len(t) PROVE map'[t[n].event] # NoItem
  <2>. DEFINE f == t[n].event
  <2>1. /\ n <= MaxEntries
        /\ \/ n = 1 /\ t[n] = x
           \/ n # 1 /\ n - 1 \in 1..Len(h) /\ t[n] = h[n - 1]
    BY <1>8
  <2>2. f \in Comments /\ map[f] # NoItem
    BY <1>1, <1>2, <1>4, <1>10, <2>1, SentinelAssumption DEF MemoryInv, MapOK
  <2>3. ASSUME Gone(f) PROVE FALSE
    <3>1. MaxEntries >= 1
      BY <1>9, <2>1
    <3>2. PICK m \in 1..Len(h) : m >= MaxEntries /\ h[m].event = f /\ h[m].item = map[f]
      BY <1>9, <2>3, <3>1
    <3>3. CASE f = x.event
      BY <1>4, <3>2, <3>3 DEF NotInHistory
    <3>4. CASE f # x.event
      <4>1. n # 1 /\ n - 1 \in 1..Len(h) /\ h[n - 1].event = f
        BY <2>1, <3>4
      <4>2. active[map[f]] = NoWork
        BY <3>2 DEF MemoryInv, EndedOnce
      <4>3. PICK k \in 1..Len(h) : /\ h[k].item = map[f]
                                   /\ \A j \in 1..Len(h) : h[j].event = f => k <= j
        BY <1>13, <2>2, <3>4, <4>2
      <4>4. k = m
        BY <3>2, <4>3 DEF MemoryInv, EndedOnce
      <4>5. m <= n - 1
        BY <4>1, <4>3, <4>4
      <4>. QED  BY <1>9, <2>1, <3>2, <4>5
    <3>. QED  BY <3>3, <3>4
  <2>. QED  BY <1>5, <2>2, <2>3
<1>17. MapOK'
  BY <1>3, <1>14, <1>15, <1>16 DEF MapOK
<1>. QED  BY <1>6, <1>7, <1>17 DEF MemoryInv


LEMMA TickSafe ==
  ASSUME DataOK, MemoryInv, RowsInv, Tick
  PROVE  MemoryInv' /\ RowsInv'
<1>1. /\ active' = Aged(active) /\ db' = [db EXCEPT !.active = Aged(db.active)]
      /\ UNCHANGED <<history, sourceEventToWorkItemId, dirty, made>>
      /\ db \in Rows /\ db.active \in Items /\ active \in Items
  BY RowsAsTheyAre DEF Tick, ghosts, Rows
<1>2. /\ db'.active = Aged(db.active) /\ db'.history = db.history
      /\ Aged(db.active) \in Items
  BY <1>1, AgedType DEF Rows
<1>3. /\ Live(active') = Live(active)
      /\ \A i \in Live(active) : active'[i].event = active[i].event
      /\ Live(db'.active) = Live(db.active)
      /\ \A i \in Live(db.active) : db'.active[i].event = db.active[i].event
  BY <1>1, <1>2, AgedType
<1>4. /\ \A i \in WorkItems : active'[i] = NoWork <=> active[i] = NoWork
      /\ \A i \in WorkItems : db'.active[i] = NoWork <=> db.active[i] = NoWork
  BY <1>3 DEF Live
<1>5. /\ \A n \in 1..Len(history) : history[n].item \in WorkItems
      /\ \A n \in 1..Len(db.history) : db.history[n].item \in WorkItems
  <2>1. \A n \in 1..Len(history) : history[n] \in Entry
    BY RowsAsTheyAre, ElementOfSeq
  <2>2. \A n \in 1..Len(db.history) : db.history[n] \in Entry
    BY RowsAsTheyAre, ElementOfSeq
  <2>. QED  BY <2>1, <2>2 DEF Entry
<1>6. NumberedIn(active, history)' /\ EndedOnce(active', history')
  BY <1>1, <1>3, <1>4, <1>5 DEF MemoryInv, NumberedIn, EndedOnce
<1>7. NumberedIn(db.active, db.history)' /\ EndedOnce(db'.active, db'.history)
  BY <1>1, <1>2, <1>3, <1>4, <1>5 DEF RowsInv, NumberedIn, EndedOnce
<1>8. MapOK'
  <2>1. \A e \in Comments : sourceEventToWorkItemId[e] \in WorkItems \cup {NoItem}
    BY DEF DataOK
  <2>2. \A i \in WorkItems : active[i] # NoWork => i \in Live(active)
    BY DEF Live
  <2>. QED  BY <1>1, <1>3, <1>4, <2>1, <2>2 DEF MemoryInv, MapOK
<1>9. RowsInv'
  <2>1. Fits(db')
    BY <1>2, <1>3 DEF RowsInv, Fits
  <2>. QED  BY <1>1, <1>2, <1>3, <1>7, <2>1 DEF RowsInv
<1>. QED  BY <1>6, <1>8, <1>9 DEF MemoryInv

LEMMA CrashSafe ==
  ASSUME DataOK, MemoryInv, RowsInv, Crash
  PROVE  MemoryInv' /\ RowsInv'
<1>1. /\ Live(active') = {} /\ Len(history') = 0 /\ made' = made
      /\ db' = db /\ dirty' = dirty
      /\ \A e \in Comments : sourceEventToWorkItemId'[e] = NoItem
  BY NothingHeld, EmptySeq DEF Crash, disk, ghosts
<1>2. MemoryInv'
  BY <1>1 DEF MemoryInv, NumberedIn, EndedOnce, MapOK
<1>3. RowsInv'
  BY <1>1 DEF RowsInv, NumberedIn
<1>. QED  BY <1>2, <1>3

LEMMA RestartSafe ==
  ASSUME DataOK, MemoryInv, RowsInv, Restart
  PROVE  MemoryInv' /\ RowsInv'
<1>1. /\ active' = db.active /\ history' = db.history /\ db' = db /\ dirty' = {}
      /\ sourceEventToWorkItemId' = hydratedIndex(db) /\ made' = made
      /\ db \in Rows /\ db.active \in Items
  BY RowsAsTheyAre DEF Restart, ghosts
<1>2. RowsInv'
  BY <1>1 DEF RowsInv, NumberedIn, EndedOnce, NotInHistory, Live
<1>3. \A n \in 1..Len(db.history) :
        db.history[n].item \in WorkItems /\ db.history[n].event \in Comments
  <2>1. \A n \in 1..Len(db.history) : db.history[n] \in Entry
    BY RowsAsTheyAre, ElementOfSeq
  <2>. QED  BY <2>1 DEF Entry
<1>. DEFINE map == hydratedIndex(db)
<1>4. \A e \in Comments :
        /\ map[e] \in WorkItems \cup {NoItem}
        /\ \A id \in Live(db.active) : db.active[id].event = e =>
             map[e] \in Live(db.active) /\ db.active[map[e]].event = e
        /\ (\A id \in Live(db.active) : db.active[id].event # e) =>
             \/ map[e] = NoItem /\ \A n \in 1..Len(db.history) : db.history[n].event # e
             \/ \E n \in 1..Len(db.history) :
                  db.history[n].event = e /\ map[e] = db.history[n].item
  BY <1>1, HydratedIndexType
<1>. HIDE DEF map
<1>5. ASSUME NEW e \in Comments, map[e] # NoItem
      PROVE  /\ map[e] <= made
             /\ \/ db.active[map[e]] # NoWork /\ db.active[map[e]].event = e
                \/ /\ db.active[map[e]] = NoWork
                   /\ \E n \in 1..Len(db.history) :
                        /\ db.history[n].item = map[e] /\ db.history[n].event = e
                        /\ \A m \in 1..Len(db.history) : db.history[m].event = e => n <= m
  <2>1. CASE \E id \in Live(db.active) : db.active[id].event = e
    <3>1. map[e] \in Live(db.active) /\ db.active[map[e]].event = e
      BY <1>4, <2>1
    <3>. QED  BY <3>1 DEF RowsInv, NumberedIn, Live
  <2>2. CASE \A id \in Live(db.active) : db.active[id].event # e
    <3>1. PICK n \in 1..Len(db.history) :
                 db.history[n].event = e /\ map[e] = db.history[n].item
      BY <1>4, <1>5, <2>2
    <3>2. \A m \in 1..Len(db.history) : db.history[m].event = e => m = n
      BY <3>1 DEF RowsInv, Fits
    <3>3. n <= n
      OBVIOUS
    <3>. QED  BY <3>1, <3>2, <3>3 DEF RowsInv, NumberedIn, EndedOnce
  <2>. QED  BY <2>1, <2>2
<1>6. ASSUME NEW id \in Live(db.active) PROVE map[db.active[id].event] = id
  <2>1. db.active[id].event \in Comments
    BY <1>1, LiveType DEF Followup
  <2>2. /\ map[db.active[id].event] \in Live(db.active)
        /\ db.active[map[db.active[id].event]].event = db.active[id].event
    BY <1>4, <2>1
  <2>. QED  BY <2>2 DEF RowsInv, Fits
<1>7. ASSUME NEW n \in 1..Len(db.history) PROVE map[db.history[n].event] # NoItem
  <2>1. db.history[n].event \in Comments
    BY <1>3
  <2>2. CASE \E id \in Live(db.active) : db.active[id].event = db.history[n].event
    <3>1. map[db.history[n].event] \in WorkItems
      BY <1>4, <2>1, <2>2 DEF Live
    <3>. QED  BY <3>1, SentinelAssumption
  <2>3. CASE \A id \in Live(db.active) : db.active[id].event # db.history[n].event
    <3>1. map[db.history[n].event] \in WorkItems
      BY <1>3, <1>4, <2>1, <2>3
    <3>. QED  BY <3>1, SentinelAssumption
  <2>. QED  BY <2>2, <2>3
<1>8. MapOK'
  BY <1>1, <1>5, <1>6, <1>7 DEF MapOK, map
<1>9. NumberedIn(active, history)' /\ EndedOnce(active', history')
  BY <1>1 DEF RowsInv, NumberedIn, EndedOnce
<1>. QED  BY <1>2, <1>8, <1>9 DEF MemoryInv

LEMMA InitSafe ==
  ASSUME Init
  PROVE  MemoryInv /\ RowsInv
<1>1. /\ Live(active) = {} /\ Len(history) = 0 /\ Live(db.active) = {}
      /\ Len(db.history) = 0 /\ dirty = {}
      /\ \A e \in Comments : sourceEventToWorkItemId[e] = NoItem
  BY NothingHeld, EmptySeq DEF Init
<1>. QED  BY <1>1 DEF MemoryInv, RowsInv, NumberedIn, EndedOnce, MapOK, Fits

\* The types, the items' numbers and ends, the dedupe map.
SafeInv == TypeInv /\ MemoryInv /\ RowsInv

LEMMA KeptSafe ==
  ASSUME MemoryInv, RowsInv, Kept
  PROVE  MemoryInv' /\ RowsInv'
<1>1. UNCHANGED <<active, history, sourceEventToWorkItemId, db, dirty, made>>
  BY DEF Kept, memory, disk, ghosts
<1>2. MapOK'
  BY <1>1 DEF MemoryInv, MapOK
<1>. QED  BY <1>1, <1>2 DEF MemoryInv, RowsInv, NumberedIn

LEMMA NextSafe ==
  ASSUME SafeInv, [Next]_vars
  PROVE  SafeInv'
<1>1. TypeInv' /\ DataOK
  BY NextInv DEF SafeInv, TypeInv
<1>2. ASSUME NEW e \in Pushes, Notes(e) PROVE MemoryInv'
  <2>1. UNCHANGED <<active, history, sourceEventToWorkItemId, made>>
    BY <1>2 DEF Notes
  <2>2. MapOK'
    BY <2>1 DEF SafeInv, MemoryInv, MapOK
  <2>. QED  BY <2>1, <2>2 DEF SafeInv, MemoryInv, NumberedIn
<1>3. MemoryInv' /\ RowsInv'
  <2>1. ASSUME NEW id \in Live(active), NEW c \in Followup, MovesTo(id, c)
        PROVE  MemoryInv' /\ RowsInv'
    BY <1>1, <2>1, MovesMemoryInv, MovesRowsInv DEF SafeInv
  <2>2. ASSUME NEW id \in WorkItems, NEW e \in Comments, Creates(id, e)
        PROVE  MemoryInv' /\ RowsInv'
    BY <1>1, <2>2, CreatesMemoryInv, CreatesRowsInv DEF SafeInv
  <2>3. ASSUME NEW id \in Live(active), NEW to \in Settled, Ends(id, to)
        PROVE  MemoryInv' /\ RowsInv'
    BY <1>1, <2>3, EndsMemoryInv, EndsRowsInv DEF SafeInv
  <2>4. ASSUME NEW e \in Pushes, Notes(e) PROVE MemoryInv' /\ RowsInv'
    BY <1>1, <1>2, <2>4, NotesRowsInv DEF SafeInv
  <2>. QED  BY <1>1, <2>1, <2>2, <2>3, <2>4, KeptSafe, TickSafe, CrashSafe, RestartSafe,
            DataStep DEF SafeInv
<1>. QED  BY <1>1, <1>3 DEF SafeInv

\* The dedupe map, the active items and the history with what keeps them in
\* step: numbers are given once, an item ends once and is then not active, an
\* entry of the map leads to the newest of its event's items, and the rows are
\* such that the map that hydrate builds from them has these properties too.
THEOREM FollowupSafety == Spec => []SafeInv
<1>1. Init => SafeInv
  BY InitInv, InitSafe DEF SafeInv
<1>2. SafeInv /\ [Next]_vars => SafeInv'
  BY NextSafe
<1>. QED  BY <1>1, <1>2, PTL DEF Spec

LEMMA DedupeMeans == SafeInv => DedupeConsistent
<1>1. SUFFICES ASSUME SafeInv PROVE DedupeConsistent
  OBVIOUS
<1>2. MapOK
  BY <1>1 DEF SafeInv, MemoryInv
<1>. QED  BY <1>2 DEF MapOK, DedupeConsistent, InHistory

\* The dedupe map and what it is about stay in step through failed writes,
\* trimmed histories and restarts (createFromWebhook, applyStatusTransition,
\* trimHistory, hydrate): no comment has two active items.
THEOREM DedupeStays == Spec => []DedupeConsistent
BY DedupeMeans, FollowupSafety, PTL

LEMMA HandOver ==
  ASSUME SafeInv, Next, NEW id \in Live(active),
         active'[id] # NoWork, active[id].agent # NoAgent,
         active'[id].agent # active[id].agent
  PROVE  active[id].status = "stale"
<1>1. active \in Items /\ HandsOK(active) /\ active[id] # NoWork /\ id \in WorkItems
  BY LiveType DEF SafeInv, TypeInv, DataOK
<1>2. CASE active' = active
  BY <1>2
<1>3. CASE Tick
  BY <1>1, <1>3, AgedType DEF Tick
<1>4. CASE Crash
  BY <1>1, <1>4 DEF Crash
<1>5. CASE Restart
  BY <1>5 DEF Restart, SafeInv, TypeInv, NothingDown
<1>6. ASSUME NEW i \in Live(active), NEW c \in Followup, MovesTo(i, c)
      PROVE  active[id].status = "stale"
  <2>1. i = id /\ active'[id] = c
    BY <1>1, <1>6 DEF MovesTo, Items
  <2>2. active[id].status = "queued" => active[id].agent = NoAgent
    BY <1>1 DEF HandsOK
  <2>. QED  BY <1>6, <2>1, <2>2 DEF MovesTo, MoveRule
<1>7. ASSUME NEW i \in WorkItems, NEW e \in Comments, Creates(i, e)
      PROVE  active[id].status = "stale"
  <2>1. id # i
    BY <1>7 DEF Creates, SafeInv, MemoryInv, NumberedIn, TypeInv, DataOK
  <2>. QED  BY <1>1, <1>7, <2>1 DEF Creates, Items
<1>8. ASSUME NEW i \in Live(active), NEW to \in Settled, Ends(i, to)
      PROVE  active[id].status = "stale"
  BY <1>1, <1>8 DEF Ends, Items
<1>9. (\E p \in Procs : BodyStep(p)) => Does
  BY DEF BodyStep
<1>10. CallStep => active' = active
  BY DEF CallStep, Kept, memory
<1>11. Kept \/ (\E e \in Pushes : Notes(e)) => active' = active
  BY DEF Kept, memory, Notes
<1>. QED  BY <1>2, <1>3, <1>4, <1>5, <1>6, <1>7, <1>8, <1>9, <1>10, <1>11, StepIs
          DEF Does, SafeInv

\* Work changes hands only through 'stale' (claimNextFollowup's second look,
\* and the owner that applyStatusTransition compares): two requests that chose
\* the same item never both get it.
THEOREM ChangesHandsWhenStale == Spec => HandedOverWhenStale
<1>1. SafeInv /\ [Next]_vars =>
        [\A id \in Live(active) :
           /\ active'[id] # NoWork /\ active[id].agent # NoAgent
           /\ active'[id].agent # active[id].agent
           => active[id].status = "stale"]_vars
  BY HandOver
<1>. QED  BY <1>1, FollowupSafety, PTL DEF Spec, HandedOverWhenStale

-----------------------------------------------------------------------------
(* The rows follow memory                                                  *)

\* But for the items whose last write failed, rows and memory are the same;
\* when the histories differ, one of these items has ended in memory, for good.
FollowInv ==
  up => /\ \A id \in WorkItems \ dirty : db.active[id] = active[id]
        /\ db.history = history \/ \E id \in dirty : active[id] = NoWork

LEMMA FollowNext ==
  ASSUME SafeInv, FollowInv, [Next]_vars
  PROVE  FollowInv'
<1>1. /\ DataOK /\ active \in Items /\ db.active \in Items /\ db \in Rows
      /\ dirty \subseteq WorkItems /\ history \in Seq(Entry)
  BY RowsAsTheyAre DEF SafeInv, TypeInv, DataOK
<1>2. CASE Kept /\ up' = up
  BY <1>2 DEF Kept, memory, disk, FollowInv
<1>3. ASSUME up, NEW id \in Live(active), NEW c \in Followup, MovesTo(id, c)
      PROVE  FollowInv'
  <2>1. /\ id \in WorkItems /\ active[id] # NoWork /\ history' = history
        /\ active' = [active EXCEPT ![id] = c]
    BY <1>3 DEF Live, MovesTo
  <2>2. CASE SameRows({id})
    BY <1>1, <1>3, <2>1, <2>2 DEF SameRows, FollowInv, Items
  <2>3. CASE MovedRows(id, c)
    <3>1. /\ dirty' = dirty \ {id} /\ db'.history = db.history
          /\ db'.active = [db.active EXCEPT ![id] = c]
      BY <2>3 DEF MovedRows
    <3>. QED  BY <1>1, <1>3, <2>1, <3>1 DEF FollowInv, Items
  <2>. QED  BY <1>1, <1>3, <2>2, <2>3, MovesRows
<1>4. ASSUME up, NEW id \in WorkItems, NEW e \in Comments, Creates(id, e)
      PROVE  FollowInv'
  <2>1. /\ history' = history /\ active' = [active EXCEPT ![id] = NewItem(e)]
        /\ id = made + 1 /\ made \in Nat
    BY <1>1, <1>4 DEF Creates, DataOK
  <2>2. \A i \in dirty : i # id
    BY <2>1 DEF SafeInv, RowsInv
  <2>3. CASE SameRows({id})
    BY <1>1, <1>4, <2>1, <2>2, <2>3 DEF SameRows, FollowInv, Items
  <2>4. CASE CreatedRows(id, e)
    <3>1. /\ dirty' = dirty \ {id} /\ db'.history = db.history
          /\ db'.active = [db.active EXCEPT ![id] = NewItem(e)]
      BY <2>4 DEF CreatedRows
    <3>. QED  BY <1>1, <1>4, <2>1, <2>2, <3>1 DEF FollowInv, Items
  <2>. QED  BY <1>1, <1>4, <2>3, <2>4, CreatesRows
<1>5. ASSUME up, NEW id \in Live(active), NEW to \in Settled, Ends(id, to)
      PROVE  FollowInv'
  <2>1. /\ id \in WorkItems /\ active[id] # NoWork
        /\ active' = [active EXCEPT ![id] = NoWork]
        /\ history' = trimHistory(<<Ended(id, to)>> \o history)
    BY <1>5 DEF Live, Ends, Longer
  <2>2. CASE SameRows({id})
    BY <1>1, <1>5, <2>1, <2>2 DEF SameRows, FollowInv, Items
  <2>3. CASE EndedRows(id, to)
    <3>1. /\ dirty' = dirty \ {id}
          /\ db'.history = trimHistory(<<Ended(id, to)>> \o db.history)
          /\ db'.active = [db.active EXCEPT ![id] = NoWork]
      BY <2>3 DEF EndedRows
    <3>. QED  BY <1>1, <1>5, <2>1, <3>1 DEF FollowInv, Items
  <2>. QED  BY <1>1, <1>5, <2>2, <2>3, EndsRows
<1>6. ASSUME up, NEW e \in Pushes, Notes(e) PROVE FollowInv'
  <2>1. active' = active /\ history' = history
    BY <1>6 DEF Notes
  <2>2. CASE SameRows({})
    BY <1>6, <2>1, <2>2 DEF SameRows, FollowInv
  <2>3. CASE NotedRows(e)
    BY <1>6, <2>1, <2>3 DEF NotedRows, FollowInv
  <2>. QED  BY <1>1, <1>6, <2>2, <2>3, NotesRows DEF SafeInv, RowsInv
<1>7. CASE Tick
  <2>1. /\ active' = Aged(active) /\ db'.active = Aged(db.active) /\ db'.history = db.history
        /\ UNCHANGED <<history, dirty, up>>
    BY <1>1, <1>7 DEF Tick, world, Rows
  <2>2. \A id \in WorkItems : /\ active[id] = NoWork => active'[id] = NoWork
                              /\ db.active[id] = active[id] => db'.active[id] = active'[id]
    BY <2>1 DEF Aged
  <2>. QED  BY <1>1, <2>1, <2>2 DEF FollowInv
<1>8. CASE Crash
  BY <1>8 DEF Crash, FollowInv
<1>9. CASE Restart
  BY <1>9 DEF Restart, FollowInv
<1>. QED  BY <1>2, <1>3, <1>4, <1>5, <1>6, <1>7, <1>8, <1>9, DataStep DEF SafeInv

-----------------------------------------------------------------------------
(* What is known of source events                                          *)

NotedAll(items, h, s) ==
  /\ \A id \in Live(items) : items[id].event \in noted
  /\ \A n \in 1..Len(h) : h[n].event \in noted
  /\ ToSet(s) \subseteq noted

\* Whatever is known of an event, it was noted; and while the lists have room,
\* what was noted and written is in both.
SeenInv ==
  /\ IsFiniteSet(noted)
  /\ NotedAll(active, history, seenSourceEventIds)
  /\ NotedAll(db.active, db.history, db.seen)
  /\ \A e \in Comments : sourceEventToWorkItemId[e] # NoItem => e \in noted
  /\ ~Overflow => /\ noted \ unsaved \subseteq ToSet(db.seen)
                  /\ up => noted \ unsaved \subseteq ToSet(seenSourceEventIds)

LEMMA NoOverflow ==
  ASSUME DataOK, IsFiniteSet(noted)
  PROVE  ~Overflow <=> Fitting(noted)
<1>1. Cardinality(noted) \in Nat
  BY FS_CardinalityType
<1>. QED  BY <1>1, CapIsNat DEF Overflow, Fitting, DataOK

LEMMA MoreNoted ==
  ASSUME IsFiniteSet(noted), NEW e, noted' = noted \cup {e}
  PROVE  IsFiniteSet(noted') /\ (Fitting(noted') => Fitting(noted))
<1>1. IsFiniteSet(noted')
  BY FS_AddElement
<1>2. /\ Cardinality(noted) \in Nat /\ Cardinality(noted') \in Nat
      /\ Cardinality(noted) <= Cardinality(noted')
  BY <1>1, FS_CardinalityType, FS_Subset
<1>. QED  BY <1>1, <1>2, CapIsNat DEF Fitting

\* An event is added to both lists, or its transaction fails and is a known
\* failure.
LEMMA AddedToBoth ==
  ASSUME SafeInv, SeenInv, up, up' = up, NEW e \in SourceEvents, noted' = noted \cup {e},
         seenSourceEventIds' = addSeenSourceEventId(seenSourceEventIds, e),
         \/ db'.seen = RowSeen(db.seen, e) /\ unsaved' = unsaved
         \/ db'.seen = db.seen /\ unsaved' = unsaved \cup {e},
         DataOK'
  PROVE  /\ ToSet(seenSourceEventIds') \subseteq noted'
         /\ ToSet(db'.seen) \subseteq noted'
         /\ ~Overflow' => /\ noted' \ unsaved' \subseteq ToSet(db'.seen)
                          /\ noted' \ unsaved' \subseteq ToSet(seenSourceEventIds')
<1>1. /\ DataOK /\ IsFiniteSet(noted) /\ db.seen \in SeenList
      /\ seenSourceEventIds \in SeenList
      /\ ToSet(seenSourceEventIds) \subseteq noted /\ ToSet(db.seen) \subseteq noted
  BY RowsAsTheyAre DEF SafeInv, TypeInv, SeenInv, NotedAll
<1>2. /\ ToSet(seenSourceEventIds') \subseteq ToSet(seenSourceEventIds) \cup {e}
      /\ Fitting(noted') => ToSet(seenSourceEventIds') = ToSet(seenSourceEventIds) \cup {e}
  <2>1. ToSet(seenSourceEventIds) \cup {e} \subseteq noted'
    BY <1>1
  <2>. QED  BY <1>1, <2>1, AddedSeen
<1>3. /\ ToSet(RowSeen(db.seen, e)) \subseteq ToSet(db.seen) \cup {e}
      /\ Fitting(noted') => ToSet(RowSeen(db.seen, e)) = ToSet(db.seen) \cup {e}
  <2>1. ToSet(db.seen) \cup {e} \subseteq noted' /\ ToSet(seenSourceEventIds) \subseteq noted'
    BY <1>1
  <2>. QED  BY <1>1, <2>1, NotedSeen
<1>4. IsFiniteSet(noted') /\ (Fitting(noted') => Fitting(noted))
  BY <1>1, MoreNoted
<1>5. ~Overflow' <=> Fitting(noted')
  <2>1. Cardinality(noted') \in Nat
    BY <1>4, FS_CardinalityType
  <2>. QED  BY <1>4, <2>1, CapIsNat DEF Overflow, Fitting, DataOK
<1>6. ~Overflow <=> Fitting(noted)
  BY <1>1, NoOverflow
<1>7. ASSUME ~Overflow'
      PROVE  /\ noted' \ unsaved' \subseteq ToSet(db'.seen)
             /\ noted' \ unsaved' \subseteq ToSet(seenSourceEventIds')
  <2>1. /\ noted \ unsaved \subseteq ToSet(db.seen)
        /\ noted \ unsaved \subseteq ToSet(seenSourceEventIds)
    BY <1>4, <1>5, <1>6, <1>7 DEF SeenInv
  <2>2. /\ ToSet(seenSourceEventIds') = ToSet(seenSourceEventIds) \cup {e}
        /\ ToSet(RowSeen(db.seen, e)) = ToSet(db.seen) \cup {e}
    BY <1>2, <1>3, <1>5, <1>7
  <2>. QED  BY <2>1, <2>2
<1>. QED  BY <1>1, <1>2, <1>3, <1>7

LEMMA SeenSame ==
  ASSUME SeenInv, up' = up, UNCHANGED <<noted, unsaved, seenSourceEventIds>>,
         db'.seen = db.seen,
         \A id \in Live(active') : active'[id].event \in noted,
         \A n \in 1..Len(history') : history'[n].event \in noted,
         \A id \in Live(db'.active) : db'.active[id].event \in noted,
         \A n \in 1..Len(db'.history) : db'.history[n].event \in noted,
         \A e \in Comments : sourceEventToWorkItemId'[e] # NoItem => e \in noted
  PROVE  SeenInv'
BY DEF SeenInv, NotedAll, Overflow

LEMMA SeenNext ==
  ASSUME SafeInv, SeenInv, [Next]_vars
  PROVE  SeenInv'
<1>1. /\ DataOK /\ active \in Items /\ db.active \in Items /\ db \in Rows
      /\ history \in Seq(Entry) /\ db.history \in Seq(Entry) /\ db.seen \in SeenList
      /\ DataOK'
  BY RowsAsTheyAre, NextSafe DEF SafeInv, TypeInv
<1>2. CASE Kept /\ up' = up
  BY <1>2, SeenSame DEF Kept, memory, disk, ghosts, SeenInv, NotedAll
<1>3. ASSUME up' = up, NEW id \in Live(active), NEW c \in Followup, MovesTo(id, c)
      PROVE  SeenInv'
  <2>1. /\ active' = [active EXCEPT ![id] = c] /\ c.event = active[id].event
        /\ UNCHANGED <<noted, unsaved, seenSourceEventIds, history, sourceEventToWorkItemId>>
    BY <1>3 DEF MovesTo, ghosts
  <2>2. c.event \in noted
    BY <2>1 DEF SeenInv, NotedAll
  <2>3. \A i \in Live(active') : active'[i].event \in noted
    BY <1>1, <2>1, <2>2 DEF SeenInv, NotedAll, Live, Items
  <2>4. /\ db'.seen = db.seen /\ db'.history = db.history
        /\ \A i \in Live(db'.active) : db'.active[i].event \in noted
    BY <1>1, <1>3, <2>2, MovesRows DEF SameRows, MovedRows, SeenInv, NotedAll, Live, Items
  <2>. QED  BY <1>3, <2>1, <2>3, <2>4, SeenSame DEF SeenInv, NotedAll
<1>4. ASSUME up, up' = up, NEW id \in WorkItems, NEW e \in Comments, Creates(id, e)
      PROVE  SeenInv'
  <2>1. /\ active' = [active EXCEPT ![id] = NewItem(e)] /\ NewItem(e).event = e
        /\ history' = history /\ noted' = noted \cup {e}
        /\ sourceEventToWorkItemId' = [sourceEventToWorkItemId EXCEPT ![e] = id]
        /\ seenSourceEventIds' = addSeenSourceEventId(seenSourceEventIds, e)
        /\ e \in SourceEvents
    BY <1>4, NewItemType, PushOrComment DEF Creates
  <2>2. /\ \/ db'.seen = RowSeen(db.seen, e) /\ unsaved' = unsaved
           \/ db'.seen = db.seen /\ unsaved' = unsaved \cup {e}
        /\ db'.history = db.history
        /\ \A i \in Live(db'.active) : db'.active[i].event \in noted'
    <3>1. CASE SameRows({id})
      BY <1>4, <2>1, <3>1 DEF SameRows, Creates, SeenInv, NotedAll
    <3>2. CASE CreatedRows(id, e)
      <4>1. \A i \in Live(db'.active) : db'.active[i].event \in noted'
        BY <1>1, <2>1, <3>2 DEF CreatedRows, SeenInv, NotedAll, Live, Items
      <4>. QED  BY <1>4, <3>2, <4>1 DEF CreatedRows, Creates
    <3>. QED  BY <1>1, <1>4, <3>1, <3>2, CreatesRows
  <2>3. /\ ToSet(seenSourceEventIds') \subseteq noted'
        /\ ToSet(db'.seen) \subseteq noted'
        /\ ~Overflow' => /\ noted' \ unsaved' \subseteq ToSet(db'.seen)
                         /\ noted' \ unsaved' \subseteq ToSet(seenSourceEventIds')
    BY <1>1, <1>4, <2>1, <2>2, AddedToBoth
  <2>4. IsFiniteSet(noted')
    BY <2>1, MoreNoted DEF SeenInv
  <2>5. \A i \in Live(active') : active'[i].event \in noted'
    BY <1>1, <2>1 DEF SeenInv, NotedAll, Live, Items
  <2>6. \A f \in Comments : sourceEventToWorkItemId'[f] # NoItem => f \in noted'
    BY <1>1, <2>1 DEF SeenInv, DataOK
  <2>. QED  BY <2>1, <2>2, <2>3, <2>4, <2>5, <2>6 DEF SeenInv, NotedAll
<1>5. ASSUME up' = up, NEW id \in Live(active), NEW to \in Settled, Ends(id, to)
      PROVE  SeenInv'
  <2>. DEFINE x == Ended(id, to)
  <2>1. /\ active' = [active EXCEPT ![id] = NoWork]
        /\ history' = trimHistory(<<x>> \o history)
        /\ UNCHANGED <<noted, unsaved, seenSourceEventIds>>
    BY <1>5 DEF Ends, Longer
  <2>2. x \in Entry /\ x.event \in noted
    BY <1>1, EndedType DEF Ended, SeenInv, NotedAll
  <2>. HIDE DEF x
  <2>3. ASSUME NEW h \in Seq(Entry), \A n \in 1..Len(h) : h[n].event \in noted
        PROVE  LET t == trimHistory(<<x>> \o h)
               IN \A n \in 1..Len(t) : t[n].event \in noted
    <3>. DEFINE t == trimHistory(<<x>> \o h)
    <3>1. \A n \in 1..Len(t) : \/ n = 1 /\ t[n] = x
                               \/ n # 1 /\ n - 1 \in 1..Len(h) /\ t[n] = h[n - 1]
      BY <2>2, <2>3, TrimmedIs
    <3>. HIDE DEF t
    <3>2. \A n \in 1..Len(t) : t[n].event \in noted
      BY <2>2, <2>3, <3>1
    <3>. QED  BY <3>2 DEF t
  <2>4. \A n \in 1..Len(history') : history'[n].event \in noted
    BY <1>1, <2>1, <2>3 DEF SeenInv, NotedAll
  <2>5. /\ db'.seen = db.seen
        /\ \A i \in Live(db'.active) : db'.active[i].event \in noted
        /\ \A n \in 1..Len(db'.history) : db'.history[n].event \in noted
    <3>1. CASE SameRows({id})
      BY <3>1 DEF SameRows, SeenInv, NotedAll
    <3>2. CASE EndedRows(id, to)
      <4>1. /\ db'.active = [db.active EXCEPT ![id] = NoWork] /\ db'.seen = db.seen
            /\ db'.history = trimHistory(<<x>> \o db.history)
        BY <3>2 DEF EndedRows, x
      <4>2. \A i \in Live(db'.active) : db'.active[i].event \in noted
        BY <1>1, <4>1 DEF SeenInv, NotedAll, Live, Items
      <4>3. \A n \in 1..Len(db'.history) : db'.history[n].event \in noted
        BY <1>1, <2>3, <4>1 DEF SeenInv, NotedAll
      <4>. QED  BY <4>1, <4>2, <4>3
    <3>. QED  BY <1>1, <1>5, <3>1, <3>2, EndsRows
  <2>6. \A i \in Live(active') : active'[i].event \in noted
    BY <1>1, <2>1 DEF SeenInv, NotedAll, Live, Items
  <2>7. \A f \in Comments : sourceEventToWorkItemId'[f] # NoItem => f \in noted
    <3>1. \A f \in Comments : sourceEventToWorkItemId'[f] \in {NoItem, sourceEventToWorkItemId[f]}
      BY <1>5 DEF Ends, Unmapped
    <3>. QED  BY <3>1 DEF SeenInv
  <2>. QED  BY <1>5, <2>1, <2>4, <2>5, <2>6, <2>7, SeenSame
<1>6. ASSUME up, up' = up, NEW e \in Pushes, Notes(e) PROVE SeenInv'
  <2>1. /\ noted' = noted \cup {e} /\ e \in SourceEvents
        /\ seenSourceEventIds' = addSeenSourceEventId(seenSourceEventIds, e)
        /\ UNCHANGED <<active, history, sourceEventToWorkItemId>>
    BY <1>6, PushOrComment DEF Notes
  <2>2. /\ \/ db'.seen = RowSeen(db.seen, e) /\ unsaved' = unsaved
           \/ db'.seen = db.seen /\ unsaved' = unsaved \cup {e}
        /\ db'.history = db.history /\ db'.active = db.active
    <3>1. CASE NotedRows(e)
      BY <1>6, <3>1 DEF NotedRows, Notes
    <3>2. CASE SameRows({}) /\ failures < MaxFailures /\ failures' = failures + 1
      <4>1. failures' # failures
        BY <1>1, <3>2 DEF DataOK
      <4>. QED  BY <1>6, <3>2, <4>1 DEF SameRows, Notes
    <3>. QED  BY <1>1, <1>6, <3>1, <3>2, NotesRows DEF SafeInv, RowsInv
  <2>3. /\ ToSet(seenSourceEventIds') \subseteq noted'
        /\ ToSet(db'.seen) \subseteq noted'
        /\ ~Overflow' => /\ noted' \ unsaved' \subseteq ToSet(db'.seen)
                         /\ noted' \ unsaved' \subseteq ToSet(seenSourceEventIds')
    BY <1>1, <1>6, <2>1, <2>2, AddedToBoth
  <2>4. IsFiniteSet(noted')
    BY <2>1, MoreNoted DEF SeenInv
  <2>. QED  BY <2>1, <2>2, <2>3, <2>4 DEF SeenInv, NotedAll
<1>7. CASE Tick
  <2>1. /\ active' = Aged(active) /\ db'.active = Aged(db.active)
        /\ db'.history = db.history /\ db'.seen = db.seen /\ up' = up
        /\ UNCHANGED <<history, noted, unsaved, seenSourceEventIds, sourceEventToWorkItemId>>
    BY <1>1, <1>7 DEF Tick, world, ghosts, Rows
  <2>2. /\ \A i \in Live(active') : active'[i].event \in noted
        /\ \A i \in Live(db'.active) : db'.active[i].event \in noted
    BY <1>1, <2>1, AgedType DEF SeenInv, NotedAll
  <2>. QED  BY <2>1, <2>2, SeenSame DEF SeenInv, NotedAll
<1>8. CASE Crash
  <2>1. /\ Live(active') = {} /\ Len(history') = 0 /\ ToSet(seenSourceEventIds') = {}
        /\ \A e \in Comments : sourceEventToWorkItemId'[e] = NoItem
        /\ ~up' /\ db' = db /\ noted' = noted /\ unsaved' = unsaved
    BY <1>8, NothingHeld, EmptySeq, EmptySeen DEF Crash, disk, ghosts
  <2>. QED  BY <2>1 DEF SeenInv, NotedAll, Overflow
<1>9. CASE Restart
  <2>1. /\ active' = db.active /\ history' = db.history /\ db' = db
        /\ sourceEventToWorkItemId' = hydratedIndex(db)
        /\ noted' = noted /\ unsaved' = unsaved
    BY <1>9 DEF Restart, ghosts
  <2>. DEFINE events == {db.active[id].event : id \in Live(db.active)}
                          \cup {db.history[n].event : n \in 1..Len(db.history)}
  <2>2. /\ ToSet(seenSourceEventIds') \subseteq ToSet(db.seen) \cup events
        /\ \A N : Fitting(N) /\ ToSet(db.seen) \cup events \subseteq N =>
             ToSet(db.seen) \subseteq ToSet(seenSourceEventIds')
    <3>1. PICK order \in SetToSeqs({db.active[id].event : id \in Live(db.active)}) :
                 seenSourceEventIds' = hydratedSeen(db, order)
      BY <1>9 DEF Restart
    <3>. QED  BY <1>1, <3>1, HydratedSeenIs
  <2>3. ToSet(db.seen) \cup events \subseteq noted
    BY DEF SeenInv, NotedAll
  <2>. HIDE DEF events
  <2>4. ToSet(seenSourceEventIds') \subseteq noted
    BY <2>2, <2>3
  <2>5. ASSUME ~Overflow PROVE noted \ unsaved \subseteq ToSet(seenSourceEventIds')
    <3>1. Fitting(noted)
      BY <1>1, <2>5, NoOverflow DEF SeenInv
    <3>2. ToSet(db.seen) \subseteq ToSet(seenSourceEventIds')
      BY <2>2, <2>3, <3>1
    <3>. QED  BY <2>5, <3>2 DEF SeenInv
  <2>6. ASSUME NEW e \in Comments, hydratedIndex(db)[e] # NoItem PROVE e \in noted
    <3>1. CASE \E id \in Live(db.active) : db.active[id].event = e
      BY <3>1 DEF SeenInv, NotedAll
    <3>2. CASE \A id \in Live(db.active) : db.active[id].event # e
      <4>1. \E n \in 1..Len(db.history) : db.history[n].event = e
        BY <1>1, <2>6, <3>2, HydratedIndexType
      <4>. QED  BY <4>1 DEF SeenInv, NotedAll
    <3>. QED  BY <3>1, <3>2
  <2>. QED  BY <2>1, <2>4, <2>5, <2>6 DEF SeenInv, NotedAll, Overflow
<1>. QED  BY <1>2, <1>3, <1>4, <1>5, <1>6, <1>7, <1>8, <1>9, DataStep DEF SafeInv

LEMMA InitFollows ==
  ASSUME Init
  PROVE  FollowInv /\ SeenInv
<1>1. FollowInv
  BY DEF Init, FollowInv
<1>2. /\ Live(active) = {} /\ Len(history) = 0 /\ Live(db.active) = {}
      /\ Len(db.history) = 0 /\ ToSet(seenSourceEventIds) = {} /\ ToSet(db.seen) = {}
      /\ \A e \in Comments : sourceEventToWorkItemId[e] = NoItem
      /\ noted = {} /\ IsFiniteSet(noted)
  BY NothingHeld, EmptySeq, EmptySeen, FS_EmptySet DEF Init
<1>3. SeenInv
  BY <1>2 DEF SeenInv, NotedAll
<1>. QED  BY <1>1, <1>3

LEMMA RowsMean == SafeInv /\ FollowInv /\ SeenInv => RowsFollow
<1>1. SUFFICES ASSUME SafeInv, FollowInv, SeenInv, up PROVE
          /\ \A id \in WorkItems \ dirty : db.active[id] = active[id]
          /\ dirty = {} => db.history = history
          /\ \A e \in SourceEvents \ unsaved :
               hasSeenSourceEventId(e) => KnownRow(e) \/ Overflow
  BY DEF RowsFollow
<1>2. \A e \in SourceEvents : hasSeenSourceEventId(e) => e \in noted
  BY <1>1 DEF hasSeenSourceEventId, SeenInv, NotedAll
<1>. QED  BY <1>1, <1>2 DEF FollowInv, SeenInv, KnownRow

\* What a restart would load is what memory has: an item's row is the item, but
\* for the items whose last write failed; the histories are the same while there
\* are none; every event memory knows as handled is among the rows, unless its
\* first transaction failed or the list of seen events was ever too short
\* (persistFollowupMutation, addSeenSourceEventId, hydrate).
THEOREM RowsFollowMemory == Spec => []RowsFollow
<1>1. Init => SafeInv /\ FollowInv /\ SeenInv
  BY InitInv, InitSafe, InitFollows DEF SafeInv
<1>2. (SafeInv /\ FollowInv /\ SeenInv) /\ [Next]_vars => (SafeInv /\ FollowInv /\ SeenInv)'
  BY NextSafe, FollowNext, SeenNext
<1>. QED  BY <1>1, <1>2, RowsMean, PTL DEF Spec

-----------------------------------------------------------------------------
(* What is finished stays finished                                         *)

NoneOf(items, e) == \A id \in Live(items) : items[id].event # e

\* While the lists have room, a finished comment has no item, in memory or in
\* the rows, and a comment with an item in both has the same one.
FinishedInv ==
  /\ finished \subseteq noted
  /\ ~Overflow =>
       /\ \A e \in finished \ unsaved : NoneOf(active, e) /\ NoneOf(db.active, e)
       /\ up => \A a \in Live(active), b \in Live(db.active) :
                  /\ active[a].event = db.active[b].event
                  /\ active[a].event \notin unsaved
                  => a = b

FollowsInv == SafeInv /\ FollowInv /\ SeenInv

\* No event becomes known again by a step that keeps or extends what is known.
LEMMA StillRoom ==
  ASSUME DataOK, DataOK', IsFiniteSet(noted), IsFiniteSet(noted'), noted \subseteq noted'
  PROVE  ~Overflow' => ~Overflow
<1>1. /\ Cardinality(noted) \in Nat /\ Cardinality(noted') \in Nat
      /\ Cardinality(noted) <= Cardinality(noted')
  BY FS_CardinalityType, FS_Subset
<1>. QED  BY <1>1, CapIsNat DEF Overflow

LEMMA FinishedNext ==
  ASSUME FollowsInv, FollowsInv', FinishedInv, [Next]_vars
  PROVE  FinishedInv'
<1>1. /\ DataOK /\ active \in Items /\ db.active \in Items /\ db \in Rows
      /\ DataOK' /\ IsFiniteSet(noted) /\ IsFiniteSet(noted')
  BY RowsAsTheyAre DEF FollowsInv, SafeInv, TypeInv, SeenInv
<1>2. CASE Kept /\ up' = up
  BY <1>2 DEF Kept, memory, disk, ghosts, FinishedInv, Overflow
\* Two active items of one comment are the same item.
<1>3. \A a, b \in Live(active) : active[a].event = active[b].event => a = b
  BY DEF FollowsInv, SafeInv, MemoryInv, MapOK
<1>4. ASSUME up, up' = up, NEW id \in Live(active), NEW c \in Followup, MovesTo(id, c)
      PROVE  FinishedInv'
  <2>1. /\ active' = [active EXCEPT ![id] = c] /\ c.event = active[id].event
        /\ UNCHANGED <<noted, unsaved, finished>> /\ id \in WorkItems
    BY <1>4 DEF MovesTo, ghosts, Live
  <2>2. /\ \A a \in Live(active') : a \in Live(active) /\ active'[a].event = active[a].event
        /\ Overflow' = Overflow
    BY <1>1, <2>1 DEF Live, Items, Overflow
  <2>3. \A b \in Live(db'.active) :
          \/ b \in Live(db.active) /\ db'.active[b].event = db.active[b].event
          \/ b = id /\ db'.active[b].event = active[id].event
    <3>1. CASE SameRows({id})
      BY <3>1 DEF SameRows
    <3>2. CASE MovedRows(id, c)
      BY <1>1, <2>1, <3>2 DEF MovedRows, Live, Items
    <3>. QED  BY <1>1, <1>4, <3>1, <3>2, MovesRows
  <2>4. ASSUME ~Overflow, NEW f \in finished \ unsaved
        PROVE  NoneOf(active', f) /\ NoneOf(db'.active, f)
    <3>1. NoneOf(active, f) /\ NoneOf(db.active, f)
      BY <2>4 DEF FinishedInv
    <3>2. active[id].event # f
      BY <3>1 DEF NoneOf
    <3>. QED  BY <2>2, <2>3, <3>1, <3>2 DEF NoneOf
  <2>5. ASSUME ~Overflow, NEW a \in Live(active'), NEW b \in Live(db'.active),
               active'[a].event = db'.active[b].event, active'[a].event \notin unsaved
        PROVE  a = b
    <3>1. a \in Live(active) /\ active'[a].event = active[a].event
      BY <2>2
    <3>2. CASE b \in Live(db.active) /\ db'.active[b].event = db.active[b].event
      BY <1>4, <2>5, <3>1, <3>2 DEF FinishedInv
    <3>3. CASE b = id /\ db'.active[b].event = active[id].event
      BY <1>3, <2>5, <3>1, <3>3
    <3>. QED  BY <2>3, <3>2, <3>3
  <2>6. finished' \subseteq noted'
    BY <2>1 DEF FinishedInv
  <2>. QED  BY <2>1, <2>2, <2>4, <2>5, <2>6 DEF FinishedInv
<1>5. ASSUME up, up' = up, NEW id \in WorkItems, NEW e \in Comments, Creates(id, e)
      PROVE  FinishedInv'
  <2>1. /\ active' = [active EXCEPT ![id] = NewItem(e)] /\ NewItem(e).event = e
        /\ noted' = noted \cup {e} /\ finished' = finished
        /\ unsaved' \in {unsaved, unsaved \cup {e}}
        /\ e \notin ToSet(seenSourceEventIds) /\ sourceEventToWorkItemId[e] = NoItem
    BY <1>5, NewItemType DEF Creates, hasSeenSourceEventId
  <2>2. finished' \subseteq noted'
    BY <2>1 DEF FinishedInv
  <2>3. ~Overflow' => ~Overflow
    BY <1>1, <2>1, StillRoom
  <2>4. \A a \in Live(active') :
          \/ a = id /\ active'[a].event = e
          \/ a \in Live(active) /\ active'[a].event = active[a].event
    BY <1>1, <2>1 DEF Live, Items
  <2>5. \A b \in Live(db'.active) :
          \/ b \in Live(db.active) /\ db'.active[b].event = db.active[b].event
          \/ b = id /\ db'.active[b].event = e
    <3>1. CASE SameRows({id})
      BY <3>1 DEF SameRows
    <3>2. CASE CreatedRows(id, e)
      BY <1>1, <2>1, <3>2 DEF CreatedRows, Live, Items
    <3>. QED  BY <1>1, <1>5, <3>1, <3>2, CreatesRows
  <2>6. \A a \in Live(active) : active[a].event # e
    <3>1. \A a \in Live(active) : a # NoItem
      BY SentinelAssumption DEF Live
    <3>. QED  BY <2>1, <3>1 DEF FollowsInv, SafeInv, MemoryInv, MapOK
  <2>7. ASSUME ~Overflow'
        PROVE  /\ \A f \in finished' \ unsaved' : NoneOf(active', f) /\ NoneOf(db'.active, f)
               /\ \A a \in Live(active'), b \in Live(db'.active) :
                    /\ active'[a].event = db'.active[b].event
                    /\ active'[a].event \notin unsaved'
                    => a = b
    <3>1. e \notin noted \/ e \in unsaved
      BY <1>5, <2>1, <2>3, <2>7 DEF FollowsInv, SeenInv
    <3>2. ASSUME NEW f \in finished' \ unsaved' PROVE NoneOf(active', f) /\ NoneOf(db'.active, f)
      <4>1. f # e /\ f \in finished \ unsaved
        BY <2>1, <3>1, <3>2 DEF FinishedInv
      <4>2. NoneOf(active, f) /\ NoneOf(db.active, f)
        BY <2>3, <2>7, <4>1 DEF FinishedInv
      <4>. QED  BY <2>4, <2>5, <4>1, <4>2 DEF NoneOf
    <3>3. ASSUME NEW a \in Live(active'), NEW b \in Live(db'.active),
                 active'[a].event = db'.active[b].event, active'[a].event \notin unsaved'
          PROVE  a = b
      <4>1. CASE a = id /\ active'[a].event = e
        <5>1. e \notin noted
          BY <2>1, <3>1, <3>3, <4>1
        <5>2. \A i \in Live(db.active) : db.active[i].event # e
          BY <5>1 DEF FollowsInv, SeenInv, NotedAll
        <5>. QED  BY <2>5, <3>3, <4>1, <5>2
      <4>2. CASE a \in Live(active) /\ active'[a].event = active[a].event
        <5>1. active[a].event # e /\ active[a].event \notin unsaved
          BY <2>1, <2>6, <3>3, <4>2
        <5>2. b \in Live(db.active) /\ db'.active[b].event = db.active[b].event
          BY <2>5, <3>3, <4>2, <5>1
        <5>. QED  BY <1>5, <2>3, <2>7, <3>3, <4>2, <5>1, <5>2 DEF FinishedInv
      <4>. QED  BY <2>4, <4>1, <4>2
    <3>. QED  BY <3>2, <3>3
  <2>. QED  BY <2>2, <2>7 DEF FinishedInv
<1>6. ASSUME up, up' = up, NEW id \in Live(active), NEW to \in Settled, Ends(id, to)
      PROVE  FinishedInv'
  <2>. DEFINE e == active[id].event
  <2>1. /\ active' = [active EXCEPT ![id] = NoWork] /\ id \in WorkItems
        /\ UNCHANGED <<noted, unsaved>> /\ e \in noted
        /\ finished' = IF id \in dirty' THEN finished ELSE finished \cup {e}
    BY <1>6 DEF Ends, Live, FollowsInv, SeenInv, NotedAll
  <2>2. /\ \A a \in Live(active') : a # id /\ a \in Live(active) /\ active'[a] = active[a]
        /\ Overflow' = Overflow
    BY <1>1, <2>1 DEF Live, Items, Overflow
  <2>3. NoneOf(active', e)
    BY <1>3, <2>2 DEF NoneOf
  <2>4. CASE SameRows({id})
    <3>1. finished' = finished /\ db' = db
      BY <2>1, <2>4 DEF SameRows
    <3>2. \A f : NoneOf(active, f) => NoneOf(active', f)
      BY <2>2 DEF NoneOf
    <3>3. ASSUME ~Overflow, NEW a \in Live(active'), NEW b \in Live(db.active),
                 active'[a].event = db.active[b].event, active'[a].event \notin unsaved
          PROVE  a = b
      BY <1>6, <2>2, <3>3 DEF FinishedInv
    <3>. QED  BY <2>1, <2>2, <3>1, <3>2, <3>3 DEF FinishedInv
  <2>5. CASE EndedRows(id, to)
    <3>1. \A b \in Live(db'.active) :
            b # id /\ b \in Live(db.active) /\ db'.active[b] = db.active[b]
      BY <1>1, <2>1, <2>5 DEF EndedRows, Live, Items
    <3>2. ~Overflow /\ e \notin unsaved => NoneOf(db'.active, e)
      BY <1>6, <3>1 DEF FinishedInv, NoneOf
    <3>3. \A f \in finished' : f = e \/ f \in finished
      BY <2>1
    <3>4. ASSUME ~Overflow, NEW f \in finished' \ unsaved
          PROVE  NoneOf(active', f) /\ NoneOf(db'.active, f)
      <4>1. CASE f = e
        BY <2>3, <3>2, <3>4, <4>1
      <4>2. CASE f # e
        BY <2>2, <3>1, <3>3, <3>4, <4>2 DEF FinishedInv, NoneOf
      <4>. QED  BY <4>1, <4>2
    <3>5. ASSUME ~Overflow, NEW a \in Live(active'), NEW b \in Live(db'.active),
                 active'[a].event = db'.active[b].event, active'[a].event \notin unsaved
          PROVE  a = b
      BY <1>6, <2>2, <3>1, <3>5 DEF FinishedInv
    <3>6. finished' \subseteq noted'
      BY <2>1 DEF FinishedInv
    <3>. QED  BY <2>1, <2>2, <3>4, <3>5, <3>6 DEF FinishedInv
  <2>. QED  BY <1>1, <1>6, <2>4, <2>5, EndsRows
<1>7. ASSUME up, up' = up, NEW e \in Pushes, Notes(e) PROVE FinishedInv'
  <2>1. /\ noted \subseteq noted' /\ finished' = finished /\ active' = active
        /\ unsaved \subseteq unsaved'
    BY <1>7 DEF Notes
  <2>2. ~Overflow' => ~Overflow
    BY <1>1, <2>1, StillRoom
  <2>3. db'.active = db.active
    BY <1>1, <1>7, NotesRows DEF SameRows, NotedRows, FollowsInv, SafeInv, RowsInv
  <2>. QED  BY <1>7, <2>1, <2>2, <2>3 DEF FinishedInv, NoneOf
<1>8. CASE Tick
  <2>1. /\ active' = Aged(active) /\ db'.active = Aged(db.active) /\ up' = up
        /\ UNCHANGED <<noted, unsaved, finished>>
    BY <1>1, <1>8 DEF Tick, world, ghosts, Rows
  <2>2. /\ Live(active') = Live(active)
        /\ \A i \in Live(active) : active'[i].event = active[i].event
        /\ Live(db'.active) = Live(db.active)
        /\ \A i \in Live(db.active) : db'.active[i].event = db.active[i].event
    BY <1>1, <2>1, AgedType
  <2>. QED  BY <2>1, <2>2 DEF FinishedInv, NoneOf, Overflow
<1>9. CASE Crash
  <2>1. /\ Live(active') = {} /\ ~up' /\ db' = db
        /\ UNCHANGED <<noted, unsaved, finished>>
    BY <1>9, NothingHeld DEF Crash, disk, ghosts
  <2>. QED  BY <2>1 DEF FinishedInv, NoneOf, Overflow
<1>10. CASE Restart
  <2>1. /\ active' = db.active /\ db' = db /\ UNCHANGED <<noted, unsaved, finished>>
    BY <1>10 DEF Restart, ghosts
  <2>. QED  BY <2>1 DEF FinishedInv, NoneOf, Overflow, FollowsInv, SafeInv, RowsInv, Fits
<1>. QED  BY <1>2, <1>4, <1>5, <1>6, <1>7, <1>8, <1>9, <1>10, DataStep DEF FollowsInv, SafeInv

LEMMA InitFollowsAll == Init => FollowsInv /\ FinishedInv
<1>1. Init => finished = {} /\ Live(active) = {}
  BY NothingHeld DEF Init
<1>. QED  BY <1>1, InitInv, InitSafe, InitFollows DEF FollowsInv, SafeInv, FinishedInv

LEMMA NextFollowsAll ==
  FollowsInv /\ FinishedInv /\ [Next]_vars => (FollowsInv /\ FinishedInv)'
<1>1. FollowsInv /\ [Next]_vars => FollowsInv'
  BY NextSafe, FollowNext, SeenNext DEF FollowsInv
<1>. QED  BY <1>1, FinishedNext

LEMMA FinishedMeans == FollowsInv /\ FinishedInv => FinishedStaysFinished
BY DEF FinishedInv, FinishedStaysFinished, NoneOf

\* A comment whose work was done or dismissed, on disk, never comes back as
\* work, redelivered or not, before or after a restart, unless more events came
\* in than the list of seen ones holds, or its creating transaction had failed
\* (hasSeenSourceEventId, addSeenSourceEventId, hydrate).
THEOREM FinishedForGood == Spec => []FinishedStaysFinished
BY FinishedMeans, InitFollowsAll, NextFollowsAll, PTL DEF Spec

-----------------------------------------------------------------------------
(* The rows implement the queue                                            *)

\* No write is ever behind, and what the history remembers is not active.
CleanInv ==
  /\ dirty = {} /\ unsaved = {}
  /\ \A id \in Live(db.active) : \A n \in 1..Len(db.history) :
       db.history[n].event # db.active[id].event

LEMMA CleanMeans ==
  ASSUME ~Overflow, FollowsInv, CleanInv
  PROVE  /\ \A e \in SourceEvents : KnownRow(e) <=> e \in noted
         /\ up => /\ db.active = active /\ db.history = history
                  /\ noted \subseteq ToSet(seenSourceEventIds)
<1>1. /\ DataOK /\ noted \subseteq SourceEvents /\ active \in Items /\ db.active \in Items
  BY RowsAsTheyAre DEF FollowsInv, SafeInv, TypeInv, DataOK
<1>2. noted \subseteq ToSet(db.seen) /\ (up => noted \subseteq ToSet(seenSourceEventIds))
  BY DEF FollowsInv, SeenInv, CleanInv
<1>3. \A e \in SourceEvents : KnownRow(e) <=> e \in noted
  BY <1>2 DEF KnownRow, InHistory, FollowsInv, SeenInv, NotedAll
<1>4. up => db.active = active
  <2>1. up => \A id \in WorkItems : db.active[id] = active[id]
    BY DEF FollowsInv, FollowInv, CleanInv
  <2>2. /\ db.active = [id \in WorkItems |-> db.active[id]]
        /\ active = [id \in WorkItems |-> active[id]]
    BY <1>1 DEF Items
  <2>. QED  BY <2>1, <2>2
<1>5. up => db.history = history
  BY DEF FollowsInv, FollowInv, CleanInv
<1>. QED  BY <1>2, <1>3, <1>4, <1>5

\* What a step may do to the rows.
RowMoved(id, c) ==
  /\ c.event = db.active[id].event /\ MoveRule(db.active[id], c)
  /\ db'.active = [db.active EXCEPT ![id] = c] /\ noted' = noted

RowMade(id, e) ==
  /\ e \notin noted /\ noted' = noted \cup {e}
  /\ db'.active = [db.active EXCEPT ![id] = NewItem(e)]

RowOver(id) == db'.active = [db.active EXCEPT ![id] = NoWork] /\ noted' = noted

RowsStill ==
  /\ \A e \in Comments : e \in noted' <=> e \in noted
  /\ Live(db'.active) = Live(db.active)
  /\ \A id \in Live(db.active) : /\ db'.active[id].event = db.active[id].event
                                 /\ db'.active[id].status = db.active[id].status
                                 /\ db'.active[id].agent = db.active[id].agent

LEMMA NoFailure ==
  ASSUME MaxFailures = 0, DataOK
  PROVE  ~(failures < MaxFailures)
<1>1. failures \in Nat
  BY ConfigAssumption DEF DataOK
<1>. QED  BY <1>1

LEMMA MovesClean ==
  ASSUME MaxFailures = 0, ~Overflow, FollowsInv, CleanInv, up,
         NEW id \in Live(active), NEW c \in Followup, MovesTo(id, c)
  PROVE  CleanInv' /\ id \in Live(db.active) /\ RowMoved(id, c)
<1>1. /\ DataOK /\ active \in Items /\ db \in Rows /\ id \in WorkItems /\ db.active = active
      /\ Fits(db) /\ active[id] # NoWork
  BY RowsAsTheyAre, CleanMeans DEF FollowsInv, SafeInv, TypeInv, RowsInv, Live, DataOK
<1>2. /\ RowPut(db, id, c).active = [db.active EXCEPT ![id] = c]
      /\ RowPut(db, id, c).history = db.history
  BY <1>1, RowPutType
<1>3. c.event = active[id].event /\ MoveRule(active[id], c) /\ UNCHANGED <<noted, unsaved>>
  BY DEF MovesTo, ghosts
<1>. DEFINE after == [db.active EXCEPT ![id] = c]
<1>4. \A i \in Live(after) : i \in Live(db.active) /\ after[i].event = db.active[i].event
  BY <1>1, <1>3 DEF Live, Items
<1>. HIDE DEF after
<1>5. Fits(RowPut(db, id, c))
  <2>1. /\ RowPut(db, id, c).active = after /\ RowPut(db, id, c).history = db.history
    BY <1>2 DEF after
  <2>2. \A a, b \in Live(after) : after[a].event = after[b].event => a = b
    BY <1>1, <1>4 DEF Fits
  <2>. QED  BY <1>1, <2>1, <2>2 DEF Fits
<1>6. MovedRows(id, c)
  BY <1>1, <1>5, NoFailure, MovesRows
<1>7. dirty' = {} /\ unsaved' = {} /\ db'.active = after /\ db'.history = db.history
  BY <1>3, <1>6 DEF MovedRows, CleanInv, after
<1>8. CleanInv'
  BY <1>4, <1>7 DEF CleanInv
<1>. QED  BY <1>1, <1>3, <1>7, <1>8 DEF RowMoved, after

LEMMA CreatesClean ==
  ASSUME MaxFailures = 0, ~Overflow, FollowsInv, CleanInv, up,
         NEW id \in WorkItems, NEW e \in Comments, Creates(id, e)
  PROVE  CleanInv' /\ id \notin Live(db.active) /\ RowMade(id, e)
<1>1. /\ DataOK /\ active \in Items /\ db \in Rows /\ db.active \in Items
      /\ Fits(db) /\ e \in SourceEvents /\ made \in Nat
      /\ db.seen \in SeenList /\ seenSourceEventIds \in SeenList
  BY RowsAsTheyAre, PushOrComment DEF FollowsInv, SafeInv, TypeInv, RowsInv, DataOK
<1>. DEFINE put == RowPut(db, id, NewItem(e))
<1>2. NewItem(e) \in Followup /\ NewItem(e).event = e
  BY NewItemType
<1>3. /\ put \in Rows /\ put.active = [db.active EXCEPT ![id] = NewItem(e)]
      /\ put.history = db.history /\ put.seen = db.seen
  BY <1>1, <1>2, RowPutType
<1>4. RowNoted(put, e).active = put.active /\ RowNoted(put, e).history = put.history
  <2>. HIDE DEF put
  <2>. QED  BY <1>1, <1>3, RowNotedType
<1>5. /\ e \notin noted /\ noted' = noted \cup {e} /\ id = made + 1
  BY CleanMeans DEF Creates, hasSeenSourceEventId
<1>6. /\ \A i \in Live(db.active) : db.active[i].event # e /\ i # id
      /\ \A n \in 1..Len(db.history) : db.history[n].event # e
  BY <1>1, <1>5 DEF FollowsInv, SafeInv, RowsInv, NumberedIn, SeenInv, NotedAll
<1>. DEFINE after == [db.active EXCEPT ![id] = NewItem(e)]
<1>7. \A i \in Live(after) : \/ i = id /\ after[i].event = e
                             \/ i \in Live(db.active) /\ after[i].event = db.active[i].event
  BY <1>1, <1>2 DEF Live, Items
<1>8. RowNoted(put, e).active = after /\ RowNoted(put, e).history = db.history
  BY <1>3, <1>4
<1>. HIDE DEF after
<1>9. Fits(RowNoted(put, e))
  <2>. HIDE DEF put
  <2>. QED  BY <1>1, <1>6, <1>7, <1>8 DEF Fits
<1>10. CreatedRows(id, e)
  BY <1>1, <1>9, NoFailure, CreatesRows DEF put
<1>11. dirty' = {} /\ unsaved' = {} /\ db'.active = after /\ db'.history = db.history
  BY <1>10 DEF CreatedRows, CleanInv, Creates, after
<1>12. CleanInv'
  BY <1>6, <1>7, <1>11 DEF CleanInv
<1>. QED  BY <1>5, <1>6, <1>11, <1>12 DEF RowMade, after

LEMMA EndsClean ==
  ASSUME MaxFailures = 0, ~Overflow, FollowsInv, CleanInv, up,
         NEW id \in Live(active), NEW to \in Settled, Ends(id, to)
  PROVE  CleanInv' /\ id \in Live(db.active) /\ RowOver(id)
<1>. DEFINE x == Ended(id, to)
            h == db.history
            t == trimHistory(<<x>> \o h)
<1>1. /\ DataOK /\ active \in Items /\ db \in Rows /\ id \in WorkItems /\ db.active = active
      /\ Fits(db) /\ active[id] # NoWork /\ h \in Seq(Entry)
  BY RowsAsTheyAre, CleanMeans DEF FollowsInv, SafeInv, TypeInv, RowsInv, Live, DataOK
<1>2. x \in Entry /\ x.event = active[id].event /\ id \in Live(db.active)
  BY <1>1, EndedType DEF Ended
<1>3. \A n \in 1..Len(h) : h[n].event # x.event
  BY <1>1, <1>2 DEF CleanInv
<1>. HIDE DEF x
<1>4. /\ RowRetired(db, id, x).active = [db.active EXCEPT ![id] = NoWork]
      /\ RowRetired(db, id, x).history = <<x>> \o h
  BY <1>1, <1>2, RowRetiredType
<1>. DEFINE after == [db.active EXCEPT ![id] = NoWork]
            long == <<x>> \o h
<1>5. \A i \in Live(after) : i # id /\ i \in Live(db.active) /\ after[i] = db.active[i]
  BY <1>1 DEF Live, Items
<1>6. /\ Len(long) = Len(h) + 1 /\ long[1] = x /\ Len(h) \in Nat
      /\ \A n \in 1..Len(h) : long[n + 1] = h[n]
  BY <1>1, <1>2, LongerIs, LenProperties
<1>. HIDE DEF after, long
<1>7. ASSUME NEW m \in 1..Len(long), NEW n \in 1..Len(long), long[m].event = long[n].event
      PROVE  m = n
  <2>1. \A k \in 1..Len(long) : k = 1 \/ (k - 1 \in 1..Len(h) /\ long[k] = h[k - 1])
    <3>1. \A k \in 1..Len(long) : k = 1 \/ (k - 1 \in 1..Len(h) /\ (k - 1) + 1 = k)
      BY <1>6
    <3>. QED  BY <1>6, <3>1
  <2>2. CASE m = 1 \/ n = 1
    BY <1>3, <1>6, <1>7, <2>1, <2>2
  <2>3. CASE m # 1 /\ n # 1
    <3>1. /\ m - 1 \in 1..Len(h) /\ n - 1 \in 1..Len(h)
          /\ h[m - 1].event = h[n - 1].event
      BY <1>7, <2>1, <2>3
    <3>2. m - 1 = n - 1
      BY <1>1, <3>1 DEF Fits
    <3>. QED  BY <1>6, <3>2
  <2>. QED  BY <2>2, <2>3
<1>8. Fits(RowRetired(db, id, x))
  <2>1. RowRetired(db, id, x).active = after /\ RowRetired(db, id, x).history = long
    BY <1>4 DEF after, long
  <2>2. \A a, b \in Live(after) : after[a].event = after[b].event => a = b
    BY <1>1, <1>5 DEF Fits
  <2>. QED  BY <1>7, <2>1, <2>2 DEF Fits
<1>9. EndedRows(id, to)
  BY <1>1, <1>2, <1>8, NoFailure, EndsRows DEF x
<1>10. /\ dirty' = {} /\ unsaved' = {} /\ noted' = noted
       /\ db'.active = after /\ db'.history = t
  BY <1>9 DEF EndedRows, CleanInv, Ends, after, x
<1>11. \A n \in 1..Len(t) : \/ n = 1 /\ t[n] = x
                            \/ n # 1 /\ n - 1 \in 1..Len(h) /\ t[n] = h[n - 1]
  <2>1. \A hh \in Seq(Entry), y \in Entry :
          LET tt == trimHistory(<<y>> \o hh)
          IN \A n \in 1..Len(tt) : \/ n = 1 /\ tt[n] = y
                                   \/ n # 1 /\ n - 1 \in 1..Len(hh) /\ tt[n] = hh[n - 1]
    BY TrimmedIs
  <2>. QED  BY <1>1, <1>2, <2>1
<1>. HIDE DEF t
<1>12. ASSUME NEW i \in Live(after), NEW n \in 1..Len(t) PROVE t[n].event # after[i].event
  <2>1. i # id /\ i \in Live(db.active) /\ after[i] = db.active[i]
    BY <1>5
  <2>2. db.active[i].event # x.event
    BY <1>1, <1>2, <2>1 DEF Fits
  <2>. QED  BY <1>11, <2>1, <2>2 DEF CleanInv
<1>13. CleanInv'
  BY <1>10, <1>12 DEF CleanInv
<1>. QED  BY <1>2, <1>10, <1>13 DEF RowOver, after

LEMMA NotesClean ==
  ASSUME MaxFailures = 0, FollowsInv, CleanInv, NEW e \in Pushes, Notes(e)
  PROVE  CleanInv' /\ RowsStill
<1>1. DataOK /\ Fits(db)
  BY DEF FollowsInv, SafeInv, TypeInv, RowsInv
<1>2. NotedRows(e)
  BY <1>1, NoFailure, NotesRows
<1>3. /\ dirty' = {} /\ unsaved' = {} /\ noted' = noted \cup {e}
      /\ db'.active = db.active /\ db'.history = db.history
  BY <1>2 DEF NotedRows, CleanInv, Notes
<1>4. e \notin Comments
  BY InputAssumption
<1>. QED  BY <1>3, <1>4 DEF CleanInv, RowsStill

LEMMA CleanNext ==
  ASSUME MaxFailures = 0, ~Overflow, FollowsInv, CleanInv, [Next]_vars
  PROVE  /\ CleanInv'
         /\ \/ RowsStill
            \/ \E id \in Live(db.active), c \in Followup : RowMoved(id, c)
            \/ \E id \in WorkItems \ Live(db.active), e \in Comments : RowMade(id, e)
            \/ \E id \in Live(db.active) : RowOver(id)
<1>1. db \in Rows /\ db.active \in Items
  BY RowsAsTheyAre DEF FollowsInv, SafeInv, TypeInv
<1>2. ASSUME db' = db, UNCHANGED <<unsaved, noted>>, dirty' \in {dirty, {}}
      PROVE  CleanInv' /\ RowsStill
  BY <1>2 DEF CleanInv, RowsStill
<1>3. CASE Kept
  BY <1>2, <1>3 DEF Kept, disk, ghosts
<1>4. CASE Crash
  BY <1>2, <1>4 DEF Crash, disk, ghosts
<1>5. CASE Restart
  BY <1>2, <1>5 DEF Restart, ghosts
<1>6. CASE Tick
  <2>1. /\ db'.active = Aged(db.active) /\ db'.history = db.history
        /\ UNCHANGED <<noted, unsaved, dirty>>
    BY <1>1, <1>6 DEF Tick, ghosts, Rows
  <2>2. RowsStill
    BY <1>1, <2>1, AgedType DEF RowsStill
  <2>3. CleanInv'
    BY <2>1, <2>2 DEF RowsStill, CleanInv
  <2>. QED  BY <2>2, <2>3
<1>7. ASSUME up, NEW id \in Live(active), NEW c \in Followup, MovesTo(id, c)
      PROVE  CleanInv' /\ \E i \in Live(db.active), d \in Followup : RowMoved(i, d)
  BY <1>7, MovesClean
<1>8. ASSUME up, NEW id \in WorkItems, NEW e \in Comments, Creates(id, e)
      PROVE  CleanInv' /\ \E i \in WorkItems \ Live(db.active), f \in Comments : RowMade(i, f)
  BY <1>8, CreatesClean
<1>9. ASSUME up, NEW id \in Live(active), NEW to \in Settled, Ends(id, to)
      PROVE  CleanInv' /\ \E i \in Live(db.active) : RowOver(i)
  BY <1>9, EndsClean
<1>10. ASSUME NEW e \in Pushes, Notes(e) PROVE CleanInv' /\ RowsStill
  BY <1>10, NotesClean
<1>. QED  BY <1>3, <1>4, <1>5, <1>6, <1>7, <1>8, <1>9, <1>10, DataStep DEF FollowsInv, SafeInv

-----------------------------------------------------------------------------
(* The queue's variables, read from the rows                               *)

OwnerOf(c) == IF RowsOf(c) = {} THEN NoAgent ELSE RowOf(c).agent

Phase(s) == CASE s = "queued" -> "waiting" [] s = "stale" -> "lapsed" [] OTHER -> "held"

\* With rows' items and the noted events, what the queue knows of a comment.
Seen(items, known, c, state, owner) ==
  /\ \A id \in Live(items) : items[id].event = c =>
       state = Phase(items[id].status) /\ owner = items[id].agent
  /\ (\A id \in Live(items) : items[id].event # c) =>
       state = (IF c \in known THEN "over" ELSE "none") /\ owner = NoAgent

LEMMA StateIs ==
  ASSUME ~Overflow, FollowsInv, CleanInv, NEW c \in Comments
  PROVE  Seen(db.active, noted, c, StateOf(c), OwnerOf(c))
<1>1. Fits(db) /\ (KnownRow(c) <=> c \in noted)
  BY CleanMeans, PushOrComment DEF FollowsInv, SafeInv, RowsInv
<1>2. ASSUME NEW id \in Live(db.active), db.active[id].event = c
      PROVE  StateOf(c) = Phase(db.active[id].status) /\ OwnerOf(c) = db.active[id].agent
  <2>1. RowsOf(c) = {id}
    BY <1>1, <1>2 DEF RowsOf, Fits
  <2>2. RowOf(c) = db.active[id]
    BY <2>1 DEF RowOf
  <2>. QED  BY <2>1, <2>2 DEF StateOf, OwnerOf, Phase
<1>3. ASSUME \A id \in Live(db.active) : db.active[id].event # c
      PROVE  StateOf(c) = (IF c \in noted THEN "over" ELSE "none") /\ OwnerOf(c) = NoAgent
  <2>1. RowsOf(c) = {}
    BY <1>3 DEF RowsOf
  <2>. QED  BY <1>1, <2>1 DEF StateOf, OwnerOf
<1>. QED  BY <1>2, <1>3 DEF Seen

AllSeen == \A c \in Comments : Seen(db.active, noted, c, StateOf(c), OwnerOf(c))

\* The queue's state and owner, as FollowupRefinement substitutes them.
States == [c \in Comments |-> StateOf(c)]
Owners == [c \in Comments |-> OwnerOf(c)]

LEMMA QueueEnqueues ==
  ASSUME NEW e \in Comments, States[e] = "none",
         States' = [States EXCEPT ![e] = "waiting"], Owners' = Owners
  PROVE  [Queue!Next]_(Queue!vars)
BY DEF Queue!Next, Queue!Enqueue, Queue!vars, States, Owners, OwnerOf

LEMMA QueueTakes ==
  ASSUME NEW e \in Comments, NEW a \in Agents, States[e] \in {"waiting", "lapsed"},
         States' = [States EXCEPT ![e] = "held"], Owners' = [Owners EXCEPT ![e] = a]
  PROVE  [Queue!Next]_(Queue!vars)
BY DEF Queue!Next, Queue!Take, Queue!vars, States, Owners, OwnerOf

LEMMA QueueLapses ==
  ASSUME NEW e \in Comments, States[e] \in {"waiting", "held"},
         States' = [States EXCEPT ![e] = "lapsed"], Owners' = Owners
  PROVE  [Queue!Next]_(Queue!vars)
BY DEF Queue!Next, Queue!Lapse, Queue!vars, States, Owners, OwnerOf

LEMMA QueueSettles ==
  ASSUME NEW e \in Comments, States[e] \in {"waiting", "held", "lapsed"},
         States' = [States EXCEPT ![e] = "over"], Owners' = [Owners EXCEPT ![e] = NoAgent]
  PROVE  [Queue!Next]_(Queue!vars)
BY DEF Queue!Next, Queue!Settle, Queue!vars, States, Owners, OwnerOf

LEMMA QueueStutters ==
  ASSUME States' = States, Owners' = Owners
  PROVE  [Queue!Next]_(Queue!vars)
BY DEF Queue!vars, States, Owners, OwnerOf

\* A comment whose row a step leaves alone looks the same after it.
LEMMA OthersSame ==
  ASSUME AllSeen, AllSeen', NEW d \in Comments, d \in noted <=> d \in noted',
         \A id \in WorkItems :
           \/ db'.active[id] = db.active[id]
           \/ /\ id \in Live(db.active) => db.active[id].event # d
              /\ id \in Live(db'.active) => db'.active[id].event # d
  PROVE  StateOf(d)' = StateOf(d) /\ OwnerOf(d)' = OwnerOf(d)
<1>1. /\ Seen(db.active, noted, d, StateOf(d), OwnerOf(d))
      /\ Seen(db'.active, noted', d, StateOf(d)', OwnerOf(d)')
  BY DEF AllSeen
<1>2. \A id \in WorkItems :
         (id \in Live(db.active) /\ db.active[id].event = d)
           <=> (id \in Live(db'.active) /\ db'.active[id].event = d)
  BY DEF Live
<1>3. \A id \in WorkItems :
         id \in Live(db.active) /\ db.active[id].event = d => db'.active[id] = db.active[id]
  OBVIOUS
<1>4. CASE \E id \in Live(db.active) : db.active[id].event = d
  <2>1. PICK id \in WorkItems : id \in Live(db.active) /\ db.active[id].event = d
    BY <1>4 DEF Live
  <2>. QED  BY <1>1, <1>2, <1>3, <2>1 DEF Seen
<1>5. CASE \A id \in Live(db.active) : db.active[id].event # d
  <2>1. \A id \in Live(db'.active) : db'.active[id].event # d
    BY <1>2, <1>5 DEF Live
  <2>. QED  BY <1>1, <1>5, <2>1 DEF Seen
<1>. QED  BY <1>4, <1>5

\* What a step does to one comment, the others being as they were.
LEMMA OneChanges ==
  ASSUME NEW e \in Comments,
         \A d \in Comments : d # e => StateOf(d)' = StateOf(d) /\ OwnerOf(d)' = OwnerOf(d)
  PROVE  /\ States' = [States EXCEPT ![e] = StateOf(e)']
         /\ Owners' = [Owners EXCEPT ![e] = OwnerOf(e)']
         /\ States[e] = StateOf(e) /\ Owners[e] = OwnerOf(e)
         /\ StateOf(e)' = StateOf(e) => States' = States
         /\ OwnerOf(e)' = OwnerOf(e) => Owners' = Owners
BY DEF States, Owners

LEMMA MovedMaps ==
  ASSUME db \in Rows, Fits(db), AllSeen, AllSeen',
         NEW id \in Live(db.active), NEW c \in Followup, RowMoved(id, c)
  PROVE  [Queue!Next]_(Queue!vars)
<1>. DEFINE b == db.active[id]
<1>0. PICK e \in Comments : e = b.event
  BY LiveType DEF Rows, Followup
<1>1. /\ db.active \in Items /\ id \in WorkItems /\ b \in Followup
  BY LiveType DEF Rows, Live
<1>2. /\ db'.active = [db.active EXCEPT ![id] = c] /\ noted' = noted
      /\ c.event = e /\ MoveRule(b, c)
  BY <1>0 DEF RowMoved
<1>3. /\ db'.active \in Items /\ db'.active[id] = c /\ id \in Live(db'.active)
      /\ \A i \in WorkItems : i # id => db'.active[i] = db.active[i]
  BY <1>1, <1>2, SentinelAssumption DEF Items, Live
<1>4. /\ StateOf(e) = Phase(b.status) /\ OwnerOf(e) = b.agent
      /\ StateOf(e)' = Phase(c.status) /\ OwnerOf(e)' = c.agent
  BY <1>0, <1>1, <1>2, <1>3 DEF AllSeen, Seen
<1>5. \A d \in Comments : d # e => StateOf(d)' = StateOf(d) /\ OwnerOf(d)' = OwnerOf(d)
  <2>1. SUFFICES ASSUME NEW d \in Comments, d # e
                 PROVE  StateOf(d)' = StateOf(d) /\ OwnerOf(d)' = OwnerOf(d)
    OBVIOUS
  <2>2. \A i \in WorkItems : \/ db'.active[i] = db.active[i]
                             \/ /\ i \in Live(db.active) => db.active[i].event # d
                                /\ i \in Live(db'.active) => db'.active[i].event # d
    BY <1>0, <1>2, <1>3, <2>1
  <2>. QED  BY <1>2, <2>2, OthersSame
<1>6. /\ States' = [States EXCEPT ![e] = StateOf(e)']
      /\ Owners' = [Owners EXCEPT ![e] = OwnerOf(e)']
      /\ States[e] = StateOf(e) /\ Owners[e] = OwnerOf(e)
      /\ StateOf(e)' = StateOf(e) => States' = States
      /\ OwnerOf(e)' = OwnerOf(e) => Owners' = Owners
  BY <1>5, OneChanges
<1>8. b.status \in Open
  BY <1>1 DEF Followup
<1>9. CASE b.status \in {"queued", "stale"} /\ c.status \in {"claimed", "in_progress"}
           /\ c.agent \in Agents
  BY <1>4, <1>6, <1>9, QueueTakes DEF Phase
<1>10. CASE b.status # "stale" /\ c.status = "stale" /\ c.agent = b.agent
  <2>1. StateOf(e) \in {"waiting", "held"} /\ StateOf(e)' = "lapsed"
    BY <1>4, <1>8, <1>10 DEF Phase, Open
  <2>. QED  BY <1>4, <1>6, <1>10, <2>1, QueueLapses
<1>11. CASE b.status = "claimed" /\ c.status = "in_progress" /\ c.agent = b.agent
  <2>1. StateOf(e)' = StateOf(e) /\ OwnerOf(e)' = OwnerOf(e)
    BY <1>4, <1>11 DEF Phase
  <2>. QED  BY <1>6, <2>1, QueueStutters
<1>. QED  BY <1>2, <1>9, <1>10, <1>11 DEF MoveRule

LEMMA MadeMaps ==
  ASSUME db \in Rows, AllSeen, AllSeen',
         \A i \in Live(db.active) : db.active[i].event \in noted,
         NEW id \in WorkItems \ Live(db.active), NEW e \in Comments, RowMade(id, e)
  PROVE  [Queue!Next]_(Queue!vars)
<1>1. /\ db.active \in Items /\ e \notin noted /\ noted' = noted \cup {e}
      /\ db'.active = [db.active EXCEPT ![id] = NewItem(e)]
      /\ NewItem(e) \in Followup
  BY NewItemType DEF Rows, RowMade
<1>2. /\ db'.active[id] = NewItem(e) /\ id \in Live(db'.active)
      /\ \A i \in WorkItems : i # id => db'.active[i] = db.active[i]
  BY <1>1, SentinelAssumption DEF Items, Live
<1>3. /\ NewItem(e).event = e /\ NewItem(e).status = "queued" /\ NewItem(e).agent = NoAgent
  BY DEF NewItem
<1>4. StateOf(e) = "none" /\ OwnerOf(e) = NoAgent
  BY <1>1 DEF AllSeen, Seen
<1>5. StateOf(e)' = "waiting" /\ OwnerOf(e)' = NoAgent
  BY <1>2, <1>3 DEF AllSeen, Seen, Phase
<1>6. \A d \in Comments : d # e => StateOf(d)' = StateOf(d) /\ OwnerOf(d)' = OwnerOf(d)
  <2>1. SUFFICES ASSUME NEW d \in Comments, d # e
                 PROVE  StateOf(d)' = StateOf(d) /\ OwnerOf(d)' = OwnerOf(d)
    OBVIOUS
  <2>2. \A i \in WorkItems : \/ db'.active[i] = db.active[i]
                             \/ /\ i \in Live(db.active) => db.active[i].event # d
                                /\ i \in Live(db'.active) => db'.active[i].event # d
    BY <1>2, <1>3, <2>1
  <2>. QED  BY <1>1, <2>1, <2>2, OthersSame
<1>7. /\ States' = [States EXCEPT ![e] = "waiting"] /\ Owners' = Owners
      /\ States[e] = "none"
  BY <1>4, <1>5, <1>6, OneChanges
<1>. QED  BY <1>7, QueueEnqueues

LEMMA OverMaps ==
  ASSUME db \in Rows, Fits(db), AllSeen, AllSeen',
         \A i \in Live(db.active) : db.active[i].event \in noted,
         NEW id \in Live(db.active), RowOver(id)
  PROVE  [Queue!Next]_(Queue!vars)
<1>. DEFINE b == db.active[id]
<1>1. PICK e \in Comments : e = b.event
  BY LiveType DEF Rows, Followup
<1>2. /\ db.active \in Items /\ id \in WorkItems /\ b \in Followup /\ b.status \in Open
      /\ noted' = noted /\ db'.active = [db.active EXCEPT ![id] = NoWork]
  BY LiveType DEF Rows, Live, RowOver, Followup
<1>3. /\ db'.active[id] = NoWork /\ id \notin Live(db'.active)
      /\ \A i \in WorkItems : i # id => db'.active[i] = db.active[i]
  BY <1>2 DEF Items, Live
<1>4. \A i \in Live(db'.active) : db'.active[i].event # e
  <2>1. SUFFICES ASSUME NEW i \in Live(db'.active), db'.active[i].event = e PROVE FALSE
    OBVIOUS
  <2>2. i # id /\ i \in Live(db.active) /\ db.active[i].event = e
    BY <1>3, <2>1 DEF Live
  <2>. QED  BY <1>1, <2>2 DEF Fits
<1>5. StateOf(e) = Phase(b.status)
  BY <1>1 DEF AllSeen, Seen
<1>6. StateOf(e) \in {"waiting", "held", "lapsed"}
  BY <1>2, <1>5 DEF Phase, Open
<1>7. StateOf(e)' = "over" /\ OwnerOf(e)' = NoAgent
  BY <1>1, <1>2, <1>4 DEF AllSeen, Seen
<1>8. \A d \in Comments : d # e => StateOf(d)' = StateOf(d) /\ OwnerOf(d)' = OwnerOf(d)
  <2>1. SUFFICES ASSUME NEW d \in Comments, d # e
                 PROVE  StateOf(d)' = StateOf(d) /\ OwnerOf(d)' = OwnerOf(d)
    OBVIOUS
  <2>2. \A i \in WorkItems : \/ db'.active[i] = db.active[i]
                             \/ /\ i \in Live(db.active) => db.active[i].event # d
                                /\ i \in Live(db'.active) => db'.active[i].event # d
    BY <1>1, <1>3, <2>1
  <2>. QED  BY <1>2, <2>1, <2>2, OthersSame
<1>9. /\ States' = [States EXCEPT ![e] = "over"] /\ Owners' = [Owners EXCEPT ![e] = NoAgent]
      /\ States[e] \in {"waiting", "held", "lapsed"}
  BY <1>6, <1>7, <1>8, OneChanges
<1>. QED  BY <1>9, QueueSettles

LEMMA StillMaps ==
  ASSUME AllSeen, AllSeen', RowsStill
  PROVE  [Queue!Next]_(Queue!vars)
<1>1. ASSUME NEW d \in Comments
      PROVE  StateOf(d)' = StateOf(d) /\ OwnerOf(d)' = OwnerOf(d)
  <2>1. /\ Seen(db.active, noted, d, StateOf(d), OwnerOf(d))
        /\ Seen(db'.active, noted', d, StateOf(d)', OwnerOf(d)')
    BY DEF AllSeen
  <2>2. CASE \E id \in Live(db.active) : db.active[id].event = d
    <3>1. PICK id \in Live(db.active) : db.active[id].event = d
      BY <2>2
    <3>2. /\ id \in Live(db'.active) /\ db'.active[id].event = d
          /\ db'.active[id].status = db.active[id].status
          /\ db'.active[id].agent = db.active[id].agent
      BY <3>1 DEF RowsStill
    <3>. QED  BY <2>1, <3>1, <3>2 DEF Seen
  <2>3. CASE \A id \in Live(db.active) : db.active[id].event # d
    <3>1. \A id \in Live(db'.active) : db'.active[id].event # d
      BY <2>3 DEF RowsStill
    <3>2. d \in noted' <=> d \in noted
      BY DEF RowsStill
    <3>. QED  BY <2>1, <2>3, <3>1, <3>2 DEF Seen
  <2>. QED  BY <2>2, <2>3
<1>2. States' = States /\ Owners' = Owners
  BY <1>1 DEF States, Owners
<1>. QED  BY <1>2, QueueStutters

LEMMA StepMaps ==
  ASSUME MaxFailures = 0, ~Overflow, FollowsInv, CleanInv, AllSeen, AllSeen', [Next]_vars
  PROVE  [Queue!Next]_(Queue!vars)
<1>1. /\ db \in Rows /\ Fits(db)
      /\ \A i \in Live(db.active) : db.active[i].event \in noted
  BY RowsAsTheyAre DEF FollowsInv, SafeInv, TypeInv, RowsInv, SeenInv, NotedAll
<1>2. CASE RowsStill
  BY <1>2, StillMaps
<1>3. ASSUME NEW id \in Live(db.active), NEW c \in Followup, RowMoved(id, c)
      PROVE  [Queue!Next]_(Queue!vars)
  BY <1>1, <1>3, MovedMaps
<1>4. ASSUME NEW id \in WorkItems \ Live(db.active), NEW e \in Comments, RowMade(id, e)
      PROVE  [Queue!Next]_(Queue!vars)
  BY <1>1, <1>4, MadeMaps
<1>5. ASSUME NEW id \in Live(db.active), RowOver(id)
      PROVE  [Queue!Next]_(Queue!vars)
  BY <1>1, <1>5, OverMaps
<1>. QED  BY <1>2, <1>3, <1>4, <1>5, CleanNext

LEMMA InitClean == Init => CleanInv /\ Queue!Init
<1>1. SUFFICES ASSUME Init PROVE CleanInv /\ Queue!Init
  OBVIOUS
<1>2. /\ Live(db.active) = {} /\ noted = {} /\ dirty = {} /\ unsaved = {}
      /\ db.history = <<>> /\ db.seen = <<>>
  BY <1>1, NothingHeld DEF Init
<1>3. \A c \in Comments : RowsOf(c) = {} /\ ~KnownRow(c)
  BY <1>2, EmptySeen DEF RowsOf, KnownRow, InHistory
<1>4. Queue!Init
  BY <1>3 DEF Queue!Init, StateOf
<1>. QED  BY <1>2, <1>4 DEF CleanInv

\* While no write fails and the list of seen events has not overflowed, the
\* manager implements the queue that FollowupQueue states, whatever
\* deliveries, claims, sweeps, crashes and restarts interleave
\* (createFromWebhook, claimNextFollowup, applyStatusTransition, hydrate).
THEOREM QueueImplemented ==
  ASSUME MaxFailures = 0
  PROVE  Spec /\ []~Overflow => ImplementsQueue
<1>1. FollowsInv /\ FinishedInv /\ CleanInv /\ ~Overflow /\ [Next]_vars => CleanInv'
  BY CleanNext
<1>2. FollowsInv /\ CleanInv /\ ~Overflow => AllSeen
  BY StateIs DEF AllSeen
<1>3. FollowsInv /\ CleanInv /\ ~Overflow /\ AllSeen /\ AllSeen' /\ [Next]_vars
        => [Queue!Next]_(Queue!vars)
  BY StepMaps
<1>. QED  BY <1>1, <1>2, <1>3, InitClean, InitFollowsAll, NextFollowsAll, PTL
          DEF Spec, ImplementsQueue, Queue!Spec

\* In particular when the list of seen events has room for every event there
\* is, which is what configured bounds are for: redelivered, before a restart
\* or after it, no comment is work twice (createFromWebhook, hydrate).
THEOREM QueueWithRoom ==
  ASSUME MaxFailures = 0, IsFiniteSet(SourceEvents), Cardinality(SourceEvents) <= SeenCap
  PROVE  Spec => ImplementsQueue
<1>1. FollowsInv => ~Overflow
  <2>1. SUFFICES ASSUME FollowsInv PROVE ~Overflow
    OBVIOUS
  <2>2. noted \subseteq SourceEvents
    BY <2>1 DEF FollowsInv, SafeInv, TypeInv, DataOK
  <2>3. IsFiniteSet(noted) /\ Cardinality(noted) <= Cardinality(SourceEvents)
    BY <2>2, FS_Subset
  <2>4. Cardinality(noted) \in Nat /\ Cardinality(SourceEvents) \in Nat
    BY <2>3, FS_CardinalityType
  <2>. QED  BY <2>3, <2>4, CapIsNat DEF Overflow
<1>. QED  BY <1>1, InitFollowsAll, NextFollowsAll, QueueImplemented, PTL DEF Spec

=============================================================================
