------------------------- MODULE FollowupRefinement ------------------------
(***************************************************************************)
(* FollowupManager implements FollowupQueue while no write fails and the   *)
(* list of seen events holds them all.  The queue is read from the rows    *)
(* alone: a crash, the restart that hydrates memory from them, and the     *)
(* trimming of the history are steps in which nothing happens to it.       *)
(***************************************************************************)
EXTENDS FollowupManager

RowsOf(c) == {id \in Live(db.active) : db.active[id].event = c}

RowOf(c) == db.active[CHOOSE id \in RowsOf(c) : TRUE]

StateOf(c) ==
  IF RowsOf(c) # {}
  THEN CASE RowOf(c).status = "queued" -> "waiting"
         [] RowOf(c).status = "stale"  -> "lapsed"
         [] OTHER                      -> "held"
  ELSE IF KnownRow(c) THEN "over" ELSE "none"

Queue == INSTANCE FollowupQueue
  WITH state <- [c \in Comments |-> StateOf(c)],
       owner <- [c \in Comments |-> IF RowsOf(c) = {} THEN NoAgent ELSE RowOf(c).agent]

\* Every step of the manager is, on the rows, a step of the queue or nothing:
\* a comment redelivered, before a crash or after it, with its item active, in
\* the history or trimmed from it, never becomes work a second time, and work
\* is taken only from the waiting or the lapsed (createFromWebhook,
\* claimNextFollowup, applyStatusTransition, hydrate).
ImplementsQueue == Queue!Spec

=============================================================================
