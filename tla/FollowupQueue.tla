--------------------------- MODULE FollowupQueue ---------------------------
(***************************************************************************)
(* What the follow-up manager promises reviewers and agents when no write  *)
(* fails and its list of seen events does not overflow: a review comment   *)
(* is work at most once, in one agent's hands at a time, and over for good *)
(* when it is over.  It knows nothing of deliveries, locks, histories,     *)
(* crashes or restarts.                                                    *)
(***************************************************************************)

CONSTANTS Comments, Agents, NoAgent

VARIABLES
  state,   \* of each comment: "none", "waiting", "held", "lapsed" or "over"
  owner    \* who holds the work of a comment, or held it when it lapsed

vars == <<state, owner>>

Init == /\ state = [c \in Comments |-> "none"]
        /\ owner = [c \in Comments |-> NoAgent]

Enqueue(c) ==
  /\ state[c] = "none"
  /\ state' = [state EXCEPT ![c] = "waiting"]
  /\ owner' = owner

\* Work that waits, or lapsed, goes to whoever takes it.
Take(c, a) ==
  /\ state[c] \in {"waiting", "lapsed"}
  /\ state' = [state EXCEPT ![c] = "held"]
  /\ owner' = [owner EXCEPT ![c] = a]

Lapse(c) ==
  /\ state[c] \in {"waiting", "held"}
  /\ state' = [state EXCEPT ![c] = "lapsed"]
  /\ owner' = owner

Settle(c) ==
  /\ state[c] \in {"waiting", "held", "lapsed"}
  /\ state' = [state EXCEPT ![c] = "over"]
  /\ owner' = [owner EXCEPT ![c] = NoAgent]

Next ==
  \E c \in Comments :
    Enqueue(c) \/ Lapse(c) \/ Settle(c) \/ \E a \in Agents : Take(c, a)

Spec == Init /\ [][Next]_vars

=============================================================================
