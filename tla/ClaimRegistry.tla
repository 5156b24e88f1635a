--------------------------- MODULE ClaimRegistry ---------------------------
(***************************************************************************)
(* What the claim manager promises its clients when no write fails: a      *)
(* registry that gives each issue to at most one agent at a time, never    *)
(* reuses a claim's id, never moves a claim to another agent or issue, and *)
(* knows nothing of locks, memory, transactions, crashes or restarts.      *)
(***************************************************************************)

CONSTANTS Agents, Issues, ClaimIds, NoClaim

VARIABLES
  holder,   \* [issue, agent] of each active claim, NoClaim of the others
  spent     \* the ids of claims that ended

vars == <<holder, spent>>

TypeOK ==
  /\ holder \in [ClaimIds -> [issue : Issues, agent : Agents] \cup {NoClaim}]
  /\ spent \subseteq ClaimIds

Free(i) == \A id \in ClaimIds : holder[id] # NoClaim => holder[id].issue # i

Init == holder = [id \in ClaimIds |-> NoClaim] /\ spent = {}

Grant(id, i, a) ==
  /\ id \notin spent /\ holder[id] = NoClaim /\ Free(i)
  /\ holder' = [holder EXCEPT ![id] = [issue |-> i, agent |-> a]]
  /\ spent' = spent

End(id) ==
  /\ holder[id] # NoClaim
  /\ holder' = [holder EXCEPT ![id] = NoClaim]
  /\ spent' = spent \cup {id}

Next == \E id \in ClaimIds : End(id) \/ \E i \in Issues, a \in Agents : Grant(id, i, a)

Spec == Init /\ [][Next]_vars

=============================================================================
