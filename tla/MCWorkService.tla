--------------------------- MODULE MCWorkService ---------------------------
(***************************************************************************)
(* WorkService for TLC: two issues of two repositories, the younger more   *)
(* urgent, and a pull request between them in age.                         *)
(***************************************************************************)
EXTENDS WorkService, TLC

CONSTANTS i1, i2, p1, r1, r2

MCByAge  == <<i1, p1, i2>>
MCRepoOf == [x \in Items |-> IF x = i2 THEN r2 ELSE r1]
MCScopes == {{r1}, {r1, r2}}
MCScore  == [i \in Issues |-> IF i = i1 THEN 2 ELSE 0]

MCToMerged == {[to |-> "in_progress", pr |-> FALSE], [to |-> "pr_submitted", pr |-> TRUE],
               [to |-> "pr_merged", pr |-> FALSE], [to |-> "closed", pr |-> FALSE]}

MCSymmetry == Permutations(Agents) \cup Permutations(Tasks) \cup Permutations(ClaimIds)

=============================================================================
