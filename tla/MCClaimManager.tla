--------------------------- MODULE MCClaimManager ---------------------------
(***************************************************************************)
(* ClaimManager for TLC: what agents ask for, and the symmetry of its      *)
(* model values.                                                           *)
(***************************************************************************)
EXTENDS ClaimRefinement, TLC

\* Every status an agent may ask for, with a pull request URL and without.
MCEveryUpdate == [to : Status, pr : BOOLEAN]

MCTwoUpdates == {[to |-> "in_progress", pr |-> FALSE], [to |-> "stale", pr |-> FALSE]}

MCSymmetry ==
  Permutations(Agents) \cup Permutations(Issues)
    \cup Permutations(ClaimIds) \cup Permutations(Tasks)

=============================================================================
