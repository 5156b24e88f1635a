---------------------------- MODULE MCFollowups ----------------------------
(***************************************************************************)
(* FollowupManager for TLC: which comments are on which pull request, how  *)
(* urgent they are, and the symmetry of comments, agents and calls.        *)
(***************************************************************************)
EXTENDS FollowupRefinement, TLC

CONSTANTS c1, c2, s1, pr1

MCOnePr == [e \in SourceEvents |-> pr1]

MCScore == [e \in Comments |-> 0]

MCEverywhere == {Prs}

MCSymmetry ==
  Permutations(Comments) \cup Permutations(Agents) \cup Permutations(Workers)
    \cup Permutations(Hooks)

=============================================================================
