--------------------------- MODULE MCTokenBucket ---------------------------
(***************************************************************************)
(* TokenBucket for TLC: the symmetry of the principals and of the agents.  *)
(***************************************************************************)
EXTENDS TokenBucket, TLC

MCSymmetry == Permutations(Principals) \cup Permutations(AgentIds)

=============================================================================
