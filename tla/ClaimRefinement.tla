-------------------------- MODULE ClaimRefinement --------------------------
(***************************************************************************)
(* ClaimManager implements ClaimRegistry while no write fails.  The        *)
(* registry's state is read from the rows, so a crash, which loses all of  *)
(* memory, and the restart that reloads it are steps in which nothing      *)
(* happens to the registry.                                                *)
(***************************************************************************)
EXTENDS ClaimManager

ASSUME HolderAssumption == NoClaim \notin [issue : Issues, agent : Agents]

\* What the registry knows of a claim: whose it is, and on which issue.
HolderOf(c) == IF c = NoClaim THEN NoClaim ELSE [issue |-> c.issue, agent |-> c.agent]

Registry == INSTANCE ClaimRegistry
  WITH holder <- [id \in ClaimIds |-> HolderOf(db.active[id])],
       spent  <- issued \ Live(db.active)

\* Every step of the manager is, on the rows, a grant of a free issue, the end
\* of a claim, or nothing: claimIssue's check against memory never grants what
\* the rows still hold, across any crash (claimIssue, applyTransitionLocked,
\* hydrate).
ImplementsRegistry == Registry!Spec

=============================================================================
