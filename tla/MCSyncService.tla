--------------------------- MODULE MCSyncService ---------------------------
(***************************************************************************)
(* SyncService for TLC: the repositories, and which issue is in which.     *)
(***************************************************************************)
EXTENDS SyncService

CONSTANTS i1, i2, r1, r2

MCOneUpdate == {[to |-> "in_progress", pr |-> FALSE]}

MCRepoOf == [i \in Issues |-> IF i = i1 THEN r1 ELSE r2]

MCOneRepo  == <<r1>>
MCTwoRepos == <<r2, r1>>

=============================================================================
