----------------------------- MODULE MCWebhook -----------------------------
(***************************************************************************)
(* WebhookDelivery for TLC: one comment and one push on one pull request,  *)
(* or the comments of two, the deliveries that report them, and one of     *)
(* which nothing is made; the symmetry of agents, calls and hooks.         *)
(***************************************************************************)
EXTENDS WebhookDelivery, TLC

CONSTANTS c1, c2, s1, pr1, pr2, d1, d2, d3

MCPrOf    == [e \in SourceEvents |-> pr1]
MCTwoPrs  == [e \in SourceEvents |-> IF e = c2 THEN pr2 ELSE pr1]
MCScore   == [e \in Comments |-> IF e = c1 THEN 1 ELSE 0]   \* c2 is more urgent
MCPushed  == [d \in Deliveries |-> IF d = d1 THEN c1 ELSE s1]
MCTwo     == [d \in Deliveries |-> CASE d = d1 -> c1 [] d = d2 -> c2 [] d = d3 -> NoEvent]

MCSymmetry == Permutations(Agents) \cup Permutations(Workers) \cup Permutations(Hooks)

=============================================================================
