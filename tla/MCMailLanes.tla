---------------------------- MODULE MCMailLanes ----------------------------
(* Instance of MailLanes for TLC: two recipients, lanes small enough to    *)
(* fill, and enough letters for a refused batch to meet new arrivals.      *)
EXTENDS MailLanes, TLC

CONSTANTS a1, a2

MCAgents == {a1, a2}

Symmetry == Permutations(MCAgents)
=============================================================================
