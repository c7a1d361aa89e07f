----------------------------- MODULE MCBacklog -----------------------------
(* Three items, of which the last is urgent. *)
EXTENDS Backlog
Requests == Permutations(Request)
MCPriorityRank == <<2, 2, 1>>
MCLowest == -1
MCByHand == {-1, 1}
=============================================================================
