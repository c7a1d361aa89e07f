----------------------------- MODULE MCGateway -----------------------------
EXTENDS Gateway, TLC

(* Two replicas, the second a tick ahead. *)
Replicas == {"a", "b"}
Clocks == [p \in Replicas |-> IF p = "a" THEN 0 ELSE 1]
Ids == Permutations(Delivery)
=============================================================================
