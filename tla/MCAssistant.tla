---------------------------- MODULE MCAssistant ----------------------------
EXTENDS Assistant, TLC

(* Coroutines differ only in their order, and so do requests. *)
Names == Permutations(Coroutine) \cup Permutations(Request)
=============================================================================
