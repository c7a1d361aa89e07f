------------------------ MODULE PullRequestReviews ------------------------
(***************************************************************************)
(* Reviews that GitHub's webhook asks for (api/webhooks.py,                *)
(* agents/webhook_review.py).  A replica remembers the deliveries it has   *)
(* queued, in memory and not more than MaxRemembered of them; GitHub sends *)
(* a delivery again when it wants, to any replica.                         *)
(***************************************************************************)
EXTENDS Naturals, Sequences, FiniteSetsExt

CONSTANTS
  Server,         \* replicas of the engine
  Delivery,       \* delivery ids of reviewable pull request events
  MaxRemembered,  \* _MAX_REMEMBERED_DELIVERIES
  MaxQueued       \* reviews queued by replicas that are up (bounds the model)

ASSUME ReviewAssumption == MaxRemembered \in Nat /\ MaxQueued \in Nat

VARIABLES
  remembered,  \* _queued_deliveries of each replica, oldest first
  queued,      \* the deliveries it has queued since it started, in order
  reviewing    \* reviews that have not ended

reviewVars == <<remembered, queued, reviewing>>

ReviewTypeOK ==
  /\ remembered \in [Server -> Seq(Delivery)] /\ queued \in [Server -> Seq(Delivery)]
  /\ reviewing \in [Server -> Nat]

ReviewInit ==
  /\ remembered = [p \in Server |-> <<>>] /\ queued = [p \in Server |-> <<>>]
  /\ reviewing = [p \in Server |-> 0]

-----------------------------------------------------------------------------
Knows(p, d) == \E i \in DOMAIN remembered[p] : remembered[p][i] = d

(* (mutant) The newest id is dropped when there are too many. *)
Kept_Oldest(ids) ==
  IF Len(ids) > MaxRemembered THEN SubSeq(ids, 1, MaxRemembered) ELSE ids

(* The oldest ids are dropped when there are too many. *)
Kept(ids) ==
  IF Len(ids) > MaxRemembered THEN SubSeq(ids, Len(ids) - MaxRemembered + 1, Len(ids))
  ELSE ids

Queued == MapThenSumSet(LAMBDA p : Len(queued[p]), Server)

(* A delivery that is remembered is ignored. *)
Ignore(p, d) == Knows(p, d) /\ UNCHANGED reviewVars

(* Any other is queued; a review in the background begins. *)
Queue(p, d) ==
  /\ ~Knows(p, d) /\ Queued < MaxQueued
  /\ remembered' = [remembered EXCEPT ![p] = Kept(Append(@, d))]
  /\ queued' = [queued EXCEPT ![p] = Append(@, d)]
  /\ reviewing' = [reviewing EXCEPT ![p] = @ + 1]

(* review_pull_request: the diff is fetched and reviewed and a comment is  *)
(* posted, or something fails and is logged; the review is over either way *)
(* and the delivery stays remembered.                                      *)
Review(p) ==
  /\ reviewing[p] > 0
  /\ reviewing' = [reviewing EXCEPT ![p] = @ - 1]
  /\ UNCHANGED <<remembered, queued>>

(* The replica starts again: it remembers nothing and its reviews are gone. *)
ServerStarts(p) ==
  /\ remembered' = [remembered EXCEPT ![p] = <<>>]
  /\ queued' = [queued EXCEPT ![p] = <<>>]
  /\ reviewing' = [reviewing EXCEPT ![p] = 0]

-----------------------------------------------------------------------------
(* Between two reviews of a delivery by one replica that did not restart   *)
(* lie reviews of MaxRemembered other deliveries.                          *)
ReviewedOnce ==
  \A p \in Server : \A i, j \in DOMAIN queued[p] :
    i < j /\ queued[p][i] = queued[p][j] =>
      \E between \in kSubset(MaxRemembered, (i + 1) .. (j - 1)) :
        /\ Cardinality({queued[p][k] : k \in between}) = MaxRemembered
        /\ queued[p][i] \notin {queued[p][k] : k \in between}
=============================================================================
