------------------------------ MODULE Gateway ------------------------------
(***************************************************************************)
(* What a replica of the engine keeps in memory about its callers: the     *)
(* rate limiter stands in front of every route, and GitHub's deliveries    *)
(* (one caller, keyed by its address) pass it on their way to the webhook. *)
(***************************************************************************)
EXTENDS RateLimit, PullRequestReviews

CONSTANTS MaxTime, MaxDelivered  \* bound the model

ASSUME GatewayAssumption == Server = Replica

VARIABLE delivered  \* deliveries so far

vars == <<limitVars, reviewVars, delivered>>

Init == LimitInit /\ ReviewInit /\ delivered = 0

(* A delivery is admitted and handled, or refused with 429. *)
Deliver(p, d) ==
  /\ delivered < MaxDelivered /\ delivered' = delivered + 1
  /\ \E admitted \in BOOLEAN :
       /\ TakeShared(p, admitted) \/ TakeLocal(p, admitted)
       /\ IF admitted THEN Queue(p, d) \/ Ignore(p, d) ELSE UNCHANGED reviewVars

ReviewEnds(p) == Review(p) /\ UNCHANGED <<limitVars, delivered>>

Restart(p) == ReplicaStarts(p) /\ ServerStarts(p) /\ UNCHANGED delivered

Forgets == Expire \/ Watch \/ \E p \in Replica : Prune(p)

Next ==
  \/ \E p \in Replica : ReviewEnds(p) \/ Restart(p) \/ \E d \in Delivery : Deliver(p, d)
  \/ Forgets /\ UNCHANGED <<reviewVars, delivered>>
  \/ now < MaxTime /\ Tick /\ UNCHANGED <<reviewVars, delivered>>

Spec == Init /\ [][Next]_vars

TypeOK == LimitTypeOK /\ ReviewTypeOK
=============================================================================
