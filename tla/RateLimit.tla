----------------------------- MODULE RateLimit -----------------------------
(***************************************************************************)
(* The token buckets of one caller (ratelimit.py): one in Redis that every *)
(* replica draws from, and one in each replica's table for when Redis      *)
(* cannot be reached.  A replica passes its own wall clock to the shared   *)
(* bucket; the replicas' clocks differ by up to MaxSkew.                   *)
(*                                                                         *)
(* Tokens are counted in ticks of refill: a full bucket holds Capacity     *)
(* ticks, a request costs Cost of them, and one tick of time returns one.  *)
(***************************************************************************)
EXTENDS Integers

CONSTANTS
  Replica,
  Capacity,  \* rate_limit_burst tokens
  Cost,      \* one token, 60 / rate_limit_per_minute seconds of refill
  Skew,      \* how far each replica's wall clock is ahead
  MaxSkew,
  Margin,    \* a shared bucket expires Margin after a full refill (the 60 of ttl)
  Idle       \* a table drops buckets that are idle for more than this (_IDLE_SECONDS)

(* The configuration is such that an idle bucket is full before it is      *)
(* dropped (600 seconds refill the burst), and clocks agree to a minute.   *)
ASSUME RateLimitAssumption ==
  /\ Capacity \in Nat /\ Cost \in Nat \ {0} /\ Cost <= Capacity
  /\ MaxSkew \in Nat /\ Skew \in [Replica -> 0 .. MaxSkew]
  /\ Margin \in Nat /\ MaxSkew <= Margin
  /\ Idle \in Nat /\ Capacity <= Idle

VARIABLES
  now,       \* time
  shared,    \* the bucket in Redis
  local,     \* the caller's bucket in each replica's table
  expires,   \* when Redis drops the shared bucket
  from,      \* the moment somebody began to count,
  spent,     \* ticks spent from the shared bucket since
  spentHere  \* ticks spent from each replica's bucket since, or since it started

limitVars == <<now, shared, local, expires, from, spent, spentHere>>

None == [kept |-> FALSE, tokens |-> 0, last |-> 0]
Bucket == [kept : BOOLEAN, tokens : Int, last : Nat]

LimitTypeOK ==
  /\ now \in Nat /\ expires \in Nat /\ from \in 0 .. now
  /\ shared \in Bucket /\ local \in [Replica -> Bucket]
  /\ spent \in Nat /\ spentHere \in [Replica -> Nat]

LimitInit ==
  /\ now = 0 /\ expires = 0 /\ shared = None /\ local = [p \in Replica |-> None]
  /\ from = 0 /\ spent = 0 /\ spentHere = [p \in Replica |-> 0]

-----------------------------------------------------------------------------
(* A caller without a bucket gets a full one. *)
BucketAt(bucket, time) ==
  IF bucket.kept THEN bucket ELSE [kept |-> TRUE, tokens |-> Capacity, last |-> time]

(* (mutant) The refill is not capped. *)
Refilled_Uncapped(bucket, time) == bucket.tokens + (time - bucket.last)

(* Refilled up to the capacity; a clock that is behind takes tokens back. *)
Refilled(bucket, time) ==
  LET tokens == bucket.tokens + (time - bucket.last)
  IN IF tokens > Capacity THEN Capacity ELSE tokens

(* One token is there at this time. *)
Allows(bucket, time) == Refilled(BucketAt(bucket, time), time) >= Cost

(* TokenBucket.take and the script: refill, and take one if it is there. *)
Taken(bucket, time) ==
  LET tokens == Refilled(BucketAt(bucket, time), time)
  IN [kept |-> TRUE, last |-> time,
      tokens |-> IF tokens >= Cost THEN tokens - Cost ELSE tokens]

Wall(p) == now + Skew[p]

(* The script ran in Redis: it stores tokens and clock, whether it allows  *)
(* the request or not, and renews the expiry.                              *)
ScriptRuns(p) ==
  /\ shared' = Taken(shared, Wall(p))
  /\ expires' = now + Capacity + Margin
  /\ spent' = spent + IF Allows(shared, Wall(p)) THEN Cost ELSE 0

TakeShared(p, admitted) ==
  /\ admitted = Allows(shared, Wall(p)) /\ ScriptRuns(p)
  /\ UNCHANGED <<now, local, from, spentHere>>

(* LocalLimiter.take, for a limiter that is not shared or as the fallback: *)
(* the call to Redis failed, after the script ran or without it.           *)
TakeLocal(p, admitted) ==
  /\ admitted = Allows(local[p], now)
  /\ local' = [local EXCEPT ![p] = Taken(@, now)]
  /\ spentHere' = [spentHere EXCEPT ![p] = @ + IF admitted THEN Cost ELSE 0]
  /\ \/ ScriptRuns(p)
     \/ UNCHANGED <<shared, expires, spent>>
  /\ UNCHANGED <<now, from>>

(* A request of another caller prunes the table when it is large. *)
Prune(p) ==
  /\ local[p].kept /\ now - local[p].last > Idle
  /\ local' = [local EXCEPT ![p] = None]
  /\ UNCHANGED <<now, shared, expires, from, spent, spentHere>>

(* Redis drops the bucket when its time is over. *)
Expire ==
  /\ shared.kept /\ now >= expires
  /\ shared' = None
  /\ UNCHANGED <<now, local, expires, from, spent, spentHere>>

Tick ==
  /\ now' = now + 1
  /\ UNCHANGED <<shared, local, expires, from, spent, spentHere>>

(* The replica's table starts empty. *)
ReplicaStarts(p) ==
  /\ local' = [local EXCEPT ![p] = None]
  /\ spentHere' = [spentHere EXCEPT ![p] = 0]
  /\ UNCHANGED <<now, shared, expires, from, spent>>

(* Somebody begins to count. *)
Watch ==
  /\ from' = now /\ spent' = 0 /\ spentHere' = [p \in Replica |-> 0]
  /\ UNCHANGED <<now, shared, local, expires>>

LimitNext ==
  \/ \E p \in Replica :
       \/ \E admitted \in BOOLEAN : TakeShared(p, admitted) \/ TakeLocal(p, admitted)
       \/ Prune(p) \/ ReplicaStarts(p)
  \/ Expire \/ Tick \/ Watch

LimitSpec == LimitInit /\ [][LimitNext]_limitVars

-----------------------------------------------------------------------------
(* In any stretch of time, however the replicas' clocks differ and however *)
(* often buckets expire, are pruned and made again, the shared bucket      *)
(* admits no more than its capacity and the refill of that time, give or   *)
(* take the skew, and a replica's own bucket, while the replica is up, no  *)
(* more than its capacity and the refill.                                  *)
AdmissionsAreBounded ==
  /\ spent <= Capacity + (now - from) + MaxSkew
  /\ \A p \in Replica : spentHere[p] <= Capacity + (now - from)
=============================================================================
