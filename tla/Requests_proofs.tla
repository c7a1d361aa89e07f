-------------------------- MODULE Requests_proofs --------------------------
(***************************************************************************)
(* Proofs about what stands before the engine's requests and about the     *)
(* requests that share a conversation: the rate limiter, the webhook's     *)
(* memory, the conversations, and the memories their answers draw on.      *)
(*                                                                         *)
(* A bucket's account: what it holds and what was taken from it while      *)
(* somebody counts do not exceed its capacity and the refill since then,   *)
(* by the clock of the last replica that used it.  What makes the account  *)
(* survive the end of a bucket is that a bucket ends only when it would be *)
(* full, and what makes it a bound on the shared bucket is that a clock    *)
(* that is behind takes back as much as a clock that is ahead gave.        *)
(*                                                                         *)
(* The webhook's memory is a window over the ids a replica has queued: the *)
(* last ones and no others, so a delivery comes back only after the window *)
(* passed it.                                                              *)
(*                                                                         *)
(* A conversation: where a request is tells what it has stored, and a      *)
(* request begins later than every message it sees.  So the newest         *)
(* messages hold the question last of those it saw, or are all newer than  *)
(* those, and an answer is later than its question in every history.       *)
(*                                                                         *)
(* The team's memory: while no capture was cut short, an end is remembered *)
(* or a coroutine is on its way to remember it; while no two captures      *)
(* overlapped, nothing is remembered that a coroutine still captures; and  *)
(* each message and notice belongs to a visit of one coroutine.            *)
(***************************************************************************)
EXTENDS Gateway, Assistant, FiniteSetTheorems, SequenceTheorems, TLAPS

(* The shared bucket while it is kept, and after it expired. *)
SharedAccount ==
  IF shared.kept
  THEN /\ shared.tokens <= Capacity
       /\ expires <= now + Capacity + Margin
       /\ shared.last <= expires - Capacity - Margin + MaxSkew
       /\ shared.tokens >= shared.last - (expires - Capacity - Margin) - MaxSkew
       /\ spent > 0 => shared.tokens + spent <= Capacity + shared.last - from
  ELSE spent > 0 => spent <= now - from

LocalAccount(p) ==
  IF local[p].kept
  THEN /\ 0 <= local[p].tokens /\ local[p].tokens <= Capacity /\ local[p].last <= now
       /\ spentHere[p] > 0 => local[p].tokens + spentHere[p] <= Capacity + local[p].last - from
  ELSE spentHere[p] > 0 => spentHere[p] <= now - from

LimitInv ==
  /\ LimitTypeOK /\ SharedAccount
  /\ \A p \in Replica : LocalAccount(p)

-----------------------------------------------------------------------------
(* What taking a token makes of a bucket. *)
LEMMA TakenIs ==
  ASSUME NEW b \in Bucket, NEW t \in Nat
  PROVE  LET old == BucketAt(b, t) IN
         /\ old \in Bucket /\ Refilled(old, t) \in Int
         /\ Taken(b, t) \in Bucket /\ Taken(b, t).kept /\ Taken(b, t).last = t
         /\ Allows(b, t) => Taken(b, t).tokens = Refilled(old, t) - Cost
         /\ ~Allows(b, t) => Taken(b, t).tokens = Refilled(old, t)
         /\ Allows(b, t) <=> Refilled(old, t) >= Cost
         /\ Refilled(old, t) <= Capacity /\ Refilled(old, t) <= old.tokens + (t - old.last)
         /\ Refilled(old, t) = Capacity \/ Refilled(old, t) = old.tokens + (t - old.last)
<1> USE RateLimitAssumption
<1> DEFINE old == BucketAt(b, t)
<1>1. old \in Bucket /\ old.tokens \in Int /\ old.last \in Nat
  BY DEF BucketAt, Bucket
<1>2. /\ Refilled(old, t) \in Int
      /\ Refilled(old, t) <= Capacity /\ Refilled(old, t) <= old.tokens + (t - old.last)
      /\ Refilled(old, t) = Capacity \/ Refilled(old, t) = old.tokens + (t - old.last)
  <2> HIDE DEF old
  <2> QED BY <1>1 DEF Refilled
<1> DEFINE r == Refilled(old, t)
<1>3. Allows(b, t) <=> r >= Cost
  BY DEF Allows
<1>4. Taken(b, t) = [kept |-> TRUE, last |-> t, tokens |-> IF r >= Cost THEN r - Cost ELSE r]
  BY DEF Taken
<1>5. Taken(b, t) \in Bucket /\ Taken(b, t).kept /\ Taken(b, t).last = t
      /\ (r >= Cost => Taken(b, t).tokens = r - Cost)
      /\ (~(r >= Cost) => Taken(b, t).tokens = r)
  <2> HIDE DEF r
  <2>1. r \in Int
    BY <1>2 DEF r
  <2> QED BY <1>4, <2>1 DEF Bucket
<1> QED BY <1>1, <1>2, <1>3, <1>5

(* The account before the request is stated in terms of the bucket the     *)
(* script finds: the caller's, or a full one made now.                     *)
LEMMA ScriptKeepsAccount ==
  ASSUME LimitTypeOK, SharedAccount, NEW p \in Replica, ScriptRuns(p),
         now' = now, from' = from
  PROVE  /\ shared' \in Bucket /\ expires' \in Nat /\ spent' \in Nat
         /\ SharedAccount'
<1> USE RateLimitAssumption DEF LimitTypeOK
<1> DEFINE w == Wall(p)
<1> DEFINE old == BucketAt(shared, w)
<1> DEFINE r == Refilled(old, w)
<1>1. w \in Nat /\ now <= w /\ w <= now + MaxSkew
  BY DEF Wall
<1>2. /\ old \in Bucket /\ r \in Int
      /\ shared' \in Bucket /\ shared'.kept /\ shared'.last = w
      /\ Allows(shared, w) => r >= Cost /\ shared'.tokens = r - Cost
      /\ ~Allows(shared, w) => shared'.tokens = r
      /\ r <= Capacity /\ r <= old.tokens + (w - old.last)
      /\ r = Capacity \/ r = old.tokens + (w - old.last)
  <2> HIDE DEF w
  <2> QED BY <1>1, TakenIs DEF ScriptRuns, w
<1>3. expires' = now + Capacity + Margin /\ expires' \in Nat
  BY DEF ScriptRuns
<1>4. /\ Allows(shared, w) => spent' = spent + Cost
      /\ ~Allows(shared, w) => spent' = spent
      /\ spent' \in Nat
  BY DEF ScriptRuns
<1>5. /\ old.tokens >= old.last - now - MaxSkew
      /\ spent > 0 => old.tokens + spent <= Capacity + old.last - from
      /\ old.tokens \in Int /\ old.last \in Int
  <2> HIDE DEF w
  <2>1. CASE shared.kept
    BY <2>1, <1>1 DEF SharedAccount, BucketAt, Bucket
  <2>2. CASE ~shared.kept
    BY <2>2, <1>1 DEF SharedAccount, BucketAt, Bucket
  <2> QED BY <2>1, <2>2
<1> HIDE DEF w, old, r
<1>6. shared'.tokens \in Int /\ shared'.tokens <= Capacity
  BY <1>2
<1>7. shared'.tokens >= w - now - MaxSkew
  <2>1. r >= w - now - MaxSkew
    BY <1>1, <1>2, <1>5
  <2> QED BY <2>1, <1>1, <1>2
<1>8. spent' > 0 => shared'.tokens + spent' <= Capacity + w - from
  BY <1>1, <1>2, <1>4, <1>5
<1>9. SharedAccount'
  BY <1>1, <1>2, <1>3, <1>6, <1>7, <1>8 DEF SharedAccount
<1> QED BY <1>2, <1>3, <1>4, <1>9

LEMMA LocalKeepsAccount ==
  ASSUME LimitTypeOK, NEW p \in Replica, LocalAccount(p),
         NEW admitted \in BOOLEAN, TakeLocal(p, admitted)
  PROVE  /\ local' \in [Replica -> Bucket] /\ spentHere' \in [Replica -> Nat]
         /\ LocalAccount(p)'
<1> USE RateLimitAssumption DEF LimitTypeOK
<1> DEFINE old == BucketAt(local[p], now)
<1> DEFINE r == Refilled(old, now)
<1>1. local[p] \in Bucket
  OBVIOUS
<1>2. /\ old \in Bucket /\ r \in Int
      /\ Taken(local[p], now) \in Bucket /\ Taken(local[p], now).kept
      /\ Taken(local[p], now).last = now
      /\ Allows(local[p], now) => r >= Cost /\ Taken(local[p], now).tokens = r - Cost
      /\ ~Allows(local[p], now) => Taken(local[p], now).tokens = r
      /\ r <= Capacity /\ r <= old.tokens + (now - old.last)
      /\ r = Capacity \/ r = old.tokens + (now - old.last)
  BY <1>1, TakenIs
<1>3. local' = [local EXCEPT ![p] = Taken(local[p], now)] /\ local'[p] = Taken(local[p], now)
  BY DEF TakeLocal
<1>4. /\ spentHere' \in [Replica -> Nat]
      /\ Allows(local[p], now) => spentHere'[p] = spentHere[p] + Cost
      /\ ~Allows(local[p], now) => spentHere'[p] = spentHere[p]
  BY DEF TakeLocal
<1>5. now' = now /\ from' = from
  BY DEF TakeLocal
<1>6. /\ old.tokens >= 0 /\ old.last <= now
      /\ spentHere[p] > 0 => old.tokens + spentHere[p] <= Capacity + old.last - from
      /\ old.tokens \in Int /\ old.last \in Int
  <2>1. CASE local[p].kept
    BY <2>1 DEF LocalAccount, BucketAt, Bucket
  <2>2. CASE ~local[p].kept
    BY <2>2 DEF LocalAccount, BucketAt, Bucket
  <2> QED BY <2>1, <2>2
<1>7. local' \in [Replica -> Bucket]
  BY <1>2, <1>3
<1> HIDE DEF old, r
<1> DEFINE b == Taken(local[p], now)
<1>8. b.tokens \in Int /\ 0 <= b.tokens /\ b.tokens <= Capacity
  BY <1>2, <1>6
<1>9. spentHere'[p] > 0 => b.tokens + spentHere'[p] <= Capacity + now - from
  BY <1>2, <1>4, <1>6
<1>10. LocalAccount(p)'
  BY <1>2, <1>3, <1>5, <1>8, <1>9 DEF LocalAccount
<1> QED BY <1>4, <1>7, <1>10

(* A bucket nobody touches keeps its account while time passes. *)
LEMMA OthersKeepAccount ==
  ASSUME LimitTypeOK, NEW p \in Replica, LocalAccount(p),
         local'[p] = local[p], spentHere'[p] = spentHere[p], from' = from,
         now' \in Nat, now' >= now
  PROVE  LocalAccount(p)'
BY RateLimitAssumption DEF LimitTypeOK, LocalAccount, Bucket

LEMMA InvInit == LimitInit => LimitInv
BY RateLimitAssumption
   DEF LimitInit, LimitInv, LimitTypeOK, SharedAccount, LocalAccount, None, Bucket

LEMMA InvStep == LimitInv /\ [LimitNext]_limitVars => LimitInv'
<1> SUFFICES ASSUME LimitInv, [LimitNext]_limitVars PROVE LimitInv'
  OBVIOUS
<1> USE RateLimitAssumption DEF LimitInv
<1>1. ASSUME NEW p \in Replica, NEW admitted \in BOOLEAN, TakeShared(p, admitted)
      PROVE  LimitInv'
  <2>1. /\ ScriptRuns(p) /\ now' = now /\ from' = from
        /\ local' = local /\ spentHere' = spentHere
    BY <1>1 DEF TakeShared
  <2>2. shared' \in Bucket /\ expires' \in Nat /\ spent' \in Nat /\ SharedAccount'
    BY <2>1, ScriptKeepsAccount
  <2>3. LimitTypeOK'
    BY <2>1, <2>2 DEF LimitTypeOK
  <2>4. ASSUME NEW q \in Replica PROVE LocalAccount(q)'
    BY <2>1 DEF LocalAccount
  <2> QED BY <2>2, <2>3, <2>4
<1>2. ASSUME NEW p \in Replica, NEW admitted \in BOOLEAN, TakeLocal(p, admitted)
      PROVE  LimitInv'
  <2>1. now' = now /\ from' = from /\ (ScriptRuns(p) \/ UNCHANGED <<shared, expires, spent>>)
    BY <1>2 DEF TakeLocal
  <2>2. /\ local' \in [Replica -> Bucket] /\ spentHere' \in [Replica -> Nat]
        /\ LocalAccount(p)'
    BY <1>2, LocalKeepsAccount
  <2>3. shared' \in Bucket /\ expires' \in Nat /\ spent' \in Nat /\ SharedAccount'
    <3>1. CASE ScriptRuns(p)
      BY <3>1, <2>1, ScriptKeepsAccount
    <3>2. CASE UNCHANGED <<shared, expires, spent>>
      BY <3>2, <2>1 DEF LimitTypeOK, SharedAccount
    <3> QED BY <2>1, <3>1, <3>2
  <2>4. LimitTypeOK'
    BY <2>1, <2>2, <2>3 DEF LimitTypeOK
  <2>5. ASSUME NEW q \in Replica, q # p PROVE LocalAccount(q)'
    <3>1. local'[q] = local[q] /\ spentHere'[q] = spentHere[q]
      BY <1>2, <2>5 DEF TakeLocal, LimitTypeOK
    <3> QED BY <3>1, <2>1 DEF LocalAccount
  <2> QED BY <2>2, <2>3, <2>4, <2>5
<1>3. ASSUME NEW p \in Replica, Prune(p) \/ ReplicaStarts(p) PROVE LimitInv'
  <2>1. /\ now' = now /\ from' = from /\ shared' = shared /\ expires' = expires
        /\ spent' = spent /\ local' = [local EXCEPT ![p] = None]
    BY <1>3 DEF Prune, ReplicaStarts
  <2>2. LimitTypeOK' /\ SharedAccount'
    BY <1>3, <2>1 DEF LimitTypeOK, SharedAccount, None, Bucket, Prune, ReplicaStarts
  <2>3. LocalAccount(p)'
    <3>1. ~local'[p].kept
      BY <2>1 DEF LimitTypeOK, None
    <3>2. spentHere'[p] > 0 => spentHere'[p] <= now - from
      <4>1. CASE Prune(p)
        BY <4>1 DEF Prune, LimitTypeOK, LocalAccount, Bucket
      <4>2. CASE ReplicaStarts(p)
        BY <4>2 DEF ReplicaStarts, LimitTypeOK
      <4> QED BY <1>3, <4>1, <4>2
    <3> QED BY <2>1, <3>1, <3>2 DEF LocalAccount
  <2>4. ASSUME NEW q \in Replica, q # p PROVE LocalAccount(q)'
    <3>1. local'[q] = local[q] /\ spentHere'[q] = spentHere[q]
      BY <1>3, <2>1, <2>4 DEF Prune, ReplicaStarts, LimitTypeOK
    <3> QED BY <3>1, <2>1 DEF LocalAccount
  <2> QED BY <2>2, <2>3, <2>4
<1>4. CASE Expire
  <2>1. /\ shared.kept /\ now >= expires /\ ~shared'.kept /\ shared' \in Bucket
        /\ UNCHANGED <<now, local, expires, from, spent, spentHere>>
    BY <1>4 DEF Expire, None, Bucket
  <2>2. spent > 0 => spent <= now - from
    BY <2>1 DEF SharedAccount, LimitTypeOK, Bucket
  <2>3. LimitTypeOK' /\ SharedAccount'
    BY <2>1, <2>2 DEF LimitTypeOK, SharedAccount
  <2> QED BY <2>1, <2>3 DEF LocalAccount
<1>5. CASE Tick
  <2>1. now' = now + 1 /\ UNCHANGED <<shared, local, expires, from, spent, spentHere>>
    BY <1>5 DEF Tick
  <2>2. LimitTypeOK'
    BY <2>1 DEF LimitTypeOK
  <2>3. SharedAccount'
    BY <2>1 DEF SharedAccount, LimitTypeOK, Bucket
  <2>4. ASSUME NEW p \in Replica PROVE LocalAccount(p)'
    <3>1. now' \in Nat /\ now' >= now
      BY <2>1 DEF LimitTypeOK
    <3> QED BY <2>1, <3>1, OthersKeepAccount
  <2> QED BY <2>2, <2>3, <2>4
<1>6. CASE Watch
  <2>1. /\ from' = now /\ now' = now /\ spent' = 0 /\ spentHere' = [p \in Replica |-> 0]
        /\ UNCHANGED <<shared, local, expires>>
    BY <1>6 DEF Watch
  <2>2. LimitTypeOK'
    BY <2>1 DEF LimitTypeOK
  <2>3. SharedAccount'
    BY <2>1 DEF SharedAccount, LimitTypeOK, Bucket
  <2>4. ASSUME NEW p \in Replica PROVE LocalAccount(p)'
    BY <2>1 DEF LocalAccount, LimitTypeOK, Bucket
  <2> QED BY <2>2, <2>3, <2>4
<1>7. CASE UNCHANGED limitVars
  BY <1>7 DEF limitVars, LimitTypeOK, SharedAccount, LocalAccount
<1> QED
  BY <1>1, <1>2, <1>3, <1>4, <1>5, <1>6, <1>7 DEF LimitNext

LEMMA InvBounds == LimitInv => AdmissionsAreBounded
<1> SUFFICES ASSUME LimitInv PROVE AdmissionsAreBounded
  OBVIOUS
<1> USE RateLimitAssumption DEF LimitInv, LimitTypeOK
<1>1. spent <= Capacity + (now - from) + MaxSkew
  BY DEF SharedAccount, Bucket
<1>2. ASSUME NEW p \in Replica PROVE spentHere[p] <= Capacity + (now - from)
  BY DEF LocalAccount, Bucket
<1> QED BY <1>1, <1>2 DEF AdmissionsAreBounded

(* Every step of the engine is a step of the limiter, or leaves it alone. *)
LEMMA GatewayLimits == [Next]_vars => [LimitNext]_limitVars
<1> SUFFICES ASSUME [Next]_vars PROVE [LimitNext]_limitVars
  OBVIOUS
<1>1. ASSUME NEW p \in Replica, ReviewEnds(p) PROVE UNCHANGED limitVars
  BY <1>1 DEF ReviewEnds, limitVars
<1>2. ASSUME NEW p \in Replica, Restart(p) PROVE LimitNext
  BY <1>2 DEF Restart, LimitNext
<1>3. ASSUME NEW p \in Replica, NEW d \in Delivery, Deliver(p, d) PROVE LimitNext
  BY <1>3 DEF Deliver, LimitNext
<1>4. CASE Forgets
  BY <1>4 DEF Forgets, LimitNext
<1>5. CASE Tick
  BY <1>5 DEF LimitNext
<1>6. CASE UNCHANGED vars
  BY <1>6 DEF vars, limitVars
<1> QED BY <1>1, <1>2, <1>3, <1>4, <1>5, <1>6 DEF Next

(* The account of every bucket is kept. *)
THEOREM Accounts == Spec => []LimitInv
<1>1. Init => LimitInv
  BY InvInit DEF Init
<1>2. LimitInv /\ [Next]_vars => LimitInv'
  BY InvStep, GatewayLimits
<1> QED BY <1>1, <1>2, PTL DEF Spec

(* In any stretch of time the shared bucket admits no more than its        *)
(* capacity, the refill of that time and the skew of the replicas' clocks, *)
(* and a replica's own bucket no more than its capacity and the refill.    *)
THEOREM Limited == Spec => []AdmissionsAreBounded
BY Accounts, InvBounds, PTL

-----------------------------------------------------------------------------
(***************************************************************************)
(* The webhook's memory of deliveries.                                     *)
(***************************************************************************)

(* What is remembered of the ids queued so far are the latest ones, and    *)
(* no id was queued while it was remembered.                               *)
Window(ids, kept) ==
  /\ Len(kept) = IF Len(ids) > MaxRemembered THEN MaxRemembered ELSE Len(ids)
  /\ \A i \in 1 .. Len(kept) : kept[i] = ids[Len(ids) - Len(kept) + i]
  /\ \A i, j \in 1 .. Len(ids) : i < j /\ j - i <= MaxRemembered => ids[i] # ids[j]

ReviewInv == ReviewTypeOK /\ \A p \in Server : Window(queued[p], remembered[p])

(* Queueing an id that is not remembered slides the window.                *)
LEMMA WindowSlides ==
  ASSUME NEW ids \in Seq(Delivery), NEW kept \in Seq(Delivery), NEW d \in Delivery,
         Window(ids, kept), \A i \in 1 .. Len(kept) : kept[i] # d
  PROVE  /\ Kept(Append(kept, d)) \in Seq(Delivery)
         /\ Window(Append(ids, d), Kept(Append(kept, d)))
<1> USE ReviewAssumption
<1> DEFINE new == Append(ids, d)
           all == Append(kept, d)
           m == MaxRemembered
           n == Len(ids)
           l == Len(kept)
<1>1. /\ n \in Nat /\ l \in Nat /\ m \in Nat
      /\ l = IF n > m THEN m ELSE n
      /\ \A i \in 1 .. l : kept[i] = ids[n - l + i]
      /\ \A i, j \in 1 .. n : i < j /\ j - i <= m => ids[i] # ids[j]
  BY DEF Window
<1>0. n \in Nat /\ l \in Nat /\ m \in Nat /\ (l = IF n > m THEN m ELSE n)
  BY <1>1
<1>2. /\ new \in Seq(Delivery) /\ Len(new) = n + 1 /\ new[n + 1] = d
      /\ \A i \in 1 .. n : new[i] = ids[i]
  OBVIOUS
<1>3. /\ all \in Seq(Delivery) /\ Len(all) = l + 1 /\ all[l + 1] = d
      /\ \A i \in 1 .. l : all[i] = kept[i]
  OBVIOUS
<1> HIDE DEF new, all, m, n, l
<1>4. \A i, j \in 1 .. n + 1 : i < j /\ j - i <= m => new[i] # new[j]
  <2> SUFFICES ASSUME NEW i \in 1 .. n + 1, NEW j \in 1 .. n + 1, i < j, j - i <= m
               PROVE  new[i] # new[j]
    OBVIOUS
  <2>1. CASE j <= n
    BY <1>1, <1>2, <2>1
  <2>2. CASE j = n + 1
    <3>1. i \in 1 .. n /\ i - (n - l) \in 1 .. l
      BY <1>1, <2>2
    <3> DEFINE k == i - (n - l)
    <3>2. kept[k] = ids[n - l + k]
      BY <1>1, <3>1
    <3>3. n - l + k = i
      BY <1>1, <3>1
    <3> QED
      BY <1>1, <1>2, <2>2, <3>1, <3>2, <3>3 DEF l
  <2> QED
    BY <1>1, <2>1, <2>2
<1>5. CASE l + 1 > m
  <2>1. l = m
    BY <1>1, <1>5
  <2>2. \A i \in 2 .. m + 1 : all[i] \in Delivery
    BY <1>1, <1>3, <2>1
  <2>3. Kept(all) = SubSeq(all, 2, m + 1)
    BY <1>1, <1>3, <2>1 DEF Kept, m
  <2>4. /\ Kept(all) \in Seq(Delivery) /\ Len(Kept(all)) = m
        /\ \A i \in 1 .. m : Kept(all)[i] = all[i + 1]
    BY <1>1, <2>2, <2>3, SubSeqProperties
  <2>5. \A i \in 1 .. m : Kept(all)[i] = new[(n + 1) - m + i]
    <3> SUFFICES ASSUME NEW i \in 1 .. m PROVE all[i + 1] = new[(n + 1) - m + i]
      BY <2>4
    <3>1. CASE i = m
      BY <1>1, <1>2, <1>3, <2>1, <3>1
    <3>2. CASE i < m
      <4>1. i + 1 \in 1 .. l /\ n - l + (i + 1) \in 1 .. n
        BY <1>0, <2>1, <3>2
      <4>2. all[i + 1] = ids[n - l + (i + 1)]
        BY <1>1, <1>3, <4>1
      <4>3. n - l + (i + 1) = (n + 1) - m + i
        BY <1>0, <2>1
      <4> QED
        BY <1>2, <4>1, <4>2, <4>3
    <3> QED
      BY <1>1, <3>1, <3>2
  <2>6. n + 1 > m => m = IF n + 1 > m THEN m ELSE n + 1
    BY <1>1
  <2>7. n + 1 > m
    BY <1>1, <2>1
  <2> QED
    BY <1>2, <1>4, <2>4, <2>5, <2>6, <2>7 DEF Window, m, new, all
<1>6. CASE l + 1 <= m
  <2>1. l = n
    BY <1>1, <1>6
  <2>2. Kept(all) = all
    BY <1>1, <1>3, <1>6 DEF Kept, m
  <2>3. ASSUME NEW i \in 1 .. n + 1 PROVE all[i] = new[i]
    <3>1. CASE i = n + 1
      BY <1>2, <1>3, <2>1, <3>1
    <3>2. CASE i # n + 1
      <4>1. i \in 1 .. n /\ i \in 1 .. l /\ n - l + i = i
        BY <1>0, <2>1, <3>2
      <4> QED
        BY <1>1, <1>2, <1>3, <4>1
    <3> QED
      BY <3>1, <3>2
  <2>4. \A i \in 1 .. n + 1 : all[i] = new[(n + 1) - (n + 1) + i]
    BY <1>0, <2>3
  <2>5. ~(n + 1 > m)
    BY <1>0, <1>6, <2>1
  <2> QED
    BY <1>2, <1>3, <1>4, <2>1, <2>2, <2>4, <2>5 DEF Window, m, new, all
<1> QED
  BY <1>1, <1>5, <1>6

(* A step of the engine keeps every replica's window.                      *)
LEMMA ReviewStep == ReviewInv /\ [Next]_vars => ReviewInv'
<1> SUFFICES ASSUME ReviewInv, [Next]_vars PROVE ReviewInv'
  OBVIOUS
<1> USE ReviewAssumption, GatewayAssumption DEF ReviewInv, ReviewTypeOK
<1>1. ASSUME NEW p \in Server, NEW d \in Delivery, Queue(p, d) PROVE ReviewInv'
  <2>1. /\ remembered' = [remembered EXCEPT ![p] = Kept(Append(remembered[p], d))]
        /\ queued' = [queued EXCEPT ![p] = Append(queued[p], d)]
        /\ reviewing' = [reviewing EXCEPT ![p] = reviewing[p] + 1]
    BY <1>1 DEF Queue
  <2>2. /\ queued[p] \in Seq(Delivery) /\ remembered[p] \in Seq(Delivery)
        /\ Window(queued[p], remembered[p])
    OBVIOUS
  <2>3. \A i \in 1 .. Len(remembered[p]) : remembered[p][i] # d
    BY <1>1, <2>2 DEF Queue, Knows
  <2>4. /\ Kept(Append(remembered[p], d)) \in Seq(Delivery)
        /\ Window(Append(queued[p], d), Kept(Append(remembered[p], d)))
    BY <2>2, <2>3, WindowSlides
  <2>5. ReviewTypeOK'
    BY <2>1, <2>2, <2>4
  <2>6. ASSUME NEW q \in Server PROVE Window(queued'[q], remembered'[q])
    BY <2>1, <2>4
  <2> QED
    BY <2>5, <2>6
<1>2. ASSUME NEW p \in Server, ServerStarts(p) PROVE ReviewInv'
  <2>1. Window(<<>>, <<>>)
    BY DEF Window
  <2> QED
    BY <1>2, <2>1 DEF ServerStarts
<1>3. ASSUME NEW p \in Server, Review(p) PROVE ReviewInv'
  BY <1>3 DEF Review
<1>4. CASE UNCHANGED reviewVars
  BY <1>4 DEF reviewVars
<1>5. ASSUME NEW p \in Replica, NEW d \in Delivery, Deliver(p, d) PROVE ReviewInv'
  BY <1>1, <1>4, <1>5 DEF Deliver, Ignore
<1> QED
  BY <1>2, <1>3, <1>4, <1>5 DEF Next, ReviewEnds, Restart, vars, reviewVars

(* The window holds at every replica in every reachable state.             *)
THEOREM Windows == Spec => []ReviewInv
<1>1. Init => ReviewInv
  BY ReviewAssumption DEF Init, ReviewInit, ReviewInv, ReviewTypeOK, Window
<1> QED
  BY <1>1, ReviewStep, PTL DEF Spec

(* Of an interval on which a sequence repeats nothing, there are as many   *)
(* different elements as indices.                                          *)
LEMMA DistinctElements ==
  ASSUME NEW ids, NEW a \in Int, NEW b \in Int, a <= b + 1,
         \A k, l \in a .. b : ids[k] = ids[l] => k = l
  PROVE  Cardinality({ids[k] : k \in a .. b}) = b - a + 1
<1> DEFINE f == [k \in a .. b |-> ids[k]]
           T == {ids[k] : k \in a .. b}
<1>1. IsFiniteSet(a .. b) /\ Cardinality(a .. b) = b - a + 1
  BY FS_Interval
<1>2. f \in Bijection(a .. b, T)
  BY DEF Bijection, Injection, Surjection, IsInjective
<1> QED
  BY <1>1, <1>2, FS_Bijection DEF ExistsBijection

(* Between two reviews of a delivery by one replica that did not restart   *)
(* lie reviews of MaxRemembered other deliveries.                          *)
THEOREM NoEarlyRepeat == Spec => []ReviewedOnce
<1>1. ReviewInv => ReviewedOnce
  <2> SUFFICES ASSUME ReviewInv, NEW p \in Server,
                      NEW i \in DOMAIN queued[p], NEW j \in DOMAIN queued[p],
                      i < j, queued[p][i] = queued[p][j]
               PROVE  \E between \in kSubset(MaxRemembered, (i + 1) .. (j - 1)) :
                        /\ Cardinality({queued[p][k] : k \in between}) = MaxRemembered
                        /\ queued[p][i] \notin {queued[p][k] : k \in between}
    BY DEF ReviewedOnce
  <2> USE ReviewAssumption
  <2> DEFINE ids == queued[p]
             m == MaxRemembered
             first == i + 1
             last == i + m
             between == first .. last
  <2>1. /\ i \in 1 .. Len(ids) /\ j \in 1 .. Len(ids) /\ Len(ids) \in Nat
        /\ m \in Nat
        /\ \A k, l \in 1 .. Len(ids) : k < l /\ l - k <= m => ids[k] # ids[l]
    BY DEF ReviewInv, ReviewTypeOK, Window
  <2> HIDE DEF ids, m
  <2>2. j - i > m
    BY <2>1 DEF ids
  <2>3. between \subseteq (i + 1) .. (j - 1) /\ between \subseteq 1 .. Len(ids)
    BY <2>1, <2>2
  <2>4. \A k, l \in between : ids[k] = ids[l] => k = l
    BY <2>1, <2>3
  <2>5. ids[i] \notin {ids[k] : k \in between}
    <3>1. ASSUME NEW k \in between PROVE ids[i] # ids[k]
      <4>1. i < k /\ k - i <= m /\ k \in 1 .. Len(ids)
        BY <2>1, <2>3
      <4> QED
        BY <2>1, <4>1
    <3> QED
      BY <3>1
  <2>6. /\ first \in Int /\ last \in Int /\ first <= last + 1
        /\ last - first + 1 = m /\ (first > last => m = 0)
    <3>1. i \in Nat /\ m \in Nat
      BY <2>1
    <3>2. first <= last + 1 /\ (first > last => m = 0)
      BY <3>1
    <3> QED
      BY <3>1, <3>2
  <2> HIDE DEF first, last
  <2>7. Cardinality(between) = m
    BY <2>6, FS_Interval
  <2>8. Cardinality({ids[k] : k \in between}) = m
    BY <2>4, <2>6, DistinctElements
  <2> QED
    BY <2>3, <2>5, <2>7, <2>8 DEF kSubset, ids, m, first
<1> QED
  BY <1>1, Windows, PTL

-----------------------------------------------------------------------------
(* What a request has stored. *)
Said(r, role) == {m \in stored : m.by = r /\ m.role = role}

(* Where a request is, what it has stored, and what the conversation       *)
(* allows.                                                                 *)
Progress(r) ==
  /\ request[r].phase = "idle" => request[r].history = <<>>
  /\ request[r].phase = "begun" =>
       request[r].history = <<>> /\ \A m \in request[r].seen : m.at < request[r].at
  /\ request[r].phase \in {"idle", "begun", "gathered"} => \A m \in stored : m.by # r
  /\ request[r].phase # "done" => Said(r, "assistant") = {}
  /\ request[r].phase = "gathered" /\ ~request[r].creates => conversation = "live"
  /\ request[r].phase = "storing" => request[r].shown = request[r].full
  /\ conversation = "live" /\ request[r].phase \in {"opening", "streaming", "storing"} =>
       Said(r, "user") # {}
  /\ request[r].phase \in {"opening", "streaming", "storing"} =>
       \A m \in Said(r, "user") : m.at <= clock /\ (request[r].phase = "storing" => m.at < request[r].at)
  /\ request[r].at <= clock

(* A conversation that is being created belongs to its creator. *)
Creation ==
  /\ conversation \in {"unused", "creating", "deleted"} => stored = {}
  /\ conversation \in {"unused", "creating"} =>
       \A r \in Request : request[r].phase \in {"idle", "failed"}
                            \/ (conversation = "creating" /\ request[r].creates)
  /\ \A r \in Request :
       request[r].creates /\ request[r].phase \in {"begun", "gathered"} =>
         /\ conversation = "creating"
         /\ \A q \in Request \ {r} : request[q].phase \in {"idle", "failed"}

(* An answer is all of it, the only one, and later than its question. *)
Whole(m) ==
  /\ m.size = request[m.by].full
  /\ \E q \in stored : q.by = m.by /\ q.role = "user"
  /\ \A n \in stored : n.by = m.by /\ n.role = "assistant" => n = m
  /\ \A q \in stored : q.by = m.by /\ q.role = "user" => q.at < m.at

(* Together, with what is promised of the history and the answers. *)
ChatInv ==
  /\ ChatTypeOK /\ IsFiniteSet(stored) /\ Creation
  /\ \A m \in stored : m.at <= clock
  /\ \A m \in stored : m.role = "assistant" => Whole(m)
  /\ \A r \in Request : Progress(r)
  /\ QuestionComesLast

(* The tables are empty at first. *)
LEMMA InitChat == ChatInit => ChatInv
<1> SUFFICES ASSUME ChatInit PROVE ChatInv
  OBVIOUS
<1>1. NewRequest \in Asked
  BY ChatAssumption DEF NewRequest, Asked
<1>2. ChatTypeOK /\ IsFiniteSet(stored)
  BY <1>1, FS_EmptySet DEF ChatInit, ChatTypeOK
<1> QED
  BY <1>2 DEF ChatInit, ChatInv, NewRequest, Creation, Progress, Said, QuestionComesLast, Sent


(* A request that stores nothing keeps the invariant. *)
Continues(r, a) ==
  /\ request' = [request EXCEPT ![r] = a] /\ UNCHANGED <<stored, conversation>>
  /\ a.seen = request[r].seen /\ a.history = request[r].history /\ a.creates = request[r].creates
  /\ request[r].phase \in {"opening", "streaming", "storing"}
  /\ \/ a.phase \in {"opening", "streaming", "failed"} /\ a.at = request[r].at /\ clock' = clock
     \/ /\ a.phase = "storing" /\ request[r].phase = "streaming"
        /\ a.shown = a.full /\ a.at = clock' /\ clock' = clock + 1

(* A request that moves on without storing anything keeps the invariant.   *)
LEMMA ContinuesWell ==
  ASSUME ChatInv, NEW r \in Request, NEW a \in Asked, Continues(r, a)
  PROVE  ChatInv'
<1> USE DEF Continues
<1>1. ChatTypeOK'
  BY DEF ChatInv, ChatTypeOK
<1>2. /\ request'[r] = a
      /\ \A q \in Request \ {r} : request'[q] = request[q]
  BY DEF ChatInv, ChatTypeOK
<1>3. Creation'
  BY <1>2 DEF ChatInv, Creation
<1>4. ASSUME NEW m \in stored, m.role = "assistant" PROVE Whole(m)'
  <2>1. m.by \in Request \ {r}
    BY <1>4 DEF ChatInv, Progress, Said, ChatTypeOK, Message
  <2> QED
    BY <1>2, <1>4, <2>1 DEF ChatInv, Whole
<1>5. clock \in Nat /\ clock' \in Nat /\ clock <= clock' /\ stored \subseteq Message
  BY DEF ChatInv, ChatTypeOK
<1>6. ASSUME NEW q \in Request \ {r} PROVE Progress(q)'
  <2>1. Progress(q) /\ request[q].at \in Nat
    BY DEF ChatInv, ChatTypeOK, Asked
  <2> QED
    BY <1>2, <1>5, <2>1 DEF Progress, Said, Message
<1>7. Progress(r)'
  <2>1. Progress(r) /\ request[r].at \in Nat
    BY DEF ChatInv, ChatTypeOK, Asked
  <2> HIDE DEF Continues
  <2>2. /\ a.at <= clock' /\ a.phase \in {"opening", "streaming", "storing", "failed"}
        /\ a.phase = "storing" => a.shown = a.full /\ clock < a.at
    BY <1>5, <2>1 DEF Continues, Progress
  <2>3. stored' = stored /\ conversation' = conversation
        /\ request[r].phase \in {"opening", "streaming", "storing"}
    BY DEF Continues
  <2>4. \A m \in stored : m.at \in Nat
    BY <1>5 DEF Message
  <2>5. \A m \in Said(r, "user") : m.at <= clock
    BY <2>1, <2>3 DEF Progress
  <2>6. /\ \A m \in stored : m.by = r => m.role # "assistant"
        /\ conversation = "live" => \E m \in stored : m.by = r /\ m.role = "user"
    BY <2>1, <2>3 DEF Progress, Said
  <2> a.at \in Nat
    BY DEF Asked
  <2>7. \A m \in stored : m.by = r /\ m.role = "user" => m.at <= clock' /\ (a.phase = "storing" => m.at < a.at)
    BY <1>5, <2>2, <2>4, <2>5 DEF Said
  <2> QED
    BY <1>2, <2>2, <2>3, <2>6, <2>7 DEF Progress, Said
<1>8. QuestionComesLast'
  BY <1>2 DEF ChatInv, QuestionComesLast, Sent
<1>9. \A m \in stored : m.at <= clock'
  BY <1>5 DEF ChatInv, ChatTypeOK, Message
<1> QED
  BY <1>1, <1>3, <1>4, <1>6, <1>7, <1>8, <1>9 DEF ChatInv

(* The fields of a request have their types. *)
LEMMA AskedFields ==
  ASSUME NEW a \in Asked
  PROVE  /\ [a EXCEPT !.phase = "failed"] \in Asked
         /\ [a EXCEPT !.phase = "gathered"] \in Asked
         /\ [a EXCEPT !.phase = "opening"] \in Asked
         /\ [a EXCEPT !.phase = "done"] \in Asked
         /\ \A n \in Nat : [a EXCEPT !.phase = "storing", !.at = n] \in Asked
         /\ \A n \in 0 .. RateLimitRetries : [a EXCEPT !.limited = n] \in Asked
         /\ \A n \in 0 .. TransientRetries : [a EXCEPT !.flaky = n] \in Asked
         /\ \A n \in 0 .. MaxTokens : [a EXCEPT !.shown = n] \in Asked
  BY DEF Asked

(* While the answer streams, fails or is given up nothing is stored        *)
(* (api/chat.py, event_stream; llm/router.py).                             *)
LEMMA Streams ==
  ASSUME ChatInv, NEW r \in Request,
         RateLimited(r) \/ Transient(r) \/ Open(r) \/ Token(r) \/ Break(r) \/ Leave(r) \/ Finish(r)
  PROVE  ChatInv'
<1>1. request \in [Request -> Asked] /\ clock \in Nat
  BY DEF ChatInv, ChatTypeOK
<1>2. request[r] \in Asked
  BY <1>1
<1>3. ASSUME Moves(r, "failed"), UNCHANGED <<conversation, stored, clock>>,
             request[r].phase \in {"opening", "streaming", "storing"}
      PROVE  ChatInv'
  <2>1. request'[r] = [request[r] EXCEPT !.phase = "failed"]
    BY <1>1, <1>3 DEF Moves
  <2>2. request' = [request EXCEPT ![r] = request'[r]]
    BY <1>1, <1>3 DEF Moves
  <2>3. request'[r] \in Asked
    BY <1>2, <2>1, AskedFields
  <2>4. Continues(r, request'[r])
    BY <1>2, <1>3, <2>1, <2>2 DEF Continues, Asked
  <2> QED
    BY <2>3, <2>4, ContinuesWell
<1>4. ASSUME RateLimited(r), request[r].limited < RateLimitRetries PROVE ChatInv'
  <2>1. request' = [request EXCEPT ![r] = request'[r]]
    BY <1>1, <1>4 DEF RateLimited
  <2>2. request'[r] = [request[r] EXCEPT !.limited = request[r].limited + 1]
    BY <1>1, <1>4 DEF RateLimited
  <2>4. request[r].limited + 1 \in 0 .. RateLimitRetries
    BY <1>2, <1>4, ChatAssumption DEF Asked
  <2>3. request'[r] \in Asked
    BY <1>2, <2>2, <2>4, AskedFields
  <2>5. Continues(r, request'[r])
    BY <1>1, <1>2, <1>4, <2>1, <2>2, <2>3 DEF RateLimited, Is, Continues, Asked
  <2> QED
    BY <2>3, <2>5, ContinuesWell
<1>5. ASSUME Transient(r), request[r].flaky < TransientRetries PROVE ChatInv'
  <2>1. request' = [request EXCEPT ![r] = request'[r]]
    BY <1>1, <1>5 DEF Transient
  <2>2. request'[r] = [request[r] EXCEPT !.flaky = request[r].flaky + 1]
    BY <1>1, <1>5 DEF Transient
  <2>4. request[r].flaky + 1 \in 0 .. TransientRetries
    BY <1>2, <1>5, ChatAssumption DEF Asked
  <2>3. request'[r] \in Asked
    BY <1>2, <2>2, <2>4, AskedFields
  <2>5. Continues(r, request'[r])
    BY <1>1, <1>2, <1>5, <2>1, <2>2, <2>3 DEF Transient, Is, Continues, Asked
  <2> QED
    BY <2>3, <2>5, ContinuesWell
<1>6. ASSUME Open(r) PROVE ChatInv'
  <2>1. request' = [request EXCEPT ![r] = request'[r]]
    BY <1>1, <1>6 DEF Open
  <2>2. PICK n \in 0 .. MaxTokens :
          request'[r] = [request[r] EXCEPT !.phase = "streaming", !.full = n, !.limited = 0, !.flaky = 0]
    BY <1>1, <1>6 DEF Open
  <2>4. 0 \in 0 .. RateLimitRetries /\ 0 \in 0 .. TransientRetries
    BY ChatAssumption
  <2>3. request'[r] \in Asked
    BY <1>2, <2>2, <2>4 DEF Asked
  <2>5. Continues(r, request'[r])
    BY <1>1, <1>2, <1>6, <2>1, <2>2, <2>3 DEF Open, Is, Continues, Asked
  <2> QED
    BY <2>3, <2>5, ContinuesWell
<1>7. ASSUME Token(r) PROVE ChatInv'
  <2>1. request' = [request EXCEPT ![r] = request'[r]]
    BY <1>1, <1>7 DEF Token
  <2>2. request'[r] = [request[r] EXCEPT !.shown = request[r].shown + 1]
    BY <1>1, <1>7 DEF Token
  <2>4. request[r].shown + 1 \in 0 .. MaxTokens
    BY <1>2, <1>7, ChatAssumption DEF Token, Asked
  <2>3. request'[r] \in Asked
    BY <1>2, <2>2, <2>4, AskedFields
  <2>5. Continues(r, request'[r])
    BY <1>1, <1>2, <1>7, <2>1, <2>2, <2>3 DEF Token, Is, Continues, Asked
  <2> QED
    BY <2>3, <2>5, ContinuesWell
<1>8. ASSUME Finish(r) PROVE ChatInv'
  <2>1. request' = [request EXCEPT ![r] = request'[r]]
    BY <1>1, <1>8 DEF Finish
  <2>2. request'[r] = [request[r] EXCEPT !.phase = "storing", !.at = clock + 1]
    BY <1>1, <1>8 DEF Finish
  <2>4. clock + 1 \in Nat
    BY <1>1
  <2>3. request'[r] \in Asked
    BY <1>2, <2>2, <2>4, AskedFields
  <2>5. Continues(r, request'[r])
    BY <1>1, <1>2, <1>8, <2>1, <2>2, <2>3 DEF Finish, Is, Continues, Asked
  <2> QED
    BY <2>3, <2>5, ContinuesWell
<1> QED
  BY <1>3, <1>4, <1>5, <1>6, <1>7, <1>8 DEF RateLimited, Transient, Break, Leave, Is

(* What a question is sent with. *)
(* The history is the newest messages, as many as may be sent: the         *)
(* question is the last of those that were there when the request began,   *)
(* or nothing but later messages is sent (api/chat.py, the select).        *)
LEMMA SendsNewest ==
  ASSUME ChatInv, NEW r \in Request, request[r].phase = "begun", NEW h \in History(r)
  PROVE  /\ h \in Seq(Message)
         /\ h # <<>> =>
              /\ \/ \E i \in DOMAIN h : /\ h[i].by = r /\ h[i].role = "user"
                                      /\ \A j \in DOMAIN h : j > i => h[j] \notin request[r].seen
                 \/ Range(h) \cap request[r].seen = {} /\ Len(h) = HistoryLimit
              /\ \A i, j \in DOMAIN h :
                   h[i].by = h[j].by /\ h[i].role = "user" /\ h[j].role = "assistant" => i < j
<1> DEFINE all == stored \cup {Question(r)}
           size == Cardinality(all)
           n == IF size < HistoryLimit THEN size ELSE HistoryLimit
<1>1. /\ Question(r) \in Message /\ Question(r).by = r /\ Question(r).role = "user"
      /\ Question(r).at = request[r].at /\ request[r].seen \subseteq Message
  BY DEF Question, Message, ChatInv, ChatTypeOK, Asked
<1>2. all \subseteq Message /\ IsFiniteSet(all) /\ size \in Nat /\ n \in Nat
  <2>1. all \subseteq Message
    BY <1>1 DEF ChatInv, ChatTypeOK
  <2>2. IsFiniteSet(all)
    BY FS_AddElement DEF ChatInv
  <2>3. size \in Nat
    BY <2>2, FS_CardinalityType
  <2> QED
    BY <2>1, <2>2, <2>3, ChatAssumption
<1>3. /\ h \in [1 .. n -> all]
      /\ \A i, j \in 1 .. n : i < j => h[i] # h[j] /\ ~Earlier(h[j], h[i])
      /\ \A m \in all \ Range(h), i \in 1 .. n : ~Earlier(h[i], m)
  BY DEF History, Ordered
<1> HIDE DEF n, size, all
<1>4. h \in Seq(Message) /\ DOMAIN h = 1 .. n /\ Len(h) = n
  BY <1>2, <1>3
<1>5. \A m \in request[r].seen : m.at < request[r].at
  BY DEF ChatInv, Progress
<1>6. \A i \in 1 .. n : h[i].at \in Nat
  BY <1>2, <1>3 DEF Message
<1>7. \A m \in request[r].seen : m.at \in Nat
  BY <1>1 DEF Message
<1>7a. request[r].at \in Nat
  BY DEF ChatInv, ChatTypeOK, Asked
<1> DEFINE Placed == \/ \E i \in DOMAIN h : /\ h[i].by = r /\ h[i].role = "user"
                                             /\ \A j \in DOMAIN h : j > i => h[j] \notin request[r].seen
                     \/ Range(h) \cap request[r].seen = {} /\ Len(h) = HistoryLimit
<1>8. ASSUME \E i \in 1 .. n : h[i] = Question(r) PROVE Placed
  <2>1. PICK i \in 1 .. n : h[i] = Question(r)
    BY <1>8
  <2>2. ASSUME NEW j \in 1 .. n, j > i PROVE h[j] \notin request[r].seen
    <3>1. h[j].at >= request[r].at
      BY <1>1, <1>2, <1>3, <1>6, <1>7a, <2>1, <2>2 DEF Earlier
    <3> QED
      BY <1>5, <1>6, <1>7, <1>7a, <3>1
  <2> QED
    BY <1>1, <1>4, <2>1, <2>2
<1>9. ASSUME \A i \in 1 .. n : h[i] # Question(r) PROVE Placed
  <2>1. Question(r) \in all \ Range(h)
    BY <1>3, <1>4, <1>9 DEF Range, all
  <2>2. \A i \in 1 .. n : h[i].at >= request[r].at
    BY <1>1, <1>3, <1>6, <1>7a, <2>1 DEF Earlier
  <2>3. Range(h) \cap request[r].seen = {}
    BY <1>4, <1>5, <1>6, <1>7, <1>7a, <2>2 DEF Range
  <2>4. n = HistoryLimit
    <3>1. SUFFICES ASSUME n = size PROVE FALSE
      BY DEF n
    <3>2. h \in Injection(1 .. n, all)
      <4>1. ASSUME NEW i \in 1 .. n, NEW j \in 1 .. n, h[i] = h[j] PROVE i = j
        BY <1>2, <1>3, <4>1
      <4> QED
        BY <1>3, <4>1 DEF Injection, IsInjective
    <3>3. Cardinality(1 .. n) = size
      BY <1>2, <3>1, FS_Interval
    <3>4. h \in Surjection(1 .. n, all)
      BY <1>2, <3>2, <3>3, FS_Injection DEF size
    <3> QED
      BY <1>9, <3>4 DEF Surjection, all
  <2> QED
    BY <1>4, <2>3, <2>4
<1>10. ASSUME NEW i \in 1 .. n, NEW j \in 1 .. n,
              h[i].by = h[j].by, h[i].role = "user", h[j].role = "assistant"
       PROVE  i < j
  <2>1. i # j /\ i \in Int /\ j \in Int
    BY <1>2, <1>10
  <2>2. h[j] \in stored
    BY <1>1, <1>3, <1>10 DEF all
  <2>3. h[j].by # r
    BY <2>2 DEF ChatInv, Progress
  <2>4. h[i] \in stored
    BY <1>1, <1>3, <1>10, <2>3 DEF all
  <2>5. h[i].at < h[j].at
    BY <1>10, <2>2, <2>4 DEF ChatInv, Whole
  <2> QED
    BY <1>3, <2>1, <2>5 DEF Earlier
<1> QED
  BY <1>4, <1>8, <1>9, <1>10

(* The question is inserted and the history read. *)
LEMMA GathersWell == ASSUME ChatInv, NEW r \in Request, Gather(r) PROVE ChatInv'
<1>1. request \in [Request -> Asked] /\ request[r] \in Asked
  BY DEF ChatInv, ChatTypeOK
<1>2. PICK h \in History(r) :
        request' = [request EXCEPT ![r].phase = "gathered", ![r].history = h]
  BY DEF Gather
<1>3. /\ request'[r] = [request[r] EXCEPT !.phase = "gathered", !.history = h]
      /\ \A q \in Request \ {r} : request'[q] = request[q]
      /\ request' = [request EXCEPT ![r] = request'[r]]
  BY <1>1, <1>2
<1>4. h \in Seq(Message)
  BY SendsNewest DEF Gather, Is
<1>5. request'[r] \in Asked
  BY <1>1, <1>3, <1>4 DEF Asked
<1>6. UNCHANGED <<conversation, stored, clock>> /\ request[r].phase = "begun"
      /\ (request[r].creates \/ conversation = "live")
  BY DEF Gather, Is
<1>7. /\ request'[r].phase = "gathered" /\ request'[r].history = h
      /\ request'[r].seen = request[r].seen /\ request'[r].creates = request[r].creates
      /\ request'[r].at = request[r].at
  BY <1>1, <1>3 DEF Asked
<1>8. ChatTypeOK'
  BY <1>1, <1>3, <1>5, <1>6 DEF ChatInv, ChatTypeOK
<1>9. Creation'
  BY <1>3, <1>6, <1>7 DEF ChatInv, Creation
<1>10. ASSUME NEW m \in stored, m.role = "assistant" PROVE Whole(m)'
  <2>1. m.by \in Request \ {r}
    BY <1>6, <1>10 DEF ChatInv, Progress, ChatTypeOK, Message
  <2> QED
    BY <1>3, <1>6, <1>10, <2>1 DEF ChatInv, Whole
<1>11. ASSUME NEW q \in Request PROVE Progress(q)'
  BY <1>3, <1>6, <1>7 DEF ChatInv, Progress, Said
<1>12. QuestionComesLast'
  <2>1. \A q \in Request \ {r} : Sent(q)' = Sent(q) /\ request'[q].seen = request[q].seen
    BY <1>3 DEF Sent
  <2>2. Sent(r)' = h
    BY <1>7 DEF Sent
  <2> QED
    BY <1>6, <1>7, <2>1, <2>2, SendsNewest DEF ChatInv, QuestionComesLast
<1> QED
  BY <1>6, <1>8, <1>9, <1>10, <1>11, <1>12 DEF ChatInv

(* A request that is rolled back leaves no conversation behind. *)
LEMMA AbandonsWell == ASSUME ChatInv, NEW r \in Request, Abandon(r) PROVE ChatInv'
<1>1. request \in [Request -> Asked] /\ request[r] \in Asked
  BY DEF ChatInv, ChatTypeOK
<1>2. /\ request'[r] = [request[r] EXCEPT !.phase = "failed"]
      /\ \A q \in Request \ {r} : request'[q] = request[q]
      /\ request' = [request EXCEPT ![r] = request'[r]]
  BY <1>1 DEF Abandon, Moves
<1>3. request'[r] \in Asked
  BY <1>1, <1>2, AskedFields
<1>4. /\ UNCHANGED <<stored, clock>> /\ request[r].phase = "begun"
      /\ conversation' = IF request[r].creates THEN "unused" ELSE conversation
  BY DEF Abandon, Is
<1>5. /\ request'[r].phase = "failed" /\ request'[r].at = request[r].at
      /\ request'[r].seen = request[r].seen /\ request'[r].history = request[r].history
  BY <1>1, <1>2 DEF Asked
<1>6. ChatTypeOK'
  BY <1>1, <1>2, <1>3, <1>4 DEF ChatInv, ChatTypeOK
<1>7. Creation'
  <2>1. ASSUME NEW q \in Request, request'[q].creates, request'[q].phase \in {"begun", "gathered"}
        PROVE  FALSE
    BY <1>2, <1>4, <1>5, <2>1 DEF ChatInv, Creation
  <2>2. conversation' \in {"unused", "creating", "deleted"} => stored' = {}
    BY <1>4 DEF ChatInv, Creation
  <2>3. ASSUME conversation' \in {"unused", "creating"}, NEW q \in Request
        PROVE  request'[q].phase \in {"idle", "failed"}
    <3>1. request[r].creates
      <4>1. ~request[r].creates => conversation \in {"unused", "creating"}
        BY <1>4, <2>3
      <4> QED
        BY <1>4, <4>1 DEF ChatInv, Creation
    <3>2. \A p \in Request \ {r} : request[p].phase \in {"idle", "failed"}
      BY <1>4, <3>1 DEF ChatInv, Creation
    <3> QED
      BY <1>2, <1>5, <3>2
  <2> QED
    BY <2>1, <2>2, <2>3 DEF Creation
<1>8. ASSUME NEW m \in stored, m.role = "assistant" PROVE Whole(m)'
  <2>1. m.by \in Request \ {r}
    BY <1>4, <1>8 DEF ChatInv, Progress, ChatTypeOK, Message
  <2> QED
    BY <1>2, <1>4, <1>8, <2>1 DEF ChatInv, Whole
<1>9. ASSUME NEW q \in Request PROVE Progress(q)'
  <2>1. q # r => Progress(q)'
    BY <1>2, <1>4 DEF ChatInv, Progress, Said, Creation
  <2>2. Progress(r)'
    BY <1>4, <1>5 DEF ChatInv, Progress, Said
  <2> QED
    BY <2>1, <2>2
<1>10. QuestionComesLast'
  <2>1. \A q \in Request : Sent(q)' = Sent(q) /\ request'[q].seen = request[q].seen
    BY <1>2, <1>5 DEF Sent
  <2> QED
    BY <2>1 DEF ChatInv, QuestionComesLast
<1> QED
  BY <1>4, <1>6, <1>7, <1>8, <1>9, <1>10 DEF ChatInv

(* The first transaction commits: the question is stored, and nothing else *)
(* of its request is.                                                      *)
LEMMA CommitsWell == ASSUME ChatInv, NEW r \in Request, Commit(r) PROVE ChatInv'
<1>1. request \in [Request -> Asked] /\ request[r] \in Asked
  BY DEF ChatInv, ChatTypeOK
<1>2. /\ request'[r] = [request[r] EXCEPT !.phase = "opening"]
      /\ \A q \in Request \ {r} : request'[q] = request[q]
      /\ request' = [request EXCEPT ![r] = request'[r]]
  BY <1>1 DEF Commit, Moves
<1>3. request'[r] \in Asked
  BY <1>1, <1>2, AskedFields
<1>4. /\ clock' = clock /\ stored' = stored \cup {Question(r)} /\ request[r].phase = "gathered"
      /\ conversation' = IF request[r].creates THEN "live" ELSE conversation
  BY DEF Commit, Is
<1>5. /\ request'[r].phase = "opening" /\ request'[r].at = request[r].at
      /\ request'[r].seen = request[r].seen /\ request'[r].history = request[r].history
  BY <1>1, <1>2 DEF Asked
<1>6. /\ Question(r) \in Message /\ Question(r).by = r /\ Question(r).role = "user"
      /\ Question(r).at = request[r].at /\ request[r].at <= clock
  BY <1>1 DEF Question, Message, Asked, ChatInv, Progress
<1>7. ChatTypeOK' /\ IsFiniteSet(stored')
  BY <1>1, <1>2, <1>3, <1>4, <1>6, FS_AddElement DEF ChatInv, ChatTypeOK
<1>8. conversation' = "live"
  BY <1>4 DEF ChatInv, Progress
<1>9. Creation'
  <2>1. ASSUME NEW q \in Request, request'[q].creates, request'[q].phase \in {"begun", "gathered"}
        PROVE  FALSE
    BY <1>2, <1>4, <1>5, <2>1 DEF ChatInv, Creation, Progress
  <2> QED
    BY <1>8, <2>1 DEF Creation
<1>10. \A m \in stored : m.by # r
  BY <1>4 DEF ChatInv, Progress
<1>11. ASSUME NEW m \in stored', m.role = "assistant" PROVE Whole(m)'
  <2>1. m \in stored /\ m.by \in Request \ {r} /\ request'[m.by] = request[m.by]
    BY <1>2, <1>4, <1>6, <1>10, <1>11 DEF ChatInv, ChatTypeOK, Message
  <2>2. Whole(m)
    BY <1>11, <2>1 DEF ChatInv
  <2> QED
    BY <1>4, <1>6, <2>1, <2>2 DEF Whole
<1>12. ASSUME NEW q \in Request PROVE Progress(q)'
  <2>1. ASSUME q # r PROVE Progress(q)'
    <3>1. request'[q] = request[q] /\ Said(q, "assistant")' = Said(q, "assistant")
          /\ Said(q, "user")' = Said(q, "user")
      BY <1>2, <1>4, <1>6, <2>1 DEF Said
    <3>2. request[q].phase \in {"idle", "begun", "gathered"} => \A m \in stored' : m.by # q
      BY <1>4, <1>6, <2>1 DEF ChatInv, Progress
    <3>3. conversation = "live" \/ (conversation = "creating" /\ request[q].phase \in {"idle", "failed"})
      BY <1>4, <2>1 DEF ChatInv, Creation, Progress
    <3> QED
      BY <1>4, <1>8, <3>1, <3>2, <3>3 DEF ChatInv, Progress
  <2>2. Progress(r)'
    <3>1. Said(r, "assistant")' = {} /\ Said(r, "user")' = {Question(r)}
      BY <1>4, <1>6, <1>10 DEF Said
    <3> QED
      BY <1>4, <1>5, <1>6, <3>1 DEF Progress
  <2> QED
    BY <2>1, <2>2
<1>13. QuestionComesLast'
  <2>1. \A q \in Request : Sent(q)' = Sent(q) /\ request'[q].seen = request[q].seen
    BY <1>2, <1>5 DEF Sent
  <2> QED
    BY <2>1 DEF ChatInv, QuestionComesLast
<1>14. \A m \in stored' : m.at <= clock'
  BY <1>4, <1>6 DEF ChatInv
<1> QED
  BY <1>7, <1>9, <1>11, <1>12, <1>13, <1>14 DEF ChatInv

(* The second transaction stores the answer, later than its question and   *)
(* only when the conversation is still there.                              *)
LEMMA StoresWell == ASSUME ChatInv, NEW r \in Request, Store(r) PROVE ChatInv'
<1> DEFINE answer == [by |-> r, role |-> "assistant", at |-> request[r].at, size |-> request[r].shown]
<1>1. request \in [Request -> Asked] /\ request[r] \in Asked
  BY DEF ChatInv, ChatTypeOK
<1>2. CASE conversation # "live"
  <2>1. /\ request'[r] = [request[r] EXCEPT !.phase = "failed"]
        /\ request' = [request EXCEPT ![r] = request'[r]]
    BY <1>1, <1>2 DEF Store, Moves
  <2>2. request'[r] \in Asked
    BY <1>1, <2>1, AskedFields
  <2>3. Continues(r, request'[r])
    BY <1>1, <1>2, <2>1 DEF Store, Is, Continues, Asked
  <2> QED
    BY <2>2, <2>3, ContinuesWell
<1>3. CASE conversation = "live"
  <2>1. /\ request'[r] = [request[r] EXCEPT !.phase = "done"]
        /\ \A q \in Request \ {r} : request'[q] = request[q]
        /\ request' = [request EXCEPT ![r] = request'[r]]
    BY <1>1, <1>3 DEF Store, Moves
  <2>2. request'[r] \in Asked
    BY <1>1, <2>1, AskedFields
  <2>3. /\ UNCHANGED <<conversation, clock>> /\ request[r].phase = "storing"
        /\ stored' = stored \cup {answer}
    BY <1>3 DEF Store, Is
  <2>4. /\ request'[r].phase = "done" /\ request'[r].at = request[r].at
        /\ request'[r].seen = request[r].seen /\ request'[r].history = request[r].history
        /\ request'[r].full = request[r].full
    BY <1>1, <2>1 DEF Asked
  <2>5. /\ answer \in Message /\ answer.by = r /\ answer.role = "assistant"
        /\ answer.at = request[r].at /\ answer.size = request[r].full /\ request[r].at <= clock
    <3>1. request[r].at \in Nat /\ request[r].shown \in Nat
      BY <1>1, ChatAssumption DEF Asked
    <3>2. request[r].shown = request[r].full /\ request[r].at <= clock
      BY <2>3 DEF ChatInv, Progress
    <3> QED
      BY <3>1, <3>2 DEF Message
  <2> HIDE DEF answer
  <2>6. ChatTypeOK' /\ IsFiniteSet(stored')
    BY <1>1, <2>1, <2>2, <2>3, <2>5, FS_AddElement DEF ChatInv, ChatTypeOK
  <2>7. Creation'
    BY <1>3, <2>1, <2>3, <2>4 DEF ChatInv, Creation
  <2>8. /\ \A m \in stored : m.by = r => m.role # "assistant"
        /\ \E m \in stored : m.by = r /\ m.role = "user"
        /\ \A m \in stored : m.by = r /\ m.role = "user" => m.at < request[r].at
    BY <1>3, <2>3 DEF ChatInv, Progress, Said
  <2>9. ASSUME NEW m \in stored', m.role = "assistant" PROVE Whole(m)'
    <3>1. CASE m = answer
      BY <2>3, <2>4, <2>5, <2>8, <3>1 DEF Whole
    <3>2. CASE m # answer
      <4>1. m \in stored /\ m.by \in Request \ {r} /\ request'[m.by] = request[m.by]
        BY <2>1, <2>3, <2>8, <2>9, <3>2 DEF ChatInv, ChatTypeOK, Message
      <4>2. Whole(m)
        BY <2>9, <4>1 DEF ChatInv
      <4> QED
        BY <2>3, <2>5, <4>1, <4>2 DEF Whole
    <3> QED
      BY <3>1, <3>2
  <2>10. ASSUME NEW q \in Request PROVE Progress(q)'
    <3>1. ASSUME q # r PROVE Progress(q)'
      <4>1. request'[q] = request[q] /\ Said(q, "assistant")' = Said(q, "assistant")
            /\ Said(q, "user")' = Said(q, "user")
        BY <2>1, <2>3, <2>5, <3>1 DEF Said
      <4>2. request[q].phase \in {"idle", "begun", "gathered"} => \A m \in stored' : m.by # q
        BY <2>3, <2>5, <3>1 DEF ChatInv, Progress
      <4> QED
        BY <2>3, <4>1, <4>2 DEF ChatInv, Progress
    <3>2. Progress(r)'
      BY <2>3, <2>4, <2>5 DEF Progress
    <3> QED
      BY <3>1, <3>2
  <2>11. QuestionComesLast'
    <3>1. \A q \in Request : Sent(q)' = Sent(q) /\ request'[q].seen = request[q].seen
      BY <2>1, <2>4 DEF Sent
    <3> QED
      BY <3>1 DEF ChatInv, QuestionComesLast
  <2>12. \A m \in stored' : m.at <= clock'
    BY <2>3, <2>5 DEF ChatInv
  <2> QED
    BY <2>6, <2>7, <2>9, <2>10, <2>11, <2>12 DEF ChatInv
<1> QED
  BY <1>2, <1>3

(* A request begins later than every message that it sees. *)
LEMMA BeginsWell == ASSUME ChatInv, NEW r \in Request, Begin(r) PROVE ChatInv'
<1>0. PICK creates \in BOOLEAN : creates <=> conversation = "unused"
  OBVIOUS
<1>1. request \in [Request -> Asked] /\ request[r] \in Asked /\ clock \in Nat /\ stored \subseteq Message
  BY DEF ChatInv, ChatTypeOK
<1>2. /\ request'[r] = [request[r] EXCEPT !.phase = "begun", !.at = clock + 1, !.creates = creates, !.seen = stored]
      /\ \A q \in Request \ {r} : request'[q] = request[q]
      /\ request' = [request EXCEPT ![r] = request'[r]]
  BY <1>1, <1>0 DEF Begin
<1>3. /\ stored' = stored /\ clock' = clock + 1 /\ request[r].phase = "idle"
      /\ conversation \in {"unused", "live"}
      /\ conversation' = IF creates THEN "creating" ELSE "live"
  BY <1>0 DEF Begin, Is
<1>5. request'[r] \in Asked
  <2>1. clock + 1 \in Nat /\ stored \in SUBSET Message
    BY <1>1
  <2>2. CASE creates
    BY <1>1, <1>2, <2>1, <2>2 DEF Asked
  <2>3. CASE ~creates
    BY <1>1, <1>2, <2>1, <2>3 DEF Asked
  <2> QED
    BY <2>2, <2>3
<1>6. /\ request'[r].phase = "begun" /\ request'[r].at = clock + 1 /\ request'[r].creates = creates
      /\ request'[r].seen = stored /\ request'[r].history = request[r].history
  <2>1. /\ request'[r].phase = "begun" /\ request'[r].at = clock + 1
        /\ request'[r].seen = stored /\ request'[r].history = request[r].history
    BY <1>1, <1>2 DEF Asked
  <2>2. request'[r].creates = creates
    BY <1>1, <1>2 DEF Asked
  <2> QED
    BY <2>1, <2>2
<1>7. ChatTypeOK'
  BY <1>1, <1>2, <1>3, <1>5 DEF ChatInv, ChatTypeOK
<1>8. Creation'
  <2>1. creates => \A q \in Request \ {r} : request'[q].phase \in {"idle", "failed"}
    BY <1>2, <1>0 DEF ChatInv, Creation
  <2>2. ~creates => conversation = "live" /\ conversation' = "live"
    BY <1>3, <1>0
  <2>3. creates => conversation' = "creating" /\ stored' = {}
    BY <1>3, <1>0 DEF ChatInv, Creation
  <2>4. ~creates => \A q \in Request : ~(request'[q].creates /\ request'[q].phase \in {"begun", "gathered"})
    BY <1>2, <1>6, <2>2 DEF ChatInv, Creation
  <2>5. CASE creates
    BY <1>6, <2>1, <2>3, <2>5 DEF Creation
  <2>6. CASE ~creates
    BY <2>2, <2>4, <2>6 DEF Creation
  <2> QED
    BY <2>5, <2>6
<1>9. ASSUME NEW m \in stored, m.role = "assistant" PROVE Whole(m)'
  <2>1. m.by \in Request \ {r}
    BY <1>1, <1>3, <1>9 DEF ChatInv, Progress, Message
  <2> QED
    BY <1>2, <1>3, <1>9, <2>1 DEF ChatInv, Whole
<1>10. \A m \in stored : m.at \in Nat /\ m.at <= clock
  BY <1>1 DEF ChatInv, Message
<1>11. ASSUME NEW q \in Request PROVE Progress(q)'
  <2>1. ASSUME q # r PROVE Progress(q)'
    <3>1. request'[q] = request[q] /\ request[q].at \in Nat /\ request[q].at <= clock + 1
          /\ Said(q, "assistant")' = Said(q, "assistant") /\ Said(q, "user")' = Said(q, "user")
      <4>1. request[q].at \in Nat /\ request[q].at <= clock
        BY <1>1 DEF Asked, ChatInv, Progress
      <4>2. Said(q, "assistant")' = Said(q, "assistant") /\ Said(q, "user")' = Said(q, "user")
        BY <1>3 DEF Said
      <4> QED
        BY <1>1, <1>2, <2>1, <4>1, <4>2
    <3>2. \A m \in Said(q, "user") : m.at <= clock + 1
      BY <1>1, <1>10 DEF Said
    <3>3. Progress(q)
      BY DEF ChatInv
    <3>4. request[q].phase = "gathered" /\ ~request[q].creates => conversation' = "live"
      BY <1>3, <1>0, <3>3 DEF Progress
    <3>5. conversation' = "live" /\ request[q].phase \in {"opening", "streaming", "storing"} =>
            Said(q, "user") # {}
      BY <1>3, <1>0, <3>3 DEF Progress
    <3>6. request[q].phase = "storing" => \A m \in Said(q, "user") : m.at < request[q].at
      BY <3>3 DEF Progress
    <3> QED
      BY <1>3, <3>1, <3>2, <3>3, <3>4, <3>5, <3>6 DEF Progress
  <2>2. Progress(r)'
    <3>1. request[r].history = <<>> /\ \A m \in stored : m.by # r
      BY <1>3 DEF ChatInv, Progress
    <3> QED
      BY <1>1, <1>3, <1>6, <1>10, <3>1 DEF Progress, Said
  <2> QED
    BY <2>1, <2>2
<1>12. QuestionComesLast'
  <2>1. \A q \in Request : Sent(q)' = Sent(q) /\ (Sent(q) # <<>> => request'[q].seen = request[q].seen)
    BY <1>2, <1>3, <1>6 DEF Sent, ChatInv, Progress
  <2> QED
    BY <2>1 DEF ChatInv, QuestionComesLast
<1>13. \A m \in stored' : m.at <= clock'
  BY <1>1, <1>3, <1>10
<1> QED
  BY <1>3, <1>7, <1>8, <1>9, <1>11, <1>12, <1>13 DEF ChatInv

(* delete_conversation takes every message with it. *)
LEMMA DeletesWell == ChatInv /\ DeleteConversation => ChatInv'
<1> SUFFICES ASSUME ChatInv, DeleteConversation PROVE ChatInv'
  OBVIOUS
<1>1. /\ conversation = "live" /\ conversation' = "deleted" /\ stored' = {}
      /\ UNCHANGED <<clock, request>> /\ \A r \in Request : request[r].phase # "gathered"
  BY DEF DeleteConversation, Is
<1>2. ChatTypeOK' /\ IsFiniteSet(stored')
  BY <1>1, FS_EmptySet DEF ChatInv, ChatTypeOK
<1>3. Creation'
  BY <1>1 DEF ChatInv, Creation
<1>4. ASSUME NEW r \in Request PROVE Progress(r)'
  BY <1>1 DEF ChatInv, Progress, Said
<1>5. QuestionComesLast'
  BY <1>1 DEF ChatInv, QuestionComesLast, Sent
<1> QED
  BY <1>1, <1>2, <1>3, <1>4, <1>5 DEF ChatInv

(* What leaves the conversations alone keeps their invariant. *)
LEMMA ChatUnchanged == ChatInv /\ UNCHANGED chatVars => ChatInv'
<1> SUFFICES ASSUME ChatInv, UNCHANGED chatVars PROVE ChatInv'
  OBVIOUS
<1>1. UNCHANGED <<conversation, stored, clock, request>>
  BY DEF chatVars
<1>2. Creation' /\ ChatTypeOK' /\ QuestionComesLast'
  BY <1>1 DEF ChatInv, Creation, ChatTypeOK, QuestionComesLast, Sent
<1>3. ASSUME NEW r \in Request PROVE Progress(r)'
  BY <1>1 DEF ChatInv, Progress, Said
<1>4. ASSUME NEW m \in stored, m.role = "assistant" PROVE Whole(m)'
  BY <1>1, <1>4 DEF ChatInv, Whole
<1> QED
  BY <1>1, <1>2, <1>3, <1>4 DEF ChatInv

(* Requests of one conversation, in any order, keep where each of them is  *)
(* consistent with what it has stored (api/chat.py).                       *)
THEOREM Conversations == AssistantSpec => []ChatInv
<1>1. AssistantInit => ChatInv
  BY InitChat DEF AssistantInit
<1>2. ChatInv /\ [AssistantNext]_assistantVars => ChatInv'
  <2> SUFFICES ASSUME ChatInv, [AssistantNext]_assistantVars PROVE ChatInv'
    OBVIOUS
  <2>1. CASE Answers
    BY <2>1, AbandonsWell, CommitsWell, Streams, StoresWell DEF Answers, RequestStep
  <2>2. CASE \E r \in Request : Asks(r) \/ Reads(r)
    BY <2>2, BeginsWell, GathersWell DEF Asks, Reads
  <2>3. CASE Captures \/ UNCHANGED assistantVars
    BY <2>3, ChatUnchanged DEF Captures, assistantVars, chatVars
  <2>4. CASE Interruption
    BY <2>4, ChatUnchanged, DeletesWell DEF Interruption
  <2> QED
    BY <2>1, <2>2, <2>3, <2>4 DEF AssistantNext
<1> QED
  BY <1>1, <1>2, PTL DEF AssistantSpec

(* The model is sent a question after what was said before it, and never   *)
(* an answer before its question (api/chat.py, the history).               *)
THEOREM QuestionsComeLast == AssistantSpec => []QuestionComesLast
<1>1. ChatInv => QuestionComesLast
  BY DEF ChatInv
<1> QED
  BY <1>1, Conversations, PTL

(* A stored answer is the whole answer, the only one of its request, after *)
(* its question (api/chat.py, event_stream).                               *)
THEOREM OnlyWholeAnswers == AssistantSpec => []AnswersAreWhole
<1>1. ChatInv => AnswersAreWhole
  BY DEF ChatInv, AnswersAreWhole, Whole
<1> QED
  BY <1>1, Conversations, PTL

-----------------------------------------------------------------------------
(* Coroutines at one of these places. *)
At(phases) == {c \in Coroutine : job[c] \in phases}

(* What of the run is remembered agrees with its end. *)
Truthful ==
  /\ \A m \in memory : m.linked =>
       /\ m.kind = "outcome" => run \in Ended /\ m.says = run
       /\ m.kind = "decision" => run = "completed"
  /\ \A c \in At({"capturing"}) : found[c] \in Ended /\ run \in {found[c], "deleted"}

(* Nothing was lost: then an end is remembered, or a coroutine will see to *)
(* it.                                                                     *)
NotLost ==
  ~past.lost =>
    /\ connected
    /\ run \in Ended => OfRun("outcome") # {} \/ At({"returned", "capturing"}) # {}
    /\ run = "completed" /\ OfRun("outcome") # {} => OfRun("decision") # {}

(* No two captures overlapped: then there is one outcome, and none while   *)
(* one is captured.                                                        *)
Alone ==
  ~past.overlapped =>
    /\ \A c, d \in At({"capturing"}) : c = d
    /\ At({"capturing"}) # {} => OfRun("outcome") = {}
    /\ \A m, n \in OfRun("outcome") : m = n
    /\ past.forgotten = {} =>
         /\ \A m, n \in OfRun("decision") : m = n
         /\ OfRun("decision") # {} => OfRun("outcome") # {}

(* Each visit is one coroutine, and tells once at most. *)
Counted ==
  /\ messages + Cardinality(At({"posting"})) <= past.visits
  /\ notices + Cardinality(At({"posting", "recording"})) <= past.visits
  /\ past.visits <= Cardinality(At({"posting", "recording", "done"}))

(* No telling was cut short: then an end is told, or a coroutine will tell *)
(* it.                                                                     *)
NotUntold ==
  ~past.untold =>
    /\ slack /\ run \in Ended =>
         notices > 0 \/ At({"returned", "capturing", "captured", "posting", "recording"}) # {}
    /\ ~slack => notices = 0 /\ At({"posting", "recording"}) = {}

MemoryInv == MemoryTypeOK /\ Truthful /\ NotLost /\ Alone /\ Counted /\ NotUntold

(* The memories there are. *)
Ids == {m.id : m \in memory}

(* What a question knew of is there or was removed, and what it sends is   *)
(* the best of it.                                                         *)
RecallInv ==
  /\ recalled \in [Request -> SUBSET (1 .. MaxItems)] /\ known \in [Request -> SUBSET (1 .. MaxItems)]
  /\ \A r \in Request : known[r] \subseteq Ids \cup past.forgotten
  /\ Informed

(* A coroutine that goes from one place to another leaves the count of the *)
(* one and joins that of the other.                                        *)
LEMMA Moved ==
  ASSUME MemoryTypeOK, NEW c \in Coroutine, NEW p, Goes(c, p), NEW P
  PROVE  /\ At(P)' = (At(P) \ {c}) \cup (IF p \in P THEN {c} ELSE {})
         /\ Cardinality(At(P)) \in Nat /\ Cardinality(At(P)') \in Nat
         /\ Cardinality(At(P)') = Cardinality(At(P)) - (IF job[c] \in P THEN 1 ELSE 0)
                                                    + (IF p \in P THEN 1 ELSE 0)
<1>1. At(P)' = (At(P) \ {c}) \cup (IF p \in P THEN {c} ELSE {})
  BY DEF MemoryTypeOK, Goes, At
<1>2. IsFiniteSet(At(P)) /\ Cardinality(At(P)) \in Nat
  BY MemoryAssumption, FS_Subset, FS_CardinalityType DEF At
<1>3. /\ IsFiniteSet(At(P) \ {c})
      /\ Cardinality(At(P) \ {c}) = IF c \in At(P) THEN Cardinality(At(P)) - 1 ELSE Cardinality(At(P))
  BY <1>2, FS_RemoveElement
<1>4. c \in At(P) <=> job[c] \in P
  BY DEF At
<1>5. CASE p \in P
  <2>1. /\ At(P)' = (At(P) \ {c}) \cup {c}
        /\ IsFiniteSet((At(P) \ {c}) \cup {c})
        /\ Cardinality((At(P) \ {c}) \cup {c}) = Cardinality(At(P) \ {c}) + 1
    BY <1>1, <1>3, <1>5, FS_AddElement
  <2>2. Cardinality(At(P)') \in Nat
    BY <2>1, FS_CardinalityType
  <2> QED
    BY <1>1, <1>2, <1>3, <1>4, <1>5, <2>1, <2>2
<1>6. CASE p \notin P
  <2>1. At(P)' = At(P) \ {c}
    BY <1>1, <1>6
  <2>2. Cardinality(At(P)') \in Nat
    BY <1>3, <2>1, FS_CardinalityType
  <2> QED
    BY <1>1, <1>2, <1>3, <1>4, <1>6, <2>1, <2>2
<1> QED
  BY <1>5, <1>6

(* Items have their types. *)
LEMMA Items ==
  /\ \A i \in 1 .. MaxItems, k \in Kind, s \in RunStatus, b \in BOOLEAN : NewItem(i, k, s, b) \in Item
  /\ \A m \in Item : [m EXCEPT !.linked = FALSE] \in Item /\ m.id \in 1 .. MaxItems
  BY DEF NewItem, Item

(* What capture_run_memory commits: an outcome that says how the run       *)
(* ended, and a decision with it exactly if the run completed.             *)
LEMMA Remembered ==
  ASSUME MemoryTypeOK, Truthful, NEW c \in Coroutine, Remember(c)
  PROVE  /\ run \in Ended /\ UNCHANGED <<run, connected, past>> /\ connected
         /\ At({"capturing"})' = At({"capturing"}) \ {c} /\ c \in At({"capturing"})
         /\ \E o, d :
              /\ o.linked /\ o.kind = "outcome" /\ o.says = run
              /\ d.linked /\ d.kind = "decision"
              /\ memory' = memory \cup (IF run = "completed" THEN {o, d} ELSE {o})
<1>1. found[c] = run /\ run \in Ended
  BY DEF Truthful, Remember, At
<1>2. At({"capturing"})' = At({"capturing"}) \ {c} /\ c \in At({"capturing"})
  BY DEF Remember, At, MemoryTypeOK, Goes
<1>3. CASE run = "completed"
  <2> DEFINE d == NewItem(items + 1, "decision", found[c], TRUE)
             o == NewItem(items + 1 + 1, "outcome", found[c], TRUE)
  <2>1. memory' = memory \cup {o, d}
    <3>1. memory' = memory \cup {NewItem(items + 1, "decision", found[c], TRUE) : i \in 1 .. 1} \cup {o}
      BY <1>1, <1>3 DEF Remember
    <3>2. 1 .. 1 = {1}
      OBVIOUS
    <3>3. {NewItem(items + 1, "decision", found[c], TRUE) : i \in {1}} = {d}
      OBVIOUS
    <3> HIDE DEF d, o
    <3> QED
      BY <3>1, <3>2, <3>3
  <2>2. o.linked /\ o.kind = "outcome" /\ o.says = run /\ d.linked /\ d.kind = "decision"
    BY <1>1 DEF NewItem
  <2> HIDE DEF o, d
  <2>3. memory' = memory \cup (IF run = "completed" THEN {o, d} ELSE {o})
    BY <1>3, <2>1
  <2>4. UNCHANGED <<run, connected, past>> /\ connected
    BY DEF Remember
  <2> QED
    BY <1>1, <1>2, <2>2, <2>3, <2>4
<1>4. CASE run # "completed"
  <2> DEFINE d == NewItem(0, "decision", "active", TRUE)
             o == NewItem(items + 0 + 1, "outcome", found[c], TRUE)
  <2>1. memory' = memory \cup {o}
    <3>1. memory' = memory \cup {NewItem(items + 1, "decision", found[c], TRUE) : i \in 1 .. 0} \cup {o}
      BY <1>1, <1>4 DEF Remember
    <3>2. 1 .. 0 = {}
      OBVIOUS
    <3> QED
      BY <3>1, <3>2
  <2>2. o.linked /\ o.kind = "outcome" /\ o.says = run /\ d.linked /\ d.kind = "decision"
    BY <1>1 DEF NewItem
  <2> HIDE DEF o, d
  <2> QED
    BY <1>1, <1>2, <1>4, <2>1, <2>2 DEF Remember
<1> QED
  BY <1>3, <1>4

(* Every step of a coroutine and every interference keeps the types. *)
LEMMA Types ==
  ASSUME MemoryTypeOK, JobStep \/ Interferes \/ (\E c \in Coroutine : Works(c))
  PROVE  MemoryTypeOK'
<1> USE MemoryAssumption DEF MemoryTypeOK, Goes
<1>1. ASSUME NEW c \in Coroutine, Works(c) PROVE MemoryTypeOK'
  BY <1>1 DEF Works, Phase, RunStatus, Ended, Past, Item, NewItem, Kind
<1>2. ASSUME NEW c \in Coroutine, Finishes(c) PROVE MemoryTypeOK'
  BY <1>2 DEF Finishes, Phase, RunStatus, Ended, Past, Item, NewItem, Kind
<1>3. ASSUME NEW c \in Coroutine, Returns(c) PROVE MemoryTypeOK'
  BY <1>3 DEF Returns, Phase, RunStatus, Ended, Past, Item, NewItem, Kind
<1>4. ASSUME NEW c \in Coroutine, Look(c) PROVE MemoryTypeOK'
  BY <1>4 DEF Look, Phase, RunStatus, Ended, Past, Item, NewItem, Kind
<1>5. ASSUME NEW c \in Coroutine, CaptureFails(c) PROVE MemoryTypeOK'
  BY <1>5 DEF CaptureFails, Phase, RunStatus, Ended, Past, Item, NewItem, Kind
<1>6. ASSUME NEW c \in Coroutine, Remember(c) PROVE MemoryTypeOK'
  <2>1. found[c] \in RunStatus /\ {"decision", "outcome"} \subseteq Kind /\ TRUE \in BOOLEAN
    BY DEF Kind
  <2>2. CASE found[c] = "completed"
    <3>1. items + 1 \in 1 .. MaxItems /\ items + 1 + 1 \in 1 .. MaxItems
      BY <1>6, <2>2 DEF Remember
    <3>2. memory' \subseteq memory \cup {NewItem(items + 1, "decision", found[c], TRUE),
                                         NewItem(items + 1 + 1, "outcome", found[c], TRUE)}
      BY <1>6, <2>2 DEF Remember
    <3>3. memory' \subseteq Item
      BY <2>1, <3>1, <3>2, Items
    <3>4. items' = items + 1 + 1 /\ items' \in 0 .. MaxItems
      BY <1>6, <2>2, <3>1 DEF Remember
    <3>5. job' \in [Coroutine -> Phase] /\ found' \in [Coroutine -> RunStatus]
      BY <1>6 DEF Remember, Phase, RunStatus
    <3> QED
      BY <1>6, <3>3, <3>4, <3>5 DEF Remember
  <2>3. CASE found[c] # "completed"
    <3>1. items + 0 + 1 \in 1 .. MaxItems
      BY <1>6, <2>3 DEF Remember
    <3>2. memory' = memory \cup {NewItem(items + 0 + 1, "outcome", found[c], TRUE)}
      BY <1>6, <2>3 DEF Remember
    <3>3. memory' \subseteq Item
      BY <2>1, <3>1, <3>2, Items
    <3>4. items' = items + 0 + 1 /\ items' \in 0 .. MaxItems
      BY <1>6, <2>3, <3>1 DEF Remember
    <3>5. job' \in [Coroutine -> Phase] /\ found' \in [Coroutine -> RunStatus]
      BY <1>6 DEF Remember, Phase, RunStatus
    <3> QED
      BY <1>6, <3>3, <3>4, <3>5 DEF Remember
  <2> QED
    BY <2>2, <2>3
<1>7. ASSUME NEW c \in Coroutine, LookAgain(c) PROVE MemoryTypeOK'
  <2>1. past.visits + (IF run \in Ended THEN 1 ELSE 0) \in Nat
    BY DEF Past
  <2> QED
    BY <1>7, <2>1 DEF LookAgain, Phase, Past
<1>8. ASSUME NEW c \in Coroutine, Post(c) PROVE MemoryTypeOK'
  BY <1>8 DEF Post, Phase, RunStatus, Ended, Past, Item, NewItem, Kind
<1>9. ASSUME NEW c \in Coroutine, Record(c) PROVE MemoryTypeOK'
  BY <1>9 DEF Record, Phase, RunStatus, Ended, Past, Item, NewItem, Kind
<1>10. ASSUME Reject PROVE MemoryTypeOK'
  <2>1. memory' \subseteq Item /\ items' \in 0 .. MaxItems
    <3>1. "preference" \in Kind /\ "cancelled" \in RunStatus /\ TRUE \in BOOLEAN
      BY DEF Kind, RunStatus
    <3>2. CASE UNCHANGED <<memory, items>>
      BY <3>2
    <3>3. CASE /\ items < MaxItems /\ items' = items + 1
               /\ memory' = memory \cup {NewItem(items + 1, "preference", "cancelled", TRUE)}
      <4>1. NewItem(items + 1, "preference", "cancelled", TRUE) \in Item /\ items + 1 \in 1 .. MaxItems
        <5>1. items + 1 \in 1 .. MaxItems
          BY <3>3
        <5> QED
          BY <3>1, <5>1, Items
      <4>2. items' \in 0 .. MaxItems
        BY <3>3
      <4>3. memory' \subseteq Item
        BY <3>3, <4>1
      <4> QED
        BY <4>2, <4>3
    <3> QED
      BY <1>10, <3>2, <3>3 DEF Reject
  <2> QED
    BY <1>10, <2>1 DEF Reject, RunStatus
<1>11. ASSUME WriteItem PROVE MemoryTypeOK'
  <2>1. "outcome" \in Kind /\ "active" \in RunStatus /\ FALSE \in BOOLEAN
    BY DEF Kind, RunStatus
  <2>2. items + 1 \in 1 .. MaxItems
    BY <1>11 DEF WriteItem
  <2> QED
    <3>1. NewItem(items + 1, "outcome", "active", FALSE) \in Item
      BY <2>1, <2>2, Items
    <3>2. memory' \subseteq Item
      BY <1>11, <3>1 DEF WriteItem
    <3>3. items' \in 0 .. MaxItems
      BY <1>11, <2>2 DEF WriteItem
    <3> QED
      BY <1>11, <3>2, <3>3 DEF WriteItem
<1>12. ASSUME DeleteItem PROVE MemoryTypeOK'
  <2>1. PICK m \in memory :
          /\ memory' = memory \ {m}
          /\ past' = [past EXCEPT !.lost = @ \/ m.linked, !.forgotten = @ \cup {m.id}]
    BY <1>12 DEF DeleteItem
  <2>2. m.id \in 1 .. MaxItems
    BY Items
  <2>3. past' \in Past
    BY <2>1, <2>2 DEF Past
  <2> QED
    BY <1>12, <2>1, <2>3 DEF DeleteItem
<1>13. ASSUME DeleteRun PROVE MemoryTypeOK'
  <2>1. memory' \subseteq Item
    BY <1>13, Items DEF DeleteRun
  <2> QED
    BY <1>13, <2>1 DEF DeleteRun, RunStatus
<1>14. ASSUME Disconnect PROVE MemoryTypeOK'
  <2>1. {m.id : m \in memory} \subseteq 1 .. MaxItems
    BY Items
  <2>2. past' \in Past
    BY <1>14, <2>1 DEF Disconnect, Past
  <2> QED
    BY <1>14, <2>2 DEF Disconnect
<1>15. ASSUME SetSlack PROVE MemoryTypeOK'
  BY <1>15 DEF SetSlack, Phase, RunStatus, Ended, Past, Item, NewItem, Kind
<1>16. ASSUME EngineRestarts PROVE MemoryTypeOK'
  BY <1>16 DEF EngineRestarts, Phase, RunStatus, Ended, Past, Item, NewItem, Kind
<1>17. ASSUME NEW c \in Coroutine, NotifyFails(c) PROVE MemoryTypeOK'
  BY <1>17 DEF NotifyFails, Phase, RunStatus, Ended, Past, Item, NewItem, Kind
<1> QED
  BY <1>1, <1>2, <1>3, <1>4, <1>5, <1>6, <1>7, <1>8, <1>9,
     <1>10, <1>11, <1>12, <1>13, <1>14, <1>15, <1>16, <1>17
     DEF JobStep, Interferes

(* Memories agree with the run's end: no step of the model changes an end, *)
(* and a capture stores what it found (capture.py).                        *)
LEMMA TruthfulStep ==
  ASSUME MemoryTypeOK, Truthful, JobStep \/ Interferes \/ (\E c \in Coroutine : Works(c))
  PROVE  Truthful'
<1> USE DEF MemoryTypeOK, Goes
<1>1. ASSUME NEW c \in Coroutine, Works(c) PROVE Truthful'
  BY <1>1 DEF Works, At, Truthful, Ended, NewItem, Item
<1>2. ASSUME NEW c \in Coroutine, Finishes(c) PROVE Truthful'
  BY <1>2 DEF Finishes, At, Truthful, Ended, NewItem, Item
<1>3. ASSUME NEW c \in Coroutine, Returns(c) PROVE Truthful'
  BY <1>3 DEF Returns, At, Truthful, Ended, NewItem, Item
<1>4. ASSUME NEW c \in Coroutine, Look(c) PROVE Truthful'
  BY <1>4 DEF Look, At, Truthful, Ended, NewItem, Item, Unremembered
<1>5. ASSUME NEW c \in Coroutine, CaptureFails(c) PROVE Truthful'
  BY <1>5 DEF CaptureFails, At, Truthful, Ended, NewItem, Item
<1>6. ASSUME NEW c \in Coroutine, Remember(c) PROVE Truthful'
  BY <1>6 DEF Remember, At, Truthful, Ended, NewItem, Item
<1>7. ASSUME NEW c \in Coroutine, LookAgain(c) PROVE Truthful'
  BY <1>7 DEF LookAgain, At, Truthful, Ended, NewItem, Item
<1>8. ASSUME NEW c \in Coroutine, Post(c) PROVE Truthful'
  BY <1>8 DEF Post, At, Truthful, Ended, NewItem, Item
<1>9. ASSUME NEW c \in Coroutine, Record(c) PROVE Truthful'
  BY <1>9 DEF Record, At, Truthful, Ended, NewItem, Item
<1>10. ASSUME Reject PROVE Truthful'
  BY <1>10 DEF Reject, At, Truthful, Ended, NewItem, Item
<1>11. ASSUME WriteItem PROVE Truthful'
  BY <1>11 DEF WriteItem, At, Truthful, Ended, NewItem, Item
<1>12. ASSUME DeleteItem PROVE Truthful'
  BY <1>12 DEF DeleteItem, At, Truthful, Ended, NewItem, Item
<1>13. ASSUME DeleteRun PROVE Truthful'
  BY <1>13 DEF DeleteRun, At, Truthful, Ended, NewItem, Item
<1>14. ASSUME Disconnect PROVE Truthful'
  BY <1>14 DEF Disconnect, At, Truthful, Ended, NewItem, Item
<1>15. ASSUME SetSlack PROVE Truthful'
  BY <1>15 DEF SetSlack, At, Truthful, Ended, NewItem, Item
<1>16. ASSUME EngineRestarts PROVE Truthful'
  BY <1>16 DEF EngineRestarts, At, Truthful, Ended, NewItem, Item
<1>17. ASSUME NEW c \in Coroutine, NotifyFails(c) PROVE Truthful'
  BY <1>17 DEF NotifyFails, At, Truthful, Ended, NewItem, Item
<1> QED
  BY <1>1, <1>2, <1>3, <1>4, <1>5, <1>6, <1>7, <1>8, <1>9,
     <1>10, <1>11, <1>12, <1>13, <1>14, <1>15, <1>16, <1>17
     DEF JobStep, Interferes

(* Until a capture is lost, an end is remembered or still to be captured. *)
LEMMA NotLostStep ==
  ASSUME MemoryTypeOK, Truthful, NotLost, JobStep \/ Interferes \/ (\E c \in Coroutine : Works(c))
  PROVE  NotLost'
<1> USE DEF MemoryTypeOK, Goes
<1>1. ASSUME NEW c \in Coroutine, Works(c) PROVE NotLost'
  BY <1>1 DEF Works, At, Truthful, NotLost, Ended, NewItem, Item, OfRun, Past, Phase
<1>2. ASSUME NEW c \in Coroutine, Finishes(c) PROVE NotLost'
  BY <1>2 DEF Finishes, At, Truthful, NotLost, Ended, NewItem, Item, OfRun, Past, Phase
<1>3. ASSUME NEW c \in Coroutine, Returns(c) PROVE NotLost'
  BY <1>3 DEF Returns, At, Truthful, NotLost, Ended, NewItem, Item, OfRun, Past, Phase
<1>4. ASSUME NEW c \in Coroutine, Look(c) PROVE NotLost'
  BY <1>4 DEF Look, At, Truthful, NotLost, Ended, NewItem, Item, OfRun, Past, Phase, Unremembered
<1>5. ASSUME NEW c \in Coroutine, CaptureFails(c) PROVE NotLost'
  BY <1>5 DEF CaptureFails, At, Truthful, NotLost, Ended, NewItem, Item, OfRun, Past, Phase
<1>6. ASSUME NEW c \in Coroutine, Remember(c) PROVE NotLost'
  <2>1. PICK o, d :
          /\ o.linked /\ o.kind = "outcome" /\ o.says = run
          /\ d.linked /\ d.kind = "decision"
          /\ memory' = memory \cup (IF run = "completed" THEN {o, d} ELSE {o})
    BY <1>6, Remembered
  <2>2. /\ run \in Ended /\ UNCHANGED <<run, connected, past>> /\ connected
        /\ At({"capturing"})' = At({"capturing"}) \ {c} /\ c \in At({"capturing"})
    BY <1>6, Remembered
  <2>3. o \in OfRun("outcome")' /\ (run = "completed" => d \in OfRun("decision")')
    BY <2>1 DEF OfRun
  <2> QED
    BY <2>2, <2>3 DEF NotLost
<1>7. ASSUME NEW c \in Coroutine, LookAgain(c) PROVE NotLost'
  BY <1>7 DEF LookAgain, At, Truthful, NotLost, Ended, NewItem, Item, OfRun, Past, Phase
<1>8. ASSUME NEW c \in Coroutine, Post(c) PROVE NotLost'
  BY <1>8 DEF Post, At, Truthful, NotLost, Ended, NewItem, Item, OfRun, Past, Phase
<1>9. ASSUME NEW c \in Coroutine, Record(c) PROVE NotLost'
  BY <1>9 DEF Record, At, Truthful, NotLost, Ended, NewItem, Item, OfRun, Past, Phase
<1>10. ASSUME Reject PROVE NotLost'
  BY <1>10 DEF Reject, At, Truthful, NotLost, Ended, NewItem, Item, OfRun, Past, Phase
<1>11. ASSUME WriteItem PROVE NotLost'
  BY <1>11 DEF WriteItem, At, Truthful, NotLost, Ended, NewItem, Item, OfRun, Past, Phase
<1>12. ASSUME DeleteItem PROVE NotLost'
  BY <1>12 DEF DeleteItem, At, Truthful, NotLost, Ended, NewItem, Item, OfRun, Past, Phase
<1>13. ASSUME DeleteRun PROVE NotLost'
  BY <1>13 DEF DeleteRun, At, Truthful, NotLost, Ended, NewItem, Item, OfRun, Past, Phase
<1>14. ASSUME Disconnect PROVE NotLost'
  BY <1>14 DEF Disconnect, At, Truthful, NotLost, Ended, NewItem, Item, OfRun, Past, Phase
<1>15. ASSUME SetSlack PROVE NotLost'
  BY <1>15 DEF SetSlack, At, Truthful, NotLost, Ended, NewItem, Item, OfRun, Past, Phase
<1>16. ASSUME EngineRestarts PROVE NotLost'
  BY <1>16 DEF EngineRestarts, At, Truthful, NotLost, Ended, NewItem, Item, OfRun, Past, Phase
<1>17. ASSUME NEW c \in Coroutine, NotifyFails(c) PROVE NotLost'
  BY <1>17 DEF NotifyFails, At, Truthful, NotLost, Ended, NewItem, Item, OfRun, Past, Phase
<1> QED
  BY <1>1, <1>2, <1>3, <1>4, <1>5, <1>6, <1>7, <1>8, <1>9,
     <1>10, <1>11, <1>12, <1>13, <1>14, <1>15, <1>16, <1>17
     DEF JobStep, Interferes

(* Captures that do not overlap do not repeat each other: each looks for   *)
(* an outcome before it stores one (capture.py).                           *)
LEMMA AloneStep ==
  ASSUME MemoryTypeOK, Truthful, Alone, JobStep \/ Interferes \/ (\E c \in Coroutine : Works(c))
  PROVE  Alone'
<1> USE DEF MemoryTypeOK, Goes
<1>1. ASSUME NEW c \in Coroutine, Works(c) PROVE Alone'
  BY <1>1 DEF Works, At, Truthful, Alone, Ended, NewItem, Item, OfRun, Past
<1>2. ASSUME NEW c \in Coroutine, Finishes(c) PROVE Alone'
  BY <1>2 DEF Finishes, At, Truthful, Alone, Ended, NewItem, Item, OfRun, Past
<1>3. ASSUME NEW c \in Coroutine, Returns(c) PROVE Alone'
  BY <1>3 DEF Returns, At, Truthful, Alone, Ended, NewItem, Item, OfRun, Past
<1>4. ASSUME NEW c \in Coroutine, Look(c) PROVE Alone'
  BY <1>4 DEF Look, At, Truthful, Alone, Ended, NewItem, Item, OfRun, Past, Unremembered
<1>5. ASSUME NEW c \in Coroutine, CaptureFails(c) PROVE Alone'
  BY <1>5 DEF CaptureFails, At, Truthful, Alone, Ended, NewItem, Item, OfRun, Past
<1>6. ASSUME NEW c \in Coroutine, Remember(c) PROVE Alone'
  <2>1. PICK o, d :
          /\ o.linked /\ o.kind = "outcome" /\ o.says = run
          /\ d.linked /\ d.kind = "decision"
          /\ memory' = memory \cup (IF run = "completed" THEN {o, d} ELSE {o})
    BY <1>6, Remembered
  <2>2. /\ run \in Ended /\ UNCHANGED <<run, connected, past>> /\ connected
        /\ At({"capturing"})' = At({"capturing"}) \ {c} /\ c \in At({"capturing"})
    BY <1>6, Remembered
  <2>3. OfRun("outcome")' = OfRun("outcome") \cup {o}
    BY <2>1 DEF OfRun
  <2>4. /\ OfRun("decision")' \subseteq OfRun("decision") \cup {d}
        /\ OfRun("decision")' # {} => OfRun("outcome")' # {}
    BY <2>1, <2>3 DEF OfRun
  <2> QED
    BY <2>2, <2>3, <2>4 DEF Alone
<1>7. ASSUME NEW c \in Coroutine, LookAgain(c) PROVE Alone'
  BY <1>7 DEF LookAgain, At, Truthful, Alone, Ended, NewItem, Item, OfRun, Past
<1>8. ASSUME NEW c \in Coroutine, Post(c) PROVE Alone'
  BY <1>8 DEF Post, At, Truthful, Alone, Ended, NewItem, Item, OfRun, Past
<1>9. ASSUME NEW c \in Coroutine, Record(c) PROVE Alone'
  BY <1>9 DEF Record, At, Truthful, Alone, Ended, NewItem, Item, OfRun, Past
<1>10. ASSUME Reject PROVE Alone'
  BY <1>10 DEF Reject, At, Truthful, Alone, Ended, NewItem, Item, OfRun, Past
<1>11. ASSUME WriteItem PROVE Alone'
  BY <1>11 DEF WriteItem, At, Truthful, Alone, Ended, NewItem, Item, OfRun, Past
<1>12. ASSUME DeleteItem PROVE Alone'
  BY <1>12 DEF DeleteItem, At, Truthful, Alone, Ended, NewItem, Item, OfRun, Past
<1>13. ASSUME DeleteRun PROVE Alone'
  BY <1>13 DEF DeleteRun, At, Truthful, Alone, Ended, NewItem, Item, OfRun, Past
<1>14. ASSUME Disconnect PROVE Alone'
  BY <1>14 DEF Disconnect, At, Truthful, Alone, Ended, NewItem, Item, OfRun, Past
<1>15. ASSUME SetSlack PROVE Alone'
  BY <1>15 DEF SetSlack, At, Truthful, Alone, Ended, NewItem, Item, OfRun, Past
<1>16. ASSUME EngineRestarts PROVE Alone'
  BY <1>16 DEF EngineRestarts, At, Truthful, Alone, Ended, NewItem, Item, OfRun, Past
<1>17. ASSUME NEW c \in Coroutine, NotifyFails(c) PROVE Alone'
  BY <1>17 DEF NotifyFails, At, Truthful, Alone, Ended, NewItem, Item, OfRun, Past
<1> QED
  BY <1>1, <1>2, <1>3, <1>4, <1>5, <1>6, <1>7, <1>8, <1>9,
     <1>10, <1>11, <1>12, <1>13, <1>14, <1>15, <1>16, <1>17
     DEF JobStep, Interferes

(* Until a telling is cut short, an end is told or still to be told. *)
LEMMA NotUntoldStep ==
  ASSUME MemoryTypeOK, NotUntold, JobStep \/ Interferes \/ (\E c \in Coroutine : Works(c))
  PROVE  NotUntold'
<1> USE DEF MemoryTypeOK, Goes
<1>1. ASSUME NEW c \in Coroutine, Works(c) PROVE NotUntold'
  BY <1>1 DEF Works, At, NotUntold, Ended, Past, Phase
<1>2. ASSUME NEW c \in Coroutine, Finishes(c) PROVE NotUntold'
  BY <1>2 DEF Finishes, At, NotUntold, Ended, Past, Phase
<1>3. ASSUME NEW c \in Coroutine, Returns(c) PROVE NotUntold'
  BY <1>3 DEF Returns, At, NotUntold, Ended, Past, Phase
<1>4. ASSUME NEW c \in Coroutine, Look(c) PROVE NotUntold'
  BY <1>4 DEF Look, At, NotUntold, Ended, Past, Phase, Unremembered
<1>5. ASSUME NEW c \in Coroutine, CaptureFails(c) PROVE NotUntold'
  BY <1>5 DEF CaptureFails, At, NotUntold, Ended, Past, Phase
<1>6. ASSUME NEW c \in Coroutine, Remember(c) PROVE NotUntold'
  BY <1>6 DEF Remember, At, NotUntold, Ended, Past, Phase
<1>7. ASSUME NEW c \in Coroutine, LookAgain(c) PROVE NotUntold'
  BY <1>7 DEF LookAgain, At, NotUntold, Ended, Past, Phase
<1>8. ASSUME NEW c \in Coroutine, Post(c) PROVE NotUntold'
  BY <1>8 DEF Post, At, NotUntold, Ended, Past, Phase
<1>9. ASSUME NEW c \in Coroutine, Record(c) PROVE NotUntold'
  BY <1>9 DEF Record, At, NotUntold, Ended, Past, Phase
<1>10. ASSUME Reject PROVE NotUntold'
  BY <1>10 DEF Reject, At, NotUntold, Ended, Past, Phase
<1>11. ASSUME WriteItem PROVE NotUntold'
  BY <1>11 DEF WriteItem, At, NotUntold, Ended, Past, Phase
<1>12. ASSUME DeleteItem PROVE NotUntold'
  BY <1>12 DEF DeleteItem, At, NotUntold, Ended, Past, Phase
<1>13. ASSUME DeleteRun PROVE NotUntold'
  BY <1>13 DEF DeleteRun, At, NotUntold, Ended, Past, Phase
<1>14. ASSUME Disconnect PROVE NotUntold'
  BY <1>14 DEF Disconnect, At, NotUntold, Ended, Past, Phase
<1>15. ASSUME SetSlack PROVE NotUntold'
  BY <1>15 DEF SetSlack, At, NotUntold, Ended, Past, Phase
<1>16. ASSUME EngineRestarts PROVE NotUntold'
  BY <1>16 DEF EngineRestarts, At, NotUntold, Ended, Past, Phase
<1>17. ASSUME NEW c \in Coroutine, NotifyFails(c) PROVE NotUntold'
  BY <1>17 DEF NotifyFails, At, NotUntold, Ended, Past, Phase
<1> QED
  BY <1>1, <1>2, <1>3, <1>4, <1>5, <1>6, <1>7, <1>8, <1>9,
     <1>10, <1>11, <1>12, <1>13, <1>14, <1>15, <1>16, <1>17
     DEF JobStep, Interferes

(* Nobody who was not at one of these places is. *)
LEMMA Empties ==
  ASSUME NEW P, \A c \in Coroutine : job'[c] \notin P
  PROVE  Cardinality(At(P)') = 0
<1>1. At(P)' = {}
  BY DEF At
<1> QED
  BY <1>1, FS_EmptySet

(* Messages and notices are paid for by visits: a coroutine posts and      *)
(* records once on its way (notify.py).                                    *)
LEMMA CountedStep ==
  ASSUME MemoryTypeOK, MemoryTypeOK', Counted, JobStep \/ Interferes \/ (\E c \in Coroutine : Works(c))
  PROVE  Counted'
<1> DEFINE P == {"posting"}
           Q == {"posting", "recording"}
           R == {"posting", "recording", "done"}
<1>1. /\ messages \in Nat /\ notices \in Nat /\ past.visits \in Nat
      /\ messages' \in Nat /\ notices' \in Nat /\ past'.visits \in Nat
  BY DEF MemoryTypeOK, Past
<1>2. /\ messages + Cardinality(At(P)) <= past.visits
      /\ notices + Cardinality(At(Q)) <= past.visits
      /\ past.visits <= Cardinality(At(R))
  BY DEF Counted
<1>3. \A S : IsFiniteSet(At(S)) /\ Cardinality(At(S)) \in Nat
  BY MemoryAssumption, FS_Subset, FS_CardinalityType DEF At
<1>4. ASSUME NEW c \in Coroutine, NEW p \in Phase, Goes(c, p),
             job[c] \notin R, p \notin Q, UNCHANGED <<messages, notices>>, past'.visits = past.visits
      PROVE  Counted'
  <2>1. /\ Cardinality(At(P)') = Cardinality(At(P)) /\ Cardinality(At(Q)') = Cardinality(At(Q))
        /\ Cardinality(At(R)') >= Cardinality(At(R))
    BY <1>3, <1>4, Moved
  <2> QED
    BY <1>1, <1>2, <1>3, <1>4, <2>1, Moved DEF Counted
<1>5. ASSUME NEW c \in Coroutine, LookAgain(c) PROVE Counted'
  <2>1. job[c] = "captured" /\ UNCHANGED <<messages, notices>>
    BY <1>5 DEF LookAgain
  <2>2. CASE run \in Ended
    <3>1. past'.visits = past.visits + 1 /\ \E p \in {"posting", "done"} : Goes(c, p)
      BY <1>1, <1>5, <2>2 DEF LookAgain, MemoryTypeOK, Past
    <3>2. PICK p \in {"posting", "done"} : Goes(c, p)
      BY <3>1
    <3>3. /\ Cardinality(At(P)') \in Nat /\ Cardinality(At(P)') <= Cardinality(At(P)) + 1
          /\ Cardinality(At(Q)') \in Nat /\ Cardinality(At(Q)') <= Cardinality(At(Q)) + 1
          /\ Cardinality(At(R)') \in Nat /\ Cardinality(At(R)') = Cardinality(At(R)) + 1
      BY <1>3, <2>1, <3>2, Moved
    <3> QED
      BY <1>1, <1>2, <1>3, <2>1, <3>1, <3>3 DEF Counted
  <2>3. CASE run \notin Ended
    <3>1. past'.visits = past.visits /\ Goes(c, "done")
      BY <1>1, <1>5, <2>3 DEF LookAgain, MemoryTypeOK, Past
    <3> QED
      BY <1>4, <2>1, <3>1 DEF Phase
  <2> QED
    BY <2>2, <2>3
<1>6. ASSUME NEW c \in Coroutine, Post(c) PROVE Counted'
  <2>1. /\ job[c] = "posting" /\ Goes(c, "recording") /\ UNCHANGED <<notices, past>>
        /\ messages' \in {messages, messages + 1}
    BY <1>6 DEF Post
  <2>2. /\ Cardinality(At(P)') \in Nat /\ Cardinality(At(P)') = Cardinality(At(P)) - 1
        /\ Cardinality(At(Q)') \in Nat /\ Cardinality(At(Q)') = Cardinality(At(Q))
        /\ Cardinality(At(R)') \in Nat /\ Cardinality(At(R)') = Cardinality(At(R))
    BY <1>3, <2>1, Moved
  <2> QED
    BY <1>1, <1>2, <1>3, <2>1, <2>2 DEF Counted
<1>7. ASSUME NEW c \in Coroutine, Record(c) PROVE Counted'
  <2>1. /\ job[c] = "recording" /\ Goes(c, "done") /\ UNCHANGED <<messages, past>>
        /\ notices' \in {notices, notices + 1}
    BY <1>1, <1>7 DEF Record
  <2>2. /\ Cardinality(At(P)') \in Nat /\ Cardinality(At(P)') = Cardinality(At(P))
        /\ Cardinality(At(Q)') \in Nat /\ Cardinality(At(Q)') = Cardinality(At(Q)) - 1
        /\ Cardinality(At(R)') \in Nat /\ Cardinality(At(R)') = Cardinality(At(R))
    BY <1>3, <2>1, Moved
  <2> QED
    BY <1>1, <1>2, <1>3, <2>1, <2>2 DEF Counted
<1>8. CASE EngineRestarts
  <2>1. /\ \A c \in Coroutine : job'[c] \notin P /\ job'[c] \notin Q
        /\ UNCHANGED <<messages, notices>> /\ past'.visits = past.visits
    BY <1>8 DEF EngineRestarts, MemoryTypeOK, Past
  <2>2. Cardinality(At(P)') = 0 /\ Cardinality(At(Q)') = 0
    BY <2>1, Empties
  <2>3. At(R) \subseteq At(R)' /\ IsFiniteSet(At(R)')
    <3>1. At(R) \subseteq At(R)'
      BY <1>8 DEF EngineRestarts, MemoryTypeOK, At
    <3>2. IsFiniteSet(At(R)')
      BY MemoryAssumption, FS_Subset DEF At
    <3> QED
      BY <3>1, <3>2
  <2>4. Cardinality(At(R)') \in Nat /\ Cardinality(At(R)) <= Cardinality(At(R)')
    BY <2>3, FS_Subset, FS_CardinalityType
  <2> QED
    BY <1>1, <1>2, <1>3, <2>1, <2>2, <2>4 DEF Counted
<1>9. CASE UNCHANGED <<job, messages, notices>> /\ past'.visits = past.visits
  BY <1>1, <1>2, <1>9 DEF Counted, At
<1>10. ASSUME NEW c \in Coroutine,
              Works(c) \/ Finishes(c) \/ Returns(c) \/ Look(c) \/ CaptureFails(c) \/ Remember(c)
       PROVE  Counted'
  <2>1. /\ job[c] \in {"idle", "working", "returned", "capturing"} /\ UNCHANGED <<messages, notices>>
        /\ past'.visits = past.visits
    BY <1>10 DEF Works, Finishes, Returns, Look, CaptureFails, Remember, MemoryTypeOK, Past
  <2>2. \E p \in {"working", "returned", "capturing", "captured"} : Goes(c, p)
    BY <1>10 DEF Works, Finishes, Returns, Look, CaptureFails, Remember
  <2> QED
    BY <1>4, <2>1, <2>2 DEF Phase
<1>11. ASSUME Reject \/ WriteItem \/ DeleteItem \/ DeleteRun \/ Disconnect \/ SetSlack PROVE Counted'
  <2>1. UNCHANGED <<job, messages, notices>>
    BY <1>11 DEF Reject, WriteItem, DeleteItem, DeleteRun, Disconnect, SetSlack
  <2>2. past'.visits = past.visits
    <3>1. past \in Past
      BY DEF MemoryTypeOK
    <3> QED
      BY <1>11, <3>1 DEF Reject, WriteItem, DeleteItem, DeleteRun, Disconnect, SetSlack, Past
  <2> QED
    BY <1>9, <2>1, <2>2
<1>14. ASSUME NEW c \in Coroutine, NotifyFails(c) PROVE Counted'
  <2>1. /\ job[c] \in {"captured", "posting", "recording"} /\ Goes(c, "done")
        /\ UNCHANGED <<messages, notices>>
    BY <1>14 DEF NotifyFails
  <2>2. past'.visits = past.visits
    BY <1>14 DEF NotifyFails, MemoryTypeOK, Past
  <2>3. /\ Cardinality(At(P)') \in Nat /\ Cardinality(At(P)') <= Cardinality(At(P))
        /\ Cardinality(At(Q)') \in Nat /\ Cardinality(At(Q)') <= Cardinality(At(Q))
        /\ Cardinality(At(R)') \in Nat /\ Cardinality(At(R)') >= Cardinality(At(R))
    BY <1>3, <2>1, Moved
  <2> QED
    BY <1>1, <1>2, <1>3, <2>1, <2>2, <2>3 DEF Counted
<1>12. CASE JobStep
  BY <1>5, <1>6, <1>7, <1>10, <1>12, <1>14 DEF JobStep
<1>13. CASE Interferes
  BY <1>8, <1>11, <1>13 DEF Interferes
<1> QED
  BY <1>10, <1>12, <1>13

(* Every step of the system keeps what the memory promises. *)
LEMMA MemoryStep == MemoryInv /\ [AssistantNext]_assistantVars => MemoryInv'
<1> SUFFICES ASSUME MemoryInv, [AssistantNext]_assistantVars PROVE MemoryInv'
  OBVIOUS
<1>1. CASE UNCHANGED memoryVars
  <2>1. MemoryTypeOK' /\ Truthful' /\ NotLost' /\ Alone'
    BY <1>1 DEF memoryVars, MemoryInv, MemoryTypeOK, Truthful, NotLost, Alone, At, OfRun
  <2>2. Counted' /\ NotUntold'
    BY <1>1 DEF memoryVars, MemoryInv, Counted, NotUntold, At
  <2> QED
    BY <2>1, <2>2 DEF MemoryInv
<1>2. CASE JobStep \/ Interferes \/ \E c \in Coroutine : Works(c)
  <2>1. MemoryTypeOK'
    BY <1>2, Types DEF MemoryInv
  <2>2. Truthful' /\ NotLost' /\ Alone' /\ NotUntold'
    BY <1>2, TruthfulStep, NotLostStep, AloneStep, NotUntoldStep DEF MemoryInv
  <2>3. Counted'
    BY <1>2, <2>1, CountedStep DEF MemoryInv
  <2> QED
    BY <2>1, <2>2, <2>3 DEF MemoryInv
<1> QED
  BY <1>1, <1>2 DEF AssistantNext, Captures, Interruption, Answers, Asks, Reads, assistantVars

(* What a run leaves behind agrees with its end, is lost or doubled only   *)
(* through an interruption or an overlap that is on record, and is told at *)
(* most once for each coroutine (capture.py, notify.py).                   *)
THEOREM Memories == AssistantSpec => []MemoryInv
<1>1. MemoryInit => MemoryInv
  <2> SUFFICES ASSUME MemoryInit PROVE MemoryInv
    OBVIOUS
  <2>1. MemoryTypeOK
    BY MemoryAssumption DEF MemoryInit, MemoryTypeOK, Phase, RunStatus, Past
  <2>2. \A P : "idle" \notin P => At(P) = {}
    BY DEF MemoryInit, At
  <2>3. Truthful /\ NotLost /\ Alone /\ NotUntold
    BY <2>2 DEF MemoryInit, Truthful, NotLost, Alone, NotUntold, OfRun, Ended
  <2>4. Counted
    BY <2>2, FS_EmptySet DEF MemoryInit, Counted
  <2> QED
    BY <2>1, <2>3, <2>4 DEF MemoryInv
<1> QED
  BY <1>1, MemoryStep, PTL DEF AssistantSpec, AssistantInit

(* What is recalled is all there is or as many as the limit. *)
LEMMA RecallsBest ==
  ASSUME MemoryTypeOK, NEW S \in Recalls(memory)
  PROVE  S \subseteq 1 .. MaxItems /\ (S = Ids \/ Cardinality(S) = RecallLimit)
<1>1. Ids \subseteq 1 .. MaxItems
  BY Items DEF MemoryTypeOK, Ids
<1>0. IsFiniteSet(1 .. MaxItems)
  <2>1. 1 \in Int /\ MaxItems \in Int
    BY MemoryAssumption
  <2> QED
    BY <2>1, FS_Interval
<1>2. IsFiniteSet(Ids)
  BY <1>0, <1>1, FS_Subset
<1>3. S \subseteq Ids /\ (Cardinality(S) = Cardinality(Ids) \/ Cardinality(S) = RecallLimit)
  BY DEF Recalls, Ids
<1> QED
  BY <1>1, <1>2, <1>3, FS_Subset

(* A memory disappears only when it is removed or its repository is        *)
(* disconnected; deleting the run leaves it (api/runs.py, delete_run).     *)
LEMMA NothingVanishes ==
  ASSUME MemoryTypeOK, MemoryTypeOK',
         JobStep \/ Interferes \/ (\E c \in Coroutine : Works(c)) \/ UNCHANGED memoryVars
  PROVE  past.forgotten \subseteq past'.forgotten /\ Ids \subseteq Ids' \cup past'.forgotten
<1> USE DEF MemoryTypeOK
<1>1. CASE UNCHANGED past /\ memory \subseteq memory'
  BY <1>1 DEF Ids
<1>2. CASE past'.forgotten = past.forgotten /\ UNCHANGED memory
  BY <1>2 DEF Ids
<1>3. CASE DeleteItem
  BY <1>3 DEF DeleteItem, Ids, Past
<1>4. CASE Disconnect
  BY <1>4 DEF Disconnect, Ids, Past
<1>5. CASE DeleteRun
  <2>1. \A m \in memory : [m EXCEPT !.linked = FALSE].id = m.id
    BY DEF Item
  <2> QED
    BY <1>5, <2>1 DEF DeleteRun, Ids
<1>6. CASE SetSlack \/ EngineRestarts
  BY <1>2, <1>6 DEF SetSlack, EngineRestarts, Past
<1>7. CASE Reject \/ WriteItem
  BY <1>1, <1>7 DEF Reject, WriteItem
<1>8. ASSUME NEW c \in Coroutine, Look(c) \/ CaptureFails(c) \/ LookAgain(c) \/ NotifyFails(c)
      PROVE  past.forgotten \subseteq past'.forgotten /\ Ids \subseteq Ids' \cup past'.forgotten
  BY <1>2, <1>8 DEF Look, CaptureFails, LookAgain, NotifyFails, Past
<1>9. ASSUME NEW c \in Coroutine,
             Works(c) \/ Finishes(c) \/ Returns(c) \/ Remember(c) \/ Post(c) \/ Record(c)
      PROVE  past.forgotten \subseteq past'.forgotten /\ Ids \subseteq Ids' \cup past'.forgotten
  BY <1>1, <1>9 DEF Works, Finishes, Returns, Remember, Post, Record
<1>10. CASE UNCHANGED memoryVars
  BY <1>1, <1>10 DEF memoryVars
<1> QED
  BY <1>3, <1>4, <1>5, <1>6, <1>7, <1>8, <1>9, <1>10 DEF JobStep, Interferes

(* Only Reads gives a request something to send. *)
LEMMA SendsAsBefore ==
  ASSUME ChatTypeOK, NEW r \in Request,
         RequestStep \/ DeleteConversation \/ (\E q \in Request : Begin(q)) \/ UNCHANGED chatVars
  PROVE  Sent(r)' = Sent(r)
<1> USE DEF ChatTypeOK, Asked, Sent
<1>1. CASE DeleteConversation \/ UNCHANGED chatVars
  BY <1>1 DEF DeleteConversation, chatVars
<1>2. ASSUME NEW q \in Request, Begin(q) PROVE Sent(r)' = Sent(r)
  BY <1>2 DEF Begin, Moves
<1>3. ASSUME NEW q \in Request, Abandon(q) PROVE Sent(r)' = Sent(r)
  BY <1>3 DEF Abandon, Moves
<1>4. ASSUME NEW q \in Request, Commit(q) PROVE Sent(r)' = Sent(r)
  BY <1>4 DEF Commit, Moves
<1>5. ASSUME NEW q \in Request, RateLimited(q) PROVE Sent(r)' = Sent(r)
  <2>1. CASE request[q].limited < RateLimitRetries
    <3>1. request' = [request EXCEPT ![q].limited = @ + 1]
      BY <1>5, <2>1 DEF RateLimited
    <3> QED
      BY <3>1
  <2>2. CASE ~(request[q].limited < RateLimitRetries)
    <3>1. Moves(q, "failed")
      BY <1>5, <2>2 DEF RateLimited
    <3> QED
      BY <3>1 DEF Moves
  <2> QED
    BY <2>1, <2>2
<1>6. ASSUME NEW q \in Request, Transient(q) PROVE Sent(r)' = Sent(r)
  <2>1. CASE request[q].flaky < TransientRetries
    <3>1. request' = [request EXCEPT ![q].flaky = @ + 1]
      BY <1>6, <2>1 DEF Transient
    <3> QED
      BY <3>1
  <2>2. CASE ~(request[q].flaky < TransientRetries)
    <3>1. Moves(q, "failed")
      BY <1>6, <2>2 DEF Transient
    <3> QED
      BY <3>1 DEF Moves
  <2> QED
    BY <2>1, <2>2
<1>7. ASSUME NEW q \in Request, Open(q) PROVE Sent(r)' = Sent(r)
  <2> DEFINE Opened(n) == [request[q] EXCEPT !.phase = "streaming", !.full = n,
                                             !.limited = 0, !.flaky = 0]
  <2>1. PICK n : request' = [request EXCEPT ![q] = Opened(n)]
    BY <1>7 DEF Open
  <2>2. Opened(n).history = request[q].history
    OBVIOUS
  <2>3. request \in [Request -> Asked]
    OBVIOUS
  <2> HIDE DEF Opened
  <2> QED
    BY <2>1, <2>2, <2>3
<1>8. ASSUME NEW q \in Request, Token(q) PROVE Sent(r)' = Sent(r)
  BY <1>8 DEF Token, Moves
<1>9. ASSUME NEW q \in Request, Break(q) PROVE Sent(r)' = Sent(r)
  BY <1>9 DEF Break, Moves
<1>10. ASSUME NEW q \in Request, Leave(q) PROVE Sent(r)' = Sent(r)
  BY <1>10 DEF Leave, Moves
<1>11. ASSUME NEW q \in Request, Finish(q) PROVE Sent(r)' = Sent(r)
  BY <1>11 DEF Finish, Moves
<1>12. ASSUME NEW q \in Request, Store(q) PROVE Sent(r)' = Sent(r)
  <2>1. \E phase \in {"done", "failed"} : Moves(q, phase)
    BY <1>12 DEF Store
  <2> QED
    BY <2>1 DEF Moves
<1> QED
  BY <1>1, <1>2, <1>3, <1>4, <1>5, <1>6, <1>7, <1>8, <1>9, <1>10, <1>11, <1>12 DEF RequestStep

(* What was remembered when a question was asked stays until it is         *)
(* removed, and reaches the answer unless the limit is full (recall.py).   *)
THEOREM Recollection == AssistantSpec => []RecallInv
<1>1. AssistantInit => RecallInv
  BY DEF AssistantInit, ChatInit, NewRequest, RecallInv, Informed, Sent
<1>2. MemoryInv /\ MemoryInv' /\ ChatInv /\ RecallInv /\ [AssistantNext]_assistantVars => RecallInv'
  <2> SUFFICES ASSUME MemoryInv, MemoryInv', ChatInv, RecallInv, [AssistantNext]_assistantVars PROVE RecallInv'
    OBVIOUS
  <2>1. MemoryTypeOK /\ MemoryTypeOK' /\ ChatTypeOK
    BY DEF MemoryInv, ChatInv
  <2>2. ASSUME UNCHANGED <<recalled, known>>,
               JobStep \/ Interferes \/ (\E c \in Coroutine : Works(c)) \/ UNCHANGED memoryVars,
               \A r \in Request : Sent(r)' = Sent(r)
        PROVE  RecallInv'
    BY <2>1, <2>2, NothingVanishes DEF RecallInv, Informed
  <2>3. ASSUME NEW r \in Request, Asks(r) PROVE RecallInv'
    <3>1. UNCHANGED <<memory, past, recalled>> /\ known' = [known EXCEPT ![r] = Ids]
      BY <2>3 DEF Asks, memoryVars, Ids
    <3>2. \A q \in Request : Sent(q)' = Sent(q)
      BY <2>1, <2>3, SendsAsBefore DEF Asks
    <3>3. Sent(r) = <<>>
      BY <2>3 DEF Asks, Begin, Is, ChatInv, Progress, Sent
    <3>4. Ids \subseteq 1 .. MaxItems
      BY <2>1, Items DEF MemoryTypeOK, Ids
    <3>5. Ids' = Ids
      BY <3>1 DEF Ids
    <3> QED
      BY <3>1, <3>2, <3>3, <3>4, <3>5 DEF RecallInv, Informed
  <2>4. ASSUME NEW r \in Request, Reads(r) PROVE RecallInv'
    <3>1. PICK S \in Recalls(memory) : recalled' = [recalled EXCEPT ![r] = S]
      BY <2>4 DEF Reads
    <3>2. S \subseteq 1 .. MaxItems /\ (S = Ids \/ Cardinality(S) = RecallLimit)
      BY <2>1, RecallsBest
    <3>3. UNCHANGED <<memory, past, known>> /\ Ids' = Ids
      BY <2>4 DEF Reads, memoryVars, Ids
    <3>4. \A q \in Request \ {r} : Sent(q)' = Sent(q)
      BY <2>1, <2>4 DEF Reads, Gather, Sent, ChatTypeOK
    <3> QED
      BY <3>1, <3>2, <3>3, <3>4 DEF RecallInv, Informed
  <2>5. CASE Captures
    BY <2>1, <2>2, <2>5, SendsAsBefore DEF Captures
  <2>6. CASE Interruption
    BY <2>1, <2>2, <2>6, SendsAsBefore DEF Interruption
  <2>7. CASE Answers
    BY <2>1, <2>2, <2>7, SendsAsBefore DEF Answers
  <2>8. CASE UNCHANGED assistantVars
    BY <2>1, <2>2, <2>8, SendsAsBefore DEF assistantVars
  <2> QED
    BY <2>3, <2>4, <2>5, <2>6, <2>7, <2>8 DEF AssistantNext
<1> QED
  BY <1>1, <1>2, Memories, Conversations, PTL DEF AssistantSpec

(* A set whose elements are all the same has one at most. *)
LEMMA AtMostOne ==
  ASSUME NEW S, \A x, y \in S : x = y
  PROVE  Cardinality(S) <= 1
<1>1. CASE S = {}
  BY <1>1, FS_EmptySet
<1>2. CASE S # {}
  <2>1. PICK x \in S : S = {x}
    BY <1>2
  <2> QED
    BY <2>1, FS_Singleton
<1> QED
  BY <1>1, <1>2

(* What a run leaves behind is kept once, told, and found again by the     *)
(* questions asked later (capture.py, notify.py, recall.py).               *)
THEOREM OutcomesAreKept == AssistantSpec => []OutcomeIsKept
<1>1. MemoryInv => RememberedOnce
  <2> SUFFICES ASSUME MemoryInv PROVE RememberedOnce
    OBVIOUS
  <2>1. Settled /\ ~past.lost =>
          /\ \E m \in OfRun("outcome") : m.says = run
          /\ (OfRun("decision") # {}) <=> (run = "completed")
    <3> SUFFICES ASSUME Settled, ~past.lost
                 PROVE  /\ \E m \in OfRun("outcome") : m.says = run
                        /\ (OfRun("decision") # {}) <=> (run = "completed")
      OBVIOUS
    <3>1. run \in Ended /\ At({"returned", "capturing"}) = {}
      BY DEF Settled, At
    <3>2. OfRun("outcome") # {}
      BY <3>1 DEF MemoryInv, NotLost
    <3>3. \A m \in OfRun("outcome") : m.says = run
      BY DEF MemoryInv, Truthful, OfRun
    <3>4. OfRun("decision") # {} => run = "completed"
      BY DEF MemoryInv, Truthful, OfRun
    <3>5. run = "completed" => OfRun("decision") # {}
      BY <3>2 DEF MemoryInv, NotLost
    <3> QED
      BY <3>2, <3>3, <3>4, <3>5
  <2>2. ~past.overlapped =>
          /\ Cardinality(OfRun("outcome")) <= 1
          /\ past.forgotten = {} => Cardinality(OfRun("decision")) <= 1
    BY AtMostOne DEF MemoryInv, Alone
  <2>3. run = "cancelled" => OfRun("outcome") = {}
    BY DEF MemoryInv, Truthful, OfRun, Ended
  <2> QED
    BY <2>1, <2>2, <2>3 DEF RememberedOnce
<1>2. MemoryInv => Told
  <2> SUFFICES ASSUME MemoryInv PROVE Told
    OBVIOUS
  <2>1. /\ messages \in Nat /\ notices \in Nat /\ past.visits \in Nat
        /\ \A P : Cardinality(At(P)) \in Nat
    BY MemoryAssumption, FS_Subset, FS_CardinalityType DEF MemoryInv, MemoryTypeOK, Past, At
  <2>2. messages <= past.visits /\ notices <= past.visits
    BY <2>1 DEF MemoryInv, Counted
  <2>3. ASSUME Settled, ~past.untold
        PROVE  (slack => notices \in 1 .. past.visits) /\ (~slack => notices = 0)
    <3>1. run \in Ended /\ At({"returned", "capturing", "captured", "posting", "recording"}) = {}
      BY <2>3 DEF Settled, At
    <3>2. (slack => notices > 0) /\ (~slack => notices = 0)
      BY <2>3, <3>1 DEF MemoryInv, NotUntold
    <3> QED
      BY <2>1, <2>2, <3>2
  <2> QED
    BY <2>2, <2>3 DEF Told
<1>3. RecallInv => Informed
  BY DEF RecallInv
<1> QED
  BY <1>1, <1>2, <1>3, Memories, Recollection, PTL DEF OutcomeIsKept

(* The memory and the conversations have their types. *)
THEOREM AssistantTypeCorrect == AssistantSpec => []AssistantTypeOK
<1>1. MemoryInv /\ ChatInv => AssistantTypeOK
  BY DEF MemoryInv, ChatInv, AssistantTypeOK
<1> QED
  BY <1>1, Memories, Conversations, PTL
=============================================================================
