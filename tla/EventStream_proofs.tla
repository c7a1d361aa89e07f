------------------------- MODULE EventStream_proofs -------------------------
(***************************************************************************)
(* Proofs about the timeline: order, and what can be missed.               *)
(*                                                                         *)
(* Both cursors, the stream's and the page's, are zero or the id of a      *)
(* committed event, so an event that is committed below a cursor is        *)
(* overtaken.  Whatever else lies between the page's cursor and the        *)
(* stream's is on its way, because a batch is an initial segment of what   *)
(* lies past a cursor.                                                     *)
(***************************************************************************)
EXTENDS EventStream, FiniteSetTheorems, WellFoundedInduction, TLAPS

(* Ids are taken once. *)
IdsAreUnique ==
  /\ \A e \in committed : e <= last
  /\ \A w \in Writer : \A e \in open[w] : e <= last /\ e \notin committed
  /\ \A v, w \in Writer : v # w => open[v] \cap open[w] = {}

AtEvent(c) == c = 0 \/ c \in committed

(* All that was not overtaken and lies past c, up to some e of S, is in S. *)
NoGap(S, c) == \A e \in committed \ overtaken : \A f \in S : c < e /\ e <= f => e \in S

PageInv ==
  /\ AtEvent(cursor) /\ OnlyOvertakenAreMissed
  /\ \A e \in Shown : e <= cursor

StreamInv ==
  /\ AtEvent(server.cursor)
  /\ \A e \in sent : e \in committed /\ e <= server.cursor
  /\ page = "streaming" =>
       \A e \in committed \ overtaken : cursor < e /\ e <= server.cursor => e \in sent
  /\ page # "streaming" => server.at = "closed" /\ sent = {} /\ ~ending
  /\ server.ended => ended \/ deleted
  /\ ending => /\ ended \/ deleted
               /\ server.at = "closed"
               /\ ~deleted => \A e \in final : e <= server.cursor

PollInv ==
  /\ poll # Idle => page = "polling"
  /\ poll.events # "answered" => poll.rows = {}
  /\ \A e \in poll.rows : e \in committed /\ cursor < e
  /\ NoGap(poll.rows, cursor)

IInv == TypeOK /\ IdsAreUnique /\ PageInv /\ StreamInv /\ PollInv

-----------------------------------------------------------------------------
LEMMA IdIsFinite == Id \in SUBSET Nat /\ IsFiniteSet(Id) /\ Id \subseteq 0 .. MaxEvents
<1>1. MaxEvents \in Nat
    BY StreamAssumption
<1>2. IsFiniteSet(1 .. MaxEvents)
    BY <1>1, FS_Interval
<1> QED
    BY <1>1, <1>2 DEF Id

(* A non-empty set of ids has a smallest and a greatest member. *)
LEMMA Smallest ==
  ASSUME NEW S \in SUBSET Nat, S # {}
  PROVE  \E m \in S : \A f \in S : m <= f
<1> DEFINE R == OpToRel(<, Nat)
<1>1. PICK m \in S : \A f \in S : <<f, m>> \notin R
    <2> HIDE DEF R
    <2> QED
        BY NatLessThanWellFounded, WFMin DEF R
<1>2. \A f \in S : ~(f < m)
    BY <1>1 DEF OpToRel
<1> QED
    BY <1>2

LEMMA Greatest ==
  ASSUME NEW S \in SUBSET Id, S # {}
  PROVE  \E m \in S : \A f \in S : f <= m
<1> DEFINE Bounds == {n \in Nat : \A f \in S : f <= n}
<1>1. Bounds \in SUBSET Nat /\ MaxEvents \in Bounds
    BY StreamAssumption DEF Id
<1>2. PICK n \in Bounds : \A m \in Bounds : n <= m
    BY <1>1, Smallest
<1>3. n \in S
    <2> SUFFICES ASSUME n \notin S PROVE FALSE
        OBVIOUS
    <2>1. \A f \in S : f \in Nat /\ f >= 1 /\ f <= n /\ f # n
        BY <1>2, StreamAssumption DEF Id
    <2>2. n \in Nat /\ n - 1 \in Nat
        BY <1>2, <2>1
    <2>3. n - 1 \in Bounds
        BY <2>1, <2>2
    <2> QED
        BY <1>2, <2>2, <2>3
<1> QED
    BY <1>2, <1>3

(* What Top returns. *)
LEMMA TopIs ==
  ASSUME NEW S \in SUBSET Id, NEW c \in 0 .. MaxEvents
  PROVE  /\ S = {} => Top(S, c) = c
         /\ S # {} => Top(S, c) \in S /\ \A f \in S : f <= Top(S, c)
         /\ Top(S, c) \in 0 .. MaxEvents
<1>1. S # {} => \E m \in S : \A f \in S : f <= m
    BY Greatest
<1>2. S # {} => Top(S, c) \in S /\ \A f \in S : f <= Top(S, c)
    BY <1>1 DEF Top
<1>3. S = {} => Top(S, c) = c
    BY DEF Top
<1>4. Top(S, c) \in 0 .. MaxEvents
    <2>1. CASE S = {}
        BY <1>3, <2>1
    <2>2. CASE S # {}
        <3>1. Top(S, c) \in Id
            BY <1>2, <2>2
        <3> QED
            BY <3>1, IdIsFinite
    <2> QED
        BY <2>1, <2>2
<1> QED
    BY <1>2, <1>3, <1>4

(* A batch is an initial segment of what lies past the cursor, and all of  *)
(* it unless the batch is full.                                            *)
LEMMA BatchIs ==
  ASSUME committed \in SUBSET Id, NEW c \in 0 .. MaxEvents
  PROVE  /\ Batch(c) \subseteq Past(c)
         /\ \A e \in Past(c), b \in Batch(c) : e <= b => e \in Batch(c)
         /\ Cardinality(Batch(c)) < BatchSize => Batch(c) = Past(c)
<1> DEFINE UpTo(e) == {f \in Past(c) : f <= e}
<1> HIDE DEF UpTo
<1>1. Past(c) \in SUBSET Id /\ Past(c) \in SUBSET Nat
    <2>1. Past(c) \in SUBSET Id
        BY DEF Past
    <2>2. Id \in SUBSET Nat
        BY IdIsFinite
    <2> QED
        BY <2>1, <2>2
<1>2. IsFiniteSet(Past(c))
    BY <1>1, IdIsFinite, FS_Subset
<1>3. Batch(c) = {e \in Past(c) : Cardinality(UpTo(e)) <= BatchSize}
    BY DEF Batch, UpTo
<1>4. ASSUME NEW e \in Past(c), NEW b \in Batch(c), e <= b
      PROVE  e \in Batch(c)
    <2>1. UpTo(e) \in SUBSET UpTo(b) /\ UpTo(b) \in SUBSET Past(c)
        BY <1>1, <1>3, <1>4 DEF UpTo
    <2>2. IsFiniteSet(UpTo(b)) /\ IsFiniteSet(UpTo(e))
        BY <1>2, <2>1, FS_Subset
    <2>3. Cardinality(UpTo(e)) <= Cardinality(UpTo(b))
        BY <2>1, <2>2, FS_Subset
    <2>4. Cardinality(UpTo(e)) \in Nat /\ Cardinality(UpTo(b)) \in Nat
        BY <2>2, FS_CardinalityType
    <2>5. Cardinality(UpTo(b)) <= BatchSize
        BY <1>3, <1>4
    <2> QED
        BY <1>3, <2>3, <2>4, <2>5, StreamAssumption
<1>5. ASSUME Cardinality(Batch(c)) < BatchSize, Batch(c) # Past(c)
      PROVE  FALSE
    <2> DEFINE Left == Past(c) \ Batch(c)
    <2>1. Left \in SUBSET Nat /\ Left # {}
        BY <1>1, <1>3, <1>5
    <2>2. PICK e \in Left : \A f \in Left : e <= f
        BY <2>1, Smallest
    <2>3. UpTo(e) \ {e} \in SUBSET Batch(c)
        <3>1. ASSUME NEW f \in UpTo(e), f # e PROVE f \in Batch(c)
            <4>1. f \in Past(c) /\ f \in Nat /\ e \in Nat /\ f < e
                BY <1>1, <2>2, <3>1 DEF UpTo
            <4> QED
                BY <2>2, <4>1
        <3> QED
            BY <3>1
    <2>4. IsFiniteSet(Batch(c)) /\ Cardinality(Batch(c)) \in Nat
        BY <1>2, <1>3, FS_Subset, FS_CardinalityType
    <2>5. /\ IsFiniteSet(UpTo(e) \ {e})
          /\ Cardinality(UpTo(e) \ {e}) <= Cardinality(Batch(c))
        BY <2>3, <2>4, FS_Subset
    <2>6. UpTo(e) = (UpTo(e) \ {e}) \cup {e}
        <3>1. e \in UpTo(e)
            BY <1>1, <2>2 DEF UpTo
        <3> QED
            BY <3>1
    <2>7. Cardinality(UpTo(e)) = Cardinality(UpTo(e) \ {e}) + 1
        BY <2>5, <2>6, FS_AddElement
    <2>8. Cardinality(UpTo(e) \ {e}) \in Nat
        BY <2>5, FS_CardinalityType
    <2>9. Cardinality(UpTo(e)) <= BatchSize
        BY <1>5, <2>4, <2>5, <2>7, <2>8, StreamAssumption
    <2> QED
        BY <1>3, <2>2, <2>9
<1> QED
    BY <1>3, <1>4, <1>5

-----------------------------------------------------------------------------
LEMMA InitInv == Init => IInv
<1> SUFFICES ASSUME Init PROVE IInv
    OBVIOUS
<1>1. TypeOK
    <2>1. MaxEvents \in Nat /\ MaxDrops \in Nat
        BY StreamAssumption
    <2>2. open \in [Writer -> SUBSET Id] /\ times \in [Id -> Nat]
        BY DEF Init
    <2>3. 0 \in 0 .. MaxEvents /\ 0 \in 0 .. MaxDrops
        BY <2>1
    <2> QED
        BY <2>2, <2>3 DEF Init, TypeOK, Closed, Idle
<1>2. Shown = {}
    BY DEF Init, Shown
<1> QED
    BY <1>1, <1>2 DEF Init, IInv, IdsAreUnique, PageInv, StreamInv, PollInv, AtEvent, NoGap,
       OnlyOvertakenAreMissed, Closed, Idle

(* An inserted row gets an id that none has, and is not committed. *)
LEMMA EmitInv ==
  ASSUME IInv, NEW w \in Writer, Emit(w)
  PROVE  IInv'
<1> USE DEF IInv, Emit
<1>1. /\ last \in Nat /\ last' = last + 1 /\ last < MaxEvents /\ MaxEvents \in Nat
      /\ last + 1 \in Id /\ open \in [Writer -> SUBSET Id]
    BY StreamAssumption DEF TypeOK, Id
<1>2. \A v \in Writer : open'[v] = IF v = w THEN open[v] \cup {last + 1} ELSE open[v]
    BY <1>1
<1>3. TypeOK'
    <2>1. last' \in 0 .. MaxEvents
        BY <1>1
    <2>2. open' \in [Writer -> SUBSET Id]
        BY <1>1
    <2> QED
        BY <2>1, <2>2 DEF TypeOK, endpoint, browser
<1>4. IdsAreUnique'
    <2>1. \A e \in committed : e \in Nat /\ e <= last
        BY StreamAssumption DEF IdsAreUnique, TypeOK, Id
    <2>2. \A v \in Writer : \A e \in open[v] : e \in Nat /\ e <= last /\ e \notin committed
        BY <1>1, StreamAssumption DEF IdsAreUnique, Id
    <2>3. \A e \in committed' : e <= last'
        BY <1>1, <2>1
    <2>4. ASSUME NEW v \in Writer, NEW e \in open'[v]
          PROVE  e <= last' /\ e \notin committed'
        BY <1>1, <1>2, <2>1, <2>2, <2>4
    <2>5. ASSUME NEW v \in Writer, NEW u \in Writer, v # u
          PROVE  open'[v] \cap open'[u] = {}
        BY <1>1, <1>2, <2>2, <2>5 DEF IdsAreUnique
    <2> QED
        BY <2>3, <2>4, <2>5 DEF IdsAreUnique
<1>5. PageInv' /\ StreamInv' /\ PollInv'
    BY DEF PageInv, StreamInv, PollInv, AtEvent, NoGap, OnlyOvertakenAreMissed, Shown,
       endpoint, browser
<1> QED
    BY <1>3, <1>4, <1>5

(* With the run its events are gone; the rows are remembered.               *)
LEMMA DeleteInv ==
  ASSUME IInv, Delete
  PROVE  IInv'
<1> USE DEF IInv, Delete
<1>1. TypeOK'
    BY DEF TypeOK, endpoint, browser
<1>2. IdsAreUnique'
    BY DEF IdsAreUnique
<1>3. PageInv' /\ StreamInv' /\ PollInv'
    BY DEF PageInv, StreamInv, PollInv, AtEvent, NoGap, OnlyOvertakenAreMissed, Shown,
       endpoint, browser
<1> QED
    BY <1>1, <1>2, <1>3

LEMMA RollbackInv ==
  ASSUME IInv, NEW w \in Writer, Rollback(w)
  PROVE  IInv'
<1> USE DEF IInv, Rollback
<1>1. open \in [Writer -> SUBSET Id] /\ open' = [open EXCEPT ![w] = {}]
    BY DEF TypeOK
<1>2. TypeOK'
    <2>1. open' \in [Writer -> SUBSET Id]
        BY <1>1
    <2> QED
        BY <2>1 DEF TypeOK, endpoint, browser
<1>3. IdsAreUnique'
    BY <1>1 DEF IdsAreUnique
<1>4. PageInv' /\ StreamInv' /\ PollInv'
    BY DEF PageInv, StreamInv, PollInv, AtEvent, NoGap, OnlyOvertakenAreMissed, Shown,
       endpoint, browser
<1> QED
    BY <1>2, <1>3, <1>4

(* An event that is committed and not overtaken is past both cursors and   *)
(* past all that is on its way.                                            *)
LEMMA CommitInv ==
  ASSUME IInv, NEW w \in Writer, NEW ends \in BOOLEAN, Commit(w, ends)
  PROVE  IInv'
<1> USE DEF IInv, Commit
<1>1. /\ open \in [Writer -> SUBSET Id] /\ open' = [open EXCEPT ![w] = {}]
      /\ committed \in SUBSET Id /\ open[w] \in SUBSET Id /\ overtaken \in SUBSET committed
      /\ final \in SUBSET committed
    BY DEF TypeOK
<1>2. TypeOK'
    <2>1. open' \in [Writer -> SUBSET Id]
        BY <1>1
    <2>2. committed' \in SUBSET Id
        BY <1>1
    <2>3. overtaken' \in SUBSET committed'
        BY <1>1
    <2>4. final' \in SUBSET committed'
        BY <1>1
    <2>5. ended' \in BOOLEAN
        BY DEF TypeOK
    <2> QED
        BY <2>1, <2>2, <2>3, <2>4, <2>5 DEF TypeOK, endpoint, browser
<1>3. IdsAreUnique'
    BY <1>1 DEF IdsAreUnique
<1>4. ASSUME NEW e \in committed' \ overtaken'
      PROVE  \/ e \in committed \ overtaken
             \/ e \notin committed /\ \A f \in committed : f < e
    <2>1. CASE e \in committed
        BY <2>1
    <2>2. CASE e \notin committed
        <3>1. e \in open[w] /\ \A f \in committed : ~(f > e)
            BY <2>2, <1>4
        <3>2. \A f \in committed : f \in Int /\ e \in Int /\ f # e
            BY <1>1, <2>2, <3>1 DEF Id
        <3> QED
            BY <2>2, <3>1, <3>2
    <2> QED
        BY <2>1, <2>2
<1>5. \A c \in 0 .. MaxEvents : AtEvent(c) =>
         AtEvent(c)' /\ \A e \in committed' \ overtaken' : e <= c => e \in committed \ overtaken
    <2> SUFFICES ASSUME NEW c \in 0 .. MaxEvents, AtEvent(c)
                 PROVE  /\ AtEvent(c)'
                        /\ \A e \in committed' \ overtaken' : e <= c => e \in committed \ overtaken
        OBVIOUS
    <2>1. AtEvent(c)'
        BY DEF AtEvent
    <2>2. ASSUME NEW e \in committed' \ overtaken', e <= c PROVE e \in committed \ overtaken
        <3>1. e \in Id
            BY <1>1
        <3>2. CASE c = 0
            BY <2>2, <3>1, <3>2, StreamAssumption DEF Id
        <3>3. CASE c \in committed
            <4>1. ~(c < e)
                BY <2>2, <3>1, StreamAssumption DEF Id
            <4> QED
                BY <1>4, <3>3, <4>1
        <3> QED
            BY <3>2, <3>3 DEF AtEvent
    <2> QED
        BY <2>1, <2>2
<1>6. cursor \in 0 .. MaxEvents /\ server.cursor \in 0 .. MaxEvents
    BY DEF TypeOK
<1>7. PageInv'
    <2>1. Shown' = Shown /\ cursor' = cursor
        BY DEF Shown, browser
    <2>2. OnlyOvertakenAreMissed'
        BY <1>5, <1>6, <2>1 DEF PageInv, OnlyOvertakenAreMissed
    <2> QED
        BY <1>5, <1>6, <2>1, <2>2 DEF PageInv, AtEvent
<1>8. StreamInv'
    <2>1. server' = server /\ sent' = sent /\ ending' = ending /\ page' = page /\ cursor' = cursor
        BY DEF endpoint, browser
    <2>2. AtEvent(server.cursor)'
        BY <1>5, <1>6, <2>1 DEF StreamInv, AtEvent
    <2>3. \A e \in sent' : e \in committed' /\ e <= server'.cursor
        BY <2>1 DEF StreamInv
    <2>4. page' = "streaming" =>
            \A e \in committed' \ overtaken' : cursor' < e /\ e <= server'.cursor => e \in sent'
        BY <1>5, <1>6, <2>1 DEF StreamInv
    <2>5. ending' => /\ ended' \/ deleted'
                     /\ server'.at = "closed"
                     /\ ~deleted' => \A e \in final' : e <= server'.cursor
        BY <2>1 DEF StreamInv
    <2> QED
        BY <2>1, <2>2, <2>3, <2>4, <2>5 DEF StreamInv
<1>9. PollInv'
    <2>1. poll' = poll /\ page' = page /\ cursor' = cursor
        BY DEF browser
    <2>2. NoGap(poll.rows, cursor)'
        <3> SUFFICES ASSUME NEW e \in committed' \ overtaken', NEW f \in poll.rows,
                            cursor < e, e <= f
                     PROVE  e \in poll.rows
            BY <2>1 DEF NoGap
        <3>1. f \in committed /\ f \in 0 .. MaxEvents
            <4>1. f \in committed
                BY DEF PollInv
            <4> QED
                BY <1>1, <4>1, IdIsFinite
        <3>2. e \in committed \ overtaken
            BY <1>5, <3>1 DEF AtEvent
        <3> QED
            BY <3>2 DEF PollInv, NoGap
    <2> QED
        BY <2>1, <2>2 DEF PollInv
<1> QED
    BY <1>2, <1>3, <1>7, <1>8, <1>9

-----------------------------------------------------------------------------
(* The stream pushes a whole batch and moves its cursor to the end of it,  *)
(* so what it has passed is on its way.                                    *)
LEMMA StreamStep ==
  ASSUME IInv, Stream
  PROVE  IInv'
<1> USE DEF IInv
<1>1. UNCHANGED <<table, browser, drops>>
    BY DEF Stream, ReadStatus, Drain, Wake
<1>2. /\ last' = last /\ open' = open /\ committed' = committed /\ overtaken' = overtaken
      /\ ended' = ended /\ final' = final /\ deleted' = deleted /\ page' = page
      /\ cursor' = cursor /\ times' = times /\ poll' = poll /\ drops' = drops
    BY <1>1 DEF table, browser
<1>3. IdsAreUnique' /\ PageInv' /\ PollInv'
    BY <1>2 DEF IdsAreUnique, PageInv, PollInv, AtEvent, NoGap, OnlyOvertakenAreMissed, Shown
<1>4. ASSUME ReadStatus \/ Wake
      PROVE  TypeOK' /\ StreamInv'
    <2>1. /\ server' \in [at : {"closed", "status", "events", "wait"},
                          cursor : 0 .. MaxEvents, ended : BOOLEAN]
          /\ server'.cursor = server.cursor /\ server.at # "closed" /\ sent' = sent /\ ending' = ending
          /\ server'.ended => server.ended \/ ended \/ deleted
        BY <1>4 DEF ReadStatus, Wake, TypeOK
    <2>2. TypeOK'
        BY <1>2, <2>1 DEF TypeOK
    <2> QED
        BY <1>2, <2>1, <2>2 DEF StreamInv, AtEvent
<1>5. ASSUME Drain
      PROVE  TypeOK' /\ StreamInv'
    <2> DEFINE c == server.cursor
               batch == Batch(c)
    <2>1. /\ committed \in SUBSET Id /\ c \in 0 .. MaxEvents /\ final \in SUBSET committed
          /\ sent \in SUBSET Id
        BY DEF TypeOK
    <2>2. /\ batch \subseteq Past(c)
          /\ \A e \in Past(c), b \in batch : e <= b => e \in batch
          /\ Cardinality(batch) < BatchSize => batch = Past(c)
        BY <2>1, BatchIs
    <2>3. Past(c) \in SUBSET committed
        BY DEF Past
    <2>4. batch \in SUBSET Id
        BY <2>1, <2>2, <2>3
    <2>5. /\ batch = {} => Top(batch, c) = c
          /\ batch # {} => Top(batch, c) \in batch /\ \A f \in batch : f <= Top(batch, c)
          /\ Top(batch, c) \in 0 .. MaxEvents
        BY <2>1, <2>4, TopIs
    <2>6. /\ sent' = sent \cup batch /\ ending' = Finished(batch)
          /\ server' = [server EXCEPT !.at = IF Finished(batch) THEN "closed" ELSE "wait",
                                      !.cursor = Top(batch, c)]
          /\ server.at = "events"
        BY <1>5 DEF Drain
    <2> HIDE DEF batch
    <2>7. /\ server'.cursor = Top(batch, c) /\ server'.ended = server.ended
          /\ server'.at = IF Finished(batch) THEN "closed" ELSE "wait"
          /\ server' \in [at : {"closed", "status", "events", "wait"},
                          cursor : 0 .. MaxEvents, ended : BOOLEAN]
        BY <2>5, <2>6 DEF TypeOK
    <2>8. TypeOK'
        <3>1. sent' \in SUBSET Id
            BY <2>1, <2>4, <2>6
        <3>2. ending' \in BOOLEAN
            BY <2>6 DEF Finished
        <3> QED
            BY <1>2, <2>7, <3>1, <3>2 DEF TypeOK
    <2>9. \A e \in committed : e \in Nat
        BY <2>1, IdIsFinite
    <2>10. c \in Nat /\ Top(batch, c) \in Nat /\ c <= Top(batch, c)
        <3>1. \A b \in batch : b \in Nat /\ b > c
            BY <2>2, <2>9 DEF Past
        <3> QED
            BY <2>1, <2>5, <3>1
    <2>11. AtEvent(server.cursor)'
        BY <1>2, <2>2, <2>3, <2>5, <2>7 DEF StreamInv, AtEvent
    <2>12. \A e \in sent' : e \in committed' /\ e <= server'.cursor
        <3>1. \A e \in sent : e \in committed /\ e <= Top(batch, c)
            BY <2>9, <2>10 DEF StreamInv
        <3>2. \A e \in batch : e \in committed /\ e <= Top(batch, c)
            BY <2>2, <2>3, <2>5
        <3> QED
            BY <1>2, <2>6, <2>7, <3>1, <3>2
    <2>13. ASSUME NEW e \in committed, e > c, e <= Top(batch, c)
           PROVE  e \in batch
        <3>1. Top(batch, c) \in batch
            BY <2>5, <2>9, <2>10, <2>13
        <3>2. e \in Past(c)
            BY <2>2, <2>13, <3>1 DEF Past
        <3> QED
            BY <2>2, <2>13, <3>1, <3>2
    <2>14. page = "streaming" =>
             \A e \in committed \ overtaken : cursor < e /\ e <= Top(batch, c) => e \in sent'
        <3> SUFFICES ASSUME page = "streaming", NEW e \in committed \ overtaken,
                            cursor < e, e <= Top(batch, c)
                     PROVE  e \in sent'
            OBVIOUS
        <3>1. CASE e <= c
            BY <2>6, <3>1 DEF StreamInv
        <3>2. CASE e > c
            BY <2>6, <2>13, <3>2
        <3> QED
            BY <2>9, <2>10, <3>1, <3>2
    <2>15. ASSUME Finished(batch)
           PROVE  /\ ended \/ deleted
                  /\ ~deleted => \A e \in final : e <= Top(batch, c)
        <3>1. batch = Past(c) /\ (ended \/ deleted)
            BY <2>2, <2>15 DEF Finished, StreamInv
        <3>2. ASSUME ~deleted, NEW e \in final PROVE e <= Top(batch, c)
            <4>1. e \in committed /\ e \in Nat
                BY <2>1, <2>9
            <4>2. CASE e <= c
                BY <2>10, <4>1, <4>2
            <4>3. CASE e > c
                BY <2>5, <3>1, <3>2, <4>1, <4>3 DEF Past
            <4> QED
                BY <2>10, <4>1, <4>2, <4>3
        <3> QED
            BY <3>1, <3>2
    <2>16. page = "streaming"
        BY <2>6 DEF StreamInv
    <2>17. ending' => /\ ended' \/ deleted'
                      /\ server'.at = "closed"
                      /\ ~deleted' => \A e \in final' : e <= server'.cursor
        BY <1>2, <2>6, <2>7, <2>15
    <2>18. StreamInv'
        BY <1>2, <2>7, <2>11, <2>12, <2>14, <2>16, <2>17 DEF StreamInv
    <2> QED
        BY <2>8, <2>18
<1> QED
    BY <1>3, <1>4, <1>5 DEF Stream

-----------------------------------------------------------------------------
(* Showing events adds them to what is on the page. *)
LEMMA Showing ==
  ASSUME TypeOK, NEW S \in SUBSET Id, Show(S)
  PROVE  times' \in [Id -> Nat] /\ Shown' = Shown \cup S
<1>1. times \in [Id -> Nat] /\ times' = [e \in Id |-> IF e \in S THEN times[e] + 1 ELSE times[e]]
    BY DEF TypeOK, Show
<1>2. \A e \in Id : times'[e] \in Nat /\ (times'[e] > 0 <=> times[e] > 0 \/ e \in S)
    BY <1>1
<1> QED
    BY <1>1, <1>2 DEF Shown

(* Messages are received in the order of their ids: the page misses none.  *)
LEMMA ReceiveInv ==
  ASSUME IInv, Receive
  PROVE  IInv'
<1> USE DEF IInv
<1>1. PICK e \in sent :
        /\ \A f \in sent : e <= f
        /\ sent' = sent \ {e}
        /\ IF IsNew(e) THEN Show({e}) /\ cursor' = e ELSE UNCHANGED <<times, cursor>>
    BY DEF Receive
<1>2. /\ last' = last /\ open' = open /\ committed' = committed /\ overtaken' = overtaken
      /\ ended' = ended /\ final' = final /\ deleted' = deleted
      /\ server' = server /\ ending' = ending /\ page' = page /\ poll' = poll /\ drops' = drops /\ page = "streaming"
    BY DEF Receive, table
<1>3. /\ committed \in SUBSET Id /\ sent \in SUBSET Id /\ e \in Id /\ e \in committed
      /\ e <= server.cursor /\ poll = Idle
    BY <1>2 DEF TypeOK, StreamInv, PollInv
<1>4. /\ Id \in SUBSET Nat /\ Id \subseteq 0 .. MaxEvents /\ cursor \in Nat
      /\ server.cursor \in Nat
    BY IdIsFinite DEF TypeOK
<1>5. \/ IsNew(e) /\ times' \in [Id -> Nat] /\ Shown' = Shown \cup {e} /\ cursor' = e
      \/ ~IsNew(e) /\ times' = times /\ Shown' = Shown /\ cursor' = cursor
    BY <1>1, <1>3, Showing DEF Shown
<1>6. TypeOK'
    BY <1>1, <1>2, <1>3, <1>4, <1>5 DEF TypeOK
<1>7. IdsAreUnique'
    BY <1>2 DEF IdsAreUnique
<1>8. ASSUME NEW x \in committed \ overtaken, cursor < x, x <= server.cursor
      PROVE  x \in sent /\ e <= x
    BY <1>1, <1>2, <1>8 DEF StreamInv
<1>9. PageInv'
    <2>1. CASE IsNew(e)
        <3>1. AtEvent(cursor)' /\ \A x \in Shown' : x <= cursor'
            BY <1>2, <1>3, <1>4, <1>5, <2>1 DEF PageInv, AtEvent, IsNew, Shown
        <3>2. ASSUME NEW x \in committed \ overtaken, x <= e
              PROVE  x \in Shown'
            <4>1. CASE x <= cursor
                BY <1>5, <2>1, <4>1 DEF PageInv, OnlyOvertakenAreMissed
            <4>2. CASE cursor < x
                <5>1. e <= x
                    BY <1>3, <1>4, <1>8, <3>2, <4>2
                <5> QED
                    BY <1>3, <1>4, <1>5, <2>1, <3>2, <5>1
            <4> QED
                BY <1>3, <1>4, <4>1, <4>2
        <3>3. OnlyOvertakenAreMissed'
            BY <1>2, <1>5, <2>1, <3>2 DEF OnlyOvertakenAreMissed
        <3> QED
            BY <3>1, <3>3 DEF PageInv
    <2>2. CASE ~IsNew(e)
        BY <1>2, <1>5, <2>2 DEF PageInv, AtEvent, OnlyOvertakenAreMissed
    <2> QED
        BY <2>1, <2>2
<1>10. StreamInv'
    <2>1. ASSUME NEW x \in committed \ overtaken, cursor' < x, x <= server.cursor
          PROVE  x \in sent'
        <3>1. cursor < x /\ x # e
            BY <1>3, <1>4, <1>5, <2>1 DEF IsNew
        <3> QED
            BY <1>1, <1>8, <2>1, <3>1
    <2>2. \A x \in sent' : x \in committed' /\ x <= server'.cursor
        BY <1>1, <1>2 DEF StreamInv
    <2> QED
        BY <1>2, <2>1, <2>2 DEF StreamInv, AtEvent
<1>11. PollInv'
    BY <1>2, <1>3 DEF PollInv, NoGap, Idle
<1> QED
    BY <1>6, <1>7, <1>9, <1>10, <1>11

LEMMA ConnectionInv ==
  ASSUME IInv, Connect \/ Refused \/ ReceiveEnd \/ Drop
  PROVE  IInv'
<1> USE DEF IInv
<1>1. /\ last' = last /\ open' = open /\ committed' = committed /\ overtaken' = overtaken
      /\ ended' = ended /\ final' = final /\ deleted' = deleted
      /\ cursor' = cursor /\ times' = times /\ poll' = poll
    BY DEF Connect, Refused, ReceiveEnd, Drop, table
<1>2. IdsAreUnique' /\ PageInv'
    BY <1>1 DEF IdsAreUnique, PageInv, AtEvent, OnlyOvertakenAreMissed, Shown
<1>3. page # "polling" /\ poll = Idle
    BY DEF Connect, Refused, ReceiveEnd, Drop, PollInv
<1>4. PollInv'
    BY <1>1, <1>3 DEF PollInv, NoGap, Idle
<1>5. cursor \in 0 .. MaxEvents /\ cursor \in Nat /\ MaxEvents \in Nat /\ MaxDrops \in Nat
    BY StreamAssumption DEF TypeOK
<1>6. CASE Connect
    <2>1. /\ sent' = sent /\ ending' = ending /\ page' = "streaming" /\ drops' = drops
          /\ server' = [at |-> "status", cursor |-> cursor, ended |-> FALSE]
          /\ sent = {} /\ ~ending
        BY <1>6 DEF Connect, ResumesAt, StreamInv
    <2>2. TypeOK'
        BY <1>1, <1>5, <2>1 DEF TypeOK
    <2>3. \A e \in committed : ~(cursor < e /\ e <= cursor)
        <3>1. \A e \in committed : e \in Nat
            BY IdIsFinite DEF TypeOK
        <3> QED
            BY <1>5, <3>1
    <2>4. StreamInv'
        BY <1>1, <2>1, <2>3 DEF StreamInv, PageInv, AtEvent
    <2> QED
        BY <1>2, <1>4, <2>2, <2>4
<1>7. CASE ReceiveEnd
    <2>1. TypeOK'
        <3>1. server' = server /\ sent' = sent /\ ending' \in BOOLEAN /\ page' = "done"
              /\ drops' = drops
            BY <1>7 DEF ReceiveEnd
        <3> QED
            BY <1>1, <3>1 DEF TypeOK
    <2>2. StreamInv'
        BY <1>1, <1>7 DEF ReceiveEnd, StreamInv, AtEvent
    <2> QED
        BY <1>2, <1>4, <2>1, <2>2
<1>8. CASE Drop
    <2>1. /\ server' = [at |-> "closed", cursor |-> 0, ended |-> FALSE] /\ sent' = {} /\ ending' = FALSE
          /\ page' \in {"connecting", "polling"} /\ drops' \in 0 .. MaxDrops
        BY <1>5, <1>8 DEF Drop, Closed, TypeOK
    <2>2. TypeOK'
        <3>1. server' \in [at : {"closed", "status", "events", "wait"},
                           cursor : 0 .. MaxEvents, ended : BOOLEAN]
            BY <1>5, <2>1
        <3>2. sent' \in SUBSET Id /\ ending' \in BOOLEAN
            BY <2>1
        <3> QED
            BY <1>1, <2>1, <3>1, <3>2 DEF TypeOK
    <2>3. StreamInv'
        BY <1>1, <2>1 DEF StreamInv, AtEvent
    <2> QED
        BY <1>2, <1>4, <2>2, <2>3
<1>9. CASE Refused
    <2>1. /\ server' = server /\ sent' = sent /\ ending' = ending
          /\ page' = "polling" /\ page # "streaming" /\ drops' = drops
        BY <1>9 DEF Refused, endpoint
    <2>2. TypeOK'
        BY <1>1, <2>1 DEF TypeOK
    <2>3. StreamInv'
        BY <1>1, <2>1 DEF StreamInv, AtEvent
    <2> QED
        BY <1>2, <1>4, <2>2, <2>3
<1> QED
    BY <1>6, <1>7, <1>8, <1>9

(* A poll appends a batch: nothing between its rows is left out.           *)
LEMMA PollingInv ==
  ASSUME IInv, Polling
  PROVE  IInv'
<1> USE DEF IInv
<1>1. /\ last' = last /\ open' = open /\ committed' = committed /\ overtaken' = overtaken
      /\ ended' = ended /\ final' = final /\ deleted' = deleted
      /\ server' = server /\ sent' = sent /\ ending' = ending
    BY DEF Polling, Ask, AnswerRun, AnswerEvents, Append, PollFails, table, endpoint
<1>2. IdsAreUnique'
    BY <1>1 DEF IdsAreUnique
<1>3. /\ committed \in SUBSET Id /\ cursor \in 0 .. MaxEvents /\ cursor \in Nat
      /\ poll \in [run : {"none", "asked", "live", "ended"},
                    events : {"none", "asked", "answered"}, rows : SUBSET Id]
      /\ drops \in 0 .. MaxDrops
    BY StreamAssumption DEF TypeOK
<1>4. page = "polling"
    BY DEF Polling, Ask, AnswerRun, AnswerEvents, Append, PollFails, PollInv, Idle
<1>5. server.at = "closed" /\ sent = {} /\ ~ending
    BY <1>4 DEF StreamInv
<1>6. page' \in {"polling", "done", "stopped"}
    BY <1>4 DEF Polling, Ask, AnswerRun, AnswerEvents, Append, PollFails
<1>7. StreamInv'
    BY <1>1, <1>5, <1>6 DEF StreamInv, AtEvent
<1>8. ASSUME cursor' = cursor, times' = times, drops' \in 0 .. MaxDrops,
             poll' \in [run : {"none", "asked", "live", "ended"},
                        events : {"none", "asked", "answered"}, rows : SUBSET Id],
             poll' # Idle => page' = "polling",
             poll'.events # "answered" => poll'.rows = {},
             poll'.rows = {} \/ poll'.rows = poll.rows \/ poll'.rows = Batch(cursor)
      PROVE  IInv'
    <2>1. TypeOK'
        BY <1>1, <1>3, <1>6, <1>8 DEF TypeOK
    <2>2. PageInv'
        BY <1>1, <1>8 DEF PageInv, AtEvent, OnlyOvertakenAreMissed, Shown
    <2>3. /\ Batch(cursor) \subseteq Past(cursor)
          /\ \A e \in Past(cursor), b \in Batch(cursor) : e <= b => e \in Batch(cursor)
        BY <1>3, BatchIs
    <2>4. /\ \A e \in Batch(cursor) : e \in committed /\ cursor < e
          /\ NoGap(Batch(cursor), cursor)
        <3>1. \A e \in committed : e \in Nat
            BY <1>3, IdIsFinite
        <3>2. \A e \in committed, f \in Batch(cursor) : cursor < e => e \in Past(cursor)
            BY <1>3, <2>3, <3>1 DEF Past
        <3>3. \A e \in Batch(cursor) : e \in committed /\ cursor < e
            BY <1>3, <2>3, <3>1 DEF Past
        <3> QED
            BY <2>3, <3>2, <3>3 DEF NoGap
    <2>5. PollInv'
        <3>1. \A e \in poll'.rows : e \in committed /\ cursor < e
            BY <1>8, <2>4 DEF PollInv
        <3>2. NoGap(poll'.rows, cursor)
            BY <1>8, <2>4 DEF PollInv, NoGap
        <3> QED
            BY <1>1, <1>8, <3>1, <3>2 DEF PollInv, NoGap, Idle
    <2> QED
        BY <1>2, <1>7, <2>1, <2>2, <2>5
<1>9. CASE Ask
    BY <1>3, <1>4, <1>8, <1>9 DEF Ask, Asked, Idle
<1>10. CASE AnswerRun
    BY <1>3, <1>4, <1>8, <1>10 DEF AnswerRun, PollInv
<1>11. CASE AnswerEvents
    <2>1. Batch(cursor) \in SUBSET Id
        BY <1>3 DEF Batch, Past
    <2> QED
        BY <1>3, <1>4, <1>8, <1>11, <2>1 DEF AnswerEvents
<1>12. CASE PollFails
    <2>1. drops' \in 0 .. MaxDrops /\ cursor' = cursor /\ times' = times
        BY <1>3, <1>12, StreamAssumption DEF PollFails
    <2>2. \/ poll' = [poll EXCEPT !.run = "live"] /\ page' = page
          \/ poll' = [poll EXCEPT !.events = "answered"] /\ page' = page
          \/ poll' = Idle
        BY <1>12 DEF PollFails
    <2>3. poll.events # "answered" => poll.rows = {}
        BY DEF PollInv
    <2> QED
        BY <1>3, <1>4, <1>8, <2>1, <2>2, <2>3 DEF Idle
<1>13. CASE Append
    <2> DEFINE top == Top(poll.rows, cursor)
    <2>1. /\ Show(poll.rows) /\ cursor' = top /\ poll' = Idle /\ drops' = drops
        BY <1>13 DEF Append
    <2>2. times' \in [Id -> Nat] /\ Shown' = Shown \cup poll.rows
        BY <1>3, <2>1, Showing
    <2>3. /\ poll.rows = {} => top = cursor
          /\ poll.rows # {} => top \in poll.rows /\ \A f \in poll.rows : f <= top
          /\ top \in 0 .. MaxEvents
        BY <1>3, TopIs
    <2> HIDE DEF top
    <2>4. TypeOK'
        BY <1>1, <1>3, <1>6, <2>1, <2>2, <2>3 DEF TypeOK, Idle
    <2>5. PollInv'
        BY <2>1 DEF PollInv, NoGap, Idle
    <2>6. /\ \A e \in committed : e \in Nat
          /\ \A e \in poll.rows : e \in committed /\ e \in Nat /\ cursor < e
          /\ top \in Nat
        BY <1>3, <2>3, IdIsFinite DEF PollInv
    <2>7. cursor <= top
        BY <1>3, <2>3, <2>6
    <2>8. AtEvent(cursor)'
        BY <1>1, <2>1, <2>3, <2>6 DEF PageInv, AtEvent
    <2>9. \A e \in Shown' : e <= cursor'
        <3>1. \A e \in Shown : e \in Nat /\ e <= cursor
            BY IdIsFinite DEF PageInv, Shown
        <3> QED
            BY <1>3, <2>1, <2>2, <2>3, <2>6, <2>7, <3>1
    <2>10. ASSUME NEW e \in committed \ overtaken, e <= top
           PROVE  e \in Shown'
        <3>1. CASE e <= cursor
            BY <2>2, <3>1 DEF PageInv, OnlyOvertakenAreMissed
        <3>2. CASE cursor < e
            <4>1. top \in poll.rows
                BY <1>3, <2>3, <2>6, <2>10, <3>2
            <4>2. e \in poll.rows
                BY <2>10, <3>2, <4>1 DEF PollInv, NoGap
            <4> QED
                BY <2>2, <4>2
        <3> QED
            BY <1>3, <2>6, <3>1, <3>2
    <2>11. PageInv'
        BY <1>1, <2>1, <2>8, <2>9, <2>10 DEF PageInv, OnlyOvertakenAreMissed
    <2> QED
        BY <1>2, <1>7, <2>4, <2>5, <2>11
<1> QED
    BY <1>9, <1>10, <1>11, <1>12, <1>13 DEF Polling

-----------------------------------------------------------------------------
LEMMA NextInv ==
  ASSUME IInv, [Next]_vars
  PROVE  IInv'
<1>1. CASE UNCHANGED vars
    BY <1>1 DEF vars, table, endpoint, browser, IInv, TypeOK, IdsAreUnique, PageInv, StreamInv,
       PollInv, AtEvent, NoGap, OnlyOvertakenAreMissed, Shown
<1>2. ASSUME NEW w \in Writer, Write(w) PROVE IInv'
    BY <1>2, EmitInv, CommitInv, RollbackInv DEF Write
<1> QED
    BY <1>1, <1>2, DeleteInv, StreamStep, ReceiveInv, ConnectionInv, PollingInv DEF Next

(* The inductive invariant holds in every reachable state. *)
THEOREM Invariance == Spec => []IInv
BY InitInv, NextInv, PTL DEF Spec

(* The page's cursor passes only over events committed out of order        *)
(* (run_events_stream, appendEvents), for any number of writers, any batch *)
(* size, and any number of lost connections.                               *)
THEOREM Complete == Spec => []OnlyOvertakenAreMissed
<1>1. IInv => OnlyOvertakenAreMissed
    BY DEF IInv, PageInv
<1> QED
    BY <1>1, Invariance, PTL

(* Every event that comes onto the page has a higher id than those that    *)
(* are there, so none comes twice (the id guard, fetchNewEvents).          *)
THEOREM Ordered == Spec => InOrder
<1>1. IInv /\ [Next]_vars =>
        [\A e \in Id, f \in Shown : times'[e] > times[e] => f < e]_vars
    <2> SUFFICES ASSUME IInv, Next, NEW e \in Id, NEW f \in Shown, times'[e] > times[e]
                 PROVE  f < e
        BY DEF vars
    <2>1. f \in Nat /\ e \in Nat /\ cursor \in Nat /\ f <= cursor /\ times \in [Id -> Nat]
        BY IdIsFinite DEF IInv, TypeOK, PageInv, Shown
    <2>2. times' # times
        BY <2>1
    <2>3. Receive \/ Append
        BY <2>2 DEF Next, Write, Emit, Commit, Rollback, Delete, Stream, ReadStatus, Drain, Wake,
           Connect, Refused, ReceiveEnd, Drop, Polling, Ask, AnswerRun, AnswerEvents, PollFails, browser
    <2>4. CASE Receive
        <3>1. PICK g \in sent : IF IsNew(g) THEN Show({g}) ELSE times' = times
            BY <2>4 DEF Receive
        <3>2. IsNew(g) /\ times'[e] = IF e \in {g} THEN times[e] + 1 ELSE times[e]
            BY <2>2, <3>1 DEF Show
        <3>3. e = g
            BY <2>1, <3>2
        <3> QED
            BY <2>1, <3>2, <3>3 DEF IsNew
    <2>5. CASE Append
        <3>1. times'[e] = IF e \in poll.rows THEN times[e] + 1 ELSE times[e]
            BY <2>5 DEF Append, Show
        <3>2. e \in poll.rows
            BY <2>1, <3>1
        <3> QED
            BY <2>1, <3>2 DEF IInv, PollInv
    <2> QED
        BY <2>3, <2>4, <2>5
<1> QED
    BY <1>1, Invariance, PTL DEF Spec, InOrder

(* The end event comes after everything that was committed, in order, when *)
(* the run ended, as long as the run is there: the status is read before   *)
(* the batch that ends the stream (_drain in run_events_stream).           *)
THEOREM Ending == Spec => EndIsComplete
<1>1. IInv /\ [Next]_vars => [ReceiveEnd /\ ~deleted => \A e \in final \ overtaken : e \in Shown]_vars
    <2> SUFFICES ASSUME IInv, ReceiveEnd, ~deleted, NEW e \in final \ overtaken
                 PROVE  e \in Shown
        OBVIOUS
    <2>1. /\ page = "streaming" /\ sent = {} /\ e \in committed \ overtaken
          /\ e <= server.cursor
        BY DEF IInv, TypeOK, StreamInv, ReceiveEnd
    <2>2. e \in Nat /\ cursor \in Nat
        BY <2>1, IdIsFinite DEF IInv, TypeOK
    <2>3. ~(cursor < e)
        BY <2>1 DEF IInv, StreamInv
    <2> QED
        BY <2>1, <2>2, <2>3 DEF IInv, PageInv, OnlyOvertakenAreMissed
<1> QED
    BY <1>1, Invariance, PTL DEF Spec, EndIsComplete
=============================================================================
