-------------------------- MODULE Backlog_proofs --------------------------
(***************************************************************************)
(* Proofs about a backlog of any size and any number of requests: its      *)
(* dependencies stay acyclic while no two changes of them race, so there   *)
(* is always something to work on; and a reorder that is not overtaken     *)
(* leaves the order that was asked for.                                    *)
(***************************************************************************)
EXTENDS Backlog, WellFoundedInduction, TLAPS

Patched(q) == [deps EXCEPT ![request[q].item] = request[q].deps]

Graph == [Item -> SUBSET Item]

(* Dependencies, also those a request is about to save, are on items that  *)
(* exist; and each request was checked against the graph it will change.   *)
References ==
  /\ count \in Nat /\ count <= MaxItems /\ deps \in Graph
  /\ request = [q \in Request |-> request[q]]
  /\ \A i \in Item : deps[i] \subseteq Existing
  /\ \A q \in Request : request[q].kind = "deps" =>
       request[q].item \in Existing /\ request[q].deps \subseteq Existing

Checked ==
  ~raced => /\ Acyclic(deps)
            /\ \A q \in Request : request[q].kind = "deps" => Acyclic(Patched(q))

IInv == References /\ Checked

(* A non-empty set of items has a smallest one. *)
LEMMA SmallestItem ==
  ASSUME NEW T \in SUBSET Item, T # {}
  PROVE  \E i \in T : \A j \in T : i <= j
<1> DEFINE R == OpToRel(<, Nat)
<1>1. Item \subseteq Nat
    BY BacklogAssumption DEF Item
<1>2. PICK i \in T : \A j \in T : <<j, i>> \notin R
    <2> HIDE DEF R
    <2> QED
    BY <1>1, NatLessThanWellFounded, WFMin DEF R
<1>3. \A j \in T : ~(j < i)
    BY <1>1, <1>2 DEF OpToRel
<1> QED
    BY <1>1, <1>3

(* A graph stays acyclic when items are added that depend on items with    *)
(* smaller numbers only.                                                   *)
LEMMA Extended ==
  ASSUME NEW g \in Graph, NEW h \in Graph, NEW E \in SUBSET Item, Acyclic(g),
         \A i \in E : h[i] = g[i] /\ g[i] \subseteq E,
         \A i \in Item \ E : \A d \in h[i] : d < i
  PROVE  Acyclic(h)
<1> SUFFICES ASSUME NEW T \in SUBSET Item, T # {}
             PROVE  \E i \in T : h[i] \cap T = {}
    BY DEF Acyclic
<1>1. CASE T \cap E # {}
    <2>1. T \cap E \in SUBSET Item
        OBVIOUS
    <2>2. PICK i \in T \cap E : g[i] \cap (T \cap E) = {}
        BY <1>1, <2>1 DEF Acyclic
    <2> QED
        BY <2>2
<1>2. CASE T \cap E = {}
    <2>1. PICK i \in T : \A j \in T : i <= j
        BY SmallestItem
    <2>2. i \in Item \ E
        BY <1>2, <2>1
    <2>3. \A d \in h[i] : d < i /\ d \in Item
        BY <2>2 DEF Graph
    <2>4. \A d \in Item : d < i => ~(i <= d)
        BY <2>2, BacklogAssumption DEF Item
    <2> QED
        BY <2>1, <2>3, <2>4
<1> QED
    BY <1>1, <1>2

(* What the walk does not reach may become a dependency. *)
LEMMA WalkIsEnough ==
  ASSUME NEW g \in Graph, Acyclic(g), NEW i \in Item, NEW S \in SUBSET Item, ~Reaches(i, S, g)
  PROVE  Acyclic([g EXCEPT ![i] = S])
<1> DEFINE h == [g EXCEPT ![i] = S]
<1>1. PICK C \in SUBSET Item : S \subseteq C /\ Closed(C, g) /\ i \notin C
    BY DEF Reaches
<1>2. \A j \in Item : h[j] = IF j = i THEN S ELSE g[j]
    BY DEF Graph
<1> SUFFICES ASSUME NEW T \in SUBSET Item, T # {}
             PROVE  \E j \in T : h[j] \cap T = {}
    BY DEF Acyclic
<1> HIDE DEF h
<1>3. CASE i \notin T
    <2>1. PICK j \in T : g[j] \cap T = {}
        BY DEF Acyclic
    <2> QED
        BY <1>2, <1>3, <2>1
<1>4. CASE i \in T /\ T \cap C = {}
    BY <1>1, <1>2, <1>4
<1>5. CASE T \cap C # {}
    <2>1. T \cap C \in SUBSET Item
        OBVIOUS
    <2>2. PICK j \in T \cap C : g[j] \cap (T \cap C) = {}
        BY <1>5, <2>1 DEF Acyclic
    <2>3. g[j] \subseteq C
        BY <1>1, <2>2 DEF Closed
    <2> QED
        BY <1>1, <1>2, <2>2, <2>3
<1> QED
    BY <1>3, <1>4, <1>5

LEMMA InitInvariant == Init => IInv
<1> SUFFICES ASSUME Init PROVE IInv
    OBVIOUS
<1>1. References
    BY BacklogAssumption DEF Init, References, Existing, Graph, Idle
<1>2. Acyclic(deps)
    BY DEF Init, Acyclic
<1> QED
    BY <1>1, <1>2 DEF Init, IInv, Checked, Idle

(* New items are added at the end and depend on what was there, or on new  *)
(* items before them.                                                      *)
LEMMA GrowInvariant ==
  ASSUME IInv, NEW n \in Nat, count' = n, count <= n, n <= MaxItems, deps' \in Graph,
         \A i \in Existing : deps'[i] = deps[i],
         \A i \in Item \ Existing : \A d \in deps'[i] : d < i /\ d <= n,
         UNCHANGED <<request, raced>>
  PROVE  IInv'
<1>1. /\ count \in Nat /\ deps \in Graph
      /\ \A i \in Item : deps[i] \subseteq Existing
      /\ \A q \in Request : request[q].kind = "deps" =>
           request[q].item \in Existing /\ request[q].deps \subseteq Existing
    BY DEF IInv, References
<1>2. Existing \in SUBSET Item /\ Existing \subseteq Existing' /\ Existing' = 1 .. n
    BY <1>1, BacklogAssumption DEF Existing, Item
<1>3. \A i \in Item : deps'[i] \subseteq Existing'
    <2> SUFFICES ASSUME NEW i \in Item, NEW d \in deps'[i] PROVE d \in Existing'
        OBVIOUS
    <2>1. CASE i \in Existing
        BY <1>1, <1>2, <2>1
    <2>2. CASE i \notin Existing
        <3>1. d \in Item /\ d <= n
            BY <2>2 DEF Graph
        <3> QED
            BY <3>1, <1>2 DEF Item
    <2> QED
        BY <2>1, <2>2
<1>4. References'
    <2>1. \A q \in Request : request'[q].kind = "deps" =>
            request'[q].item \in Existing' /\ request'[q].deps \subseteq Existing'
        BY <1>1, <1>2
    <2>2. request' = [q \in Request |-> request'[q]]
        BY DEF IInv, References
    <2> QED
        BY <1>3, <2>1, <2>2 DEF References
<1>5. ASSUME ~raced' PROVE Acyclic(deps')
    <2>1. Acyclic(deps)
        BY <1>5 DEF IInv, Checked
    <2> QED
        BY <1>1, <1>2, <2>1, Extended
<1>6. ASSUME ~raced', NEW q \in Request, request'[q].kind = "deps"
      PROVE  Acyclic(Patched(q)')
    <2> DEFINE g == Patched(q)
               h == [deps' EXCEPT ![request[q].item] = request[q].deps]
    <2>1. Acyclic(g)
        BY <1>6 DEF IInv, Checked
    <2>2. request[q].item \in Existing /\ request[q].deps \subseteq Existing
        BY <1>1, <1>6
    <2>3. request[q].item \in Item /\ request[q].deps \in SUBSET Item
        BY <1>2, <2>2
    <2>4. g \in Graph /\ h \in Graph
        BY <1>1, <2>3 DEF Graph, Patched
    <2>5. \A i \in Existing : h[i] = g[i] /\ g[i] \subseteq Existing
        BY <1>1, <1>2, <2>2, <2>3 DEF Graph, Patched
    <2>6. \A i \in Item \ Existing : h[i] = deps'[i]
        BY <2>2 DEF Graph
    <2>7. Acyclic(h)
        <3> HIDE DEF g, h
        <3> QED
            BY <1>2, <2>1, <2>4, <2>5, <2>6, Extended
    <2> QED
        BY <2>7 DEF Patched
<1> QED
    BY <1>4, <1>5, <1>6 DEF IInv, Checked

LEMMA ImportInvariant ==
  ASSUME IInv, NEW plan \in Plans, ImportRoadmap(plan)
  PROVE  IInv'
<1>1. /\ count \in Nat /\ count <= MaxItems /\ deps \in Graph /\ MaxItems \in Nat
      /\ \A i \in Item : deps[i] \subseteq Existing
    BY BacklogAssumption DEF IInv, References
<1>2. PICK n \in 1 .. MaxItems - count : plan \in [1 .. n -> SUBSET (1 .. n)]
    BY DEF Plans
<1>3. n \in Nat /\ n >= 1 /\ count + n \in Nat /\ count + n <= MaxItems /\ DOMAIN plan = 1 .. n
    BY <1>1, <1>2
<1>4. plan \in Seq(SUBSET (1 .. n)) /\ Len(plan) = n
    BY <1>2, <1>3
<1>5. count' = count + n
    BY <1>4 DEF ImportRoadmap
<1> DEFINE New == count + 1 .. count + n
<1>6. deps' = [i \in Item |-> IF i \in New THEN {count + d : d \in plan[i - count]} ELSE deps[i]]
    BY <1>5 DEF ImportRoadmap
<1>7. \A k \in 1 .. n : \A d \in plan[k] : d \in 1 .. n /\ d < k
    BY <1>2, <1>3 DEF ImportRoadmap, ValidRoadmap
<1>8. ASSUME NEW i \in Item, i \in New, NEW e \in deps'[i]
      PROVE  e \in Item /\ e < i /\ e <= count + n
    <2>1. i - count \in 1 .. n
        BY <1>1, <1>3, <1>8
    <2>2. PICK d \in plan[i - count] : e = count + d
        BY <1>6, <1>8
    <2>3. d \in 1 .. n /\ d < i - count
        BY <1>7, <2>1, <2>2
    <2> QED
        BY <1>1, <1>3, <2>1, <2>2, <2>3 DEF Item
<1>9. \A i \in Item : i \notin New => deps'[i] = deps[i]
    BY <1>6
<1>10. deps' \in Graph
    <2>1. \A i \in Item : deps'[i] \in SUBSET Item
        BY <1>1, <1>8, <1>9 DEF Graph
    <2> QED
        BY <2>1, <1>6 DEF Graph
<1>11. \A i \in Existing : deps'[i] = deps[i]
    BY <1>1, <1>3, <1>9 DEF Existing, Item
<1>12. \A i \in Item \ Existing : \A d \in deps'[i] : d < i /\ d <= count + n
    <2> SUFFICES ASSUME NEW i \in Item \ Existing, NEW d \in deps'[i]
                 PROVE  d < i /\ d <= count + n
        OBVIOUS
    <2>1. CASE i \in New
        BY <1>8, <2>1
    <2>2. CASE i \notin New
        <3>1. d \in deps[i] /\ d \in Existing
            BY <1>1, <1>9, <2>2
        <3>2. d <= count
            BY <3>1, <1>1 DEF Existing
        <3>3. i > count /\ i \in Nat /\ d \in Nat
            BY <1>1, <3>1 DEF Existing, Item
        <3> QED
            BY <3>2, <3>3, <1>1, <1>3
    <2> QED
        BY <2>1, <2>2
<1>13. UNCHANGED <<request, raced>>
    BY DEF ImportRoadmap
<1> QED
    BY <1>1, <1>3, <1>5, <1>10, <1>11, <1>12, <1>13, GrowInvariant

LEMMA CreateInvariant ==
  ASSUME IInv, NEW S \in SUBSET Existing, CreateItem(S)
  PROVE  IInv'
<1>1. /\ count \in Nat /\ count < MaxItems /\ deps \in Graph /\ MaxItems \in Nat
      /\ \A i \in Item : deps[i] \subseteq Existing
    BY BacklogAssumption DEF IInv, References, CreateItem
<1>2. count' = count + 1 /\ deps' = [deps EXCEPT ![count + 1] = S] /\ UNCHANGED <<request, raced>>
    BY DEF CreateItem
<1>3. count + 1 \in Nat /\ count <= count + 1 /\ count + 1 <= MaxItems /\ count + 1 \in Item
    BY <1>1 DEF Item
<1>4. Existing \subseteq Item /\ count + 1 \notin Existing /\ \A d \in Existing : d \in Nat /\ d <= count
    BY <1>1 DEF Existing, Item
<1>5. deps' \in Graph
    BY <1>1, <1>2, <1>3, <1>4 DEF Graph
<1>6. \A i \in Existing : deps'[i] = deps[i]
    BY <1>1, <1>2, <1>4 DEF Graph
<1>7. \A i \in Item \ Existing : \A d \in deps'[i] : d < i /\ d <= count + 1
    <2> SUFFICES ASSUME NEW i \in Item \ Existing, NEW d \in deps'[i]
                 PROVE  d < i /\ d <= count + 1
        OBVIOUS
    <2>1. d \in Existing
        BY <1>1, <1>2, <1>3 DEF Graph
    <2>2. i \in Nat /\ i > count
        BY <1>1 DEF Existing, Item
    <2> QED
        BY <1>1, <1>4, <2>1, <2>2
<1> QED
    BY <1>1, <1>2, <1>3, <1>5, <1>6, <1>7, GrowInvariant

(* A request whose kind is not "deps" comes or goes.                       *)
LEMMA OtherRequests ==
  ASSUME IInv, UNCHANGED <<count, deps, raced>>,
         request' = [p \in Request |-> request'[p]],
         \A p \in Request : request'[p].kind = "deps" => request'[p] = request[p]
  PROVE  IInv'
<1>1. References'
    BY DEF IInv, References, Existing
<1>2. Checked'
    BY DEF IInv, Checked, Patched
<1> QED
    BY <1>1, <1>2 DEF IInv

LEMMA CheckInvariant ==
  ASSUME IInv, NEW q \in Request, NEW i \in Item, NEW S \in SUBSET Item, CheckDeps(q, i, S)
  PROVE  IInv'
<1>1. /\ request' = [request EXCEPT ![q] = [kind |-> "deps", item |-> i, deps |-> S]]
      /\ i \in Existing /\ S \subseteq Existing /\ ~Reaches(i, S, deps)
      /\ UNCHANGED <<count, deps, raced>>
    BY DEF CheckDeps, Begin
<1>2. /\ request'[q].kind = "deps" /\ request'[q].item = i /\ request'[q].deps = S
      /\ \A p \in Request \ {q} : request'[p] = request[p]
    BY <1>1 DEF IInv, References
<1>3. References'
    BY <1>1, <1>2 DEF IInv, References, Existing
<1>4. ASSUME ~raced' PROVE Acyclic(deps') /\ \A p \in Request : request'[p].kind = "deps" => Acyclic(Patched(p)')
    <2>1. Acyclic(deps)
        BY <1>1, <1>4 DEF IInv, Checked
    <2>2. Acyclic([deps EXCEPT ![i] = S])
        BY <1>1, <2>1, WalkIsEnough DEF IInv, References
    <2>3. Patched(q)' = [deps EXCEPT ![i] = S]
        BY <1>1, <1>2 DEF Patched
    <2>4. \A p \in Request \ {q} : request'[p].kind = "deps" => Acyclic(Patched(p)')
        BY <1>1, <1>2, <1>4 DEF IInv, Checked, Patched
    <2> QED
        BY <1>1, <2>1, <2>2, <2>3, <2>4
<1> QED
    BY <1>3, <1>4 DEF IInv, Checked

LEMMA SaveInvariant ==
  ASSUME IInv, NEW q \in Request, SaveDeps(q)
  PROVE  IInv'
<1>1. /\ request[q].kind = "deps"
      /\ deps' = Patched(q) /\ request' = [request EXCEPT ![q] = Idle]
      /\ raced' = (raced \/ \E p \in Request \ {q} : request[p].kind = "deps")
      /\ count' = count
    BY DEF SaveDeps, Patched
<1>2. /\ request[q].item \in Existing /\ request[q].deps \subseteq Existing
      /\ Existing \subseteq Item /\ deps \in Graph /\ \A i \in Item : deps[i] \subseteq Existing
    BY <1>1, BacklogAssumption DEF IInv, References, Existing, Item
<1>3. deps' \in Graph /\ \A i \in Item : deps'[i] \subseteq Existing
    BY <1>1, <1>2 DEF Graph, Patched
<1>4. /\ request'[q].kind = "none"
      /\ \A p \in Request \ {q} : request'[p] = request[p]
      /\ request' = [p \in Request |-> request'[p]]
    BY <1>1 DEF IInv, References, Idle
<1>5. References'
    BY <1>1, <1>3, <1>4 DEF IInv, References, Existing
<1>6. ASSUME ~raced' PROVE Acyclic(deps') /\ \A p \in Request : request'[p].kind # "deps"
    <2>1. ~raced /\ \A p \in Request \ {q} : request[p].kind # "deps"
        BY <1>1, <1>6
    <2>2. Acyclic(deps')
        BY <1>1, <2>1 DEF IInv, Checked
    <2>3. \A p \in Request : request'[p].kind # "deps"
        BY <1>4, <2>1
    <2> QED
        BY <2>2, <2>3
<1> QED
    BY <1>5, <1>6 DEF IInv, Checked

(* Overtaking a request marks it as a reorder that is not alone, and does  *)
(* nothing to other requests.                                              *)
LEMMA OvertakenKind ==
  ASSUME NEW q \in Request
  PROVE  /\ Overtaken(q).kind = request[q].kind
         /\ request[q].kind # "order" => Overtaken(q) = request[q]
<1>1. CASE request[q].kind = "order"
    <2>1. Overtaken(q) = [request[q] EXCEPT !.alone = FALSE]
        BY <1>1 DEF Overtaken
    <2>2. [request[q] EXCEPT !.alone = FALSE].kind = request[q].kind
        OBVIOUS
    <2> QED
        BY <1>1, <2>1, <2>2
<1> QED
    BY <1>1 DEF Overtaken

LEMMA RequestInvariant ==
  ASSUME IInv, NEW q \in Request,
         \/ \E order \in Orders : ReadBoard(q, order)
         \/ \E i \in Item : OpenIssue(q, i)
         \/ WriteBoard(q) \/ StoreLink(q) \/ RequestFails(q)
  PROVE  IInv'
<1>0. request = [p \in Request |-> request[p]]
    BY DEF IInv, References
<1>1. CASE \E order \in Orders : ReadBoard(q, order)
    <2>1. PICK order \in Orders : ReadBoard(q, order)
        BY <1>1
    <2>2. /\ request' = [request EXCEPT ![q] = [kind |-> "order", order |-> order,
                                               read |-> position, alone |-> TRUE]]
          /\ UNCHANGED <<count, deps, raced>>
        BY <2>1 DEF ReadBoard, Begin
    <2>3. request'[q].kind = "order" /\ \A p \in Request \ {q} : request'[p] = request[p]
        BY <1>0, <2>2
    <2> QED
        BY <1>0, <2>2, <2>3, OtherRequests
<1>2. CASE \E i \in Item : OpenIssue(q, i)
    <2>1. PICK i \in Item : OpenIssue(q, i)
        BY <1>2
    <2>2. /\ request' = [request EXCEPT ![q] = [kind |-> "push", item |-> i, issue |-> issues'[i]]]
          /\ UNCHANGED <<count, deps, raced>>
        BY <2>1 DEF OpenIssue, Begin
    <2>3. request'[q].kind = "push" /\ \A p \in Request \ {q} : request'[p] = request[p]
        BY <1>0, <2>2
    <2> QED
        BY <1>0, <2>2, <2>3, OtherRequests
<1>3. CASE WriteBoard(q)
    <2>1. /\ request' = [p \in Request |-> IF p = q THEN Idle ELSE Overtaken(p)]
          /\ UNCHANGED <<count, deps, raced>>
        BY <1>3 DEF WriteBoard
    <2>2. \A p \in Request : request'[p].kind = "deps" => request'[p] = request[p]
        BY <2>1, OvertakenKind DEF Idle
    <2>3. request' = [p \in Request |-> request'[p]]
        BY <2>1
    <2> QED
        BY <2>1, <2>2, <2>3, OtherRequests
<1>4. CASE StoreLink(q) \/ RequestFails(q)
    <2>1. request' = [request EXCEPT ![q] = Idle] /\ UNCHANGED <<count, deps, raced>>
        BY <1>4 DEF StoreLink, RequestFails
    <2>2. request'[q].kind = "none" /\ \A p \in Request \ {q} : request'[p] = request[p]
        BY <1>0, <2>1 DEF Idle
    <2> QED
        BY <1>0, <2>1, <2>2, OtherRequests
<1> QED
    BY <1>1, <1>2, <1>3, <1>4

(* What the requests in progress have checked still holds, in every        *)
(* reachable state.                                                        *)
THEOREM Invariance == Spec => []IInv
<1>1. ASSUME IInv, [Next]_vars PROVE IInv'
    <2>1. CASE \E plan \in Plans : ImportRoadmap(plan)
        BY <1>1, <2>1, ImportInvariant
    <2>2. CASE \E S \in SUBSET Existing : CreateItem(S)
        BY <1>1, <2>2, CreateInvariant
    <2>3. ASSUME NEW i \in Item,
                 (\E s \in Status : SetStatus(i, s)) \/ (\E r \in Rank : SetPriority(i, r))
          PROVE  IInv'
        <3>1. UNCHANGED <<count, deps, raced, request>>
            BY <2>3 DEF SetStatus, SetPriority
        <3> QED
            BY <1>1, <3>1, OtherRequests DEF IInv, References
    <2>7. ASSUME NEW i \in Item, NEW p \in ByHand, SetPosition(i, p) PROVE IInv'
        <3>1. /\ UNCHANGED <<count, deps, raced>>
              /\ request' = [q \in Request |-> Overtaken(q)]
            BY <2>7 DEF SetPosition
        <3>2. \A q \in Request : request'[q].kind = "deps" => request'[q] = request[q]
            BY <3>1, OvertakenKind
        <3>3. request' = [q \in Request |-> request'[q]]
            BY <3>1
        <3> QED
            BY <1>1, <3>1, <3>2, <3>3, OtherRequests
    <2>8. CASE UNCHANGED vars
        BY <1>1, <2>8, OtherRequests DEF vars, IInv, References
    <2>4. ASSUME NEW q \in Request, NEW i \in Item, NEW S \in SUBSET Item, CheckDeps(q, i, S)
          PROVE  IInv'
        BY <1>1, <2>4, CheckInvariant
    <2>5. ASSUME NEW q \in Request, SaveDeps(q) PROVE IInv'
        BY <1>1, <2>5, SaveInvariant
    <2>6. ASSUME NEW q \in Request,
                 \/ \E order \in Orders : ReadBoard(q, order)
                 \/ \E i \in Item : OpenIssue(q, i)
                 \/ WriteBoard(q) \/ StoreLink(q) \/ RequestFails(q)
          PROVE  IInv'
        BY <1>1, <2>6, RequestInvariant
    <2> QED
        BY <1>1, <2>1, <2>2, <2>3, <2>4, <2>5, <2>6, <2>7, <2>8 DEF Next
<1> QED
    BY <1>1, InitInvariant, PTL DEF Spec

(* No item ever waits for itself, through any chain of dependencies,       *)
(* unless two changes of dependencies raced (work_items.py                 *)
(* _reject_dependency_cycles, scrum_master.py validate_roadmap).           *)
THEOREM NoCycles == Spec => []AcyclicUnlessRaced
<1>1. IInv => AcyclicUnlessRaced
    BY DEF IInv, Checked, AcyclicUnlessRaced
<1> QED
    BY <1>1, Invariance, PTL

-----------------------------------------------------------------------------
(* What a request keeps between its statements. *)
Pending ==
  {Idle} \cup [kind : {"deps"}, item : Item, deps : SUBSET Item]
         \cup [kind : {"order"}, order : Seq(Item), read : [Item -> Position], alone : BOOLEAN]
         \cup [kind : {"push"}, item : Item, issue : Nat]

(* A reorder that is not overtaken has read the positions that its items   *)
(* still have: only new items got one since.                               *)
Order(q) ==
  /\ IsInjective(request[q].order) /\ Range(request[q].order) \subseteq Existing
  /\ request[q].alone => \A i \in Range(request[q].order) : request[q].read[i] = position[i]

BoardInv ==
  /\ TypeOK /\ request \in [Request -> Pending]
  /\ \A q \in Request : request[q].kind = "order" => Order(q)

(* The place of an item in an order without repetitions is its index. *)
LEMMA PlaceOf ==
  ASSUME NEW order \in Seq(Item), IsInjective(order), NEW k \in DOMAIN order
  PROVE  Place(order, order[k]) = k - 1
<1>1. \A j \in DOMAIN order : order[j] = order[k] => j = k
  BY DEF IsInjective
<1>2. (CHOOSE j \in DOMAIN order : order[j] = order[k]) = k
  BY <1>1
<1> QED
  BY <1>2 DEF Place

LEMMA PlaceIsNat ==
  ASSUME NEW order \in Seq(Item), IsInjective(order), NEW i \in Range(order)
  PROVE  Place(order, i) \in Nat
<1>1. PICK k \in DOMAIN order : i = order[k]
  BY DEF Range
<1>2. k \in 1 .. Len(order)
  OBVIOUS
<1> QED
  BY <1>1, <1>2, PlaceOf

LEMMA BoardInit == Init => BoardInv
<1> SUFFICES ASSUME Init PROVE BoardInv
  OBVIOUS
<1>1. TypeOK
  <2>1. /\ 0 \in 0 .. MaxItems /\ 0 \in 0 .. MaxRequests /\ 0 \in Position /\ "proposed" \in Status
        /\ 0 \in Nat /\ PriorityRank \in [Item -> Rank]
    BY BacklogAssumption DEF Status, Position, Item
  <2> QED
    BY <2>1 DEF Init, TypeOK
<1>2. Idle \in Pending /\ Idle.kind = "none"
  BY DEF Pending, Idle
<1> QED
  BY <1>1, <1>2 DEF Init, BoardInv

(* A step that begins or ends one request that is not a reorder, or begins *)
(* a reorder, and leaves the board's items where they are.                 *)
LEMMA RequestChanges ==
  ASSUME BoardInv, TypeOK', NEW q \in Request, NEW r \in Pending,
         request' = [request EXCEPT ![q] = r],
         r.kind = "order" => Order(q)',
         UNCHANGED <<count, position>>
  PROVE  BoardInv'
<1> USE DEF BoardInv
<1>1. request' \in [Request -> Pending] /\ request'[q] = r
  OBVIOUS
<1>2. ASSUME NEW p \in Request, request'[p].kind = "order" PROVE Order(p)'
  <2>1. CASE p = q
    BY <1>1, <1>2, <2>1
  <2>2. CASE p # q
    <3>1. request'[p] = request[p]
      BY <2>2
    <3> QED
      BY <1>2, <3>1 DEF Order, Existing
  <2> QED
    BY <2>1, <2>2
<1> QED
  BY <1>1, <1>2

(* New items and nothing else: no pending reorder names one. *)
LEMMA ItemsAppear ==
  ASSUME BoardInv, TypeOK', count <= count', request' = request,
         \A i \in Existing : position'[i] = position[i]
  PROVE  BoardInv'
<1>1. Existing \subseteq Existing'
  BY BacklogAssumption DEF BoardInv, TypeOK, Existing
<1>2. ASSUME NEW q \in Request, request[q].kind = "order" PROVE Order(q)'
  <2>1. Order(q)
    BY <1>2 DEF BoardInv
  <2> QED
    BY <1>1, <2>1 DEF Order
<1> QED
  BY <1>2 DEF BoardInv

LEMMA BoardImport ==
  ASSUME BoardInv, NEW plan \in Plans, ImportRoadmap(plan)
  PROVE  BoardInv'
<1>1. /\ count \in 0 .. MaxItems /\ MaxItems \in Nat
      /\ deps \in [Item -> SUBSET Item] /\ position \in [Item -> Position]
  BY BacklogAssumption DEF BoardInv, TypeOK
<1>2. PICK n \in 1 .. MaxItems - count : plan \in [1 .. n -> SUBSET (1 .. n)]
  BY DEF Plans
<1>3. n \in Nat /\ Len(plan) = n /\ count' = count + n /\ count + n \in 0 .. MaxItems
  <2>1. n \in Nat /\ count + n \in 0 .. MaxItems
    BY <1>1, <1>2
  <2>2. plan \in Seq(SUBSET (1 .. n)) /\ Len(plan) = n
    BY <1>2, <2>1
  <2> QED
    BY <2>1, <2>2 DEF ImportRoadmap
<1> DEFINE New == count + 1 .. count + n
<1>4. /\ deps' = [i \in Item |-> IF i \in New THEN {count + d : d \in plan[i - count]} ELSE deps[i]]
      /\ position' = [i \in Item |-> IF i \in New THEN i - count - 1 ELSE position[i]]
      /\ UNCHANGED <<status, rank, issues, link, request, raced, started>>
  BY <1>3 DEF ImportRoadmap
<1>5. position' \in [Item -> Position]
  <2>1. \A i \in Item : i \in New => i - count - 1 \in Position
    BY <1>1, <1>3 DEF Position
  <2> QED
    BY <1>1, <1>4, <2>1
<1>6. deps' \in [Item -> SUBSET Item]
  <2>1. ASSUME NEW i \in Item, i \in New, NEW d \in plan[i - count] PROVE count + d \in Item
    <3>1. i - count \in 1 .. n
      BY <1>1, <1>3, <2>1
    <3>2. d \in 1 .. n
      BY <1>2, <2>1, <3>1
    <3> QED
      BY <1>1, <1>3, <3>2 DEF Item
  <2>2. \A i \in Item : (IF i \in New THEN {count + d : d \in plan[i - count]} ELSE deps[i]) \in SUBSET Item
    BY <1>1, <2>1
  <2> QED
    BY <1>4, <2>2
<1>7. TypeOK'
  BY <1>3, <1>4, <1>5, <1>6 DEF BoardInv, TypeOK
<1>8. \A i \in Existing : position'[i] = position[i]
  BY <1>1, <1>3, <1>4 DEF Existing, Item
<1> QED
  BY <1>1, <1>3, <1>4, <1>7, <1>8, ItemsAppear

LEMMA BoardCreate ==
  ASSUME BoardInv, NEW S \in SUBSET Existing, CreateItem(S)
  PROVE  BoardInv'
<1>1. /\ count \in 0 .. MaxItems /\ MaxItems \in Nat /\ count < MaxItems
      /\ deps \in [Item -> SUBSET Item]
  BY BacklogAssumption DEF BoardInv, TypeOK, CreateItem
<1>2. /\ count' = count + 1 /\ deps' = [deps EXCEPT ![count'] = S]
      /\ UNCHANGED <<status, rank, position, issues, link, request, raced, started>>
  BY DEF CreateItem
<1>3. count' \in 0 .. MaxItems /\ count' \in Item /\ S \subseteq Item
  BY <1>1, <1>2 DEF Existing, Item
<1>4. deps' \in [Item -> SUBSET Item]
  BY <1>1, <1>2, <1>3
<1>5. TypeOK'
  BY <1>2, <1>3, <1>4 DEF BoardInv, TypeOK
<1> QED
  BY <1>1, <1>2, <1>5, ItemsAppear

(* Reorders that are overtaken promise nothing about positions any more. *)
LEMMA BoardOvertaken ==
  ASSUME BoardInv, TypeOK', count' = count, NEW S \in SUBSET Request,
         request' = [p \in Request |-> IF p \in S THEN Idle ELSE Overtaken(p)]
  PROVE  BoardInv'
<1>1. ASSUME NEW p \in Request
      PROVE  /\ request'[p] \in Pending
             /\ request'[p].kind = "order" =>
                  /\ request[p].kind = "order" /\ request'[p].order = request[p].order
                  /\ ~request'[p].alone
  <2>1. request'[p] = IF p \in S THEN Idle ELSE Overtaken(p)
    OBVIOUS
  <2>2. request[p] \in Pending
    BY DEF BoardInv
  <2>3. CASE p \in S
    BY <2>1, <2>3 DEF Pending, Idle
  <2>4. CASE p \notin S /\ request[p].kind = "order"
    <3>1. request[p] \in [kind : {"order"}, order : Seq(Item), read : [Item -> Position], alone : BOOLEAN]
      BY <2>2, <2>4 DEF Pending, Idle
    <3>2. request'[p] = [request[p] EXCEPT !.alone = FALSE]
      BY <2>1, <2>4 DEF Overtaken
    <3>3. /\ request'[p] \in [kind : {"order"}, order : Seq(Item), read : [Item -> Position], alone : BOOLEAN]
          /\ request'[p].order = request[p].order /\ ~request'[p].alone
      BY <3>1, <3>2
    <3> QED
      BY <2>4, <3>3 DEF Pending
  <2>5. CASE p \notin S /\ request[p].kind # "order"
    BY <2>1, <2>2, <2>5 DEF Overtaken
  <2> QED
    BY <2>3, <2>4, <2>5
<1>2. request' \in [Request -> Pending]
  BY <1>1
<1>3. ASSUME NEW p \in Request, request'[p].kind = "order" PROVE Order(p)'
  <2>1. Order(p)
    BY <1>1, <1>3 DEF BoardInv
  <2> QED
    BY <1>1, <1>3, <2>1 DEF Order, Existing
<1> QED
  BY <1>2, <1>3 DEF BoardInv

LEMMA BoardWritten ==
  ASSUME BoardInv, NEW q \in Request, WriteBoard(q)
  PROVE  BoardInv'
<1> DEFINE r == request[q]
<1>1. /\ r.kind = "order" /\ Order(q) /\ r \in Pending
      /\ request \in [Request -> Pending] /\ position \in [Item -> Position]
  BY DEF BoardInv, WriteBoard, TypeOK
<1>2. r.order \in Seq(Item)
  BY <1>1 DEF Pending, Idle
<1>3. position' = [i \in Item |-> IF i \in Range(r.order) /\ Place(r.order, i) # r.read[i]
                                  THEN Place(r.order, i) ELSE position[i]]
  BY DEF WriteBoard
<1>4. position' \in [Item -> Position]
  <2>1. \A i \in Range(r.order) : Place(r.order, i) \in Nat
    BY <1>1, <1>2, PlaceIsNat DEF Order
  <2> HIDE DEF r
  <2> QED
    BY <1>1, <1>3, <2>1 DEF Position
<1>5. TypeOK'
  BY <1>4 DEF BoardInv, TypeOK, WriteBoard
<1>6. count' = count /\ request' = [p \in Request |-> IF p \in {q} THEN Idle ELSE Overtaken(p)]
  BY DEF WriteBoard
<1> QED
  BY <1>5, <1>6, BoardOvertaken

LEMMA BoardRequests ==
  ASSUME BoardInv, NEW q \in Request,
         \/ \E i \in Item, S \in SUBSET Item : CheckDeps(q, i, S)
         \/ \E order \in Orders : ReadBoard(q, order)
         \/ \E i \in Item : OpenIssue(q, i)
         \/ SaveDeps(q) \/ StoreLink(q) \/ RequestFails(q)
  PROVE  BoardInv'
<1>1. /\ TypeOK /\ request \in [Request -> Pending] /\ request[q] \in Pending
      /\ started \in 0 .. MaxRequests /\ MaxRequests \in Nat
  BY BacklogAssumption DEF BoardInv, TypeOK
<1>2. Idle \in Pending /\ Idle.kind = "none"
  BY DEF Pending, Idle
<1>3. ASSUME NEW i \in Item, NEW S \in SUBSET Item, CheckDeps(q, i, S) PROVE BoardInv'
  <2> DEFINE r == [kind |-> "deps", item |-> i, deps |-> S]
  <2>1. r \in Pending /\ r.kind # "order"
    BY DEF Pending
  <2> HIDE DEF r
  <2>2. request' = [request EXCEPT ![q] = r] /\ UNCHANGED <<count, position>>
    BY <1>3 DEF CheckDeps, Begin, r
  <2>3. started' \in 0 .. MaxRequests
    BY <1>1, <1>3 DEF CheckDeps, Begin
  <2>4. TypeOK'
    BY <1>1, <1>3, <2>3 DEF CheckDeps, TypeOK
  <2> QED
    BY <2>1, <2>2, <2>4, RequestChanges
<1>4. ASSUME NEW order \in Orders, ReadBoard(q, order) PROVE BoardInv'
  <2> DEFINE r == [kind |-> "order", order |-> order, read |-> position, alone |-> TRUE]
  <2>1. order \in Seq(Item) /\ IsInjective(order) /\ Range(order) \subseteq Existing
    <3>1. PICK n \in 2 .. count : order \in [1 .. n -> Existing] /\ IsInjective(order)
      BY DEF Orders
    <3>2. n \in Nat /\ Existing \subseteq Item
      BY <1>1, BacklogAssumption, <3>1 DEF TypeOK, Existing, Item
    <3>3. order \in Seq(Item)
      BY <3>1, <3>2
    <3> QED
      BY <3>1, <3>3 DEF Range
  <2>2. position \in [Item -> Position]
    BY <1>1 DEF TypeOK
  <2>3. r \in Pending
    <3>1. r \in [kind : {"order"}, order : Seq(Item), read : [Item -> Position], alone : BOOLEAN]
      BY <2>1, <2>2
    <3> QED
      BY <3>1 DEF Pending
  <2>4. r.order = order /\ r.read = position
    OBVIOUS
  <2> HIDE DEF r
  <2>5. request' = [request EXCEPT ![q] = r] /\ UNCHANGED <<count, position>>
    BY <1>4 DEF ReadBoard, Begin, r
  <2>6. started' \in 0 .. MaxRequests
    BY <1>1, <1>4 DEF ReadBoard, Begin
  <2>7. TypeOK'
    BY <1>1, <1>4, <2>6 DEF ReadBoard, TypeOK
  <2>8. Order(q)'
    BY <1>1, <2>1, <2>4, <2>5 DEF Order, Existing
  <2> QED
    BY <2>3, <2>5, <2>7, <2>8, RequestChanges
<1>5. ASSUME NEW i \in Item, OpenIssue(q, i) PROVE BoardInv'
  <2> DEFINE r == [kind |-> "push", item |-> i, issue |-> issues'[i]]
  <2>1. issues' \in [Item -> Nat]
    BY <1>1, <1>5 DEF OpenIssue, TypeOK
  <2>2. r \in Pending /\ r.kind # "order"
    BY <2>1 DEF Pending
  <2> HIDE DEF r
  <2>3. request' = [request EXCEPT ![q] = r] /\ UNCHANGED <<count, position>>
    BY <1>5 DEF OpenIssue, Begin, r
  <2>4. started' \in 0 .. MaxRequests
    BY <1>1, <1>5 DEF OpenIssue, Begin
  <2>5. TypeOK'
    BY <1>1, <1>5, <2>1, <2>4 DEF OpenIssue, TypeOK
  <2> QED
    BY <2>2, <2>3, <2>5, RequestChanges
<1>6. CASE SaveDeps(q)
  <2>1. request[q].item \in Item /\ request[q].deps \in SUBSET Item
    BY <1>1, <1>6 DEF SaveDeps, Pending, Idle
  <2>2. deps' \in [Item -> SUBSET Item]
    BY <1>1, <1>6, <2>1 DEF SaveDeps, TypeOK
  <2>3. raced' \in BOOLEAN
    BY <1>6 DEF SaveDeps
  <2>4. TypeOK'
    BY <1>1, <1>6, <2>2, <2>3 DEF SaveDeps, TypeOK
  <2>5. request' = [request EXCEPT ![q] = Idle] /\ UNCHANGED <<count, position>>
    BY <1>6 DEF SaveDeps
  <2> QED
    BY <1>2, <2>4, <2>5, RequestChanges
<1>7. CASE StoreLink(q)
  <2>1. request[q].item \in Item /\ request[q].issue \in Nat
    BY <1>1, <1>7 DEF StoreLink, Pending, Idle
  <2>2. link' \in [Item -> Nat]
    BY <1>1, <1>7, <2>1 DEF StoreLink, TypeOK
  <2>3. TypeOK'
    BY <1>1, <1>7, <2>2 DEF StoreLink, TypeOK
  <2>4. request' = [request EXCEPT ![q] = Idle] /\ UNCHANGED <<count, position>>
    BY <1>7 DEF StoreLink
  <2> QED
    BY <1>2, <2>3, <2>4, RequestChanges
<1>8. CASE RequestFails(q)
  <2>1. TypeOK'
    BY <1>1, <1>8 DEF RequestFails, TypeOK
  <2>2. request' = [request EXCEPT ![q] = Idle] /\ UNCHANGED <<count, position>>
    BY <1>8 DEF RequestFails
  <2> QED
    BY <1>2, <2>1, <2>2, RequestChanges
<1> QED
  BY <1>3, <1>4, <1>5, <1>6, <1>7, <1>8

(* What a request knows of the board stays true while it is pending. *)
THEOREM Boards == Spec => []BoardInv
<1>1. ASSUME BoardInv, [Next]_vars PROVE BoardInv'
  <2>1. CASE \E plan \in Plans : ImportRoadmap(plan)
    BY <1>1, <2>1, BoardImport
  <2>2. CASE \E S \in SUBSET Existing : CreateItem(S)
    BY <1>1, <2>2, BoardCreate
  <2>3. ASSUME NEW i \in Item, NEW s \in Status, SetStatus(i, s) PROVE BoardInv'
    <3>1. TypeOK /\ started' \in 0 .. MaxRequests
      BY <1>1, <2>3, BacklogAssumption DEF BoardInv, TypeOK, SetStatus, Changes
    <3>2. status' \in [Item -> Status]
      BY <2>3, <3>1 DEF SetStatus, TypeOK
    <3>3. TypeOK'
      BY <2>3, <3>1, <3>2 DEF SetStatus, TypeOK
    <3>4. count <= count' /\ UNCHANGED <<request, position>>
      BY <2>3, <3>1, BacklogAssumption DEF SetStatus, TypeOK
    <3> QED
      BY <1>1, <3>3, <3>4, ItemsAppear
  <2>7. ASSUME NEW i \in Item, NEW r \in Rank, SetPriority(i, r) PROVE BoardInv'
    <3>1. TypeOK /\ started' \in 0 .. MaxRequests
      BY <1>1, <2>7, BacklogAssumption DEF BoardInv, TypeOK, SetPriority, Changes
    <3>2. rank' \in [Item -> Rank]
      BY <2>7, <3>1 DEF SetPriority, TypeOK
    <3>3. TypeOK'
      BY <2>7, <3>1, <3>2 DEF SetPriority, TypeOK
    <3>4. count <= count' /\ UNCHANGED <<request, position>>
      BY <2>7, <3>1, BacklogAssumption DEF SetPriority, TypeOK
    <3> QED
      BY <1>1, <3>3, <3>4, ItemsAppear
  <2>8. ASSUME NEW i \in Item, NEW p \in ByHand, SetPosition(i, p) PROVE BoardInv'
    <3>1. TypeOK /\ started' \in 0 .. MaxRequests
      BY <1>1, <2>8, BacklogAssumption DEF BoardInv, TypeOK, SetPosition, Changes
    <3>2. position' \in [Item -> Position]
      BY <2>8, <3>1 DEF SetPosition, TypeOK, Position
    <3>3. TypeOK'
      BY <2>8, <3>1, <3>2 DEF SetPosition, TypeOK
    <3> DEFINE none == {}
    <3>4. count' = count /\ request' = [q \in Request |-> IF q \in none THEN Idle ELSE Overtaken(q)]
      BY <2>8 DEF SetPosition
    <3>5. none \in SUBSET Request
      OBVIOUS
    <3> HIDE DEF none
    <3> QED
      BY <1>1, <3>3, <3>4, <3>5, BoardOvertaken
  <2>4. ASSUME NEW q \in Request, WriteBoard(q) PROVE BoardInv'
    BY <1>1, <2>4, BoardWritten
  <2>5. ASSUME NEW q \in Request,
               \/ \E i \in Item, S \in SUBSET Item : CheckDeps(q, i, S)
               \/ \E order \in Orders : ReadBoard(q, order)
               \/ \E i \in Item : OpenIssue(q, i)
               \/ SaveDeps(q) \/ StoreLink(q) \/ RequestFails(q)
        PROVE  BoardInv'
    BY <1>1, <2>5, BoardRequests
  <2>6. CASE UNCHANGED vars
    BY <1>1, <2>6 DEF BoardInv, TypeOK, Order, Existing, vars
  <2> QED
    BY <1>1, <2>1, <2>2, <2>3, <2>4, <2>5, <2>6, <2>7, <2>8 DEF Next
<1> QED
  BY <1>1, BoardInit, PTL DEF Spec

(* A reorder that no other, and no position set by hand, has overtaken     *)
(* leaves the board in the order asked for, although it writes only the    *)
(* positions that differ from those it read, and items are imported and    *)
(* changed meanwhile (work_items.py update_work_item, reorder_work_items). *)
THEOREM ReordersHold == Spec => BoardIsAsAsked
<1>1. ASSUME BoardInv, NEW q \in Request, WriteBoard(q), request[q].alone,
             NEW k \in DOMAIN request[q].order
      PROVE  position'[request[q].order[k]] = k - 1
  <2> DEFINE r == request[q]
             i == r.order[k]
  <2>1. /\ r.kind = "order" /\ Order(q) /\ r \in Pending
    BY <1>1 DEF BoardInv, WriteBoard
  <2>2. r.order \in Seq(Item)
    BY <2>1 DEF Pending, Idle
  <2>3. i \in Item /\ i \in Range(r.order)
    BY <2>2 DEF Range
  <2>4. Place(r.order, i) = k - 1
    BY <2>1, <2>2, PlaceOf DEF Order
  <2>5. r.read[i] = position[i]
    BY <1>1, <2>1, <2>3 DEF Order
  <2>6. position'[i] = IF i \in Range(r.order) /\ Place(r.order, i) # r.read[i]
                       THEN Place(r.order, i) ELSE position[i]
    BY <1>1, <2>3 DEF WriteBoard
  <2> HIDE DEF i, r
  <2>7. position'[i] = k - 1
    BY <2>3, <2>4, <2>5, <2>6
  <2> QED
    BY <2>7 DEF i, r
<1>2. ASSUME BoardInv, NEW q \in Request, WriteBoard(q) /\ request[q].alone,
             NEW k \in DOMAIN request[q].order, NEW l \in DOMAIN request[q].order, k < l
      PROVE  position'[request[q].order[k]] < position'[request[q].order[l]]
  <2>1. request[q].order \in Seq(Item)
    BY <1>2 DEF BoardInv, WriteBoard, Pending, Idle
  <2>2. k \in Int /\ l \in Int
    BY <2>1
  <2>3. position'[request[q].order[k]] = k - 1 /\ position'[request[q].order[l]] = l - 1
    BY <1>1, <1>2
  <2> QED
    BY <1>2, <2>2, <2>3
<1>3. BoardInv => \A q \in Request : WriteBoard(q) /\ request[q].alone =>
        \A k, l \in DOMAIN request[q].order :
          k < l => position'[request[q].order[k]] < position'[request[q].order[l]]
  BY <1>2
<1> QED
  BY <1>3, Boards, PTL DEF BoardIsAsAsked

-----------------------------------------------------------------------------
(* A non-empty set of naturals has a smallest one. *)
LEMMA Smallest ==
  ASSUME NEW T \in SUBSET Nat, T # {}
  PROVE  \E i \in T : \A j \in T : i <= j
<1> DEFINE R == OpToRel(<, Nat)
<1>1. PICK i \in T : \A j \in T : <<j, i>> \notin R
  <2> HIDE DEF R
  <2> QED
    BY NatLessThanWellFounded, WFMin DEF R
<1>2. \A j \in T : ~(j < i)
  BY <1>1 DEF OpToRel
<1> QED
  BY <1>2

(* Among items of which some can be started there is a best one: the most  *)
(* urgent, then the first on the board, then the oldest.                   *)
LEMMA BestItem ==
  ASSUME TypeOK, NEW C \in SUBSET Item, C # {}
  PROVE  \E i \in C : \A j \in C \ {i} : Before(i, j)
<1>1. /\ rank \in [Item -> Nat] /\ position \in [Item -> Int] /\ Item \subseteq Nat
      /\ Lowest \in Int /\ \A j \in Item : Lowest <= position[j]
  <2>1. Position \subseteq Int /\ \A p \in Position : Lowest <= p
    BY BacklogAssumption DEF Position
  <2>2. rank \in [Item -> Rank] /\ position \in [Item -> Position] /\ Rank \subseteq Nat
    BY BacklogAssumption DEF TypeOK
  <2>3. rank \in [Item -> Nat] /\ position \in [Item -> Int]
    BY <2>1, <2>2
  <2>4. Item \subseteq Nat /\ Lowest \in Int
    BY BacklogAssumption DEF Item
  <2> QED
    BY <2>1, <2>2, <2>3, <2>4
<1>2. PICK a \in C : \A j \in C : rank[a] <= rank[j]
  <2> DEFINE V == {rank[j] : j \in C}
  <2>1. V \in SUBSET Nat /\ V # {}
    BY <1>1
  <2>2. PICK v \in V : \A w \in V : v <= w
    <3> HIDE DEF V
    <3> QED
      BY <2>1, Smallest
  <2> QED
    BY <2>2
<1> DEFINE D == {j \in C : rank[j] = rank[a]}
<1>3. PICK b \in D : \A j \in D : position[b] <= position[j]
  <2> DEFINE V == {position[j] - Lowest : j \in D}
  <2>1. V \in SUBSET Nat /\ V # {}
    BY <1>1
  <2>2. PICK v \in V : \A w \in V : v <= w
    <3> HIDE DEF V
    <3> QED
      BY <2>1, Smallest
  <2>3. PICK b \in D : v = position[b] - Lowest
    OBVIOUS
  <2>4. \A j \in D : position[b] - Lowest <= position[j] - Lowest
    BY <2>2, <2>3
  <2>5. \A j \in D : position[j] \in Int
    BY <1>1
  <2> QED
    BY <1>1, <2>3, <2>4, <2>5
<1> DEFINE E == {j \in D : position[j] = position[b]}
<1>4. PICK c \in E : \A j \in E : c <= j
  <2>1. E \in SUBSET Nat /\ E # {}
    BY <1>1, <1>3
  <2> HIDE DEF E
  <2> QED
    BY <2>1, Smallest
<1>5. ASSUME NEW j \in C \ {c} PROVE Before(c, j)
  <2>1. /\ rank[j] \in Nat /\ position[j] \in Int /\ j \in Nat
        /\ rank[c] \in Nat /\ position[c] \in Int /\ c \in Nat
        /\ rank[c] = rank[a] /\ position[c] = position[b]
    BY <1>1, <1>4
  <2>2. CASE j \notin D
    BY <1>2, <2>1, <2>2 DEF Before
  <2>3. CASE j \in D /\ j \notin E
    BY <1>3, <2>1, <2>3 DEF Before
  <2>4. CASE j \in E
    BY <1>4, <2>1, <2>4 DEF Before
  <2> QED
    BY <2>2, <2>3, <2>4
<1> QED
  BY <1>4, <1>5

(* plan_insights always has a next item to recommend while work is open,   *)
(* none of it cancelled and no two changes of dependencies raced, or the   *)
(* work in progress has nothing to wait for (planning/insights.py).        *)
THEOREM NoPlanIsStuck == Spec => []SomethingCanBeDone
<1>1. IInv /\ BoardInv => SomethingCanBeDone
  <2> SUFFICES ASSUME IInv, BoardInv, ~raced, Settled # Existing,
                      \A i \in Existing : status[i] # "cancelled",
                      \A i \in Existing : ~(status[i] = "in_progress" /\ Waiting(i) = {})
               PROVE  Recommended # {}
    BY DEF SomethingCanBeDone
  <2> DEFINE T == Existing \ Settled
  <2>1. /\ Acyclic(deps) /\ TypeOK /\ Existing \subseteq Item
        /\ \A i \in Item : deps[i] \subseteq Existing
    BY BacklogAssumption DEF IInv, Checked, References, BoardInv, Existing, Item
  <2>2. T \in SUBSET Item /\ T # {}
    BY <2>1 DEF Settled
  <2>3. PICK i \in T : deps[i] \cap T = {}
    <3> HIDE DEF T
    <3> QED
      BY <2>1, <2>2 DEF Acyclic
  <2>4. Waiting(i) = {}
    BY <2>1, <2>3 DEF Settled, Waiting
  <2>5. status[i] \in {"proposed", "blocked"}
    BY <2>1, <2>2, <2>4 DEF Settled, TypeOK, Status
  <2>6. i \in Candidates
    BY <2>4, <2>5 DEF Candidates, Startable
  <2>7. Candidates \in SUBSET Item
    BY <2>1 DEF Candidates, Startable
  <2>8. PICK best \in Candidates : \A j \in Candidates \ {best} : Before(best, j)
    BY <2>1, <2>6, <2>7, BestItem
  <2> QED
    BY <2>8 DEF Recommended
<1> QED
  BY <1>1, Invariance, Boards, PTL
=============================================================================
