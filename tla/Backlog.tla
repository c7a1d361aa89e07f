------------------------------ MODULE Backlog ------------------------------
(***************************************************************************)
(* The work items of one repository: roadmaps that are imported, items     *)
(* that are created and changed, boards that are reordered, and issues     *)
(* that are opened for them (api/work_items.py, agents/scrum_master.py,    *)
(* planning/insights.py).  A request reads in one statement and writes in  *)
(* a later one; other requests run in between.                             *)
(*                                                                         *)
(* Items are numbered as they are created; none is ever deleted.           *)
(***************************************************************************)
EXTENDS Integers, FiniteSets, SequencesExt

CONSTANTS
  MaxItems,     \* items of the repository (bounds the model)
  Rank,         \* the priorities, as numbers: the lowest is the most urgent
  PriorityRank, \* the priority each item is created with
  Lowest,       \* the smallest number of an integer column
  ByHand,       \* positions that people set by hand
  Request,      \* requests in progress at once
  MaxRequests   \* bounds the model

ASSUME BacklogAssumption ==
  /\ MaxItems \in Nat /\ MaxRequests \in Nat
  /\ Rank \in SUBSET Nat /\ PriorityRank \in [1 .. MaxItems -> Rank]
  /\ Lowest \in Int /\ Lowest <= 0 /\ \A p \in ByHand : p \in Int /\ Lowest <= p

Item == 1 .. MaxItems
Position == Nat \cup ByHand
(* "ready" is left out: nothing tells it from "proposed". *)
Status == {"proposed", "blocked", "in_progress", "done", "cancelled"}

VARIABLES
  count,      \* items created
  status, deps, rank, position,
  issues,     \* issues opened in the tracker for each item
  link,       \* the issue the item shows; 0 is none
  request,    \* requests between reading and writing
  raced,      \* a change of dependencies was committed while another was checked
  started     \* requests so far

vars == <<count, status, deps, rank, position, issues, link, request, raced, started>>

Existing == 1 .. count
Idle == [kind |-> "none"]

TypeOK ==
  /\ count \in 0 .. MaxItems /\ status \in [Item -> Status]
  /\ deps \in [Item -> SUBSET Item] /\ rank \in [Item -> Rank]
  /\ position \in [Item -> Position]
  /\ issues \in [Item -> Nat] /\ link \in [Item -> Nat]
  /\ raced \in BOOLEAN /\ started \in 0 .. MaxRequests

Init ==
  /\ count = 0 /\ status = [i \in Item |-> "proposed"] /\ deps = [i \in Item |-> {}]
  /\ rank = PriorityRank /\ position = [i \in Item |-> 0]
  /\ issues = [i \in Item |-> 0] /\ link = [i \in Item |-> 0]
  /\ request = [q \in Request |-> Idle] /\ raced = FALSE /\ started = 0

-----------------------------------------------------------------------------
(* validate_roadmap: dependencies are positions of earlier items. *)
ValidRoadmap(plan) == \A k \in DOMAIN plan : \A d \in plan[k] : 1 <= d /\ d < k

(* persist_roadmap: the items get positions from 0, beside those the board *)
(* has, and dependencies on each other; a plan that is refused twice is    *)
(* an error, and changes nothing.                                          *)
ImportRoadmap(plan) ==
  /\ ValidRoadmap(plan)
  /\ count' = count + Len(plan)
  /\ LET New == count + 1 .. count'
     IN  /\ deps' = [i \in Item |-> IF i \in New THEN {count + d : d \in plan[i - count]} ELSE deps[i]]
         /\ position' = [i \in Item |-> IF i \in New THEN i - count - 1 ELSE position[i]]
  /\ UNCHANGED <<status, rank, issues, link, request, raced, started>>

(* create_work_item: nothing can depend on the new item yet. *)
CreateItem(S) ==
  /\ count < MaxItems /\ S \subseteq Existing
  /\ count' = count + 1 /\ deps' = [deps EXCEPT ![count'] = S]
  /\ UNCHANGED <<status, rank, position, issues, link, request, raced, started>>

(* update_work_item without dependencies writes the fields that differ     *)
(* from what it has read: a status, a priority, a position.                *)
Changes(i) == i \in Existing /\ started < MaxRequests /\ started' = started + 1

SetStatus(i, s) ==
  /\ Changes(i) /\ s # status[i] /\ status' = [status EXCEPT ![i] = s]
  /\ UNCHANGED <<count, deps, rank, position, issues, link, request, raced>>

SetPriority(i, r) ==
  /\ Changes(i) /\ r # rank[i] /\ rank' = [rank EXCEPT ![i] = r]
  /\ UNCHANGED <<count, status, deps, position, issues, link, request, raced>>

(* Reorders that have read the board are overtaken. *)
Overtaken(q) ==
  IF request[q].kind = "order" THEN [request[q] EXCEPT !.alone = FALSE] ELSE request[q]

SetPosition(i, p) ==
  /\ Changes(i) /\ p # position[i] /\ position' = [position EXCEPT ![i] = p]
  /\ request' = [q \in Request |-> Overtaken(q)]
  /\ UNCHANGED <<count, status, deps, rank, issues, link, raced>>

-----------------------------------------------------------------------------
Begin(q, r) ==
  /\ request[q] = Idle /\ started < MaxRequests /\ started' = started + 1
  /\ request' = [request EXCEPT ![q] = r]

(* (mutant) Only the proposed dependencies themselves are looked at. *)
Reaches_Directly(i, S, graph) == \E d \in S : i \in graph[d]

(* _reject_dependency_cycles: the walk from the new dependencies visits    *)
(* the smallest set that holds them and all that its members depend on.    *)
Closed(C, graph) == \A d \in C : graph[d] \subseteq C
Reaches(i, S, graph) == \A C \in SUBSET Item : S \subseteq C /\ Closed(C, graph) => i \in C

(* _validate_dependencies: an item is dropped from its own dependencies;   *)
(* unknown items and cycles are refused.                                   *)
CheckDeps(q, i, S) ==
  /\ i \in Existing /\ S \subseteq Existing \ {i} /\ S # deps[i] /\ ~Reaches(i, S, deps)
  /\ Begin(q, [kind |-> "deps", item |-> i, deps |-> S])
  /\ UNCHANGED <<count, status, deps, rank, position, issues, link, raced>>

SaveDeps(q) ==
  /\ request[q].kind = "deps"
  /\ deps' = [deps EXCEPT ![request[q].item] = request[q].deps]
  /\ raced' = (raced \/ \E p \in Request \ {q} : request[p].kind = "deps")
  /\ request' = [request EXCEPT ![q] = Idle]
  /\ UNCHANGED <<count, status, rank, position, issues, link, started>>

(* reorder_work_items reads the board, and writes the positions that       *)
(* differ from those it has read.                                          *)
ReadBoard(q, order) ==
  /\ Begin(q, [kind |-> "order", order |-> order, read |-> position, alone |-> TRUE])
  /\ UNCHANGED <<count, status, deps, rank, position, issues, link, raced>>

(* (mutant) Positions count from the end. *)
Place_Reversed(order, i) == Len(order) - CHOOSE k \in DOMAIN order : order[k] = i

Place(order, i) == (CHOOSE k \in DOMAIN order : order[k] = i) - 1

WriteBoard(q) ==
  LET r == request[q] IN
  /\ r.kind = "order"
  /\ position' = [i \in Item |-> IF i \in Range(r.order) /\ Place(r.order, i) # r.read[i]
                                 THEN Place(r.order, i) ELSE position[i]]
  /\ request' = [p \in Request |-> IF p = q THEN Idle ELSE Overtaken(p)]
  /\ UNCHANGED <<count, status, deps, rank, issues, link, raced, started>>

(* push_work_item opens an issue, then stores the link; nothing looks      *)
(* whether the item has one.                                               *)
OpenIssue(q, i) ==
  /\ i \in Existing /\ issues' = [issues EXCEPT ![i] = @ + 1]
  /\ Begin(q, [kind |-> "push", item |-> i, issue |-> issues'[i]])
  /\ UNCHANGED <<count, status, deps, rank, position, link, raced>>

StoreLink(q) ==
  /\ request[q].kind = "push"
  /\ link' = [link EXCEPT ![request[q].item] = request[q].issue]
  /\ request' = [request EXCEPT ![q] = Idle]
  /\ UNCHANGED <<count, status, deps, rank, position, issues, raced, started>>

(* The engine stops, or the database fails, before the write. *)
RequestFails(q) ==
  /\ request[q] # Idle /\ request' = [request EXCEPT ![q] = Idle]
  /\ UNCHANGED <<count, status, deps, rank, position, issues, link, raced, started>>

-----------------------------------------------------------------------------
Plans == UNION {[1 .. n -> SUBSET (1 .. n)] : n \in 1 .. MaxItems - count}
Orders == {s \in UNION {[1 .. n -> Existing] : n \in 2 .. count} : IsInjective(s)}

Next ==
  \/ \E plan \in Plans : ImportRoadmap(plan)
  \/ \E S \in SUBSET Existing : CreateItem(S)
  \/ \E i \in Item :
       \/ \E s \in Status : SetStatus(i, s)
       \/ \E r \in Rank : SetPriority(i, r)
       \/ \E p \in ByHand : SetPosition(i, p)
  \/ \E q \in Request :
       \/ \E i \in Item, S \in SUBSET Item : CheckDeps(q, i, S)
       \/ \E order \in Orders : ReadBoard(q, order)
       \/ \E i \in Item : OpenIssue(q, i)
       \/ SaveDeps(q) \/ WriteBoard(q) \/ StoreLink(q) \/ RequestFails(q)

Spec == Init /\ [][Next]_vars

-----------------------------------------------------------------------------
(* plan_insights. *)
Settled == {i \in Existing : status[i] \in {"done", "cancelled"}}
Waiting(i) == {d \in deps[i] : status[d] # "done"}

(* (mutant) An item marked blocked by hand is never proposed again. *)
Startable_NotBlocked == {i \in Existing : status[i] = "proposed"}

Startable == {i \in Existing : status[i] \in {"proposed", "blocked"}}

Candidates == {i \in Startable : Waiting(i) = {}}
Before(i, j) ==
  \/ rank[i] < rank[j]
  \/ rank[i] = rank[j] /\ position[i] < position[j]
  \/ rank[i] = rank[j] /\ position[i] = position[j] /\ i < j
Recommended == {i \in Candidates : \A j \in Candidates \ {i} : Before(i, j)}

(* No item waits for itself, unless two changes of dependencies were       *)
(* checked against the same graph.                                         *)
Acyclic(graph) ==
  \A T \in SUBSET Item : T # {} => \E i \in T : graph[i] \cap T = {}

AcyclicUnlessRaced == ~raced => Acyclic(deps)

(* The plan is not deadlocked: while an item is open, one can be started   *)
(* or is being worked on with nothing to wait for - unless it waits for a  *)
(* cancelled item, or the graph was raced.                                 *)
SomethingCanBeDone ==
  ~raced /\ Settled # Existing /\ (\A i \in Existing : status[i] # "cancelled") =>
    \/ Recommended # {}
    \/ \E i \in Existing : status[i] = "in_progress" /\ Waiting(i) = {}

(* A reorder that no other, and no position set by hand, has overtaken     *)
(* leaves the board in the order asked for, although it writes only the    *)
(* positions it has seen differ.                                           *)
BoardIsAsAsked ==
  [][\A q \in Request : WriteBoard(q) /\ request[q].alone =>
       \A k, l \in DOMAIN request[q].order :
         k < l => position'[request[q].order[k]] < position'[request[q].order[l]]]_vars
=============================================================================
