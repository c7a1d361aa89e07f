--------------------------- MODULE PlanGate_proofs ---------------------------
(***************************************************************************)
(* Proofs about PlanGate, for plans of any size and any number of edits.   *)
(*                                                                         *)
(* An edit that is saved without a conflict has read the present board, so *)
(* its checks hold of the board it writes to: also after the approval, a   *)
(* save only takes rows and dependencies away.                             *)
(***************************************************************************)
EXTENDS PlanGate, FiniteSetTheorems, TLAPS

\* What an edit has established about the rows that it has read.
Checked(e) ==
  edit[e].at = "read" =>
    /\ edit[e].drop \cup edit[e].retitle \subseteq Rows(edit[e].title)
    /\ edit[e].drop \cap edit[e].retitle = {}
    /\ Rows(edit[e].title) \ edit[e].drop # {}

\* The inductive invariant.
Inv ==
  /\ TypeOK
  /\ BoardIsWhole
  /\ ApprovedBoardRuns
  /\ \A e \in Editor : Checked(e)

\* Fewer tasks are dropped than there are: one remains (the guard of edit_plan).
LEMMA OneRemains ==
  ASSUME NEW R, IsFiniteSet(R), NEW D \in SUBSET R, ~TooMany(D, R)
  PROVE  R \ D # {}
<1>1. SUFFICES ASSUME R \ D = {} PROVE FALSE
  OBVIOUS
<1>2. D = R
  BY <1>1
<1>3. Cardinality(R) \in Nat
  BY FS_CardinalityType
<1> QED
  BY <1>2, <1>3 DEF TooMany

LEMMA RowsFinite == \A f : IsFiniteSet(Rows(f))
<1>1. IsFiniteSet(Task)
  BY GateAssumption, FS_Interval, 1 \in Int, MaxPlanTasks \in Int DEF Task
<1> QED
  BY <1>1, FS_Subset DEF Rows

LEMMA UnreadType ==
  Unread \in Edit /\ Answered \in Edit /\ Empty \in [title : Title, deps : Deps]
  BY DEF Unread, Answered, Empty, Edit, Title, Deps

LEMMA InitInv == Init => Inv
<1> SUFFICES ASSUME Init PROVE Inv
  OBVIOUS
<1>1. PICK n \in Task : title = [t \in Task |-> IF t <= n THEN Planner ELSE Nobody]
  BY DEF Init
<1>2. TypeOK
  BY <1>1, UnreadType DEF Init, TypeOK, Status, Title, Deps
<1>3. BoardIsWhole
  <2>1. n \in Rows(title)
    BY <1>1, GateAssumption DEF Rows, Task
  <2>2. NoGhost
    <3> SUFFICES ASSUME NEW t \in Rows(title), NEW d \in deps[t] PROVE d \in Rows(title)
      BY DEF NoGhost, NoGhostIn
    <3>1. t \in Task /\ t <= n /\ d \in 1 .. t - 1
      BY <1>1 DEF Init, Rows
    <3>2. d \in Task /\ d <= n
      BY <3>1, n \in Task, GateAssumption DEF Task
    <3> QED
      BY <1>1, <3>2, GateAssumption DEF Rows
  <2> QED
    BY <2>1, <2>2 DEF BoardIsWhole, Init
<1> QED
  BY <1>2, <1>3 DEF Init, Inv, ApprovedBoardRuns, Checked, Unread

LEMMA NextInv == Inv /\ [Next]_vars => Inv'
<1> SUFFICES ASSUME Inv, [Next]_vars PROVE Inv'
  OBVIOUS
<1> USE DEF Inv
<1>1. ASSUME NEW e \in Editor, EditChecks(e) PROVE Inv'
  <2>1. TypeOK'
    BY <1>1, UnreadType DEF EditChecks, board, TypeOK, Edit, Unread
  <2>2. BoardIsWhole' /\ ApprovedBoardRuns'
    BY <1>1 DEF EditChecks, board, BoardIsWhole, NoGhost, NoGhostIn, ApprovedBoardRuns
  <2>3. \A f \in Editor : Checked(f)'
    BY <1>1 DEF EditChecks, Open, Checked, TypeOK, Unread
  <2> QED
    BY <1>1, <2>1, <2>2, <2>3 DEF EditChecks, board
<1>2. ASSUME NEW e \in Editor, NEW D \in SUBSET Task, NEW R \in SUBSET Task, EditReads(e, D, R)
      PROVE  Inv'
  <2>1. TypeOK'
    BY <1>2 DEF EditReads, board, TypeOK, Edit
  <2>2. BoardIsWhole' /\ ApprovedBoardRuns'
    BY <1>2 DEF EditReads, board, BoardIsWhole, NoGhost, NoGhostIn, ApprovedBoardRuns
  <2>3. Rows(title) \ D # {}
    BY <1>2, OneRemains, RowsFinite DEF EditReads
  <2>4. \A f \in Editor : Checked(f)'
    BY <1>2, <2>3 DEF EditReads, Checked, TypeOK
  <2> QED
    BY <1>2, <2>1, <2>2, <2>4 DEF EditReads, board
<1>3. ASSUME NEW e \in Editor, EditStops(e) PROVE Inv'
  <2>1. TypeOK'
    BY <1>3, UnreadType DEF EditStops, board, TypeOK
  <2>2. BoardIsWhole' /\ ApprovedBoardRuns'
    BY <1>3 DEF EditStops, board, BoardIsWhole, NoGhost, NoGhostIn, ApprovedBoardRuns
  <2>3. \A f \in Editor : Checked(f)'
    BY <1>3 DEF EditStops, Checked, TypeOK, Answered, Unread
  <2> QED
    BY <1>3, <2>1, <2>2, <2>3 DEF EditStops, board
<1>4. ASSUME NEW e \in Editor, EditSaves(e) PROVE Inv'
  <2>0. edit[e] \in Edit /\ title \in Title /\ deps \in Deps /\ plan \in Title
    BY DEF TypeOK
  <2>1. Header(e) \in Title
    BY <2>0 DEF Header, Retitled, Edit, Title
  <2>2. TypeOK'
    <3>1. title' \in Title
      BY <1>4, <2>0 DEF EditSaves, Title
    <3>2. deps' \in Deps
      BY <1>4, <2>0 DEF EditSaves, Deps, Edges, Edit
    <3>3. plan' \in Title
      BY <1>4, <2>0, <2>1 DEF EditSaves
    <3>4. edit' \in [Editor -> Edit]
      BY <1>4, UnreadType DEF EditSaves, TypeOK
    <3>5. conflict' \in BOOLEAN
      BY <1>4 DEF EditSaves, TypeOK
    <3> QED
      BY <1>4, <3>1, <3>2, <3>3, <3>4, <3>5 DEF EditSaves, TypeOK
  <2>3. ASSUME ~conflict'
        PROVE  /\ ~conflict
               /\ edit[e].title = title /\ edit[e].deps = deps /\ edit[e].plan = plan
    BY <1>4, <2>3 DEF EditSaves, board
  <2>4. BoardIsWhole'
    <3> SUFFICES ASSUME ~conflict' PROVE Rows(title') # {} /\ NoGhost' /\ plan' = title'
      BY DEF BoardIsWhole
    <3>1. /\ edit[e].title = title /\ edit[e].deps = deps /\ edit[e].plan = plan
          /\ Rows(title) # {} /\ NoGhost /\ plan = title
      BY <2>3 DEF BoardIsWhole
    <3>2. title' = Header(e)
      BY <1>4, <3>1, <2>0 DEF EditSaves, Header
    <3>3. plan' = title'
      BY <1>4, <3>1, <3>2 DEF EditSaves
    <3>4. /\ edit[e].drop \cup edit[e].retitle \subseteq Rows(title)
          /\ Rows(title) \ edit[e].drop # {}
      BY <1>4, <3>1 DEF EditSaves, Checked
    <3>5. Rows(title') = Rows(title) \ edit[e].drop
      BY <1>4, <3>4, GateAssumption DEF EditSaves, Rows, Retitled
    <3>6. NoGhost'
      <4> SUFFICES ASSUME NEW t \in Rows(title'), NEW d \in deps'[t] PROVE d \in Rows(title')
        BY DEF NoGhost, NoGhostIn
      <4>1. t \in Task /\ t \in Rows(title) /\ t \notin edit[e].drop
        BY <3>5 DEF Rows
      <4>2. deps[t] \subseteq Rows(title)
        BY <3>1, <4>1 DEF NoGhost, NoGhostIn
      <4>3. CASE t \in Rewired(e)
        BY <1>4, <3>1, <3>5, <4>1, <4>2, <4>3 DEF EditSaves, Edges
      <4>4. CASE t \notin Rewired(e)
        <5>1. deps[t] \cap edit[e].drop = {}
          BY <3>1, <4>1, <4>4 DEF Rewired
        <5>2. d \in deps[t]
          BY <1>4, <4>1, <4>4 DEF EditSaves
        <5> QED
          BY <3>5, <4>2, <5>1, <5>2
      <4> QED
        BY <4>3, <4>4
    <3> QED
      BY <3>3, <3>4, <3>5, <3>6
  <2>5. ApprovedBoardRuns'
    <3> SUFFICES ASSUME ~conflict', loaded'
                 PROVE  /\ Rows(list'.title) # {} /\ NoGhostIn(list'.title, list'.deps)
                        /\ Rows(title') \subseteq Rows(list'.title)
                        /\ \A t \in Rows(title') : deps'[t] \subseteq list'.deps[t]
      BY DEF ApprovedBoardRuns
    <3>1. /\ list' = list /\ Rows(list.title) # {} /\ NoGhostIn(list.title, list.deps)
          /\ Rows(title) \subseteq Rows(list.title)
          /\ \A t \in Rows(title) : deps[t] \subseteq list.deps[t]
      BY <1>4, <2>3 DEF EditSaves, ApprovedBoardRuns
    <3>2. ASSUME NEW t \in Rows(title')
          PROVE  t \in Rows(title) /\ deps'[t] \subseteq deps[t]
      <4>1. t \in Task /\ t \notin edit[e].drop
        BY <1>4, <3>2 DEF EditSaves, Rows
      <4>2. t \in Rows(title)
        BY <1>4, <2>0, <3>2, <4>1 DEF EditSaves, Rows, Written
      <4>3. deps'[t] \subseteq deps[t]
        BY <1>4, <2>3, <4>1 DEF EditSaves, Edges
      <4> QED
        BY <4>2, <4>3
    <3> QED
      BY <3>1, <3>2
  <2>6. \A f \in Editor : Checked(f)'
    BY <1>4 DEF EditSaves, Checked, TypeOK, Answered, Unread
  <2> QED
    BY <1>4, <2>2, <2>4, <2>5, <2>6 DEF EditSaves
<1>5. ASSUME NEW approved \in BOOLEAN, Decide(approved) PROVE Inv'
  BY <1>5 DEF Decide, Open, board, TypeOK, Status, BoardIsWhole, NoGhost, NoGhostIn, ApprovedBoardRuns, Checked
<1>6. CASE Loads
  BY <1>6 DEF Loads, board, TypeOK, BoardIsWhole, NoGhost, ApprovedBoardRuns, Checked
<1>7. CASE UNCHANGED vars
  BY <1>7 DEF vars, board, TypeOK, BoardIsWhole, NoGhost, NoGhostIn, ApprovedBoardRuns, Checked
<1> QED
  BY <1>1, <1>2, <1>3, <1>4, <1>5, <1>6, <1>7 DEF Next, EditPlan

\* Type, whole board, approved board and the edits' checks are invariant.
THEOREM Invariance == Spec => []Inv
  BY InitInv, NextInv, PTL DEF Spec

\* Type correctness of the gate.
THEOREM TypeCorrect == Spec => []TypeOK
<1>1. Inv => TypeOK
  BY DEF Inv
<1> QED
  BY <1>1, Invariance, PTL

\* Without a save over another edit the board never waits for a ghost and is never empty,
\* and the header shows its titles, also after a save that the approval overtook
\* (edit_plan, decide_run).
THEOREM Whole == Spec => []BoardIsWhole
<1>1. Inv => BoardIsWhole
  BY DEF Inv
<1> QED
  BY <1>1, Invariance, PTL

\* Without a save over another edit the executor's list can be worked off and covers the
\* board, also when edits are saved after the approval, before or after the executor has
\* loaded the rows (edit_plan, decide_run, _execute_tasks).
THEOREM RunsWhatIsApproved == Spec => []ApprovedBoardRuns
<1>1. Inv => ApprovedBoardRuns
  BY DEF Inv
<1> QED
  BY <1>1, Invariance, PTL

\* No save, however late, brings a dropped task back (edit_plan).
THEOREM DropsAreFinal == Spec => DropIsFinal
<1>1. Inv /\ [Next]_vars => [\A t \in Task : title[t] = Nobody => title'[t] = Nobody]_vars
  <2> SUFFICES ASSUME Next, NEW t \in Task, title[t] = Nobody PROVE title'[t] = Nobody
    OBVIOUS
  <2>1. ASSUME NEW e \in Editor, EditSaves(e) PROVE title'[t] = Nobody
    BY <2>1 DEF EditSaves, Written, Rows
  <2> QED
    BY <2>1 DEF Next, EditPlan, EditChecks, EditReads, EditStops, Decide, Loads, board
<1> QED
  BY <1>1, Invariance, PTL DEF Spec, DropIsFinal
=============================================================================
