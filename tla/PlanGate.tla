------------------------------ MODULE PlanGate ------------------------------
(***************************************************************************)
(* The approval gate of one run: people edit the proposed board (retitle,  *)
(* describe, drop) and decide about it, and after an approval the executor *)
(* loads the board (edit_plan and decide_run in api/runs.py,               *)
(* _execute_tasks in agents/runner.py).                                    *)
(*                                                                         *)
(* An edit reads the run, then the rows, and saves later.  Its session     *)
(* writes the columns that it changed, and a row it updates must still be  *)
(* there.  A decision is atomic: its claim locks the row of the run.       *)
(*                                                                         *)
(* A title stands for title and description; its value is who wrote it.    *)
(***************************************************************************)
EXTENDS Naturals, FiniteSets

CONSTANTS
  MaxPlanTasks,  \* tasks of the plan (product_manager.py: at most 8)
  Editor,        \* the requests that edit the plan
  Planner,       \* who wrote the proposed titles
  Nobody         \* the title of a task that has no row

ASSUME GateAssumption ==
  /\ MaxPlanTasks \in Nat
  /\ Planner \notin Editor /\ Nobody \notin Editor /\ Planner # Nobody

Task   == 1 .. MaxPlanTasks
Title  == [Task -> Editor \cup {Planner, Nobody}]
Deps   == [Task -> SUBSET Task]
Status == {"awaiting_approval", "executing", "cancelled"}

VARIABLES
  status,    \* agent_runs.status
  title,     \* agent_tasks.title
  deps,      \* agent_tasks.depends_on
  plan,      \* run.plan["tasks"], the plan header: the titles of the rows
  loaded,    \* the executor has loaded the board,
  list,      \* and this is what it holds: titles and dependencies
  edit,      \* the edits: what each asks for and what it has read
  conflict   \* an edit was saved although another had changed what it read

board == <<title, deps, plan>>
vars  == <<status, board, loaded, list, edit, conflict>>

Rows(f) == {t \in Task : f[t] # Nobody}

Edit == [at : {"sent", "checked", "read", "answered"}, drop : SUBSET Task, retitle : SUBSET Task,
         title : Title, deps : Deps, plan : Title]

TypeOK ==
  /\ status \in Status /\ title \in Title /\ deps \in Deps /\ plan \in Title
  /\ loaded \in BOOLEAN /\ list \in [title : Title, deps : Deps]
  /\ edit \in [Editor -> Edit]
  /\ conflict \in BOOLEAN

Empty  == [title |-> [t \in Task |-> Nobody], deps |-> [t \in Task |-> {}]]
Unread == [at |-> "sent", drop |-> {}, retitle |-> {},
           title |-> Empty.title, deps |-> Empty.deps, plan |-> Empty.title]

Answered == [Unread EXCEPT !.at = "answered"]

\* The planner's board (validate_plan): one task at least, dependencies on earlier tasks.
Init ==
  /\ status = "awaiting_approval"
  /\ \E n \in Task : title = [t \in Task |-> IF t <= n THEN Planner ELSE Nobody]
  /\ deps \in Deps
  /\ \A t \in Task : deps[t] \subseteq 1 .. t - 1 /\ (title[t] = Nobody => deps[t] = {})
  /\ plan = title
  /\ loaded = FALSE /\ list = Empty
  /\ edit = [e \in Editor |-> Unread] /\ conflict = FALSE

-----------------------------------------------------------------------------
(* Editing.                                                                *)

Open == status = "awaiting_approval"

\* The run is read, and its status is checked.
EditChecks(e) ==
  /\ edit[e].at = "sent" /\ Open
  /\ edit' = [edit EXCEPT ![e] = [Unread EXCEPT !.at = "checked", !.plan = plan]]
  /\ UNCHANGED <<status, board, loaded, list, conflict>>

TooMany_ButAll(D, R) == Cardinality(D) > Cardinality(R)   \* (mutant) all may be dropped
TooMany(D, R) == Cardinality(D) >= Cardinality(R)

\* The rows are read and the request is checked against them.
EditReads(e, D, R) ==
  /\ edit[e].at = "checked"
  /\ D \cup R \subseteq Rows(title) /\ D \cap R = {} /\ ~TooMany(D, Rows(title))
  /\ edit' = [edit EXCEPT ![e] = [@ EXCEPT !.at = "read", !.drop = D, !.retitle = R,
                                           !.title = title, !.deps = deps]]
  /\ UNCHANGED <<status, board, loaded, list, conflict>>

\* The answer is 409, 400 or 500, or the request is lost.
EditStops(e) ==
  /\ edit[e].at # "answered" /\ edit' = [edit EXCEPT ![e] = Answered]
  /\ UNCHANGED <<status, board, loaded, list, conflict>>

\* What the session writes: columns that differ from what it read.  The status is not
\* looked at again.
Retitled(e) == {t \in edit[e].retitle : edit[e].title[t] # e}
Rewired(e)  == {t \in Rows(edit[e].title) \ edit[e].drop : edit[e].deps[t] \cap edit[e].drop # {}}
Header(e)   == [t \in Task |-> IF t \in edit[e].drop THEN Nobody
                               ELSE IF t \in Retitled(e) THEN e ELSE edit[e].title[t]]

Written_Upsert(e) == TRUE   \* (mutant) a row that is gone is inserted again
\* An UPDATE that meets no row fails the transaction.
Written(e) == Retitled(e) \cup Rewired(e) \subseteq Rows(title)

Edges_Kept(e, t) == edit[e].deps[t]   \* (mutant) edges to dropped tasks stay
\* The edges of a surviving row.
Edges(e, t) == edit[e].deps[t] \ edit[e].drop

EditSaves(e) ==
  /\ edit[e].at = "read" /\ Written(e)
  /\ title' = [t \in Task |-> IF t \in edit[e].drop THEN Nobody
                              ELSE IF t \in Retitled(e) THEN e ELSE title[t]]
  /\ deps' = [t \in Task |-> IF t \in edit[e].drop THEN {}
                             ELSE IF t \in Rewired(e) THEN Edges(e, t) ELSE deps[t]]
  /\ plan' = IF Header(e) = edit[e].plan THEN plan ELSE Header(e)
  /\ conflict' = (\/ conflict
                  \/ <<edit[e].title, edit[e].deps, edit[e].plan>> # board)
  /\ edit' = [edit EXCEPT ![e] = Answered]
  /\ UNCHANGED <<status, loaded, list>>

-----------------------------------------------------------------------------
(* The decision, and what the executor makes of it.                        *)

Decide(approved) ==
  /\ Open
  /\ status' = IF approved THEN "executing" ELSE "cancelled"
  /\ UNCHANGED <<board, loaded, list, edit, conflict>>

\* The executor loads the rows of the run into the supervisor's list.
Loads ==
  /\ status = "executing" /\ ~loaded
  /\ loaded' = TRUE /\ list' = [title |-> title, deps |-> deps]
  /\ UNCHANGED <<status, board, edit, conflict>>

-----------------------------------------------------------------------------
EditPlan(e) ==
  \/ EditChecks(e)
  \/ \E D, R \in SUBSET Task : EditReads(e, D, R)
  \/ EditStops(e)
  \/ EditSaves(e)

Next ==
  \/ \E e \in Editor : EditPlan(e)
  \/ \E approved \in BOOLEAN : Decide(approved)
  \/ Loads

Spec == Init /\ [][Next]_vars

-----------------------------------------------------------------------------
\* No task waits for one that is gone: the supervisor would never reach it.
NoGhostIn(T, D) == \A t \in Rows(T) : D[t] \subseteq Rows(T)

NoGhost == NoGhostIn(title, deps)

\* As long as no edit was saved over another edit, the board has a task, waits for no
\* ghost, and the header shows its titles, also after a save that came after the approval.
BoardIsWhole == ~conflict => Rows(title) # {} /\ NoGhost /\ plan = title

\* What the executor has loaded can be worked off, even if edits that had passed their
\* check are saved after the approval: as long as none was saved over another edit, the
\* list has a task and waits for no ghost, every row still on the board is on the list,
\* and it waits for nothing there that the list does not wait for.
ApprovedBoardRuns ==
  loaded /\ ~conflict =>
    /\ Rows(list.title) # {} /\ NoGhostIn(list.title, list.deps)
    /\ Rows(title) \subseteq Rows(list.title)
    /\ \A t \in Rows(title) : deps[t] \subseteq list.deps[t]

\* Whatever edits overlap, a task that was dropped never comes back.
DropIsFinal == [][\A t \in Task : title[t] = Nobody => title'[t] = Nobody]_vars
=============================================================================
