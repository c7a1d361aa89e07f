------------------------------- MODULE Runner -------------------------------
(***************************************************************************)
(* One run and the coroutines that may work on it: the planner (plan_run), *)
(* the executor (execute_tasks), the guard around both (_guarded), and the *)
(* API requests that create, decide and delete the run (agents/runner.py,  *)
(* agents/recovery.py, api/runs.py).                                       *)
(*                                                                         *)
(* Who starts the coroutines, and what a restart does, depends on the mode *)
(* of the engine: InlineRuns and QueuedRuns build on this module.          *)
(*                                                                         *)
(* One action is one transaction, with what follows it up to the next      *)
(* await on the database.  No transaction locks the run's row before it    *)
(* writes, and only the decision is a compare-and-set: every other write   *)
(* of the status is blind.                                                 *)
(***************************************************************************)
EXTENDS Naturals, FiniteSets

CONSTANTS
  Worker,     \* coroutines that may work on the run
  MaxTasks,   \* tasks of the plan
  MaxFaults   \* failures of the database, and of what recovery resumes first (bounds the model)

ASSUME RunnerAssumption == MaxTasks \in Nat /\ MaxFaults \in Nat

VARIABLES
  run,       \* agent_runs.status; "none" before creation, "deleted" after
  tasks,     \* task rows exist
  left,      \* tasks that are not finished
  space,     \* the run's workspace is on disk
  opened,    \* a pull request of the run's branch is open
  ended,     \* run.finished events of the run
  approved,  \* a human approved the plan
  pc,        \* where each coroutine is
  deletion,  \* a DELETE request: "none", "checked", "cleared"
  rejecting, \* a rejection is committed and has to remove the workspace
  faults,
  abandoned  \* history: an error that nobody handles ended what worked on the run

row  == <<run, tasks, left, ended>>
disk == <<space, opened>>
api  == <<approved, deletion, rejecting>>
luck == <<faults, abandoned>>
rest == <<disk, api, luck>>

Active   == {"queued", "planning", "executing", "reviewing"}
Terminal == {"completed", "failed", "cancelled"}
RunStatus == Active \cup Terminal \cup {"none", "awaiting_approval", "deleted"}

Planning  == {"plan", "claimed", "planning", "propose"}
Executing == {"execute", "loaded", "graph", "review", "gates", "publish", "complete"}
Position  == {"free", "after", "broken", "clear"} \cup Planning \cup Executing

\* The coroutine will still write the run's status.
Working(w) == pc[w] \notin {"free", "after"}

RunnerTypeOK ==
  /\ run \in RunStatus /\ tasks \in BOOLEAN /\ left \in 0 .. MaxTasks
  /\ space \in BOOLEAN /\ opened \in BOOLEAN
  /\ ended \in Nat /\ approved \in BOOLEAN
  /\ pc \in [Worker -> Position]
  /\ deletion \in {"none", "checked", "cleared"}
  /\ rejecting \in BOOLEAN /\ faults \in Nat /\ abandoned \in BOOLEAN

RunnerInit ==
  /\ run = "none" /\ tasks = FALSE /\ left = 0
  /\ space = FALSE /\ opened = FALSE /\ ended = 0 /\ approved = FALSE
  /\ pc = [w \in Worker |-> "free"]
  /\ deletion = "none" /\ rejecting = FALSE
  /\ faults = 0 /\ abandoned = FALSE

Exists == run \notin {"none", "deleted"}

At(w, from, to) == pc[w] = from /\ pc' = [pc EXCEPT ![w] = to]

\* A coroutine is started (the callers say when).
StartsWith(position) ==
  \E w \in Worker : pc[w] = "free" /\ pc' = [pc EXCEPT ![w] = position]

\* An error where nobody handles it: the run stays as it is, with nobody to go on.
GivesUp == faults < MaxFaults /\ faults' = faults + 1 /\ abandoned' = TRUE

-----------------------------------------------------------------------------
(* plan_run.                                                               *)

\* Only a queued run is planned; the provider keys are loaded before the commit.
PlanClaims(w) ==
  /\ At(w, "plan", IF run = "queued" THEN "claimed" ELSE "after")
  /\ UNCHANGED <<row, rest>>

PlanStarts(w) ==
  /\ At(w, "claimed", "planning") /\ Exists
  /\ run' = "planning"
  /\ UNCHANGED <<tasks, left, ended, rest>>

\* The workspace is cloned afresh; the product manager plans in it.
PlanClones(w) ==
  /\ At(w, "planning", "propose")
  /\ space' = TRUE
  /\ UNCHANGED <<row, opened, api, luck>>

\* (run_id, sequence) is unique: a second plan for the run cannot be stored.
PlanProposes(w) ==
  /\ At(w, "propose", "after") /\ Exists /\ ~tasks
  /\ run' = "awaiting_approval" /\ tasks' = TRUE /\ left' = MaxTasks
  /\ UNCHANGED <<ended, rest>>

Plan(w) == PlanClaims(w) \/ PlanStarts(w) \/ PlanClones(w) \/ PlanProposes(w)

-----------------------------------------------------------------------------
(* execute_tasks.                                                          *)

ExecuteLoads(w) ==
  /\ At(w, "execute", IF run = "executing" THEN "loaded" ELSE "after")
  /\ UNCHANGED <<row, rest>>

ExecuteOpens(w) ==
  /\ At(w, "loaded", "graph") /\ space
  /\ UNCHANGED <<row, rest>>

\* The graph of TaskBoard, seen from the run: one task after the other is settled.
TaskFinishes(w) ==
  /\ At(w, "graph", "graph") /\ Exists /\ left > 0
  /\ left' = left - 1
  /\ UNCHANGED <<run, tasks, ended, rest>>

GraphEnds(w) ==
  /\ At(w, "graph", "review") /\ Exists /\ left = 0
  /\ run' = "reviewing"
  /\ UNCHANGED <<tasks, left, ended, rest>>

Approves(w) == At(w, "review", "gates")  /\ Exists /\ UNCHANGED <<row, rest>>
Passes(w)   == At(w, "gates", "publish") /\ Exists /\ UNCHANGED <<row, rest>>

\* A task that exhausted its retries, the reviewer or a gate ends the run.
Fails(w) ==
  /\ Exists
  /\ \E from \in {"graph", "review", "gates"} : At(w, from, "after")
  /\ run' = "failed" /\ ended' = ended + 1
  /\ UNCHANGED <<tasks, left, rest>>

\* The branch is pushed; a host opens one pull request per branch and refuses
\* a second one.
Publishes(w) ==
  /\ At(w, "publish", "complete") /\ ~opened
  /\ opened' \in BOOLEAN
  /\ UNCHANGED <<row, space, api, luck>>

Completes(w) ==
  /\ At(w, "complete", "after") /\ Exists
  /\ run' = "completed" /\ ended' = ended + 1
  /\ UNCHANGED <<tasks, left, rest>>

Execute(w) ==
  \/ ExecuteLoads(w) \/ ExecuteOpens(w) \/ TaskFinishes(w)
  \/ GraphEnds(w) \/ Approves(w) \/ Passes(w) \/ Fails(w)
  \/ Publishes(w) \/ Completes(w)

-----------------------------------------------------------------------------
(* _guarded: whatever an agent, git, the host or an assertion raises.      *)
Raises(w) ==
  /\ pc[w] \in Planning \cup Executing
  /\ pc[w] = "plan" => run = "queued"
  /\ pc[w] = "execute" => run = "executing"
  /\ pc' = [pc EXCEPT ![w] = "broken"]
  /\ UNCHANGED <<row, rest>>

\* The database fails before the coroutine has seen the run's status, and is back
\* for the guard, which does not look at the status either.
ReadFails(w) ==
  /\ pc[w] \in {"plan", "execute"} /\ faults < MaxFaults
  /\ pc' = [pc EXCEPT ![w] = "broken"] /\ faults' = faults + 1
  /\ UNCHANGED <<row, disk, api, abandoned>>

\* (mutant) the guard lets the exception pass
Guards_Silent(w) == At(w, "broken", "after") /\ UNCHANGED <<row, rest>>

Guards(w) ==
  /\ At(w, "broken", "after")
  /\ IF Exists THEN run' = "failed" /\ ended' = ended + 1 ELSE UNCHANGED <<run, ended>>
  /\ UNCHANGED <<tasks, left, rest>>

\* The guard's own transaction fails too.
GuardFails(w) ==
  /\ At(w, "broken", "free") /\ GivesUp
  /\ UNCHANGED <<row, disk, api>>

\* capture_run_memory and notify_run_outcome; neither touches the run.
Reports(w) == At(w, "after", "free") /\ UNCHANGED <<row, rest>>

-----------------------------------------------------------------------------
(* The resets that startup recovery and the queue's jobs share, unguarded. *)

\* reset_interrupted_planning: the half-made plan is discarded in a transaction,
\* the workspace (a coroutine at "clear") in a thread after it.
ResetPlanning ==
  /\ run' = "queued" /\ tasks' = FALSE /\ left' = 0
  /\ UNCHANGED <<ended, rest>>

Clears(w) ==
  /\ At(w, "clear", "plan")
  /\ space' = FALSE
  /\ UNCHANGED <<row, opened, api, luck>>

\* The directory tree cannot be removed: recovery, or the job, ends with the error and
\* leaves the run queued.
ClearFails(w) ==
  /\ At(w, "clear", "free")
  /\ space' \in {space, FALSE} /\ abandoned' = TRUE
  /\ UNCHANGED <<row, opened, api, faults>>

\* reset_interrupted_execution: the board is kept, the interrupted task repeats.
ResetExecution ==
  /\ run' = "executing"
  /\ UNCHANGED <<tasks, left, ended, rest>>

Coroutine(w) == Clears(w) \/ Plan(w) \/ Execute(w) \/ Raises(w) \/ Guards(w) \/ Reports(w)
Breaks(w)    == ReadFails(w) \/ GuardFails(w) \/ ClearFails(w)

-----------------------------------------------------------------------------
(* The API.  A request that starts a coroutine does so after its commit.   *)

Creates ==
  /\ run = "none" /\ run' = "queued"
  /\ UNCHANGED <<tasks, left, ended, rest>>

ApprovesPlan_Unclaimed ==   \* (mutant) a decision is taken twice
  /\ run \in {"awaiting_approval", "executing"} /\ run' = "executing"
  /\ approved' = TRUE
  /\ UNCHANGED <<tasks, left, ended, disk, deletion, rejecting>>

\* The decision claims the run with one conditional UPDATE.
ApprovesPlan ==
  /\ run = "awaiting_approval" /\ run' = "executing"
  /\ approved' = TRUE
  /\ UNCHANGED <<tasks, left, ended, disk, deletion, rejecting>>

\* What the request still reads for its answer fails: an answer that is an error
\* starts nothing.
ApprovesInVain == ApprovesPlan /\ GivesUp /\ UNCHANGED pc

RejectsPlan ==
  /\ run = "awaiting_approval" /\ run' = "cancelled"
  /\ ended' = ended + 1 /\ left' = 0 /\ rejecting' = TRUE
  /\ UNCHANGED <<tasks, disk, approved, deletion, luck, pc>>

\* The workspace of the rejected plan is removed in a thread, or cannot be.
RejectionClears ==
  /\ rejecting /\ rejecting' = FALSE
  /\ space' \in {space, FALSE}
  /\ UNCHANGED <<row, pc, opened, approved, deletion, luck>>

Rejects == RejectsPlan \/ RejectionClears

\* delete_run: the status is checked, the workspace is removed in a thread, and
\* the row is deleted whatever its status is by then.
DeleteChecks_Planning ==   \* (mutant) a planning run does not count as active
  /\ Exists /\ run \notin Active \ {"planning"} /\ deletion = "none"
  /\ deletion' = "checked"
  /\ UNCHANGED <<row, pc, disk, approved, rejecting, luck>>

DeleteChecks ==
  /\ Exists /\ run \notin Active /\ deletion = "none"
  /\ deletion' = "checked"
  /\ UNCHANGED <<row, pc, disk, approved, rejecting, luck>>

DeleteClears ==
  /\ deletion = "checked" /\ deletion' = "cleared"
  /\ space' = FALSE
  /\ UNCHANGED <<row, pc, opened, approved, rejecting, luck>>

DeleteCommits ==
  /\ deletion = "cleared" /\ deletion' = "none"
  /\ run' = "deleted" /\ tasks' = FALSE /\ left' = 0
  /\ UNCHANGED <<ended, pc, disk, approved, rejecting, luck>>

\* The workspace cannot be removed, or the row: nothing is deleted.
DeleteFails ==
  /\ deletion # "none" /\ deletion' = "none"
  /\ space' \in {space, FALSE}
  /\ UNCHANGED <<row, pc, opened, approved, rejecting, luck>>

Deletes == DeleteChecks \/ DeleteClears \/ DeleteCommits \/ DeleteFails

\* The API process dies with its coroutines (all of them in inline mode) and its
\* requests.
Dies(crew) ==
  /\ pc' = [w \in Worker |-> IF w \in crew THEN "free" ELSE pc[w]]
  /\ deletion' = "none" /\ rejecting' = FALSE
  /\ UNCHANGED <<row, disk, approved, faults>>
=============================================================================
