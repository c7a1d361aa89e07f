------------------------------ MODULE TaskBoard ------------------------------
(***************************************************************************)
(* The task board of one approved run: the rows of agent_tasks that the    *)
(* engine commits, the list of tasks the supervisor graph keeps in memory, *)
(* and the executor that stands between the two (agents/supervisor.py,     *)
(* agents/runner.py, agents/tools.py, agents/recovery.py).                 *)
(*                                                                         *)
(* The board exists twice.  The rows (status, attempts) are what a crash   *)
(* leaves behind and what the agents' tools read and write; the memory     *)
(* copy (mem, tries) is what the supervisor schedules from.  They are      *)
(* joined only where the code joins them: when execution loads the board,  *)
(* when an attempt succeeds, and when the graph has ended.                 *)
(*                                                                         *)
(* A task is named by its sequence number.  One action is one transaction  *)
(* of the executor or one node of the graph: nothing else is visible to    *)
(* the tools or to a crash.                                                *)
(***************************************************************************)
EXTENDS Naturals, FiniteSets

CONSTANTS
  MaxSequence,     \* sequence numbers considered (bounds the model)
  MaxPlanTasks,    \* tasks a plan may hold (product_manager.py: 8)
  MaxBoardTasks,   \* rows a board may hold (tools.py: 30)
  MaxRetries,      \* retries of a failed task (supervisor.py: 2)
  RecursionLimit,  \* supersteps of one graph invocation (runner.py: 100)
  MaxCrashes,      \* crashes of the process considered (bounds the model)
  MaxFaults        \* bookkeeping transactions that fail (bounds the model)

ASSUME BoardAssumption ==
  /\ MaxSequence \in Nat /\ MaxPlanTasks \in Nat /\ MaxBoardTasks \in Nat
  /\ MaxPlanTasks <= MaxSequence
  /\ MaxRetries \in Nat /\ RecursionLimit \in Nat
  /\ MaxCrashes \in Nat /\ MaxFaults \in Nat

VARIABLES
  run,       \* agent_runs.status of this run
  status,    \* agent_tasks.status, "absent" where there is no row
  attempts,  \* agent_tasks.attempts
  deps,      \* agent_tasks.depends_on
  pc,        \* where the coroutine that executes the run is
  mem,       \* status in the supervisor's list, "absent" if not on it
  tries,     \* attempts in the supervisor's list
  known,     \* known_ids: the rows the executor believes are on that list
  current,   \* current_task_id (0 for None)
  failure,   \* the graph's failure text is set
  steps,     \* supersteps of this graph invocation
  over,      \* the run's spending has reached max_cost_usd
  crashes, faults

rowVars    == <<run, status, attempts, deps>>
memVars    == <<mem, tries, known, current, failure, steps>>
boundVars  == <<crashes, faults>>
vars       == <<rowVars, pc, memVars, over, boundVars>>

Task       == 1 .. MaxSequence
None       == 0
RunStatus  == {"executing", "reviewing", "completed", "failed"}
TaskStatus == {"pending", "blocked", "in_progress", "done", "failed", "skipped"}
Finished   == {"done", "skipped"}
Unfinished == {"pending", "in_progress", "blocked"}
Position   == {"down", "idle", "schedule", "execute", "working", "finalize",
               "sync", "review", "revise", "rereview", "gates", "over"}

Board == {t \in Task : status[t] # "absent"}   \* the rows of the run
List  == {t \in Task : mem[t] # "absent"}      \* the supervisor's tasks

TypeOK ==
  /\ run \in RunStatus
  /\ status \in [Task -> TaskStatus \cup {"absent"}]
  /\ attempts \in [Task -> Nat]
  /\ deps \in [Task -> SUBSET Task]
  /\ pc \in Position
  /\ mem \in [Task -> TaskStatus \cup {"absent"}]
  /\ tries \in [Task -> Nat]
  /\ known \in SUBSET Task
  /\ current \in Task \cup {None}
  /\ failure \in BOOLEAN
  /\ steps \in 0 .. RecursionLimit
  /\ over \in BOOLEAN
  /\ crashes \in Nat /\ faults \in Nat

-----------------------------------------------------------------------------
(***************************************************************************)
(* The board the human approved: a plan whose dependencies point to        *)
(* earlier tasks (validate_plan), less the tasks dropped at the gate.      *)
(***************************************************************************)
ApprovedBoard(b, d) ==
  /\ b # {}
  /\ \A t \in DOMAIN d : d[t] \subseteq {s \in b : t \in b /\ s < t}

Init ==
  /\ run = "executing"
  /\ \E b \in SUBSET (1 .. MaxPlanTasks) :
       /\ status = [t \in Task |-> IF t \in b THEN "pending" ELSE "absent"]
       /\ \E d \in [1 .. MaxPlanTasks -> SUBSET (1 .. MaxPlanTasks)] :
            /\ ApprovedBoard(b, d)
            /\ deps = [t \in Task |-> IF t \in b THEN d[t] ELSE {}]
  /\ attempts = [t \in Task |-> 0]
  /\ pc = "idle"
  /\ mem = [t \in Task |-> "absent"]
  /\ tries = [t \in Task |-> 0]
  /\ known = {} /\ current = None /\ failure = FALSE /\ steps = 0
  /\ over = FALSE
  /\ crashes = 0 /\ faults = 0

-----------------------------------------------------------------------------
(* _execute_tasks reads the run and its rows and starts the graph.         *)
Load ==
  /\ pc = "idle" /\ run = "executing"
  /\ mem' = status /\ tries' = attempts /\ known' = Board
  /\ current' = None /\ failure' = FALSE /\ steps' = 0
  /\ pc' = "schedule"
  /\ UNCHANGED <<rowVars, over, boundVars>>

(***************************************************************************)
(* The supervisor graph.  Every node is a superstep, and the graph raises  *)
(* once it has used RecursionLimit of them.                                *)
(***************************************************************************)
Superstep == steps < RecursionLimit /\ steps' = steps + 1

eligible == {t \in List : /\ mem[t] = "pending"
                          /\ \A d \in deps[t] : d \in List /\ mem[d] = "done"}

\* (mutant) any pending task is taken, its dependencies are not looked at
ScheduleNext_AnyPending ==
  /\ pc = "schedule" /\ ~failure /\ Superstep
  /\ \E t \in List : mem[t] = "pending" /\ current' = t
  /\ pc' = "execute"
  /\ UNCHANGED <<rowVars, mem, tries, known, failure, over, boundVars>>

\* _schedule: the eligible task with the lowest sequence goes next.
ScheduleNext ==
  /\ pc = "schedule" /\ ~failure /\ Superstep
  /\ \E t \in eligible :
       /\ \A u \in eligible : t <= u
       /\ current' = t
  /\ pc' = "execute"
  /\ UNCHANGED <<rowVars, mem, tries, known, failure, over, boundVars>>

\* Nothing can start: the graph ends, or unfinished tasks are a deadlock.
ScheduleEmpty ==
  /\ pc = "schedule" /\ ~failure /\ Superstep
  /\ eligible = {}
  /\ current' = None
  /\ failure' = \E t \in List : mem[t] \notin Finished
  /\ pc' = IF failure' THEN "finalize" ELSE "sync"
  /\ UNCHANGED <<rowVars, mem, tries, known, over, boundVars>>

ScheduleFailed ==
  /\ pc = "schedule" /\ failure /\ Superstep
  /\ current' = None
  /\ pc' = "finalize"
  /\ UNCHANGED <<rowVars, mem, tries, known, failure, over, boundVars>>

\* _finalize: what never started is skipped, in memory.
Finalize ==
  /\ pc = "finalize" /\ Superstep
  /\ mem' = [t \in Task |-> IF mem[t] = "pending" THEN "skipped" ELSE mem[t]]
  /\ pc' = "sync"
  /\ UNCHANGED <<rowVars, tries, known, current, failure, over, boundVars>>

\* GraphRecursionError leaves the graph and _guarded fails the run.
GiveUp ==
  /\ pc \in {"schedule", "execute", "finalize"} /\ steps = RecursionLimit
  /\ run' = "failed" /\ pc' = "over"
  /\ UNCHANGED <<status, attempts, deps, memVars, over, boundVars>>

-----------------------------------------------------------------------------
(***************************************************************************)
(* The execute node and the executor it calls.  An exception of the        *)
(* executor is a failed attempt: the task is retried unless this was       *)
(* attempt MaxRetries + 1, which fails the run.                            *)
(***************************************************************************)
Raise_OffByOne(t, n) ==   \* (mutant) one retry too many
  /\ mem' = [mem EXCEPT ![t] = IF n > MaxRetries + 1 THEN "failed" ELSE "pending"]
  /\ tries' = [tries EXCEPT ![t] = n]
  /\ failure' = (n > MaxRetries + 1)
  /\ pc' = "schedule"

Raise(t, n) ==   \* the except branch, n attempts of t made
  /\ mem' = [mem EXCEPT ![t] = IF n > MaxRetries THEN "failed" ELSE "pending"]
  /\ tries' = [tries EXCEPT ![t] = n]
  /\ failure' = (n > MaxRetries)
  /\ pc' = "schedule"

\* _apply_usage books an agent's tokens, the reviewer's and QA's included;
\* only the executor looks at the budget.
Spend == over' \in {over, TRUE}

\* The first transaction: the budget is checked, the row is in progress.
BeginAttempt ==
  /\ pc = "execute" /\ Superstep /\ ~over
  /\ tries' = [tries EXCEPT ![current] = @ + 1]
  /\ mem' = [mem EXCEPT ![current] = "in_progress"]
  /\ status' = [status EXCEPT ![current] = "in_progress"]
  /\ attempts' = [attempts EXCEPT ![current] = tries'[current]]
  /\ pc' = "working"
  /\ UNCHANGED <<run, deps, known, current, failure, over, boundVars>>

\* _check_budget raises before anything is written.
BudgetStops ==
  /\ pc = "execute" /\ Superstep /\ over
  /\ Raise(current, tries[current] + 1)
  /\ UNCHANGED <<rowVars, known, current, over, boundVars>>

\* The first transaction fails: nothing is written either.
BeginFails ==
  /\ pc = "execute" /\ Superstep /\ faults < MaxFaults
  /\ faults' = faults + 1
  /\ Raise(current, tries[current] + 1)
  /\ UNCHANGED <<rowVars, known, current, over, crashes>>

\* The agent gave up; its usage is booked and the row goes back to pending.
AttemptFails ==
  /\ pc = "working"
  /\ status' = [status EXCEPT ![current] = "pending"]
  /\ Spend
  /\ Raise(current, tries[current])
  /\ UNCHANGED <<run, attempts, deps, known, current, steps, boundVars>>

\* What the board changes of a successful attempt make of the list.
NewTasks == (Board \ known) \ List
Merged_NoSkips(t) ==   \* (mutant) fresh skips are not reported
  IF t \in NewTasks THEN status[t] ELSE mem[t]
Merged_NoNewTasks(t) ==   \* (mutant) new rows are not reported
  IF status[t] = "skipped" /\ mem[t] = "pending" THEN "skipped" ELSE mem[t]
Merged(t) ==
  IF t \in NewTasks THEN status[t]
  ELSE IF status[t] = "skipped" /\ mem[t] = "pending" THEN "skipped" ELSE mem[t]

\* The row is done; what the tools changed meanwhile is merged.
AttemptSucceeds ==
  /\ pc = "working"
  /\ status' = [status EXCEPT ![current] = "done"]
  /\ Spend
  /\ known' = known \cup Board
  /\ mem' = [t \in Task |-> IF t = current THEN "done" ELSE Merged(t)]
  /\ tries' = [t \in Task |-> IF t \in NewTasks THEN attempts[t] ELSE tries[t]]
  /\ pc' = "schedule"
  /\ UNCHANGED <<run, attempts, deps, current, failure, steps, boundVars>>

\* The closing transaction fails.  If it was that of a success, known_ids
\* may already hold the rows it read.
RecordFails ==
  /\ pc = "working" /\ faults < MaxFaults
  /\ faults' = faults + 1
  /\ known' \in {known, known \cup Board}
  /\ Raise(current, tries[current])
  /\ UNCHANGED <<rowVars, current, steps, over, crashes>>

-----------------------------------------------------------------------------
(* The board tools, in the hands of the engineer who has the workspace:    *)
(* while it works on its task and during the revision round.               *)
ToolsOpen == pc \in {"working", "revise"}

add_task ==
  /\ ToolsOpen /\ Cardinality(Board) < MaxBoardTasks
  /\ \E t \in Task : /\ \A s \in Board : s < t
                     /\ t = 1 \/ t - 1 \in Board
                     /\ status' = [status EXCEPT ![t] = "pending"]
  /\ UNCHANGED <<run, attempts, deps, pc, memVars, over, boundVars>>

\* Only a pending task, and only if no unfinished task depends on it.
Skippable_Always(t) ==   \* (mutant) dependents are not looked at
  t \in Board /\ status[t] = "pending"
Skippable(t) ==
  /\ t \in Board /\ status[t] = "pending"
  /\ \A u \in Board : t \in deps[u] => status[u] \notin Unfinished

update_task_status ==
  /\ ToolsOpen
  /\ \E t \in Task : /\ Skippable(t)
                     /\ status' = [status EXCEPT ![t] = "skipped"]
  /\ UNCHANGED <<run, attempts, deps, pc, memVars, over, boundVars>>

-----------------------------------------------------------------------------
(* After the graph: the rows follow the list, then the run fails or is     *)
(* reviewed.                                                               *)
SyncBoard ==
  /\ pc = "sync"
  /\ status' = [t \in Task |-> IF t \in List THEN mem[t] ELSE status[t]]
  /\ attempts' = [t \in Task |-> IF t \in List /\ mem[t] # status[t]
                                 THEN tries[t] ELSE attempts[t]]
  /\ run' = IF failure THEN "failed" ELSE "reviewing"
  /\ pc' = IF failure THEN "over" ELSE "review"
  /\ UNCHANGED <<deps, memVars, over, boundVars>>

Goto(from, to) ==
  /\ pc \in from /\ pc' = to
  /\ UNCHANGED <<status, attempts, deps, memVars, boundVars>>

Approve        == Goto({"review", "rereview"}, "gates") /\ UNCHANGED run /\ Spend
RequestChanges == Goto({"review"}, "revise")   /\ UNCHANGED run       /\ Spend
Revised        == Goto({"revise"}, "rereview") /\ UNCHANGED run       /\ Spend
Refuse         == Goto({"rereview"}, "over")   /\ run' = "failed"     /\ Spend
GateBlocks     == Goto({"gates"}, "over")      /\ run' = "failed"     /\ Spend
Publish        == Goto({"gates"}, "over")      /\ run' = "completed"  /\ Spend

\* Any other exception (no workspace, a model that gives up, a failed
\* push): _guarded fails the run and leaves the board as it is.
Guarded ==
  Goto({"idle", "review", "revise", "rereview", "gates"}, "over")
  /\ run' = "failed" /\ UNCHANGED over

SyncFails ==
  /\ pc = "sync" /\ faults < MaxFaults
  /\ faults' = faults + 1
  /\ run' = "failed" /\ pc' = "over"
  /\ UNCHANGED <<status, attempts, deps, memVars, over, crashes>>

-----------------------------------------------------------------------------
(* The process dies; the rows survive, the coroutine's memory does not.    *)
Crash ==
  /\ pc \notin {"down", "over"} /\ crashes < MaxCrashes
  /\ crashes' = crashes + 1
  /\ pc' = "down"
  /\ mem' = [t \in Task |-> "absent"]
  /\ tries' = [t \in Task |-> 0]
  /\ known' = {} /\ current' = None /\ failure' = FALSE /\ steps' = 0
  /\ UNCHANGED <<rowVars, over, faults>>

\* reset_interrupted_execution, then execute_tasks starts again.
ResumeStates_Executing == {"executing"}        \* (mutant)
Interrupted_Done       == {"in_progress", "done"}   \* (mutant) work is repeated
ResumeStates == {"executing", "reviewing"}
Interrupted  == {"in_progress"}

Recover ==
  /\ pc = "down" /\ run \in ResumeStates
  /\ status' = [t \in Task |-> IF status[t] \in Interrupted THEN "pending" ELSE status[t]]
  /\ run' = "executing"
  /\ pc' = "idle"
  /\ UNCHANGED <<attempts, deps, memVars, over, boundVars>>

-----------------------------------------------------------------------------
Supervise  == ScheduleNext \/ ScheduleEmpty \/ ScheduleFailed \/ Finalize \/ GiveUp
Attempt    == BeginAttempt \/ BudgetStops \/ AttemptFails \/ AttemptSucceeds
Tools      == add_task \/ update_task_status
Conclude   == SyncBoard \/ Approve \/ RequestChanges \/ Revised \/ Refuse
              \/ GateBlocks \/ Publish \/ Guarded
Engine     == Load \/ Supervise \/ Attempt \/ Conclude \/ Recover

Faults     == BeginFails \/ RecordFails \/ SyncFails

Next == Engine \/ Tools \/ Faults \/ Crash

Spec == Init /\ [][Next]_vars

(***************************************************************************)
(* The event loop keeps running the coroutine, every agent loop is bounded *)
(* (MAX_TURNS) and startup recovery restarts what a crash stopped; nothing *)
(* forces an agent to use a board tool, or a fault or a crash to happen.   *)
(***************************************************************************)
FairSpec == Spec /\ WF_vars(Engine)

-----------------------------------------------------------------------------
(* Properties.                                                             *)

Contract == INSTANCE BoardContract

\* The rows change as BoardContract promises: whatever the supervisor, the tools,
\* a failed transaction or a recovery does, each of their steps is one of its.
ImplementsContract == Contract!Spec

\* A task is in progress only when all its dependencies are done, whatever was
\* skipped, retried or recovered meanwhile (AGENT_RUNTIME.md, rule 1).
DependencyOrder == Contract!DependencyOrder

\* One task at a time: no crash, failed bookkeeping or recovery leaves a second
\* row in progress.
OneInProgress == Contract!OneInProgress

\* The deadlock branch of _schedule is never taken: plans point backwards and
\* update_task_status refuses to skip what unfinished work depends on.
NoDependencyDeadlock ==
  pc = "schedule" /\ ~failure /\ (\E t \in List : mem[t] \notin Finished)
    => eligible # {}

\* When review starts, every task of the board is done or skipped: tasks added
\* and skipped by agents, also in attempts that failed, have been accounted for.
ReviewSeesFinishedBoard ==
  pc = "review" => \A t \in Board : status[t] \in Finished

\* Every failed attempt counts once; beyond the retries only a crash or a failed
\* transaction can have cost an attempt.
AttemptsAreBounded ==
  \A t \in Task : attempts[t] <= MaxRetries + 1 + crashes

\* A task an agent skipped is never executed, even when the supervisor has not
\* heard of the skip yet, and a done task is never run again, not even by recovery.
SettledStaysSettled == Contract!SettledStaysSettled

\* Whatever fails or crashes, the run reaches a terminal status.
RunEnds == <>(run \in {"completed", "failed"})

(***************************************************************************)
(* What the documents say and the code does not do.                        *)
(***************************************************************************)
\* supervisor.py: "when the run fails (or dependencies deadlock), remaining
\* unstarted tasks are marked skipped".
FailedBoardIsClosed ==
  run = "failed" /\ failure => \A t \in Board : status[t] # "pending"

\* supervisor.py: a task may be retried at most twice, "three attempts total".
AttemptsTotal == \A t \in Task : attempts[t] <= MaxRetries + 1

\* TASK_BOARD_TOOLS.md: a task added by an agent is scheduled and executed in the
\* same run.
CompletedBoardIsFinished ==
  run = "completed" => \A t \in Board : status[t] \in Finished

\* AGENT_RUNTIME.md, rule 2: a failed task is retried and only its third failure
\* fails the run, so a task that may run again is given a superstep.
RetryIsScheduled ==
  pc = "schedule" /\ ~failure /\ eligible # {} => steps < RecursionLimit
=============================================================================
