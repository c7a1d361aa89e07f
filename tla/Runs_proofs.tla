---------------------------- MODULE Runs_proofs -----------------------------
(***************************************************************************)
(* Theorems about the coroutines of a run, for any number of tasks,        *)
(* restarts, deliveries and database failures: first InlineRuns, then      *)
(* QueuedRuns (the two modes of the engine share Runner and its state).    *)
(*                                                                         *)
(* Inline mode: any number of coroutines.  Requests are served before      *)
(* recovery has read the interrupted runs, so recovery may take up a run   *)
(* that a request has just started (early); what is said of one coroutine  *)
(* and of the status holds up to then, and that no active run is forgotten *)
(* holds then too.                                                         *)
(*                                                                         *)
(* Queue mode: Worker is the set of the queue's four coroutines, and the   *)
(* answer of enqueue_job is never lost (Answered: with a lost answer two   *)
(* planners work on the run).                                              *)
(***************************************************************************)
EXTENDS InlineRuns, QueuedRuns, TLAPS

-----------------------------------------------------------------------------
(* RUN_QUEUE=inline.                                                       *)

\* A coroutine that works on the run finds it in the status its position implies;
\* only a deletion can take the run away from an executor.
Phase ==
  \A w \in Worker :
    /\ pc[w] \in {"clear", "plan", "claimed"} => run = "queued"
    /\ pc[w] \in {"planning", "propose"} => run = "planning"
    /\ pc[w] \in {"execute", "loaded", "graph"} => run \in {"executing", "deleted"}
    /\ pc[w] \in {"review", "gates", "publish", "complete"} => run \in {"reviewing", "deleted"}
    /\ pc[w] = "broken" => run \in Active \cup {"deleted"}

Recovering ==
  /\ rec \in {"replan", "resume"} => \A w \in Worker : ~Working(w)
  /\ rec = "replan" => run \in ReplanStates
  /\ rec = "resume" => run \in ResumeStates \cup {"deleted"}

Deleting ==
  deletion # "none" => run \in {"awaiting_approval", "executing", "reviewing"} \cup Terminal

Ended == run # "deleted" => ended = IF run \in Terminal THEN 1 ELSE 0

\* Before the gate there is no board, and no approval before the decision.
Proposed ==
  /\ run \in {"none", "queued", "planning"} => ~tasks /\ ~approved
  /\ run = "awaiting_approval" => ~approved

\* What holds until recovery takes up a run that a request has just started.
Orderly == ~early => Phase /\ Alone /\ Recovering /\ Deleting /\ Ended /\ Proposed

\* The coroutine will not leave because it finds the run in another status.
Holds(w) ==
  /\ Working(w)
  /\ pc[w] \in {"clear", "plan"} => run = "queued"
  /\ pc[w] = "execute" => run = "executing"

\* Whoever wrote an active status goes on, or recovery still comes to the run: this does
\* not need that there is only one coroutine.
Attended ==
  run \in Active /\ ~abandoned =>
    \/ rec = "select"
    \/ rec = "replan" /\ run \in ReplanStates
    \/ rec = "resume" /\ run \in ResumeStates
    \/ \E w \in Worker : Holds(w)

IInv == TypeOK /\ Orderly /\ Attended

-----------------------------------------------------------------------------
\* A step of the planner.
LEMMA PlanStep ==
  ASSUME IInv, NEW w \in Worker, UNCHANGED inline, Plan(w)
  PROVE  IInv'
<1> USE RunnerAssumption, InlineAssumption
  DEF IInv, Orderly, Holds, ReplanStates, ResumeStates, TypeOK, RunnerTypeOK, Phase, Alone,
       Recovering, Deleting, Ended, Proposed, Attended, Working, At, Exists, row,
       rest, disk, api, luck, inline, GivesUp, Active, Terminal, RunStatus, Planning,
       Executing, Position
<1>1. CASE PlanClaims(w)
  BY <1>1 DEF PlanClaims
<1>2. CASE PlanStarts(w)
  BY <1>2 DEF PlanStarts
<1>3. CASE PlanClones(w)
  BY <1>3 DEF PlanClones
<1>4. CASE PlanProposes(w)
  BY <1>4 DEF PlanProposes
<1> QED
  BY <1>1, <1>2, <1>3, <1>4 DEF Plan

\* A step of the executor.
LEMMA ExecuteStep ==
  ASSUME IInv, NEW w \in Worker, UNCHANGED inline, Execute(w)
  PROVE  IInv'
<1> USE RunnerAssumption, InlineAssumption
  DEF IInv, Orderly, Holds, ReplanStates, ResumeStates, TypeOK, RunnerTypeOK, Phase, Alone,
       Recovering, Deleting, Ended, Proposed, Attended, Working, At, Exists, row,
       rest, disk, api, luck, inline, GivesUp, Active, Terminal, RunStatus, Planning,
       Executing, Position
<1>1. CASE ExecuteLoads(w)
  BY <1>1 DEF ExecuteLoads
<1>2. CASE ExecuteOpens(w)
  BY <1>2 DEF ExecuteOpens
<1>3. CASE TaskFinishes(w)
  BY <1>3 DEF TaskFinishes
<1>4. CASE GraphEnds(w)
  BY <1>4 DEF GraphEnds
<1>5. CASE Approves(w)
  BY <1>5 DEF Approves
<1>6. CASE Passes(w)
  BY <1>6 DEF Passes
<1>7. CASE Fails(w)
  BY <1>7 DEF Fails
<1>8. CASE Publishes(w)
  BY <1>8 DEF Publishes
<1>9. CASE Completes(w)
  BY <1>9 DEF Completes
<1> QED
  BY <1>1, <1>2, <1>3, <1>4, <1>5, <1>6, <1>7, <1>8, <1>9 DEF Execute

\* A step of the guard, of a reset that was begun, or an error.
LEMMA GuardStep ==
  ASSUME IInv, NEW w \in Worker, UNCHANGED inline,
         Clears(w) \/ Raises(w) \/ Guards(w) \/ Reports(w) \/ Breaks(w)
  PROVE  IInv'
<1> USE RunnerAssumption, InlineAssumption
  DEF IInv, Orderly, Holds, ReplanStates, ResumeStates, TypeOK, RunnerTypeOK, Phase, Alone,
       Recovering, Deleting, Ended, Proposed, Attended, Working, At, Exists, row,
       rest, disk, api, luck, inline, GivesUp, Active, Terminal, RunStatus, Planning,
       Executing, Position
<1>1. CASE Raises(w)
  BY <1>1 DEF Raises
<1>2. CASE Guards(w)
  BY <1>2 DEF Guards
<1>3. CASE Reports(w)
  BY <1>3 DEF Reports
<1>4. CASE ReadFails(w)
  BY <1>4 DEF ReadFails
<1>5. CASE GuardFails(w)
  BY <1>5 DEF GuardFails
<1>6. CASE Clears(w)
  <2> USE <1>6 DEF Clears
  <2>1. space' \in BOOLEAN OBVIOUS
  <2>2. pc' \in [Worker -> Position] OBVIOUS
  <2>3. TypeOK' BY <2>1, <2>2
  <2>4. Orderly' OBVIOUS
  <2>5. Attended' OBVIOUS
  <2> QED BY <2>3, <2>4, <2>5
<1>7. CASE ClearFails(w)
  <2> USE <1>7 DEF ClearFails
  <2>1. space' \in BOOLEAN OBVIOUS
  <2>2. abandoned' \in BOOLEAN OBVIOUS
  <2>3. pc' \in [Worker -> Position] OBVIOUS
  <2>4. TypeOK' BY <2>1, <2>2, <2>3
  <2>5. Orderly' OBVIOUS
  <2>6. Attended' OBVIOUS
  <2> QED BY <2>4, <2>5, <2>6
<1> QED
  BY <1>1, <1>2, <1>3, <1>4, <1>5, <1>6, <1>7 DEF Breaks

\* A request: a run that is created or approved gets a coroutine, or an error.
LEMMA RequestStep ==
  ASSUME IInv, Create \/ Approve \/ Reject \/ Delete \/ (ApprovesInVain /\ UNCHANGED inline)
  PROVE  IInv'
<1> USE RunnerAssumption, InlineAssumption
  DEF IInv, Orderly, Holds, ReplanStates, ResumeStates, TypeOK, RunnerTypeOK, Phase, Alone,
       Recovering, Deleting, Ended, Proposed, Attended, Working, At, Exists, row,
       rest, disk, api, luck, inline, GivesUp, Active, Terminal, RunStatus, Planning,
       Executing, Position
<1>1. CASE Create
  BY <1>1 DEF Create, Creates, StartsWith
<1>2. CASE Approve
  BY <1>2 DEF Approve, ApprovesPlan, StartsWith
<1>3. CASE ApprovesInVain /\ UNCHANGED inline
  BY <1>3 DEF ApprovesInVain, ApprovesPlan
<1>4. CASE Reject /\ RejectsPlan
  <2> USE <1>4 DEF Reject, RejectsPlan
  <2>1. left' \in 0 .. MaxTasks /\ ended' \in Nat OBVIOUS
  <2>2. rejecting' \in BOOLEAN OBVIOUS
  <2>3. TypeOK' BY <2>1, <2>2
  <2>4. Orderly' /\ Attended' OBVIOUS
  <2> QED BY <2>3, <2>4
<1>5. CASE Reject /\ RejectionClears
  <2> USE <1>5 DEF Reject, RejectionClears
  <2>1. space' \in BOOLEAN OBVIOUS
  <2>2. rejecting' \in BOOLEAN OBVIOUS
  <2>3. TypeOK' BY <2>1, <2>2
  <2>4. Orderly' OBVIOUS
  <2>5. Attended' OBVIOUS
  <2> QED BY <2>3, <2>4, <2>5
<1>6. CASE Delete /\ (DeleteChecks \/ DeleteClears)
  <2> USE <1>6 DEF Delete, DeleteChecks, DeleteClears
  <2>1. space' \in BOOLEAN OBVIOUS
  <2>2. TypeOK' BY <2>1
  <2>3. Orderly' OBVIOUS
  <2>4. Attended' OBVIOUS
  <2> QED BY <2>2, <2>3, <2>4
<1>7. CASE Delete /\ DeleteCommits
  <2> USE <1>7 DEF Delete, DeleteCommits
  <2>1. left' \in 0 .. MaxTasks OBVIOUS
  <2>2. TypeOK' BY <2>1
  <2>3. Orderly' /\ Attended' OBVIOUS
  <2> QED BY <2>2, <2>3
<1>8. CASE Delete /\ DeleteFails
  <2> USE <1>8 DEF Delete, DeleteFails
  <2>1. space' \in BOOLEAN OBVIOUS
  <2>2. TypeOK' BY <2>1
  <2>3. Orderly' OBVIOUS
  <2>4. Attended' OBVIOUS
  <2> QED BY <2>2, <2>3, <2>4
<1> QED
  BY <1>1, <1>2, <1>3, <1>4, <1>5, <1>6, <1>7, <1>8 DEF Reject, Rejects, Delete, Deletes

\* A step of startup recovery: if it takes up a run that somebody works on, it says so
\* (early); otherwise it restarts the run alone.
LEMMA RecoveryStep ==
  ASSUME IInv, Recovery \/ RecoveryFails
  PROVE  IInv'
<1> USE RunnerAssumption, InlineAssumption
  DEF IInv, Orderly, Holds, ReplanStates, ResumeStates, TypeOK, RunnerTypeOK, Phase, Alone,
       Recovering, Deleting, Ended, Proposed, Attended, Working, At, Exists, row,
       rest, disk, api, luck, inline, GivesUp, Active, Terminal, RunStatus, Planning,
       Executing, Position
<1>1. CASE RecoverySelects
  <2> USE <1>1 DEF RecoverySelects
  <2>1. early' \in BOOLEAN OBVIOUS
  <2>2. TypeOK' BY <2>1
  <2>3. Orderly' OBVIOUS
  <2>4. Attended' OBVIOUS
  <2> QED BY <2>2, <2>3, <2>4
<1>2. CASE RecoveryReplans /\ run \in ReplanStates
  <2> USE <1>2 DEF RecoveryReplans, ResetPlanning, StartsWith
  <2>1. left' \in 0 .. MaxTasks OBVIOUS
  <2>2. TypeOK' BY <2>1
  <2>3. Orderly' OBVIOUS
  <2>4. Attended' OBVIOUS
  <2> QED BY <2>2, <2>3, <2>4
<1>3. CASE RecoveryReplans /\ run \notin ReplanStates
  BY <1>3 DEF RecoveryReplans
<1>4. CASE RecoveryResumes
  BY <1>4 DEF RecoveryResumes, ResetExecution, StartsWith
<1>5. CASE RecoveryFails
  BY <1>5 DEF RecoveryFails
<1> QED
  BY <1>1, <1>2, <1>3, <1>4, <1>5 DEF Recovery

\* A restart forgets the coroutines, the requests and what was given up.
LEMMA RestartStep ==
  ASSUME IInv, Restart
  PROVE  IInv'
<1> USE RunnerAssumption, InlineAssumption
  DEF IInv, Orderly, Holds, ReplanStates, ResumeStates, TypeOK, RunnerTypeOK, Phase, Alone,
       Recovering, Deleting, Ended, Proposed, Attended, Working, At, Exists, row,
       rest, disk, api, luck, inline, GivesUp, Active, Terminal, RunStatus, Planning,
       Executing, Position
<1> USE DEF Restart, Dies
<1>1. pc' \in [Worker -> Position] /\ rejecting' \in BOOLEAN
  OBVIOUS
<1>2. abandoned' \in BOOLEAN
  OBVIOUS
<1>3. TypeOK'
  BY <1>1, <1>2
<1>4. Orderly' /\ Attended'
  OBVIOUS
<1> QED
  BY <1>3, <1>4

-----------------------------------------------------------------------------
\* The inductive invariant holds in every reachable state.
THEOREM Invariance == Spec => []IInv
<1>1. Init => IInv
  <2> SUFFICES ASSUME Init PROVE IInv
    OBVIOUS
  <2> USE RunnerAssumption, InlineAssumption
    DEF Init, RunnerInit, IInv, Orderly, Holds, ReplanStates, ResumeStates, TypeOK,
        RunnerTypeOK, Phase, Alone, Recovering, Deleting, Ended, Proposed, Attended,
        Working, Active, Terminal, RunStatus, Planning, Executing, Position
  <2>1. left \in 0 .. MaxTasks
    OBVIOUS
  <2>2. (space \in BOOLEAN /\ opened \in BOOLEAN) /\ (tasks \in BOOLEAN /\ approved \in BOOLEAN)
        /\ (rejecting \in BOOLEAN /\ abandoned \in BOOLEAN) /\ early \in BOOLEAN
    OBVIOUS
  <2>3. TypeOK
    BY <2>1, <2>2
  <2> QED
    BY <2>3
<1>2. IInv /\ [Next]_vars => IInv'
  <2> SUFFICES ASSUME IInv, [Next]_vars PROVE IInv'
    OBVIOUS
  <2>1. CASE Create \/ Approve \/ Reject \/ Delete
    BY <2>1, RequestStep
  <2>2. CASE \E w \in Worker : Work(w)
    <3> PICK w \in Worker : Work(w)
      BY <2>2
    <3> QED
      BY PlanStep, ExecuteStep, GuardStep DEF Work, Coroutine
  <2>3. CASE Fault
    BY <2>3, GuardStep, RequestStep, RecoveryStep DEF Fault
  <2>4. CASE Recovery
    BY <2>4, RecoveryStep
  <2>5. CASE Restart
    BY <2>5, RestartStep
  <2>6. CASE UNCHANGED vars
    BY <2>6 DEF vars, row, rest, disk, api, luck, inline, IInv, Orderly, Holds, TypeOK,
         RunnerTypeOK, Phase, Alone, Recovering, Deleting, Ended, Proposed, Attended, Working
  <2> QED
    BY <2>1, <2>2, <2>3, <2>4, <2>5, <2>6 DEF Next
<1> QED
  BY <1>1, <1>2, PTL DEF Spec

\* Type correctness.
THEOREM TypeCorrect == Spec => []TypeOK
BY Invariance, PTL DEF IInv

\* Nobody joins a coroutine on the run, restarts, failing guards and failing resets
\* included, before recovery takes up a run that a request has just started.
THEOREM NeverTwoCoroutines == Spec => []OneCoroutine
<1>1. IInv => OneCoroutine
  BY DEF IInv, Orderly, Recovering, OneCoroutine
<1> QED
  BY <1>1, Invariance, PTL

\* Up to then exactly the ended runs have a run.finished event, and one.
THEOREM EndsOnce == Spec => []FinishedOnce
<1>1. IInv => FinishedOnce
  BY DEF IInv, Orderly, Ended, FinishedOnce, Exists
<1> QED
  BY <1>1, Invariance, PTL

\* An active run has a coroutine or recovery comes to it, unless an error that nobody
\* handles ended it after the last start; also when two coroutines met.
THEOREM NeverForgotten == Spec => []ActiveRunIsAttended
<1>1. IInv => ActiveRunIsAttended
  BY DEF IInv, Attended, Holds, ActiveRunIsAttended
<1> QED
  BY <1>1, Invariance, PTL

\* Every step moves the run's status along an edge of the lifecycle or leaves it.
LEMMA LifecycleStep ==
  ASSUME IInv, [Next]_vars, ~early
  PROVE  [Lifecycle!Next]_run
<1> USE DEF Lifecycle!Next, Lifecycle!Create, Lifecycle!Plan,
      Lifecycle!Propose, Lifecycle!Approve, Lifecycle!Reject, Lifecycle!Review,
      Lifecycle!Complete, Lifecycle!Fail, Lifecycle!Replan, Lifecycle!Resume,
      Lifecycle!Delete, Lifecycle!Goto, Lifecycle!Active, Lifecycle!Terminal,
      Phase, Recovering, Deleting, At, Exists, Active, Terminal, row
<1> Phase /\ Recovering /\ Deleting
  BY DEF IInv, Orderly
<1>1. CASE Create \/ Approve \/ Reject \/ ApprovesInVain
  BY <1>1 DEF Create, Creates, Approve, ApprovesPlan, ApprovesInVain, Reject, Rejects,
     RejectsPlan, RejectionClears
<1>2. CASE Delete
  BY <1>2 DEF Delete, Deletes, DeleteChecks, DeleteClears, DeleteCommits, DeleteFails
<1>3. ASSUME NEW w \in Worker, Plan(w) PROVE [Lifecycle!Next]_run
  BY <1>3 DEF Plan, PlanClaims, PlanStarts, PlanClones, PlanProposes
<1>4. ASSUME NEW w \in Worker, Execute(w) PROVE [Lifecycle!Next]_run
  <2>1. CASE GraphEnds(w)
    BY <2>1 DEF GraphEnds
  <2>2. CASE Fails(w)
    BY <2>2 DEF Fails
  <2>3. CASE Completes(w)
    BY <2>3 DEF Completes
  <2> QED
    BY <1>4, <2>1, <2>2, <2>3 DEF Execute, ExecuteLoads, ExecuteOpens, TaskFinishes,
       Approves, Passes, Publishes
<1>5. ASSUME NEW w \in Worker, Clears(w) \/ Raises(w) \/ Guards(w) \/ Reports(w) \/ Breaks(w)
      PROVE  [Lifecycle!Next]_run
  BY <1>5 DEF Clears, Raises, Guards, Reports, Breaks, GuardFails, ReadFails, ClearFails
<1>6. CASE \E w \in Worker : Work(w)
  BY <1>3, <1>4, <1>5, <1>6 DEF Work, Coroutine
<1>7. CASE Recovery \/ RecoveryFails
  BY <1>7 DEF Recovery, RecoverySelects, RecoveryReplans, RecoveryResumes, RecoveryFails,
     ResetPlanning, ResetExecution, ReplanStates, ResumeStates
<1>8. CASE Fault
  BY <1>1, <1>5, <1>7, <1>8 DEF Fault
<1>9. CASE Restart \/ UNCHANGED vars
  BY <1>9 DEF Restart, Dies, vars
<1> QED
  BY <1>1, <1>2, <1>6, <1>7, <1>8, <1>9 DEF Next

\* Planner, executor, guard, API and recovery follow the lifecycle of a run, until
\* recovery takes up a run that a request has just started.
THEOREM RunsImplementLifecycle == Spec => ImplementsLifecycle
<1>1. IInv /\ [Next]_vars => [~early => Lifecycle!Next]_run
  BY LifecycleStep
<1> QED
  BY <1>1, Invariance, PTL DEF Spec, ImplementsLifecycle

\* No step after the approval discards the board or gives a finished task back.
LEMMA ApprovedStep ==
  ASSUME IInv, [Next]_vars, approved, ~early
  PROVE  (tasks' = tasks /\ left' <= left) \/ run' = "deleted"
<1> USE DEF Phase, Recovering, Proposed, At, row
<1>1. Phase /\ Recovering /\ Proposed /\ left \in Nat
  BY RunnerAssumption DEF IInv, Orderly, TypeOK, RunnerTypeOK
<1>2. (tasks' = tasks /\ left' = left) \/ run' = "deleted"
      \/ \E w \in Worker : TaskFinishes(w)
  <2>1. CASE Create \/ Approve \/ Reject \/ ApprovesInVain
    BY <1>1, <2>1 DEF Create, Creates, Approve, ApprovesPlan, ApprovesInVain, Reject,
       Rejects, RejectsPlan, RejectionClears
  <2>2. CASE Delete
    BY <2>2 DEF Delete, Deletes, DeleteChecks, DeleteClears, DeleteCommits, DeleteFails
  <2>3. ASSUME NEW w \in Worker, Plan(w) PROVE tasks' = tasks /\ left' = left
    BY <1>1, <2>3 DEF Plan, PlanClaims, PlanStarts, PlanClones, PlanProposes
  <2>4. ASSUME NEW w \in Worker, Execute(w), ~TaskFinishes(w)
        PROVE  tasks' = tasks /\ left' = left
    BY <2>4 DEF Execute, ExecuteLoads, ExecuteOpens, GraphEnds, Approves, Passes,
       Fails, Publishes, Completes
  <2>5. ASSUME NEW w \in Worker,
               Clears(w) \/ Raises(w) \/ Guards(w) \/ Reports(w) \/ Breaks(w)
        PROVE  tasks' = tasks /\ left' = left
    BY <2>5 DEF Clears, Raises, Guards, Reports, Breaks, GuardFails, ReadFails, ClearFails
  <2>6. CASE \E w \in Worker : Work(w)
    BY <2>3, <2>4, <2>5, <2>6 DEF Work, Coroutine
  <2>7. CASE Recovery \/ RecoveryFails
    BY <1>1, <2>7 DEF Recovery, RecoverySelects, RecoveryReplans, RecoveryResumes,
       RecoveryFails, ResetPlanning, ResetExecution, ReplanStates, ResumeStates
  <2>8. CASE Fault
    BY <2>1, <2>5, <2>7, <2>8 DEF Fault
  <2>9. CASE Restart \/ UNCHANGED vars
    BY <2>9 DEF Restart, Dies, vars
  <2> QED
    BY <2>1, <2>2, <2>6, <2>7, <2>8, <2>9 DEF Next
<1>3. CASE \E w \in Worker : TaskFinishes(w)
  <2>1. left' <= left
    BY <1>1, <1>3 DEF TaskFinishes
  <2>2. tasks' = tasks
    BY <1>3 DEF TaskFinishes
  <2> QED
    BY <2>1, <2>2
<1> QED
  <2>1. left' = left => left' <= left
    BY <1>1
  <2> QED
    BY <1>2, <1>3, <2>1

\* What the human approved is what runs, up to the same point.
THEOREM ApprovalIsFinal == Spec => ApprovedPlanStands
<1>1. IInv /\ [Next]_vars =>
        [~early /\ approved => (tasks' = tasks /\ left' <= left) \/ run' = "deleted"]_vars
  BY ApprovedStep
<1> QED
  BY <1>1, Invariance, PTL DEF Spec, ApprovedPlanStands

-----------------------------------------------------------------------------
(* RUN_QUEUE=arq.                                                          *)

Planner  == {Job("plan"), Inline("plan")}
Executor == {Job("execute"), Inline("execute")}

Answered == Worker = Coroutines /\ "unanswered" \notin Enqueue

\* Each coroutine is dispatched once, to the queue or to the API, and a job has a
\* coroutine only while it runs; nothing is dispatched for the executor before the
\* approval.
HandedOver ==
  /\ \A k \in Kind :
       /\ k \in pending \/ job[k] # "none" => pc[Inline(k)] = "free"
       /\ k \in pending => job[k] = "none"
       /\ pc[Job(k)] # "free" => job[k] = "running"
  /\ run = "none" => pending = {} /\ \A k \in Kind : job[k] = "none" /\ pc[Inline(k)] = "free"
  /\ ~approved =>
       "execute" \notin pending /\ job["execute"] = "none" /\ pc[Inline("execute")] = "free"

\* A planner past its check finds the run as it left it, also when the database has
\* failed before; before the gate there is no board, no approval and no deletion.
Gated ==
  /\ \A w \in Planner :
       /\ pc[w] \in Planning \cup {"free", "after", "broken", "clear"}
       /\ pc[w] \in {"clear", "claimed"} => run = "queued"
       /\ pc[w] \in {"planning", "propose"} => run = "planning"
  /\ \A w \in Executor : pc[w] \in Executing \cup {"free", "after", "broken"}
  /\ run \in {"none", "queued", "planning"} => ~tasks /\ ~approved /\ deletion = "none"
  /\ run = "awaiting_approval" => ~approved
  /\ run = "deleted" => deletion = "none"

\* While the database works, so does every executor, and the guard; only a deletion
\* can take the run away.
Kept ==
  faults = 0 =>
    /\ \A w \in Planner : pc[w] = "broken" => run \in {"queued", "planning"}
    /\ \A w \in Executor :
         /\ pc[w] \in {"loaded", "graph"} => run \in {"executing", "deleted"}
         /\ pc[w] \in {"review", "gates", "publish", "complete"} => run \in {"reviewing", "deleted"}
         /\ pc[w] = "broken" => run \in {"executing", "reviewing", "deleted"}
    /\ run # "deleted" => ended = IF run \in Terminal THEN 1 ELSE 0

QueuedIInv == QueuedTypeOK /\ HandedOver /\ Gated /\ Kept

-----------------------------------------------------------------------------
\* A step of the planner.
LEMMA QueuedPlanStep ==
  ASSUME Answered, QueuedIInv, NEW w \in Worker, UNCHANGED <<queue, bounds>>, Plan(w)
  PROVE  QueuedIInv'
<1> USE RunnerAssumption, QueueAssumption
  DEF Answered, Coroutines, QueuedIInv, QueuedTypeOK, RunnerTypeOK, HandedOver, Gated,
      Kept, Planner, Executor, Job, Inline, Kind, queue, bounds, At, Exists, row,
      rest, disk, api, luck, GivesUp, Active, Terminal, RunStatus, Planning, Executing,
      Position
<1>1. CASE PlanClaims(w)
  BY <1>1 DEF PlanClaims
<1>2. CASE PlanStarts(w)
  BY <1>2 DEF PlanStarts
<1>3. CASE PlanClones(w)
  BY <1>3 DEF PlanClones
<1>4. CASE PlanProposes(w)
  BY <1>4 DEF PlanProposes
<1> QED
  BY <1>1, <1>2, <1>3, <1>4 DEF Plan

\* A step of the executor.
LEMMA QueuedExecuteStep ==
  ASSUME Answered, QueuedIInv, NEW w \in Worker, UNCHANGED <<queue, bounds>>,
         Execute(w)
  PROVE  QueuedIInv'
<1> USE RunnerAssumption, QueueAssumption
  DEF Answered, Coroutines, QueuedIInv, QueuedTypeOK, RunnerTypeOK, HandedOver, Gated,
      Kept, Planner, Executor, Job, Inline, Kind, queue, bounds, At, Exists, row,
      rest, disk, api, luck, GivesUp, Active, Terminal, RunStatus, Planning, Executing,
      Position
<1>1. CASE ExecuteLoads(w)
  BY <1>1 DEF ExecuteLoads
<1>2. CASE ExecuteOpens(w)
  BY <1>2 DEF ExecuteOpens
<1>3. CASE TaskFinishes(w)
  BY <1>3 DEF TaskFinishes
<1>4. CASE GraphEnds(w)
  BY <1>4 DEF GraphEnds
<1>5. CASE Approves(w)
  BY <1>5 DEF Approves
<1>6. CASE Passes(w)
  BY <1>6 DEF Passes
<1>7. CASE Fails(w)
  BY <1>7 DEF Fails
<1>8. CASE Publishes(w)
  BY <1>8 DEF Publishes
<1>9. CASE Completes(w)
  BY <1>9 DEF Completes
<1> QED
  BY <1>1, <1>2, <1>3, <1>4, <1>5, <1>6, <1>7, <1>8, <1>9 DEF Execute

\* A step of the guard, of a reset that was begun, or an error.
LEMMA QueuedGuardStep ==
  ASSUME Answered, QueuedIInv, NEW w \in Worker, UNCHANGED <<queue, bounds>>,
         Clears(w) \/ Raises(w) \/ Guards(w) \/ Reports(w) \/ Breaks(w)
  PROVE  QueuedIInv'
<1> USE RunnerAssumption, QueueAssumption
  DEF Answered, Coroutines, QueuedIInv, QueuedTypeOK, RunnerTypeOK, HandedOver, Gated,
      Kept, Planner, Executor, Job, Inline, Kind, queue, bounds, At, Exists, row,
      rest, disk, api, luck, GivesUp, Active, Terminal, RunStatus, Planning, Executing,
      Position
<1>1. CASE Raises(w)
  BY <1>1 DEF Raises
<1>2. CASE Guards(w)
  BY <1>2 DEF Guards
<1>3. CASE Reports(w)
  BY <1>3 DEF Reports
<1>4. CASE ReadFails(w)
  BY <1>4 DEF ReadFails
<1>5. CASE GuardFails(w)
  BY <1>5 DEF GuardFails
<1>6. CASE Clears(w)
  <2> USE <1>6 DEF Clears
  <2>1. space' \in BOOLEAN OBVIOUS
  <2>2. pc' \in [Worker -> Position] OBVIOUS
  <2>3. QueuedTypeOK' BY <2>1, <2>2
  <2>4. HandedOver' /\ Gated' /\ Kept' OBVIOUS
  <2> QED BY <2>3, <2>4
<1>7. CASE ClearFails(w)
  <2> USE <1>7 DEF ClearFails
  <2>1. space' \in BOOLEAN OBVIOUS
  <2>2. abandoned' \in BOOLEAN OBVIOUS
  <2>3. pc' \in [Worker -> Position] OBVIOUS
  <2>4. QueuedTypeOK' BY <2>1, <2>2, <2>3
  <2>5. HandedOver' /\ Gated' /\ Kept' OBVIOUS
  <2> QED BY <2>4, <2>5
<1> QED
  BY <1>1, <1>2, <1>3, <1>4, <1>5, <1>6, <1>7 DEF Breaks

\* A request, with the dispatch it leaves pending.
LEMMA QueuedRequestStep ==
  ASSUME Answered, QueuedIInv,
         \/ QueuedCreate \/ QueuedApprove \/ QueuedReject \/ QueuedDelete
         \/ ApprovesInVain /\ UNCHANGED <<queue, bounds>>
  PROVE  QueuedIInv'
<1> USE RunnerAssumption, QueueAssumption
  DEF Answered, Coroutines, QueuedIInv, QueuedTypeOK, RunnerTypeOK, HandedOver, Gated,
      Kept, Planner, Executor, Job, Inline, Kind, queue, bounds, At, Exists, row,
      rest, disk, api, luck, GivesUp, Active, Terminal, RunStatus, Planning, Executing,
      Position
<1>1. CASE QueuedCreate
  BY <1>1 DEF QueuedCreate, Creates
<1>2. CASE QueuedApprove
  BY <1>2 DEF QueuedApprove, ApprovesPlan
<1>3. CASE ApprovesInVain /\ UNCHANGED <<queue, bounds>>
  BY <1>3 DEF ApprovesInVain, ApprovesPlan
<1>4. CASE QueuedReject /\ RejectsPlan
  <2> USE <1>4 DEF QueuedReject, RejectsPlan
  <2>1. left' \in 0 .. MaxTasks /\ ended' \in Nat OBVIOUS
  <2>2. rejecting' \in BOOLEAN OBVIOUS
  <2>3. QueuedTypeOK' BY <2>1, <2>2
  <2>4. HandedOver' /\ Gated' /\ Kept' OBVIOUS
  <2> QED BY <2>3, <2>4
<1>5. CASE QueuedReject /\ RejectionClears
  <2> USE <1>5 DEF QueuedReject, RejectionClears
  <2>1. space' \in BOOLEAN OBVIOUS
  <2>2. rejecting' \in BOOLEAN OBVIOUS
  <2>3. QueuedTypeOK' BY <2>1, <2>2
  <2>4. HandedOver' /\ Gated' /\ Kept' OBVIOUS
  <2> QED BY <2>3, <2>4
<1>6. CASE QueuedDelete /\ (DeleteChecks \/ DeleteClears)
  <2> USE <1>6 DEF QueuedDelete, DeleteChecks, DeleteClears
  <2>1. space' \in BOOLEAN OBVIOUS
  <2>2. QueuedTypeOK' BY <2>1
  <2>3. HandedOver' /\ Gated' /\ Kept' OBVIOUS
  <2> QED BY <2>2, <2>3
<1>7. CASE QueuedDelete /\ DeleteCommits
  <2> USE <1>7 DEF QueuedDelete, DeleteCommits
  <2>1. left' \in 0 .. MaxTasks OBVIOUS
  <2>2. QueuedTypeOK' BY <2>1
  <2>3. HandedOver' /\ Gated' /\ Kept' OBVIOUS
  <2> QED BY <2>2, <2>3
<1>8. CASE QueuedDelete /\ DeleteFails
  <2> USE <1>8 DEF QueuedDelete, DeleteFails
  <2>1. space' \in BOOLEAN OBVIOUS
  <2>2. QueuedTypeOK' BY <2>1
  <2>3. HandedOver' /\ Gated' /\ Kept' OBVIOUS
  <2> QED BY <2>2, <2>3
<1> QED
  BY <1>1, <1>2, <1>3, <1>4, <1>5, <1>6, <1>7, <1>8 DEF QueuedReject, Rejects,
     QueuedDelete, Deletes

\* A dispatch, a delivery, or the end of a job.
LEMMA DeliveryStep ==
  ASSUME Answered, QueuedIInv, NEW k \in Kind,
         Dispatch(k) \/ Deliver(k) \/ JobTimesOut(k) \/ JobFails(k)
  PROVE  QueuedIInv'
<1> USE RunnerAssumption, QueueAssumption
  DEF Answered, Coroutines, QueuedIInv, QueuedTypeOK, RunnerTypeOK, HandedOver, Gated,
      Kept, Planner, Executor, Job, Inline, Kind, queue, bounds, At, Exists, row,
      rest, disk, api, luck, GivesUp, Active, Terminal, RunStatus, Planning, Executing,
      Position
<1>1. CASE Dispatch(k)
  BY <1>1 DEF Dispatch, Stored, Starts
<1>2. ASSUME NEW state \in {"running", "done"}, Delivered(k, state)
      PROVE  tries' \in [Kind -> 0 .. MaxTries]
  BY <1>2 DEF Delivered
<1>3. CASE JobStarts(k)
  <2> USE <1>3 DEF JobStarts, Delivered, InterruptedIn, Starts
  <2>1. tries' \in [Kind -> 0 .. MaxTries] BY <1>2
  <2>2. CASE k = "plan" /\ run = "planning"
    <3> USE <2>2 DEF ResetPlanning
    <3>1. left' \in 0 .. MaxTasks OBVIOUS
    <3>2. QueuedTypeOK' BY <2>1, <3>1
    <3>3. HandedOver' /\ Gated' /\ Kept' OBVIOUS
    <3> QED BY <3>2, <3>3
  <2>3. CASE ~(k = "plan" /\ run = "planning")
    <3> USE <2>3 DEF ResetExecution
    <3>1. QueuedTypeOK' BY <2>1
    <3>2. HandedOver' /\ Gated' /\ Kept' OBVIOUS
    <3> QED BY <3>1, <3>2
  <2> QED
    BY <2>2, <2>3
<1>4. CASE JobFails(k)
  <2> USE <1>4 DEF JobFails, Delivered
  <2>1. tries' \in [Kind -> 0 .. MaxTries] BY <1>2
  <2>2. QueuedTypeOK' BY <2>1
  <2>3. HandedOver' /\ Gated' /\ Kept' OBVIOUS
  <2> QED BY <2>2, <2>3
<1>5. CASE JobIsDropped(k)
  BY <1>5 DEF JobIsDropped
<1>6. CASE JobEnds(k)
  BY <1>6 DEF JobEnds
<1>7. CASE JobTimesOut(k)
  BY <1>7 DEF JobTimesOut
<1> QED
  BY <1>1, <1>3, <1>4, <1>5, <1>6, <1>7 DEF Deliver

\* A stop of the worker or of the API forgets its coroutines.
LEMMA StopStep ==
  ASSUME Answered, QueuedIInv, WorkerStops \/ ApiRestart
  PROVE  QueuedIInv'
<1> USE RunnerAssumption, QueueAssumption
  DEF Answered, Coroutines, QueuedIInv, QueuedTypeOK, RunnerTypeOK, HandedOver, Gated,
      Kept, Planner, Executor, Job, Inline, Kind, queue, bounds, At, Exists, row,
      rest, disk, api, luck, GivesUp, Active, Terminal, RunStatus, Planning, Executing,
      Position
<1>1. CASE WorkerStops
  BY <1>1 DEF WorkerStops
<1>2. CASE ApiRestart
  <2> USE <1>2 DEF ApiRestart, Dies
  <2>1. rejecting' \in BOOLEAN OBVIOUS
  <2>2. pc' \in [Worker -> Position] OBVIOUS
  <2>3. QueuedTypeOK' BY <2>1, <2>2
  <2>4. HandedOver' /\ Gated' /\ Kept' OBVIOUS
  <2> QED BY <2>3, <2>4
<1> QED
  BY <1>1, <1>2

-----------------------------------------------------------------------------
\* The inductive invariant holds in every reachable state.
THEOREM QueuedInvariance ==
  ASSUME Answered
  PROVE  QueuedSpec => []QueuedIInv
<1>1. QueuedInit => QueuedIInv
  <2> SUFFICES ASSUME QueuedInit PROVE QueuedIInv
    OBVIOUS
  <2> USE RunnerAssumption, QueueAssumption
    DEF QueuedInit, RunnerInit, Answered, Coroutines, QueuedIInv, QueuedTypeOK, RunnerTypeOK,
        HandedOver, Gated, Kept, Planner, Executor, Job, Inline, Kind, Active,
        Terminal, RunStatus, Planning, Executing, Position
  <2>1. left \in 0 .. MaxTasks
    OBVIOUS
  <2>2. (space \in BOOLEAN /\ opened \in BOOLEAN) /\ (tasks \in BOOLEAN /\ approved \in BOOLEAN)
        /\ (rejecting \in BOOLEAN /\ abandoned \in BOOLEAN)
    OBVIOUS
  <2>3. QueuedTypeOK
    BY <2>1, <2>2
  <2> QED
    BY <2>3
<1>2. QueuedIInv /\ [QueuedNext]_queuedVars => QueuedIInv'
  <2> SUFFICES ASSUME QueuedIInv, [QueuedNext]_queuedVars PROVE QueuedIInv'
    OBVIOUS
  <2>1. CASE QueuedCreate \/ QueuedApprove \/ QueuedReject \/ QueuedDelete
    BY <2>1, QueuedRequestStep
  <2>2. CASE \E w \in Worker : QueuedWork(w)
    <3> PICK w \in Worker : QueuedWork(w)
      BY <2>2
    <3> QED
      BY QueuedPlanStep, QueuedExecuteStep, QueuedGuardStep DEF QueuedWork, Coroutine
  <2>3. CASE QueuedFault
    BY <2>3, QueuedGuardStep, QueuedRequestStep, DeliveryStep DEF QueuedFault
  <2>4. CASE \E k \in Kind : Dispatch(k) \/ Deliver(k) \/ JobTimesOut(k)
    BY <2>4, DeliveryStep
  <2>5. CASE WorkerStops \/ ApiRestart
    BY <2>5, StopStep
  <2>6. CASE UNCHANGED queuedVars
    BY <2>6 DEF queuedVars, row, rest, disk, api, luck, queue, bounds, QueuedIInv, QueuedTypeOK, RunnerTypeOK,
       HandedOver, Gated, Kept
  <2> QED
    BY <2>1, <2>2, <2>3, <2>4, <2>5, <2>6 DEF QueuedNext
<1> QED
  BY <1>1, <1>2, PTL DEF QueuedSpec

\* Type correctness.
THEOREM QueuedTypeCorrect ==
  ASSUME Answered
  PROVE  QueuedSpec => []QueuedTypeOK
BY QueuedInvariance, PTL DEF QueuedIInv

\* However often jobs are delivered, while the database works one coroutine is past
\* its check and one run.finished event is written.
THEOREM LateDeliveriesLeave ==
  ASSUME Answered
  PROVE  QueuedSpec => []DeliveriesAreHarmless
<1>1. QueuedIInv => OneOwner
  BY DEF Answered, Coroutines, Planner, Executor, Job, Inline, Kind, Planning, Executing,
     QueuedIInv, HandedOver, Gated, Kept, OneOwner, Owns, Working
<1>2. QueuedIInv => EndedOnce
  BY DEF QueuedIInv, Kept, EndedOnce, Exists
<1> QED
  BY <1>1, <1>2, QueuedInvariance, PTL DEF DeliveriesAreHarmless

\* Once the plan is approved, nobody but a deletion discards the board or gives a
\* finished task back.
LEMMA ApprovedQueuedStep ==
  ASSUME Answered, QueuedIInv, [QueuedNext]_queuedVars, approved
  PROVE  (tasks' = tasks /\ left' <= left) \/ run' = "deleted"
<1> USE DEF At, row, rest
<1>1. Gated /\ left \in Nat
  BY RunnerAssumption DEF QueuedIInv, QueuedTypeOK, RunnerTypeOK
<1>2. run \notin {"none", "queued", "planning", "awaiting_approval"}
  BY <1>1 DEF Gated
<1>3. (tasks' = tasks /\ left' = left) \/ run' = "deleted"
      \/ \E w \in Worker : TaskFinishes(w)
  <2>1. CASE QueuedCreate \/ QueuedApprove \/ QueuedReject \/ ApprovesInVain
    BY <1>2, <2>1 DEF QueuedCreate, Creates, QueuedApprove, ApprovesPlan, QueuedReject,
       Rejects, RejectsPlan, RejectionClears, ApprovesInVain
  <2>2. CASE QueuedDelete
    BY <2>2 DEF QueuedDelete, Deletes, DeleteChecks, DeleteClears, DeleteCommits, DeleteFails
  <2>3. ASSUME NEW w \in Worker, Plan(w) PROVE tasks' = tasks /\ left' = left
    <3>1. ~PlanProposes(w)
      BY <1>1, <1>2 DEF PlanProposes, Answered, Coroutines, Planner, Executor, Job,
         Inline, Kind, Gated, Executing
    <3> QED
      BY <2>3, <3>1 DEF Plan, PlanClaims, PlanStarts, PlanClones
  <2>4. ASSUME NEW w \in Worker, Execute(w), ~TaskFinishes(w)
        PROVE  tasks' = tasks /\ left' = left
    BY <2>4 DEF Execute, ExecuteLoads, ExecuteOpens, GraphEnds, Approves, Passes,
       Fails, Publishes, Completes
  <2>5. ASSUME NEW w \in Worker,
               Clears(w) \/ Raises(w) \/ Guards(w) \/ Reports(w) \/ Breaks(w)
        PROVE  tasks' = tasks /\ left' = left
    BY <2>5 DEF Clears, Raises, Guards, Reports, Breaks, GuardFails, ReadFails, ClearFails
  <2>6. CASE \E w \in Worker : QueuedWork(w)
    BY <2>3, <2>4, <2>5, <2>6 DEF QueuedWork, Coroutine
  <2>7. CASE \E k \in Kind : Dispatch(k) \/ Deliver(k) \/ JobTimesOut(k) \/ JobFails(k)
    BY <1>2, <2>7 DEF Kind, Dispatch, Deliver, JobStarts, Delivered, InterruptedIn, ResetExecution,
       JobIsDropped, JobEnds, JobTimesOut, JobFails
  <2>8. CASE QueuedFault
    BY <2>1, <2>5, <2>7, <2>8 DEF QueuedFault
  <2>9. CASE WorkerStops \/ ApiRestart \/ UNCHANGED queuedVars
    BY <2>9 DEF WorkerStops, ApiRestart, Dies, queuedVars
  <2> QED
    BY <2>1, <2>2, <2>6, <2>7, <2>8, <2>9 DEF QueuedNext
<1>4. CASE \E w \in Worker : TaskFinishes(w)
  <2>1. left' <= left
    BY <1>1, <1>4 DEF TaskFinishes
  <2>2. tasks' = tasks
    BY <1>4 DEF TaskFinishes
  <2> QED
    BY <2>1, <2>2
<1>5. left' = left => left' <= left
  BY <1>1
<1> QED
  BY <1>3, <1>4, <1>5

\* What the human approved is what runs, also when the database fails.
THEOREM ApprovalIsFinalInTheQueue ==
  ASSUME Answered
  PROVE  QueuedSpec => ApprovedBoardStands
<1>1. QueuedIInv /\ [QueuedNext]_queuedVars =>
        [approved => (tasks' = tasks /\ left' <= left) \/ run' = "deleted"]_queuedVars
  BY ApprovedQueuedStep
<1> QED
  BY <1>1, QueuedInvariance, PTL DEF QueuedSpec, ApprovedBoardStands

\* While the database works, every step moves the run's status along an edge of the
\* lifecycle or leaves it.
LEMMA QueuedLifecycleStep ==
  ASSUME Answered, QueuedIInv, [QueuedNext]_queuedVars, faults = 0
  PROVE  [RunStates!Next]_run
<1> USE DEF RunStates!Next, RunStates!Create, RunStates!Plan,
      RunStates!Propose, RunStates!Approve, RunStates!Reject, RunStates!Review,
      RunStates!Complete, RunStates!Fail, RunStates!Replan, RunStates!Resume,
      RunStates!Delete, RunStates!Goto, RunStates!Active, RunStates!Terminal,
      At, Exists, Active, Terminal, row, rest
<1>1. Gated /\ Kept /\ run \in RunStatus
  BY DEF QueuedIInv, QueuedTypeOK, RunnerTypeOK
<1>2. \A w \in Worker :
        /\ pc[w] = "claimed" => run = "queued"
        /\ pc[w] \in {"planning", "propose"} => run = "planning"
        /\ pc[w] = "graph" => run \in {"executing", "deleted"}
        /\ pc[w] \in {"review", "gates", "complete"} => run \in {"reviewing", "deleted"}
        /\ pc[w] = "broken" => run \in Active \cup {"deleted"}
  BY <1>1 DEF Answered, Coroutines, Planner, Executor, Job, Inline, Kind, Gated, Kept,
     Planning, Executing
<1>3. CASE QueuedCreate \/ QueuedApprove \/ QueuedReject \/ ApprovesInVain
  BY <1>3 DEF QueuedCreate, Creates, QueuedApprove, ApprovesPlan, QueuedReject, Rejects,
     RejectsPlan, RejectionClears, ApprovesInVain
<1>4. CASE QueuedDelete
  <2>1. deletion # "none" => run \notin {"none", "queued", "planning", "deleted"}
    BY <1>1 DEF Gated
  <2> QED
    BY <1>1, <1>4, <2>1 DEF QueuedDelete, Deletes, DeleteChecks, DeleteClears, DeleteCommits, DeleteFails,
       RunStatus
<1>5. ASSUME NEW w \in Worker, Plan(w) PROVE [RunStates!Next]_run
  BY <1>2, <1>5 DEF Plan, PlanClaims, PlanStarts, PlanClones, PlanProposes
<1>6. ASSUME NEW w \in Worker, Execute(w) PROVE [RunStates!Next]_run
  <2>1. CASE GraphEnds(w)
    BY <1>2, <2>1 DEF GraphEnds
  <2>2. CASE Fails(w)
    BY <1>2, <2>2 DEF Fails
  <2>3. CASE Completes(w)
    BY <1>2, <2>3 DEF Completes
  <2> QED
    BY <1>6, <2>1, <2>2, <2>3 DEF Execute, ExecuteLoads, ExecuteOpens, TaskFinishes,
       Approves, Passes, Publishes
<1>7. ASSUME NEW w \in Worker,
               Clears(w) \/ Raises(w) \/ Guards(w) \/ Reports(w) \/ Breaks(w)
      PROVE  [RunStates!Next]_run
  BY <1>2, <1>7 DEF Clears, Raises, Guards, Reports, Breaks, GuardFails, ReadFails, ClearFails
<1>8. CASE \E w \in Worker : QueuedWork(w)
  BY <1>5, <1>6, <1>7, <1>8 DEF QueuedWork, Coroutine
<1>9. CASE \E k \in Kind : Dispatch(k) \/ Deliver(k) \/ JobTimesOut(k) \/ JobFails(k)
  BY <1>9 DEF Kind, Dispatch, Deliver, JobStarts, Delivered, InterruptedIn, ResetPlanning,
     ResetExecution, JobIsDropped, JobEnds, JobTimesOut, JobFails
<1>10. CASE QueuedFault
  BY <1>3, <1>7, <1>9, <1>10 DEF QueuedFault
<1>11. CASE WorkerStops \/ ApiRestart \/ UNCHANGED queuedVars
  BY <1>11 DEF WorkerStops, ApiRestart, Dies, queuedVars
<1> QED
  BY <1>3, <1>4, <1>8, <1>9, <1>10, <1>11 DEF QueuedNext

\* API, queue and worker together implement the lifecycle while the database works.
THEOREM QueueFollowsLifecycle ==
  ASSUME Answered
  PROVE  QueuedSpec => FollowsLifecycle
<1>1. QueuedIInv /\ [QueuedNext]_queuedVars => [faults = 0 => RunStates!Next]_run
  BY QueuedLifecycleStep
<1> QED
  BY <1>1, QueuedInvariance, PTL DEF QueuedSpec, FollowsLifecycle
=============================================================================
