----------------------------- MODULE InlineRuns -----------------------------
(***************************************************************************)
(* RUN_QUEUE=inline, the default: the API process runs the coroutines      *)
(* itself, as background tasks of the requests, and when it starts it      *)
(* resumes what the last process left behind (jobs.py _dispatch, main.py   *)
(* lifespan, recovery.py recover_interrupted_runs).                        *)
(***************************************************************************)
EXTENDS Runner

CONSTANT MaxCrashes  \* restarts considered (bounds the model)

ASSUME InlineAssumption == MaxCrashes \in Nat

VARIABLES
  rec,      \* recovery: "off", "select", or what it found for this run
  crashes,
  early     \* history: recovery took up a run that a request of its own process started

inline == <<rec, crashes, early>>
vars   == <<row, rest, pc, inline>>

TypeOK ==
  /\ RunnerTypeOK
  /\ rec \in {"off", "select", "replan", "resume"}
  /\ crashes \in Nat /\ early \in BOOLEAN

Init == RunnerInit /\ rec = "select" /\ crashes = 0 /\ early = FALSE

\* Requests are served as soon as the engine has started recovery's task, before that
\* task has read the interrupted runs.
Create  == Creates /\ StartsWith("plan") /\ UNCHANGED inline
Approve == ApprovesPlan /\ StartsWith("execute") /\ UNCHANGED <<luck, inline>>
Reject  == Rejects /\ UNCHANGED inline
Delete  == Deletes /\ UNCHANGED inline

Work(w) == Coroutine(w) /\ UNCHANGED inline

-----------------------------------------------------------------------------
ReplanStates_Executing == {"queued", "planning", "executing"}   \* (mutant)
ReplanStates == {"queued", "planning"}
ResumeStates_Executing == {"executing"}   \* (mutant) a reviewing run is not resumed
ResumeStates == {"executing", "reviewing"}

\* The interrupted runs are read once; other runs may be finished first.
RecoverySelects ==
  /\ rec = "select"
  /\ rec' = IF run \in ReplanStates THEN "replan"
            ELSE IF run \in ResumeStates THEN "resume" ELSE "off"
  /\ early' = (early \/ (rec' # "off" /\ \E w \in Worker : Working(w)))
  /\ UNCHANGED <<row, rest, pc, crashes>>

RecoveryReplans ==
  /\ rec = "replan" /\ rec' = "off"
  /\ IF run \in ReplanStates THEN ResetPlanning /\ StartsWith("clear")
                             ELSE UNCHANGED <<row, rest, pc>>
  /\ UNCHANGED <<crashes, early>>

RecoveryResumes ==
  /\ rec = "resume" /\ rec' = "off"
  /\ IF run \in ResumeStates THEN ResetExecution /\ StartsWith("execute")
                             ELSE UNCHANGED <<row, rest, pc>>
  /\ UNCHANGED <<crashes, early>>

Recovery == RecoverySelects \/ RecoveryReplans \/ RecoveryResumes

\* Recovery handles no error: when its own queries fail, or the removal or the guard of
\* a run it comes to first, its task ends and the runs it has not come to are forgotten.
RecoveryFails ==
  /\ rec # "off" /\ run \in Active /\ rec' = "off" /\ GivesUp
  /\ UNCHANGED <<row, disk, api, pc, crashes, early>>

Fault ==
  \/ \E w \in Worker : Breaks(w) /\ UNCHANGED inline
  \/ ApprovesInVain /\ UNCHANGED inline
  \/ RecoveryFails

\* The engine is stopped or dies, and starts again: what was given up has another chance.
Restart ==
  /\ crashes < MaxCrashes /\ crashes' = crashes + 1
  /\ Dies(Worker) /\ abandoned' = FALSE /\ rec' = "select" /\ UNCHANGED early

Next ==
  \/ Create \/ Approve \/ Reject \/ Delete
  \/ \E w \in Worker : Work(w)
  \/ Fault \/ Recovery \/ Restart

Spec == Init /\ [][Next]_vars

\* The event loop runs every coroutine, recovery's included; nobody has to decide
\* or to delete, and nothing has to fail.
FairSpec == Spec /\ WF_vars(Recovery) /\ \A w \in Worker : WF_vars(Work(w))

-----------------------------------------------------------------------------
\* At most one coroutine works on the run.
Alone == \A v, w \in Worker : Working(v) /\ Working(w) => v = w

\* Nobody else works on a run that is being worked on or that recovery is about to
\* restart, however restarts, decisions, failing guards and a late recovery meet, unless
\* recovery took the run up while a request of its own process had started it.
OneCoroutine ==
  ~early => Alone /\ (rec \in {"replan", "resume"} => \A w \in Worker : ~Working(w))

\* A run that has ended has exactly one run.finished event, any other has none,
\* whichever of the guard, the gates, the reviewer, the human and the executor
\* ended it and however often it was restarted (with the same exception).
FinishedOnce == ~early /\ Exists => ended = IF run \in Terminal THEN 1 ELSE 0

\* An active run is forgotten only when an error that nobody handles ended its guard, its
\* reset, its request or recovery, and only until the next start: otherwise a coroutine
\* works on it or recovery will, also when it was taken up twice.
ActiveRunIsAttended ==
  run \in Active /\ ~abandoned => rec # "off" \/ \E w \in Worker : Working(w)

\* What the human approved is what runs: after the approval no planner works and
\* no restart discards the board (unless the run was taken up twice).
ApprovedPlanStands ==
  [][~early /\ approved => (tasks' = tasks /\ left' <= left) \/ run' = "deleted"]_vars

Lifecycle == INSTANCE RunLifecycle

\* Planner, executor, guard, API and recovery together take only the steps that a
\* run's status promises, as long as recovery has not taken up a run twice.
ImplementsLifecycle == [][~early => Lifecycle!Next]_run

\* An active run reaches the approval gate or its end, restarts included, or an error
\* that nobody handles ended what worked on it.
RunSettles == (run \in Active) ~> (run \notin Active \/ abandoned)

(***************************************************************************)
(* What the documents say and the code does not do.                        *)
(***************************************************************************)
\* runs.py: while a run is active "deleting the row out from under it would be a
\* race", so delete is refused.
NoOrphans == run = "deleted" => \A w \in Worker : ~Working(w)
=============================================================================
