----------------------------- MODULE QueuedRuns -----------------------------
(***************************************************************************)
(* RUN_QUEUE=arq: the API hands planning and execution to a Redis queue,   *)
(* and a worker process runs them as jobs that are delivered again when    *)
(* the worker stops (jobs.py, worker.py).  When the queue cannot be        *)
(* reached the API runs the coroutine itself.  Nothing looks for           *)
(* interrupted runs at startup: the queue is trusted to remember them.     *)
(***************************************************************************)
EXTENDS Runner

CONSTANTS
  Enqueue,       \* what may become of enqueue_job: "stored", "refused", "unanswered"
  MaxTries,      \* WorkerSettings.max_tries
  TimeLimit,     \* a job may run into WorkerSettings.job_timeout
  MaxStops,      \* stops of the worker process (bounds the model)
  MaxApiCrashes  \* restarts of the API process (bounds the model)

Kind == {"plan", "execute"}

\* The coroutine of a job in the worker, and of a dispatch that fell back to the API.
Job(k)    == IF k = "plan" THEN "plan_job" ELSE "execute_job"
Inline(k) == IF k = "plan" THEN "plan_inline" ELSE "execute_inline"
Coroutines == {Job(k) : k \in Kind} \cup {Inline(k) : k \in Kind}   \* what Worker is here

ASSUME QueueAssumption ==
  /\ Enqueue \subseteq {"stored", "refused", "unanswered"}
  /\ MaxTries \in Nat /\ TimeLimit \in BOOLEAN
  /\ MaxStops \in Nat /\ MaxApiCrashes \in Nat

VARIABLES
  pending,  \* dispatches the API has committed to but not made
  job,      \* what arq knows of each job; "dropped" and "expired" ones are gone
  tries,    \* deliveries of each job
  stops, restarts

queue      == <<pending, job, tries>>
bounds     == <<stops, restarts>>
queuedVars == <<row, rest, pc, queue, stops, restarts>>

QueuedTypeOK ==
  /\ RunnerTypeOK
  /\ pending \subseteq Kind
  /\ job \in [Kind -> {"none", "waiting", "running", "done", "dropped", "expired"}]
  /\ tries \in [Kind -> 0 .. MaxTries]
  /\ stops \in 0 .. MaxStops /\ restarts \in 0 .. MaxApiCrashes

QueuedInit ==
  /\ RunnerInit
  /\ pending = {} /\ job = [k \in Kind |-> "none"] /\ tries = [k \in Kind |-> 0]
  /\ stops = 0 /\ restarts = 0

-----------------------------------------------------------------------------
(* The API process.  The dispatch is a background task of the request.     *)

QueuedCreate ==
  /\ Creates /\ pending' = pending \cup {"plan"}
  /\ UNCHANGED <<pc, job, tries, bounds>>
QueuedApprove ==
  /\ ApprovesPlan /\ pending' = pending \cup {"execute"}
  /\ UNCHANGED <<luck, pc, job, tries, bounds>>
QueuedReject == Rejects /\ UNCHANGED <<queue, bounds>>
QueuedDelete == Deletes /\ UNCHANGED <<queue, bounds>>

Starts(w, k) == pc' = [pc EXCEPT ![w] = k]   \* the positions are named like the kinds
Stored(k)    == job' = [job EXCEPT ![k] = "waiting"]

\* An error of enqueue_job falls back to the API process, also when the job was
\* stored and only the answer was lost.
Dispatch(k) ==
  /\ k \in pending /\ pending' = pending \ {k}
  /\ \/ "stored" \in Enqueue /\ Stored(k) /\ UNCHANGED pc
     \/ "refused" \in Enqueue /\ Starts(Inline(k), k) /\ UNCHANGED job
     \/ "unanswered" \in Enqueue /\ Stored(k) /\ Starts(Inline(k), k)
  /\ UNCHANGED <<row, rest, tries, bounds>>

\* The API process restarts: its coroutines and dispatches are gone.
ApiRestart ==
  /\ restarts < MaxApiCrashes /\ restarts' = restarts + 1
  /\ Dies({Inline(k) : k \in Kind}) /\ pending' = {}
  /\ UNCHANGED <<abandoned, job, tries, stops>>

-----------------------------------------------------------------------------
(* The worker process.                                                     *)

\* A job starts by putting an interrupted run back: one that was still planning, or
\* one that was executing or under review.
InterruptedIn_Waiting(k) ==    \* (mutant) a plan that waits for the human is discarded
  IF k = "plan" THEN {"planning", "awaiting_approval"} ELSE {"executing", "reviewing"}
InterruptedIn_Executing(k) ==  \* (mutant) a board that is executed is discarded
  IF k = "plan" THEN {"planning", "executing"} ELSE {"executing", "reviewing"}
InterruptedIn_NoReview(k) ==   \* (mutant) a run under review is not resumed
  IF k = "plan" THEN {"planning"} ELSE {"executing"}
InterruptedIn(k) == IF k = "plan" THEN {"planning"} ELSE {"executing", "reviewing"}

Delivered(k, state) ==
  /\ job[k] = "waiting" /\ tries[k] < MaxTries
  /\ job' = [job EXCEPT ![k] = state] /\ tries' = [tries EXCEPT ![k] = @ + 1]
  /\ UNCHANGED <<pending, bounds>>

JobStarts(k) ==
  /\ Delivered(k, "running")
  /\ IF run \notin InterruptedIn(k) THEN UNCHANGED <<row, rest>> /\ Starts(Job(k), k)
     ELSE IF k = "plan" THEN ResetPlanning /\ Starts(Job(k), "clear")
     ELSE ResetExecution /\ Starts(Job(k), k)

\* The reset is not guarded and a job that ends with an error is not delivered again.
\* (For a run that is not the job's, the same as a job that leaves.)
JobFails(k) ==
  /\ Delivered(k, "done") /\ GivesUp
  /\ run \in IF k = "plan" THEN {"queued", "planning"} ELSE {"executing", "reviewing"}
  /\ UNCHANGED <<row, disk, api, pc>>

\* A job that was delivered max_tries times is not run again.
JobIsDropped(k) ==
  /\ job[k] = "waiting" /\ tries[k] = MaxTries
  /\ job' = [job EXCEPT ![k] = "dropped"]
  /\ UNCHANGED <<row, rest, pc, pending, tries, bounds>>

JobEnds(k) ==
  /\ job[k] = "running" /\ pc[Job(k)] = "free"
  /\ job' = [job EXCEPT ![k] = "done"]
  /\ UNCHANGED <<row, rest, pc, pending, tries, bounds>>

\* The job is cancelled at its time limit, which the guard does not catch.
JobTimesOut(k) ==
  /\ TimeLimit /\ job[k] = "running" /\ pc[Job(k)] # "free"
  /\ job' = [job EXCEPT ![k] = "expired"]
  /\ pc' = [pc EXCEPT ![Job(k)] = "free"]
  /\ UNCHANGED <<row, rest, pending, tries, bounds>>

\* The worker is stopped or dies; arq delivers its jobs again.
WorkerStops ==
  /\ stops < MaxStops /\ stops' = stops + 1
  /\ pc' = [w \in Worker |-> IF w \in {Job(k) : k \in Kind} THEN "free" ELSE pc[w]]
  /\ job' = [k \in Kind |-> IF job[k] = "running" THEN "waiting" ELSE job[k]]
  /\ UNCHANGED <<row, rest, pending, tries, restarts>>

-----------------------------------------------------------------------------
QueuedWork(w) == Coroutine(w) /\ UNCHANGED <<queue, bounds>>
QueuedFault ==
  \/ \E w \in Worker : Breaks(w) /\ UNCHANGED <<queue, bounds>>
  \/ ApprovesInVain /\ UNCHANGED <<queue, bounds>>
  \/ \E k \in Kind : JobFails(k)
Deliver(k) == JobStarts(k) \/ JobIsDropped(k) \/ JobEnds(k)

QueuedNext ==
  \/ QueuedCreate \/ QueuedApprove \/ QueuedReject \/ QueuedDelete
  \/ \E w \in Worker : QueuedWork(w)
  \/ \E k \in Kind : Dispatch(k) \/ Deliver(k) \/ JobTimesOut(k)
  \/ QueuedFault \/ WorkerStops \/ ApiRestart

QueuedSpec == QueuedInit /\ [][QueuedNext]_queuedVars

\* Both processes run (a worker that stopped is started again): dispatches are made,
\* jobs are delivered, and coroutines proceed.  Nobody has to decide or to delete.
QueuedFairSpec ==
  /\ QueuedSpec
  /\ \A w \in Worker : WF_queuedVars(QueuedWork(w))
  /\ \A k \in Kind : WF_queuedVars(Dispatch(k)) /\ WF_queuedVars(Deliver(k))

-----------------------------------------------------------------------------
\* The coroutine has found the run in the status it starts from.
Owns(w) == Working(w) /\ pc[w] \notin Kind

\* One coroutine past that check at a time.
OneOwner == faults = 0 => \A v, w \in Worker : Owns(v) /\ Owns(w) => v = w

\* A run that has ended has exactly one run.finished event, any other has none.
EndedOnce == faults = 0 /\ Exists => ended = IF run \in Terminal THEN 1 ELSE 0

\* However often the queue delivers its jobs, and whether or not the API took a run over,
\* a late delivery finds the run in another status and leaves: it is worked on by one
\* coroutine and ended by one.
DeliveriesAreHarmless == OneOwner /\ EndedOnce

\* What the human approved is what runs: no late delivery of the planning job
\* discards the board.
ApprovedBoardStands ==
  [][approved => (tasks' = tasks /\ left' <= left) \/ run' = "deleted"]_queuedVars

RunStates == INSTANCE RunLifecycle

\* API, queue and worker together take only the steps that a run's status promises.
\* (A failing database breaks it: the guard does not look at the status, so a late
\* delivery that cannot read a run that has ended fails it.)
FollowsLifecycle == [][faults = 0 => RunStates!Next]_run

\* A job was given up, an error that nobody handles ended it, or a process the queue
\* does not watch died.
Abandoned ==
  \/ abandoned \/ restarts > 0
  \/ \E k \in Kind : job[k] \in {"dropped", "expired"}

\* An active run reaches the approval gate or its end, on the worker or in the API,
\* unless its job is given up, the API dies, or an error that nobody handles (in a guard,
\* a reset or the approving request) ends what works on it; a failing read does not do it.
QueuedRunSettles == (run \in Active) ~> (run \notin Active \/ Abandoned)

(***************************************************************************)
(* What the documents say and the code does not do.                        *)
(***************************************************************************)
\* jobs.py: "A broken queue degrades to inline with a warning; it never strands a run":
\* a run that the API took over settles.
FallbackSettles == (\E k \in Kind : Working(Inline(k))) ~> (run \notin Active)
=============================================================================
