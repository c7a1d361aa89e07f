---------------------------- MODULE BoardContract ----------------------------
(***************************************************************************)
(* What the task board of an approved run promises to whoever watches its  *)
(* rows (the UI, the tools, a recovery): which task may change to what,    *)
(* and when.  Nothing is said of how the supervisor decides.  TaskBoard    *)
(* implements it.                                                          *)
(***************************************************************************)
EXTENDS Naturals

CONSTANT MaxSequence

VARIABLES run, status, deps
vars == <<run, status, deps>>

Task       == 1 .. MaxSequence
Status     == {"absent", "pending", "in_progress", "done", "failed", "skipped"}
Unfinished == {"pending", "in_progress"}
Finished   == {"done", "skipped"}

TypeOK ==
  /\ run \in {"executing", "reviewing", "completed", "failed"}
  /\ status \in [Task -> Status]
  /\ deps \in [Task -> SUBSET Task]

\* A plan: tasks depend on earlier tasks of the board.
Init ==
  /\ run = "executing"
  /\ status \in [Task -> {"absent", "pending"}]
  /\ deps \in [Task -> SUBSET Task]
  /\ \A t \in Task : \A d \in deps[t] :
       d < t /\ status[t] = "pending" /\ status[d] = "pending"

Idle == \A t \in Task : status[t] # "in_progress"

Startable(t) == /\ status[t] = "pending"
                /\ \A d \in deps[t] : status[d] = "done"

\* A task starts when its dependencies are done and no other task runs.
Start(t) ==
  /\ run = "executing" /\ Idle /\ Startable(t)
  /\ status' = [status EXCEPT ![t] = "in_progress"]
  /\ UNCHANGED <<run, deps>>

Finish(t) ==
  /\ run = "executing" /\ status[t] = "in_progress"
  /\ status' = [status EXCEPT ![t] = "done"]
  /\ UNCHANGED <<run, deps>>

\* A failed attempt gives the task back.
GiveBack(t) ==
  /\ run = "executing" /\ status[t] = "in_progress"
  /\ status' = [status EXCEPT ![t] = "pending"]
  /\ UNCHANGED <<run, deps>>

\* An agent adds a task: after all others, depending on nothing.
Add(t) ==
  /\ run \in {"executing", "reviewing"}
  /\ status[t] = "absent" /\ deps[t] = {}
  /\ \A s \in Task : s >= t => status[s] = "absent"
  /\ status' = [status EXCEPT ![t] = "pending"]
  /\ UNCHANGED <<run, deps>>

\* An agent skips a task nothing unfinished depends on.
Skip(t) ==
  /\ run \in {"executing", "reviewing"} /\ status[t] = "pending"
  /\ \A u \in Task : t \in deps[u] => status[u] \notin Unfinished
  /\ status' = [status EXCEPT ![t] = "skipped"]
  /\ UNCHANGED <<run, deps>>

\* The board is handed to review untouched, with nothing in progress.
HandOver ==
  /\ run = "executing" /\ Idle
  /\ run' = "reviewing"
  /\ UNCHANGED <<status, deps>>

\* A restart gives back what was in progress.
Resume ==
  /\ run \in {"executing", "reviewing"}
  /\ run' = "executing"
  /\ status' = [t \in Task |-> IF status[t] = "in_progress" THEN "pending" ELSE status[t]]
  /\ UNCHANGED deps

\* The run fails on a task that exhausted its retries (or on none); tasks
\* that never started are skipped.
Fail(f, s) ==
  /\ run = "executing" /\ run' = "failed"
  /\ \A t \in f \cup s : status[t] \in Unfinished
  /\ \A t \in s : status[t] = "pending"
  /\ \A t, u \in f : t = u
  /\ status' = [t \in Task |-> IF t \in f THEN "failed"
                               ELSE IF t \in s THEN "skipped" ELSE status[t]]
  /\ UNCHANGED deps

\* The run ends without touching the board.
End ==
  /\ run \in {"executing", "reviewing"} /\ run' \in {"completed", "failed"}
  /\ run' = "completed" => run = "reviewing"
  /\ UNCHANGED <<status, deps>>

Next ==
  \/ \E t \in Task : Start(t) \/ Finish(t) \/ GiveBack(t) \/ Add(t) \/ Skip(t)
  \/ \E f, s \in SUBSET Task : Fail(f, s)
  \/ HandOver \/ Resume \/ End

Spec == Init /\ [][Next]_vars

-----------------------------------------------------------------------------
\* A task is being executed only when all its dependencies are done, whatever
\* was skipped, retried or recovered meanwhile (AGENT_RUNTIME.md, rule 1).
DependencyOrder ==
  \A t \in Task : status[t] = "in_progress" =>
    \A d \in deps[t] : status[d] = "done"

\* One task at a time: no crash, failed bookkeeping or recovery leaves a second
\* row in progress.
OneInProgress ==
  \A t, u \in Task : status[t] = "in_progress" /\ status[u] = "in_progress" => t = u

\* The rows never deadlock: while the run executes, some task is in progress or
\* can start, unless no task is left to run.
NeverStuck ==
  run = "executing" /\ Idle /\ (\E t \in Task : status[t] = "pending")
    => \E t \in Task : Startable(t)

\* A skipped task is never executed and a done task is never run again.
SettledStaysSettled ==
  [][\A t \in Task : status[t] \in Finished => status'[t] = status[t]]_vars
=============================================================================
