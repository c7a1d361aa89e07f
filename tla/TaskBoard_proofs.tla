--------------------------- MODULE TaskBoard_proofs ---------------------------
(***************************************************************************)
(* Proofs about the task board, for plans and boards of any length and any *)
(* number of retries, crashes and failed transactions.                     *)
(*                                                                         *)
(* The invariant relates the two copies of the board.  Its heart is        *)
(* Retrying: while the supervisor's list is behind the rows (an agent      *)
(* skipped or added tasks in an attempt that failed), the task of that     *)
(* attempt is still the first eligible one, so the list catches up before  *)
(* any other task is chosen.                                               *)
(***************************************************************************)
EXTENDS TaskBoard, WellFoundedInduction, TLAPS

Graph  == {"schedule", "execute", "working", "finalize", "sync"}
Live   == {"executing", "reviewing"}

\* Where the coroutine is and what the run row says.
Stage ==
  /\ pc \in Graph \cup {"idle"} => run = "executing"
  /\ pc \in {"review", "revise", "rereview", "gates"} => run = "reviewing"
  /\ pc = "down" => run \in Live
  /\ pc = "over" => run \in {"completed", "failed"}

\* Dependencies point to earlier rows that exist, and to tasks on the list.
DepsEarlier ==
  /\ \A t \in Task : \A d \in deps[t] : d < t /\ t \in Board /\ d \in Board
  /\ pc \in Graph => \A t \in Task \ List : deps[t] = {}

\* Of a live run no row is failed or blocked, and nothing unfinished depends
\* on a skipped row.
RowsLive ==
  run \in Live =>
    /\ \A t \in Task : status[t] \notin {"failed", "blocked"}
    /\ \A t \in Task : status[t] \in Unfinished =>
         \A d \in deps[t] : status[d] \in {"pending", "in_progress", "done"}

\* A row is in progress only while its task is the current one or has failed.
InProgress ==
  /\ pc \in {"idle", "review", "revise", "rereview", "gates"} =>
       \A t \in Task : status[t] # "in_progress"
  /\ pc \in Graph => \A t \in Task : status[t] = "in_progress" =>
       \/ t = current /\ ~failure /\ mem[t] \in {"pending", "in_progress"}
       \/ mem[t] = "failed"
  /\ pc = "down" => \A t, u \in Task : status[t] = "in_progress" /\ status[u] = "in_progress" => t = u

\* What the list says of a task, compared with its row.
ListAgrees ==
  pc \in Graph => \A t \in List :
    /\ t \in Board
    /\ mem[t] = "done" <=> status[t] = "done"
    /\ mem[t] = "skipped" => status[t] = "skipped" \/ (pc = "sync" /\ failure /\ status[t] = "pending")
    /\ mem[t] = "pending" => status[t] \in {"pending", "skipped", "in_progress"}
    /\ mem[t] = "in_progress" => pc = "working" /\ t = current
    /\ mem[t] = "failed" => failure /\ status[t] \in {"pending", "in_progress"}
    /\ mem[t] # "blocked"

\* At most one task of the list has failed, and then the graph only winds up.
OneFailure ==
  pc \in Graph =>
    /\ \A t, u \in List : mem[t] = "failed" /\ mem[u] = "failed" => t = u
    /\ failure => pc \in {"schedule", "finalize", "sync"}
    /\ pc = "finalize" => failure
    /\ pc = "sync" => \A t \in List : mem[t] # "pending"

\* On the list too, nothing unfinished depends on a skipped task.
ListLive ==
  pc \in Graph => \A t \in List : mem[t] \in {"pending", "in_progress"} =>
    \A d \in deps[t] : d \in List /\ mem[d] # "skipped"

First(t) == /\ \A d \in deps[t] : d \in List /\ mem[d] = "done"
            /\ \A u \in eligible : t <= u

Retrying ==
  /\ current \in List /\ mem[current] = "pending"
  /\ status[current] \in {"pending", "in_progress"}
  /\ First(current)

\* The list is behind the rows.
Behind == \E t \in Task : \/ t \in List /\ mem[t] = "pending" /\ status[t] = "skipped"
                          \/ status[t] = "in_progress"
                          \/ t \in Board \ known

CurrentTask ==
  /\ pc = "schedule" /\ ~failure /\ Behind => Retrying
  /\ pc = "execute" => Retrying
  /\ pc = "working" => /\ current \in List /\ First(current)
                       /\ mem[current] = "in_progress" /\ status[current] = "in_progress"

\* The graph ends with a finished list and no row it was not told of; if no
\* transaction ever fails, known_ids and the list hold the same tasks.
Accounted ==
  /\ pc = "sync" /\ ~failure => /\ Board \subseteq known
                               /\ \A t \in List : mem[t] \in Finished
  /\ MaxFaults = 0 => /\ pc \in Graph => known = List
                      /\ pc = "review" => \A t \in Board : status[t] \in Finished

\* An attempt beyond the retries was paid for by a crash.
AttemptsCounted ==
  /\ \A t \in Task : /\ attempts[t] <= MaxRetries + 1 + crashes
                     /\ t \notin Board => attempts[t] = 0
  /\ pc \in {"idle", "down"} =>
       \A t \in Task : status[t] # "done" => attempts[t] <= MaxRetries + crashes
  /\ pc \in Graph =>
       /\ \A t \in List : /\ tries[t] <= MaxRetries + 1 + crashes
                          /\ mem[t] = "pending" => tries[t] <= MaxRetries + crashes
       /\ \A t \in Task \ List : attempts[t] = 0

IInv == /\ TypeOK /\ Stage /\ DepsEarlier /\ RowsLive /\ InProgress
        /\ ListAgrees /\ OneFailure /\ ListLive /\ CurrentTask
        /\ Accounted /\ AttemptsCounted
-----------------------------------------------------------------------------
\* The list is loaded from rows none of which is in progress.
LEMMA LoadStep == IInv /\ Load => IInv'
<1> SUFFICES ASSUME IInv, Load PROVE IInv'
  OBVIOUS
<1> USE BoardAssumption DEF IInv, TypeOK, Load, rowVars, memVars, boundVars,
       Graph, Live, Position, RunStatus, TaskStatus, Finished, Unfinished,
       None, Board, List
<1>1. steps' \in 0 .. RecursionLimit
  OBVIOUS
<1>2. failure' \in BOOLEAN
  OBVIOUS
<1>3. (Stage /\ DepsEarlier /\ RowsLive /\ InProgress /\ ListAgrees
     /\ OneFailure /\ ListLive /\ CurrentTask /\ Accounted /\ AttemptsCounted)'
  BY <1>1, <1>2 DEF Stage, DepsEarlier, ListAgrees, RowsLive, InProgress,
         OneFailure, ListLive, CurrentTask, Retrying, Behind, First, eligible,
         Accounted, AttemptsCounted
<1>4. TypeOK'
  BY <1>1, <1>2
<1> QED
  BY <1>3, <1>4

\* The lowest eligible task is taken; if the list was behind, it is the task whose
\* attempt failed, taken again.
LEMMA ScheduleNextStep == IInv /\ ScheduleNext => IInv'
<1> SUFFICES ASSUME IInv, ScheduleNext PROVE IInv'
  OBVIOUS
<1> USE BoardAssumption DEF IInv, TypeOK, ScheduleNext, Superstep, rowVars,
       memVars, boundVars, Graph, Live, Position, RunStatus, TaskStatus,
       Finished, Unfinished, None, Board, List
<1>1. PICK t \in eligible : (\A u \in eligible : t <= u) /\ current' = t
  OBVIOUS
<1>2. t \in List /\ mem[t] = "pending" /\ \A d \in deps[t] : d \in List /\ mem[d] = "done"
  BY <1>1 DEF eligible
<1>3. Behind => t = current
  BY <1>1, <1>2 DEF CurrentTask, Retrying, First, eligible, Task
<1>4. status[t] \in {"pending", "in_progress"}
  BY <1>2, <1>3 DEF ListAgrees, Behind, CurrentTask, Retrying
<1>5. (TypeOK /\ Stage /\ DepsEarlier /\ RowsLive /\ ListAgrees
     /\ OneFailure /\ ListLive /\ Accounted /\ AttemptsCounted)'
  BY <1>1, <1>2, <1>3, <1>4 DEF CurrentTask, Retrying, Stage, DepsEarlier,
         ListAgrees, RowsLive, InProgress, OneFailure, ListLive, Accounted,
         AttemptsCounted
<1>6. InProgress'
  <2>1. ASSUME NEW u \in Task, status[u] = "in_progress"
        PROVE  u = t /\ mem[u] = "pending"
    <3>1. Behind
      BY <2>1 DEF Behind
    <3>2. u = current
      BY <2>1 DEF InProgress, ListAgrees
    <3> QED
      BY <1>2, <1>3, <3>1, <3>2
  <2> QED
    BY <1>1, <2>1 DEF InProgress
<1>7. CurrentTask'
  BY <1>1, <1>2, <1>4 DEF CurrentTask, Retrying, First, eligible
<1> QED
  BY <1>5, <1>6, <1>7

\* The graph cannot end behind the rows: the task to be retried is still eligible.
LEMMA ScheduleEmptyStep == IInv /\ ScheduleEmpty => IInv'
<1> SUFFICES ASSUME IInv, ScheduleEmpty PROVE IInv'
  OBVIOUS
<1> USE BoardAssumption DEF IInv, TypeOK, ScheduleEmpty, Superstep, rowVars,
       memVars, boundVars, Graph, Live, Position, RunStatus, TaskStatus,
       Finished, Unfinished, None, Board, List
<1>1. ~Behind
  BY DEF CurrentTask, Retrying, First, eligible
<1>2. /\ failure' \in BOOLEAN
     /\ ~failure' => \A t \in List : mem[t] \in Finished
     /\ pc' = IF failure' THEN "finalize" ELSE "sync"
  OBVIOUS
<1>3. \A t \in List : mem[t] # "failed"
  BY DEF ListAgrees
<1>4. (Stage /\ DepsEarlier /\ RowsLive /\ ListLive /\ CurrentTask
     /\ AttemptsCounted)'
  BY <1>1, <1>2, <1>3 DEF Stage, DepsEarlier, ListAgrees, RowsLive, ListLive,
         OneFailure, CurrentTask, Retrying, Behind, First, eligible,
         InProgress, AttemptsCounted
<1>5. TypeOK'
  BY <1>2
<1>6. InProgress'
  BY <1>1, <1>2 DEF InProgress, Behind
<1>7. ListAgrees'
  BY <1>2 DEF ListAgrees
<1>8. OneFailure'
  BY <1>2, <1>3 DEF OneFailure
<1>9. Accounted'
  BY <1>1, <1>2 DEF Accounted, Behind
<1> QED
  BY <1>4, <1>5, <1>6, <1>7, <1>8, <1>9

\* The third failure leads to the finalize node.
LEMMA ScheduleFailedStep == IInv /\ ScheduleFailed => IInv'
<1> SUFFICES ASSUME IInv, ScheduleFailed PROVE IInv'
  OBVIOUS
<1> USE BoardAssumption DEF IInv, TypeOK, ScheduleFailed, Superstep, rowVars,
       memVars, boundVars, Graph, Live, Position, RunStatus, TaskStatus,
       Finished, Unfinished, None, Board, List
<1>1. (TypeOK /\ Stage /\ DepsEarlier /\ RowsLive /\ InProgress
     /\ ListAgrees /\ OneFailure /\ ListLive /\ CurrentTask /\ Accounted
     /\ AttemptsCounted)'
  BY DEF CurrentTask, Retrying, Stage, DepsEarlier, ListAgrees, RowsLive,
         InProgress, OneFailure, ListLive, Behind, First, eligible, Accounted,
         AttemptsCounted
<1> QED
  BY <1>1

\* Skips in memory only; the rows follow at SyncBoard.
LEMMA FinalizeStep == IInv /\ Finalize => IInv'
<1> SUFFICES ASSUME IInv, Finalize PROVE IInv'
  OBVIOUS
<1> USE BoardAssumption DEF IInv, TypeOK, Finalize, Superstep, rowVars,
       memVars, boundVars, Graph, Live, Position, RunStatus, TaskStatus,
       Finished, Unfinished, None, Board, List
<1>1. (TypeOK /\ Stage /\ DepsEarlier /\ InProgress /\ ListAgrees
     /\ OneFailure /\ ListLive /\ CurrentTask /\ Accounted /\ AttemptsCounted)'
  BY DEF CurrentTask, Retrying, Stage, DepsEarlier, ListAgrees, InProgress,
         OneFailure, RowsLive, ListLive, Behind, First, eligible, Accounted,
         AttemptsCounted
<1>2. RowsLive'
  BY DEF RowsLive
<1> QED
  BY <1>1, <1>2

\* The recursion limit ends the run, not the board.
LEMMA GiveUpStep == IInv /\ GiveUp => IInv'
<1> SUFFICES ASSUME IInv, GiveUp PROVE IInv'
  OBVIOUS
<1> USE BoardAssumption DEF IInv, TypeOK, GiveUp, rowVars, memVars, boundVars,
       Graph, Live, Position, RunStatus, TaskStatus, Finished, Unfinished,
       None, Board, List
<1>1. (TypeOK /\ Stage /\ DepsEarlier /\ RowsLive /\ InProgress
     /\ ListAgrees /\ ListLive /\ CurrentTask /\ Accounted /\ AttemptsCounted)'
  BY DEF CurrentTask, Retrying, Stage, DepsEarlier, ListAgrees, RowsLive,
         InProgress, OneFailure, ListLive, Behind, First, eligible, Accounted,
         AttemptsCounted
<1>2. OneFailure'
  BY DEF OneFailure
<1> QED
  BY <1>1, <1>2

\* The task that starts has its dependencies done and no other row in progress.
LEMMA BeginAttemptStep == IInv /\ BeginAttempt => IInv'
<1> SUFFICES ASSUME IInv, BeginAttempt PROVE IInv'
  OBVIOUS
<1> USE BoardAssumption DEF IInv, TypeOK, BeginAttempt, Superstep, rowVars,
       memVars, boundVars, Graph, Live, Position, RunStatus, TaskStatus,
       Finished, Unfinished, None, Board, List
<1>1. current \in List
  BY DEF CurrentTask, Retrying
<1>2. /\ mem[current] = "pending" /\ status[current] \in {"pending", "in_progress"}
     /\ First(current)
  BY DEF CurrentTask, Retrying
<1>3. (Stage /\ DepsEarlier /\ RowsLive)'
  BY <1>1, <1>2 DEF Stage, DepsEarlier, ListAgrees, RowsLive
<1>4. InProgress'
  BY <1>1, <1>2 DEF InProgress, ListAgrees, OneFailure, Stage
<1>5. ListAgrees'
  BY <1>1, <1>2 DEF ListAgrees, InProgress, RowsLive, Stage, OneFailure
<1>6. OneFailure'
  BY <1>1, <1>2 DEF OneFailure, ListAgrees, RowsLive, Stage
<1>7. CurrentTask'
  BY <1>1, <1>2 DEF CurrentTask, Retrying, Behind, First, eligible,
         InProgress, ListAgrees, OneFailure, Stage
<1>8. AttemptsCounted'
  BY <1>1, <1>2 DEF AttemptsCounted, ListAgrees, Stage
<1>9. Accounted'
  BY <1>1, <1>2 DEF Accounted, OneFailure, ListAgrees, Stage
<1>10. TypeOK'
  BY <1>1
<1>11. ListLive'
  BY <1>1, <1>2 DEF ListLive
<1> QED
  BY <1>3, <1>4, <1>5, <1>6, <1>7, <1>8, <1>9, <1>10, <1>11

\* An attempt the budget refused: a failed attempt without a trace in the rows.
LEMMA BudgetStopsStep == IInv /\ BudgetStops => IInv'
<1> SUFFICES ASSUME IInv, BudgetStops PROVE IInv'
  OBVIOUS
<1> USE BoardAssumption DEF IInv, TypeOK, BudgetStops, Superstep, Raise,
       rowVars, memVars, boundVars, Graph, Live, Position, RunStatus,
       TaskStatus, Finished, Unfinished, None, Board, List
<1>1. current \in List
  BY DEF CurrentTask, Retrying
<1>2. /\ mem[current] = "pending" /\ status[current] \in {"pending", "in_progress"}
     /\ First(current)
  BY DEF CurrentTask, Retrying
<1>3. (Stage /\ DepsEarlier /\ RowsLive)'
  BY <1>1, <1>2 DEF Stage, DepsEarlier, ListAgrees, RowsLive
<1>4. InProgress'
  BY <1>1, <1>2 DEF InProgress, ListAgrees, OneFailure, Stage
<1>5. ListAgrees'
  BY <1>1, <1>2 DEF ListAgrees, InProgress, RowsLive, Stage, OneFailure
<1>6. OneFailure'
  BY <1>1, <1>2 DEF OneFailure, ListAgrees, RowsLive, Stage
<1>7. ListLive'
  BY <1>1, <1>2 DEF ListLive, RowsLive, DepsEarlier, ListAgrees, Stage,
         OneFailure
<1>8. AttemptsCounted'
  BY <1>1, <1>2 DEF AttemptsCounted, ListAgrees, Stage
<1>9. Accounted'
  BY <1>1, <1>2 DEF Accounted, OneFailure, ListAgrees, Stage
<1>10. TypeOK'
  BY <1>1
<1>11. CurrentTask'
  BY <1>1, <1>2 DEF CurrentTask, Retrying, First, eligible
<1> QED
  BY <1>3, <1>4, <1>5, <1>6, <1>7, <1>8, <1>9, <1>10, <1>11

\* The first transaction fails: again without a trace in the rows.
LEMMA BeginFailsStep == IInv /\ BeginFails => IInv'
<1> SUFFICES ASSUME IInv, BeginFails PROVE IInv'
  OBVIOUS
<1> USE BoardAssumption DEF IInv, TypeOK, BeginFails, Superstep, Raise,
       rowVars, memVars, boundVars, Graph, Live, Position, RunStatus,
       TaskStatus, Finished, Unfinished, None, Board, List
<1>1. current \in List
  BY DEF CurrentTask, Retrying
<1>2. /\ mem[current] = "pending" /\ status[current] \in {"pending", "in_progress"}
     /\ First(current)
  BY DEF CurrentTask, Retrying
<1>3. (Stage /\ DepsEarlier /\ RowsLive)'
  BY <1>1, <1>2 DEF Stage, DepsEarlier, ListAgrees, RowsLive
<1>4. InProgress'
  BY <1>1, <1>2 DEF InProgress, ListAgrees, OneFailure, Stage
<1>5. ListAgrees'
  BY <1>1, <1>2 DEF ListAgrees, InProgress, RowsLive, Stage, OneFailure
<1>6. OneFailure'
  BY <1>1, <1>2 DEF OneFailure, ListAgrees, RowsLive, Stage
<1>7. ListLive'
  BY <1>1, <1>2 DEF ListLive, RowsLive, DepsEarlier, ListAgrees, Stage,
         OneFailure
<1>8. AttemptsCounted'
  BY <1>1, <1>2 DEF AttemptsCounted, ListAgrees, Stage
<1>9. Accounted'
  BY <1>1, <1>2 DEF Accounted, OneFailure, ListAgrees, Stage
<1>10. TypeOK'
  BY <1>1
<1>11. CurrentTask'
  BY <1>1, <1>2 DEF CurrentTask, Retrying, First, eligible
<1> QED
  BY <1>3, <1>4, <1>5, <1>6, <1>7, <1>8, <1>9, <1>10, <1>11

\* After a failed attempt the task is the first eligible one, or the run fails.
LEMMA AttemptFailsStep == IInv /\ AttemptFails => IInv'
<1> SUFFICES ASSUME IInv, AttemptFails PROVE IInv'
  OBVIOUS
<1> USE BoardAssumption DEF IInv, TypeOK, AttemptFails, Raise, Spend, rowVars,
       memVars, boundVars, Graph, Live, Position, RunStatus, TaskStatus,
       Finished, Unfinished, None, Board, List
<1>1. /\ current \in List /\ mem[current] = "in_progress"
     /\ status[current] = "in_progress" /\ First(current)
  BY DEF CurrentTask
<1>2. failure' \in BOOLEAN
  OBVIOUS
<1>3. over' \in BOOLEAN
  BY Zenon
<1>4. eligible' \subseteq eligible \cup {current} /\ List' = List
  BY <1>1 DEF eligible
<1>5. \A d \in deps[current] : d \in List /\ mem'[d] = "done"
  BY <1>1 DEF First
<1>6. (Stage /\ DepsEarlier /\ RowsLive)'
  BY <1>1, <1>2, <1>3, <1>4, <1>5 DEF Stage, DepsEarlier, ListAgrees, RowsLive
<1>7. InProgress'
  BY <1>1, <1>2, <1>3, <1>4, <1>5 DEF InProgress, ListAgrees, OneFailure,
         Stage
<1>8. ListAgrees'
  BY <1>1, <1>2, <1>3, <1>4, <1>5 DEF ListAgrees, InProgress, RowsLive, Stage,
         OneFailure
<1>9. OneFailure'
  BY <1>1, <1>2, <1>3, <1>4, <1>5 DEF OneFailure, ListAgrees, RowsLive, Stage
<1>10. ListLive'
  BY <1>1, <1>2, <1>3, <1>4, <1>5 DEF ListLive, RowsLive, DepsEarlier,
         ListAgrees, Stage, OneFailure
<1>11. AttemptsCounted'
  BY <1>1, <1>2, <1>3, <1>4, <1>5 DEF AttemptsCounted, ListAgrees, Stage
<1>12. Accounted'
  BY <1>1, <1>2, <1>3, <1>4, <1>5 DEF Accounted, OneFailure, ListAgrees, Stage
<1>13. TypeOK'
  BY <1>1, <1>2, <1>3
<1>14. CurrentTask'
  <2> SUFFICES ASSUME ~failure' PROVE Retrying'
    BY DEF CurrentTask
  <2>1. mem'[current] = "pending" /\ status'[current] \in {"pending", "in_progress"}
    BY <1>1
  <2>2. \A u \in eligible' : current <= u
    BY <1>1, <1>4 DEF First, Task
  <2> QED
    BY <1>1, <1>4, <1>5, <2>1, <2>2 DEF Retrying, First
<1> QED
  BY <1>6, <1>7, <1>8, <1>9, <1>10, <1>11, <1>12, <1>13, <1>14

\* The same when the closing transaction fails and the row stays in progress.
LEMMA RecordFailsStep == IInv /\ RecordFails => IInv'
<1> SUFFICES ASSUME IInv, RecordFails PROVE IInv'
  OBVIOUS
<1> USE BoardAssumption DEF IInv, TypeOK, RecordFails, Raise, rowVars,
       memVars, boundVars, Graph, Live, Position, RunStatus, TaskStatus,
       Finished, Unfinished, None, Board, List
<1>1. /\ current \in List /\ mem[current] = "in_progress"
     /\ status[current] = "in_progress" /\ First(current)
  BY DEF CurrentTask
<1>2. failure' \in BOOLEAN
  OBVIOUS
<1>3. over' \in BOOLEAN
  BY Zenon
<1>4. eligible' \subseteq eligible \cup {current} /\ List' = List
  BY <1>1 DEF eligible
<1>5. \A d \in deps[current] : d \in List /\ mem'[d] = "done"
  BY <1>1 DEF First
<1>6. (Stage /\ DepsEarlier /\ RowsLive)'
  BY <1>1, <1>2, <1>3, <1>4, <1>5 DEF Stage, DepsEarlier, ListAgrees, RowsLive
<1>7. InProgress'
  BY <1>1, <1>2, <1>3, <1>4, <1>5 DEF InProgress, ListAgrees, OneFailure,
         Stage
<1>8. ListAgrees'
  BY <1>1, <1>2, <1>3, <1>4, <1>5 DEF ListAgrees, InProgress, RowsLive, Stage,
         OneFailure
<1>9. OneFailure'
  BY <1>1, <1>2, <1>3, <1>4, <1>5 DEF OneFailure, ListAgrees, RowsLive, Stage
<1>10. ListLive'
  BY <1>1, <1>2, <1>3, <1>4, <1>5 DEF ListLive, RowsLive, DepsEarlier,
         ListAgrees, Stage, OneFailure
<1>11. AttemptsCounted'
  BY <1>1, <1>2, <1>3, <1>4, <1>5 DEF AttemptsCounted, ListAgrees, Stage
<1>12. Accounted'
  BY <1>1, <1>2, <1>3, <1>4, <1>5 DEF Accounted, OneFailure, ListAgrees, Stage
<1>13. TypeOK'
  BY <1>1, <1>2, <1>3
<1>14. CurrentTask'
  <2> SUFFICES ASSUME ~failure' PROVE Retrying'
    BY DEF CurrentTask
  <2>1. mem'[current] = "pending" /\ status'[current] \in {"pending", "in_progress"}
    BY <1>1
  <2>2. \A u \in eligible' : current <= u
    BY <1>1, <1>4 DEF First, Task
  <2> QED
    BY <1>1, <1>4, <1>5, <2>1, <2>2 DEF Retrying, First
<1> QED
  BY <1>6, <1>7, <1>8, <1>9, <1>10, <1>11, <1>12, <1>13, <1>14

\* A success brings the list up to date with the rows.
LEMMA AttemptSucceedsStep == IInv /\ AttemptSucceeds => IInv'
<1> SUFFICES ASSUME IInv, AttemptSucceeds PROVE IInv'
  OBVIOUS
<1> USE BoardAssumption DEF IInv, TypeOK, AttemptSucceeds, Spend, Merged,
       NewTasks, rowVars, memVars, boundVars, Graph, Live, Position,
       RunStatus, TaskStatus, Finished, Unfinished, None, Board, List
<1>1. current \in List
  BY DEF CurrentTask
<1>2. List' = List \cup NewTasks /\ NewTasks \cap List = {}
  BY <1>1
<1>3. \A t \in Task : (t = current /\ mem'[t] = "done") \/ (t # current /\ mem'[t] = Merged(t))
  OBVIOUS
<1>4. (TypeOK /\ Stage /\ DepsEarlier /\ RowsLive)'
  BY <1>1, <1>2, <1>3 DEF CurrentTask, Retrying, Stage, DepsEarlier,
         ListAgrees, RowsLive
<1>5. InProgress'
  BY <1>1, <1>2, <1>3 DEF InProgress, ListAgrees, OneFailure, Stage
<1>6. ListAgrees'
  BY <1>1, <1>2, <1>3 DEF ListAgrees, InProgress, RowsLive, Stage, OneFailure
<1>7. OneFailure'
  BY <1>1, <1>2, <1>3 DEF OneFailure, ListAgrees, RowsLive, Stage
<1>8. ListLive'
  BY <1>1, <1>2, <1>3 DEF ListLive, RowsLive, DepsEarlier, ListAgrees, Stage,
         OneFailure
<1>9. CurrentTask'
  BY <1>1, <1>2, <1>3 DEF CurrentTask, Retrying, Behind, First, eligible,
         InProgress, ListAgrees, OneFailure, Stage
<1>10. Accounted'
  BY <1>2 DEF Accounted
<1>11. AttemptsCounted'
  <2>1. ASSUME NEW t \in Task
        PROVE /\ t \in NewTasks => tries'[t] = attempts[t]
              /\ t \notin NewTasks => tries'[t] = tries[t]
    OBVIOUS
  <2>2. ASSUME NEW t \in NewTasks PROVE t \in Task /\ attempts[t] = 0
    BY DEF AttemptsCounted
  <2>3. ASSUME NEW t \in List, mem'[t] = "pending"
        PROVE mem[t] = "pending"
    BY <1>2, <1>3, <2>3
  <2>4. \A t \in List' : tries'[t] <= MaxRetries + 1 + crashes
    BY <1>2, <2>1, <2>2 DEF AttemptsCounted
  <2>5. \A t \in List' : mem'[t] = "pending" => tries'[t] <= MaxRetries + crashes
    BY <1>2, <2>1, <2>2, <2>3 DEF AttemptsCounted
  <2>6. \A t \in Task \ List' : attempts[t] = 0
    BY <1>2 DEF AttemptsCounted
  <2> QED
    BY <2>4, <2>5, <2>6 DEF AttemptsCounted, CurrentTask
<1> QED
  BY <1>4, <1>5, <1>6, <1>7, <1>8, <1>9, <1>10, <1>11

\* A new row comes after all others and depends on nothing.
LEMMA add_taskStep == IInv /\ add_task => IInv'
<1> SUFFICES ASSUME IInv, add_task PROVE IInv'
  OBVIOUS
<1> USE BoardAssumption DEF IInv, TypeOK, add_task, ToolsOpen, rowVars,
       memVars, boundVars, Graph, Live, Position, RunStatus, TaskStatus,
       Finished, Unfinished, None, Board, List
<1>1. PICK t \in Task : /\ \A s \in Board : s < t
                     /\ status' = [status EXCEPT ![t] = "pending"]
  OBVIOUS
<1>2. t \notin Board
  BY <1>1 DEF Task
<1>3. deps[t] = {} /\ (pc \in Graph => t \notin List)
  BY <1>2 DEF DepsEarlier, ListAgrees
<1>4. (TypeOK /\ Stage /\ DepsEarlier /\ RowsLive /\ InProgress
     /\ ListAgrees /\ OneFailure /\ ListLive /\ CurrentTask /\ Accounted
     /\ AttemptsCounted)'
  BY <1>1, <1>2, <1>3 DEF CurrentTask, Retrying, Stage, DepsEarlier,
         ListAgrees, RowsLive, InProgress, OneFailure, ListLive, Behind,
         First, eligible, Accounted, AttemptsCounted
<1> QED
  BY <1>4

\* A skipped row leaves no unfinished row that depends on it.
LEMMA update_task_statusStep == IInv /\ update_task_status => IInv'
<1> SUFFICES ASSUME IInv, update_task_status PROVE IInv'
  OBVIOUS
<1> USE BoardAssumption DEF IInv, TypeOK, update_task_status, ToolsOpen,
       Skippable, rowVars, memVars, boundVars, Graph, Live, Position,
       RunStatus, TaskStatus, Finished, Unfinished, None, Board, List
<1>1. (TypeOK /\ Stage /\ DepsEarlier /\ RowsLive /\ InProgress
     /\ ListAgrees /\ OneFailure /\ ListLive /\ CurrentTask /\ Accounted
     /\ AttemptsCounted)'
  BY DEF CurrentTask, Retrying, Stage, DepsEarlier, ListAgrees, RowsLive,
         InProgress, OneFailure, ListLive, Behind, First, eligible, Accounted,
         AttemptsCounted
<1> QED
  BY <1>1

\* The rows follow the list.
LEMMA SyncBoardStep == IInv /\ SyncBoard => IInv'
<1> SUFFICES ASSUME IInv, SyncBoard PROVE IInv'
  OBVIOUS
<1> USE BoardAssumption DEF IInv, TypeOK, SyncBoard, rowVars, memVars,
       boundVars, Graph, Live, Position, RunStatus, TaskStatus, Finished,
       Unfinished, None, Board, List
<1>1. (TypeOK /\ Stage /\ DepsEarlier /\ RowsLive /\ InProgress
     /\ ListAgrees /\ OneFailure /\ ListLive /\ CurrentTask /\ Accounted
     /\ AttemptsCounted)'
  BY DEF CurrentTask, Retrying, Stage, DepsEarlier, ListAgrees, RowsLive,
         OneFailure, InProgress, ListLive, Behind, First, eligible, Accounted,
         AttemptsCounted
<1> QED
  BY <1>1

\* If they cannot, the run fails.
LEMMA SyncFailsStep == IInv /\ SyncFails => IInv'
<1> SUFFICES ASSUME IInv, SyncFails PROVE IInv'
  OBVIOUS
<1> USE BoardAssumption DEF IInv, TypeOK, SyncFails, rowVars, memVars,
       boundVars, Graph, Live, Position, RunStatus, TaskStatus, Finished,
       Unfinished, None, Board, List
<1>1. (TypeOK /\ Stage /\ DepsEarlier /\ RowsLive /\ InProgress
     /\ ListAgrees /\ OneFailure /\ ListLive /\ CurrentTask /\ Accounted
     /\ AttemptsCounted)'
  BY DEF CurrentTask, Retrying, Stage, DepsEarlier, ListAgrees, RowsLive,
         InProgress, OneFailure, ListLive, Behind, First, eligible, Accounted,
         AttemptsCounted
<1> QED
  BY <1>1

\* A crash keeps the rows, of which at most one is in progress.
LEMMA CrashStep == IInv /\ Crash => IInv'
<1> SUFFICES ASSUME IInv, Crash PROVE IInv'
  OBVIOUS
<1> USE BoardAssumption DEF IInv, TypeOK, Crash, rowVars, memVars, boundVars,
       Graph, Live, Position, RunStatus, TaskStatus, Finished, Unfinished,
       None, Board, List
<1>1. pc' = "down" /\ run \in Live
  BY DEF Stage
<1>2. (Stage /\ DepsEarlier /\ RowsLive /\ ListAgrees /\ OneFailure
     /\ ListLive /\ CurrentTask /\ Accounted /\ AttemptsCounted)'
  BY <1>1 DEF Stage, DepsEarlier, ListAgrees, RowsLive, InProgress,
         OneFailure, ListLive, CurrentTask, Retrying, Behind, First, eligible,
         Accounted, AttemptsCounted
<1>3. TypeOK'
  <2>1. /\ run' \in RunStatus /\ attempts' \in [Task -> Nat] /\ deps' \in [Task -> SUBSET Task]
        /\ status' \in [Task -> TaskStatus \cup {"absent"}]
    OBVIOUS
  <2>2. /\ pc' \in Position /\ tries' \in [Task -> Nat]
        /\ mem' \in [Task -> TaskStatus \cup {"absent"}]
    OBVIOUS
  <2>3. /\ known' \in SUBSET Task /\ current' \in Task \cup {None} /\ steps' \in 0 .. RecursionLimit
        /\ crashes' \in Nat /\ faults' \in Nat
    OBVIOUS
  <2>4. failure' \in BOOLEAN /\ over' \in BOOLEAN
    OBVIOUS
  <2> QED
    BY <2>1, <2>2, <2>3, <2>4
<1>4. InProgress'
  BY <1>1 DEF InProgress, ListAgrees, OneFailure
<1> QED
  BY <1>2, <1>3, <1>4

\* Recovery gives the interrupted row back.
LEMMA RecoverStep == IInv /\ Recover => IInv'
<1> SUFFICES ASSUME IInv, Recover PROVE IInv'
  OBVIOUS
<1> USE BoardAssumption DEF IInv, TypeOK, Recover, ResumeStates, Interrupted,
       rowVars, memVars, boundVars, Graph, Live, Position, RunStatus,
       TaskStatus, Finished, Unfinished, None, Board, List
<1>1. (TypeOK /\ Stage /\ DepsEarlier /\ RowsLive /\ InProgress
     /\ ListAgrees /\ OneFailure /\ ListLive /\ CurrentTask /\ Accounted
     /\ AttemptsCounted)'
  BY DEF CurrentTask, Retrying, Stage, DepsEarlier, ListAgrees, RowsLive,
         InProgress, OneFailure, ListLive, Behind, First, eligible, Accounted,
         AttemptsCounted
<1> QED
  BY <1>1

\* Review, the gates and publishing leave the rows alone.
LEMMA ConcludeStep == IInv /\ (Approve \/ RequestChanges \/ Revised \/ Refuse \/ GateBlocks \/ Publish \/ Guarded) => IInv'
<1> SUFFICES ASSUME IInv, (Approve \/ RequestChanges \/ Revised \/ Refuse \/ GateBlocks \/ Publish \/ Guarded) PROVE IInv'
  OBVIOUS
<1> USE BoardAssumption DEF IInv, TypeOK, Approve, RequestChanges, Revised,
       Refuse, GateBlocks, Publish, Guarded, Goto, Spend, rowVars, memVars,
       boundVars, Graph, Live, Position, RunStatus, TaskStatus, Finished,
       Unfinished, None, Board, List
<1>1. (TypeOK /\ Stage /\ DepsEarlier /\ RowsLive /\ InProgress
     /\ ListAgrees /\ OneFailure /\ ListLive /\ CurrentTask /\ Accounted
     /\ AttemptsCounted)'
  BY DEF CurrentTask, Retrying, Stage, DepsEarlier, ListAgrees, RowsLive,
         InProgress, OneFailure, ListLive, Behind, First, eligible, Accounted,
         AttemptsCounted
<1> QED
  BY <1>1

-----------------------------------------------------------------------------
\* An approved board that nobody has started satisfies the invariant.
LEMMA InitStep == Init => IInv
<1> SUFFICES ASSUME Init PROVE IInv
  OBVIOUS
<1> USE DEF Init, Board, List, Task, None
<1>1. PICK b \in SUBSET (1 .. MaxPlanTasks),
           d \in [1 .. MaxPlanTasks -> SUBSET (1 .. MaxPlanTasks)] :
        /\ ApprovedBoard(b, d)
        /\ status = [t \in Task |-> IF t \in b THEN "pending" ELSE "absent"]
        /\ deps = [t \in Task |-> IF t \in b THEN d[t] ELSE {}]
  OBVIOUS
<1>2. 1 .. MaxPlanTasks \subseteq Task
  BY BoardAssumption
<1> steps \in 0 .. RecursionLimit
  BY BoardAssumption
<1> failure \in BOOLEAN
  OBVIOUS
<1> over \in BOOLEAN
  OBVIOUS
<1>3. TypeOK
  BY <1>1, <1>2, BoardAssumption DEF TypeOK, RunStatus, TaskStatus, Position
<1>4. DepsEarlier
  BY <1>1, <1>2 DEF DepsEarlier, ApprovedBoard, Graph
<1>5. RowsLive
  BY <1>1, <1>2, <1>4 DEF RowsLive, DepsEarlier, Live, Unfinished
<1>6. Stage /\ InProgress /\ ListAgrees /\ OneFailure /\ ListLive /\ CurrentTask
  BY <1>1 DEF Stage, InProgress, ListAgrees, OneFailure, ListLive, CurrentTask,
              Graph, Live
<1>7. Accounted /\ AttemptsCounted
  BY <1>1, BoardAssumption DEF Accounted, AttemptsCounted, Graph, Finished
<1> QED
  BY <1>3, <1>4, <1>5, <1>6, <1>7 DEF IInv

\* Every step of the engine, of a tool, of a fault or of a crash preserves it.
LEMMA NextStep == IInv /\ [Next]_vars => IInv'
<1> SUFFICES ASSUME IInv, [Next]_vars PROVE IInv'
  OBVIOUS
<1>1. CASE Load \/ Recover
  BY <1>1, LoadStep, RecoverStep
<1>2. CASE Supervise
  BY <1>2, ScheduleNextStep, ScheduleEmptyStep, ScheduleFailedStep,
     FinalizeStep, GiveUpStep DEF Supervise
<1>3. CASE Attempt
  BY <1>3, BeginAttemptStep, BudgetStopsStep, AttemptFailsStep,
     AttemptSucceedsStep DEF Attempt
<1>4. CASE Tools
  BY <1>4, add_taskStep, update_task_statusStep DEF Tools
<1>5. CASE Conclude
  BY <1>5, SyncBoardStep, ConcludeStep DEF Conclude
<1>6. CASE Faults
  BY <1>6, BeginFailsStep, RecordFailsStep, SyncFailsStep DEF Faults
<1>7. CASE Crash
  BY <1>7, CrashStep
<1>8. CASE UNCHANGED vars
  BY <1>8 DEF vars, rowVars, memVars, boundVars, IInv, TypeOK, Stage, DepsEarlier,
     RowsLive, InProgress, ListAgrees, OneFailure, ListLive, CurrentTask,
     Retrying, Behind, First, eligible, Accounted, AttemptsCounted, Board, List
<1> QED
  BY <1>1, <1>2, <1>3, <1>4, <1>5, <1>6, <1>7, <1>8 DEF Next, Engine

\* The inductive invariant, and with it the type invariant, holds in every
\* behaviour.
THEOREM Invariance == Spec => []IInv
BY InitStep, NextStep, PTL DEF Spec

THEOREM TypeCorrect == Spec => []TypeOK
BY Invariance, PTL DEF IInv

\* No failed attempt is free: attempts exceed the retries by crashes only.
THEOREM AttemptsBounded == Spec => []AttemptsAreBounded
<1>1. IInv => AttemptsAreBounded
  BY DEF IInv, AttemptsCounted, AttemptsAreBounded
<1> QED
  BY <1>1, Invariance, PTL

\* If no bookkeeping transaction fails, no task is lost between the rows and the
\* list: review starts from a finished board.
THEOREM ReviewComplete ==
  ASSUME MaxFaults = 0 PROVE Spec => []ReviewSeesFinishedBoard
<1>1. IInv => ReviewSeesFinishedBoard
  BY DEF IInv, Accounted, ReviewSeesFinishedBoard
<1> QED
  BY <1>1, Invariance, PTL

-----------------------------------------------------------------------------
\* How many engine steps are left at most: two for each superstep, and one for each
\* place of the wind-up.
Left ==
  CASE pc \in {"schedule", "execute", "finalize"} -> 2 * (RecursionLimit - steps) + 7
    [] pc = "working"  -> 2 * (RecursionLimit - steps) + 8
    [] pc = "down"     -> 2 * RecursionLimit + 9
    [] pc = "idle"     -> 2 * RecursionLimit + 8
    [] pc = "sync"     -> 6
    [] pc = "review"   -> 5
    [] pc = "revise"   -> 4
    [] pc = "rereview" -> 3
    [] pc = "gates"    -> 2
    [] pc = "over"     -> 0

\* Engine steps use them up, agents' tools do not, and only a crash gives new ones.
EveryStepAdvances ==
  [][/\ Left \in 0 .. 2 * RecursionLimit + 9
     /\ Engine \/ Faults => Left' < Left
     /\ Tools => Left' = Left]_vars

\* Between two crashes the engine takes at most two steps for each superstep and nine
\* more, whatever fails, is retried or added: the recursion limit ends every run that
\* nothing else does (runner.py).
THEOREM RunsOutOfSteps == Spec => EveryStepAdvances
<1> USE BoardAssumption
<1> DEFINE Advances ==
      /\ Left \in 0 .. 2 * RecursionLimit + 9
      /\ Engine \/ Faults => Left' < Left
      /\ Tools => Left' = Left
<1>1. TypeOK /\ TypeOK' /\ [Next]_vars => [Advances]_vars
  <2> SUFFICES ASSUME TypeOK, TypeOK', Next PROVE Advances
    OBVIOUS
  <2>1. pc \in Position /\ steps \in 0 .. RecursionLimit /\ steps' \in 0 .. RecursionLimit
    BY DEF TypeOK
  <2>2. Left \in 0 .. 2 * RecursionLimit + 9
    <3>1. CASE pc \in {"schedule", "execute", "finalize"}
      <4>1. Left = 2 * (RecursionLimit - steps) + 7
        BY <3>1 DEF Left
      <4> QED
        BY <2>1, <4>1
    <3>2. CASE pc = "working"
      <4>1. Left = 2 * (RecursionLimit - steps) + 8
        BY <3>2 DEF Left
      <4>2. steps \in 0 .. RecursionLimit
        BY <2>1
      <4> QED
        BY <4>1, <4>2
    <3>3. CASE pc \in Position \ {"schedule", "execute", "finalize", "working"}
      <4>1. Left \in {0, 2, 3, 4, 5, 6} \/ Left = 2 * RecursionLimit + 8 \/ Left = 2 * RecursionLimit + 9
        BY <2>1, <3>3 DEF Left, Position
      <4> QED
        BY <4>1
    <3> QED
      BY <2>1, <3>1, <3>2, <3>3
  <2>3. Tools => Left' = Left
    BY <2>1 DEF Left, Tools, add_task, update_task_status, memVars
  <2>4. ASSUME Load \/ Recover PROVE Left' < Left
    <3>1. CASE Load
      <4>1. Left = 2 * RecursionLimit + 8 /\ Left' = 2 * (RecursionLimit - 0) + 7
        BY <3>1 DEF Left, Load
      <4> QED
        BY <4>1
    <3>2. CASE Recover
      <4>1. Left = 2 * RecursionLimit + 9 /\ Left' = 2 * RecursionLimit + 8
        BY <3>2 DEF Left, Recover
      <4> QED
        BY <4>1
    <3> QED
      BY <2>4, <3>1, <3>2
  <2>5. ASSUME Supervise PROVE Left' < Left
    <3>1. pc \in {"schedule", "execute", "finalize"} /\ Left = 2 * (RecursionLimit - steps) + 7
      BY <2>5 DEF Left, Supervise, ScheduleNext, ScheduleEmpty, ScheduleFailed, Finalize, GiveUp
    <3>2. CASE ScheduleNext \/ ScheduleFailed
      <4>1. steps' = steps + 1 /\ Left' = 2 * (RecursionLimit - steps') + 7
        BY <3>2 DEF Left, ScheduleNext, ScheduleFailed, Superstep
      <4> QED
        BY <2>1, <3>1, <4>1
    <3>3. CASE ScheduleEmpty \/ Finalize
      <4>1. steps' = steps + 1 /\ pc' \in {"finalize", "sync"}
        BY <3>3 DEF ScheduleEmpty, Finalize, Superstep
      <4>2. Left' = 2 * (RecursionLimit - steps') + 7 \/ Left' = 6
        BY <4>1 DEF Left
      <4> QED
        BY <2>1, <3>1, <4>1, <4>2
    <3>4. CASE GiveUp
      <4>1. Left' = 0
        BY <3>4 DEF Left, GiveUp
      <4> QED
        BY <2>1, <3>1, <4>1
    <3> QED
      BY <2>5, <3>2, <3>3, <3>4 DEF Supervise
  <2>6. ASSUME Attempt PROVE Left' < Left
    BY <2>1, <2>6 DEF Left, Attempt, BeginAttempt, BudgetStops, AttemptFails, AttemptSucceeds,
                      Superstep, Raise
  <2>7. ASSUME Conclude PROVE Left' < Left
    BY <2>1, <2>7 DEF Left, Conclude, SyncBoard, Approve, RequestChanges, Revised, Refuse,
                      GateBlocks, Publish, Guarded, Goto, memVars
  <2>8. ASSUME Faults PROVE Left' < Left
    BY <2>1, <2>8 DEF Left, Faults, BeginFails, RecordFails, SyncFails, Superstep, Raise, memVars
  <2> QED
    BY <2>2, <2>3, <2>4, <2>5, <2>6, <2>7, <2>8 DEF Engine
<1> QED
  BY <1>1, TypeCorrect, PTL DEF Spec, EveryStepAdvances

-----------------------------------------------------------------------------
\* A non-empty set of tasks has a first one.
LEMMA FirstTask ==
  ASSUME NEW S \in SUBSET Task, S # {}
  PROVE  \E t \in S : \A u \in S : t <= u
<1>1. S \subseteq Nat
  BY DEF Task
<1>2. PICK t \in S : \A u \in S : <<u, t>> \notin OpToRel(<, Nat)
  BY <1>1, NatLessThanWellFounded, WFMin
<1>3. \A u \in S : ~(u < t)
  BY <1>1, <1>2 DEF OpToRel
<1> QED
  BY <1>1, <1>3

\* The supervisor never meets a dependency deadlock: the pending task with the
\* lowest sequence on its list depends on done tasks only.
THEOREM NeverDeadlocks == Spec => []NoDependencyDeadlock
<1>1. IInv => NoDependencyDeadlock
  <2> SUFFICES ASSUME IInv, pc = "schedule", ~failure,
                      NEW p \in List, mem[p] \notin Finished
               PROVE  eligible # {}
    BY DEF NoDependencyDeadlock
  <2> USE DEF IInv, List, Graph
  <2> DEFINE P == {t \in List : mem[t] = "pending"}
  <2>1. p \in P
    BY DEF TypeOK, TaskStatus, ListAgrees, OneFailure, Finished
  <2>2. PICK t \in P : \A u \in P : t <= u
    BY <2>1, FirstTask
  <2>3. ASSUME NEW d \in deps[t] PROVE d \in List /\ mem[d] = "done"
    <3>1. d \in List /\ mem[d] # "skipped" /\ d < t
      BY <2>2 DEF ListLive, DepsEarlier
    <3>2. d \notin P
      BY <2>2, <3>1 DEF Task
    <3> QED
      BY <3>1, <3>2 DEF TypeOK, TaskStatus, ListAgrees, OneFailure
  <2> QED
    BY <2>2, <2>3 DEF eligible
<1> QED
  BY <1>1, Invariance, PTL

-----------------------------------------------------------------------------
(***************************************************************************)
(* The rows implement the contract.                                        *)
(***************************************************************************)
LEMMA ContractStart == Init => Contract!Init
<1> SUFFICES ASSUME Init PROVE Contract!Init
  OBVIOUS
<1>1. IInv
  BY InitStep
<1> QED
  BY <1>1 DEF Init, IInv, TypeOK, DepsEarlier, Board, Contract!Init, Contract!Task, Task

\* An attempt begins: its task starts, unless the row is still in progress from
\* an attempt whose closing transaction failed.
LEMMA BeginImplements == IInv /\ BeginAttempt => [Contract!Next]_(Contract!vars)
<1> SUFFICES ASSUME IInv, BeginAttempt, status[current] # "in_progress"
             PROVE  Contract!Start(current) /\ current \in Contract!Task
  BY DEF Contract!Next, Contract!vars, BeginAttempt, IInv, TypeOK
<1> USE DEF IInv, Graph, Contract!Task, Task, List
<1>1. /\ pc = "execute" /\ run = "executing"
      /\ current \in List /\ status[current] = "pending" /\ First(current)
  BY DEF BeginAttempt, Stage, CurrentTask, Retrying
<1>2. Contract!Idle
  BY <1>1 DEF Contract!Idle, InProgress, OneFailure, ListAgrees
<1>3. Contract!Startable(current)
  BY <1>1 DEF Contract!Startable, First, ListAgrees
<1> QED
  BY <1>1, <1>2, <1>3 DEF BeginAttempt, Contract!Start

\* The graph has ended: the run fails and the board is closed, or it is handed
\* to review as it is.
LEMMA SyncImplements == IInv /\ SyncBoard => Contract!Next
<1> SUFFICES ASSUME IInv, SyncBoard PROVE Contract!Next
  OBVIOUS
<1> USE DEF IInv, Graph, List, SyncBoard, Contract!Task, Task
<1> DEFINE f == {t \in List : mem[t] = "failed"}
           s == {t \in List : mem[t] = "skipped" /\ status[t] = "pending"}
<1>1. pc = "sync" /\ run = "executing"
  BY DEF Stage
<1>2. \A t \in List : mem[t] \in {"done", "skipped", "failed"}
  BY <1>1 DEF TypeOK, TaskStatus, ListAgrees, OneFailure
<1>3. CASE failure
  <2>1. status' = [t \in Task |-> IF t \in f THEN "failed"
                                  ELSE IF t \in s THEN "skipped" ELSE status[t]]
    BY <1>1, <1>2 DEF ListAgrees
  <2>2. /\ \A t \in f \cup s : status[t] \in Contract!Unfinished
        /\ \A t \in s : status[t] = "pending"
        /\ \A t, u \in f : t = u
    BY <1>1 DEF ListAgrees, OneFailure, Contract!Unfinished
  <2>3. Contract!Fail(f, s)
    BY <1>1, <1>3, <2>1, <2>2 DEF Contract!Fail
  <2> QED
    BY <2>3 DEF Contract!Next
<1>4. CASE ~failure
  <2>1. status' = status
    BY <1>1, <1>2, <1>4 DEF ListAgrees, TypeOK
  <2>2. Contract!Idle
    BY <1>1, <1>2, <1>4 DEF Contract!Idle, InProgress, ListAgrees
  <2> QED
    BY <1>1, <1>4, <2>1, <2>2 DEF Contract!HandOver, Contract!Next
<1> QED
  BY <1>3, <1>4

\* Every step is one of the contract's steps or leaves the rows alone.
LEMMA ContractNext == IInv /\ [Next]_vars => [Contract!Next]_(Contract!vars)
<1> SUFFICES ASSUME IInv, Next PROVE [Contract!Next]_(Contract!vars)
  BY DEF vars, rowVars, Contract!vars
<1>1. CASE \/ Load \/ ScheduleNext \/ ScheduleEmpty \/ ScheduleFailed
           \/ Finalize \/ BudgetStops \/ BeginFails \/ RecordFails \/ Crash
           \/ Approve \/ RequestChanges \/ Revised
  BY <1>1 DEF Load, ScheduleNext, ScheduleEmpty, ScheduleFailed,
     Finalize, BudgetStops, BeginFails, RecordFails, Crash, Approve,
     RequestChanges, Revised, Goto, rowVars, Contract!vars
<1>2. CASE GiveUp \/ SyncFails \/ Refuse \/ GateBlocks \/ Publish \/ Guarded
  BY <1>2 DEF IInv, Stage, Graph, GiveUp, SyncFails, Refuse, GateBlocks, Publish,
     Guarded, Goto, Contract!End, Contract!Next
<1>3. CASE AttemptFails \/ AttemptSucceeds
  <2>1. run = "executing" /\ current \in Task /\ status[current] = "in_progress"
    BY <1>3 DEF IInv, Stage, Graph, CurrentTask, List, AttemptFails, AttemptSucceeds
  <2>2. AttemptFails => Contract!GiveBack(current)
    BY <2>1 DEF AttemptFails, Contract!GiveBack
  <2>3. AttemptSucceeds => Contract!Finish(current)
    BY <2>1 DEF AttemptSucceeds, Contract!Finish
  <2> QED
    BY <1>3, <2>1, <2>2, <2>3 DEF Contract!Next, Contract!Task, Task
<1>4. CASE add_task
  <2>1. PICK t \in Task : /\ \A s \in Board : s < t
                          /\ status' = [status EXCEPT ![t] = "pending"]
    BY <1>4 DEF add_task
  <2>2. \A u \in Task : u >= t => status[u] = "absent"
    BY <2>1 DEF Board, Task
  <2>3. status[t] = "absent" /\ deps[t] = {}
    BY <2>2 DEF IInv, TypeOK, DepsEarlier, Board, Task
  <2>4. run \in Live /\ UNCHANGED <<run, deps>>
    BY <1>4 DEF add_task, ToolsOpen, IInv, Stage, Graph, Live
  <2>5. Contract!Add(t)
    BY <2>1, <2>2, <2>3, <2>4 DEF Contract!Add, Contract!Task, Task, Live
  <2> QED
    BY <2>5 DEF Contract!Next, Contract!Task, Task
<1>5. CASE update_task_status
  <2>1. PICK t \in Task : Skippable(t) /\ status' = [status EXCEPT ![t] = "skipped"]
    BY <1>5 DEF update_task_status
  <2>2. Contract!Skip(t)
    BY <1>5, <2>1 DEF update_task_status, Skippable, ToolsOpen, Unfinished, IInv,
       Stage, Graph, DepsEarlier, Board, Contract!Skip, Contract!Unfinished,
       Contract!Task, Task
  <2> QED
    BY <2>2 DEF Contract!Next, Contract!Task, Task
<1>6. CASE Recover
  BY <1>6 DEF Recover, ResumeStates, Interrupted, Contract!Resume, Contract!Next,
     Contract!Task, Task
<1> QED
  BY <1>1, <1>2, <1>3, <1>4, <1>5, <1>6, BeginImplements, SyncImplements
     DEF Next, Engine, Supervise, Attempt, Tools, Conclude, Faults

\* The board's rows behave as the contract promises.
THEOREM BoardImplementsContract == Spec => ImplementsContract
BY Invariance, ContractStart, ContractNext, PTL DEF Spec, ImplementsContract, Contract!Spec

-----------------------------------------------------------------------------
(***************************************************************************)
(* What follows from the contract, and so holds of the rows: dependency    *)
(* order, one task at a time, settled rows stay settled, and the rows can  *)
(* always continue.                                                        *)
(***************************************************************************)

\* Dependencies point to earlier rows that exist.
RowsEarlier ==
  \A t \in Contract!Task : \A d \in deps[t] :
    d < t /\ status[t] # "absent" /\ status[d] # "absent"

\* While the run lives, nothing unfinished depends on a skipped or failed task.
RowsKept ==
  run \in {"executing", "reviewing"} =>
    \A t \in Contract!Task : status[t] \in Contract!Unfinished =>
      \A d \in deps[t] : status[d] \in {"pending", "in_progress", "done"}

ContractInv ==
  /\ Contract!TypeOK /\ RowsEarlier /\ RowsKept
  /\ Contract!DependencyOrder /\ Contract!OneInProgress

\* A plan satisfies it.
LEMMA ContractInit == Contract!Init => ContractInv
BY DEF Contract!Init, ContractInv, Contract!TypeOK, RowsEarlier, RowsKept,
       Contract!DependencyOrder, Contract!OneInProgress, Contract!Status, Contract!Unfinished

\* Every step of the contract preserves the inductive invariant.
LEMMA ContractStep == ContractInv /\ [Contract!Next]_(Contract!vars) => ContractInv'
<1> SUFFICES ASSUME ContractInv, [Contract!Next]_(Contract!vars) PROVE ContractInv'
  OBVIOUS
<1> USE DEF ContractInv, Contract!TypeOK, RowsEarlier, RowsKept, Contract!DependencyOrder,
            Contract!OneInProgress, Contract!Status, Contract!Unfinished
<1>1. ASSUME NEW t \in Contract!Task, Contract!Start(t) PROVE ContractInv'
  BY <1>1 DEF Contract!Start, Contract!Startable, Contract!Idle
<1>2. ASSUME NEW t \in Contract!Task, Contract!Finish(t) PROVE ContractInv'
  BY <1>2 DEF Contract!Finish
<1>3. ASSUME NEW t \in Contract!Task, Contract!GiveBack(t) PROVE ContractInv'
  BY <1>3 DEF Contract!GiveBack
<1>4. ASSUME NEW t \in Contract!Task, Contract!Add(t) PROVE ContractInv'
  BY <1>4 DEF Contract!Add
<1>5. ASSUME NEW t \in Contract!Task, Contract!Skip(t) PROVE ContractInv'
  BY <1>5 DEF Contract!Skip
<1>6. ASSUME NEW f \in SUBSET Contract!Task, NEW s \in SUBSET Contract!Task, Contract!Fail(f, s)
      PROVE ContractInv'
  BY <1>6 DEF Contract!Fail
<1>7. CASE Contract!HandOver
  BY <1>7 DEF Contract!HandOver
<1>8. CASE Contract!Resume
  BY <1>8 DEF Contract!Resume
<1>9. CASE Contract!End
  BY <1>9 DEF Contract!End
<1>10. CASE UNCHANGED Contract!vars
  BY <1>10 DEF Contract!vars
<1> QED
  BY <1>1, <1>2, <1>3, <1>4, <1>5, <1>6, <1>7, <1>8, <1>9, <1>10 DEF Contract!Next

\* The inductive invariant holds in every behaviour of the contract.
THEOREM ContractInvariant == Contract!Spec => []ContractInv
BY ContractInit, ContractStep, PTL DEF Contract!Spec

\* A task runs only after everything it depends on is done, and alone.
THEOREM ContractOrder == Contract!Spec => [](Contract!DependencyOrder /\ Contract!OneInProgress)
BY ContractInvariant, PTL DEF ContractInv

\* Skipped and done rows keep their status through every step of the contract.
THEOREM ContractSettled == Contract!Spec => Contract!SettledStaysSettled
<1>1. ContractInv /\ [Contract!Next]_(Contract!vars)
        => [\A t \in Contract!Task : status[t] \in Contract!Finished
                                      => status'[t] = status[t]]_(Contract!vars)
  <2> SUFFICES ASSUME ContractInv, Contract!Next, NEW u \in Contract!Task,
                      status[u] \in Contract!Finished
               PROVE  status'[u] = status[u]
    OBVIOUS
  <2> USE DEF ContractInv, Contract!TypeOK, Contract!Finished, Contract!Unfinished
  <2>1. ASSUME NEW t \in Contract!Task,
               \/ Contract!Start(t) \/ Contract!Finish(t) \/ Contract!GiveBack(t)
               \/ Contract!Add(t) \/ Contract!Skip(t)
        PROVE status'[u] = status[u]
    BY <2>1 DEF Contract!Start, Contract!Startable, Contract!Finish, Contract!GiveBack,
       Contract!Add, Contract!Skip
  <2>2. ASSUME NEW f \in SUBSET Contract!Task, NEW s \in SUBSET Contract!Task, Contract!Fail(f, s)
        PROVE status'[u] = status[u]
    BY <2>2 DEF Contract!Fail
  <2>3. CASE Contract!HandOver \/ Contract!Resume \/ Contract!End
    BY <2>3 DEF Contract!HandOver, Contract!Resume, Contract!End
  <2> QED
    BY <2>1, <2>2, <2>3 DEF Contract!Next
<1> QED
  BY <1>1, ContractInvariant, PTL DEF Contract!Spec, Contract!SettledStaysSettled

\* The rows never deadlock: the pending task with the lowest sequence has only
\* done tasks behind it.
THEOREM ContractNeverStuck == Contract!Spec => []Contract!NeverStuck
<1>1. ContractInv => Contract!NeverStuck
  <2> SUFFICES ASSUME ContractInv, run = "executing", Contract!Idle,
                      NEW p \in Contract!Task, status[p] = "pending"
               PROVE  \E t \in Contract!Task : Contract!Startable(t)
    BY DEF Contract!NeverStuck
  <2> DEFINE P == {t \in Contract!Task : status[t] = "pending"}
  <2>1. PICK t \in P : \A u \in P : t <= u
    BY FirstTask DEF Contract!Task, Task
  <2>2. ASSUME NEW d \in deps[t] PROVE status[d] = "done"
    <3>1. d \in Contract!Task /\ d < t
      BY <2>1 DEF ContractInv, Contract!TypeOK, RowsEarlier
    <3>2. d \notin P
      BY <2>1, <3>1 DEF Contract!Task
    <3>3. status[d] \in {"pending", "in_progress", "done"}
      BY <2>1 DEF ContractInv, RowsKept, Contract!Unfinished
    <3> QED
      BY <3>1, <3>2, <3>3 DEF Contract!Idle
  <2> QED
    BY <2>1, <2>2 DEF Contract!Startable
<1> QED
  BY <1>1, ContractInvariant, PTL

\* A row is in progress only when its dependencies are done, and alone, in every
\* behaviour of the engine.
THEOREM Ordered == Spec => []DependencyOrder /\ []OneInProgress
BY BoardImplementsContract, ContractOrder, PTL
   DEF ImplementsContract, DependencyOrder, OneInProgress

\* The rows never deadlock, whatever agents skipped and added and however often the
\* engine restarted: an idle board with a pending row has one that can start.
THEOREM RowsNeverStuck == Spec => []Contract!NeverStuck
BY BoardImplementsContract, ContractNeverStuck, PTL DEF ImplementsContract

\* Neither a retry nor a recovery runs a done or a skipped task again.
THEOREM Settled == Spec => SettledStaysSettled
BY BoardImplementsContract, ContractSettled, PTL DEF ImplementsContract, SettledStaysSettled
=============================================================================
