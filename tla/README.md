# Formal models of the engine

TLA+ specifications of the agent engine in `src/apps/engine/src/engine` (paths
below are relative to it unless they start with `src/`), model-checked with TLC
and, for the parts whose correctness matters most, proved with TLAPS.

A *run* is the unit of work: a user asks for a change, the product manager
proposes a board of tasks, a human edits and approves it, a supervisor lets
engineers work on the tasks one after the other, a reviewer and several gates
look at the result, and a branch with a pull request is published. Everything is
recorded in Postgres; Redis carries wake-up pings and, in one of two modes, jobs.

## 1. Inventory

| Component | State | Operations | Interacts with | What is hard | Correct when |
|---|---|---|---|---|---|
| Supervisor and executor (`agents/supervisor.py`, `agents/runner.py`) | the list of tasks in the LangGraph state, `known_ids`, the rows of `agent_tasks` | schedule, execute, finalize, sync, review round, gates | tools (rows), recovery (rows), guard | two copies of the board joined only at some points; retries; budget; superstep limit; failing transactions | no deadlock, dependency order, no task lost, attempts bounded, every run ends |
| Board tools (`agents/tools.py`) | rows of `agent_tasks` | `add_task`, `update_task_status` | executor | agents act while an attempt is open | a skip never strands unfinished work |
| Run coroutines (`agents/runner.py`) | `agent_runs.status`, workspace, pull request | `plan_run`, `execute_tasks`, `_guarded` | API, recovery, queue | blind writes of the status; crash between publication and completion | one coroutine per run, one `run.finished` |
| Startup recovery (`agents/recovery.py`, `main.py`) | none of its own | select active runs, replan, resume | coroutines, API | runs beside the server | no active run is forgotten or started twice |
| Dispatch and worker (`jobs.py`, `worker.py`) | jobs in Redis | enqueue, fallback, deliver, redeliver, time out, drop | coroutines | redelivery, lost replies, two processes that restart | late deliveries are harmless; runs settle |
| Runs API (`api/runs.py`) | rows of runs, tasks, events | create, rerun, edit plan, decide, delete, list and stream events, files, push | all of the above | check-then-act requests | decisions are taken once; edits keep the board whole |
| Timeline (`events/bus.py`, `api/runs.py`, the run page) | `agent_events`, cursors | emit, commit, drain, push, reconnect, poll | writers of a run | ids visible out of order, lost connections, status and events read apart | order, no duplicates, nothing missed before the end |
| Workspace manager and tools (`workspace/manager.py`, `agents/tools.py`) | clone, index, commits, disk, pushed branch | create, write, patch, commit, diff, push, remove | executor, gates, API | git's index, the last commit and the disk differ; removed before the row | what is published is what was reviewed, tested and scanned |
| Sandbox and terminal (`sandbox/`, `api/terminal.py`) | two containers per run | start, copy, exec, reset, expire | gates, API | concurrent commands recreate each other's session; half-made containers | a session that is idle has the run's files |
| Repositories and indexing (`api/repositories.py`, `indexing/`) | repository status, chunks, edges, fingerprints | connect, index, disconnect, search, graph | runs, retrieval | concurrent indexings, crash while "indexing" | index equals the tree it was built from |
| Work items (`api/work_items.py`, `planning/insights.py`, `agents/scrum_master.py`) | items with dependencies and positions | create, update, reorder, push, roadmap, insights | knowledge | cycle check is not atomic with the save | acyclic; the recommended item is not blocked |
| Knowledge and notification (`knowledge/`, `integrations/notify.py`) | memories, events | capture, recall, notify | end of a coroutine | check-then-insert; repeated deliveries | one outcome per run |
| Rate limiter (`ratelimit.py`) | token buckets | take, prune, fall back | every request | clock skew between replicas | at most burst + rate x time |
| LLM router (`llm/router.py`) | retry budgets | call, stream, embed | agents, chat | two failure classes | bounded retries |
| Chunker and retrieval (`indexing/chunker.py`, `indexing/retrieval.py`) | none | cut a file, rank chunks | indexing, chat | definitions that touch, blank gaps, two arms that see different indexes | no line is lost; what both arms prefer comes first |
| Chat (`api/chat.py`, `agents/chat_graph.py`) | conversations and messages | ask, stream, store, delete | router, knowledge | overlapping questions, a client that leaves, a conversation deleted meanwhile | only whole answers are stored; the question is last |
| Webhooks (`api/webhooks.py`) | remembered delivery ids | receive, review | pull request reviewer | bounded memory | a retry is reviewed once |
| Documents, integrations, provider keys, auth, RLS, backups, observability, evaluation, migrations, web UI, infrastructure | see `PROJECT.json` | | | | |

`PROJECT.json` lists every component with its status and reason, and under
"hazards" the places where this code is hard to test, with the property that
covers each or the reason why none does.

## 2. Modules

| Module | Models | Kind |
|---|---|---|
| `BoardContract` | what the rows of a board promise to whoever reads them | abstract specification |
| `TaskBoard` | supervisor graph, executor transactions, tools, review round, gates and recovery of one board | detailed; implements `BoardContract` |
| `RunLifecycle` | which status may follow which | abstract specification |
| `Runner` | one run's coroutines, guard, API requests and the two resets, without who starts them | shared by the next two |
| `InlineRuns` | `RUN_QUEUE=inline`: background tasks of the API process and startup recovery | extends `Runner`; implements `RunLifecycle` |
| `QueuedRuns` | `RUN_QUEUE=arq`: dispatch, fallback, deliveries, timeouts, worker and API restarts | extends `Runner`; follows `RunLifecycle` |
| `PlanGate` | plan edits, the decision and the executor's load as interleaved requests | detailed |
| `EventStream` | writers' transactions, the stream endpoint, the page with reconnects and polling | detailed |
| `Workspace` | the clone: git's index, last commit, disk, pushed branch, and what the tools do to them | shared by the next two |
| `Sandbox` | the two containers of a run, docker call by docker call | extends `Workspace` |
| `Workbench` | one run's workspace from the first edit to the deletion: engineers, review, QA, scans, publication, then people | composes the two above |
| `IndexContract` | what the index of a repository promises to its readers | abstract specification |
| `RepositoryIndex` | indexings statement by statement, searches, runs that pin the repository, the disconnect | detailed; implements `IndexContract` |
| `Chunker` | how a file is cut into chunks | algorithm |
| `Backlog` | work items: import, dependencies, reorder, push to a tracker, the insights | detailed |
| `TeamMemory` | capture of a run's decision and outcome, the Slack message, people who interfere | part of the next |
| `Chat` | questions of one conversation and the router's streamed call with its two retry budgets | part of the next |
| `Assistant` | recall: what a question is given of the memory | composes the two above |
| `RateLimit` | the token buckets of one caller, shared and local | part of the next |
| `PullRequestReviews` | the redelivery guard and the reviews it starts | part of the next |
| `Gateway` | webhook deliveries that pass the limiter | composes the two above |
| `MC*` | model values and functions for the instances TLC checks | instances |
| `TaskBoard_proofs` | theorems about `TaskBoard` and `BoardContract` | proofs |
| `Runs_proofs` | about `InlineRuns` and `QueuedRuns` | proofs |
| `Index_proofs` | about `Chunker` and `RepositoryIndex` | proofs |
| `Requests_proofs` | about `Gateway` and `Assistant` and their parts | proofs |
| other `*_proofs` | about the module they are named after | proofs |

How state and actions correspond to the code is recorded line by line in
`PROJECT.json` ("map"); the principles are these.

**TaskBoard.** A task is its sequence number. `status`, `attempts`, `deps` are
columns; `mem`, `tries`, `known`, `current`, `failure` are the graph's state and
the executor's `known_ids`. One action is one committed transaction or one graph
node, so a crash can fall between any two. `BeginAttempt`, `AttemptSucceeds` and
`AttemptFails` are the executor's transactions with their merge of new and skipped
rows; `BeginFails`, `RecordFails` and `SyncFails` are the same transactions when
they fail. `steps` counts LangGraph supersteps against `recursion_limit`. Model
calls, tool output and diffs are abstracted: an attempt succeeds or fails, a
review approves or does not, a gate passes or blocks.

**Runner, InlineRuns, QueuedRuns.** `pc[w]` is the position of a coroutine between
its transactions. Every write of the status except the decision is blind, as in
the code: `Fails`, `GraphEnds`, `Guards` do not look at what is there. `Dies` drops
coroutines, requests and nothing else. Replanning, rejecting and deleting commit
first and remove the workspace in a thread afterwards, which may fail (`ClearFails`,
`RejectionClears`, `DeleteFails`). In `InlineRuns`, recovery's select and each of its
two branches are separate steps, and requests are served from the start, before the
select, as `main.py:48` does. Recovery is taken to be enabled
(`run_recovery_enabled`). In `QueuedRuns` the coroutines are named: each kind has one
in the worker and one that fell back to the API. Three history variables name what
the properties except: `early`, recovery took up a run that a request of its own
process had started; `abandoned`, an error that nobody handles (in a guard, a
reset, recovery or the approving request) ended what worked on the run; `faults`,
how often the database failed, or recovery with a run it came to first.

**PlanGate.** An edit is three steps (read the run, read the rows, save); the save
writes only the columns that differ from what was read, and fails if a row it
updates is gone, which is how the ORM session behaves. The decision is one
step because its conditional `UPDATE` locks the run's row until it commits.
`conflict` is a history variable: an edit was saved over a change of another edit that
it had not read. A save that the approval overtook is no conflict: `BoardIsWhole` and
`ApprovedBoardRuns` cover it, before and after the executor's load. What such a save
drops stays on the executor's list, so a dropped task can still run.

**EventStream.** `open[w]` are rows inserted by a transaction that has not
committed; ids are taken at insertion. `overtaken` and `final` are history
variables. A ping and a heartbeat do the same (`Wake`), so Redis has no state.
`Delete` takes the run and its events away under the page: the stream then ends as
for a failed run, a new stream is refused (`Refused`), and a page that polls gets
"not found", which it takes for "not finished": it polls until it is closed.
`PageEnds` names that case.

**Workspace, Sandbox, Workbench.** A file is absent, good, or holds what one of the
two scans refuses; a tree is a function from files to that. The clone has four
trees (start of the branch, index, last commit, disk), and each tool, gate and
request reads the one the code reads: the review and the security scan see
`git diff` against the start of the branch (files the index knows, as they are on
disk), the push takes the last commit, the sandbox copies the disk. Two contents
that the scans accept are not told apart, so of "what was reviewed is what is
published" the model sees as much as the scans do. Every docker call is a step that
may fail or time out, the removals included, whose result the code ignores. A
session is `stray` if its `docker run` timed out, its `docker rm` failed or the
engine stopped under it. The executor's position is `pc`; people have a `request`
each, whose steps interleave.

**RepositoryIndex, IndexContract.** Rows are records with their writer, so two rows
with the same content differ. The write transaction is modelled statement by
statement at READ COMMITTED: a `DELETE` fixes its rows when it starts (`todo`),
waits for a transaction that has deleted one of them, and does not see what that
transaction inserted. `torn` is a history variable: two write transactions have
overlapped. Imports that name a path are modelled; those of Java and Kotlin, which
name a type that some file of the tree declares, are not. In the contract a writer reads a tree of the remote and publishes it. A
chunk's fused score is the exact fraction `num / den`, and two scores are compared by
cross-multiplication.

**Chunker.** One action per branch of `_chunk_with_tree_sitter` and per turn of
`_window`; a chunk is the lines it holds. The syntax tree is an input.

**Backlog.** A request reads in one step and writes in a later one; `raced` records
that a change of dependencies was committed while another was between the two. A
PATCH sets a status, a priority or a position by hand; a pending reorder is overtaken
by another reorder and by such a position (`alone`), and only then the board may end
in another order than asked. The insights are operators over the state (`Waiting`, `Candidates`, `Recommended`).

**TeamMemory, Chat, Assistant.** A coroutine that returns looks for an outcome,
remembers, looks again, posts and records. Capturing and telling swallow whatever is
raised at any of these steps (`CaptureFails`, `NotifyFails`); only a `SlackError` is
recorded. `past` collects what happened to a run that would excuse a missing memory
or message. A
message is its author, role, time and size; time is the start of the transaction,
as `now()` is in Postgres. Similarity is any choice of the best.

**RateLimit, PullRequestReviews, Gateway.** Tokens are counted in ticks of refill,
which makes the arithmetic of the code integral; a refill uses the clock of the
replica that runs it. `from`, `spent` and `spentHere` count what was admitted since
a moment somebody picks (`Watch`), so the bound is about every interval.

Definitions marked "(mutant)" are plausible bugs; they are used by no
specification and show which property would notice the bug (`PROJECT.json`,
"mutants").

## 3. What is checked

| Run | Bounds | Shows |
|---|---|---|
| `board` | plans of up to 3 tasks and 1 added, 1 retry, 1 crash; the superstep limit of the code, out of reach here | `NoDependencyDeadlock`, `ReviewSeesFinishedBoard`, `AttemptsAreBounded`, `ImplementsContract`, `RunEnds` |
| `board_faults` | the same with a failing transaction and a superstep limit of 9, within reach | `DependencyOrder`, `SettledStaysSettled` |
| `inline` | 3 coroutines, 2 tasks, 2 restarts, requests before recovery's select, 1 failure that nobody handles besides removals that fail | `OneCoroutine`, `ActiveRunIsAttended`, `ApprovedPlanStands`, `ImplementsLifecycle`, `RunSettles` |
| `queued` | 3 deliveries, 3 worker stops, 1 API restart, 1 database failure, removals that fail, timeouts, enqueues that are refused | `DeliveriesAreHarmless`, `ApprovedBoardStands`, `FollowsLifecycle`, `QueuedRunSettles` |
| `events` | 4 events, 2 writers, batches of 2, 2 losses | `OnlyOvertakenAreMissed`, `InOrder`, `EndIsComplete`, `PageEnds` |
| `gate` | plans of 1 to 3 tasks with any earlier dependencies, 2 edits | `BoardIsWhole`, `ApprovedBoardRuns`, `DropIsFinal` |
| `index` | 2 files of 2 versions that import each other, 2 indexings, 1 push, 1 run, 1 fault, searches | `ImplementsContract`, `AloneIsARebuild`, `IndexingSettles`, `OnlyLateRunsAreDetached`, `UnanimousOrder` |
| `chunker` | files of up to 7 lines with any blanks and up to 2 nodes; windows of 3, overlap 1, definitions up to 4 | `EveryLineIsChunked`, `ChunksAreBounded` |
| `backlog` | 3 items, 2 requests at once, 3 in all, 2 priorities, 2 positions by hand | `AcyclicUnlessRaced`, `SomethingCanBeDone`, `BoardIsAsAsked` |
| `assistant` | 2 coroutines, 2 questions, 3 memories of which 2 are recalled, history of 2, 4 pieces of work, one retry of each kind | `OutcomeIsKept`, `QuestionComesLast`, `AnswersAreWhole` |
| `gateway` | 2 replicas with clocks one tick apart, burst of one request, 3 delivery ids, 2 remembered, 4 deliveries, 4 ticks | `AdmissionsAreBounded`, `ReviewedOnce` |
| `workbench` | 1 file, 1 QA attempt, 3 writes, 2 people, 3 requests, 1 restart | `PublishedIsVetted`, `IdleSessionHasFiles` |

Each property is stated above its definition in words, with the code it is about.
What they say together:

* A board is never stuck, loses no task before the review, and keeps its order
  through retries, crashes and failing transactions; every run ends.
* No restart, redelivery or decision discards an approved plan, puts two coroutines
  on a run, or makes the status go back, with these exceptions. Inline mode: recovery
  may select a run that a request of the same process has just started. From then on
  two coroutines work on it (`InlineEarlyRequest.cfg`): a second planner may make the
  guard fail the run while the executor goes on, and the executor then writes
  "reviewing" over "failed" (`agents/runner.py:371`). `OneCoroutine`, `FinishedOnce`,
  `ApprovedPlanStands` and `ImplementsLifecycle` hold up to that moment (`early`).
  Queue mode: the single writer of the end and the lifecycle need a database that
  works.
* An active run has somebody to go on with it, restarts and double starts included.
  Only an error that nobody handles takes that away, and in inline mode the next
  start gives it back. `ActiveRunIsAttended`, `RunSettles` and `QueuedRunSettles`
  name it in `abandoned`.
* A page that follows a run sees its events in order, once, and all of them, but
  for those committed out of order.
* What a clean workspace publishes was reviewed, tested and scanned as it is.
* An index is that of one tree of the repository until two writers overlap; a
  search ranks by agreement even if its two statements saw different indexes.
* A run that ends is remembered once and told to the team unless capturing or telling
  failed, and the memory reaches later questions.
* A caller's admissions stay within burst and refill, whatever clock, prune,
  expiry or restart intervenes.

The bounds are the smallest in which the interesting cases meet. A board needs two
dependent tasks for a failure to strand work, a third that is independent of them, and
one for an agent to add; one crash reaches every position, and one retry tells a
first failure from a last one (the proofs are for any number). A run needs two
restarts for a restart during recovery. Deliveries must be able to run out (three
stops, three tries). Two edits are enough for a lost update, and three tasks for one
that restores a ghost. Four events with batches of two give two full batches and one
after the end. Two indexings overlap, a push in between makes them see different
trees, and two files that import each other make an edge of an unchanged file
change. A file of seven lines has room for two definitions with a gap before,
between and after them, each of them small or larger than the limit, and for a
window that overlaps another. Two people give every overlap of two requests; three
writes put one file into a different state in index, last commit and disk. Two
dependency changes race, three items make a cycle that neither closes alone. A
cycle of three distinct deliveries forgets one of two remembered ids; four ticks
empty, refill, expire and prune a bucket of two.

`CHECK_DEADLOCK FALSE` is set where the system may really stop: a run that has
ended, a page that is done, requests that are used up. Symmetry is used in
`backlog`, `assistant`, `gateway` and `workbench`, which check no liveness, for
requests, coroutines, delivery ids and people that the code does not tell apart.

### Disagreements with what the repository says

Configurations of the same modules in which TLC refutes a sentence of the
repository; each can be run as it stands.

| Configuration | Refuted | The sentence | The code |
|---|---|---|---|
| `TaskBoardLostTask.cfg` | `TaskBoard!ReviewSeesFinishedBoard` | "New rows (add_task) and fresh skips (update_task_status) go back to the supervisor so scheduling sees them." (`agents/runner.py:760`) | `known_ids` is updated before a commit that may fail (`agents/runner.py:769`) |
| `InlineEarlyRequest.cfg` | `InlineRuns!OneCoroutine` | "Resume runs the last process left behind" (`main.py:41`) | recovery selects active runs while requests already start new ones (`agents/recovery.py:45`) |
| `InlineDeleteRace.cfg` | `InlineRuns!NoOrphans` | "deleting the row out from under it would be a race." (`api/runs.py:553`) | the status is checked before an `await` and not again after it (`api/runs.py:579`) |
| `QueuedFallback.cfg` | `QueuedRuns!FallbackSettles` | "A broken queue degrades to inline with a warning; it never strands a run." (`jobs.py:7`) | in queue mode the API does not recover the runs it took over (`jobs.py:73`) |
| `EventStreamSkips.cfg` | `EventStream!NothingIsMissed` | "a missed ping costs one heartbeat of latency, never an event" (`api/runs.py:912`) | ids are taken at insertion but become visible at commit (`api/runs.py:927`) |
| `PlanGateGhost.cfg` | `PlanGate!NoGhost` | "A dropped task's id disappears from every remaining task's `depends_on`, so the board can never deadlock on a ghost." (`src/docs/architecture/agents/PLAN_EDITING.md:35`) | an edit writes back the dependencies it has read (`api/runs.py:351`) |

Further behaviour that a reader may not expect. Runs and agents:

* A task that an agent adds in the attempt that fails the run is not on the
  supervisor's list and stays pending (`agents/runner.py:355`; AGENT_RUNTIME.md says
  unstarted tasks are skipped). `TaskBoard!FailedBoardIsClosed` says so.
* A crash in the third attempt is followed by a fourth (`agents/recovery.py:121`;
  `supervisor.py:27` says three in total): `TaskBoard!AttemptsTotal`.
* A task added in the revision round is never scheduled (`agents/runner.py:382`;
  TASK_BOARD_TOOLS.md says it is): `TaskBoard!CompletedBoardIsFinished`.
* The superstep limit of 100 ends a run of 30 tasks with retries to spare
  (`agents/runner.py:342`): `TaskBoard!RetryIsScheduled`.
* The guard's own transaction may fail; the run then stays active until the next
  restart (`agents/runner.py:203`), as it does when the approving request fails after
  its commit, before it has started the executor (`ApprovesInVain`).
* A replanned run whose workspace cannot be removed stays "queued" with nobody on it
  (`agents/recovery.py:96`): in inline mode the error ends recovery's task, which
  forgets the runs it has not come to (`agents/recovery.py:55`); in queue mode it ends
  the job, which is not delivered again (`worker.py:44`). `abandoned` names both.
* A run that crashes after its pull request was opened passes the gates again and
  may then be failed with the request open (`agents/runner.py:422`).
* Queue mode: a job that reaches `job_timeout` or `max_tries` leaves its run active;
  so does an API process that dies between the commit and the enqueue
  (`api/runs.py:235`). `QueuedRunSettles` names these cases in `Abandoned`.
* Queue mode with `"unanswered"` in `Enqueue`: an enqueue whose answer is lost is
  followed by an inline planner beside the job (`jobs.py:68`).
* Queue mode with a failing database: a late delivery for a run that has ended, and
  whose first read fails, makes the guard fail the ended run (`agents/runner.py:206`);
  hence `faults = 0` in `DeliveriesAreHarmless` and `FollowsLifecycle`.
* Two edits can also leave an empty board, which the API refuses to a single edit,
  and an edit can be saved after the approval (`api/runs.py:312`). Such a save is no
  conflict: the board stays whole, but if the executor has loaded its list, it runs the
  tasks that the save dropped (PLAN_EDITING.md: the dropped task never runs).
  `BoardIsWhole` and `ApprovedBoardRuns` hold as long as no edit is saved over a
  change of another that it has not read.
* Polling asks for the run and the events at once; if the events are answered first
  and the run ends in between, the loop stops without the last events
  (`src/apps/web/src/components/runs/run-detail-panel.tsx:356`). `EndIsComplete`
  therefore speaks of the stream only, and a polling request that is lost stops
  the loop (`PollFails`).

Workspace and containers:

* An edit that an agent leaves uncommitted is reviewed and scanned but not
  published, and a file that was never added is invisible to the review's diff.
  `PublishedIsVetted` speaks of clean files for this reason.
* A run that failed because of a scan keeps its workspace, and a person may push it.
* A container left by a stopped engine or a failed removal makes the next start fail,
  which costs a QA attempt. A deleted run's terminal container is not removed.
* A terminal session that could neither be filled nor removed is used by the next
  command, which finds an empty folder, until it is 30 minutes old: the result of
  `docker rm` is ignored (`sandbox/terminal.py:110`), and `docker inspect` tells only
  whether the container runs. The same holds of one whose `docker run` timed out.
* A write that overlaps the deletion of its run recreates the folder (`"plain"`).

Index, backlog, memory, gateway:

* Two indexings of a repository may overlap; the index is then mixed until the next
  one, and one that loses against a unique index is reported as failed. The status
  "indexing" stays after a restart. A run created while a disconnect is between its
  count and its delete loses its repository.
* Two dependency changes may close a cycle that each was checked against; a reorder
  that another reorder or a position set by hand overtakes mixes the two;
  two overlapping pushes of an item open two issues.
* A database failure, a webhook address that is no URL, or any other exception but a
  `SlackError` ends the telling without an event (`integrations/notify.py:60`), so the
  timeline does not say that the team was not told. `Told` names it in `untold`.
* Two captures at once remember an outcome twice; if a person removes the outcome,
  a redelivered coroutine remembers the decision again. Cancelled runs are neither
  remembered nor told. Every redelivery tells the team again.
* `created_at` is the time at which a transaction started, so a message that was
  committed later may sort before the question.
* A failed webhook review is not tried again, because its id stays remembered;
  deliveries without an id are not told apart; each replica remembers its own.
* `AdmissionsAreBounded` needs that the bucket refills within the 600 seconds after
  which it is pruned, and that clocks agree to the 60 seconds of the key's margin.

## 4. Fairness

* `TaskBoard`: weak fairness of the engine's own steps. The event loop resumes the
  coroutine, agent loops are bounded by `MAX_TURNS`, and recovery runs at startup.
  No agent has to use a tool and nothing has to fail.
* `InlineRuns`: weak fairness of recovery and of every coroutine, for the same reason.
* `QueuedRuns`: weak fairness of coroutines, of pending dispatches (background
  tasks of a process that is up) and of deliveries (a worker that stops is started
  again by its supervisor).
* `EventStream`: weak fairness of the endpoint, the connection and the polling
  loop, all driven by timers or by the browser. Writers need not write.
* `RepositoryIndex`: weak fairness of each indexing: a background task of an engine
  that runs goes on. An engine that stops, and a last transaction that fails, are
  faults, and `IndexingSettles` names them.
* Humans are never fair: no run has to be approved, rejected, edited or deleted.

The other modules state no fairness and no liveness: their requests may stop at any
step.

## 5. What is proved

All theorems hold for every value of the constants, under the `ASSUME`s of the
modules, which TLC evaluates in the runs.

* **TaskBoard_proofs.** `Invariance` proves an inductive invariant that relates the
  rows to the supervisor's list: what is settled in one is settled in the other
  unless the difference is still to be merged, the row in progress is the current
  task, a pending task's dependencies lie on the board and before it, and
  unfinished work never depends on a skipped row. The properties of the runs are not
  inductive without it, because most of them speak of the rows while the
  scheduler acts on the list. From it follow `TypeCorrect`, `AttemptsBounded`,
  `ReviewComplete`, `NeverDeadlocks`, `Ordered`, `Settled`, and
  `BoardImplementsContract`, the refinement of `BoardContract`.
  `ReviewComplete` assumes no failing transaction; `TaskBoardLostTask.cfg` shows why.
  Of the contract alone, `ContractOrder`, `ContractSettled` and `ContractNeverStuck`
  are proved; `Ordered`, `Settled` and `RowsNeverStuck` carry them over to the rows
  through the refinement.
  `RunsOutOfSteps` is the safety half of `RunEnds`: a rank made of the supersteps left
  and the place in the wind-up (`Left`) falls with every engine step and every fault,
  and no tool of an agent raises it. That some step is possible until the run is over,
  and taken, is left to TLC.
* **Runs_proofs.** Inline mode: until recovery takes up a run that a request has just
  started (`early`), the invariant says where a coroutine can be for each status, that
  at most one is working, that recovery has something to do only while none is, and how
  often the run has ended (`Orderly`). What holds after that too is kept apart: the
  last writer of an active status is a coroutine that goes on, or recovery comes to the
  run, or an unhandled error is on record (`Attended`). It gives `NeverTwoCoroutines`,
  `EndsOnce`, `ApprovalIsFinal` and `RunsImplementLifecycle` up to that moment, and
  `NeverForgotten` throughout, for any number of coroutines, tasks, restarts, failing
  removals and database failures. `InlineEarlyRequest.cfg` shows why the moment matters.
  Queue mode: each coroutine is handed over once, so it is in one place (a dispatch, a
  job, its steps) or over. What holds whatever the database does (a planner past its
  check finds the run as it left it, no planner comes after the approval) is kept apart
  from what holds while the database works (where executor and guard can be for each
  status): `ApprovalIsFinalInTheQueue` needs only the first, `LateDeliveriesLeave` and
  `QueueFollowsLifecycle` both. The theorems assume `Answered`, that every enqueue
  is answered; without it the fallback starts a second coroutine and
  `QueuedFallback.cfg` refutes them.
* **PlanGate_proofs.** What an edit has checked holds of what it has read; if it is
  saved without a conflict, what it read is what is there, and it only takes rows and
  dependencies away, whether or not the executor has loaded them. Hence `Whole` and
  `RunsWhatIsApproved`; `DropsAreFinal` needs no such condition.
* **EventStream_proofs.** Both cursors, the stream's and the page's, are zero or the
  id of a committed event; so what is committed below one is overtaken. A batch is
  an initial segment of what lies past a cursor (`BatchIs`, by counting), so
  whatever lies between the page's cursor and the stream's is on its way, and a
  short batch that ends the stream is all there is. Hence `Complete`, `Ordered`
  and `Ending`, for any number of writers, events and losses and any batch size.
* **Index_proofs.** The chunker: at each place of the algorithm the lines before the
  cursor are in a chunk or blank (`Place`). Hence `NoLineIsLost` and `Bounded`, for
  files of any length, any syntax tree whose nodes lie in the file, and any window
  larger than its overlap; `CuttingEnds` shows with a rank of three parts (nodes,
  places of the algorithm, lines of the window) that no file is cut forever. The
  index: `IndexInv` says, until two write transactions overlap, what the rows and the
  fingerprints are for each statement a writer has reached: what it deleted, what it
  still has to, what it inserted; and what readers see meanwhile. That a commit leaves
  the rows of exactly one tree is then what each writer's diff computed
  (`CommitPrints`, `CommitAlone`). Hence `IncrementalIsARebuild` and `IndexRefines`,
  step by step: the commit of a writer publishes its tree, every other statement
  stutters. `OnlyLateRuns` rests on the locks that the delete of a repository and the
  insert of a run take. `AnswersAreUnanimous` is about arithmetic: sums of reciprocals
  keep an order both terms have (`HigherSum`, `HigherThrough`). The theorems hold for
  any numbers of files, versions, writers, pushes, runs and hits; `IndexAssumption`
  asks for finitely many paths.
* **Backlog_proofs.** While no two dependency saves overlapped, the graph is acyclic
  and so is the graph each pending save would make (`Checked`); the latter is what the
  cycle check of the code computes, and it makes the former inductive. Acyclic means
  that every set of items has one that depends on none of them. Hence `NoCycles`, and
  with it `NoPlanIsStuck`: an open item that no open item blocks exists, and of those
  the recommendation's order has a best one (`BestItem`). `ReordersHold` rests on
  `BoardInv`: a reorder that nothing overtook has read the positions its items still
  have. For any number of items and requests, and any positions of an integer column
  (which has a lowest number).
* **Requests_proofs.** A bucket's account: what it holds and what was taken from it do
  not exceed its capacity and the refill since, by the clock of the last replica that
  used it. The account survives the end of a bucket because a bucket ends only when it
  would be full again. Hence `Limited`, for any replicas, clocks, capacity and cost
  that `RateLimitAssumption` admits. The webhook's memory is a window over the ids a
  replica has queued since its start (`Windows`): the last `MaxRemembered` of them, and
  none of the others. Hence `NoEarlyRepeat`, by counting the ids between two reviews.
  A conversation (`ChatInv`): where a request is tells what it has stored (`Progress`),
  a conversation that is being created is its creator's (`Creation`), and nobody saw a
  message newer than its own question. The newest messages therefore end with the
  question, among those it saw, or are all newer (`SendsNewest`), and
  an answer is later than its question; hence `QuestionsComeLast` and
  `OnlyWholeAnswers`, for any number of requests and any limits. Messages of the same
  time may be sent in any order.
  The team's memory (`MemoryInv`): while no capture was lost, an end is remembered or
  a coroutine is on its way to remember it (`NotLost`); while no two captures
  overlapped, nothing is remembered that one of them still captures (`Alone`); each
  message and notice is paid for by a visit, counted by where the coroutines are
  (`Counted`); and while no telling was cut short or failed, an end is told or will be
  (`NotUntold`). With `Recollection`, that memories stay until they are removed
  and that what is sent is the best of them, this gives `OutcomesAreKept`, for any
  number of coroutines, questions, people and restarts, whether or not Slack was
  connected at first. `MemoryAssumption` asks for finitely many coroutines.
* **Workbench_proofs.** Each look at the clone (review, tests, scans) is remembered
  with what it saw, and the invariant says up to which step of the executor that still
  is the clone (`Judged`, `Tried`, `Scanned`), and that nobody but the executor works
  on an active run (`Turns`). Hence `OnlyVettedIsPublished`. A terminal
  session without files is one that a request is about to fill or discard, whatever the
  other requests do, or a stray one (`Bareness`, `Calls`): `SessionsAreFilled`. For any files, agents that commit or not,
  people, edits and restarts; `FileAssumption` asks for one file at least.

Only model-checked: every liveness property (`RunEnds`, `RunSettles`,
`QueuedRunSettles`, `PageEnds`, `IndexingSettles`), since liveness under fairness and
`ENABLED` are beyond the prover, as is induction over data. The other properties
of the runs are each stated by a theorem.

## 6. Not modelled

* Prompts, model output, the text of diffs, files, reports and messages; what the
  scanners look for. The data of a run appears only where a property distinguishes
  it: an exhausted budget is a flag, a title is its author, a file is what a scan
  says of it.
* Who may see which row (row-level security, authentication): a predicate on each
  query without a state of its own.
* Endpoints that only read: lists, statistics, reports, exports, the file browser.
* The router's calls other than the streamed one, which share its retries, and the
  choice of the provider's key.
* Documents: one insert, update or delete of a row that nothing depends on.
* Backups: one nightly job that drives `pg_dump` and an object store; what matters is
  what those do. Migrations, observability, evaluation, infrastructure: no
  state that behaviour depends on.
* The clients of code hosts, trackers and Slack: calls that succeed or fail.

Bounds that exist only in the models: `MaxSequence`, `MaxCrashes`, `MaxFaults`,
`MaxTasks`, `MaxStops`, `MaxApiCrashes`, `MaxEvents`, `MaxDrops`, `MaxPushes`,
`MaxItems`, `MaxRequests`, `MaxTokens`, `MaxWork`, `MaxQueued`, `MaxTime`,
`MaxDelivered`, `MaxEdits`.

Three hazards have no property. A task that an agent adds in the attempt that fails
the run (`agents/runner.py:355`), an enqueue whose answer is lost (`jobs.py:66`), and
two pushes of an item that overlap (`api/work_items.py:285`) go wrong in the code, as
section 3 says; a property would only repeat that.

## 7. Plan

Done: the board with its contract, the run lifecycle in both modes, the approval gate,
the timeline, the workspace with its gates and containers, the index with its
contract, the chunker, the backlog, memory and chat, the limiter with the webhook. Next:

1. A leaky bucket as the abstract specification of `RateLimit`, and an acyclic graph
   that of `Backlog`.
2. Connecting a repository beside its disconnect; documents and the backup job, if
   they come to interact with anything.
3. The diff parser of the web application and the retrieval evaluation against
   reference definitions.
