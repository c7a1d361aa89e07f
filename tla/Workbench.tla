----------------------------- MODULE Workbench -----------------------------
(***************************************************************************)
(* One run's workspace, from the first tool call of an engineer to the     *)
(* deletion of the run: agents write and commit, the review and the gates  *)
(* look at it, the branch is published (agents/runner.py), and after that  *)
(* people browse, edit, commit, push, use the terminal and delete          *)
(* (api/runs.py, api/terminal.py).  Agents and people never work at the    *)
(* same time; people may work beside each other, and the engine may stop.  *)
(***************************************************************************)
EXTENDS Sandbox, Integers

CONSTANTS
  QA_MAX_ATTEMPTS,
  User,         \* requests in progress at once
  MaxEdits,     \* writes by agents and people (bounds the model)
  MaxRequests,  \* requests of people (bounds the model)
  MaxCrashes    \* restarts of the engine (bounds the model)

ASSUME WorkbenchAssumption == {QA_MAX_ATTEMPTS, MaxEdits, MaxRequests, MaxCrashes} \subseteq Nat

VARIABLES
  status,    \* of the run: active, completed, failed or deleted
  pc,        \* where the executor is
  revised,   \* the one revision round was used
  qa,        \* QA attempts used
  outcome,   \* of the last run of the sandbox
  reviewed,  \* what the approving review was shown
  tested,    \* the tree the last tests ran on
  staged,    \* an agent's git_commit is between git add and git commit
  request,   \* where each request of a person is
  edits, requests, crashes

runVars == <<status, pc, revised, qa, outcome, reviewed, tested, staged>>
bounds == <<edits, requests, crashes>>
vars == <<treeVars, boxVars, runVars, request, bounds>>

Writing == {"engineer", "revise", "qa"}
InBox == {"run", "copy", "install", "unplug", "test", "remove"}
Stage == Writing \cup InBox \cup {"review", "security", "dependency", "push", "record", "none"}
Step == {"idle", "write", "stage", "status", "commit", "push", "remove", "drop",
         "reset", "inspect", "clear", "start", "fill", "exec", "discard"}

TypeOK ==
  /\ WorkspaceType /\ SandboxType
  /\ status \in {"active", "completed", "failed", "deleted"} /\ pc \in Stage
  /\ revised \in BOOLEAN /\ staged \in BOOLEAN /\ qa \in 0 .. QA_MAX_ATTEMPTS
  /\ outcome \in {"none", "passed", "skipped", "failed"}
  /\ {reviewed, tested} \subseteq Tree \cup {NoTree}
  /\ request \in [User -> Step]
  /\ edits \in 0 .. MaxEdits /\ requests \in 0 .. MaxRequests /\ crashes \in 0 .. MaxCrashes

Init ==
  /\ Cloned /\ NoContainers
  /\ status = "active" /\ pc = "engineer" /\ revised = FALSE /\ qa = 0 /\ outcome = "none"
  /\ reviewed = NoTree /\ tested = NoTree /\ staged = FALSE
  /\ request = [u \in User |-> "idle"] /\ edits = 0 /\ requests = 0 /\ crashes = 0

-----------------------------------------------------------------------------
(* The executor: what the steps of an agent, the review and the gates have *)
(* in common.                                                              *)
Goto(next) == pc' = next /\ UNCHANGED <<status, request, bounds>>
KeepVerdicts == UNCHANGED <<revised, qa, outcome, reviewed, tested, staged>>

(* What the executor knows is gone with it. *)
Forget ==
  /\ revised' = FALSE /\ qa' = 0 /\ outcome' = "none"
  /\ reviewed' = NoTree /\ tested' = NoTree /\ staged' = FALSE
Ends(verdict) == pc' = "none" /\ status' = verdict /\ Forget /\ UNCHANGED <<request, bounds>>

(* write_file and apply_patch, by engineers and by QA. *)
AgentEdits ==
  /\ pc \in Writing /\ ~staged /\ edits < MaxEdits /\ edits' = edits + 1
  /\ \/ \E f \in File : \E c \in Content \ {"absent"} : WriteFile(f, c)
     \/ \E new \in Tree : Patch(new)
  /\ UNCHANGED <<boxVars, runVars, request, requests, crashes>>

(* git_commit: all of the work is staged; without a difference to the last *)
(* commit the agent gets an error.                                         *)
AgentStages ==
  /\ pc \in Writing /\ ~staged /\ StageAll /\ staged' = (work # head)
  /\ UNCHANGED <<boxVars, status, pc, revised, qa, outcome, reviewed, tested, request, bounds>>
AgentCommits ==
  /\ staged /\ CommitIndex /\ staged' = FALSE
  /\ UNCHANGED <<boxVars, status, pc, revised, qa, outcome, reviewed, tested, request, bounds>>

(* (mutant) The revised change is not reviewed again. *)
AfterTurn_NoSecondReview == [engineer |-> "review", revise |-> "run", qa |-> "run"]

(* Where the run goes on when an agent answers without a tool call. *)
AfterTurn == [engineer |-> "review", revise |-> "review", qa |-> "run"]

(* The board is done, or the revision round or the fix of QA is: nothing   *)
(* looks at whether the agent has committed its work.                      *)
TurnEnds ==
  /\ pc \in Writing /\ ~staged /\ Goto(AfterTurn[pc]) /\ KeepVerdicts
  /\ UNCHANGED <<treeVars, boxVars>>

(* _review, on git diff: approval, or once a request for changes. *)
Approve ==
  /\ pc = "review" /\ Goto("run") /\ reviewed' = Shown
  /\ UNCHANGED <<treeVars, boxVars, revised, qa, outcome, tested, staged>>
RequestChanges ==
  /\ pc = "review" /\ ~revised /\ Goto("revise") /\ revised' = TRUE
  /\ UNCHANGED <<treeVars, boxVars, qa, outcome, reviewed, tested, staged>>

-----------------------------------------------------------------------------
(* _sandbox_gate: on with the scans, to QA, or the end of the run. *)
AfterBox(result) ==
  IF result # "failed" THEN "security" ELSE IF qa < QA_MAX_ATTEMPTS THEN "qa" ELSE "none"

Concludes(result) ==
  IF AfterBox(result) = "none" THEN Ends("failed")
  ELSE /\ Goto(AfterBox(result)) /\ outcome' = result
       /\ qa' = IF pc' = "qa" THEN qa + 1 ELSE qa
       /\ UNCHANGED <<revised, reviewed, tested, staged>>

(* run_sandbox before its container: disabled, without a plan for the      *)
(* files, or without docker the tests are skipped; without docker where it *)
(* is required they fail.                                                  *)
BoxSkips ==
  /\ pc = "run" /\ UNCHANGED <<treeVars, boxVars>>
  /\ \E result \in {"skipped", "failed"} : Concludes(result)

(* The calls of _execute.  Each may fail or time out, which ends it; docker *)
(* run fails on a container that is left over.                             *)
BoxStarts == pc = "run" /\ StartBox /\ Goto("copy") /\ KeepVerdicts /\ UNCHANGED treeVars
BoxIsFilled == pc = "copy" /\ CopyIn /\ Goto("install") /\ KeepVerdicts /\ UNCHANGED treeVars
BoxInstalls == pc = "install" /\ Goto("unplug") /\ KeepVerdicts /\ UNCHANGED <<treeVars, boxVars>>
BoxUnplugged == pc = "unplug" /\ Unplug /\ Goto("test") /\ KeepVerdicts /\ UNCHANGED treeVars
BoxFails ==
  /\ pc \in {"run", "copy", "install", "unplug"} /\ Goto("remove")
  /\ outcome' = "failed" /\ tested' = NoTree
  /\ UNCHANGED <<treeVars, boxVars, revised, qa, reviewed, staged>>

(* Tests without a result in time count as failed; pytest without a test   *)
(* counts as skipped.                                                      *)
BoxTests ==
  /\ pc = "test" /\ Goto("remove") /\ tested' = box.copy
  /\ outcome' \in {"passed", "skipped", "failed"}
  /\ UNCHANGED <<treeVars, boxVars, revised, qa, reviewed, staged>>
BoxRemoved == pc = "remove" /\ RemoveBox /\ Concludes(outcome) /\ UNCHANGED treeVars

-----------------------------------------------------------------------------
(* _security_gate and _dependency_gate, each on a diff of its own. *)
Gate(step, findings, next) ==
  /\ pc = step /\ UNCHANGED <<treeVars, boxVars>>
  /\ IF findings # {} THEN Ends("failed") ELSE Goto(next) /\ KeepVerdicts
SecurityGate == Gate("security", Leaks, "dependency")
DependencyGate == Gate("dependency", Vulnerable, "push")

(* _publish, and the commit of COMPLETED after it. *)
Publish == pc = "push" /\ Push /\ Goto("record") /\ KeepVerdicts /\ UNCHANGED boxVars
Complete ==
  pc = "record" /\ Ends("completed") /\ UNCHANGED <<treeVars, boxVars>>

(* Any step outside the sandbox may raise, or the reviewer may refuse      *)
(* again: the guard fails the run.                                         *)
Raise ==
  pc \notin InBox \cup {"none"} /\ Ends("failed") /\ UNCHANGED <<treeVars, boxVars>>

(* The engine stops.  Recovery starts the executor again in the same       *)
(* workspace; requests of people are gone, containers stay, and docker     *)
(* still makes the one it was asked for.                                   *)
Crash ==
  /\ crashes < MaxCrashes /\ crashes' = crashes + 1
  /\ pc' = (IF status = "active" THEN "engineer" ELSE "none") /\ Forget
  /\ request' = [u \in User |-> "idle"]
  /\ \/ session' = (IF session.up THEN Stray(session) ELSE NoSession)
     \/ ~session.up /\ session' = Stray(NewSession) /\ \E u \in User : request[u] = "start"
  /\ UNCHANGED <<treeVars, box, status, edits, requests>>

-----------------------------------------------------------------------------
(* People.  A request checks the run's status and that the workspace is    *)
(* there, and acts later: _require_editable, _load_run_workspace.          *)
Editable == status \in {"completed", "failed"}
At(u, step) == request[u] = step
To(u, step) == request' = [request EXCEPT ![u] = step]
Only(changed) == UNCHANGED <<runVars, bounds, changed>>

Ask(u) ==
  /\ At(u, "idle") /\ requests < MaxRequests /\ requests' = requests + 1
  /\ \/ /\ Editable /\ folder # "none"
        /\ \E first \in {"write", "stage", "push", "inspect"} : To(u, first)
     \/ Editable /\ To(u, "remove")
     \/ status # "deleted" /\ To(u, "reset")
  /\ UNCHANGED <<treeVars, boxVars, runVars, edits, crashes>>

(* write_run_file, which makes the folder anew if it is gone. *)
WriteLands(u) ==
  /\ At(u, "write") /\ edits < MaxEdits /\ edits' = edits + 1
  /\ \E f \in File : \E c \in Content \ {"absent"} : WriteFile(f, c)
  /\ To(u, "idle") /\ UNCHANGED <<boxVars, runVars, requests, crashes>>

(* commit_run_workspace: three calls of git.  Each is an error when the    *)
(* clone is gone, and git add when another holds the lock of the index.    *)
CommitStages(u) ==
  /\ At(u, "stage") /\ Only(boxVars)
  /\ \/ folder = "clone" /\ StageAll /\ To(u, "status")
     \/ To(u, "idle") /\ UNCHANGED treeVars
CommitLooks(u) ==
  /\ At(u, "status") /\ Only(<<treeVars, boxVars>>)
  /\ To(u, IF folder = "clone" /\ Changed THEN "commit" ELSE "idle")
CommitLands(u) ==
  /\ At(u, "commit") /\ To(u, "idle") /\ Only(boxVars)
  /\ IF folder = "clone" /\ index # head THEN CommitIndex ELSE UNCHANGED treeVars

(* push_workspace *)
PushLands(u) ==
  /\ At(u, "push") /\ To(u, "idle") /\ Only(boxVars)
  /\ IF folder = "clone" THEN Push ELSE UNCHANGED treeVars

(* delete_run: the workspace, then the row.  The containers stay. *)
DeleteRemoves(u) == At(u, "remove") /\ Remove /\ To(u, "drop") /\ Only(boxVars)
DeleteDrops(u) ==
  /\ At(u, "drop") /\ status' = "deleted" /\ To(u, "idle") /\ UNCHANGED <<treeVars, boxVars, bounds>>
  /\ UNCHANGED <<pc, revised, qa, outcome, reviewed, tested, staged>>

-----------------------------------------------------------------------------
(* run_terminal_command and reset_terminal, call by call. *)
Inspect(u) ==
  /\ At(u, "inspect") /\ To(u, IF Usable THEN "exec" ELSE "clear") /\ Only(<<treeVars, boxVars>>)
Clear(u) == At(u, "clear") /\ RemoveSession /\ To(u, "start") /\ Only(treeVars)
Start(u) ==
  /\ At(u, "start") /\ Only(treeVars)
  /\ \/ StartSession /\ To(u, "fill")
     \/ StartTimesOut /\ To(u, "idle")
     \/ UNCHANGED boxVars /\ To(u, "idle")
Fill(u) ==
  /\ At(u, "fill") /\ folder # "none" /\ CopyToSession /\ To(u, "exec") /\ Only(treeVars)

(* (mutant) A session that could not be filled is kept. *)
FillFails_KeepsSession(u) == At(u, "fill") /\ To(u, "idle") /\ Only(<<treeVars, boxVars>>)

FillFails(u) == At(u, "fill") /\ To(u, "discard") /\ Only(<<treeVars, boxVars>>)

(* A command ends, or it times out and the session is given up. *)
Exec(u) ==
  /\ At(u, "exec") /\ Only(<<treeVars, boxVars>>)
  /\ \/ To(u, "idle")
     \/ session.up /\ To(u, "discard")
Discard(u) ==
  /\ request[u] \in {"discard", "reset"} /\ RemoveSession /\ To(u, "idle") /\ Only(treeVars)

Ages == (SessionAges \/ RemovedLate) /\ UNCHANGED <<treeVars, runVars, request, bounds>>

-----------------------------------------------------------------------------
Agents ==
  \/ AgentEdits \/ AgentStages \/ AgentCommits \/ TurnEnds \/ Approve \/ RequestChanges
  \/ BoxSkips \/ BoxStarts \/ BoxIsFilled \/ BoxInstalls \/ BoxUnplugged \/ BoxFails
  \/ BoxTests \/ BoxRemoved \/ SecurityGate \/ DependencyGate \/ Publish \/ Complete \/ Raise
People(u) ==
  \/ Ask(u) \/ WriteLands(u) \/ CommitStages(u) \/ CommitLooks(u) \/ CommitLands(u)
  \/ PushLands(u) \/ DeleteRemoves(u) \/ DeleteDrops(u)
  \/ Inspect(u) \/ Clear(u) \/ Start(u) \/ Fill(u) \/ FillFails(u) \/ Exec(u) \/ Discard(u)

Next == Agents \/ Crash \/ Ages \/ \E u \in User : People(u)

Spec == Init /\ [][Next]_vars

-----------------------------------------------------------------------------
(* A run publishes only if its tests did not fail.  If besides nothing in  *)
(* its workspace is uncommitted, every published file that differs from    *)
(* the start of the branch is free of what the scans refuse, is what the   *)
(* approving review was shown unless QA was at work after it, and is what  *)
(* the tests ran on if they passed: with agents that commit or not, in any *)
(* order, and across a restart that leaves work and a container behind     *)
(* (agents/runner.py _execute_tasks).                                      *)
PublishedIsVetted ==
  [][pc = "push" /\ pc' = "record" =>
       /\ outcome # "failed" /\ reviewed # NoTree
       /\ (~Changed => \A f \in {g \in File : host'[g] # base[g]} :
            /\ host'[f] \notin Refused
            /\ qa = 0 => reviewed[f] = host'[f]
            /\ outcome = "passed" => tested # NoTree /\ tested[f] = host'[f])]_vars

(* A session of the terminal that no request is busy starting has the      *)
(* workspace's files, however requests overlapped and copies failed,       *)
(* unless it is a container whose start timed out, whose removal failed    *)
(* or that outlived the engine (sandbox/terminal.py ignores what docker rm *)
(* returns, and inspect cannot tell such a container from a filled one).   *)
IdleSessionHasFiles ==
  session.up /\ ~session.files /\ ~session.stray =>
    \E u \in User : request[u] \in {"fill", "discard"}
=============================================================================
