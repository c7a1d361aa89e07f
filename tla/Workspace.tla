----------------------------- MODULE Workspace -----------------------------
(***************************************************************************)
(* The clone a run works in (workspace/manager.py, agents/tools.py): the   *)
(* commit it started from, git's index, the last commit of its branch, the *)
(* files on disk, and what the host has of the branch.                     *)
(*                                                                         *)
(* A file is absent, good, or holds what one of the two scans of a change  *)
(* refuses: a secret, or a dependency with a known vulnerability.          *)
(***************************************************************************)
CONSTANT File

ASSUME FileAssumption == File # {}

VARIABLES
  folder,  \* "none", "clone", or "plain": recreated by a write, without .git
  base, index, head, work, \* contents: start of the branch, index, last commit, disk
  host     \* contents of the pushed branch, or NoTree

treeVars == <<folder, base, index, head, work, host>>

Refused == {"secret", "vulnerable"}
Content == {"absent", "good"} \cup Refused
Tree == [File -> Content]
NoTree == [f \in {} |-> "absent"]
Empty == [f \in File |-> "absent"]

WorkspaceType ==
  /\ folder \in {"none", "clone", "plain"}
  /\ {base, index, head, work} \subseteq Tree /\ host \in Tree \cup {NoTree}

(* create_workspace: a clone with a branch of its own.  A repository may   *)
(* be empty, as the scratch workspace is.                                  *)
Cloned ==
  /\ folder = "clone" /\ base \in [File -> {"absent", "good"}]
  /\ index = base /\ head = base /\ work = base /\ host = NoTree

-----------------------------------------------------------------------------
(* git diff base_sha compares the disk with the first commit, for files    *)
(* the index knows: a file that was never added is not in it, and one that *)
(* left the index counts as removed.                                       *)
Shown == [f \in File |-> IF index[f] = "absent" THEN "absent" ELSE work[f]]

(* What the diff adds to a file. *)
Added(f, c) == Shown[f] = c /\ base[f] # c

(* scan_diff of the two scanners. *)
Leaks == {f \in File : Added(f, "secret")}
Vulnerable == {f \in File : Added(f, "vulnerable")}

(* git status --porcelain prints something. *)
Changed == index # head \/ work # index

(* write_file and write_run_file make the folders on the way. *)
WriteFile(f, c) ==
  /\ folder' = IF folder = "none" THEN "plain" ELSE folder
  /\ work' = [work EXCEPT ![f] = c]
  /\ UNCHANGED <<base, index, head, host>>

(* apply_patch is checked before it is applied: all of it, or an error and *)
(* no change.  Unlike write_file it can remove a file.                     *)
Patch(new) == work' = new /\ UNCHANGED <<folder, base, index, head, host>>

(* git add -A *)
StageAll == index' = work /\ UNCHANGED <<folder, base, head, work, host>>

(* git commit: an error if the index holds what the last commit holds. *)
CommitIndex == index # head /\ head' = index /\ UNCHANGED <<folder, base, index, work, host>>

(* push_branch: the branch, not the files on disk. *)
Push == host' = head /\ UNCHANGED <<folder, base, index, head, work>>

(* remove_workspace; nothing of a clone is left. *)
Remove ==
  /\ folder' = "none" /\ work' = Empty /\ index' = Empty /\ head' = Empty
  /\ UNCHANGED <<base, host>>
=============================================================================
