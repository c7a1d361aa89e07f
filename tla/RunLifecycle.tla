---------------------------- MODULE RunLifecycle ----------------------------
(***************************************************************************)
(* What the status of a run promises (db/enums.py RunStatus and the state  *)
(* table of RUN_RECOVERY.md): the steps a run's row may take, whoever      *)
(* takes them.  InlineRuns implements it.                                  *)
(***************************************************************************)
VARIABLE run

Active   == {"queued", "planning", "executing", "reviewing"}
Terminal == {"completed", "failed", "cancelled"}

Init == run = "none"

Goto(from, to) == run \in from /\ run' = to

Create   == Goto({"none"}, "queued")
Plan     == Goto({"queued"}, "planning")
Propose  == Goto({"planning"}, "awaiting_approval")
Approve  == Goto({"awaiting_approval"}, "executing")
Reject   == Goto({"awaiting_approval"}, "cancelled")
Review   == Goto({"executing"}, "reviewing")
Complete == Goto({"reviewing"}, "completed")
Fail     == Goto(Active, "failed")

\* A restart: planning starts over, execution goes back to its board.
Replan == Goto({"planning"}, "queued")
Resume == Goto({"reviewing"}, "executing")

\* A run is deleted once its plan was proposed or it has ended; the check and
\* the deletion are two steps, so it may have been approved in between.
Delete == Goto({"awaiting_approval", "executing", "reviewing"} \cup Terminal, "deleted")

Next == \/ Create \/ Plan \/ Propose \/ Approve \/ Reject \/ Review \/ Complete
        \/ Fail \/ Replan \/ Resume \/ Delete

Spec == Init /\ [][Next]_run
=============================================================================
