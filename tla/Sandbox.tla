------------------------------ MODULE Sandbox ------------------------------
(***************************************************************************)
(* The two containers of a run (sandbox/runner.py, sandbox/terminal.py):   *)
(* the one its tests run in, and the terminal's session.  Each has a name  *)
(* made from the run's id, so there is at most one of each.                *)
(***************************************************************************)
EXTENDS Workspace

VARIABLES
  box,      \* the sandbox: the tree copied into it, and whether it has a network
  session   \* the terminal's container: whether it has files, its age, and whether
            \* it is one that nobody answers for

boxVars == <<box, session>>

NoBox == [up |-> FALSE, net |-> FALSE, copy |-> NoTree]
NoSession == [up |-> FALSE, files |-> FALSE, old |-> FALSE, stray |-> FALSE]
NewSession == [up |-> TRUE, files |-> FALSE, old |-> FALSE, stray |-> FALSE]

(* It is there because docker run timed out or the engine stopped, or      *)
(* still there because docker rm failed.                                   *)
Stray(s) == [s EXCEPT !.stray = TRUE]

Session == [up : BOOLEAN, files : BOOLEAN, old : BOOLEAN, stray : BOOLEAN]

SandboxType ==
  /\ box \in [up : BOOLEAN, net : BOOLEAN, copy : Tree \cup {NoTree}]
  /\ session \in Session

NoContainers == box = NoBox /\ session = NoSession

-----------------------------------------------------------------------------
(* _execute, one docker call after the other.  docker run is refused while *)
(* a container of that name exists, which an engine that stopped may have  *)
(* left.                                                                   *)
StartBox ==
  /\ ~box.up /\ box' = [up |-> TRUE, net |-> TRUE, copy |-> NoTree]
  /\ UNCHANGED session
CopyIn == box' = [box EXCEPT !.copy = work] /\ UNCHANGED session
Unplug == box' = [box EXCEPT !.net = FALSE] /\ UNCHANGED session

(* run_sandbox's finally, whatever happened before: docker rm -f, whose    *)
(* failure nobody notices.                                                 *)
RemoveBox == box' \in {box, NoBox} /\ UNCHANGED session

-----------------------------------------------------------------------------
(* _session_age against SESSION_TTL_SECONDS: a session that is not there,  *)
(* or too old, is not used.                                                *)
Usable == session.up /\ ~session.old

(* docker rm -f, whose result is ignored: the container may stay, or go    *)
(* only after the call gave up waiting.                                    *)
RemoveSession ==
  /\ session' = NoSession \/ (session.up /\ session' = Stray(session))
  /\ UNCHANGED box
RemovedLate == session.stray /\ session' = NoSession /\ UNCHANGED box

(* docker run in _start_session. *)
StartSession == ~session.up /\ session' = NewSession /\ UNCHANGED box

(* docker run gives up waiting; the daemon makes the container anyway. *)
StartTimesOut == ~session.up /\ session' = Stray(NewSession) /\ UNCHANGED box

(* docker cp into whatever container has the name now. *)
CopyToSession ==
  /\ session.up /\ session' = [session EXCEPT !.files = TRUE]
  /\ UNCHANGED box

(* SESSION_TTL_SECONDS pass. *)
SessionAges ==
  /\ session.up /\ ~session.old /\ session' = [session EXCEPT !.old = TRUE]
  /\ UNCHANGED box
=============================================================================
