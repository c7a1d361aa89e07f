---------------------------- MODULE TeamMemory ----------------------------
(***************************************************************************)
(* What one run leaves behind when it ends: a decision and an outcome in   *)
(* the repository's memory (knowledge/capture.py), and a message to the    *)
(* team's Slack channel (integrations/notify.py).  The coroutines that     *)
(* work on the run look after both when they return; several do, because   *)
(* planning and execution are separate coroutines and a queued job can be  *)
(* delivered again.  People write and delete memories meanwhile, reject    *)
(* the plan, delete the run, and disconnect the repository.                *)
(***************************************************************************)
EXTENDS Naturals, FiniteSets

CONSTANTS
  Coroutine,  \* coroutines that work on the run
  MaxItems    \* memories stored (bounds the model)

ASSUME MemoryAssumption == IsFiniteSet(Coroutine) /\ MaxItems \in Nat

Ended == {"completed", "failed"}
RunStatus == Ended \cup {"active", "cancelled", "deleted"}
Kind == {"decision", "outcome", "preference", "note"}
Phase == {"idle", "working", "returned", "capturing", "captured", "posting",
          "recording", "done"}

VARIABLES
  run,        \* status of the run; active is every status before the end
  connected,  \* the repository is connected
  memory,     \* its knowledge items
  items,      \* items stored so far
  job,        \* where each coroutine is
  found,      \* the status a coroutine captures
  slack,      \* the owner has a Slack connection that is enabled and decrypts
  messages,   \* messages the channel received
  notices,    \* integration.notified events of the run
  past        \* what happened: excuses and witnesses of the properties

memoryVars == <<run, connected, memory, items, job, found, slack, messages,
                notices, past>>

Item == [id : 1 .. MaxItems, kind : Kind, says : RunStatus, linked : BOOLEAN]
(* lost: a capture was cut short, failed, or its memory was removed;       *)
(* untold: the same of a message; overlapped: two captures looked before   *)
(* one of them stored; visits: coroutines that had an end to tell;          *)
(* forgotten: memories that were removed.                                  *)
Past == [lost : BOOLEAN, untold : BOOLEAN, overlapped : BOOLEAN,
         visits : Nat, forgotten : SUBSET (1 .. MaxItems)]

MemoryTypeOK ==
  /\ run \in RunStatus /\ connected \in BOOLEAN /\ slack \in BOOLEAN
  /\ memory \subseteq Item /\ items \in 0 .. MaxItems
  /\ job \in [Coroutine -> Phase] /\ found \in [Coroutine -> RunStatus]
  /\ messages \in Nat /\ notices \in Nat /\ past \in Past

MemoryInit ==
  /\ run = "active" /\ connected = TRUE /\ memory = {} /\ items = 0
  /\ job = [c \in Coroutine |-> "idle"] /\ found = [c \in Coroutine |-> "active"]
  /\ slack \in BOOLEAN /\ messages = 0 /\ notices = 0
  /\ past = [lost |-> FALSE, untold |-> FALSE, overlapped |-> FALSE,
             visits |-> 0, forgotten |-> {}]

-----------------------------------------------------------------------------
(* The items that name the run. *)
OfRun(kind) == {m \in memory : m.linked /\ m.kind = kind}

NewItem(id, kind, says, linked) ==
  [id |-> id, kind |-> kind, says |-> says, linked |-> linked]

Goes(c, phase) == job' = [job EXCEPT ![c] = phase]

(* A coroutine is dispatched, also again by the queue or after a restart. *)
Works(c) ==
  /\ job[c] = "idle" /\ Goes(c, "working")
  /\ UNCHANGED <<run, connected, memory, items, found, slack, messages, notices, past>>

(* Its work ends the run. *)
Finishes(c) ==
  /\ job[c] = "working" /\ run = "active"
  /\ run' \in Ended /\ Goes(c, "returned")
  /\ UNCHANGED <<connected, memory, items, found, slack, messages, notices, past>>

(* Its work returns without an end: the plan waits for approval, or the    *)
(* run was not in a status to work on.                                     *)
Returns(c) ==
  /\ job[c] = "working" /\ Goes(c, "returned")
  /\ UNCHANGED <<run, connected, memory, items, found, slack, messages, notices, past>>

(* (mutant) A capture does not ask for an earlier one. *)
Unremembered_Always == TRUE

Unremembered == OfRun("outcome") = {}

(* capture_run_memory, up to the embedding calls. *)
Look(c) ==
  /\ job[c] = "returned"
  /\ LET captures == run \in Ended /\ connected /\ Unremembered IN
     /\ Goes(c, IF captures THEN "capturing" ELSE "captured")
     /\ found' = [found EXCEPT ![c] = IF captures THEN run ELSE @]
     /\ past' = [past EXCEPT
          !.overlapped = @ \/ (captures /\ \E d \in Coroutine : job[d] = "capturing")]
  /\ UNCHANGED <<run, connected, memory, items, slack, messages, notices>>

(* The database or an embedding call fails, or the commit meets a          *)
(* repository or run that is gone: logged and swallowed.                   *)
CaptureFails(c) ==
  /\ job[c] \in {"returned", "capturing"} /\ Goes(c, "captured")
  /\ found' = [found EXCEPT ![c] = "active"]
  /\ past' = [past EXCEPT !.lost = @ \/ run \in Ended]
  /\ UNCHANGED <<run, connected, memory, items, slack, messages, notices>>

(* Decision and outcome are committed together; the plan of a completed    *)
(* run is taken to have a summary, which is what the decision says.        *)
Remember(c) ==
  /\ job[c] = "capturing" /\ run # "deleted" /\ connected
  /\ LET decided == IF found[c] = "completed" THEN 1 ELSE 0 IN
     /\ items + decided < MaxItems
     /\ items' = items + decided + 1
     /\ memory' = memory
          \cup {NewItem(items + 1, "decision", found[c], TRUE) : i \in 1 .. decided}
          \cup {NewItem(items + decided + 1, "outcome", found[c], TRUE)}
  /\ Goes(c, "captured") /\ found' = [found EXCEPT ![c] = "active"]
  /\ UNCHANGED <<run, connected, slack, messages, notices, past>>

(* notify_run_outcome: nothing to tell, or nobody to tell it to. *)
LookAgain(c) ==
  /\ job[c] = "captured"
  /\ Goes(c, IF run \in Ended /\ slack THEN "posting" ELSE "done")
  /\ past' = [past EXCEPT !.visits = @ + IF run \in Ended THEN 1 ELSE 0]
  /\ UNCHANGED <<run, connected, memory, items, found, slack, messages, notices>>

(* The post succeeds or fails; a post that timed out may have arrived. *)
Post(c) ==
  /\ job[c] = "posting" /\ Goes(c, "recording")
  /\ messages' \in {messages, messages + 1}
  /\ UNCHANGED <<run, connected, memory, items, found, slack, notices, past>>

(* The event is committed whether the post succeeded or raised SlackError, *)
(* unless the run was deleted.                                             *)
Record(c) ==
  /\ job[c] = "recording" /\ Goes(c, "done")
  /\ notices' = notices + IF run = "deleted" THEN 0 ELSE 1
  /\ UNCHANGED <<run, connected, memory, items, found, slack, messages, past>>

(* The read, a post that raises anything else, or the commit of the event  *)
(* fails: logged and swallowed, and no event tells of it.                  *)
NotifyFails(c) ==
  /\ job[c] \in {"captured", "posting", "recording"} /\ Goes(c, "done")
  /\ past' = [past EXCEPT !.untold = @ \/ run \in Ended]
  /\ UNCHANGED <<run, connected, memory, items, found, slack, messages, notices>>

-----------------------------------------------------------------------------
(* A person rejects the plan: the preference is stored with it unless its  *)
(* embedding fails.                                                        *)
Reject ==
  /\ run = "active" /\ run' = "cancelled"
  /\ \/ UNCHANGED <<memory, items>>
     \/ /\ items < MaxItems /\ items' = items + 1
        /\ memory' = memory \cup {NewItem(items + 1, "preference", "cancelled", TRUE)}
  /\ UNCHANGED <<connected, job, found, slack, messages, notices, past>>

(* create_knowledge: any kind, also an outcome, but never tied to a run. *)
WriteItem ==
  /\ connected /\ items < MaxItems /\ items' = items + 1
  /\ memory' = memory \cup {NewItem(items + 1, "outcome", "active", FALSE)}
  /\ UNCHANGED <<run, connected, job, found, slack, messages, notices, past>>

DeleteItem ==
  /\ \E m \in memory :
       /\ memory' = memory \ {m}
       /\ past' = [past EXCEPT !.lost = @ \/ m.linked, !.forgotten = @ \cup {m.id}]
  /\ UNCHANGED <<run, connected, items, job, found, slack, messages, notices>>

(* delete_run: refused while it works; its memories stay, without the run. *)
DeleteRun ==
  /\ run # "deleted"
  /\ run = "active" => \A c \in Coroutine : job[c] # "working"
  /\ run' = "deleted"
  /\ memory' = {[m EXCEPT !.linked = FALSE] : m \in memory}
  /\ UNCHANGED <<connected, items, job, found, slack, messages, notices, past>>

(* disconnect_repository: refused while the run is active; the memory goes. *)
Disconnect ==
  /\ connected /\ run # "active"
  /\ connected' = FALSE /\ memory' = {}
  /\ past' = [past EXCEPT !.lost = TRUE, !.forgotten = @ \cup {m.id : m \in memory}]
  /\ UNCHANGED <<run, items, job, found, slack, messages, notices>>

(* set_integration and delete_integration. *)
SetSlack ==
  /\ slack' = ~slack /\ past' = [past EXCEPT !.untold = TRUE]
  /\ UNCHANGED <<run, connected, memory, items, job, found, messages, notices>>

(* The process ends; coroutines that had not returned are started again    *)
(* (Works), what the others still had to do is nobody's.                   *)
EngineRestarts ==
  LET Cut(phases) == run \in Ended /\ \E c \in Coroutine : job[c] \in phases IN
  /\ \E c \in Coroutine : job[c] \notin {"idle", "done"}
  /\ job' = [c \in Coroutine |-> IF job[c] = "working" THEN "idle"
                                 ELSE IF job[c] = "idle" THEN "idle" ELSE "done"]
  /\ past' = [past EXCEPT
       !.lost = @ \/ Cut({"returned", "capturing"}),
       !.untold = @ \/ Cut(Phase \ {"idle", "working", "done"})]
  /\ UNCHANGED <<run, connected, memory, items, found, slack, messages, notices>>

JobStep ==
  \E c \in Coroutine :
    \/ Finishes(c) \/ Returns(c) \/ Look(c) \/ CaptureFails(c) \/ Remember(c)
    \/ LookAgain(c) \/ Post(c) \/ Record(c) \/ NotifyFails(c)

(* What comes from outside. *)
Interferes ==
  \/ Reject \/ WriteItem \/ DeleteItem \/ DeleteRun \/ Disconnect \/ SetSlack
  \/ EngineRestarts

-----------------------------------------------------------------------------
Settled == run \in Ended /\ \A c \in Coroutine : job[c] \in {"idle", "done"}

(* Once the coroutines are gone, a run that ended is remembered with how   *)
(* it ended, and with a decision exactly if it completed; it is remembered *)
(* twice only if two captures ran at once, its decision also if a person   *)
(* removed the outcome in between (capture.py asks for the outcome only).  *)
RememberedOnce ==
  /\ Settled /\ ~past.lost =>
       /\ \E m \in OfRun("outcome") : m.says = run
       /\ (OfRun("decision") # {}) <=> (run = "completed")
  /\ ~past.overlapped =>
       /\ Cardinality(OfRun("outcome")) <= 1
       /\ past.forgotten = {} => Cardinality(OfRun("decision")) <= 1
  /\ run = "cancelled" => OfRun("outcome") = {}

(* With a connection there is an event of the message unless telling was   *)
(* cut short or failed with more than a SlackError, and a further event or *)
(* message only for a further coroutine that came by after the end.        *)
Told ==
  /\ Settled /\ ~past.untold =>
       (slack => notices \in 1 .. past.visits) /\ (~slack => notices = 0)
  /\ messages <= past.visits
=============================================================================
