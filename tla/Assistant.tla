---------------------------- MODULE Assistant ----------------------------
(***************************************************************************)
(* The team's memory and the conversations that draw on it: a question     *)
(* about the repository is answered with the memories that recall_memories *)
(* finds for it (knowledge/recall.py, api/chat.py).                        *)
(***************************************************************************)
EXTENDS TeamMemory, Chat

CONSTANTS
  RecallLimit, \* RECALL_LIMIT memories join the context
  MaxWork      \* coroutines, requests and interferences of one behaviour (bounds the model)

ASSUME RecallAssumption == RecallLimit \in Nat

VARIABLES
  recalled,    \* ids of the memories each request sends
  known,       \* ids of the memories that were stored when it began
  interfered   \* interferences so far

assistantVars == <<memoryVars, chatVars, recalled, known, interfered>>

AssistantInit ==
  /\ MemoryInit /\ ChatInit
  /\ recalled = [r \in Request |-> {}] /\ known = [r \in Request |-> {}]
  /\ interfered = 0

(* Room for one more coroutine, request or interference. *)
HasRoom ==
  Cardinality({c \in Coroutine : job[c] # "idle"})
    + Cardinality({r \in Request : ~Is(r, "idle")}) + interfered < MaxWork

(* The best memories are as many as there are, up to the limit: the vector *)
(* arm ranks every memory; which are best depends on the question.         *)
Recalls(memories) ==
  LET ids == {m.id : m \in memories}
      limit == IF Cardinality(ids) < RecallLimit THEN Cardinality(ids) ELSE RecallLimit
  IN {S \in SUBSET ids : Cardinality(S) = limit}

Captures ==
  /\ \/ JobStep
     \/ HasRoom /\ \E c \in Coroutine : Works(c)
  /\ UNCHANGED <<chatVars, recalled, known, interfered>>

Interruption ==
  /\ HasRoom /\ interfered' = interfered + 1
  /\ \/ Interferes /\ UNCHANGED chatVars
     \/ DeleteConversation /\ UNCHANGED memoryVars
  /\ UNCHANGED <<recalled, known>>

Asks(r) ==
  /\ HasRoom /\ Begin(r)
  /\ known' = [known EXCEPT ![r] = {m.id : m \in memory}]
  /\ UNCHANGED <<memoryVars, recalled, interfered>>

(* The question names the repository, which Abandon stands for when it is  *)
(* not there; one that names none recalls nothing.                         *)
Reads(r) ==
  /\ connected /\ Gather(r)
  /\ \E S \in Recalls(memory) : recalled' = [recalled EXCEPT ![r] = S]
  /\ UNCHANGED <<memoryVars, known, interfered>>

Answers == RequestStep /\ UNCHANGED <<memoryVars, recalled, known, interfered>>

AssistantNext ==
  \/ Captures \/ Interruption \/ Answers
  \/ \E r \in Request : Asks(r) \/ Reads(r)

AssistantSpec == AssistantInit /\ [][AssistantNext]_assistantVars

-----------------------------------------------------------------------------
AssistantTypeOK == MemoryTypeOK /\ ChatTypeOK

(* What was remembered before a question was asked reaches its answer,     *)
(* unless it was removed or crowded out - also after its run was deleted.  *)
Informed ==
  \A r \in Request : Sent(r) # <<>> =>
    known[r] \subseteq recalled[r] \cup past.forgotten
      \/ Cardinality(recalled[r]) = RecallLimit

(* What a run leaves behind is kept once, told, and found again.           *)
OutcomeIsKept == RememberedOnce /\ Told /\ Informed
=============================================================================
