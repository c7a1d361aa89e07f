------------------------------- MODULE Chat -------------------------------
(***************************************************************************)
(* Questions asked in one conversation (api/chat.py): a request stores the *)
(* question and gathers the history in one transaction, streams the        *)
(* model's answer outside any, and stores the answer in a second one.      *)
(* Requests of the same conversation overlap, the conversation can be      *)
(* deleted under them, the model can refuse to open the stream or break    *)
(* it, and the client can go away.                                         *)
(*                                                                         *)
(* A message's created_at is the start of its transaction (now() in        *)
(* PostgreSQL), not the commit: the clock ticks when a transaction starts. *)
(***************************************************************************)
EXTENDS Integers, Sequences, FiniteSets, Functions

CONSTANTS
  Request,         \* chat requests
  HistoryLimit,    \* HISTORY_LIMIT messages are sent to the model
  MaxTokens,       \* length of an answer (bounds the model)
  RateLimitRetries, TransientRetries  \* lengths of RATE_LIMIT_DELAYS_S, TRANSIENT_DELAYS_S

ASSUME ChatAssumption ==
  /\ HistoryLimit \in Nat /\ MaxTokens \in Nat
  /\ RateLimitRetries \in Nat /\ TransientRetries \in Nat

VARIABLES
  conversation,    \* unused, being created, live or deleted
  stored,          \* its committed messages
  clock,           \* transactions started
  request          \* the requests

chatVars == <<conversation, stored, clock, request>>

NewRequest ==
  [phase |-> "idle", creates |-> FALSE, at |-> 0, seen |-> {}, history |-> <<>>,
   limited |-> 0, flaky |-> 0, shown |-> 0, full |-> 0]

ChatInit ==
  /\ conversation = "unused" /\ stored = {} /\ clock = 0
  /\ request = [r \in Request |-> NewRequest]

Message == [by : Request, role : {"user", "assistant"}, at : Nat, size : Nat]
Asked ==
  [phase : {"idle", "begun", "gathered", "opening", "streaming", "storing", "done", "failed"},
   creates : BOOLEAN, at : Nat, seen : SUBSET Message, history : Seq(Message),
   limited : 0 .. RateLimitRetries, flaky : 0 .. TransientRetries,
   shown : 0 .. MaxTokens, full : 0 .. MaxTokens]

ChatTypeOK ==
  /\ conversation \in {"unused", "creating", "live", "deleted"}
  /\ clock \in Nat /\ stored \subseteq Message /\ request \in [Request -> Asked]

-----------------------------------------------------------------------------
Is(r, phase) == request[r].phase = phase
Moves(r, phase) == request' = [request EXCEPT ![r].phase = phase]
Question(r) == [by |-> r, role |-> "user", at |-> request[r].at, size |-> 0]
Earlier(m, n) == m.at < n.at

(* As many of the messages as may be sent, oldest first; messages of the   *)
(* same time come in any order.                                            *)
Ordered(messages) ==
  LET size == Cardinality(messages)
      sent == 1 .. IF size < HistoryLimit THEN size ELSE HistoryLimit
  IN  {h \in [sent -> messages] :
         \A i, j \in sent : i < j => h[i] # h[j] /\ ~Earlier(h[j], h[i])}

(* (mutant) The oldest messages are sent. *)
History_Oldest(r) ==
  LET all == stored \cup {Question(r)} IN
  {h \in Ordered(all) : \A m \in all \ Range(h), i \in DOMAIN h : ~Earlier(m, h[i])}

(* The newest messages the transaction sees. *)
History(r) ==
  LET all == stored \cup {Question(r)} IN
  {h \in Ordered(all) : \A m \in all \ Range(h), i \in DOMAIN h : ~Earlier(h[i], m)}

(* The first transaction starts, in a conversation the user has or in a    *)
(* new one.  (One that is deleted or another's is a 404.)                  *)
Begin(r) ==
  /\ Is(r, "idle") /\ conversation \in {"unused", "live"}
  /\ clock' = clock + 1
  /\ request' = [request EXCEPT ![r].phase = "begun", ![r].at = clock + 1,
                   ![r].creates = conversation = "unused", ![r].seen = stored]
  /\ conversation' = IF conversation = "unused" THEN "creating" ELSE "live"
  /\ UNCHANGED stored

(* The embedding call of the grounding fails, the repository is not there, *)
(* or the conversation is gone when the message is inserted: all is rolled *)
(* back.                                                                   *)
Abandon(r) ==
  /\ Is(r, "begun") /\ Moves(r, "failed")
  /\ conversation' = IF request[r].creates THEN "unused" ELSE conversation
  /\ UNCHANGED <<stored, clock>>

(* The question is inserted and the history read.  From here to the commit *)
(* the foreign key holds the conversation.                                 *)
Gather(r) ==
  /\ Is(r, "begun") /\ (request[r].creates \/ conversation = "live")
  /\ \E h \in History(r) :
       request' = [request EXCEPT ![r].phase = "gathered", ![r].history = h]
  /\ UNCHANGED <<conversation, stored, clock>>

Commit(r) ==
  /\ Is(r, "gathered") /\ Moves(r, "opening")
  /\ stored' = stored \cup {Question(r)}
  /\ conversation' = IF request[r].creates THEN "live" ELSE conversation
  /\ UNCHANGED clock

(* _call_with_retries around the call that opens the stream: a budget for  *)
(* each class of failure.                                                  *)
RateLimited(r) ==
  /\ Is(r, "opening")
  /\ IF request[r].limited < RateLimitRetries
     THEN request' = [request EXCEPT ![r].limited = @ + 1]
     ELSE Moves(r, "failed")
  /\ UNCHANGED <<conversation, stored, clock>>

Transient(r) ==
  /\ Is(r, "opening")
  /\ IF request[r].flaky < TransientRetries
     THEN request' = [request EXCEPT ![r].flaky = @ + 1]
     ELSE Moves(r, "failed")
  /\ UNCHANGED <<conversation, stored, clock>>

(* The model will answer with some number of tokens. *)
Open(r) ==
  /\ Is(r, "opening")
  /\ \E n \in 0 .. MaxTokens :
       request' = [request EXCEPT ![r].phase = "streaming", ![r].full = n,
                     ![r].limited = 0, ![r].flaky = 0]
  /\ UNCHANGED <<conversation, stored, clock>>

Token(r) ==
  /\ Is(r, "streaming") /\ request[r].shown < request[r].full
  /\ request' = [request EXCEPT ![r].shown = @ + 1]
  /\ UNCHANGED <<conversation, stored, clock>>

(* (mutant) After the error event the parts that came are stored. *)
Break_Stores(r) ==
  /\ Is(r, "opening") \/ Is(r, "streaming")
  /\ clock' = clock + 1
  /\ request' = [request EXCEPT ![r].phase = "storing", ![r].at = clock + 1]
  /\ UNCHANGED <<conversation, stored>>

(* The call fails for good, or the stream breaks: an error event, and      *)
(* nothing is stored.                                                      *)
Break(r) ==
  /\ Is(r, "opening") \/ Is(r, "streaming")
  /\ Moves(r, "failed")
  /\ UNCHANGED <<conversation, stored, clock>>

(* The client goes away, or the process ends. *)
Leave(r) ==
  /\ request[r].phase \in {"opening", "streaming", "storing"} /\ Moves(r, "failed")
  /\ UNCHANGED <<conversation, stored, clock>>

(* The stream is over; the second transaction starts. *)
Finish(r) ==
  /\ Is(r, "streaming") /\ request[r].shown = request[r].full
  /\ clock' = clock + 1
  /\ request' = [request EXCEPT ![r].phase = "storing", ![r].at = clock + 1]
  /\ UNCHANGED <<conversation, stored>>

(* The answer is stored; without the conversation the insert fails and the *)
(* stream ends without its done event.                                     *)
Store(r) ==
  /\ Is(r, "storing")
  /\ IF conversation = "live"
     THEN /\ stored' = stored \cup {[by |-> r, role |-> "assistant", at |-> request[r].at,
                                     size |-> request[r].shown]}
          /\ Moves(r, "done")
     ELSE UNCHANGED stored /\ Moves(r, "failed")
  /\ UNCHANGED <<conversation, clock>>

(* delete_conversation: its messages go with it; it waits for a question   *)
(* that is inserted and not committed.                                     *)
DeleteConversation ==
  /\ conversation = "live"
  /\ \A r \in Request : ~Is(r, "gathered")
  /\ conversation' = "deleted" /\ stored' = {}
  /\ UNCHANGED <<clock, request>>

RequestStep ==
  \E r \in Request :
    \/ Abandon(r) \/ Commit(r) \/ RateLimited(r) \/ Transient(r) \/ Open(r)
    \/ Token(r) \/ Break(r) \/ Leave(r) \/ Finish(r) \/ Store(r)

-----------------------------------------------------------------------------
Sent(r) == request[r].history

(* The model is sent the question after everything that was said before it *)
(* was asked; messages follow it only if they were committed while it was  *)
(* being prepared, and only a whole history of those can push it out.  No  *)
(* answer comes before its question.                                       *)
QuestionComesLast ==
  \A r \in Request : Sent(r) # <<>> =>
    /\ \/ \E i \in DOMAIN Sent(r) :
            /\ Sent(r)[i].by = r /\ Sent(r)[i].role = "user"
            /\ \A j \in DOMAIN Sent(r) : j > i => Sent(r)[j] \notin request[r].seen
       \/ Range(Sent(r)) \cap request[r].seen = {} /\ Len(Sent(r)) = HistoryLimit
    /\ \A i, j \in DOMAIN Sent(r) :
         Sent(r)[i].by = Sent(r)[j].by /\ Sent(r)[i].role = "user"
           /\ Sent(r)[j].role = "assistant" => i < j

(* A stored answer is the whole answer, as the client saw it, and each     *)
(* request stores one at most, after its question.                         *)
AnswersAreWhole ==
  \A m \in stored : m.role = "assistant" =>
    /\ m.size = request[m.by].full
    /\ \E q \in stored : q.by = m.by /\ q.role = "user" /\ q.at < m.at
    /\ \A n \in stored : n.by = m.by /\ n.role = "assistant" => n = m
=============================================================================
