---------------------------- MODULE EventStream ----------------------------
(***************************************************************************)
(* The timeline of one run: transactions append to agent_events, whose     *)
(* identity column hands out ids when a row is inserted, not when it is    *)
(* committed; the stream endpoint reads past a cursor and pushes to the    *)
(* page; the page reconnects with the last id it received and falls back   *)
(* to polling (api/runs.py, events/bus.py, run-detail-panel.tsx).          *)
(*                                                                         *)
(* Redis pings have no state here: a waiting stream wakes up after a ping  *)
(* or after its heartbeat, and does the same in both cases.                *)
(***************************************************************************)
EXTENDS Integers, FiniteSets

CONSTANTS
  Writer,     \* transactions that may be open at once: the runner's and requests'
  Runner,     \* the writer that ends the run
  BatchSize,  \* _STREAM_BATCH, and the limit of the polling endpoint
  MaxEvents,  \* events of the run (bounds the model)
  MaxDrops    \* lost connections and requests (bounds the model)

ASSUME StreamAssumption ==
  /\ Runner \in Writer
  /\ BatchSize \in Nat \ {0} /\ MaxEvents \in Nat /\ MaxDrops \in Nat

Id == 1 .. MaxEvents

VARIABLES
  last,       \* the identity column's last value
  open,       \* inserted and uncommitted events of each writer
  committed,  \* events that were committed: readers see them as long as the run exists
  overtaken,  \* events that were committed after an event with a higher id
  ended,      \* the run is in a terminal status
  final,      \* events committed when it got there
  deleted,    \* the run's row is gone, and its events with it
  server,     \* the stream: its cursor, where it is, and the status it has read
  sent,       \* pushed and not yet received; "end" is received last
  ending,     \* the end event is on the way
  page,       \* "connecting", "streaming", "polling", "done", or "stopped"
  cursor,     \* cursorRef: the last id on the page
  times,      \* how often the page shows each event
  poll,       \* the answers of a polling round
  drops

table    == <<last, open, committed, overtaken, ended, final, deleted>>
endpoint == <<server, sent, ending>>
browser  == <<page, cursor, times, poll>>
vars     == <<table, endpoint, browser, drops>>

Closed   == [at |-> "closed", cursor |-> 0, ended |-> FALSE]
Idle     == [run |-> "none", events |-> "none", rows |-> {}]
Asked    == [run |-> "asked", events |-> "asked", rows |-> {}]

TypeOK ==
  /\ last \in 0 .. MaxEvents /\ open \in [Writer -> SUBSET Id]
  /\ committed \in SUBSET Id /\ overtaken \in SUBSET committed
  /\ ended \in BOOLEAN /\ final \in SUBSET committed /\ deleted \in BOOLEAN
  /\ server \in [at : {"closed", "status", "events", "wait"}, cursor : 0 .. MaxEvents,
                 ended : BOOLEAN]
  /\ sent \in SUBSET Id /\ ending \in BOOLEAN
  /\ page \in {"connecting", "streaming", "polling", "done", "stopped"}
  /\ cursor \in 0 .. MaxEvents /\ times \in [Id -> Nat]
  /\ poll \in [run : {"none", "asked", "live", "ended"},
               events : {"none", "asked", "answered"}, rows : SUBSET Id]
  /\ drops \in 0 .. MaxDrops

Init ==
  /\ last = 0 /\ open = [w \in Writer |-> {}]
  /\ committed = {} /\ overtaken = {} /\ ended = FALSE /\ final = {}
  /\ deleted = FALSE
  /\ server = Closed /\ sent = {} /\ ending = FALSE
  /\ page = "connecting" /\ cursor = 0 /\ times = [e \in Id |-> 0]
  /\ poll = Idle /\ drops = 0

-----------------------------------------------------------------------------
(* Writers.                                                                *)

\* The row is inserted: its id is taken.  It refers to the run.
Emit(w) ==
  /\ ~deleted /\ last < MaxEvents /\ last' = last + 1
  /\ open' = [open EXCEPT ![w] = @ \cup {last + 1}]
  /\ UNCHANGED <<committed, overtaken, ended, final, deleted, endpoint, browser, drops>>

\* The transaction commits; the run's last status is committed with its last events.
\* Some events follow it (integration.notified, branch.pushed).
Commit(w, ends) ==
  /\ open[w] # {}
  /\ (ends => w = Runner /\ ~ended)
  /\ committed' = committed \cup open[w]
  /\ overtaken' = overtaken \cup {e \in open[w] : \E f \in committed : f > e}
  /\ ended' = (ended \/ ends)
  /\ final' = IF ends THEN committed' ELSE final
  /\ open' = [open EXCEPT ![w] = {}]
  /\ UNCHANGED <<last, deleted, endpoint, browser, drops>>

\* A transaction that is rolled back leaves a gap in the ids.
Rollback(w) ==
  /\ open[w] # {} /\ open' = [open EXCEPT ![w] = {}]
  /\ UNCHANGED <<last, committed, overtaken, ended, final, deleted, endpoint, browser, drops>>

\* delete_run, for a run that has ended or waits for approval: its events go with it.  The
\* database lets it wait for the transactions that have inserted some.
Delete ==
  /\ ~deleted /\ deleted' = TRUE
  /\ \A w \in Writer : open[w] = {}
  /\ UNCHANGED <<last, open, committed, overtaken, ended, final, endpoint, browser, drops>>

Write(w) == Emit(w) \/ (\E ends \in BOOLEAN : Commit(w, ends)) \/ Rollback(w)

-----------------------------------------------------------------------------
(* The stream endpoint.                                                    *)

Past_From(c) == {e \in committed : ~deleted /\ e >= c}   \* (mutant) the cursor's row is read again
Past(c) == {e \in committed : ~deleted /\ e > c}

Top(S, c) == IF S = {} THEN c ELSE CHOOSE e \in S : \A f \in S : f <= e

\* The rows past the cursor, in the order of their ids, up to the limit.
Batch_AnyOrder(c) ==   \* (mutant) the query has no ORDER BY
  IF Cardinality(Past(c)) <= BatchSize THEN Past(c)
  ELSE CHOOSE S \in SUBSET Past(c) : Cardinality(S) = BatchSize /\ Top(Past(c), c) \in S
Batch(c) == {e \in Past(c) : Cardinality({f \in Past(c) : f <= e}) <= BatchSize}

\* (mutant) the status is read when the stream starts, and never again
ReadStatus_Once ==
  /\ server.at = "status" /\ server' = [server EXCEPT !.at = "events"]
  /\ UNCHANGED <<table, sent, ending, browser, drops>>

\* One drain, in one session: the run's status is read before the events.  A run that is
\* gone counts as failed.
ReadStatus ==
  /\ server.at = "status"
  /\ server' = [server EXCEPT !.at = "events", !.ended = ended \/ deleted]
  /\ UNCHANGED <<table, sent, ending, browser, drops>>

Finished_AnyBatch(batch) == server.ended   \* (mutant) a full batch may end the stream
Finished(batch) == Cardinality(batch) < BatchSize /\ server.ended

\* The events are pushed, and the end event when the backlog is drained.
Drain ==
  /\ server.at = "events"
  /\ LET batch == Batch(server.cursor) IN
       /\ sent' = sent \cup batch
       /\ ending' = Finished(batch)
       /\ server' = [server EXCEPT !.at = IF Finished(batch) THEN "closed" ELSE "wait",
                                   !.cursor = Top(batch, server.cursor)]
  /\ UNCHANGED <<table, browser, drops>>

\* A ping, or the heartbeat.
Wake ==
  /\ server.at = "wait" /\ server' = [server EXCEPT !.at = "status"]
  /\ UNCHANGED <<table, sent, ending, browser, drops>>

Stream == ReadStatus \/ Drain \/ Wake

-----------------------------------------------------------------------------
(* The page.                                                               *)

\* Last-Event-ID, or the `after` of the URL.
ResumesAt == cursor

Connect ==
  /\ page = "connecting" /\ ~deleted /\ page' = "streaming"
  /\ server' = [at |-> "status", cursor |-> ResumesAt, ended |-> FALSE]
  /\ UNCHANGED <<table, sent, ending, cursor, times, poll, drops>>

\* The stream of a run that is gone is refused, which closes an EventSource for good.
Refused ==
  /\ page = "connecting" /\ deleted /\ page' = "polling"
  /\ UNCHANGED <<table, endpoint, cursor, times, poll, drops>>

Show(events) == times' = [e \in Id |-> IF e \in events THEN times[e] + 1 ELSE times[e]]

\* The id guard.
IsNew(e) == e > cursor

\* Messages arrive in the order in which they were sent, the lowest id first.
Receive ==
  /\ page = "streaming"
  /\ \E e \in sent :
       /\ \A f \in sent : e <= f
       /\ sent' = sent \ {e}
       /\ IF IsNew(e) THEN Show({e}) /\ cursor' = e ELSE UNCHANGED <<times, cursor>>
  /\ UNCHANGED <<table, server, ending, page, poll, drops>>

ReceiveEnd ==
  /\ page = "streaming" /\ ending /\ sent = {}
  /\ page' = "done" /\ ending' = FALSE
  /\ UNCHANGED <<table, server, sent, cursor, times, poll, drops>>

\* The connection is lost with what is on the way: the browser reconnects, or gives
\* up and the page falls back to polling.
Drop ==
  /\ page = "streaming" /\ drops < MaxDrops /\ drops' = drops + 1
  /\ page' \in {"connecting", "polling"}
  /\ server' = Closed /\ sent' = {} /\ ending' = FALSE
  /\ UNCHANGED <<table, cursor, times, poll>>

\* One polling round asks for the run and for the events at once.
Ask ==
  /\ page = "polling" /\ poll = Idle /\ poll' = Asked
  /\ UNCHANGED <<table, endpoint, page, cursor, times, drops>>

\* "Not found" counts as not finished, however often it comes, and below as no events.
AnswerRun ==
  /\ poll.run = "asked"
  /\ poll' = [poll EXCEPT !.run = IF ended /\ ~deleted THEN "ended" ELSE "live"]
  /\ UNCHANGED <<table, endpoint, page, cursor, times, drops>>

AnswerEvents ==
  /\ poll.events = "asked"
  /\ poll' = [poll EXCEPT !.events = "answered", !.rows = Batch(cursor)]
  /\ UNCHANGED <<table, endpoint, page, cursor, times, drops>>

\* Both answers are there: the events are appended, and the loop goes on unless the
\* run had finished.
Append ==
  /\ poll.run \in {"live", "ended"} /\ poll.events = "answered"
  /\ Show(poll.rows) /\ cursor' = Top(poll.rows, cursor)
  /\ page' = IF poll.run = "ended" THEN "done" ELSE "polling"
  /\ poll' = Idle
  /\ UNCHANGED <<table, endpoint, drops>>

\* A polling request fails otherwise: an error answer counts as "not finished" or "no events"; a
\* lost one is an exception, and the loop is over.
PollFails ==
  /\ page = "polling" /\ drops < MaxDrops /\ drops' = drops + 1
  /\ \/ poll.run = "asked" /\ poll' = [poll EXCEPT !.run = "live"] /\ UNCHANGED page
     \/ poll.events = "asked" /\ poll' = [poll EXCEPT !.events = "answered"] /\ UNCHANGED page
     \/ "asked" \in {poll.run, poll.events} /\ poll' = Idle /\ page' = "stopped"
  /\ UNCHANGED <<table, endpoint, cursor, times>>

Polling == Ask \/ AnswerRun \/ AnswerEvents \/ Append \/ PollFails

-----------------------------------------------------------------------------
Next ==
  \/ (\E w \in Writer : Write(w)) \/ Delete
  \/ Stream \/ Connect \/ Refused \/ Receive \/ ReceiveEnd \/ Drop \/ Polling

Spec == Init /\ [][Next]_vars

\* The endpoint and the page go on by themselves; nobody has to write or to delete.
FairSpec ==
  /\ Spec
  /\ WF_vars(Stream) /\ WF_vars(Connect \/ Refused) /\ WF_vars(Receive \/ ReceiveEnd)
  /\ WF_vars(Ask) /\ WF_vars(AnswerRun) /\ WF_vars(AnswerEvents) /\ WF_vars(Append)

-----------------------------------------------------------------------------
Shown == {e \in Id : times[e] > 0}

\* The cursor passes over no event, except one that was committed after an event with
\* a higher id.
OnlyOvertakenAreMissed == \A e \in committed \ overtaken : e <= cursor => e \in Shown

\* Events come onto the page in the order of their ids, and each of them once, whatever
\* is sent again after a reconnect and whichever way it comes.
InOrder ==
  [][\A e \in Id, f \in Shown : times'[e] > times[e] => f < e]_vars

\* When the stream has said that it ends, everything the run had committed when it
\* ended is on the page, unless the run was deleted meanwhile.
EndIsComplete ==
  [][ReceiveEnd /\ ~deleted => \A e \in final \ overtaken : e \in Shown]_vars

\* A page follows a run to its end, and a page with a stream also to its deletion, unless a
\* polling request was lost.  A page that polls a deleted run does so for ever.
PageEnds ==
  (ended \/ deleted) ~> (page \in {"done", "stopped"} \/ (deleted /\ page = "polling"))

(***************************************************************************)
(* What the documents say and the code does not do.                        *)
(***************************************************************************)
\* RUN_EVENT_STREAMING.md: "bigint identity id gives a total order and a resume
\* cursor", and losing a ping costs latency, "never an event".
NothingIsMissed == \A e \in committed : e <= cursor => e \in Shown
=============================================================================
