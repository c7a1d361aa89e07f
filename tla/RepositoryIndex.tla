-------------------------- MODULE RepositoryIndex --------------------------
(***************************************************************************)
(* One connected repository: requests that index it in the background,     *)
(* searches that read the index in two statements, runs that pin it, and   *)
(* the request that disconnects it (api/repositories.py,                   *)
(* indexing/indexer.py, indexing/retrieval.py).                            *)
(*                                                                         *)
(* Transactions are at READ COMMITTED: a DELETE works on the rows that     *)
(* were committed when it started, waits for a transaction that has        *)
(* deleted one of them, and does not see what that transaction inserted.   *)
(* The content of a file is its version; its chunks are rows of that       *)
(* version (Chunker says which lines they hold).                           *)
(***************************************************************************)
EXTENDS Integers, FiniteSets, SequencesExt

CONSTANTS
  Path, Version, NoFile,
  Start,      \* trees the remote may have at first
  Imports,    \* of each version, the candidate paths of each of its imports
  Distance,   \* of each version, its distance from the query
  TextRank,   \* of each version, its rank in the text arm; 0 is no match
  Job,        \* requests to index
  Run,        \* runs of the repository
  Old,        \* writer of the rows that were there at the start
  Candidates, Limit,        \* CANDIDATES and RETRIEVAL_LIMIT
  MaxPushes, MaxFaults      \* bounds of the model

Tree == [Path -> Version \cup {NoFile}]

ASSUME IndexAssumption ==
  /\ IsFiniteSet(Path) /\ NoFile \notin Version /\ Old \notin Job
  /\ Start \subseteq Tree
  /\ Distance \in [Version -> Nat] /\ TextRank \in [Version -> Nat]
  /\ Candidates \in Nat /\ Limit \in Nat /\ MaxPushes \in Nat /\ MaxFaults \in Nat

VARIABLES
  tree,       \* the default branch of the remote
  status,     \* of the repository; "gone" after the disconnect
  rows,       \* committed rows of code_chunks, code_edges and indexed_files
  job,        \* each indexing: where it is and what it has read
  torn,       \* two write transactions have overlapped
  run,        \* runs, and whether they still have the repository
  removal,    \* the disconnect request: where it is, and the runs that existed
  search,     \* a search between its two statements: what the first has found
  pushes, faults

vars == <<tree, status, rows, job, torn, run, removal, search, pushes, faults>>

(* The files of a tree, and its import edges: an import leads to the first *)
(* of its candidates that exists in the tree, and never to the importer.   *)
Files(t) == {p \in Path : t[p] # NoFile}
FirstExisting(c, t, q) ==
  \E k \in DOMAIN c : c[k] = q /\ q \in Files(t) /\ \A l \in 1 .. k - 1 : c[l] \notin Files(t)
Edges(t) ==
  {e \in Files(t) \X Files(t) :
     e[1] # e[2] /\ \E c \in Imports[t[e[1]]] : FirstExisting(c, t, e[2])}

Row(table, path, of, by) == [table |-> table, path |-> path, of |-> of, by |-> by]
Of(table) == {r \in rows : r.table = table}
FileRows(t, S, by) ==
  {Row(k, p, t[p], by) : k \in {"chunk", "print"}, p \in S \cap Files(t)}
EdgeRows(t, by) == {Row("edge", e[1], e[2], by) : e \in Edges(t)}

(* _load_fingerprints *)
Fingerprints ==
  [p \in Path |-> IF \E r \in Of("print") : r.path = p
                  THEN (CHOOSE r \in Of("print") : r.path = p).of ELSE NoFile]

Unused == [at |-> "unused", tree |-> [p \in Path |-> NoFile], found |-> [p \in Path |-> NoFile],
           asked |-> FALSE, todo |-> {}, gone |-> {}, fresh |-> FALSE]
Writing == {"chunk", "edge", "print", "commit"}

TypeOK ==
  /\ tree \in Tree
  /\ status \in {"connected", "indexing", "indexed", "index_failed", "gone"}
  /\ \A r \in rows : r.table \in {"chunk", "edge", "print"} /\ r.by \in Job \cup {Old}
  /\ torn \in BOOLEAN
  /\ run \in [Run -> {"none", "active", "detached", "over"}]

NoSearch == [asked |-> FALSE, vector |-> <<>>]

Init ==
  /\ tree \in Start
  /\ \/ status = "connected" /\ rows = {}
     \/ status = "indexed" /\ rows = FileRows(tree, Path, Old) \cup EdgeRows(tree, Old)
  /\ job = [i \in Job |-> Unused] /\ torn = FALSE
  /\ run = [r \in Run |-> "none"] /\ removal = [at |-> "none", existing |-> {}]
  /\ search = NoSearch /\ pushes = 0 /\ faults = 0

Live == status # "gone"

-----------------------------------------------------------------------------
(* The remote changes a file. *)
Push ==
  /\ pushes < MaxPushes /\ pushes' = pushes + 1
  /\ \E p \in Path, v \in Version \cup {NoFile} : tree' = [tree EXCEPT ![p] = v]
  /\ UNCHANGED <<status, rows, job, torn, run, removal, search, faults>>

(* start_indexing: the status is committed first; the task starts after    *)
(* the answer, which the count of the chunks may still turn into an error. *)
StartIndexing(i) ==
  /\ Live /\ job[i].at = "unused" /\ status' = "indexing"
  /\ job' = [job EXCEPT ![i].at = "accepted"]
  /\ UNCHANGED <<tree, rows, torn, run, removal, search, pushes, faults>>

(* index_repository has nothing to do for a repository that is gone;       *)
(* _build_index clones the tree, then reads the fingerprints.              *)
Clone(i) ==
  /\ job[i].at = "accepted"
  /\ job' = [job EXCEPT ![i] = IF Live THEN [@ EXCEPT !.at = "load", !.tree = tree]
                               ELSE [@ EXCEPT !.at = "over"]]
  /\ UNCHANGED <<tree, status, rows, torn, run, removal, search, pushes, faults>>

Load(i) ==
  /\ job[i].at = "load"
  /\ job' = [job EXCEPT ![i].at = "embed", ![i].found = Fingerprints, ![i].fresh = TRUE]
  /\ UNCHANGED <<tree, status, rows, torn, run, removal, search, pushes, faults>>

Changed(i) == {p \in Files(job[i].tree) : job[i].found[p] # job[i].tree[p]}

(* (mutant) Files that have left the tree keep their rows. *)
Deleted_None(i) == {}

Deleted(i) == {p \in Path : job[i].found[p] # NoFile /\ p \notin Files(job[i].tree)}

Stale(i) == Changed(i) \cup Deleted(i)

Matching(i, table) == {r \in Of(table) : table = "edge" \/ r.path \in Stale(i)}

(* After the embedding, one transaction: DELETE the chunks of stale files  *)
(* and all edges, insert, and DELETE the stale fingerprints.               *)
BeginWrite(i) ==
  /\ job[i].at = "embed"
  /\ LET first == IF Stale(i) = {} THEN "edge" ELSE "chunk"
     IN  job' = [job EXCEPT ![i].at = first, ![i].asked = TRUE, ![i].todo = Matching(i, first)]
  /\ torn' = (torn \/ \E j \in Job \ {i} : job[j].at \in Writing)
  /\ UNCHANGED <<tree, status, rows, run, removal, search, pushes, faults>>

(* The next DELETE starts; before the one of fingerprints the session      *)
(* flushes the inserts, which need the repository's row.                   *)
Delete(i) ==
  /\ job[i].at \in {"edge", "print"} /\ ~job[i].asked
  /\ job[i].at = "print" => Live
  /\ job' = [job EXCEPT ![i].asked = TRUE, ![i].todo = Matching(i, job[i].at)]
  /\ UNCHANGED <<tree, status, rows, torn, run, removal, search, pushes, faults>>

(* It waits for the other transactions that have deleted one of its rows;  *)
(* a row that is gone by then is skipped.                                  *)
Deletes(i) ==
  /\ job[i].asked /\ \A j \in Job \ {i} : job[i].todo \cap job[j].gone = {}
  /\ job' = [job EXCEPT ![i].asked = FALSE, ![i].todo = {},
                        ![i].gone = @ \cup (job[i].todo \cap rows),
                        ![i].at = CASE @ = "chunk" -> "edge"
                                    [] @ = "edge" /\ Stale(i) # {} -> "print"
                                    [] OTHER -> "commit"]
  /\ UNCHANGED <<tree, status, rows, torn, run, removal, search, pushes, faults>>

(* (mutant) The edges of unchanged files are not inserted again. *)
Inserts_ChangedEdges(i) ==
  FileRows(job[i].tree, Changed(i), i) \cup {r \in EdgeRows(job[i].tree, i) : r.path \in Changed(i)}

Inserts(i) == FileRows(job[i].tree, Changed(i), i) \cup EdgeRows(job[i].tree, i)

(* The commit needs the repository, and one fingerprint of each path. *)
CommitIndex(i) ==
  /\ job[i].at = "commit" /\ (Live \/ Inserts(i) = {})
  /\ \A r \in Of("print") \ job[i].gone : r.path \notin Changed(i)
  /\ rows' = (rows \ job[i].gone) \cup Inserts(i)
  /\ job' = [j \in Job |-> IF j = i THEN [Unused EXCEPT !.at = "settle", !.tree = job[i].tree]
                           ELSE [job[j] EXCEPT !.fresh = FALSE]]
  /\ UNCHANGED <<tree, status, torn, run, removal, search, pushes, faults>>

(* The clone, the embedding or the database fails; the transaction rolls   *)
(* back.  A unique index or a foreign key may leave no other way.          *)
IndexFails(i) ==
  /\ job[i].at \in {"load", "embed"} \cup Writing
  /\ job' = [job EXCEPT ![i] = [Unused EXCEPT !.at = "failed"]]
  /\ UNCHANGED <<tree, status, rows, torn, run, removal, search, pushes, faults>>

(* (mutant) A failed indexing leaves the status alone. *)
Verdict_Silent(i) == IF job[i].at = "settle" THEN "indexed" ELSE status

Verdict(i) == IF job[i].at = "settle" THEN "indexed" ELSE "index_failed"

(* The outcome is written to the repository, if it is still there. *)
Settle(i) ==
  /\ job[i].at \in {"settle", "failed"}
  /\ status' = IF Live THEN Verdict(i) ELSE status
  /\ job' = [job EXCEPT ![i] = [Unused EXCEPT !.at = "over"]]
  /\ UNCHANGED <<tree, rows, torn, run, removal, search, pushes, faults>>

(* The task is never started, its last transaction fails, or the engine    *)
(* restarts: nothing resumes an indexing.                                  *)
Lose(i) ==
  /\ faults < MaxFaults /\ faults' = faults + 1
  /\ job[i].at \in {"accepted", "settle", "failed"}
  /\ job' = [job EXCEPT ![i] = [Unused EXCEPT !.at = "over"]]
  /\ UNCHANGED <<tree, status, rows, torn, run, removal, search, pushes>>

Restart ==
  /\ faults < MaxFaults /\ faults' = faults + 1
  /\ job' = [i \in Job |-> IF job[i].at = "unused" THEN Unused ELSE [Unused EXCEPT !.at = "over"]]
  /\ removal' = [at |-> "none", existing |-> {}] /\ search' = NoSearch
  /\ UNCHANGED <<tree, status, rows, torn, run, pushes>>

Index(i) ==
  \/ Clone(i) \/ Load(i) \/ BeginWrite(i) \/ Delete(i) \/ Deletes(i)
  \/ CommitIndex(i) \/ IndexFails(i) \/ Settle(i)

-----------------------------------------------------------------------------
(* A run is created while its repository is connected, and ends. *)
CreateRun(r) ==
  /\ Live /\ run[r] = "none" /\ run' = [run EXCEPT ![r] = "active"]
  /\ UNCHANGED <<tree, status, rows, job, torn, removal, search, pushes, faults>>

EndRun(r) ==
  /\ run[r] \in {"active", "detached"} /\ run' = [run EXCEPT ![r] = "over"]
  /\ UNCHANGED <<tree, status, rows, job, torn, removal, search, pushes, faults>>

(* (mutant) The runs are not counted. *)
Pins_Never(r) == FALSE

Pins(r) == run[r] = "active"

(* disconnect_repository counts the active runs, then deletes. *)
CountRuns ==
  /\ Live /\ removal.at = "none" /\ \A r \in Run : ~Pins(r)
  /\ removal' = [at |-> "counted", existing |-> {r \in Run : run[r] # "none"}]
  /\ UNCHANGED <<tree, status, rows, job, torn, run, search, pushes, faults>>

(* The delete cascades to the index and detaches the runs; it waits for    *)
(* writers, or is the victim of a deadlock with one.                       *)
Holds(i) ==
  job[i].gone # {} \/ job[i].at = "commit" \/ (job[i].at = "print" /\ job[i].asked)

Disconnect ==
  /\ removal.at = "counted" /\ \A i \in Job : ~Holds(i)
  /\ removal' = [removal EXCEPT !.at = "done"]
  /\ status' = "gone" /\ rows' = {}
  /\ run' = [r \in Run |-> IF run[r] = "active" THEN "detached" ELSE run[r]]
  /\ UNCHANGED <<tree, job, torn, search, pushes, faults>>

DisconnectAborts ==
  /\ removal.at = "counted" /\ \E i \in Job : Holds(i)
  /\ removal' = [at |-> "none", existing |-> {}]
  /\ UNCHANGED <<tree, status, rows, job, torn, run, search, pushes, faults>>

-----------------------------------------------------------------------------
(* retrieve_chunks: two statements, each on the rows committed by then.    *)
Best(S, n, Ahead(_, _)) ==
  {s \in UNION {[1 .. k -> S] : k \in {IF Cardinality(S) < n THEN Cardinality(S) ELSE n}} :
     /\ \A k, l \in DOMAIN s : k < l => s[k] # s[l] /\ ~Ahead(s[l], s[k])
     /\ \A x \in S \ Range(s) : s # <<>> => ~Ahead(x, Last(s))}

VectorArm ==
  /\ Live /\ ~search.asked
  /\ \E s \in Best(Of("chunk"), Candidates, LAMBDA x, y : Distance[x.of] < Distance[y.of]) :
       search' = [asked |-> TRUE, vector |-> s]
  /\ UNCHANGED <<tree, status, rows, job, torn, run, removal, pushes, faults>>

TextArms ==
  Best({r \in Of("chunk") : TextRank[r.of] > 0}, Candidates,
       LAMBDA x, y : TextRank[x.of] > TextRank[y.of])

(* _fuse: 1 / (RRF_K + position), summed over the arms, as a fraction. *)
RRF_K == 60
Position(s, x) == CHOOSE k \in DOMAIN s : s[k] = x
Term(s, x) ==
  IF x \in Range(s) THEN [num |-> 1, den |-> RRF_K + Position(s, x)] ELSE [num |-> 0, den |-> 1]
Score(u, v, x) ==
  LET s == Term(u, x)
      t == Term(v, x)
  IN  [num |-> s.num * t.den + t.num * s.den, den |-> s.den * t.den]
Higher(a, b) == a.num * b.den > b.num * a.den
Nearer(x, y) == Distance[x.of] < Distance[y.of]

(* (mutant) The worst score first. *)
Outranks_Ascending(u, v, x, y) ==
  LET s == Score(u, v, x)
      t == Score(u, v, y)
  IN  Higher(t, s) \/ (~Higher(s, t) /\ Nearer(x, y))

Outranks(u, v, x, y) ==
  LET s == Score(u, v, x)
      t == Score(u, v, y)
  IN  Higher(s, t) \/ (~Higher(t, s) /\ Nearer(x, y))

Fused(u, v) == Best(Range(u) \cup Range(v), Limit, LAMBDA x, y : Outranks(u, v, x, y))

TextArm ==
  /\ search.asked /\ search' = NoSearch
  /\ UNCHANGED <<tree, status, rows, job, torn, run, removal, pushes, faults>>

-----------------------------------------------------------------------------
Next ==
  \/ Push \/ Restart \/ CountRuns \/ Disconnect \/ DisconnectAborts
  \/ \E i \in Job : StartIndexing(i) \/ Index(i) \/ Lose(i)
  \/ \E r \in Run : CreateRun(r) \/ EndRun(r)
  \/ VectorArm \/ TextArm

Spec == Init /\ [][Next]_vars

(* A background task of a running engine goes on. *)
FairSpec == Spec /\ \A i \in Job : WF_vars(Index(i))

-----------------------------------------------------------------------------
Contract == INSTANCE IndexContract WITH
  EdgesOf <- Edges,
  files <- [p \in Path |-> {r.of : r \in {q \in Of("chunk") : q.path = p}}],
  graph <- {<<r.path, r.of>> : r \in Of("edge")},
  prints <- Fingerprints,
  online <- Live,
  remote <- tree,
  reading <- {job[i].tree : i \in {j \in Job : job[j].at \in {"load", "embed"} \cup Writing}}

(* Searches and the graph see what IndexContract promises: until two       *)
(* writers overlap, each file is at the version its fingerprint names, and *)
(* the graph is that of the tree published last.                           *)
ImplementsContract == Contract!Spec

(* An incremental indexing that no other has interfered with leaves        *)
(* exactly the index a rebuild from nothing would give.                    *)
AloneIsARebuild ==
  [][\A i \in Job :
       Live /\ CommitIndex(i) /\ job[i].fresh /\ ~torn =>
         {Row(r.table, r.path, r.of, Old) : r \in rows'}
           = FileRows(job[i].tree, Path, Old) \cup EdgeRows(job[i].tree, Old)]_vars

(* "indexing" is left again, unless the engine restarts, the answer fails  *)
(* before the task is started, or the last transaction fails.              *)
IndexingSettles == (status = "indexing") ~> (status # "indexing" \/ faults > 0)

(* A disconnect detaches no run that existed when it counted them: only    *)
(* one created since can lose its repository.                              *)
OnlyLateRunsAreDetached ==
  [][\A r \in Run : Disconnect /\ run[r] = "active" => r \notin removal.existing]_vars

(* A chunk that is ahead of another in every arm that found the other is   *)
(* ahead of it in the answer, also when the arms saw different indexes.    *)
AheadIn(s, x, y) == y \in Range(s) => x \in Range(s) /\ Position(s, x) < Position(s, y)

UnanimousOrder ==
  search.asked =>
    \A v \in TextArms : LET u == search.vector IN \A s \in Fused(u, v) :
      \A y \in Range(s), x \in Range(u) \cup Range(v) :
        x # y /\ AheadIn(u, x, y) /\ AheadIn(v, x, y) => AheadIn(s, x, y)
=============================================================================
