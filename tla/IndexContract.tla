--------------------------- MODULE IndexContract ---------------------------
(***************************************************************************)
(* What the index of one repository promises to those who read it: each    *)
(* publication takes some files over from one tree of the repository,      *)
(* replaces the whole graph by that tree's, and leaves the other files     *)
(* alone; a disconnected repository has no index.  When two writers        *)
(* overlap the index is torn, and only the fingerprints can be relied on.  *)
(***************************************************************************)
CONSTANTS
  Path, Version, NoFile,
  EdgesOf(_)            \* the import edges of a tree

Tree == [Path -> Version \cup {NoFile}]

VARIABLES
  files,      \* the versions whose chunks a search can find, of each path
  graph,      \* the edges
  prints,     \* the version each path is recorded to be indexed at
  torn,       \* two writers have overlapped
  online,     \* the repository is connected
  remote,     \* the tree of the remote
  reading     \* the trees that writers have read and may yet publish

index == <<files, graph, prints, torn, online>>
vars  == <<index, remote, reading>>

Stored(v) == IF v = NoFile THEN {} ELSE {v}
Consistent == \A p \in Path : files[p] = Stored(prints[p])

Init ==
  /\ prints \in Tree /\ online = TRUE /\ torn = FALSE
  /\ files = [p \in Path |-> Stored(prints[p])]
  /\ graph \in {{}, EdgesOf(prints)}
  /\ remote \in Tree /\ reading = {}

(* The remote changes; a writer reads it, publishes, or gives up. *)
Push == remote' \in Tree /\ UNCHANGED <<index, reading>>
Read == reading' \subseteq reading \cup {remote} /\ UNCHANGED <<index, remote>>

(* A writer publishes what changed in the tree it has read; a torn index   *)
(* keeps the right fingerprints of the paths written.                      *)
Publish(t) ==
  /\ online /\ t \in reading /\ reading' \subseteq reading /\ UNCHANGED <<online, remote>>
  /\ \E S \in SUBSET Path : prints' = [p \in Path |-> IF p \in S THEN t[p] ELSE prints[p]]
  /\ torn' = torn
  /\ torn \/ (graph' = EdgesOf(t) /\ Consistent')

Disconnect ==
  /\ online /\ online' = FALSE /\ UNCHANGED <<torn, remote, reading>>
  /\ files' = [p \in Path |-> {}] /\ graph' = {} /\ prints' = [p \in Path |-> NoFile]

Tear == torn' = TRUE /\ UNCHANGED <<files, graph, prints, online, remote, reading>>

Next == Push \/ Read \/ (\E t \in reading : Publish(t)) \/ Disconnect \/ Tear

Spec == Init /\ [][Next]_vars
=============================================================================
