------------------------------ MODULE Chunker ------------------------------
(***************************************************************************)
(* How one file is cut into the chunks that are embedded and searched      *)
(* (indexing/chunker.py): a small file whole, a source file by its         *)
(* top-level definitions with windows for what lies between them, any      *)
(* other in overlapping windows.  A chunk is the range of lines it holds;  *)
(* of the text the model keeps which lines are blank, and of the syntax    *)
(* tree the lines of its top-level nodes.                                  *)
(***************************************************************************)
EXTENDS Integers, Sequences

CONSTANTS
  CHUNK_LINES, OVERLAP_LINES, MAX_DEFINITION_LINES,
  Documents   \* the files: number of lines, blank lines, and top-level nodes

ASSUME ChunkerAssumption ==
  /\ CHUNK_LINES \in Nat /\ OVERLAP_LINES \in Nat /\ MAX_DEFINITION_LINES \in Nat
  /\ OVERLAP_LINES < CHUNK_LINES

Chunk == [first : Nat, last : Nat]
Node  == [first : Nat, last : Nat, definition : BOOLEAN]

(* A document: its lines, those that are blank, whether a grammar parses   *)
(* it, and its named children.                                             *)
ASSUME DocumentAssumption ==
  \A d \in Documents :
    /\ d.lines \in Nat \ {0} /\ d.blank \subseteq 1 .. d.lines /\ d.parses \in BOOLEAN
    /\ d.nodes \in Seq(Node)
    /\ \A k \in 1 .. Len(d.nodes) :
         /\ 1 <= d.nodes[k].first /\ d.nodes[k].first <= d.nodes[k].last
         /\ d.nodes[k].last <= d.lines

VARIABLES
  doc,
  at,       \* "start", "node", "define", "end", "window", or "done"
  after,    \* where a window returns to
  next,     \* the next node of the tree
  cursor,   \* the next line not yet emitted
  first, last,    \* the lines a window is asked to cut,
  index,    \* and how far it is
  chunks

chunkerVars == <<doc, at, after, next, cursor, first, last, index, chunks>>
window == <<after, first, last, index>>

ChunkerTypeOK ==
  /\ doc \in Documents
  /\ at \in {"start", "node", "define", "end", "window", "done"}
  /\ after \in {"node", "define", "end", "done"}
  /\ next \in Nat \ {0} /\ cursor \in Nat \ {0}
  /\ first \in Nat \ {0} /\ last \in Nat /\ index \in Nat
  /\ chunks \in SUBSET Chunk

ChunkerInit ==
  /\ doc \in Documents /\ at = "start" /\ after = "done"
  /\ next = 1 /\ cursor = 1 /\ first = 1 /\ last = 0 /\ index = 0
  /\ chunks = {}

Window(a, b, return) ==
  /\ at' = "window" /\ after' = return
  /\ first' = a /\ last' = b /\ index' = 0

Blank(a, b) == \A l \in a .. b : l \in doc.blank

Emit(a, b) ==
  chunks' = IF Blank(a, b) THEN chunks ELSE chunks \cup {[first |-> a, last |-> b]}

(* _chunk_file: a small file, and one no grammar parses, is cut by a       *)
(* window over all its lines.                                              *)
StartFile ==
  /\ at = "start"
  /\ IF doc.lines <= CHUNK_LINES \/ ~doc.parses
       THEN Window(1, doc.lines, "done")
       ELSE at' = "node" /\ UNCHANGED window
  /\ UNCHANGED <<doc, next, cursor, chunks>>

(* _chunk_by_ast: the next named child.  What is no definition is left to  *)
(* the window before the next definition.                                  *)
SkipNode ==
  /\ at = "node" /\ next <= Len(doc.nodes) /\ ~doc.nodes[next].definition
  /\ next' = next + 1
  /\ UNCHANGED <<doc, at, cursor, chunks, window>>

Gap == next <= Len(doc.nodes) /\ doc.nodes[next].first > cursor

LooseCode ==
  /\ at = "node" /\ next <= Len(doc.nodes) /\ doc.nodes[next].definition
  /\ IF Gap THEN Window(cursor, doc.nodes[next].first - 1, "define")
            ELSE at' = "define" /\ UNCHANGED window
  /\ UNCHANGED <<doc, next, cursor, chunks>>

(* (mutant) The first line is not counted. *)
Large_OffByOne(node) == node.last - node.first > MAX_DEFINITION_LINES

Large(node) == node.last - node.first + 1 > MAX_DEFINITION_LINES

Define ==
  LET node == doc.nodes[next] IN
  /\ at = "define" /\ next' = next + 1 /\ cursor' = node.last + 1
  /\ IF Large(node)
       THEN Window(node.first, node.last, "node") /\ UNCHANGED chunks
       ELSE at' = "node" /\ Emit(node.first, node.last) /\ UNCHANGED window
  /\ UNCHANGED doc

Trailing ==
  /\ at = "node" /\ next > Len(doc.nodes)
  /\ IF cursor <= doc.lines THEN Window(cursor, doc.lines, "end")
                            ELSE at' = "end" /\ UNCHANGED window
  /\ UNCHANGED <<doc, next, cursor, chunks>>

(* Without a single chunk the file is cut by windows after all. *)
End ==
  /\ at = "end"
  /\ IF chunks = {} THEN Window(1, doc.lines, "done") ELSE at' = "done" /\ UNCHANGED window
  /\ UNCHANGED <<doc, next, cursor, chunks>>

-----------------------------------------------------------------------------
(* (mutant) A window starts after the overlap, not with it. *)
Step_After == CHUNK_LINES + OVERLAP_LINES

(* _window: CHUNK_LINES lines, the last OVERLAP_LINES of them again.       *)
Step == CHUNK_LINES - OVERLAP_LINES

LastOfWindow ==
  IF first + index + CHUNK_LINES > last THEN last ELSE first + index + CHUNK_LINES - 1

Cut ==
  /\ at = "window"
  /\ Emit(first + index, LastOfWindow)
  /\ IF index + CHUNK_LINES >= last - first + 1
       THEN at' = after /\ UNCHANGED index
       ELSE index' = index + Step /\ UNCHANGED at
  /\ UNCHANGED <<doc, next, cursor, after, first, last>>

ChunkerNext == StartFile \/ SkipNode \/ LooseCode \/ Define \/ Trailing \/ End \/ Cut

ChunkerSpec == ChunkerInit /\ [][ChunkerNext]_chunkerVars

-----------------------------------------------------------------------------
CoveredBy(S, d, n) ==
  \A l \in 1 .. n : l \in d.blank \/ \E c \in S : c.first <= l /\ l <= c.last
Covered(n) == CoveredBy(chunks, doc, n)

(* Every line that is not blank can be found by a search: it lies in a     *)
(* chunk, wherever definitions begin and end, also on one line.            *)
EveryLineIsChunked == at = "done" => Covered(doc.lines)

(* No chunk is larger than a definition may be, or a window. *)
ChunksAreBounded ==
  \A c \in chunks :
    \/ c.last - c.first + 1 <= CHUNK_LINES
    \/ c.last - c.first + 1 <= MAX_DEFINITION_LINES
=============================================================================
