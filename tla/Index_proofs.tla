---------------------------- MODULE Index_proofs ----------------------------
(***************************************************************************)
(* Proofs about the index of a repository: how a file is cut (Chunker),    *)
(* and how the rows of its chunks, edges and fingerprints are kept while   *)
(* jobs write them beside each other and searches read them                *)
(* (RepositoryIndex).  For files of any length, any syntax tree and any    *)
(* size of windows no line is lost; for any set of files, jobs, runs and   *)
(* any ranking, readers see what IndexContract promises.                   *)
(*                                                                         *)
(* The index's inductive invariant follows one write transaction: alone,   *)
(* it has deleted at each statement exactly the rows that are stale for    *)
(* the tree it has read; beside another, all that is left is that it       *)
(* deletes fingerprints of stale files only and that a path has one.       *)
(***************************************************************************)
EXTENDS Chunker, RepositoryIndex, FiniteSetTheorems, TLAPS


(* How far the file is covered at each place of the algorithm. *)
Place ==
  /\ at = "start" => cursor = 1
  /\ at = "node" => Covered(cursor - 1)
  /\ at = "define" => next <= Len(doc.nodes) /\ Covered(doc.nodes[next].first - 1)
  /\ at \in {"end", "done"} => Covered(doc.lines)
  /\ at = "window" =>
       /\ Covered(first + index - 1)
       /\ after = "node" => last = cursor - 1
       /\ after = "define" => next <= Len(doc.nodes) /\ last = doc.nodes[next].first - 1
       /\ after \in {"end", "done"} => last = doc.lines

ChunkerInv == ChunkerTypeOK /\ Place

LEMMA DocType ==
  ASSUME ChunkerTypeOK
  PROVE  /\ doc.lines \in Nat \ {0}
         /\ doc.nodes \in Seq(Node)
         /\ \A k \in 1 .. Len(doc.nodes) :
              /\ doc.nodes[k] \in Node
              /\ 1 <= doc.nodes[k].first /\ doc.nodes[k].first <= doc.nodes[k].last
BY DocumentAssumption DEF ChunkerTypeOK

(* What Emit does, with its arguments spelled out. *)
Emitted(S, T, d, a, b) ==
  T = IF \A l \in a .. b : l \in d.blank THEN S ELSE S \cup {[first |-> a, last |-> b]}

(* Chunks are only added, and what was covered stays covered. *)
LEMMA EmitCovers ==
  ASSUME NEW d, NEW S, NEW T, NEW a \in Nat, NEW b \in Int, a >= 1, NEW n \in Int, n <= b,
         NEW k \in Int, k = a - 1, CoveredBy(S, d, k),
         Emitted(S, T, d, a, b)
  PROVE  CoveredBy(T, d, n)
<1> SUFFICES ASSUME NEW l \in 1 .. n
             PROVE  l \in d.blank \/ \E c \in T : c.first <= l /\ l <= c.last
    BY DEF CoveredBy
<1>1. CASE l <= a - 1
    <2>1. l \in 1 .. k
        BY <1>1
    <2>2. l \in d.blank \/ \E c \in S : c.first <= l /\ l <= c.last
        BY <2>1 DEF CoveredBy
    <2> QED
        BY <2>2 DEF Emitted
<1>2. CASE l > a - 1
    <2>1. l \in a .. b /\ a <= l /\ l <= b
        BY <1>2
    <2>2. CASE \A m \in a .. b : m \in d.blank
        BY <2>1, <2>2
    <2>3. CASE ~ \A m \in a .. b : m \in d.blank
        <3>1. [first |-> a, last |-> b] \in T
            BY <2>3 DEF Emitted
        <3> QED
            BY <3>1, <2>1
    <2> QED
        BY <2>2, <2>3
<1> QED
    BY <1>1, <1>2

LEMMA NothingToCover == ASSUME NEW S, NEW d, NEW n \in Int, n <= 0 PROVE CoveredBy(S, d, n)
BY DEF CoveredBy

LEMMA CoveredBefore ==
  ASSUME NEW S, NEW d, NEW m \in Int, NEW n \in Int, n <= m, CoveredBy(S, d, m)
  PROVE  CoveredBy(S, d, n)
<1>1. \A l \in 1 .. n : l \in 1 .. m
    OBVIOUS
<1> QED
    BY <1>1 DEF CoveredBy

(* The initial state has cut nothing. *)
LEMMA CutsNothingYet == ChunkerInit => ChunkerInv
<1> SUFFICES ASSUME ChunkerInit PROVE ChunkerInv
    OBVIOUS
<1>1. ChunkerTypeOK
    BY DEF ChunkerInit, ChunkerTypeOK
<1> QED
    BY <1>1 DEF ChunkerInit, ChunkerInv, Place

(* Returning from a window that has reached the end of its lines. *)
LEMMA Returned ==
  ASSUME ChunkerTypeOK, Place, at = "window", at' = after, CoveredBy(chunks', doc, last), ChunkerTypeOK',
         UNCHANGED <<doc, next, cursor, after, first, last>>
  PROVE  ChunkerInv'
<1>1. at' \in {"node", "define", "end", "done"}
    BY DEF ChunkerTypeOK
<1>2. at' = "node" => CoveredBy(chunks', doc', cursor' - 1)
    BY DEF Place
<1>3. at' = "define" => next' <= Len(doc'.nodes) /\ CoveredBy(chunks', doc', doc'.nodes[next'].first - 1)
    BY DEF Place
<1>4. at' \in {"end", "done"} => CoveredBy(chunks', doc', doc'.lines)
    BY DEF Place
<1> QED
    BY <1>1, <1>2, <1>3, <1>4 DEF ChunkerInv, Place, Covered

LEMMA CutInvariant == ChunkerInv /\ Cut => ChunkerInv'
<1> SUFFICES ASSUME ChunkerInv, Cut PROVE ChunkerInv'
    OBVIOUS
<1> USE ChunkerAssumption
<1>0. ChunkerTypeOK /\ Place /\ at = "window"
    BY DEF ChunkerInv, Cut
<1> DEFINE a == first + index
           k == first + index - 1
           b == first + index + Step - 1
<1>1. /\ a \in Nat /\ a >= 1 /\ k \in Int /\ k = a - 1 /\ LastOfWindow \in Int
      /\ b \in Int /\ b = a + Step - 1
    BY <1>0 DEF ChunkerTypeOK, LastOfWindow, Step
<1>2. CoveredBy(chunks, doc, k)
    BY <1>0 DEF Place, Covered
<1>e. Emitted(chunks, chunks', doc, a, LastOfWindow)
    BY DEF Cut, Emit, Blank, Emitted
<1>c. UNCHANGED <<doc, next, cursor, after, first, last>>
    BY DEF Cut
<1>n. ASSUME NEW n \in Int, n <= LastOfWindow PROVE CoveredBy(chunks', doc, n)
    <2> HIDE DEF a, k
    <2> QED
        BY <1>1, <1>2, <1>e, <1>n, EmitCovers
<1>t. LastOfWindow \in Nat => ChunkerTypeOK'
    BY <1>0, <1>1, <1>e, <1>c DEF ChunkerTypeOK, Chunk, Cut, Step, Emitted
<1>3. CASE index + CHUNK_LINES >= last - first + 1
    <2>1. LastOfWindow = last /\ last \in Nat
        BY <1>3, <1>0 DEF ChunkerTypeOK, LastOfWindow
    <2>2. at' = after /\ index' = index
        BY <1>3 DEF Cut
    <2>3. CoveredBy(chunks', doc, last)
        BY <1>n, <2>1
    <2> QED
        BY <1>0, <1>c, <1>t, <2>1, <2>2, <2>3, Returned
<1>4. CASE ~(index + CHUNK_LINES >= last - first + 1)
    <2>1. LastOfWindow \in Nat /\ b <= LastOfWindow
        BY <1>4, <1>0 DEF ChunkerTypeOK, Step, LastOfWindow
    <2>2. index' = index + Step /\ at' = at
        BY <1>4 DEF Cut
    <2>3. CoveredBy(chunks', doc, b)
        BY <1>n, <1>1, <2>1
    <2>4. first' + index' - 1 = b
        BY <2>2, <1>c, <1>0 DEF ChunkerTypeOK, Step
    <2>5. CoveredBy(chunks', doc', first' + index' - 1)
        BY <2>3, <2>4, <1>c
    <2> QED
        BY <1>c, <1>t, <2>1, <2>2, <2>5, <1>0 DEF ChunkerInv, Place, Covered
<1> QED
    BY <1>3, <1>4

LEMMA OtherInvariant ==
  ChunkerInv /\ (StartFile \/ SkipNode \/ LooseCode \/ Define \/ Trailing \/ End) => ChunkerInv'
<1> SUFFICES ASSUME ChunkerInv PROVE StartFile \/ SkipNode \/ LooseCode \/ Define \/ Trailing \/ End => ChunkerInv'
    OBVIOUS
<1> USE ChunkerAssumption
<1>0. ChunkerTypeOK /\ Place
    BY DEF ChunkerInv
<1>d. /\ doc.lines \in Nat \ {0}
      /\ \A k \in 1 .. Len(doc.nodes) :
           /\ doc.nodes[k] \in Node
           /\ 1 <= doc.nodes[k].first /\ doc.nodes[k].first <= doc.nodes[k].last
      /\ Len(doc.nodes) \in Nat
    BY <1>0, DocType
<1>t. /\ next \in Nat \ {0} /\ cursor \in Nat \ {0} /\ first \in Nat \ {0}
      /\ last \in Nat /\ index \in Nat
    BY <1>0 DEF ChunkerTypeOK
<1>1. ASSUME StartFile PROVE ChunkerInv'
    <2>1. ChunkerTypeOK'
        BY <1>0, <1>1, <1>d DEF ChunkerTypeOK, StartFile, Window, window
    <2>2. CASE doc.lines <= CHUNK_LINES \/ ~doc.parses
        <3>1. at' = "window" /\ after' = "done" /\ last' = doc'.lines /\ first' = 1 /\ index' = 0
            BY <1>1, <2>2 DEF StartFile, Window
        <3>2. CoveredBy(chunks', doc', first' + index' - 1)
            BY <3>1, NothingToCover
        <3> QED
            BY <2>1, <3>1, <3>2 DEF ChunkerInv, Place, Covered
    <2>3. CASE ~(doc.lines <= CHUNK_LINES \/ ~doc.parses)
        <3>1. at' = "node"
            BY <1>1, <2>3 DEF StartFile
        <3>2. CoveredBy(chunks', doc', cursor' - 1)
            BY <1>0, <1>1, NothingToCover DEF StartFile, Place
        <3> QED
            BY <2>1, <3>1, <3>2 DEF ChunkerInv, Place, Covered
    <2> QED
        BY <2>2, <2>3
<1>2. ASSUME SkipNode PROVE ChunkerInv'
    <2>1. ChunkerTypeOK'
        BY <1>0, <1>2 DEF ChunkerTypeOK, SkipNode, window
    <2> QED
        BY <2>1, <1>0, <1>2 DEF SkipNode, window, ChunkerInv, Place, Covered
<1>3. ASSUME LooseCode PROVE ChunkerInv'
    <2>0. /\ at = "node" /\ next <= Len(doc.nodes) /\ next \in 1 .. Len(doc.nodes)
          /\ UNCHANGED <<doc, next, cursor, chunks>>
          /\ CoveredBy(chunks, doc, cursor - 1)
        BY <1>0, <1>d, <1>t, <1>3 DEF LooseCode, Place, Covered
    <2>1. doc.nodes[next].first \in Nat /\ doc.nodes[next].first >= 1
        BY <2>0, <1>d DEF Node
    <2>2. CASE Gap
        <3>1. /\ at' = "window" /\ after' = "define" /\ last' = doc'.nodes[next'].first - 1
              /\ first' = cursor /\ index' = 0
            BY <1>3, <2>0, <2>2 DEF LooseCode, Window
        <3>2. first' + index' - 1 = cursor - 1
            BY <3>1, <1>t
        <3>3. CoveredBy(chunks', doc', first' + index' - 1)
            BY <3>2, <2>0
        <3>4. ChunkerTypeOK'
            BY <1>0, <1>t, <2>0, <2>1, <3>1 DEF ChunkerTypeOK
        <3> QED
            BY <2>0, <3>1, <3>3, <3>4 DEF ChunkerInv, Place, Covered
    <2>3. CASE ~Gap
        <3>1. at' = "define" /\ UNCHANGED window
            BY <1>3, <2>3 DEF LooseCode
        <3>2. doc.nodes[next].first - 1 <= cursor - 1
            BY <2>0, <2>1, <2>3, <1>t DEF Gap
        <3>3. CoveredBy(chunks, doc, doc.nodes[next].first - 1)
            BY <2>0, <2>1, <3>2, <1>t, CoveredBefore
        <3>4. ChunkerTypeOK'
            BY <1>0, <2>0, <3>1 DEF ChunkerTypeOK, window
        <3> QED
            BY <2>0, <3>1, <3>3, <3>4 DEF ChunkerInv, Place, Covered
    <2> QED
        BY <2>2, <2>3
<1>4. ASSUME Define PROVE ChunkerInv'
    <2> DEFINE node == doc.nodes[next]
    <2>0. /\ at = "define" /\ next <= Len(doc.nodes) /\ next \in 1 .. Len(doc.nodes)
          /\ next' = next + 1 /\ cursor' = node.last + 1 /\ UNCHANGED doc
          /\ CoveredBy(chunks, doc, node.first - 1)
        BY <1>0, <1>d, <1>t, <1>4 DEF Define, Place, Covered
    <2>1. /\ node.first \in Nat /\ node.last \in Nat /\ 1 <= node.first
          /\ cursor' - 1 = node.last
        BY <2>0, <1>d DEF Node
    <2>2. CASE Large(node)
        <3>1. /\ at' = "window" /\ after' = "node" /\ last' = node.last
              /\ first' = node.first /\ index' = 0 /\ UNCHANGED chunks
            BY <1>4, <2>2 DEF Define, Window
        <3>2. first' + index' - 1 = node.first - 1
            BY <3>1, <2>1
        <3>3. CoveredBy(chunks', doc', first' + index' - 1)
            BY <3>1, <3>2, <2>0
        <3>4. ChunkerTypeOK'
            BY <1>0, <1>t, <2>0, <2>1, <3>1 DEF ChunkerTypeOK
        <3> QED
            BY <2>1, <3>1, <3>3, <3>4 DEF ChunkerInv, Place, Covered
    <2>3. CASE ~Large(node)
        <3>1. at' = "node" /\ Emit(node.first, node.last) /\ UNCHANGED window
            BY <1>4, <2>3 DEF Define
        <3>5. chunks' = IF \A l \in node.first .. node.last : l \in doc.blank
                        THEN chunks ELSE chunks \cup {[first |-> node.first, last |-> node.last]}
            BY <3>1 DEF Emit, Blank
        <3> DEFINE a == node.first
                   k == node.first - 1
                   b == node.last
        <3>6. a \in Nat /\ k \in Int /\ k = a - 1 /\ b \in Int /\ a >= 1 /\ b <= b
              /\ CoveredBy(chunks, doc, k)
            BY <2>0, <2>1
        <3>2. CoveredBy(chunks', doc, b)
            <4> HIDE DEF a, b, k
            <4>1. Emitted(chunks, chunks', doc, a, b)
                BY <3>5 DEF a, b, Emitted
            <4> QED
                BY <4>1, <3>6, EmitCovers
        <3>3. chunks' \in SUBSET Chunk
            BY <1>0, <2>1, <3>1 DEF ChunkerTypeOK, Emit, Chunk
        <3>4. ChunkerTypeOK'
            BY <1>0, <1>t, <2>0, <2>1, <3>1, <3>3 DEF ChunkerTypeOK, window
        <3> QED
            BY <2>0, <2>1, <3>1, <3>2, <3>4 DEF ChunkerInv, Place, Covered
    <2> QED
        BY <2>2, <2>3
<1>5. ASSUME Trailing PROVE ChunkerInv'
    <2>0. at = "node" /\ CoveredBy(chunks, doc, cursor - 1) /\ UNCHANGED <<doc, next, cursor, chunks>>
        BY <1>0, <1>5 DEF Trailing, Place, Covered
    <2>1. CASE cursor <= doc.lines
        <3>1. /\ at' = "window" /\ after' = "end" /\ last' = doc'.lines
              /\ first' = cursor /\ index' = 0
            BY <1>5, <2>0, <2>1 DEF Trailing, Window
        <3>2. first' + index' - 1 = cursor - 1
            BY <3>1, <1>t
        <3>3. ChunkerTypeOK'
            BY <1>0, <1>t, <1>d, <2>0, <3>1 DEF ChunkerTypeOK
        <3> QED
            BY <2>0, <3>1, <3>2, <3>3 DEF ChunkerInv, Place, Covered
    <2>2. CASE ~(cursor <= doc.lines)
        <3>1. at' = "end" /\ UNCHANGED window
            BY <1>5, <2>2 DEF Trailing
        <3>2. CoveredBy(chunks, doc, doc.lines)
            BY <2>0, <2>2, <1>t, <1>d, CoveredBefore
        <3>3. ChunkerTypeOK'
            BY <1>0, <2>0, <3>1 DEF ChunkerTypeOK, window
        <3> QED
            BY <2>0, <3>1, <3>2, <3>3 DEF ChunkerInv, Place, Covered
    <2> QED
        BY <2>1, <2>2
<1>6. ASSUME End PROVE ChunkerInv'
    <2>0. at = "end" /\ CoveredBy(chunks, doc, doc.lines) /\ UNCHANGED <<doc, next, cursor, chunks>>
        BY <1>0, <1>6 DEF End, Place, Covered
    <2>1. CASE chunks = {}
        <3>1. at' = "window" /\ after' = "done" /\ last' = doc'.lines /\ first' = 1 /\ index' = 0
            BY <1>6, <2>0, <2>1 DEF End, Window
        <3>2. CoveredBy(chunks', doc', first' + index' - 1)
            BY <3>1, NothingToCover
        <3>3. ChunkerTypeOK'
            BY <1>0, <1>d, <2>0, <3>1 DEF ChunkerTypeOK
        <3> QED
            BY <3>1, <3>2, <3>3 DEF ChunkerInv, Place, Covered
    <2>2. CASE chunks # {}
        <3>1. at' = "done" /\ UNCHANGED window
            BY <1>6, <2>2 DEF End
        <3>2. ChunkerTypeOK'
            BY <1>0, <2>0, <3>1 DEF ChunkerTypeOK, window
        <3> QED
            BY <2>0, <3>1, <3>2 DEF ChunkerInv, Place, Covered
    <2> QED
        BY <2>1, <2>2
<1> QED
    BY <1>1, <1>2, <1>3, <1>4, <1>5, <1>6

(* The invariant holds in every reachable state. *)
THEOREM ChunkerInvariance == ChunkerSpec => []ChunkerInv
<1>1. ASSUME ChunkerInv, [ChunkerNext]_chunkerVars PROVE ChunkerInv'
    <2>1. CASE Cut
        BY <1>1, <2>1, CutInvariant
    <2>2. CASE StartFile \/ SkipNode \/ LooseCode \/ Define \/ Trailing \/ End
        BY <1>1, <2>2, OtherInvariant
    <2>3. CASE UNCHANGED chunkerVars
        BY <1>1, <2>3 DEF chunkerVars, ChunkerInv, ChunkerTypeOK, Place, Covered
    <2> QED
        BY <1>1, <2>1, <2>2, <2>3 DEF ChunkerNext
<1> QED
    BY <1>1, CutsNothingYet, PTL DEF ChunkerSpec

(* What is left of the file: nodes, then places within a node, then lines  *)
(* of the window that is being cut.                                        *)
NodesLeft == Len(doc.nodes) + 1 - next
PlacesLeft ==
  CASE at = "start" -> 6
    [] at = "node" -> 4
    [] at = "define" -> 2
    [] at = "end" -> 2
    [] at = "done" -> 0
    [] at = "window" -> CASE after = "node" -> 5
                          [] after \in {"define", "end"} -> 3
                          [] after = "done" -> 1
LinesLeft == last - first + 1 - index

Advances ==
  \/ NodesLeft' < NodesLeft
  \/ NodesLeft' = NodesLeft /\ PlacesLeft' < PlacesLeft
  \/ /\ NodesLeft' = NodesLeft /\ PlacesLeft' = PlacesLeft
     /\ at = "window" /\ LinesLeft' < LinesLeft

(* None of the three falls below zero, and every step leaves less.         *)
EveryCutAdvances ==
  [][/\ NodesLeft \in Nat /\ PlacesLeft \in 0 .. 6 /\ (at = "window" => LinesLeft \in Nat)
     /\ Advances]_chunkerVars

(* The next node is there when a definition is cut, and a window is cut    *)
(* from a line it has.                                                     *)
InTheFile ==
  /\ next <= Len(doc.nodes) + 1
  /\ at = "window" => index <= last - first

LEMMA StaysInTheFile ==
  ASSUME ChunkerInv, ChunkerInv', InTheFile, ChunkerNext
  PROVE  InTheFile' /\ Advances
<1> USE DEF Advances
<1>1. /\ next \in Nat /\ cursor \in Nat /\ first \in Nat /\ last \in Nat /\ index \in Nat
      /\ Len(doc.nodes) \in Nat /\ doc.lines \in Nat \ {0} /\ next <= Len(doc.nodes) + 1
      /\ at = "define" => next <= Len(doc.nodes)
      /\ \A k \in 1 .. Len(doc.nodes) :
           /\ doc.nodes[k].first \in Nat /\ doc.nodes[k].last \in Nat
           /\ doc.nodes[k].first <= doc.nodes[k].last
  <2>1. /\ doc.nodes \in Seq(Node) /\ doc.lines \in Nat \ {0}
        /\ \A k \in 1 .. Len(doc.nodes) :
             doc.nodes[k] \in Node /\ doc.nodes[k].first <= doc.nodes[k].last
    BY DocType DEF ChunkerInv
  <2>2. Len(doc.nodes) \in Nat
    BY <2>1
  <2>3. ASSUME NEW k \in 1 .. Len(doc.nodes)
        PROVE  /\ doc.nodes[k].first \in Nat /\ doc.nodes[k].last \in Nat
               /\ doc.nodes[k].first <= doc.nodes[k].last
    BY <2>1 DEF Node
  <2>4. next \in Nat /\ cursor \in Nat /\ first \in Nat /\ last \in Nat /\ index \in Nat
    BY DEF ChunkerInv, ChunkerTypeOK
  <2>5. next <= Len(doc.nodes) + 1 /\ (at = "define" => next <= Len(doc.nodes))
    BY DEF ChunkerInv, Place, InTheFile
  <2> QED
    BY <2>1, <2>2, <2>3, <2>4, <2>5
<1>2. next >= 1
  BY DEF ChunkerInv, ChunkerTypeOK
<1>3. CASE StartFile
  <2>1. /\ doc' = doc /\ next' = next /\ at = "start"
        /\ \/ at' = "node"
           \/ at' = "window" /\ after' = "done" /\ first' = 1 /\ last' = doc.lines /\ index' = 0
    BY <1>3 DEF StartFile, Window
  <2>2. PlacesLeft' < PlacesLeft /\ NodesLeft' = NodesLeft
    BY <2>1 DEF PlacesLeft, NodesLeft
  <2>3. InTheFile'
    BY <1>1, <2>1 DEF InTheFile
  <2> QED
    BY <2>2, <2>3
<1>4. CASE SkipNode
  <2>1. doc' = doc /\ next' = next + 1 /\ at' = "node" /\ next <= Len(doc.nodes)
    BY <1>4 DEF SkipNode
  <2>2. InTheFile'
    BY <1>1, <2>1 DEF InTheFile
  <2>3. NodesLeft' < NodesLeft
    <3> DEFINE n == Len(doc.nodes)
    <3>1. n \in Nat /\ next \in Nat
      BY <1>1
    <3>2. NodesLeft = n + 1 - next /\ NodesLeft' = n + 1 - (next + 1)
      BY <2>1 DEF NodesLeft
    <3> HIDE DEF n
    <3> QED
      BY <3>1, <3>2
  <2> QED
    BY <2>2, <2>3
<1>5. CASE LooseCode
  <2>1. /\ doc' = doc /\ next' = next /\ at = "node" /\ next <= Len(doc.nodes)
        /\ \/ at' = "define"
           \/ /\ at' = "window" /\ after' = "define" /\ first' = cursor
              /\ last' = doc.nodes[next].first - 1 /\ index' = 0 /\ cursor < doc.nodes[next].first
    BY <1>1, <1>5 DEF LooseCode, Window, Gap
  <2>2. PlacesLeft' < PlacesLeft /\ NodesLeft' = NodesLeft
    BY <2>1 DEF PlacesLeft, NodesLeft
  <2>3. doc.nodes[next].first \in Nat
    BY <1>1, <1>2, <2>1
  <2>4. InTheFile'
    BY <1>1, <2>1, <2>3 DEF InTheFile
  <2> QED
    BY <2>2, <2>4
<1>6. CASE Define
  <2>1. /\ doc' = doc /\ next' = next + 1 /\ next <= Len(doc.nodes)
        /\ \/ at' = "node"
           \/ /\ at' = "window" /\ first' = doc.nodes[next].first
              /\ last' = doc.nodes[next].last /\ index' = 0
    BY <1>1, <1>6 DEF Define, Window
  <2>2. /\ doc.nodes[next].first \in Nat /\ doc.nodes[next].last \in Nat
        /\ doc.nodes[next].first <= doc.nodes[next].last
    BY <1>1, <1>2, <2>1
  <2>3. InTheFile'
    BY <1>1, <2>1, <2>2 DEF InTheFile
  <2>4. NodesLeft' < NodesLeft
    <3> DEFINE n == Len(doc.nodes)
    <3>1. n \in Nat /\ next \in Nat
      BY <1>1
    <3>2. NodesLeft = n + 1 - next /\ NodesLeft' = n + 1 - (next + 1)
      BY <2>1 DEF NodesLeft
    <3> HIDE DEF n
    <3> QED
      BY <3>1, <3>2
  <2> QED
    BY <2>3, <2>4
<1>7. CASE Trailing
  <2>1. /\ doc' = doc /\ next' = next /\ at = "node"
        /\ \/ at' = "end"
           \/ /\ at' = "window" /\ after' = "end" /\ first' = cursor
              /\ last' = doc.lines /\ index' = 0 /\ cursor <= doc.lines
    BY <1>7 DEF Trailing, Window
  <2>2. PlacesLeft' < PlacesLeft /\ NodesLeft' = NodesLeft
    BY <2>1 DEF PlacesLeft, NodesLeft
  <2>3. InTheFile'
    BY <1>1, <2>1 DEF InTheFile
  <2> QED
    BY <2>2, <2>3
<1>8. CASE End
  <2>1. /\ doc' = doc /\ next' = next /\ at = "end"
        /\ \/ at' = "done"
           \/ at' = "window" /\ after' = "done" /\ first' = 1 /\ last' = doc.lines /\ index' = 0
    BY <1>8 DEF End, Window
  <2>2. PlacesLeft' < PlacesLeft /\ NodesLeft' = NodesLeft
    BY <2>1 DEF PlacesLeft, NodesLeft
  <2>3. InTheFile'
    BY <1>1, <2>1 DEF InTheFile
  <2> QED
    BY <2>2, <2>3
<1>9. CASE Cut
  <2>1. /\ UNCHANGED <<doc, next, after, first, last>> /\ at = "window"
        /\ \/ at' = after
           \/ /\ at' = "window" /\ index' = index + Step
              /\ ~(index + CHUNK_LINES >= last - first + 1)
    BY <1>9 DEF Cut
  <2>2. NodesLeft' = NodesLeft
    BY <2>1 DEF NodesLeft
  <2>3. CASE at' = after
    <3>1. after \in {"node", "define", "end", "done"}
      BY DEF ChunkerInv, ChunkerTypeOK
    <3>2. PlacesLeft' < PlacesLeft
      BY <2>1, <2>3, <3>1 DEF PlacesLeft
    <3>3. InTheFile'
      BY <1>1, <2>1, <2>3, <3>1 DEF InTheFile
    <3> QED
      BY <2>2, <3>2, <3>3
  <2>4. CASE at' = "window" /\ index' = index + Step /\ ~(index + CHUNK_LINES >= last - first + 1)
    <3>1. PlacesLeft' = PlacesLeft
      BY <2>1, <2>4 DEF PlacesLeft
    <3>2. Step \in 1 .. CHUNK_LINES /\ CHUNK_LINES \in Nat
      BY ChunkerAssumption DEF Step
    <3>3. LinesLeft' < LinesLeft /\ index' <= last' - first'
      BY <1>1, <2>1, <2>4, <3>2 DEF LinesLeft
    <3> QED
      BY <1>1, <2>1, <2>2, <3>1, <3>3 DEF InTheFile
  <2> QED
    BY <2>1, <2>3, <2>4
<1> QED
  BY <1>3, <1>4, <1>5, <1>6, <1>7, <1>8, <1>9 DEF ChunkerNext

(* _chunk_by_ast and _window come to an end with every file: each turn     *)
(* leaves fewer nodes, a later place or fewer lines of the window; that a  *)
(* window is larger than its overlap is what makes the last of them so.    *)
THEOREM CuttingEnds == ChunkerSpec => EveryCutAdvances
<1> DEFINE Cuts == /\ NodesLeft \in Nat /\ PlacesLeft \in 0 .. 6
                   /\ (at = "window" => LinesLeft \in Nat) /\ Advances
<1>1. ChunkerInit /\ ChunkerInv => InTheFile
  <2> SUFFICES ASSUME ChunkerInit, ChunkerInv PROVE InTheFile
    OBVIOUS
  <2>1. Len(doc.nodes) \in Nat
    BY DocType DEF ChunkerInv
  <2> QED
    BY <2>1 DEF ChunkerInit, InTheFile
<1>2. ChunkerInv /\ ChunkerInv' /\ InTheFile /\ [ChunkerNext]_chunkerVars => InTheFile' /\ [Cuts]_chunkerVars
  <2> SUFFICES ASSUME ChunkerInv, ChunkerInv', InTheFile, [ChunkerNext]_chunkerVars
               PROVE  InTheFile' /\ [Cuts]_chunkerVars
    OBVIOUS
  <2>1. CASE UNCHANGED chunkerVars
    BY <2>1 DEF chunkerVars, InTheFile
  <2>2. CASE ChunkerNext
    <3>1. /\ next \in Nat /\ first \in Nat /\ last \in Nat /\ index \in Nat /\ Len(doc.nodes) \in Nat
          /\ at \in {"start", "node", "define", "end", "window", "done"}
          /\ after \in {"node", "define", "end", "done"}
      BY DocType DEF ChunkerInv, ChunkerTypeOK
    <3>2. NodesLeft \in Nat /\ (at = "window" => LinesLeft \in Nat)
      BY <3>1 DEF InTheFile, NodesLeft, LinesLeft
    <3>3. PlacesLeft \in 0 .. 6
      BY <3>1 DEF PlacesLeft
    <3> QED
      BY <2>2, <3>2, <3>3, StaysInTheFile
  <2> QED
    BY <2>1, <2>2
<1> QED
  BY <1>1, <1>2, ChunkerInvariance, PTL DEF ChunkerSpec, EveryCutAdvances

(* Every line that is not blank lies in a chunk when the file is cut,      *)
(* whatever the syntax tree says (chunker.py _chunk_by_ast, _window).      *)
THEOREM NoLineIsLost == ChunkerSpec => []EveryLineIsChunked
<1>1. ChunkerInv => EveryLineIsChunked
    BY DEF ChunkerInv, Place, EveryLineIsChunked
<1> QED
    BY <1>1, ChunkerInvariance, PTL

(* No chunk is larger than a window or the largest definition.             *)
THEOREM Bounded == ChunkerSpec => []ChunksAreBounded
<1>1. ChunkerInit => ChunksAreBounded
    BY DEF ChunkerInit, ChunksAreBounded
<1>2. ASSUME ChunkerInv, ChunksAreBounded, [ChunkerNext]_chunkerVars PROVE ChunksAreBounded'
    <2>0. ChunkerTypeOK /\ Place
        BY <1>2 DEF ChunkerInv
    <2>1. CASE Cut
        <3>1. /\ first + index \in Nat /\ LastOfWindow \in Int
              /\ LastOfWindow - (first + index) + 1 <= CHUNK_LINES
            BY <2>0, ChunkerAssumption DEF ChunkerTypeOK, LastOfWindow
        <3>2. chunks' \subseteq chunks \cup {[first |-> first + index, last |-> LastOfWindow]}
            BY <2>1 DEF Cut, Emit
        <3> QED
            BY <1>2, <3>1, <3>2 DEF ChunksAreBounded
    <2>2. CASE Define
        <3> DEFINE node == doc.nodes[next]
        <3>1. CASE Large(node)
            BY <1>2, <2>2, <3>1 DEF Define, ChunksAreBounded
        <3>2. CASE ~Large(node)
            <4>1. next \in 1 .. Len(doc.nodes)
                BY <2>0, <2>2, DocType DEF Define, Place, ChunkerTypeOK
            <4>2. node.first \in Nat /\ node.last \in Nat
                BY <4>1, <2>0, DocType DEF Node
            <4>3. node.last - node.first + 1 <= MAX_DEFINITION_LINES
                BY <3>2, <4>2, ChunkerAssumption DEF Large
            <4>4. chunks' \subseteq chunks \cup {[first |-> node.first, last |-> node.last]}
                BY <2>2, <3>2 DEF Define, Emit
            <4> QED
                BY <1>2, <4>3, <4>4 DEF ChunksAreBounded
        <3> QED
            BY <3>1, <3>2
    <2>3. CASE StartFile \/ SkipNode \/ LooseCode \/ Trailing \/ End \/ UNCHANGED chunkerVars
        <3>1. chunks' = chunks
            BY <2>3 DEF StartFile, SkipNode, LooseCode, Trailing, End, chunkerVars
        <3> QED
            BY <1>2, <3>1 DEF ChunksAreBounded
    <2> QED
        BY <1>2, <2>1, <2>2, <2>3 DEF ChunkerNext
<1> QED
    BY <1>1, <1>2, ChunkerInvariance, PTL DEF ChunkerSpec

(* Every variable keeps its type: chunks are ranges of lines.              *)
THEOREM ChunkerTypeCorrect == ChunkerSpec => []ChunkerTypeOK
<1>1. ChunkerInv => ChunkerTypeOK
    BY DEF ChunkerInv
<1> QED
    BY <1>1, ChunkerInvariance, PTL

-----------------------------------------------------------------------------
(* The index.  Rows are looked at by table: PrintsOf and FilesOf are       *)
(* Fingerprints and the readers' view of any set of rows.                  *)
Writer == Job \cup {Old}
RowSet ==
  [table : {"chunk", "print"}, path : Path, of : Version, by : Writer]
    \cup [table : {"edge"}, path : Path, of : Path, by : Writer]

Table(R, k) == {r \in R : r.table = k}
PrintsOf(R) ==
  [p \in Path |-> IF \E r \in Table(R, "print") : r.path = p
                  THEN (CHOOSE r \in Table(R, "print") : r.path = p).of ELSE NoFile]
FilesOf(R) == [p \in Path |-> {r.of : r \in {q \in Table(R, "chunk") : q.path = p}}]
GraphOf(R) == {<<r.path, r.of>> : r \in Table(R, "edge")}
StoredAs(v) == IF v = NoFile THEN {} ELSE {v}

(* A path has one fingerprint (the table's unique constraint). *)
OnePrint(R) == \A r, s \in Table(R, "print") : r.path = s.path => r = s
(* The chunks of a path are of the version its fingerprint names. *)
Agree(R) == \A p \in Path : FilesOf(R)[p] = StoredAs(PrintsOf(R)[p])

Places == {"unused", "accepted", "load", "embed", "settle", "failed", "over"} \cup Writing
JobState ==
  [at : Places, tree : Tree, found : Tree, asked : BOOLEAN,
   todo : SUBSET RowSet, gone : SUBSET RowSet, fresh : BOOLEAN]

Types ==
  /\ TypeOK /\ rows \in SUBSET RowSet /\ job \in [Job -> JobState]
  /\ removal \in [at : {"none", "counted", "done"}, existing : SUBSET Run]

(* A job that is not writing has deleted nothing, a writer has deleted the *)
(* fingerprints of its stale files only, and a statement is in progress    *)
(* only where a writer has one.                                            *)
JobOK(i) ==
  /\ job[i].at \notin Writing => job[i].todo = {} /\ job[i].gone = {}
  /\ job[i].asked => job[i].at \in {"chunk", "edge", "print"}
  /\ \A r \in job[i].todo \cup job[i].gone : r.table = "print" => r.path \in Stale(i)

(* What a writer that is alone has deleted of the index, and is deleting.  *)
Progress(i) ==
  /\ job[i].at = "chunk" =>
       job[i].asked /\ job[i].todo = Matching(i, "chunk") /\ job[i].gone = {}
  /\ job[i].at = "edge" =>
       /\ job[i].gone = Matching(i, "chunk")
       /\ job[i].asked => job[i].todo = Of("edge")
  /\ job[i].at = "print" =>
       /\ job[i].gone = Matching(i, "chunk") \cup Of("edge")
       /\ job[i].asked => job[i].todo = Matching(i, "print")
  /\ job[i].at = "commit" =>
       job[i].gone = Matching(i, "chunk") \cup Of("edge") \cup Matching(i, "print")

OneWriter == \A i, j \in Job : job[i].at \in Writing /\ job[j].at \in Writing => i = j

(* The runs that existed when a disconnect counted them have ended. *)
Counted ==
  removal.at = "counted" =>
    Live /\ \A r \in removal.existing : run[r] \in {"detached", "over"}

IndexInv ==
  /\ Types /\ OnePrint(rows) /\ Counted
  /\ ~Live => rows = {}
  /\ \A i \in Job : JobOK(i)
  /\ \A i \in Job : Live /\ job[i].fresh => job[i].found = Fingerprints
  /\ ~torn => Agree(rows) /\ OneWriter
  /\ ~torn /\ Live => \A i \in Job : Progress(i)

LEMMA Unfolded ==
  /\ Fingerprints = PrintsOf(rows) /\ Fingerprints' = PrintsOf(rows')
  /\ \A k : Of(k) = Table(rows, k) /\ Of(k)' = Table(rows', k)
BY DEF Fingerprints, PrintsOf, Of, Table

(* With one fingerprint for each path, the version of a path is the one    *)
(* that a row names.                                                       *)
Has(R, k, p, v) == \E r \in R : r.table = k /\ r.path = p /\ r.of = v

LEMMA RowShape ==
  ASSUME NEW r \in RowSet
  PROVE  /\ r.path \in Path /\ r.by \in Writer
         /\ r.table \in {"chunk", "print"} => r.of \in Version /\ r.of # NoFile
         /\ r.table = "edge" => r.of \in Path
         /\ r.table \in {"chunk", "print", "edge"}
         /\ r = Row(r.table, r.path, r.of, r.by)
BY IndexAssumption DEF RowSet, Row

LEMMA PrintsAre ==
  ASSUME NEW R \in SUBSET RowSet, OnePrint(R)
  PROVE  /\ PrintsOf(R) \in Tree
         /\ \A p \in Path, v \in Version : PrintsOf(R)[p] = v <=> Has(R, "print", p, v)
<1>1. ASSUME NEW p \in Path, NEW r \in Table(R, "print"), r.path = p
      PROVE  PrintsOf(R)[p] = r.of /\ r.of \in Version
  <2>1. \A s \in Table(R, "print") : s.path = p => s = r
    BY <1>1 DEF OnePrint
  <2>2. (CHOOSE s \in Table(R, "print") : s.path = p) = r
    BY <1>1, <2>1
  <2>3. r \in RowSet /\ r.table = "print"
    BY DEF Table
  <2> QED
    BY <1>1, <2>2, <2>3, RowShape DEF PrintsOf
<1>2. ASSUME NEW p \in Path, ~ \E r \in Table(R, "print") : r.path = p
      PROVE  PrintsOf(R)[p] = NoFile
  BY <1>2 DEF PrintsOf
<1>3. PrintsOf(R) \in Tree
  <2>1. \A p \in Path : PrintsOf(R)[p] \in Version \cup {NoFile}
    BY <1>1, <1>2
  <2>2. PrintsOf(R) = [p \in Path |-> PrintsOf(R)[p]]
    BY DEF PrintsOf
  <2> QED
    BY <2>1, <2>2 DEF Tree
<1>4. ASSUME NEW p \in Path, NEW v \in Version
      PROVE  PrintsOf(R)[p] = v <=> Has(R, "print", p, v)
  <2>1. ASSUME PrintsOf(R)[p] = v PROVE Has(R, "print", p, v)
    <3>1. PICK r \in Table(R, "print") : r.path = p
      BY <1>2, <2>1, IndexAssumption
    <3> QED
      BY <1>1, <2>1, <3>1 DEF Has, Table
  <2>2. ASSUME Has(R, "print", p, v) PROVE PrintsOf(R)[p] = v
    BY <1>1, <2>2 DEF Has, Table
  <2> QED
    BY <2>1, <2>2
<1> QED
  BY <1>3, <1>4

LEMMA FilesAre ==
  ASSUME NEW R \in SUBSET RowSet, NEW p \in Path
  PROVE  /\ FilesOf(R)[p] \in SUBSET Version
         /\ \A v : v \in FilesOf(R)[p] <=> Has(R, "chunk", p, v)
<1>1. \A v : v \in FilesOf(R)[p] <=> Has(R, "chunk", p, v)
  BY DEF FilesOf, Has, Table
<1>2. \A v : Has(R, "chunk", p, v) => v \in Version
  BY RowShape DEF Has
<1> QED
  BY <1>1, <1>2

LEMMA AgreeIff ==
  ASSUME NEW R \in SUBSET RowSet, OnePrint(R)
  PROVE  Agree(R) <=> \A p \in Path, v \in Version : Has(R, "chunk", p, v) <=> Has(R, "print", p, v)
<1>1. ASSUME NEW p \in Path
      PROVE  FilesOf(R)[p] = StoredAs(PrintsOf(R)[p])
               <=> \A v \in Version : Has(R, "chunk", p, v) <=> Has(R, "print", p, v)
  <2>1. /\ PrintsOf(R)[p] \in Version \cup {NoFile}
        /\ \A v \in Version : PrintsOf(R)[p] = v <=> Has(R, "print", p, v)
    BY PrintsAre DEF Tree
  <2>2. /\ FilesOf(R)[p] \in SUBSET Version
        /\ \A v : v \in FilesOf(R)[p] <=> Has(R, "chunk", p, v)
    BY FilesAre
  <2>3. \A v \in Version : v \in StoredAs(PrintsOf(R)[p]) <=> PrintsOf(R)[p] = v
    BY IndexAssumption DEF StoredAs
  <2>4. StoredAs(PrintsOf(R)[p]) \in SUBSET Version
    BY <2>1 DEF StoredAs
  <2> QED
    BY <2>1, <2>2, <2>3, <2>4
<1> QED
  BY <1>1 DEF Agree

LEMMA InsertsAre ==
  ASSUME NEW i \in Job, job[i].tree \in Tree
  PROVE  /\ Inserts(i) \in SUBSET RowSet
         /\ \A k \in {"chunk", "print"}, p \in Path : \A v :
              Has(Inserts(i), k, p, v) <=> p \in Changed(i) /\ v = job[i].tree[p]
         /\ Table(Inserts(i), "edge") = EdgeRows(job[i].tree, i)
<1> DEFINE t == job[i].tree
           F == FileRows(t, Changed(i), i)
           E == EdgeRows(t, i)
<1>1. Changed(i) \subseteq Files(t) /\ \A p \in Files(t) : p \in Path /\ t[p] \in Version
  BY DEF Changed, Files, Tree
<1>2. i \in Writer
  BY DEF Writer
<1>3. ASSUME NEW r \in F
      PROVE  r \in RowSet /\ r.table \in {"chunk", "print"} /\ r.path \in Changed(i) /\ r.of = t[r.path]
  <2>1. PICK k \in {"chunk", "print"}, p \in Changed(i) \cap Files(t) : r = Row(k, p, t[p], i)
    BY DEF FileRows
  <2>2. p \in Path /\ t[p] \in Version
    BY <1>1
  <2> QED
    BY <1>2, <2>1, <2>2 DEF Row, RowSet
<1>4. ASSUME NEW r \in E
      PROVE  r \in RowSet /\ r.table = "edge"
  <2>1. PICK e \in Edges(t) : r = Row("edge", e[1], e[2], i)
    BY DEF EdgeRows
  <2>2. e[1] \in Path /\ e[2] \in Path
    BY <1>1 DEF Edges
  <2> QED
    BY <1>2, <2>1, <2>2 DEF Row, RowSet
<1>5. Inserts(i) = F \cup E
  BY DEF Inserts
<1> HIDE DEF F, E
<1>6. ASSUME NEW k \in {"chunk", "print"}, NEW p \in Path, NEW v
      PROVE  Has(Inserts(i), k, p, v) <=> p \in Changed(i) /\ v = t[p]
  <2>1. ASSUME Has(Inserts(i), k, p, v) PROVE p \in Changed(i) /\ v = t[p]
    BY <1>3, <1>4, <1>5, <2>1 DEF Has
  <2>2. ASSUME p \in Changed(i), v = t[p] PROVE Has(Inserts(i), k, p, v)
    <3>1. Row(k, p, t[p], i) \in F
      BY <1>1, <2>2 DEF F, FileRows
    <3> QED
      BY <1>5, <2>2, <3>1 DEF Has, Row
  <2> QED
    BY <2>1, <2>2
<1>7. Table(Inserts(i), "edge") = E
  BY <1>3, <1>4, <1>5 DEF Table
<1> QED
  BY <1>3, <1>4, <1>5, <1>6, <1>7 DEF E

LEMMA InitIndex == Init => IndexInv
<1> SUFFICES ASSUME Init PROVE IndexInv
  OBVIOUS
<1> USE IndexAssumption
<1>1. tree \in Tree /\ \A i \in Job : job[i] = Unused
  BY DEF Init
<1>2. Unused \in JobState /\ Unused.at \notin Writing /\ Unused.at = "unused"
  BY DEF Unused, JobState, Places, Writing, Tree
<1>3. job \in [Job -> JobState]
  BY <1>2 DEF Init
<1>4. CASE rows = {}
  <2>1. Types
    BY <1>1, <1>3, <1>4 DEF Init, Types, TypeOK
  <2>2. OnePrint(rows)
    BY <1>4 DEF OnePrint, Table
  <2>3. Agree(rows)
    <3>1. \A k, p, v : ~Has(rows, k, p, v)
      BY <1>4 DEF Has
    <3> QED
      BY <1>4, <2>2, <3>1, AgreeIff
  <2> QED
    BY <1>1, <1>2, <1>4, <2>1, <2>2, <2>3
    DEF Init, IndexInv, Counted, JobOK, Progress, OneWriter, Live, Unused, Writing
<1>5. CASE rows = FileRows(tree, Path, Old) \cup EdgeRows(tree, Old) /\ status = "indexed"
  <2>1. ASSUME NEW r \in FileRows(tree, Path, Old)
        PROVE  /\ r \in RowSet /\ r.table \in {"chunk", "print"}
               /\ r.of = tree[r.path] /\ r.by = Old
    <3>1. PICK k \in {"chunk", "print"}, p \in Path \cap Files(tree) : r = Row(k, p, tree[p], Old)
      BY DEF FileRows
    <3>2. p \in Path /\ tree[p] \in Version
      BY <1>1 DEF Files, Tree
    <3> QED
      BY <3>1, <3>2 DEF Row, RowSet, Writer
  <2>2. ASSUME NEW r \in EdgeRows(tree, Old)
        PROVE  r \in RowSet /\ r.table = "edge" /\ r.by = Old
    <3>1. PICK e \in Edges(tree) : r = Row("edge", e[1], e[2], Old)
      BY DEF EdgeRows
    <3>2. e[1] \in Path /\ e[2] \in Path
      BY DEF Edges, Files
    <3> QED
      BY <3>1, <3>2 DEF Row, RowSet, Writer
  <2>3. rows \in SUBSET RowSet
    BY <1>5, <2>1, <2>2
  <2>4. Types
    <3>1. \A r \in rows : r.table \in {"chunk", "edge", "print"} /\ r.by \in Job \cup {Old}
      BY <1>5, <2>1, <2>2
    <3> QED
      BY <1>1, <1>3, <1>5, <2>3, <3>1 DEF Init, Types, TypeOK
  <2>5. OnePrint(rows)
    <3> SUFFICES ASSUME NEW r \in Table(rows, "print"), NEW s \in Table(rows, "print"), r.path = s.path
                 PROVE  r = s
      BY DEF OnePrint
    <3>1. r \in FileRows(tree, Path, Old) /\ s \in FileRows(tree, Path, Old)
      BY <1>5, <2>2 DEF Table
    <3>2. r.table = s.table /\ r.of = s.of /\ r.by = s.by /\ r \in RowSet /\ s \in RowSet
      BY <2>1, <3>1 DEF Table
    <3>3. r = Row(r.table, r.path, r.of, r.by) /\ s = Row(s.table, s.path, s.of, s.by)
      BY <3>2, RowShape
    <3> QED
      BY <3>2, <3>3
  <2>6. Agree(rows)
    <3>1. ASSUME NEW p \in Path, NEW v \in Version, NEW k \in {"chunk", "print"}
          PROVE  Has(rows, k, p, v) <=> tree[p] = v
      <4>1. ASSUME Has(rows, k, p, v) PROVE tree[p] = v
        BY <1>5, <2>1, <2>2, <4>1 DEF Has
      <4>2. ASSUME tree[p] = v PROVE Has(rows, k, p, v)
        <5>1. p \in Files(tree)
          BY <4>2 DEF Files
        <5>2. Row(k, p, tree[p], Old) \in rows
          BY <1>5, <5>1 DEF FileRows
        <5> QED
          BY <4>2, <5>2 DEF Has, Row
      <4> QED
        BY <4>1, <4>2
    <3> QED
      BY <2>3, <2>5, <3>1, AgreeIff
  <2> QED
    BY <1>1, <1>2, <1>5, <2>4, <2>5, <2>6
    DEF Init, IndexInv, Counted, JobOK, Progress, OneWriter, Live, Unused, Writing
<1> QED
  BY <1>4, <1>5 DEF Init

(* A step of one job that leaves the rows alone. *)
LEMMA JobStep ==
  ASSUME IndexInv, NEW i \in Job, NEW s \in JobState, job' = [job EXCEPT ![i] = s],
         UNCHANGED <<tree, rows, torn, run, removal>>,
         status' = status \/ (Live /\ status' \in {"indexing", "indexed", "index_failed"}),
         JobOK(i)', Live /\ s.fresh => s.found = Fingerprints,
         s.at \in Writing => job[i].at \in Writing,
         ~torn /\ Live => Progress(i)'
  PROVE  IndexInv'
<1>1. Live' = Live
  BY DEF Live
<1>2. job' \in [Job -> JobState] /\ job'[i] = s /\ \A j \in Job \ {i} : job'[j] = job[j]
  BY DEF IndexInv, Types
<1>3. Types'
  BY <1>2 DEF IndexInv, Types, TypeOK, Live
<1>4. ASSUME NEW j \in Job PROVE JobOK(j)'
  <2>1. CASE j = i
    BY <2>1
  <2>2. CASE j # i
    BY <1>2, <2>2 DEF IndexInv, JobOK, Stale, Changed, Deleted
  <2> QED
    BY <2>1, <2>2
<1>5. ASSUME NEW j \in Job, ~torn', Live' PROVE Progress(j)'
  <2>1. CASE j = i
    BY <1>1, <1>5, <2>1
  <2>2. CASE j # i
    <3>1. Progress(j) /\ job'[j] = job[j]
      BY <1>1, <1>2, <1>5, <2>2 DEF IndexInv
    <3> QED
      BY <3>1 DEF Progress, Stale, Changed, Deleted, Matching, Of
  <2> QED
    BY <2>1, <2>2
<1>6. ASSUME NEW j \in Job, Live', job'[j].fresh PROVE job'[j].found = Fingerprints'
  BY <1>1, <1>2, <1>6, Unfolded DEF IndexInv
<1>7. ~torn' => Agree(rows') /\ OneWriter'
  BY <1>2 DEF IndexInv, OneWriter
<1>8. OnePrint(rows') /\ Counted' /\ (~Live' => rows' = {})
  BY <1>1 DEF IndexInv, Counted
<1> QED
  BY <1>3, <1>4, <1>5, <1>6, <1>7, <1>8 DEF IndexInv

(* A job that is not writing has nothing to account for. *)
LEMMA IdleStep ==
  ASSUME IndexInv, NEW i \in Job, NEW s \in JobState, job' = [job EXCEPT ![i] = s],
         UNCHANGED <<tree, rows, torn, run, removal>>,
         status' = status \/ (Live /\ status' \in {"indexing", "indexed", "index_failed"}),
         s.at \notin Writing, s.todo = {}, s.gone = {}, ~s.asked,
         Live /\ s.fresh => s.found = Fingerprints
  PROVE  IndexInv'
<1>1. job'[i] = s
  BY DEF IndexInv, Types
<1>2. JobOK(i)' /\ Progress(i)'
  BY <1>1 DEF JobOK, Progress, Writing
<1> QED
  BY <1>2, JobStep

LEMMA JobTypes ==
  ASSUME IndexInv, NEW i \in Job
  PROVE  /\ job[i] \in JobState /\ tree \in Tree /\ Fingerprints \in Tree
         /\ JobOK(i) /\ Unused \in JobState
         /\ rows \in SUBSET RowSet /\ OnePrint(rows)
         /\ ~torn /\ Live => Progress(i)
<1>1. Fingerprints \in Tree
  BY Unfolded, PrintsAre DEF IndexInv, Types
<1>2. Unused \in JobState
  BY IndexAssumption DEF Unused, JobState, Places, Writing, Tree
<1> QED
  BY <1>1, <1>2 DEF IndexInv, Types, TypeOK

LEMMA IdleSteps ==
  ASSUME IndexInv, NEW i \in Job,
         StartIndexing(i) \/ Clone(i) \/ Load(i) \/ IndexFails(i) \/ Settle(i) \/ Lose(i)
  PROVE  IndexInv'
<1> USE JobTypes DEF JobState, JobOK, Places, Writing, Unused
<1>1. CASE StartIndexing(i)
  <2> DEFINE s == [job[i] EXCEPT !.at = "accepted"]
  <2>1. s \in JobState /\ s.at = "accepted" /\ s.todo = {} /\ s.gone = {} /\ ~s.asked
        /\ s.fresh = job[i].fresh /\ s.found = job[i].found
    BY <1>1 DEF StartIndexing
  <2>2. job' = [job EXCEPT ![i] = s] /\ Live /\ status' = "indexing"
        /\ UNCHANGED <<tree, rows, torn, run, removal>>
    BY <1>1 DEF StartIndexing, IndexInv, Types
  <2> HIDE DEF s
  <2>3. Live /\ s.fresh => s.found = Fingerprints
    BY <2>1 DEF IndexInv
  <2> QED
    BY <2>1, <2>2, <2>3, IdleStep
<1>2. CASE Clone(i)
  <2> DEFINE s == IF Live THEN [job[i] EXCEPT !.at = "load", !.tree = tree]
                  ELSE [job[i] EXCEPT !.at = "over"]
  <2>1. s \in JobState /\ s.at \in {"load", "over"} /\ s.todo = {} /\ s.gone = {} /\ ~s.asked
        /\ s.fresh = job[i].fresh /\ s.found = job[i].found
    BY <1>2 DEF Clone
  <2>2. job' = [job EXCEPT ![i] = s] /\ UNCHANGED <<tree, status, rows, torn, run, removal>>
    BY <1>2 DEF Clone, IndexInv, Types
  <2> HIDE DEF s
  <2>3. Live /\ s.fresh => s.found = Fingerprints
    BY <2>1 DEF IndexInv
  <2> QED
    BY <2>1, <2>2, <2>3, IdleStep
<1>3. CASE Load(i)
  <2> DEFINE s == [job[i] EXCEPT !.at = "embed", !.found = Fingerprints, !.fresh = TRUE]
  <2>1. s \in JobState /\ s.at = "embed" /\ s.todo = {} /\ s.gone = {} /\ ~s.asked
        /\ s.found = Fingerprints
    BY <1>3 DEF Load
  <2>2. job' = [job EXCEPT ![i] = s] /\ UNCHANGED <<tree, status, rows, torn, run, removal>>
    BY <1>3 DEF Load, IndexInv, Types
  <2> HIDE DEF s
  <2> QED
    BY <2>1, <2>2, IdleStep
<1>4. CASE IndexFails(i) \/ Settle(i) \/ Lose(i)
  <2> DEFINE Ended(a) == [Unused EXCEPT !.at = a]
  <2>1. \A a \in {"failed", "over"} :
          /\ Ended(a) \in JobState /\ Ended(a).at = a /\ Ended(a).todo = {} /\ Ended(a).gone = {}
          /\ ~Ended(a).asked /\ ~Ended(a).fresh
    OBVIOUS
  <2>2. PICK a \in {"failed", "over"} : job' = [job EXCEPT ![i] = Ended(a)]
    BY <1>4 DEF IndexFails, Settle, Lose
  <2>3. UNCHANGED <<tree, rows, torn, run, removal>>
    BY <1>4 DEF IndexFails, Settle, Lose
  <2>4. status' = status \/ (Live /\ status' \in {"indexing", "indexed", "index_failed"})
    BY <1>4 DEF IndexFails, Settle, Lose, Verdict, IndexInv, Types, TypeOK, Live
  <2> HIDE DEF Ended
  <2> QED
    BY <2>1, <2>2, <2>3, <2>4, IdleStep
<1> QED
  BY <1>1, <1>2, <1>3, <1>4

(* Of a job's record only the place and the statement change. *)
LEMMA SameDiff ==
  ASSUME NEW i \in Job, job'[i].tree = job[i].tree, job'[i].found = job[i].found
  PROVE  /\ Stale(i)' = Stale(i) /\ Changed(i)' = Changed(i)
         /\ rows' = rows => \A k : Matching(i, k)' = Matching(i, k) /\ Of(k)' = Of(k)
BY DEF Stale, Changed, Deleted, Matching, Of

LEMMA MatchingRows ==
  ASSUME NEW i, NEW k
  PROVE  /\ Matching(i, k) \subseteq rows
         /\ \A r \in Matching(i, k) : r.table = k
         /\ k # "edge" => \A r \in Matching(i, k) : r.path \in Stale(i)
         /\ k = "edge" => Matching(i, k) = Of("edge")
         /\ Of(k) \subseteq rows
BY DEF Matching, Of

LEMMA DeleteStep == ASSUME IndexInv, NEW i \in Job, Delete(i) PROVE IndexInv'
<1> DEFINE s == [job[i] EXCEPT !.asked = TRUE, !.todo = Matching(i, job[i].at)]
<1>1. /\ job[i].at \in {"edge", "print"} /\ ~job[i].asked
      /\ job' = [job EXCEPT ![i] = s] /\ UNCHANGED <<tree, status, rows, torn, run, removal>>
  BY DEF Delete, IndexInv, Types
<1>2. /\ job[i] \in JobState /\ JobOK(i) /\ rows \in SUBSET RowSet
      /\ ~torn /\ Live => Progress(i) /\ job[i].at \in Writing
  BY <1>1, JobTypes DEF Writing
<1>3. Matching(i, job[i].at) \in SUBSET RowSet
  BY <1>2, MatchingRows
<1>4. /\ s \in JobState /\ s.at = job[i].at /\ s.asked /\ s.todo = Matching(i, job[i].at)
      /\ s.gone = job[i].gone /\ s.fresh = job[i].fresh /\ s.found = job[i].found
      /\ s.tree = job[i].tree
  BY <1>2, <1>3 DEF JobState
<1> HIDE DEF s
<1>5. job'[i] = s
  BY <1>1 DEF IndexInv, Types
<1>6. Stale(i)' = Stale(i) /\ \A k : Matching(i, k)' = Matching(i, k) /\ Of(k)' = Of(k)
  BY <1>1, <1>4, <1>5, SameDiff
<1>7. JobOK(i)'
  BY <1>1, <1>2, <1>4, <1>5, <1>6, MatchingRows DEF JobOK, Writing
<1>8. ASSUME ~torn, Live PROVE Progress(i)'
  BY <1>1, <1>2, <1>4, <1>5, <1>6, <1>8, MatchingRows DEF Progress
<1>9. Live /\ s.fresh => s.found = Fingerprints
  BY <1>4 DEF IndexInv
<1> QED
  BY <1>1, <1>2, <1>4, <1>7, <1>8, <1>9, JobStep DEF Writing

LEMMA DeletesStep == ASSUME IndexInv, NEW i \in Job, Deletes(i) PROVE IndexInv'
<1> DEFINE follows == CASE job[i].at = "chunk" -> "edge"
                     [] job[i].at = "edge" /\ Stale(i) # {} -> "print"
                     [] OTHER -> "commit"
           s == [job[i] EXCEPT !.asked = FALSE, !.todo = {},
                               !.gone = job[i].gone \cup (job[i].todo \cap rows), !.at = follows]
<1>1. /\ job[i].asked
      /\ job' = [job EXCEPT ![i] = s] /\ UNCHANGED <<tree, status, rows, torn, run, removal>>
  BY DEF Deletes, IndexInv, Types
<1>2. /\ job[i] \in JobState /\ JobOK(i) /\ rows \in SUBSET RowSet
      /\ ~torn /\ Live => Progress(i)
  BY JobTypes
<1>3. job[i].at \in {"chunk", "edge", "print"}
  BY <1>1, <1>2 DEF JobOK
<1>4. /\ follows \in {"edge", "print", "commit"}
      /\ job[i].at = "chunk" => follows = "edge"
      /\ job[i].at = "edge" => follows = IF Stale(i) # {} THEN "print" ELSE "commit"
      /\ job[i].at = "print" => follows = "commit"
  BY <1>3
<1> HIDE DEF follows
<1>5. /\ s \in JobState /\ s.at = follows /\ ~s.asked /\ s.todo = {}
      /\ s.gone = job[i].gone \cup (job[i].todo \cap rows)
      /\ s.fresh = job[i].fresh /\ s.found = job[i].found /\ s.tree = job[i].tree
  BY <1>2, <1>4 DEF JobState, Places, Writing
<1> HIDE DEF s
<1>6. job'[i] = s
  BY <1>1 DEF IndexInv, Types
<1>7. Stale(i)' = Stale(i) /\ \A k : Matching(i, k)' = Matching(i, k) /\ Of(k)' = Of(k)
  BY <1>1, <1>5, <1>6, SameDiff
<1>8. JobOK(i)'
  BY <1>2, <1>4, <1>5, <1>6, <1>7 DEF JobOK, Writing
<1>9. ASSUME ~torn, Live PROVE Progress(i)'
  <2>1. \A k : Matching(i, k) \cap rows = Matching(i, k) /\ Of(k) \cap rows = Of(k)
    BY MatchingRows
  <2>2. CASE job[i].at = "chunk"
    BY <1>1, <1>2, <1>4, <1>5, <1>6, <1>7, <1>9, <2>1, <2>2 DEF Progress
  <2>3. CASE job[i].at = "edge"
    <3>1. s.gone = Matching(i, "chunk") \cup Of("edge")
      BY <1>1, <1>2, <1>5, <1>9, <2>1, <2>3 DEF Progress
    <3>2. Stale(i) = {} => Matching(i, "print") = {}
      BY MatchingRows
    <3> QED
      BY <1>4, <1>5, <1>6, <1>7, <2>3, <3>1, <3>2 DEF Progress
  <2>4. CASE job[i].at = "print"
    <3>1. s.gone = (Matching(i, "chunk") \cup Of("edge")) \cup Matching(i, "print")
      BY <1>1, <1>2, <1>5, <1>9, <2>1, <2>4 DEF Progress
    <3> QED
      BY <1>4, <1>5, <1>6, <1>7, <2>4, <3>1 DEF Progress
  <2> QED
    BY <1>3, <2>2, <2>3, <2>4
<1>10. Live /\ s.fresh => s.found = Fingerprints
  BY <1>5 DEF IndexInv
<1> QED
  BY <1>1, <1>3, <1>5, <1>8, <1>9, <1>10, JobStep DEF Writing

(* A writer that begins beside another tears the index. *)
LEMMA BeginStep == ASSUME IndexInv, NEW i \in Job, BeginWrite(i) PROVE IndexInv'
<1> DEFINE start == IF Stale(i) = {} THEN "edge" ELSE "chunk"
           s == [job[i] EXCEPT !.at = start, !.asked = TRUE, !.todo = Matching(i, start)]
<1>1. /\ job[i].at = "embed" /\ job' = [job EXCEPT ![i] = s]
      /\ torn' = (torn \/ \E j \in Job \ {i} : job[j].at \in Writing)
      /\ UNCHANGED <<tree, status, rows, run, removal>>
  BY DEF BeginWrite, IndexInv, Types
<1>2. /\ job[i] \in JobState /\ JobOK(i) /\ rows \in SUBSET RowSet
      /\ job[i].gone = {} /\ start \in {"edge", "chunk"}
      /\ torn \in BOOLEAN
  BY <1>1, JobTypes DEF JobOK, Writing, IndexInv, Types, TypeOK
<1>3. start = "edge" => Matching(i, "chunk") = {}
  BY MatchingRows
<1> HIDE DEF start
<1>4. Matching(i, start) \in SUBSET RowSet
  BY <1>2, MatchingRows
<1>5. /\ s \in JobState /\ s.at = start /\ s.asked /\ s.todo = Matching(i, start)
      /\ s.gone = {} /\ s.fresh = job[i].fresh /\ s.found = job[i].found
      /\ s.tree = job[i].tree
  BY <1>2, <1>4 DEF JobState, Places, Writing
<1> HIDE DEF s
<1>6. /\ job' \in [Job -> JobState] /\ job'[i] = s /\ \A j \in Job \ {i} : job'[j] = job[j]
  BY <1>1, <1>5 DEF IndexInv, Types
<1>7. Stale(i)' = Stale(i) /\ \A k : Matching(i, k)' = Matching(i, k) /\ Of(k)' = Of(k)
  BY <1>1, <1>5, <1>6, SameDiff
<1>8. Types'
  <2>1. torn' \in BOOLEAN
    BY <1>1, <1>2
  <2> QED
    BY <1>1, <1>6, <2>1 DEF IndexInv, Types, TypeOK
<1>9. ASSUME NEW j \in Job PROVE JobOK(j)'
  <2>1. CASE j = i
    BY <1>2, <1>5, <1>6, <1>7, <2>1, MatchingRows DEF JobOK, Writing
  <2>2. CASE j # i
    BY <1>6, <2>2 DEF IndexInv, JobOK, Stale, Changed, Deleted
  <2> QED
    BY <2>1, <2>2
<1>10. Live' = Live
  BY <1>1 DEF Live
<1>11. ASSUME NEW j \in Job, ~torn', Live' PROVE Progress(j)'
  <2>1. CASE j = i
    BY <1>2, <1>3, <1>5, <1>6, <1>7, <2>1, MatchingRows DEF Progress
  <2>2. CASE j # i
    <3>1. Progress(j) /\ job'[j] = job[j]
      BY <1>1, <1>6, <1>10, <1>11, <2>2 DEF IndexInv
    <3> QED
      BY <1>1, <3>1 DEF Progress, Stale, Changed, Deleted, Matching, Of
  <2> QED
    BY <2>1, <2>2
<1>12. ASSUME NEW j \in Job, Live', job'[j].fresh PROVE job'[j].found = Fingerprints'
  BY <1>1, <1>5, <1>6, <1>10, <1>12, Unfolded DEF IndexInv
<1>13. ~torn' => Agree(rows') /\ OneWriter'
  BY <1>1, <1>6 DEF IndexInv, OneWriter
<1>14. OnePrint(rows') /\ Counted' /\ (~Live' => rows' = {})
  BY <1>1, <1>10 DEF IndexInv, Counted
<1> QED
  BY <1>8, <1>9, <1>11, <1>12, <1>13, <1>14 DEF IndexInv

-----------------------------------------------------------------------------
(* The fingerprints after a commit are those before it or those of the     *)
(* tree the writer has read, whoever wrote beside it.                      *)
LEMMA CommitPrints ==
  ASSUME IndexInv, NEW i \in Job, CommitIndex(i)
  PROVE  /\ rows' \in SUBSET RowSet /\ OnePrint(rows')
         /\ \A p \in Path : PrintsOf(rows')[p] \in {PrintsOf(rows)[p], job[i].tree[p]}
<1> DEFINE t == job[i].tree
<1>1. /\ job[i] \in JobState /\ t \in Tree /\ JobOK(i)
      /\ rows \in SUBSET RowSet /\ OnePrint(rows)
  BY JobTypes DEF JobState
<1>2. /\ rows' = (rows \ job[i].gone) \cup Inserts(i)
      /\ \A r \in Of("print") \ job[i].gone : r.path \notin Changed(i)
  BY DEF CommitIndex
<1>3. /\ Inserts(i) \in SUBSET RowSet
      /\ \A k \in {"chunk", "print"}, p \in Path : \A v :
           Has(Inserts(i), k, p, v) <=> p \in Changed(i) /\ v = t[p]
  BY <1>1, InsertsAre
<1>4. rows' \in SUBSET RowSet
  BY <1>1, <1>2, <1>3
<1>5. ASSUME NEW r \in Inserts(i), r.table = "print"
      PROVE  r = Row("print", r.path, t[r.path], i) /\ r.path \in Changed(i) /\ r.path \in Path
  <2>1. r \in FileRows(t, Changed(i), i)
    BY <1>5 DEF Inserts, EdgeRows, Row
  <2>2. PICK k \in {"chunk", "print"}, p \in Changed(i) \cap Files(t) : r = Row(k, p, t[p], i)
    BY <2>1 DEF FileRows
  <2> QED
    BY <1>5, <2>2 DEF Row, Files
<1>6. OnePrint(rows')
  <2> SUFFICES ASSUME NEW r \in Table(rows', "print"), NEW s \in Table(rows', "print"), r.path = s.path
               PROVE  r = s
    BY DEF OnePrint
  <2>1. /\ r.table = "print" /\ s.table = "print"
        /\ r \in Inserts(i) \/ r \in Of("print") \ job[i].gone
        /\ s \in Inserts(i) \/ s \in Of("print") \ job[i].gone
    BY <1>2 DEF Table, Of
  <2>2. CASE r \in Inserts(i) /\ s \in Inserts(i)
    BY <1>5, <2>1, <2>2
  <2>3. CASE r \in Of("print") \ job[i].gone /\ s \in Of("print") \ job[i].gone
    BY <1>1, <2>3, Unfolded DEF OnePrint
  <2> QED
    BY <1>2, <1>5, <2>1, <2>2, <2>3
<1>7. ASSUME NEW p \in Path PROVE PrintsOf(rows')[p] \in {PrintsOf(rows)[p], t[p]}
  <2>1. /\ PrintsOf(rows)[p] \in Version \cup {NoFile} /\ PrintsOf(rows')[p] \in Version \cup {NoFile}
        /\ t[p] \in Version \cup {NoFile}
        /\ \A v \in Version : PrintsOf(rows)[p] = v <=> Has(rows, "print", p, v)
        /\ \A v \in Version : PrintsOf(rows')[p] = v <=> Has(rows', "print", p, v)
    BY <1>1, <1>4, <1>6, PrintsAre DEF Tree
  <2>2. CASE PrintsOf(rows')[p] \in Version
    <3> DEFINE v == PrintsOf(rows')[p]
    <3>1. PICK r \in rows' : r.table = "print" /\ r.path = p /\ r.of = v
      BY <2>1, <2>2 DEF Has
    <3>2. CASE r \in Inserts(i)
      BY <1>5, <3>1, <3>2 DEF Row
    <3>3. CASE r \in rows
      <4>1. Has(rows, "print", p, v)
        BY <3>1, <3>3 DEF Has
      <4> QED
        BY <2>1, <2>2, <4>1
    <3> QED
      BY <1>2, <3>2, <3>3
  <2>3. CASE PrintsOf(rows')[p] = NoFile /\ PrintsOf(rows)[p] # NoFile
    <3>1. PICK r \in rows : r.table = "print" /\ r.path = p
      BY <2>1, <2>3 DEF Has
    <3>2. r \notin rows'
      <4>1. r \in RowSet
        BY <1>1
      <4>2. r.of \in Version
        BY <3>1, <4>1, RowShape
      <4> QED
        BY <2>1, <2>3, <3>1, <4>2, IndexAssumption DEF Has
    <3>3. r \in job[i].gone
      BY <1>2, <3>2
    <3>4. p \in Stale(i)
      BY <1>1, <3>1, <3>3 DEF JobOK
    <3>5. p \notin Changed(i)
      <4>1. ASSUME p \in Changed(i) PROVE FALSE
        <5>1. t[p] \in Version
          BY <2>1, <4>1 DEF Changed, Files
        <5>2. Has(Inserts(i), "print", p, t[p])
          BY <1>3, <4>1
        <5>3. Has(rows', "print", p, t[p])
          BY <1>2, <5>2 DEF Has
        <5> QED
          BY <2>1, <2>3, <5>1, <5>3, IndexAssumption
      <4> QED
        BY <4>1
    <3>6. p \notin Files(t)
      BY <3>4, <3>5 DEF Stale, Deleted
    <3> QED
      BY <2>1, <2>3, <3>6 DEF Files
  <2> QED
    BY <2>1, <2>2, <2>3
<1> QED
  BY <1>4, <1>6, <1>7

(* A writer that was alone leaves the files of its tree that it found      *)
(* stale, the other files as they were, and the edges of its tree.         *)
LEMMA CommitAlone ==
  ASSUME IndexInv, NEW i \in Job, CommitIndex(i), ~torn, Live
  PROVE  /\ \A k \in {"chunk", "print"}, p \in Path : \A v :
              Has(rows', k, p, v) <=>
                \/ p \notin Stale(i) /\ Has(rows, k, p, v)
                \/ p \in Changed(i) /\ v = job[i].tree[p]
         /\ Table(rows', "edge") = EdgeRows(job[i].tree, i)
         /\ Agree(rows')
<1> DEFINE t == job[i].tree
<1>1. /\ job[i] \in JobState /\ t \in Tree /\ rows \in SUBSET RowSet /\ Progress(i) /\ job[i].at = "commit"
      /\ rows' = (rows \ job[i].gone) \cup Inserts(i)
      /\ OnePrint(rows) /\ Agree(rows)
  BY JobTypes DEF JobState, CommitIndex, IndexInv
<1>2. job[i].gone = Matching(i, "chunk") \cup Of("edge") \cup Matching(i, "print")
  BY <1>1 DEF Progress
<1>3. /\ \A k \in {"chunk", "print"}, p \in Path : \A v :
           Has(Inserts(i), k, p, v) <=> p \in Changed(i) /\ v = t[p]
      /\ Table(Inserts(i), "edge") = EdgeRows(t, i)
  BY <1>1, InsertsAre
<1>4. ASSUME NEW r \in rows, r.table \in {"chunk", "print"}
      PROVE  r \in job[i].gone <=> r.path \in Stale(i)
  BY <1>2, <1>4 DEF Matching, Of
<1>5. ASSUME NEW k \in {"chunk", "print"}, NEW p \in Path, NEW v
      PROVE  Has(rows', k, p, v) <=>
               \/ p \notin Stale(i) /\ Has(rows, k, p, v)
               \/ p \in Changed(i) /\ v = t[p]
  <2>1. Has(rows', k, p, v) <=> Has(rows \ job[i].gone, k, p, v) \/ Has(Inserts(i), k, p, v)
    BY <1>1 DEF Has
  <2>2. Has(rows \ job[i].gone, k, p, v) <=> p \notin Stale(i) /\ Has(rows, k, p, v)
    BY <1>4 DEF Has
  <2> QED
    BY <1>3, <2>1, <2>2
<1>6. Table(rows', "edge") = EdgeRows(t, i)
  <2>1. Table(rows \ job[i].gone, "edge") = {}
    BY <1>2 DEF Table, Of
  <2> QED
    BY <1>1, <1>3, <2>1 DEF Table
<1>7. Agree(rows')
  <2>1. rows' \in SUBSET RowSet /\ OnePrint(rows')
    BY CommitPrints
  <2>2. \A p \in Path, v \in Version : Has(rows, "chunk", p, v) <=> Has(rows, "print", p, v)
    BY <1>1, AgreeIff
  <2>3. \A p \in Path, v \in Version : Has(rows', "chunk", p, v) <=> Has(rows', "print", p, v)
    BY <1>5, <2>2
  <2> QED
    BY <2>1, <2>3, AgreeIff
<1> QED
  BY <1>5, <1>6, <1>7

LEMMA CommitStep == ASSUME IndexInv, NEW i \in Job, CommitIndex(i) PROVE IndexInv'
<1> DEFINE s == [Unused EXCEPT !.at = "settle", !.tree = job[i].tree]
<1>1. /\ job[i].at = "commit" /\ (Live \/ Inserts(i) = {})
      /\ rows' = (rows \ job[i].gone) \cup Inserts(i)
      /\ job' = [j \in Job |-> IF j = i THEN s ELSE [job[j] EXCEPT !.fresh = FALSE]]
      /\ UNCHANGED <<tree, status, torn, run, removal>>
  BY DEF CommitIndex
<1>2. /\ s \in JobState /\ s.at = "settle" /\ s.todo = {} /\ s.gone = {} /\ ~s.asked /\ ~s.fresh
  BY JobTypes DEF JobState, Unused, Places
<1> HIDE DEF s
<1>3. ASSUME NEW j \in Job \ {i}
      PROVE  /\ job'[j] \in JobState /\ ~job'[j].fresh
             /\ job'[j].at = job[j].at /\ job'[j].asked = job[j].asked
             /\ job'[j].todo = job[j].todo /\ job'[j].gone = job[j].gone
             /\ job'[j].tree = job[j].tree /\ job'[j].found = job[j].found
  BY <1>1, JobTypes DEF JobState
<1>4. job'[i] = s /\ job' \in [Job -> JobState]
  BY <1>1, <1>2, <1>3
<1>5. rows' \in SUBSET RowSet /\ OnePrint(rows')
  BY CommitPrints
<1>6. Types'
  <2>1. \A r \in rows' : r.table \in {"chunk", "edge", "print"} /\ r.by \in Job \cup {Old}
    BY <1>5, RowShape DEF Writer
  <2> QED
    BY <1>1, <1>4, <1>5, <2>1 DEF IndexInv, Types, TypeOK
<1>7. Live' = Live
  BY <1>1 DEF Live
<1>8. ~Live => rows' = {} /\ rows = {}
  BY <1>1 DEF IndexInv
<1>9. ASSUME NEW j \in Job PROVE JobOK(j)'
  <2>1. CASE j = i
    BY <1>2, <1>4, <2>1 DEF JobOK, Writing
  <2>2. CASE j # i
    <3>1. JobOK(j) /\ Stale(j)' = Stale(j)
      BY <1>3, <2>2, SameDiff DEF IndexInv
    <3> QED
      BY <1>3, <2>2, <3>1 DEF JobOK
  <2> QED
    BY <2>1, <2>2
<1>10. ASSUME ~torn PROVE Agree(rows') /\ OneWriter' /\ \A j \in Job \ {i} : job[j].at \notin Writing
  <2>1. Agree(rows')
    BY <1>8, <1>10, CommitAlone DEF IndexInv
  <2>2. \A j \in Job \ {i} : job[j].at \notin Writing
    BY <1>1, <1>10 DEF IndexInv, OneWriter, Writing
  <2>3. OneWriter'
    BY <1>2, <1>3, <1>4, <2>2 DEF OneWriter, Writing
  <2> QED
    BY <2>1, <2>2, <2>3
<1>11. ASSUME ~torn', NEW j \in Job PROVE Progress(j)'
  BY <1>1, <1>2, <1>3, <1>4, <1>10, <1>11 DEF Progress, Writing
<1>12. \A j \in Job : ~job'[j].fresh
  BY <1>2, <1>3, <1>4
<1>13. Counted'
  BY <1>1, <1>7 DEF IndexInv, Counted
<1> QED
  BY <1>1, <1>5, <1>6, <1>7, <1>8, <1>9, <1>10, <1>11, <1>12, <1>13 DEF IndexInv

(* A restart leaves no job that has read or is writing anything. *)
LEMMA RestartStep == ASSUME IndexInv, Restart PROVE IndexInv'
<1>1. /\ UNCHANGED <<tree, status, rows, torn, run>>
      /\ removal' = [at |-> "none", existing |-> {}]
  BY DEF Restart
<1>2. ASSUME NEW i \in Job
      PROVE  /\ job'[i] \in JobState /\ job'[i].at \in {"unused", "over"} /\ ~job'[i].fresh
             /\ job'[i].todo = {} /\ job'[i].gone = {} /\ ~job'[i].asked
  BY JobTypes DEF Restart, JobState, Unused, Places
<1>3. job' \in [Job -> JobState]
  BY <1>2 DEF Restart
<1>4. Types'
  BY <1>1, <1>3 DEF IndexInv, Types, TypeOK
<1>5. \A i \in Job : JobOK(i)' /\ Progress(i)'
  BY <1>2 DEF JobOK, Progress, Writing
<1>6. OneWriter'
  BY <1>2 DEF OneWriter, Writing
<1> QED
  BY <1>1, <1>2, <1>4, <1>5, <1>6 DEF IndexInv, Counted, Live

LEMMA DisconnectStep == ASSUME IndexInv, Disconnect PROVE IndexInv'
<1>1. /\ removal' = [removal EXCEPT !.at = "done"] /\ status' = "gone" /\ rows' = {}
      /\ run' = [r \in Run |-> IF run[r] = "active" THEN "detached" ELSE run[r]]
      /\ UNCHANGED <<tree, job, torn>>
  BY DEF Disconnect
<1>2. Types'
  <2>1. removal' \in [at : {"none", "counted", "done"}, existing : SUBSET Run]
    BY <1>1 DEF IndexInv, Types
  <2>2. run' \in [Run -> {"none", "active", "detached", "over"}]
    BY <1>1 DEF IndexInv, Types, TypeOK
  <2> QED
    BY <1>1, <2>1, <2>2 DEF IndexInv, Types, TypeOK
<1>3. OnePrint(rows') /\ Agree(rows')
  <2>1. OnePrint(rows') /\ rows' \in SUBSET RowSet
    BY <1>1 DEF OnePrint, Table
  <2>2. \A k, p, v : ~Has(rows', k, p, v)
    BY <1>1 DEF Has
  <2> QED
    BY <2>1, <2>2, AgreeIff
<1>4. \A i \in Job : JobOK(i)'
  BY <1>1 DEF IndexInv, JobOK, Stale, Changed, Deleted
<1>5. ~Live' /\ removal'.at = "done"
  BY <1>1 DEF Live, IndexInv, Types
<1>6. ~torn' => OneWriter'
  BY <1>1 DEF IndexInv, OneWriter
<1> QED
  BY <1>1, <1>2, <1>3, <1>4, <1>5, <1>6 DEF IndexInv, Counted

(* The remote, the runs, a disconnect's count and a search leave the index *)
(* and its writers alone.                                                  *)
LEMMA OtherSteps ==
  ASSUME IndexInv,
         \/ Push \/ CountRuns \/ DisconnectAborts \/ VectorArm \/ TextArm \/ UNCHANGED vars
         \/ \E r \in Run : CreateRun(r) \/ EndRun(r)
  PROVE  IndexInv'
<1>1. UNCHANGED <<status, rows, job, torn>>
  BY DEF Push, CountRuns, DisconnectAborts, VectorArm, TextArm, vars, CreateRun, EndRun
<1>2. tree' \in Tree
  <2>1. tree \in Tree
    BY JobTypes DEF IndexInv, Types, TypeOK
  <2> QED
    BY <2>1 DEF Push, CountRuns, DisconnectAborts, VectorArm, TextArm, vars, CreateRun, EndRun, Tree
<1>3. /\ run' \in [Run -> {"none", "active", "detached", "over"}]
      /\ removal' \in [at : {"none", "counted", "done"}, existing : SUBSET Run]
  <2>1. /\ run \in [Run -> {"none", "active", "detached", "over"}]
        /\ removal \in [at : {"none", "counted", "done"}, existing : SUBSET Run]
    BY DEF IndexInv, Types, TypeOK
  <2>2. CASE CountRuns \/ DisconnectAborts
    BY <2>1, <2>2 DEF CountRuns, DisconnectAborts
  <2>3. CASE Push \/ VectorArm \/ TextArm \/ UNCHANGED vars
    BY <2>1, <2>3 DEF Push, VectorArm, TextArm, vars
  <2>4. ASSUME NEW r \in Run, CreateRun(r) \/ EndRun(r)
        PROVE  /\ run' \in [Run -> {"none", "active", "detached", "over"}]
               /\ removal' = removal
    BY <2>1, <2>4 DEF CreateRun, EndRun
  <2> QED
    BY <2>1, <2>2, <2>3, <2>4
<1>4. Types'
  BY <1>1, <1>2, <1>3 DEF IndexInv, Types, TypeOK
<1>5. Counted'
  <2>1. CASE CountRuns
    <3>1. /\ Live /\ run' = run /\ status' = status
          /\ removal'.existing = {r \in Run : run[r] # "none"}
          /\ \A r \in Run : run[r] # "active"
          /\ run \in [Run -> {"none", "active", "detached", "over"}]
      BY <2>1 DEF CountRuns, Pins, IndexInv, Types, TypeOK
    <3>2. \A r \in removal'.existing : run[r] \in {"detached", "over"}
      BY <3>1
    <3> QED
      BY <3>1, <3>2 DEF Counted, Live
  <2>2. CASE DisconnectAborts
    <3>1. removal'.at = "none"
      BY <2>2 DEF DisconnectAborts
    <3> QED
      BY <3>1 DEF Counted
  <2>3. CASE Push \/ VectorArm \/ TextArm \/ UNCHANGED vars
    <3>1. UNCHANGED <<removal, run, status>>
      BY <2>3 DEF Push, VectorArm, TextArm, vars
    <3> QED
      BY <3>1 DEF Counted, Live, IndexInv
  <2>4. ASSUME NEW r \in Run, CreateRun(r) \/ EndRun(r) PROVE Counted'
    <3>1. /\ run[r] = "none" \/ run'[r] = "over"
          /\ removal' = removal /\ status' = status
          /\ \A q \in Run \ {r} : run'[q] = run[q]
          /\ removal.existing \in SUBSET Run
      <4>1. run \in [Run -> {"none", "active", "detached", "over"}] /\ removal.existing \in SUBSET Run
        BY DEF IndexInv, Types, TypeOK
      <4> QED
        BY <2>4, <4>1 DEF CreateRun, EndRun
    <3> QED
      BY <3>1 DEF Counted, Live, IndexInv
  <2> QED
    BY <2>1, <2>2, <2>3, <2>4
<1>6. \A i \in Job : JobOK(i)' = JobOK(i) /\ Progress(i)' = Progress(i)
  BY <1>1 DEF JobOK, Progress, Stale, Changed, Deleted, Matching, Of
<1>7. Live' = Live /\ OneWriter' = OneWriter /\ Fingerprints' = Fingerprints
  BY <1>1, Unfolded DEF Live, OneWriter
<1> QED
  BY <1>1, <1>4, <1>5, <1>6, <1>7 DEF IndexInv

(* The index, the writers and the disconnect are consistent in every       *)
(* reachable state.                                                        *)
THEOREM Indexed == Spec => []IndexInv
<1>1. IndexInv /\ [Next]_vars => IndexInv'
  BY IdleSteps, DeleteStep, DeletesStep, BeginStep, CommitStep, RestartStep, DisconnectStep, OtherSteps
  DEF Next, Index
<1> QED
  BY <1>1, InitIndex, PTL DEF Spec

-----------------------------------------------------------------------------
(* A disconnect detaches no run that existed when it counted them, only    *)
(* one created since (api/repositories.py disconnect_repository).          *)
THEOREM OnlyLateRuns == Spec => OnlyLateRunsAreDetached
<1>1. IndexInv => \A r \in Run : Disconnect /\ run[r] = "active" => r \notin removal.existing
  BY DEF IndexInv, Counted, Disconnect
<1> QED
  BY <1>1, Indexed, PTL DEF OnlyLateRunsAreDetached

(* An incremental indexing whose fingerprints are still those of the index *)
(* leaves what a rebuild from nothing would (indexing/indexer.py           *)
(* _build_index).                                                          *)
THEOREM IncrementalIsARebuild == Spec => AloneIsARebuild
<1>1. ASSUME IndexInv, NEW i \in Job, Live, CommitIndex(i), job[i].fresh, ~torn
      PROVE  {Row(r.table, r.path, r.of, Old) : r \in rows'}
               = FileRows(job[i].tree, Path, Old) \cup EdgeRows(job[i].tree, Old)
  <2> DEFINE t == job[i].tree
             Renamed(r) == Row(r.table, r.path, r.of, Old)
  <2>1. /\ t \in Tree /\ job[i].found = PrintsOf(rows) /\ rows \in SUBSET RowSet
        /\ OnePrint(rows) /\ Agree(rows) /\ PrintsOf(rows) \in Tree
    BY <1>1, JobTypes, Unfolded, PrintsAre DEF JobState, IndexInv
  <2>2. /\ \A k \in {"chunk", "print"}, p \in Path : \A v :
             Has(rows', k, p, v) <=>
               \/ p \notin Stale(i) /\ Has(rows, k, p, v)
               \/ p \in Changed(i) /\ v = t[p]
        /\ Table(rows', "edge") = EdgeRows(t, i)
        /\ rows' \in SUBSET RowSet
    BY <1>1, CommitAlone, CommitPrints
  <2>3. ASSUME NEW k \in {"chunk", "print"}, NEW p \in Path, NEW v \in Version
        PROVE  Has(rows', k, p, v) <=> t[p] = v
    <3>1. Has(rows, k, p, v) <=> job[i].found[p] = v
      BY <2>1, AgreeIff, PrintsAre
    <3>2. p \notin Stale(i) => job[i].found[p] = t[p]
      BY <2>1 DEF Stale, Changed, Deleted, Files
    <3>3. p \in Stale(i) /\ p \notin Changed(i) => t[p] = NoFile
      BY <2>1 DEF Stale, Deleted, Files
    <3> QED
      BY <2>2, <3>1, <3>2, <3>3, IndexAssumption DEF Stale
  <2>4. ASSUME NEW r \in rows'
        PROVE  Renamed(r) \in FileRows(t, Path, Old) \cup EdgeRows(t, Old)
    <3>0. r \in RowSet
      BY <2>2
    <3>1. CASE r.table = "edge"
      <4>1. PICK e \in Edges(t) : r = Row("edge", e[1], e[2], i)
        BY <2>2, <3>1 DEF Table, EdgeRows
      <4> QED
        BY <4>1 DEF EdgeRows, Row
    <3>2. CASE r.table \in {"chunk", "print"}
      <4>1. r.path \in Path /\ r.of \in Version /\ Has(rows', r.table, r.path, r.of)
        BY <3>0, <3>2, RowShape DEF Has
      <4>2. t[r.path] = r.of /\ r.path \in Path \cap Files(t)
        BY <2>3, <3>2, <4>1, IndexAssumption DEF Files
      <4> QED
        BY <3>2, <4>2 DEF FileRows
    <3> QED
      BY <3>0, <3>1, <3>2, RowShape
  <2>5. ASSUME NEW x \in FileRows(t, Path, Old) \cup EdgeRows(t, Old)
        PROVE  \E r \in rows' : x = Renamed(r)
    <3>1. CASE x \in FileRows(t, Path, Old)
      <4>1. PICK k \in {"chunk", "print"}, p \in Path \cap Files(t) : x = Row(k, p, t[p], Old)
        BY <3>1 DEF FileRows
      <4>2. t[p] \in Version
        BY <2>1, <4>1 DEF Files, Tree
      <4>3. Has(rows', k, p, t[p])
        BY <2>3, <4>1, <4>2
      <4> QED
        BY <4>1, <4>3 DEF Has
    <3>2. CASE x \in EdgeRows(t, Old)
      <4>1. PICK e \in Edges(t) : x = Row("edge", e[1], e[2], Old)
        BY <3>2 DEF EdgeRows
      <4>2. Row("edge", e[1], e[2], i) \in rows'
        BY <2>2, <4>1 DEF EdgeRows, Table
      <4>3. x = Renamed(Row("edge", e[1], e[2], i))
        BY <4>1 DEF Row
      <4> QED
        BY <4>2, <4>3
    <3> QED
      BY <3>1, <3>2
  <2> QED
    BY <2>4, <2>5
<1>2. IndexInv => \A i \in Job :
        Live /\ CommitIndex(i) /\ job[i].fresh /\ ~torn =>
          {Row(r.table, r.path, r.of, Old) : r \in rows'}
            = FileRows(job[i].tree, Path, Old) \cup EdgeRows(job[i].tree, Old)
  BY <1>1
<1> QED
  BY <1>2, Indexed, PTL DEF AloneIsARebuild

-----------------------------------------------------------------------------
(* The refinement.  The trees that jobs have read and may yet publish. *)
Reading == {job[i].tree : i \in {j \in Job : job[j].at \in {"load", "embed"} \cup Writing}}

Readers == {"load", "embed"} \cup Writing

LEMMA ReadingOf ==
  /\ \A i \in Job : job[i].at \in Readers => job[i].tree \in Reading
  /\ \A t \in Reading : \E i \in Job : job[i].at \in Readers /\ t = job[i].tree
BY DEF Reading, Readers

(* A step that leaves rows and remote alone, after which no job has a tree *)
(* it had not read, apart from the one of the remote.                      *)
LEMMA ReadRefined ==
  ASSUME UNCHANGED <<rows, torn, tree>>, Live' = Live,
         \A i \in Job : job'[i].at \in Readers =>
           (job[i].at \in Readers /\ job'[i].tree = job[i].tree) \/ job'[i].tree = tree
  PROVE  Contract!Read
<1>1. Reading' \subseteq Reading \cup {tree}
  BY DEF Reading, Readers
<1>2. Fingerprints' = Fingerprints
  BY Unfolded
<1> QED
  BY <1>1, <1>2 DEF Contract!Read, Contract!index, Reading, Of

LEMMA GraphIs ==
  ASSUME NEW R, NEW t, NEW by, Table(R, "edge") = EdgeRows(t, by)
  PROVE  GraphOf(R) = Edges(t)
<1>1. ASSUME NEW r \in Table(R, "edge") PROVE <<r.path, r.of>> \in Edges(t)
  <2>1. PICK e \in Edges(t) : r = Row("edge", e[1], e[2], by)
    BY DEF EdgeRows
  <2>2. r.path = e[1] /\ r.of = e[2] /\ e = <<e[1], e[2]>>
    BY <2>1 DEF Row, Edges
  <2> QED
    BY <2>2
<1>2. ASSUME NEW e \in Edges(t) PROVE \E r \in Table(R, "edge") : e = <<r.path, r.of>>
  <2> DEFINE r == Row("edge", e[1], e[2], by)
  <2>1. r \in Table(R, "edge")
    BY DEF EdgeRows
  <2>2. r.path = e[1] /\ r.of = e[2] /\ e = <<e[1], e[2]>>
    BY DEF Row, Edges
  <2> QED
    BY <2>1, <2>2
<1> QED
  BY <1>1, <1>2 DEF GraphOf

LEMMA InitRefined == Init => Contract!Init
<1> SUFFICES ASSUME Init PROVE Contract!Init
  OBVIOUS
<1>1. IndexInv /\ tree \in Tree /\ ~torn /\ Live
  BY InitIndex, IndexAssumption DEF Init, Live
<1>2. /\ Fingerprints \in Tree /\ Fingerprints = PrintsOf(rows)
      /\ FilesOf(rows) = [p \in Path |-> StoredAs(Fingerprints[p])]
  BY <1>1, Unfolded, PrintsAre DEF IndexInv, Types, Agree, FilesOf
<1>3. Reading = {}
  BY DEF Init, Reading, Unused, Writing
<1>4. GraphOf(rows) \in {{}, Edges(Fingerprints)}
  <2>1. CASE rows = {}
    BY <2>1 DEF GraphOf, Table
  <2>2. CASE rows = FileRows(tree, Path, Old) \cup EdgeRows(tree, Old)
    <3>1. Fingerprints = tree
      <4>1. ASSUME NEW p \in Path, NEW v \in Version PROVE Has(rows, "print", p, v) <=> tree[p] = v
        <5>1. ASSUME Has(rows, "print", p, v) PROVE tree[p] = v
          BY <2>2, <5>1 DEF Has, FileRows, EdgeRows, Row
        <5>2. ASSUME tree[p] = v PROVE Has(rows, "print", p, v)
          <6>1. p \in Files(tree)
            BY <5>2, IndexAssumption DEF Files
          <6>2. Row("print", p, tree[p], Old) \in rows
            BY <2>2, <6>1 DEF FileRows
          <6> QED
            BY <5>2, <6>2 DEF Has, Row
        <5> QED
          BY <5>1, <5>2
      <4>2. \A p \in Path, v \in Version : Fingerprints[p] = v <=> tree[p] = v
        BY <1>1, <1>2, <4>1, PrintsAre DEF IndexInv, Types
      <4>3. \A p \in Path : Fingerprints[p] = tree[p]
        BY <1>1, <1>2, <4>2 DEF Tree
      <4> QED
        BY <1>1, <1>2, <4>3 DEF Tree
    <3>2. Table(rows, "edge") = EdgeRows(tree, Old)
      BY <2>2 DEF Table, FileRows, EdgeRows, Row
    <3>3. GraphOf(rows) = Edges(tree)
      BY <3>2, GraphIs
    <3> QED
      BY <3>1, <3>3
  <2> QED
    BY <2>1, <2>2 DEF Init
<1>5. /\ Fingerprints \in Contract!Tree /\ tree \in Contract!Tree
      /\ FilesOf(rows) = [p \in Path |-> Contract!Stored(Fingerprints[p])]
  BY <1>1, <1>2 DEF Contract!Tree, Contract!Stored, Tree, StoredAs
<1>6. /\ FilesOf(rows) = [p \in Path |-> {r.of : r \in {q \in Of("chunk") : q.path = p}}]
      /\ GraphOf(rows) = {<<r.path, r.of>> : r \in Of("edge")}
  BY DEF FilesOf, GraphOf, Table, Of
<1> QED
  BY <1>1, <1>3, <1>4, <1>5, <1>6 DEF Contract!Init, Reading

LEMMA CommitRefined ==
  ASSUME IndexInv, NEW i \in Job, CommitIndex(i), NEW t, t = job[i].tree
  PROVE  Contract!Read \/ (t \in Reading /\ Contract!Publish(t))
<1>1. /\ job[i].at = "commit" /\ UNCHANGED <<torn, tree>> /\ Live' = Live
      /\ \A j \in Job : job'[j].at \in Readers => job[j].at \in Readers /\ job'[j].tree = job[j].tree
  <2>1. /\ job[i].at = "commit" /\ UNCHANGED <<torn, tree>> /\ Live' = Live
    BY DEF CommitIndex, Live
  <2>2. ASSUME NEW j \in Job, job'[j].at \in Readers
        PROVE  job[j].at \in Readers /\ job'[j].tree = job[j].tree
    <3>1. CASE j = i
      BY <2>2, <3>1 DEF CommitIndex, Unused, Readers, Writing
    <3>2. CASE j # i
      <4>1. job'[j] = [job[j] EXCEPT !.fresh = FALSE] /\ job[j] \in JobState
        BY <3>2, JobTypes DEF CommitIndex
      <4> QED
        BY <2>2, <4>1 DEF JobState
    <3> QED
      BY <3>1, <3>2
  <2> QED
    BY <2>1, <2>2
<1>2. CASE ~Live
  <2>1. rows' = rows
    BY <1>2 DEF IndexInv, CommitIndex
  <2> QED
    BY <1>1, <2>1, ReadRefined
<1>3. CASE Live
  <2>1. t \in Reading
    BY <1>1, ReadingOf DEF Readers, Writing
  <2>2. Reading' \subseteq Reading
    BY <1>1 DEF Reading, Readers
  <2>3. /\ rows' \in SUBSET RowSet /\ OnePrint(rows')
        /\ Fingerprints = PrintsOf(rows) /\ Fingerprints' = PrintsOf(rows')
        /\ \A p \in Path : Fingerprints'[p] \in {Fingerprints[p], t[p]}
    BY CommitPrints, Unfolded
  <2>4. \E S \in SUBSET Path : Fingerprints' = [p \in Path |-> IF p \in S THEN t[p] ELSE Fingerprints[p]]
    <3> DEFINE S == {p \in Path : Fingerprints'[p] = t[p]}
    <3>1. Fingerprints' = [p \in Path |-> Fingerprints'[p]]
      BY <2>3 DEF PrintsOf
    <3>2. \A p \in Path : Fingerprints'[p] = IF p \in S THEN t[p] ELSE Fingerprints[p]
      BY <2>3
    <3> HIDE DEF S
    <3>3. Fingerprints' = [p \in Path |-> IF p \in S THEN t[p] ELSE Fingerprints[p]]
      BY <3>1, <3>2
    <3>4. S \in SUBSET Path
      BY DEF S
    <3> QED
      BY <3>3, <3>4
  <2>5. ASSUME ~torn
        PROVE  /\ GraphOf(rows') = Edges(t)
               /\ \A p \in Path : FilesOf(rows')[p] = StoredAs(Fingerprints'[p])
    <3>1. Table(rows', "edge") = EdgeRows(t, i) /\ Agree(rows')
      BY <1>3, <2>5, CommitAlone
    <3>2. GraphOf(rows') = Edges(t)
      BY <3>1, GraphIs
    <3> QED
      BY <2>3, <3>1, <3>2 DEF Agree
  <2>6. Contract!Publish(t)
    BY <1>1, <1>3, <2>1, <2>2, <2>4, <2>5
    DEF Contract!Publish, Contract!Consistent, Contract!Stored, Reading, FilesOf, GraphOf, Table, Of, StoredAs
  <2> QED
    BY <2>1, <2>6
<1> QED
  BY <1>2, <1>3

LEMMA BeginRefined ==
  ASSUME IndexInv, NEW i \in Job, BeginWrite(i)
  PROVE  Contract!Read \/ Contract!Tear
<1>1. /\ job[i].at = "embed" /\ UNCHANGED <<rows, tree>> /\ Live' = Live
      /\ job[i] \in JobState /\ torn \in BOOLEAN
      /\ torn' = (torn \/ \E j \in Job \ {i} : job[j].at \in Writing)
  BY JobTypes DEF BeginWrite, Live, IndexInv, Types, TypeOK
<1>2. \A j \in Job : /\ job'[j].tree = job[j].tree
                     /\ job'[j].at \in Readers <=> job[j].at \in Readers
  <2>1. ASSUME NEW j \in Job
        PROVE  /\ job'[j].tree = job[j].tree
               /\ job'[j].at \in Readers <=> job[j].at \in Readers
    <3>1. CASE j # i
      BY <3>1 DEF BeginWrite, IndexInv, Types
    <3>2. CASE j = i
      <4>1. PICK start \in {"edge", "chunk"} :
              job' = [job EXCEPT ![i].at = start, ![i].asked = TRUE, ![i].todo = Matching(i, start)]
        BY DEF BeginWrite
      <4>2. job'[i].at = start /\ job'[i].tree = job[i].tree
        BY <1>1, <4>1 DEF IndexInv, Types, JobState
      <4> QED
        BY <1>1, <3>2, <4>2 DEF Readers, Writing
    <3> QED
      BY <3>1, <3>2
  <2> QED
    BY <2>1
<1>3. CASE torn' = torn
  BY <1>1, <1>2, <1>3, ReadRefined
<1>4. CASE torn' # torn
  <2>1. torn' = TRUE
    BY <1>1, <1>4
  <2>2. Reading' = Reading
    BY <1>2 DEF Reading, Readers
  <2>3. Fingerprints' = Fingerprints
    BY <1>1, Unfolded
  <2> QED
    BY <1>1, <2>1, <2>2, <2>3 DEF Contract!Tear, Reading, Of
<1> QED
  BY <1>3, <1>4

LEMMA DisconnectRefined == ASSUME IndexInv, Disconnect PROVE Contract!Disconnect
<1>1. Live /\ ~Live' /\ rows' = {} /\ UNCHANGED <<tree, job, torn>>
  BY DEF IndexInv, Counted, Disconnect, Live
<1>2. Reading' = Reading
  BY <1>1 DEF Reading
<1>3. Fingerprints' = [p \in Path |-> NoFile]
  BY <1>1 DEF Fingerprints, Of
<1> QED
  BY <1>1, <1>2, <1>3 DEF Contract!Disconnect, Reading, Of

LEMMA JobReads ==
  ASSUME IndexInv, NEW i \in Job,
         \/ StartIndexing(i) \/ Clone(i) \/ Load(i) \/ Delete(i) \/ Deletes(i)
         \/ IndexFails(i) \/ Settle(i) \/ Lose(i)
  PROVE  Contract!Read
<1>1. /\ UNCHANGED <<rows, tree, torn>> /\ Live' = Live
      /\ \A j \in Job \ {i} : job'[j] = job[j]
  <2>1. Live' = Live
    BY DEF StartIndexing, Clone, Load, Delete, Deletes, IndexFails, Settle, Verdict, Lose, Live,
           IndexInv, Types, TypeOK
  <2> QED
    BY <2>1 DEF StartIndexing, Clone, Load, Delete, Deletes, IndexFails, Settle, Lose, IndexInv, Types
<1>2. job'[i].at \in Readers =>
        (job[i].at \in Readers /\ job'[i].tree = job[i].tree) \/ job'[i].tree = tree
  <2>0. job[i] \in JobState /\ JobOK(i) /\ job' \in [Job -> JobState]
    BY JobTypes, IdleSteps, DeleteStep, DeletesStep DEF IndexInv, Types
  <2> USE DEF Readers, Writing
  <2>1. CASE StartIndexing(i)
    BY <2>0, <2>1 DEF StartIndexing, IndexInv, Types, JobState
  <2>2. CASE Clone(i)
    BY <2>0, <2>2 DEF Clone, IndexInv, Types, JobState
  <2>3. CASE Load(i)
    BY <2>0, <2>3 DEF Load, IndexInv, Types, JobState
  <2>4. CASE Delete(i)
    BY <2>0, <2>4 DEF Delete, IndexInv, Types, JobState
  <2>5. CASE Deletes(i)
    <3>1. job[i].at \in Readers
      BY <2>0, <2>5 DEF Deletes, JobOK
    <3>2. job'[i].tree = job[i].tree
      BY <2>0, <2>5 DEF Deletes, IndexInv, Types, JobState
    <3> QED
      BY <3>1, <3>2
  <2>6. CASE IndexFails(i) \/ Settle(i) \/ Lose(i)
    <3>1. job'[i].at \in {"failed", "over"}
      BY <2>6 DEF IndexFails, Settle, Lose, IndexInv, Types, Unused
    <3> QED
      BY <3>1
  <2> QED
    BY <2>1, <2>2, <2>3, <2>4, <2>5, <2>6
<1> QED
  BY <1>1, <1>2, ReadRefined

(* Readers see what IndexContract promises: until two writers overlap,     *)
(* each file is at the version its fingerprint names and the graph is that *)
(* of the tree published last, statement by statement as the indexer       *)
(* writes (indexing/indexer.py _build_index).                              *)
THEOREM IndexRefines == Spec => ImplementsContract
<1>1. IndexInv /\ [Next]_vars => [Contract!Next]_(Contract!vars)
  <2> SUFFICES ASSUME IndexInv, [Next]_vars PROVE [Contract!Next]_(Contract!vars)
    OBVIOUS
  <2>1. ASSUME NEW i \in Job, CommitIndex(i) PROVE Contract!Next
    <3>1. PICK t : t = job[i].tree
      OBVIOUS
    <3> QED
      BY <2>1, <3>1, CommitRefined DEF Contract!Next, Reading
  <2>2. ASSUME NEW i \in Job, BeginWrite(i) PROVE Contract!Next
    BY <2>2, BeginRefined DEF Contract!Next
  <2>3. ASSUME NEW i \in Job,
               \/ StartIndexing(i) \/ Clone(i) \/ Load(i) \/ Delete(i) \/ Deletes(i)
               \/ IndexFails(i) \/ Settle(i) \/ Lose(i)
        PROVE  Contract!Next
    BY <2>3, JobReads DEF Contract!Next
  <2>4. CASE Disconnect
    BY <2>4, DisconnectRefined DEF Contract!Next
  <2>5. CASE Push
    <3>1. tree' \in Tree /\ UNCHANGED <<status, rows, job, torn>>
      BY <2>5, OtherSteps DEF Push, IndexInv, Types, TypeOK
    <3>2. Reading' = Reading /\ Live' = Live /\ Fingerprints' = Fingerprints
      BY <3>1, Unfolded DEF Reading, Live
    <3>3. Contract!Push
      BY <3>1, <3>2 DEF Contract!Push, Contract!Tree, Contract!index, Tree, Reading, Of
    <3> QED
      BY <3>3 DEF Contract!Next
  <2>6. CASE Restart
    <3>1. \A i \in Job : job'[i].at \notin Readers
      BY <2>6 DEF Restart, Unused, Readers, Writing
    <3>2. UNCHANGED <<rows, tree, torn>> /\ Live' = Live
      BY <2>6 DEF Restart, Live
    <3>3. Contract!Read
      BY <3>1, <3>2, ReadRefined
    <3> QED
      BY <3>3 DEF Contract!Next
  <2>7. CASE \/ CountRuns \/ DisconnectAborts \/ VectorArm \/ TextArm \/ UNCHANGED vars
             \/ \E r \in Run : CreateRun(r) \/ EndRun(r)
    <3>1. UNCHANGED <<tree, status, rows, job, torn>>
      BY <2>7 DEF CountRuns, DisconnectAborts, VectorArm, TextArm, vars, CreateRun, EndRun
    <3>2. Contract!Read
      BY <3>1, ReadRefined DEF Live
    <3> QED
      BY <3>2 DEF Contract!Next
  <2> QED
    BY <2>1, <2>2, <2>3, <2>4, <2>5, <2>6, <2>7 DEF Next, Index
<1> QED
  BY <1>1, InitRefined, Indexed, PTL DEF Spec, ImplementsContract, Contract!Spec

-----------------------------------------------------------------------------
(* The order of an answer.  An arm lists no chunk twice. *)
Arm(s) ==
  \E k \in Nat : DOMAIN s = 1 .. k /\ \A i, j \in 1 .. k : s[i] = s[j] => i = j

SearchInv == IsFiniteSet(rows) /\ (search.asked => Arm(search.vector))

LEMMA ImageFinite ==
  ASSUME NEW S, IsFiniteSet(S), NEW f
  PROVE  IsFiniteSet({f[x] : x \in S})
<1> DEFINE T == {f[x] : x \in S}
           g == [x \in S |-> f[x]]
<1>1. g \in Surjection(S, T)
  BY DEF Surjection
<1> QED
  BY <1>1, FS_Surjection DEF ExistsSurjection

LEMMA InsertsFinite ==
  ASSUME NEW t, NEW S, NEW by
  PROVE  IsFiniteSet(FileRows(t, S, by)) /\ IsFiniteSet(EdgeRows(t, by))
<1>1. IsFiniteSet(Files(t)) /\ IsFiniteSet(S \cap Files(t))
  BY IndexAssumption, FS_Subset DEF Files
<1>2. IsFiniteSet(FileRows(t, S, by))
  <2> DEFINE P == S \cap Files(t)
             C == {Row("chunk", p, t[p], by) : p \in P}
             F == {Row("print", p, t[p], by) : p \in P}
  <2>1. IsFiniteSet(C) /\ IsFiniteSet(F)
    <3> DEFINE c == [p \in P |-> Row("chunk", p, t[p], by)]
               f == [p \in P |-> Row("print", p, t[p], by)]
    <3>1. C = {c[p] : p \in P} /\ F = {f[p] : p \in P}
      OBVIOUS
    <3>2. IsFiniteSet(P)
      BY <1>1
    <3> HIDE DEF P, c, f, C, F
    <3> QED
      BY <3>1, <3>2, ImageFinite
  <2>2. FileRows(t, S, by) = C \cup F
    BY DEF FileRows
  <2> HIDE DEF C, F
  <2> QED
    BY <2>1, <2>2, FS_Union
<1>3. IsFiniteSet(EdgeRows(t, by))
  <2>1. IsFiniteSet(Files(t) \X Files(t))
    BY <1>1, FS_Product
  <2>2. Edges(t) \subseteq Files(t) \X Files(t)
    BY DEF Edges
  <2>3. IsFiniteSet(Edges(t))
    BY <2>1, <2>2, FS_Subset
  <2> DEFINE f == [e \in Edges(t) |-> Row("edge", e[1], e[2], by)]
  <2>4. EdgeRows(t, by) = {f[e] : e \in Edges(t)}
    BY DEF EdgeRows
  <2> HIDE DEF f
  <2> QED
    BY <2>3, <2>4, ImageFinite
<1> QED
  BY <1>2, <1>3

LEMMA SearchInit == Init => SearchInv
<1> SUFFICES ASSUME Init PROVE SearchInv
  OBVIOUS
<1>1. IsFiniteSet(rows)
  <2>1. IsFiniteSet(FileRows(tree, Path, Old) \cup EdgeRows(tree, Old))
    BY InsertsFinite, FS_Union
  <2> QED
    BY <2>1, FS_EmptySet DEF Init
<1> QED
  BY <1>1 DEF Init, SearchInv, NoSearch

(* How many of S are taken. *)
Taken(S, n) == IF Cardinality(S) < n THEN Cardinality(S) ELSE n

LEMMA TakenNat == ASSUME NEW S, IsFiniteSet(S), NEW n \in Nat PROVE Taken(S, n) \in Nat
BY FS_CardinalityType DEF Taken

LEMMA ArmOf ==
  ASSUME NEW k \in Nat, NEW S, NEW s \in [1 .. k -> S],
         \A i, j \in 1 .. k : i < j => s[i] # s[j]
  PROVE  Arm(s)
<1>1. \A i, j \in 1 .. k : s[i] = s[j] => i = j
  <2> SUFFICES ASSUME NEW i \in 1 .. k, NEW j \in 1 .. k, i # j PROVE s[i] # s[j]
    OBVIOUS
  <2>1. i < j \/ j < i
    OBVIOUS
  <2> QED
    BY <2>1
<1> QED
  BY <1>1 DEF Arm

LEMMA SearchStep == SearchInv /\ [Next]_vars => SearchInv'
<1> SUFFICES ASSUME SearchInv, [Next]_vars PROVE SearchInv'
  OBVIOUS
<1>1. CASE VectorArm
  <2>1. IsFiniteSet(Of("chunk"))
    BY FS_Subset DEF SearchInv, Of
  <2>2. Candidates \in Nat
    BY IndexAssumption
  <2>3. PICK s : /\ search' = [asked |-> TRUE, vector |-> s]
                 /\ s \in [1 .. Taken(Of("chunk"), Candidates) -> Of("chunk")]
                 /\ \A i, j \in 1 .. Taken(Of("chunk"), Candidates) : i < j => s[i] # s[j]
    <3>1. PICK s \in Best(Of("chunk"), Candidates, LAMBDA x, y : Distance[x.of] < Distance[y.of]) :
            search' = [asked |-> TRUE, vector |-> s]
      BY <1>1 DEF VectorArm
    <3>2. /\ s \in [1 .. Taken(Of("chunk"), Candidates) -> Of("chunk")]
          /\ \A i, j \in DOMAIN s : i < j => s[i] # s[j]
      BY DEF Best, Taken
    <3> QED
      BY <3>1, <3>2
  <2>4. Arm(s)
    BY <2>1, <2>2, <2>3, TakenNat, ArmOf
  <2> QED
    BY <1>1, <2>3, <2>4 DEF SearchInv, VectorArm
<1>2. CASE TextArm \/ Restart
  BY <1>2 DEF TextArm, Restart, SearchInv, NoSearch
<1>3. ASSUME NEW i \in Job, CommitIndex(i) PROVE SearchInv'
  <2>1. IsFiniteSet(Inserts(i)) /\ IsFiniteSet(rows \ job[i].gone)
    BY InsertsFinite, FS_Union, FS_Subset DEF Inserts, SearchInv
  <2>2. IsFiniteSet(rows')
    BY <1>3, <2>1, FS_Union DEF CommitIndex
  <2> QED
    BY <1>3, <2>2 DEF CommitIndex, SearchInv
<1>4. CASE Disconnect
  BY <1>4, FS_EmptySet DEF Disconnect, SearchInv
<1>5. CASE UNCHANGED <<rows, search>>
  BY <1>5 DEF SearchInv
<1> QED
  <2>1. \/ VectorArm \/ TextArm \/ Restart \/ Disconnect \/ UNCHANGED <<rows, search>>
        \/ \E i \in Job : CommitIndex(i)
    BY DEF Next, Index, Push, CountRuns, DisconnectAborts, StartIndexing, Lose, Clone, Load,
           BeginWrite, Delete, Deletes, IndexFails, Settle, CreateRun, EndRun, vars
  <2> QED
    BY <1>1, <1>2, <1>3, <1>4, <1>5, <2>1

(* Sums of fractions: what is ahead in every arm that found the other has  *)
(* the higher score ...                                                    *)
LEMMA HigherSum ==
  ASSUME NEW an \in {0, 1}, NEW bn \in {0, 1}, NEW cn \in {0, 1}, NEW dn \in {0, 1},
         NEW ad \in Nat \ {0}, NEW bd \in Nat \ {0}, NEW cd \in Nat \ {0}, NEW dd \in Nat \ {0},
         cn = 1 => an = 1 /\ ad < cd,
         dn = 1 => bn = 1 /\ bd < dd,
         cn = 1 \/ dn = 1
  PROVE  (an * bd + bn * ad) * (cd * dd) > (cn * dd + dn * cd) * (ad * bd)
<1>1. \A i, j \in Nat \ {0} : i * j \in Nat \ {0}
  OBVIOUS
<1>2. CASE cn = 1 /\ dn = 1
  <2>1. (bd * dd) * (cd - ad) \in Nat \ {0} /\ (ad * cd) * (dd - bd) \in Nat \ {0}
    <3>1. cd - ad \in Nat \ {0} /\ dd - bd \in Nat \ {0}
      BY <1>2
    <3> QED
      BY <1>1, <3>1
  <2>2. (1 * bd + 1 * ad) * (cd * dd) - (1 * dd + 1 * cd) * (ad * bd)
          = (bd * dd) * (cd - ad) + (ad * cd) * (dd - bd)
    OBVIOUS
  <2> QED
    BY <1>2, <2>1, <2>2
<1>3. CASE cn = 1 /\ dn = 0
  <2>1. (bd * dd) * (cd - ad) \in Nat \ {0}
    <3>1. cd - ad \in Nat \ {0}
      BY <1>3
    <3> QED
      BY <1>1, <3>1
  <2>2. (1 * bd + 0 * ad) * (cd * dd) - (1 * dd + 0 * cd) * (ad * bd) = (bd * dd) * (cd - ad)
    OBVIOUS
  <2>3. (1 * bd + 1 * ad) * (cd * dd) - (1 * dd + 0 * cd) * (ad * bd)
          = (bd * dd) * (cd - ad) + (ad * cd) * dd
    OBVIOUS
  <2>4. (ad * cd) * dd \in Nat \ {0}
    BY <1>1
  <2> QED
    BY <1>3, <2>1, <2>2, <2>3, <2>4
<1>4. CASE cn = 0 /\ dn = 1
  <2>1. (ad * cd) * (dd - bd) \in Nat \ {0}
    <3>1. dd - bd \in Nat \ {0}
      BY <1>4
    <3> QED
      BY <1>1, <3>1
  <2>2. (0 * bd + 1 * ad) * (cd * dd) - (0 * dd + 1 * cd) * (ad * bd) = (ad * cd) * (dd - bd)
    OBVIOUS
  <2>3. (1 * bd + 1 * ad) * (cd * dd) - (0 * dd + 1 * cd) * (ad * bd)
          = (ad * cd) * (dd - bd) + (bd * cd) * dd
    OBVIOUS
  <2>4. (bd * cd) * dd \in Nat \ {0}
    BY <1>1
  <2> QED
    BY <1>4, <2>1, <2>2, <2>3, <2>4
<1> QED
  BY <1>2, <1>3, <1>4

(* ... and what is higher than one is higher than all that are not higher. *)
LEMMA HigherThrough ==
  ASSUME NEW xn \in Nat, NEW xd \in Nat \ {0}, NEW yn \in Nat, NEW yd \in Nat \ {0},
         NEW zn \in Nat, NEW zd \in Nat \ {0},
         xn * yd > yn * xd, ~(zn * yd > yn * zd)
  PROVE  xn * zd > zn * xd
<1>1. \A i, j \in Nat, m \in Nat \ {0} : i < j => i * m < j * m
  OBVIOUS
<1>2. \A i, j \in Nat, m \in Nat \ {0} : i <= j => i * m <= j * m
  OBVIOUS
<1>3. /\ xn * yd \in Nat /\ yn * xd \in Nat /\ zn * yd \in Nat /\ yn * zd \in Nat
      /\ xn * zd \in Nat /\ zn * xd \in Nat
  OBVIOUS
<1>4. (yn * xd) * zd < (xn * yd) * zd
  BY <1>1, <1>3
<1>5. (zn * yd) * xd <= (yn * zd) * xd
  BY <1>2, <1>3
<1>6. (zn * xd) * yd < (xn * zd) * yd
  <2>1. /\ (yn * xd) * zd = (yn * zd) * xd /\ (zn * yd) * xd = (zn * xd) * yd
        /\ (xn * yd) * zd = (xn * zd) * yd
    OBVIOUS
  <2>2. /\ (yn * zd) * xd \in Nat /\ (zn * xd) * yd \in Nat /\ (xn * zd) * yd \in Nat
    OBVIOUS
  <2> QED
    BY <1>4, <1>5, <2>1, <2>2
<1>7. ~(xn * zd <= zn * xd)
  BY <1>2, <1>3, <1>6
<1> QED
  BY <1>3, <1>7

LEMMA PositionIs ==
  ASSUME NEW s, Arm(s), NEW x \in Range(s)
  PROVE  /\ Position(s, x) \in DOMAIN s /\ s[Position(s, x)] = x
         /\ Position(s, x) \in Nat \ {0}
<1>1. PICK n \in Nat : DOMAIN s = 1 .. n
  BY DEF Arm
<1>2. \E k \in DOMAIN s : s[k] = x
  BY DEF Range
<1>3. Position(s, x) \in DOMAIN s /\ s[Position(s, x)] = x
  BY <1>2 DEF Position
<1> QED
  BY <1>1, <1>3

LEMMA TermIs ==
  ASSUME NEW s, Arm(s), NEW x
  PROVE  /\ Term(s, x).num = IF x \in Range(s) THEN 1 ELSE 0
         /\ Term(s, x).num \in {0, 1} /\ Term(s, x).den \in Nat \ {0}
         /\ x \in Range(s) => Term(s, x).den = 60 + Position(s, x)
<1>1. CASE x \in Range(s)
  BY <1>1, PositionIs DEF Term, RRF_K
<1>2. CASE x \notin Range(s)
  BY <1>2 DEF Term
<1> QED
  BY <1>1, <1>2

LEMMA ScoreIs ==
  ASSUME NEW u, Arm(u), NEW v, Arm(v), NEW x
  PROVE  /\ Score(u, v, x).num = Term(u, x).num * Term(v, x).den + Term(v, x).num * Term(u, x).den
         /\ Score(u, v, x).den = Term(u, x).den * Term(v, x).den
         /\ Score(u, v, x).num \in Nat /\ Score(u, v, x).den \in Nat \ {0}
<1>1. /\ Term(u, x).num \in {0, 1} /\ Term(u, x).den \in Nat \ {0}
      /\ Term(v, x).num \in {0, 1} /\ Term(v, x).den \in Nat \ {0}
  BY TermIs
<1>2. /\ Score(u, v, x).num = Term(u, x).num * Term(v, x).den + Term(v, x).num * Term(u, x).den
      /\ Score(u, v, x).den = Term(u, x).den * Term(v, x).den
  BY DEF Score
<1>3. \A a, b \in {0, 1}, c, d \in Nat \ {0} : a * d + b * c \in Nat /\ c * d \in Nat \ {0}
  <2> SUFFICES ASSUME NEW a \in {0, 1}, NEW b \in {0, 1}, NEW c \in Nat \ {0}, NEW d \in Nat \ {0}
               PROVE  a * d + b * c \in Nat /\ c * d \in Nat \ {0}
    OBVIOUS
  <2>1. a * d \in Nat /\ b * c \in Nat
    OBVIOUS
  <2> QED
    BY <2>1
<1> QED
  BY <1>1, <1>2, <1>3

LEMMA AheadMeans ==
  ASSUME NEW s, Arm(s), NEW x, NEW y, AheadIn(s, x, y), y \in Range(s)
  PROVE  /\ Term(s, x).num = 1 /\ Term(s, y).num = 1 /\ Term(s, x).den < Term(s, y).den
<1>1. x \in Range(s) /\ Position(s, x) < Position(s, y)
  BY DEF AheadIn
<1>2. Position(s, x) \in Nat /\ Position(s, y) \in Nat
  BY <1>1, PositionIs
<1> QED
  BY <1>1, <1>2, TermIs

LEMMA AheadIsHigher ==
  ASSUME NEW u, Arm(u), NEW v, Arm(v), NEW x, NEW y,
         AheadIn(u, x, y), AheadIn(v, x, y), y \in Range(u) \cup Range(v)
  PROVE  Higher(Score(u, v, x), Score(u, v, y))
<1> DEFINE a == Term(u, x)
           b == Term(v, x)
           c == Term(u, y)
           d == Term(v, y)
<1>1. /\ a.num \in {0, 1} /\ b.num \in {0, 1} /\ c.num \in {0, 1} /\ d.num \in {0, 1}
      /\ a.den \in Nat \ {0} /\ b.den \in Nat \ {0} /\ c.den \in Nat \ {0} /\ d.den \in Nat \ {0}
      /\ c.num = 1 \/ d.num = 1
      /\ c.num = 1 => y \in Range(u)
      /\ d.num = 1 => y \in Range(v)
  BY TermIs
<1>2. /\ c.num = 1 => a.num = 1 /\ a.den < c.den
      /\ d.num = 1 => b.num = 1 /\ b.den < d.den
  BY <1>1, AheadMeans
<1>3. /\ Score(u, v, x).num = a.num * b.den + b.num * a.den /\ Score(u, v, x).den = a.den * b.den
      /\ Score(u, v, y).num = c.num * d.den + d.num * c.den /\ Score(u, v, y).den = c.den * d.den
  BY ScoreIs
<1> HIDE DEF a, b, c, d
<1>4. (a.num * b.den + b.num * a.den) * (c.den * d.den) > (c.num * d.den + d.num * c.den) * (a.den * b.den)
  BY <1>1, <1>2, HigherSum
<1> QED
  BY <1>3, <1>4 DEF Higher

(* A chunk that is ahead of another in every arm that found the other is   *)
(* ahead of it in the answer, for any number of candidates and any limit,  *)
(* also when the arms saw different indexes (indexing/retrieval.py _fuse). *)
THEOREM AnswersAreUnanimous == Spec => []UnanimousOrder
<1>1. SearchInv => UnanimousOrder
  <2> SUFFICES ASSUME SearchInv, search.asked, NEW v \in TextArms, NEW s \in Fused(search.vector, v),
                      NEW y \in Range(s), NEW x \in Range(search.vector) \cup Range(v), x # y,
                      AheadIn(search.vector, x, y), AheadIn(v, x, y)
               PROVE  AheadIn(s, x, y)
    BY DEF UnanimousOrder
  <2> DEFINE u == search.vector
             S == Range(u) \cup Range(v)
             R == {r \in Of("chunk") : TextRank[r.of] > 0}
             k == Taken(S, Limit)
  <2>1. Arm(u)
    BY DEF SearchInv
  <2>2. Arm(v)
    <3>1. IsFiniteSet(R) /\ Candidates \in Nat
      BY FS_Subset, IndexAssumption DEF SearchInv, Of
    <3>2. /\ v \in [1 .. Taken(R, Candidates) -> R]
          /\ \A i, j \in DOMAIN v : i < j => v[i] # v[j]
      BY DEF TextArms, Best, Taken
    <3> HIDE DEF R
    <3> QED
      BY <3>1, <3>2, TakenNat, ArmOf
  <2>3. IsFiniteSet(S)
    <3>1. ASSUME NEW w, Arm(w) PROVE IsFiniteSet(Range(w))
      <4>1. PICK n \in Nat : DOMAIN w = 1 .. n
        BY <3>1 DEF Arm
      <4>2. IsFiniteSet(1 .. n) /\ Range(w) = {w[i] : i \in 1 .. n}
        BY <4>1, FS_Interval DEF Range
      <4> QED
        BY <4>2, ImageFinite
    <3> QED
      BY <2>1, <2>2, <3>1, FS_Union
  <2>4. k \in Nat
    BY <2>3, TakenNat, IndexAssumption
  <2>5. /\ s \in [1 .. k -> S]
        /\ \A i, j \in 1 .. k : i < j => s[i] # s[j] /\ ~Outranks(u, v, s[j], s[i])
        /\ \A z \in S \ Range(s) : s # <<>> => ~Outranks(u, v, z, Last(s))
    BY DEF Fused, Best, Taken
  <2> HIDE DEF u, S, k
  <2>6. Arm(s) /\ y \in S
    BY <2>4, <2>5, ArmOf DEF Range
  <2>7. Higher(Score(u, v, x), Score(u, v, y))
    BY <2>1, <2>2, <2>6, AheadIsHigher DEF u, S
  <2>8. PICK j \in 1 .. k : s[j] = y /\ j = Position(s, y)
    BY <2>5, <2>6, PositionIs
  <2>9. x \in Range(s)
    <3> SUFFICES ASSUME x \notin Range(s) PROVE FALSE
      OBVIOUS
    <3>1. s # <<>> /\ Last(s) = s[k] /\ k \in 1 .. k
      <4>1. s \in Seq(S) /\ Len(s) = k
        BY <2>4, <2>5
      <4> QED
        BY <2>4, <2>8, <4>1 DEF Last
    <3>2. ~Outranks(u, v, x, s[k])
      BY <2>5, <3>1 DEF u, S
    <3>3. ~Higher(Score(u, v, s[k]), Score(u, v, y))
      <4>1. CASE j = k
        BY <2>7, <2>8, <3>2, <4>1 DEF Outranks
      <4>2. CASE j < k
        <5>1. ~Outranks(u, v, s[k], y)
          BY <2>5, <2>8, <3>1, <4>2
        <5> QED
          BY <5>1 DEF Outranks
      <4> QED
        BY <2>4, <4>1, <4>2
    <3>4. \A z : Score(u, v, z).num \in Nat /\ Score(u, v, z).den \in Nat \ {0}
      BY <2>1, <2>2, ScoreIs
    <3>5. Higher(Score(u, v, x), Score(u, v, s[k]))
      BY <2>7, <3>3, <3>4, HigherThrough DEF Higher
    <3> QED
      BY <3>2, <3>5 DEF Outranks
  <2>10. PICK i \in 1 .. k : s[i] = x /\ i = Position(s, x)
    BY <2>5, <2>6, <2>9, PositionIs
  <2>11. ~(j < i)
    BY <2>5, <2>7, <2>8, <2>10 DEF Outranks
  <2>12. i < j
    BY <2>4, <2>8, <2>10, <2>11
  <2> QED
    BY <2>8, <2>9, <2>10, <2>12 DEF AheadIn
<1> QED
  BY <1>1, SearchInit, SearchStep, PTL DEF Spec
=============================================================================
