----------------------------- MODULE MCChunker -----------------------------
(* All files of up to seven lines with up to two top-level nodes, in the   *)
(* order of the tree, and no, some or all lines blank.                     *)
EXTENDS Chunker, FiniteSets

Nodes(n) ==
  LET one == {<<[first |-> a, last |-> b, definition |-> d]>> :
                a \in 1 .. n, b \in 1 .. n, d \in BOOLEAN}
      ok  == {s \in one : s[1].first <= s[1].last}
  IN  {<<>>} \cup ok \cup {p \in {s \o t : s, t \in ok} : p[1].last <= p[2].first}

MCDocuments ==
  UNION {[lines : {n}, parses : BOOLEAN, nodes : Nodes(n),
          blank : {{}, {1}, {n}, {1, 2} \cap (1 .. n), 1 .. n}] : n \in {1, 3, 4, 6, 7}}
=============================================================================
