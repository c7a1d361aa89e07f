------------------------- MODULE MCRepositoryIndex -------------------------
(* Two files, two versions: the first imports whichever exists of b and a, *)
(* the second imports nothing.                                             *)
EXTENDS RepositoryIndex, TLC
CONSTANTS a, b, v1, v2

MCStart == {a :> v1 @@ b :> v2}
MCImports == v1 :> {<<b, a>>} @@ v2 :> {<<a>>}
MCDistance == v1 :> 1 @@ v2 :> 2
MCTextRank == v1 :> 0 @@ v2 :> 1
=============================================================================
