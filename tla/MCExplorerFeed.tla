--------------------------- MODULE MCExplorerFeed ---------------------------
(***************************************************************************)
(* ExplorerFeed for TLC: the connections are interchangeable.              *)
(***************************************************************************)
EXTENDS ExplorerFeed

Symmetry == Permutations(Sessions)
=============================================================================
