------------------------- MODULE MCPlacementTable -------------------------
(* PlacementTable on a few nodes and worker threads. *)
EXTENDS PlacementTable, TLC

\* Nothing in PlacementTable tells one node, or one worker, from another.
Symmetry == Permutations(Node) \cup Permutations(Worker)
=============================================================================
