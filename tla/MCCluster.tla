------------------------------ MODULE MCCluster ------------------------------
(* Cluster on a ring of nine positions. *)
EXTENDS Cluster

MCNode == 1..3
MCBudget == [n \in MCNode |-> IF n = 3 THEN 8 ELSE 3]

\* Plenty of room; little; none in the budget.
MCDisks == {[free |-> 8, used |-> 0], [free |-> 1, used |-> 1],
            [free |-> 1, used |-> 9]}

\* The virtual nodes of the three nodes, mixed up.
Hash == << <<5, 1, 8>>, <<2, 6, 3>>, <<0, 4, 7>> >>
MCRingPosition(n, k) == Hash[n][k]
=============================================================================
