------------------------------- MODULE Cluster -------------------------------
(***************************************************************************)
(* The nodes table as it decides placements: nodes register, report their   *)
(* disks, fall silent, drain and come back (coordinator/nodes.py), and at   *)
(* any time an upload may ask where a chunk goes (GET /placement) and a     *)
(* repair may plan where its copies go (_compute_repair_plans).             *)
(***************************************************************************)
EXTENDS Placement

CONSTANTS
    Node,      \* row ids
    RF,        \* replication_factor
    Budget,    \* capacity_budget_bytes of a node
    Disks      \* the pairs [free, used] that a node may report

ASSUME ClusterAssumption == /\ Node \subseteq Nat \ {0}
                            /\ RF \in Nat \ {0, 1}
                            /\ \A n \in Node : Budget[n] \in Nat \ {0}
                            /\ Disks \subseteq [free : Nat, used : Nat]

\* No two nodes have a virtual node at the same position.
ASSUME DistinctAssumption ==
    \A m, n \in Node : \A j, k \in 1..MAXVIRTUALNODES :
       /\ RingPosition(m, j) \in Positions
       /\ RingPosition(m, j) = RingPosition(n, k) => m = n

VARIABLE nodes \* the table: row id -> record

\* A placement asks whether a node is up: ages beyond this make no difference.
MaxAge == SUSPECTTHRESHOLD + 1

Init == nodes = <<>>

Reported(n, d) ==
    [budget |-> Budget[n], free |-> d.free, used |-> d.used, age |-> 0,
     draining |-> FALSE]

\* POST /nodes/register, for the first time or again.
RegisterNode(n, d) ==
    nodes' = [m \in DOMAIN nodes \cup {n} |->
                 IF m = n THEN Reported(n, d) ELSE nodes[m]]

\* POST /nodes/heartbeat leaves budget and draining as they are.
Heartbeat(n, d) ==
    /\ n \in DOMAIN nodes
    /\ nodes' = [nodes EXCEPT ![n].free = d.free, ![n].used = d.used,
                              ![n].age = 0]

Drain(n) ==
    /\ n \in DOMAIN nodes /\ ~nodes[n].draining
    /\ nodes' = [nodes EXCEPT ![n].draining = TRUE]

Tick(n) ==
    /\ n \in DOMAIN nodes /\ nodes[n].age < MaxAge
    /\ nodes' = [nodes EXCEPT ![n].age = @ + 1]

Next ==
    \E n \in Node :
        \/ \E d \in Disks : RegisterNode(n, d) \/ Heartbeat(n, d)
        \/ Drain(n) \/ Tick(n)

Spec == Init /\ [][Next]_nodes
-----------------------------------------------------------------------------
(* What asks for a placement. *)

\* The targets of a repair plan: the whole walk, without the nodes that hold
\* the chunk, cut at what is needed.
RepairTargetsCutFirst(ring, start, placed, needed) ==
    Only(PlacementCandidates(ring, nodes, start, needed, {}),
         DOMAIN nodes \ placed)
RepairTargets(ring, start, placed, needed) ==
    LET candidates ==
            Only(PlacementCandidates(ring, nodes, start,
                                     Cardinality(DOMAIN nodes), {}),
                 DOMAIN nodes \ placed)
    IN  SubSeq(candidates, 1, Min({needed, Len(candidates)}))

\* GET /placement/{chunk} of every chunk, by its position.
PlacementForChunk(exclude) ==
    LET ring == BuildRing(nodes)
    IN  [start \in Positions |->
            PlacementCandidates(ring, nodes, start, RF, exclude)]
-----------------------------------------------------------------------------
(* Properties. *)

\* Well typed; a node has no more and no fewer virtual nodes than allowed.
TypeOK ==
    /\ DOMAIN nodes \subseteq Node
    /\ \A n \in DOMAIN nodes :
          /\ nodes[n] \in [budget : {Budget[n]}, free : Nat, used : Nat,
                           age : 0..MaxAge, draining : BOOLEAN]
          /\ VirtualNodeCount(EffectiveCapacity(nodes[n]))
                \in MINVIRTUALNODES..MAXVIRTUALNODES

\* How far a node is from a position, going up and around: to its nearest
\* virtual node.
Distance(start, n) ==
    Min({(RingPosition(n, k) + RingSize - start) % RingSize :
            k \in 1..VirtualNodeCount(EffectiveCapacity(nodes[n]))})

\* The walk finds the RF nearest nodes that are eligible and not excluded,
\* the nearest first, and all there are when there are fewer (placement.py).
CandidatesAreNearest ==
    \A exclude \in SUBSET DOMAIN nodes :
       LET usable == {n \in DOMAIN nodes \ exclude : IsEligible(nodes[n])}
           answer == PlacementForChunk(exclude)
       IN  \A start \in Positions :
              LET far == [n \in usable |-> Distance(start, n)]
                  found == answer[start]
              IN  /\ Len(found) = Min({RF, Cardinality(usable)})
                  /\ \A i \in DOMAIN found :
                        /\ found[i] \in usable
                        /\ i = Cardinality({n \in usable :
                                              far[n] <= far[found[i]]})

\* Repair sends the copies that are missing where an upload that tried the
\* holders before would send them, in the same order (replication.py:128-131).
RepairFollowsPlacement ==
    LET ring == BuildRing(nodes)
    IN  \A start \in Positions, placed \in SUBSET DOMAIN nodes, needed \in 1..RF :
           RepairTargets(ring, start, placed, needed)
              = PlacementCandidates(ring, nodes, start, needed, placed)

\* Every node in the order in which the chunks at a position prefer it.
Preferences(table) ==
    LET ring == BuildRing(table)
    IN  [start \in Positions |->
            PlacementCandidates(ring, table, start,
                                Cardinality(DOMAIN table), {})]

\* Where the copies of a chunk go.
Copies(preference) == {preference[i] : i \in 1..Min({RF, Len(preference)})}

\* A node that joins or leaves does not change the order of the others for any
\* chunk: it can only move copies to or from itself, at most one of each chunk
\* (README.md:52-54, build_ring).
OneNodeMovesOne ==
    \A n \in DOMAIN nodes :
       LET others == DOMAIN nodes \ {n}
           before == Preferences([m \in others |-> nodes[m]])
           after == Preferences(nodes)
       IN  \A start \in Positions :
              LET old == Copies(before[start])
                  new == Copies(after[start])
              IN  /\ Only(after[start], others) = before[start]
                  /\ Cardinality(new \ old) <= 1
                  /\ Cardinality(old \ new) <= 1
=============================================================================
