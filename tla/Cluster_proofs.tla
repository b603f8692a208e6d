--------------------------- MODULE Cluster_proofs ---------------------------
(***************************************************************************)
(* The nodes table is well typed for any number of nodes and any reports,   *)
(* and what the rules of placement.py compute from a row keeps its bounds:  *)
(* the number of virtual nodes, and the room that makes a node eligible.    *)
(* On such a table the walk finds the nearest nodes first (NearestFirst of  *)
(* Placement_proofs), and what uploads, repairs and joins rely on follows.  *)
(***************************************************************************)
EXTENDS Cluster, Placement_proofs

\* Rounding a quotient of natural numbers gives a natural number.
LEMMA RoundType ==
  ASSUME NEW a \in Nat, NEW b \in Nat \ {0}
  PROVE  Round(a, b) \in Nat
<1>1. a \div b \in Nat /\ a % b \in Nat
  OBVIOUS
<1> QED BY <1>1 DEF Round

\* A node has as many virtual nodes as are allowed, however small or large its
\* disk is (placement.py, virtual_node_count).
LEMMA VirtualNodesBounded ==
  ASSUME NEW capacity \in Nat
  PROVE  VirtualNodeCount(capacity) \in MINVIRTUALNODES..MAXVIRTUALNODES
<1> DEFINE rounded == Round(capacity * VIRTUALNODESPERGB, GB)
           atLeast == Max({MINVIRTUALNODES, rounded})
<1>1. MINVIRTUALNODES \in Nat /\ MAXVIRTUALNODES \in Nat
      /\ MINVIRTUALNODES <= MAXVIRTUALNODES
  BY RingAssumption
<1>2. capacity * VIRTUALNODESPERGB \in Nat /\ GB \in Nat \ {0}
  BY RingAssumption
<1>3. rounded \in Nat
  BY <1>2, RoundType
<1> HIDE DEF rounded
<1>4. atLeast \in Nat /\ atLeast >= MINVIRTUALNODES
  BY <1>1, <1>3, MaxOfTwo
<1> HIDE DEF atLeast
<1>5. VirtualNodeCount(capacity) = Min({MAXVIRTUALNODES, atLeast})
  BY DEF VirtualNodeCount, atLeast, rounded
<1> QED BY <1>1, <1>4, <1>5, MinOfTwo

\* Quotient and remainder; a larger number has no smaller quotient.
LEMMA Division ==
  ASSUME NEW a \in Nat, NEW b \in Nat \ {0}
  PROVE  /\ a \div b \in Nat /\ a % b \in 0..(b - 1)
         /\ a = b * (a \div b) + (a % b)
OBVIOUS

LEMMA DivisionGrows ==
  ASSUME NEW a \in Nat, NEW c \in Nat, a <= c, NEW b \in Nat \ {0}
  PROVE  \/ a \div b + 1 <= c \div b
         \/ a \div b = c \div b /\ a % b <= c % b
<1> DEFINE q == a \div b
           p == c \div b
           r == a % b
           s == c % b
<1>1. /\ q \in Nat /\ r \in 0..(b - 1) /\ a = b * q + r
      /\ p \in Nat /\ s \in 0..(b - 1) /\ c = b * p + s
  BY Division
<1> HIDE DEF q, p, r, s
<1>2. CASE p <= q - 1
  <2>1. b * p <= b * (q - 1) /\ b * (q - 1) = b * q - b
    BY <1>1, <1>2
  <2> QED BY <1>1, <2>1
<1>3. CASE p = q
  BY <1>1, <1>3 DEF p, q, r, s
<1>4. CASE p >= q + 1
  BY <1>1, <1>4 DEF p, q
<1> QED BY <1>1, <1>2, <1>3, <1>4

\* Rounding is off by a half at most, and never turns the order around.
LEMMA RoundNearest ==
  ASSUME NEW a \in Nat, NEW b \in Nat \ {0}
  PROVE  /\ 2 * (b * Round(a, b) - a) <= b
         /\ 2 * (a - b * Round(a, b)) <= b
<1> DEFINE q == a \div b
           r == a % b
<1>1. q \in Nat /\ r \in 0..(b - 1) /\ a = b * q + r
  BY Division
<1>2. Round(a, b) = IF 2 * r > b \/ (2 * r = b /\ q % 2 = 1) THEN q + 1 ELSE q
  BY DEF Round
<1> HIDE DEF q, r
<1>3. CASE Round(a, b) = q /\ 2 * r <= b
  BY <1>1, <1>3
<1>4. CASE Round(a, b) = q + 1 /\ 2 * r >= b
  <2>1. b * (q + 1) = b * q + b
    BY <1>1
  <2> QED BY <1>1, <1>4, <2>1
<1> QED BY <1>1, <1>2, <1>3, <1>4

LEMMA RoundGrows ==
  ASSUME NEW a \in Nat, NEW c \in Nat, a <= c, NEW b \in Nat \ {0}
  PROVE  Round(a, b) <= Round(c, b)
<1> DEFINE q == a \div b
           p == c \div b
           r == a % b
           s == c % b
<1>1. q \in Nat /\ r \in 0..(b - 1) /\ p \in Nat /\ s \in 0..(b - 1)
  BY Division
<1>2. q + 1 <= p \/ (q = p /\ r <= s)
  BY DivisionGrows, Zenon
<1>3. /\ Round(a, b) = IF 2 * r > b \/ (2 * r = b /\ q % 2 = 1) THEN q + 1 ELSE q
      /\ Round(c, b) = IF 2 * s > b \/ (2 * s = b /\ p % 2 = 1) THEN p + 1 ELSE p
  BY DEF Round
<1> HIDE DEF q, p, r, s
<1>4. CASE q + 1 <= p
  BY <1>1, <1>3, <1>4
<1>5. CASE q = p /\ r <= s
  BY <1>1, <1>3, <1>5
<1> QED BY <1>2, <1>4, <1>5

\* A larger disk has no smaller share of the ring, and between the bounds the
\* share is proportional to the disk but for rounding (README.md:52-54,
\* virtual_node_count).
THEOREM WeightFollowsCapacity ==
  ASSUME NEW capacity \in Nat, NEW more \in Nat, capacity <= more
  PROVE  LET count == VirtualNodeCount(capacity)
             exact == capacity * VIRTUALNODESPERGB
         IN  /\ count <= VirtualNodeCount(more)
             /\ count \in (MINVIRTUALNODES + 1)..(MAXVIRTUALNODES - 1) =>
                   2 * (GB * count - exact) <= GB /\ 2 * (exact - GB * count) <= GB
<1> DEFINE x == capacity * VIRTUALNODESPERGB
           y == more * VIRTUALNODESPERGB
           Bounded(n) == Min({MAXVIRTUALNODES, Max({MINVIRTUALNODES, n})})
<1>1. /\ MINVIRTUALNODES \in Nat /\ MAXVIRTUALNODES \in Nat
      /\ MINVIRTUALNODES <= MAXVIRTUALNODES
      /\ GB \in Nat \ {0} /\ VIRTUALNODESPERGB \in Nat
  BY RingAssumption
<1>2. x \in Nat /\ y \in Nat /\ x <= y
  <2>1. more = capacity + (more - capacity) /\ more - capacity \in Nat
    OBVIOUS
  <2>2. more * VIRTUALNODESPERGB
           = capacity * VIRTUALNODESPERGB + (more - capacity) * VIRTUALNODESPERGB
    BY <1>1, <2>1
  <2>3. (more - capacity) * VIRTUALNODESPERGB \in Nat
    BY <1>1, <2>1
  <2>4. x \in Nat /\ y \in Nat
    BY <1>1
  <2> QED BY <2>2, <2>3, <2>4
<1>3. /\ VirtualNodeCount(capacity) = Bounded(Round(x, GB))
      /\ VirtualNodeCount(more) = Bounded(Round(y, GB))
  BY DEF VirtualNodeCount
<1> HIDE DEF x, y
<1>4. /\ Round(x, GB) \in Nat /\ Round(y, GB) \in Nat
      /\ Round(x, GB) <= Round(y, GB)
      /\ 2 * (GB * Round(x, GB) - x) <= GB /\ 2 * (x - GB * Round(x, GB)) <= GB
  BY <1>1, <1>2, RoundType, RoundGrows, RoundNearest
<1>5. ASSUME NEW n \in Nat
      PROVE  Bounded(n) = IF n >= MAXVIRTUALNODES THEN MAXVIRTUALNODES
                          ELSE IF n <= MINVIRTUALNODES THEN MINVIRTUALNODES ELSE n
  <2>1. Max({MINVIRTUALNODES, n}) = IF MINVIRTUALNODES >= n THEN MINVIRTUALNODES ELSE n
    BY <1>1, MaxOfTwo
  <2> DEFINE m == Max({MINVIRTUALNODES, n})
  <2>2. m \in Nat
    BY <1>1, <2>1
  <2> HIDE DEF m
  <2>3. Min({MAXVIRTUALNODES, m}) = IF MAXVIRTUALNODES <= m THEN MAXVIRTUALNODES ELSE m
    BY <1>1, <2>2, MinOfTwo
  <2> QED BY <1>1, <2>1, <2>3 DEF m
<1> HIDE DEF Bounded
<1>6. VirtualNodeCount(capacity) <= VirtualNodeCount(more)
  BY <1>1, <1>3, <1>4, <1>5
<1>7. VirtualNodeCount(capacity) \in (MINVIRTUALNODES + 1)..(MAXVIRTUALNODES - 1)
         => VirtualNodeCount(capacity) = Round(x, GB)
  BY <1>1, <1>3, <1>4, <1>5
<1> QED BY <1>4, <1>6, <1>7 DEF x

\* A row of the table.
Row(n) == [budget : {Budget[n]}, free : Nat, used : Nat, age : 0..MaxAge,
           draining : BOOLEAN]

LEMMA RowCapacity ==
  ASSUME NEW n \in Node, NEW r \in Row(n)
  PROVE  EffectiveCapacity(r) \in Nat
BY ClusterAssumption, MinOfTwo DEF Row, EffectiveCapacity

\* A node that takes chunks is heard from, is not draining, and has room both
\* in its budget and on its disk (placement.py, remaining_bytes, is_eligible).
THEOREM EligibleHasRoom ==
  ASSUME NEW n \in Node, NEW r \in Row(n), IsEligible(r)
  PROVE  /\ r.used + Remaining(r) <= r.budget /\ Remaining(r) <= r.free
         /\ Remaining(r) \in Nat \ {0}
         /\ ~r.draining /\ r.age <= SUSPECTTHRESHOLD
<1>1. /\ r.budget \in Nat /\ r.used \in Nat /\ r.free \in Nat /\ r.age \in Nat
      /\ r.draining \in BOOLEAN
  BY ClusterAssumption, RingAssumption DEF Row, MaxAge
<1>2. r.used < r.budget /\ Remaining(r) > 0
  BY <1>1 DEF IsEligible, Remaining
<1>3. r.budget - r.used \in Nat
  BY <1>1, <1>2
<1>4. Remaining(r) = IF r.budget - r.used <= r.free THEN r.budget - r.used
                                                    ELSE r.free
  BY <1>1, <1>2, <1>3, MinOfTwo DEF Remaining
<1>5. ~r.draining
  BY <1>1 DEF IsEligible, StateFromHeartbeat
<1>6. r.age <= SUSPECTTHRESHOLD
  BY <1>1, <1>5, RingAssumption DEF IsEligible, StateFromHeartbeat
<1> QED BY <1>1, <1>2, <1>3, <1>4, <1>5, <1>6

Table(t) == /\ IsFiniteSet(DOMAIN t) /\ DOMAIN t \subseteq Node
            /\ \A n \in DOMAIN t : t[n] \in Row(n)

\* The inductive invariant.
Rows == Table(nodes)

LEMMA RowsAreOK == Rows => TypeOK
<1> SUFFICES ASSUME Rows PROVE TypeOK
  OBVIOUS
<1>1. ASSUME NEW n \in DOMAIN nodes
      PROVE  VirtualNodeCount(EffectiveCapacity(nodes[n]))
                \in MINVIRTUALNODES..MAXVIRTUALNODES
  <2>1. n \in Node /\ nodes[n] \in Row(n)
    BY DEF Rows, Table
  <2> QED BY <2>1, RowCapacity, VirtualNodesBounded
<1> QED BY <1>1 DEF Rows, Table, Row, TypeOK

LEMMA RowsAtFirst == Init => Rows
BY FS_EmptySet DEF Init, Rows, Table

LEMMA RowsStay == Rows /\ [Next]_nodes => Rows'
<1> SUFFICES ASSUME Rows, [Next]_nodes PROVE Rows'
  OBVIOUS
<1>0. 0 \in 0..MaxAge /\ MaxAge \in Nat
  BY RingAssumption DEF MaxAge
<1>1. ASSUME NEW n \in Node, NEW d \in Disks, RegisterNode(n, d) PROVE Rows'
  <2>1. Reported(n, d) \in Row(n)
    BY <1>0, ClusterAssumption DEF Reported, Row
  <2>2. IsFiniteSet(DOMAIN nodes \cup {n})
    BY FS_AddElement DEF Rows, Table
  <2> QED BY <1>1, <2>1, <2>2 DEF RegisterNode, Rows, Table
<1>2. ASSUME NEW n \in Node, NEW d \in Disks, Heartbeat(n, d) PROVE Rows'
  <2>1. nodes[n] \in Row(n) /\ d \in [free : Nat, used : Nat]
    BY <1>2, ClusterAssumption DEF Heartbeat, Rows, Table
  <2>2. /\ DOMAIN nodes' = DOMAIN nodes
        /\ \A m \in DOMAIN nodes : m # n => nodes'[m] = nodes[m]
    BY <1>2 DEF Heartbeat
  <2>3. nodes'[n] \in Row(n)
    BY <1>0, <1>2, <2>1 DEF Heartbeat, Row
  <2> QED BY <2>2, <2>3 DEF Rows, Table
<1>3. ASSUME NEW n \in Node, Drain(n) PROVE Rows'
  BY <1>3 DEF Drain, Rows, Table, Row
<1>4. ASSUME NEW n \in Node, Tick(n) PROVE Rows'
  BY <1>0, <1>4 DEF Tick, Rows, Table, Row
<1>5. CASE UNCHANGED nodes
  BY <1>5 DEF Rows, Table
<1> QED BY <1>1, <1>2, <1>3, <1>4, <1>5 DEF Next

\* Whatever nodes report, the table is well typed and every node has a number
\* of virtual nodes that is allowed (nodes.py, placement.py).
THEOREM TypeCorrect == Spec => []TypeOK
<1> QED BY RowsAtFirst, RowsAreOK, RowsStay, PTL DEF Spec
-----------------------------------------------------------------------------
(* What placements do with the table. *)

LEMMA TableIsPlaced ==
  ASSUME NEW t, Table(t)
  PROVE  WellPlaced(t)
<1>1. ASSUME NEW n \in DOMAIN t
      PROVE  n \in Node /\ Count(t[n]) \in 1..MAXVIRTUALNODES
  <2>1. n \in Node /\ EffectiveCapacity(t[n]) \in Nat
    BY RowCapacity DEF Table
  <2> QED BY <2>1, VirtualNodesBounded, RingAssumption DEF Count
<1>2. ASSUME NEW m \in DOMAIN t, NEW n \in DOMAIN t,
             NEW j \in 1..Count(t[m]), NEW k \in 1..Count(t[n])
      PROVE  /\ RingPosition(m, j) \in Positions
             /\ RingPosition(m, j) = RingPosition(n, k) => m = n
  <2>1. j \in 1..MAXVIRTUALNODES /\ k \in 1..MAXVIRTUALNODES
    BY <1>1, RingAssumption
  <2> QED BY <1>1, <2>1, DistinctAssumption
<1>3. \A n \in DOMAIN t : Count(t[n]) \in Nat \ {0}
  BY <1>1, RingAssumption
<1> QED BY <1>2, <1>3 DEF WellPlaced, Table

\* The nodes that may be used, and how many.
LEMMA UsableIs ==
  ASSUME NEW t, Table(t), NEW start \in Positions, NEW exclude
  PROVE  /\ Keyed(Usable(t, exclude), Far(t, start))
         /\ Cardinality(Usable(t, exclude)) \in Nat
         /\ Cardinality(Usable(t, exclude)) <= Cardinality(DOMAIN t)
         /\ Cardinality(DOMAIN t) \in Nat
<1>1. Usable(t, exclude) \in SUBSET DOMAIN t /\ IsFiniteSet(DOMAIN t)
  BY DEF Usable, Table
<1>2. /\ IsFiniteSet(Usable(t, exclude))
      /\ Cardinality(Usable(t, exclude)) <= Cardinality(DOMAIN t)
  BY <1>1, FS_Subset
<1>3. Keyed(DOMAIN t, Far(t, start))
  BY TableIsPlaced, FarIs
<1> QED BY <1>1, <1>2, <1>3, FS_CardinalityType DEF Keyed

\* GET /placement names the RF nearest nodes that can take the chunk, nearest
\* first, or all there are: for any number of nodes, of any size, with any
\* reports, and whatever the uploads exclude (placement.py:92-119).
THEOREM CandidatesNearest == Spec => []CandidatesAreNearest
<1>1. Rows => CandidatesAreNearest
  <2> SUFFICES ASSUME Rows, NEW exclude \in SUBSET DOMAIN nodes,
                      NEW start \in Positions
               PROVE  LET usable == {n \in DOMAIN nodes \ exclude :
                                        IsEligible(nodes[n])}
                          far == [n \in usable |-> Distance(start, n)]
                          found == PlacementForChunk(exclude)[start]
                      IN  /\ Len(found) = Min({RF, Cardinality(usable)})
                          /\ \A i \in DOMAIN found :
                                /\ found[i] \in usable
                                /\ i = Cardinality({n \in usable :
                                                      far[n] <= far[found[i]]})
    BY DEF CandidatesAreNearest
  <2> DEFINE U == Usable(nodes, exclude)
             near == Far(nodes, start)
             far == [n \in U |-> Distance(start, n)]
             nearest == SortBy(U, near)
             found == PlacementForChunk(exclude)[start]
             m == Min({RF, Cardinality(U)})
  <2>1. U = {n \in DOMAIN nodes \ exclude : IsEligible(nodes[n])}
    BY DEF Usable
  <2>2. found = [i \in 1..m |-> nearest[i]]
    <3>1. found = PlacementCandidates(BuildRing(nodes), nodes, start, RF, exclude)
      BY DEF PlacementForChunk
    <3>2. RF \in Nat /\ WellPlaced(nodes)
      BY ClusterAssumption, TableIsPlaced DEF Rows
    <3> QED BY <3>1, <3>2, NearestFirst
  <2>3. Keyed(U, near) /\ Cardinality(U) \in Nat
    BY UsableIs DEF Rows
  <2>4. m \in Nat /\ m <= Cardinality(U)
    BY <2>3, ClusterAssumption, MinOfTwo
  <2>5. Len(found) = m /\ DOMAIN found = 1..m
    BY <2>2, <2>4
  <2>6. ASSUME NEW i \in 1..m
        PROVE  found[i] \in U /\ Rank(U, near, found[i]) = i
    <3>1. i \in 1..Cardinality(U) /\ found[i] = nearest[i]
      BY <2>2, <2>3, <2>4
    <3> QED BY <2>3, <3>1, SortByLists, SortByRank
  <2>7. \A n \in U : near[n] = far[n]
    <3> SUFFICES ASSUME NEW n \in U PROVE near[n] = Distance(start, n)
      OBVIOUS
    <3>1. n \in DOMAIN nodes
      BY DEF Usable
    <3> QED BY <3>1 DEF Far, Distance, Around, Count
  <2>8. ASSUME NEW i \in 1..m
        PROVE  i = Cardinality({n \in U : far[n] <= far[found[i]]})
    <3>1. Rank(U, far, found[i]) = i
      BY <2>6, <2>7, SortByAgree
    <3> QED BY <3>1 DEF Rank
  <2> HIDE DEF U, far, found
  <2>9. /\ Len(found) = Min({RF, Cardinality(U)})
        /\ \A i \in DOMAIN found :
              /\ found[i] \in U
              /\ i = Cardinality({n \in U : far[n] <= far[found[i]]})
    BY <2>5, <2>6, <2>8
  <2> QED BY <2>1, <2>9 DEF far, found
<1> QED BY <1>1, RowsAtFirst, RowsStay, PTL DEF Spec

\* A walk that is not cut short names every node that can take a chunk.
LEMMA WholeWalk ==
  ASSUME NEW t, Table(t), NEW start \in Positions, NEW exclude
  PROVE  PlacementCandidates(BuildRing(t), t, start, Cardinality(DOMAIN t), exclude)
            = SortBy(Usable(t, exclude), Far(t, start))
<1> DEFINE U == Usable(t, exclude)
           s == SortBy(U, Far(t, start))
<1>1. /\ Keyed(U, Far(t, start)) /\ Cardinality(U) \in Nat
      /\ Cardinality(U) <= Cardinality(DOMAIN t) /\ Cardinality(DOMAIN t) \in Nat
  BY UsableIs
<1>2. Min({Cardinality(DOMAIN t), Cardinality(U)}) = Cardinality(U)
  BY <1>1, MinOfTwo
<1>3. s = [i \in 1..Cardinality(U) |-> s[i]]
  BY DEF SortBy
<1>4. PlacementCandidates(BuildRing(t), t, start, Cardinality(DOMAIN t), exclude)
         = [i \in 1..Min({Cardinality(DOMAIN t), Cardinality(U)}) |-> s[i]]
  <2> DEFINE c == Cardinality(DOMAIN t)
  <2>1. c \in Nat /\ WellPlaced(t)
    BY <1>1, TableIsPlaced
  <2> HIDE DEF c
  <2>2. PlacementCandidates(BuildRing(t), t, start, c, exclude)
           = [i \in 1..Min({c, Cardinality(U)}) |-> s[i]]
    BY <2>1, NearestFirst
  <2> QED BY <2>2 DEF c
<1> QED BY <1>2, <1>3, <1>4

\* Repair and upload agree on where a copy goes, for any holders and however
\* many copies are missing: leaving the holders out of the whole walk and
\* cutting it then gives what the walk that excludes them finds
\* (replication.py:128-131, placement.py:107-117).
THEOREM RepairFollows == Spec => []RepairFollowsPlacement
<1>1. Rows => RepairFollowsPlacement
  <2> SUFFICES ASSUME Rows, NEW start \in Positions,
                      NEW placed \in SUBSET DOMAIN nodes, NEW needed \in 1..RF
               PROVE  RepairTargets(BuildRing(nodes), start, placed, needed)
                         = PlacementCandidates(BuildRing(nodes), nodes, start,
                                               needed, placed)
    BY DEF RepairFollowsPlacement
  <2> DEFINE near == Far(nodes, start)
             U == Usable(nodes, {})
             P == Usable(nodes, placed)
             s == SortBy(P, near)
  <2>1. needed \in Nat
    BY ClusterAssumption
  <2>2. /\ Keyed(U, near) /\ Keyed(P, near)
        /\ Cardinality(P) \in Nat
    BY UsableIs DEF Rows
  <2>3. PlacementCandidates(BuildRing(nodes), nodes, start,
                            Cardinality(DOMAIN nodes), {}) = SortBy(U, near)
    BY WholeWalk DEF Rows
  <2>4. Only(SortBy(U, near), DOMAIN nodes \ placed) = s
    <3>1. U \cap (DOMAIN nodes \ placed) = P
      BY DEF Usable
    <3> QED BY <2>2, <3>1, OnlySorts
  <2>5. Len(s) = Cardinality(P)
    BY <2>2, SortByLists
  <2>6. RepairTargets(BuildRing(nodes), start, placed, needed)
           = [i \in 1..Min({needed, Cardinality(P)}) |-> s[i]]
    <3> DEFINE m == Min({needed, Cardinality(P)})
    <3>1. RepairTargets(BuildRing(nodes), start, placed, needed) = SubSeq(s, 1, m)
      BY <2>3, <2>4, <2>5 DEF RepairTargets
    <3>2. m \in Nat
      BY <2>1, <2>2, MinOfTwo
    <3> HIDE DEF s, m
    <3> QED BY <3>1, <3>2, Beginning DEF s, m
  <2>7. PlacementCandidates(BuildRing(nodes), nodes, start, needed, placed)
           = [i \in 1..Min({needed, Cardinality(P)}) |-> s[i]]
    <3>1. WellPlaced(nodes)
      BY TableIsPlaced DEF Rows
    <3> QED BY <2>1, <3>1, NearestFirst
  <2> QED BY <2>6, <2>7
<1> QED BY <1>1, RowsAtFirst, RowsStay, PTL DEF Spec

\* Two tables agree on the order of the nodes whose rows they share.
LEMMA SharedOrder ==
  ASSUME NEW t, Table(t), NEW u, Table(u), NEW start \in Positions,
         NEW same, same = {n \in DOMAIN t \cap DOMAIN u : u[n] = t[n]}
  PROVE  Only(Preferences(t)[start], same) = Only(Preferences(u)[start], same)
<1>1. ASSUME NEW v, Table(v)
      PROVE  Only(Preferences(v)[start], same)
                = SortBy(Usable(v, {}) \cap same, Far(v, start))
  <2>1. Preferences(v)[start] = SortBy(Usable(v, {}), Far(v, start))
    BY <1>1, WholeWalk DEF Preferences
  <2> QED BY <1>1, <2>1, UsableIs, OnlySorts
<1>2. Usable(t, {}) \cap same = Usable(u, {}) \cap same
  BY DEF Usable
<1>3. \A n \in Usable(t, {}) \cap same : Far(t, start)[n] = Far(u, start)[n]
  BY DEF Far
<1>4. SortBy(Usable(t, {}) \cap same, Far(t, start))
         = SortBy(Usable(t, {}) \cap same, Far(u, start))
  BY <1>3, SortByAgree
<1> QED BY <1>1, <1>2, <1>4

\* Two tables that differ in one row.
Differ(t, u, n) ==
    \A m : m # n => /\ m \in DOMAIN t <=> m \in DOMAIN u
                    /\ m \in DOMAIN t => t[m] = u[m]

LEMMA StepsDiffer ==
  ASSUME [Next]_nodes
  PROVE  \E n : Differ(nodes, nodes', n)
<1>1. ASSUME NEW n \in Node, NEW d \in Disks, RegisterNode(n, d)
      PROVE  Differ(nodes, nodes', n)
  BY <1>1 DEF RegisterNode, Differ
<1>2. ASSUME NEW n \in Node, NEW d \in Disks, Heartbeat(n, d)
      PROVE  Differ(nodes, nodes', n)
  BY <1>2 DEF Heartbeat, Differ
<1>3. ASSUME NEW n \in Node, Drain(n) \/ Tick(n) PROVE Differ(nodes, nodes', n)
  BY <1>3 DEF Drain, Tick, Differ
<1>4. CASE UNCHANGED nodes
  BY <1>4 DEF Differ
<1> QED BY <1>1, <1>2, <1>3, <1>4 DEF Next

\* The first k of S.
Top(S, d, k) == {x \in S : Rank(S, d, x) <= k}

\* A member more or less moves the ranks of the others by one at most.
LEMMA RankMoves ==
  ASSUME NEW S, NEW d, Keyed(S, d), NEW n, NEW x \in S \ {n}
  PROVE  /\ Rank(S \ {n}, d, x) \in Nat
         /\ Rank(S, d, x) = IF n \in S /\ d[n] <= d[x]
                            THEN Rank(S \ {n}, d, x) + 1
                            ELSE Rank(S \ {n}, d, x)
<1> DEFINE below == {y \in S : d[y] <= d[x]}
           others == {y \in S \ {n} : d[y] <= d[x]}
<1>1. IsFiniteSet(others) /\ Cardinality(others) \in Nat
  <2>1. others \in SUBSET S
    OBVIOUS
  <2>2. IsFiniteSet(S)
    BY DEF Keyed
  <2> HIDE DEF others
  <2> QED BY <2>1, <2>2, FS_Subset, FS_CardinalityType
<1>2. CASE n \in S /\ d[n] <= d[x]
  <2>1. below = others \cup {n} /\ n \notin others
    BY <1>2
  <2> HIDE DEF others, below
  <2>2. Cardinality(below) = Cardinality(others) + 1
    BY <1>1, <2>1, FS_AddElement
  <2> QED BY <1>1, <1>2, <2>2 DEF Rank, others, below
<1>3. CASE ~(n \in S /\ d[n] <= d[x])
  <2>1. below = others
    BY <1>3
  <2> QED BY <1>1, <1>3, <2>1 DEF Rank
<1> QED BY <1>2, <1>3

\* Two sets that share all members but one, and their keys, have the same first
\* k but for one.
LEMMA TopMovesOne ==
  ASSUME NEW S, NEW d, Keyed(S, d), NEW T, NEW e, Keyed(T, e), NEW n,
         S \ {n} = T \ {n}, \A x \in S \ {n} : d[x] = e[x], NEW k \in Nat
  PROVE  Cardinality(Top(T, e, k) \ Top(S, d, k)) <= 1
<1> DEFINE O == S \ {n}
           new == Top(T, e, k) \ Top(S, d, k)
<1>1. \A x \in O : Rank(O, e, x) = Rank(O, d, x)
  BY SortByAgree
<1>2. Keyed(O, d)
  <2>1. IsFiniteSet(S) /\ O \in SUBSET S
    BY DEF Keyed
  <2>2. IsFiniteSet(O)
    BY <2>1, FS_Subset
  <2> QED BY <2>2 DEF Keyed
<1>3. ASSUME NEW x \in new, x # n
      PROVE  /\ x \in O /\ Rank(O, d, x) = k
             /\ ~(n \in T /\ e[n] <= e[x]) /\ Rank(T, e, x) = k
  <2>1. x \in S \ {n} /\ x \in T \ {n}
        /\ Rank(T, e, x) <= k /\ ~(Rank(S, d, x) <= k)
    BY <1>3 DEF Top
  <2>2. /\ Rank(O, d, x) \in Nat
        /\ Rank(S, d, x) = IF n \in S /\ d[n] <= d[x]
                           THEN Rank(O, d, x) + 1 ELSE Rank(O, d, x)
    BY <2>1, RankMoves
  <2>3. Rank(T, e, x) = IF n \in T /\ e[n] <= e[x]
                        THEN Rank(O, e, x) + 1 ELSE Rank(O, e, x)
    BY <2>1, RankMoves
  <2>4. Rank(O, e, x) = Rank(O, d, x)
    BY <1>1, <2>1
  <2> QED BY <2>1, <2>2, <2>3, <2>4
<1>4. ASSUME NEW x \in new, x # n, n \in new PROVE FALSE
  <2>1. n \in T /\ Rank(T, e, n) <= k /\ x \in T
    BY <1>4 DEF Top
  <2>2. Rank(T, e, x) = k /\ ~(e[n] <= e[x])
    BY <1>3, <1>4, <2>1
  <2> QED BY <2>1, <2>2, RankOrder
<1>5. \A x, y \in new : x = y
  <2> SUFFICES ASSUME NEW x \in new, NEW y \in new PROVE x = y
    OBVIOUS
  <2>1. CASE x # n /\ y # n
    <3>1. x \in O /\ y \in O /\ Rank(O, d, x) = Rank(O, d, y)
      BY <1>3, <2>1
    <3> HIDE DEF O
    <3> QED BY <1>2, <3>1, RankOrder
  <2> QED BY <1>4, <2>1
<1> HIDE DEF new
<1>6. CASE new = {}
  BY <1>6, FS_EmptySet DEF new
<1>7. CASE new # {}
  <2>1. PICK x : x \in new
    BY <1>7
  <2>2. new = {x}
    BY <1>5, <2>1
  <2>3. Cardinality(new) = 1
    BY <2>2, FS_Singleton
  <2> QED BY <2>3 DEF new
<1> QED BY <1>6, <1>7

\* The copies of a chunk go to the RF nearest nodes.
LEMMA CopiesAreTop ==
  ASSUME NEW t, Table(t), NEW start \in Positions
  PROVE  Copies(Preferences(t)[start]) = Top(Usable(t, {}), Far(t, start), RF)
<1> DEFINE U == Usable(t, {})
           far == Far(t, start)
           s == SortBy(U, far)
           m == Min({RF, Cardinality(U)})
<1>1. Preferences(t)[start] = s
  BY WholeWalk DEF Preferences
<1>2. Keyed(U, far) /\ Cardinality(U) \in Nat /\ RF \in Nat
  BY UsableIs, ClusterAssumption
<1>3. m = IF RF <= Cardinality(U) THEN RF ELSE Cardinality(U)
  BY <1>2, MinOfTwo
<1> HIDE DEF U, far
<1>4. /\ Len(s) = Cardinality(U)
      /\ \A i \in 1..Cardinality(U) : s[i] \in U /\ Rank(U, far, s[i]) = i
      /\ \A x \in U : \E i \in 1..Cardinality(U) : s[i] = x
  BY <1>2, SortByLists, SortByRank
<1> HIDE DEF s, m
<1>5. Copies(s) = {s[i] : i \in 1..m}
  BY <1>4 DEF Copies, m
<1>6. {s[i] : i \in 1..m} = Top(U, far, RF)
  BY <1>2, <1>3, <1>4 DEF Top
<1> QED BY <1>1, <1>5, <1>6 DEF U, far

LEMMA OneCopyMoves ==
  ASSUME NEW t, Table(t), NEW u, Table(u), NEW n, Differ(t, u, n),
         NEW start \in Positions
  PROVE  Cardinality(Copies(Preferences(u)[start]) \ Copies(Preferences(t)[start]))
            <= 1
<1> DEFINE S == Usable(t, {})
           T == Usable(u, {})
           d == Far(t, start)
           e == Far(u, start)
<1>1. S \ {n} = T \ {n}
  BY DEF Usable, Differ
<1>2. \A x \in S \ {n} : d[x] = e[x]
  BY DEF Usable, Differ, Far
<1>3. Keyed(S, d) /\ Keyed(T, e) /\ RF \in Nat
  BY UsableIs, ClusterAssumption
<1>4. /\ Copies(Preferences(t)[start]) = Top(S, d, RF)
      /\ Copies(Preferences(u)[start]) = Top(T, e, RF)
  BY CopiesAreTop
<1> HIDE DEF S, T, d, e
<1> QED BY <1>1, <1>2, <1>3, <1>4, TopMovesOne

\* With or without a node, the others are in the same order, and one copy of a
\* chunk moves at most: for any number of nodes, of any size
\* (README.md:52-54, build_ring).
THEOREM OneMovesOne == Spec => []OneNodeMovesOne
<1>1. Rows => OneNodeMovesOne
  <2> SUFFICES ASSUME Rows, NEW n \in DOMAIN nodes, NEW start \in Positions
               PROVE  LET others == DOMAIN nodes \ {n}
                          before == Preferences([m \in others |-> nodes[m]])
                          after == Preferences(nodes)
                          old == Copies(before[start])
                          new == Copies(after[start])
                      IN  /\ Only(after[start], others) = before[start]
                          /\ Cardinality(new \ old) <= 1
                          /\ Cardinality(old \ new) <= 1
    BY DEF OneNodeMovesOne
  <2> DEFINE others == DOMAIN nodes \ {n}
             table == [m \in others |-> nodes[m]]
             before == Preferences(table)
             after == Preferences(nodes)
  <2>1. Table(nodes)
    BY DEF Rows
  <2>2. Table(table) /\ Differ(table, nodes, n) /\ Differ(nodes, table, n)
    BY <2>1, FS_RemoveElement DEF Table, Differ
  <2>3. others = {m \in DOMAIN nodes \cap DOMAIN table : table[m] = nodes[m]}
    OBVIOUS
  <2> HIDE DEF table, others
  <2>4. Only(after[start], others) = Only(before[start], others)
    BY <2>1, <2>2, <2>3, SharedOrder
  <2>5. Only(before[start], others) = before[start]
    <3>1. before[start] = SortBy(Usable(table, {}), Far(table, start))
      BY <2>2, WholeWalk DEF Preferences
    <3>2. Usable(table, {}) \cap others = Usable(table, {})
      BY DEF Usable, table
    <3>3. Keyed(Usable(table, {}), Far(table, start))
      BY <2>2, UsableIs
    <3> QED BY <3>1, <3>2, <3>3, OnlySorts
  <2>6. /\ Cardinality(Copies(after[start]) \ Copies(before[start])) <= 1
        /\ Cardinality(Copies(before[start]) \ Copies(after[start])) <= 1
    BY <2>1, <2>2, OneCopyMoves
  <2> QED BY <2>4, <2>5, <2>6 DEF others, table
<1> QED BY <1>1, RowsAtFirst, RowsStay, PTL DEF Spec

\* No step, be it a registration, a report, a drain or a silence, changes the
\* order of the nodes whose rows it leaves alone, or moves more than one copy of
\* a chunk.
StepMovesOne ==
    \A start \in Positions :
       LET before == Preferences(nodes)[start]
           after == Preferences(nodes')[start]
           unchanged == {n \in DOMAIN nodes \cap DOMAIN nodes' :
                            nodes'[n] = nodes[n]}
       IN  /\ Only(before, unchanged) = Only(after, unchanged)
           /\ Cardinality(Copies(after) \ Copies(before)) <= 1
           /\ Cardinality(Copies(before) \ Copies(after)) <= 1

\* The same for every step of the table, whatever it changes in its row
\* (nodes.py, the handlers that write rows; build_ring).
THEOREM StepsMoveOne == Spec => [][StepMovesOne]_nodes
<1>1. ASSUME Rows, Rows', [Next]_nodes PROVE StepMovesOne
  <2>1. PICK n : Differ(nodes, nodes', n)
    BY <1>1, StepsDiffer
  <2>2. Differ(nodes', nodes, n)
    BY <2>1 DEF Differ
  <2>3. Table(nodes) /\ Table(nodes')
    BY <1>1 DEF Rows
  <2> QED BY <2>1, <2>2, <2>3, SharedOrder, OneCopyMoves DEF StepMovesOne
<1>2. Rows /\ [Next]_nodes => [StepMovesOne]_nodes
  BY <1>1, RowsStay
<1> QED BY <1>2, RowsAtFirst, RowsStay, PTL DEF Spec
=============================================================================
