------------------------------ MODULE Placement ------------------------------
(***************************************************************************)
(* Where a chunk goes: shared/placement.py, the one copy of the rules for   *)
(* liveness, capacity and the consistent-hash ring that uploads, repair     *)
(* and the nodes themselves use.  Operators only; Cluster runs them.        *)
(*                                                                         *)
(* A node is a record [budget, free, used, age, draining]: what it reported *)
(* last, in units of disk, and the age of that report, in units of time.    *)
(* Nodes are numbered, as their rows are.                                   *)
(***************************************************************************)
EXTENDS Naturals, Sequences, SequencesExt, FiniteSetsExt

CONSTANTS
    SUSPECTTHRESHOLD,  \* SUSPECT_THRESHOLD, 30 s
    DOWNGRACEPERIOD,   \* DOWN_GRACE_PERIOD, 5 min
    GB, VIRTUALNODESPERGB, MINVIRTUALNODES, MAXVIRTUALNODES,
    RingSize,          \* the positions a hash can have, 2^64 in the code
    RingPosition(_, _) \* ring_position of virtual node k of node n

ASSUME RingAssumption ==
    /\ {SUSPECTTHRESHOLD, DOWNGRACEPERIOD, GB, VIRTUALNODESPERGB} \subseteq Nat \ {0}
    /\ MINVIRTUALNODES \in 1..MAXVIRTUALNODES /\ MAXVIRTUALNODES \in Nat
    /\ RingSize \in Nat \ {0}

StateFromHeartbeat(age, draining) ==
    CASE draining -> "draining"
      [] ~draining /\ age > SUSPECTTHRESHOLD + DOWNGRACEPERIOD -> "down"
      [] ~draining /\ age > SUSPECTTHRESHOLD
                   /\ age <= SUSPECTTHRESHOLD + DOWNGRACEPERIOD -> "suspect"
      [] OTHER -> "up"

EffectiveCapacity(n) == Min({n.budget, n.free})

\* max(0, min(budget - used, free)), with natural numbers.
Remaining(n) ==
    IF n.used >= n.budget THEN 0 ELSE Min({n.budget - n.used, n.free})

IsEligible(n) ==
    StateFromHeartbeat(n.age, n.draining) = "up" /\ Remaining(n) > 0

\* Python's round(): a half goes to the even neighbour.
Round(a, b) ==
    LET q == a \div b
        r == 2 * (a % b)
    IN  IF r > b \/ (r = b /\ q % 2 = 1) THEN q + 1 ELSE q

UncappedCount(capacity) ==
    Max({MINVIRTUALNODES, Round(capacity * VIRTUALNODESPERGB, GB)})
VirtualNodeCount(capacity) ==
    Min({MAXVIRTUALNODES,
         Max({MINVIRTUALNODES, Round(capacity * VIRTUALNODESPERGB, GB)})})

\* The members of S in the order of d, which tells them apart; what a sequence
\* has at the indices in I; and what of it is in T.  They stand for sort() and
\* for loops that append, and are free of recursion to be reasoned about.
Rank(S, d, x) == Cardinality({y \in S : d[y] <= d[x]})
SortBy(S, d) ==
    [i \in 1..Cardinality(S) |-> CHOOSE x \in S : Rank(S, d, x) = i]
Pick(s, I) ==
    LET index == SortBy(I, [i \in I |-> i])
    IN  [j \in DOMAIN index |-> s[index[j]]]
Only(s, T) == Pick(s, {i \in DOMAIN s : s[i] \in T})

\* nodes is a function from row ids, which start at 1, to records.  A ring is
\* the sequence of the virtual nodes in the order of their positions.
\* Positions are taken to be distinct, as 64-bit hashes are in practice.
Positions == 0..(RingSize - 1)

\* The virtual nodes of n; key[n] is what the hash is computed from.
Entries(n, nodes, key) ==
    {[position |-> RingPosition(key[n], k), node |-> n] :
        k \in 1..VirtualNodeCount(EffectiveCapacity(nodes[n]))}
Ring(nodes, key) ==
    LET entries == UNION {Entries(n, nodes, key) : n \in DOMAIN nodes}
    IN  SortBy(entries, [e \in entries |-> e.position])
RingByRank(nodes) ==
    LET id == [n \in DOMAIN nodes |-> n]
    IN  Ring(nodes, [n \in DOMAIN nodes |-> Rank(DOMAIN nodes, id, n)])
BuildRing(nodes) == Ring(nodes, [n \in DOMAIN nodes |-> n])

\* bisect_left modulo the length, counted from 0: the first entry at or behind
\* the position, going around.
StartBehind(ring, start) ==
    LET behind == Cardinality({i \in DOMAIN ring : ring[i].position <= start})
    IN  IF behind = Len(ring) THEN 0 ELSE behind
StartIndex(ring, start) ==
    LET behind == Cardinality({i \in DOMAIN ring : ring[i].position < start})
    IN  IF behind = Len(ring) THEN 0 ELSE behind

\* The nodes in the order in which the walk meets them.
Walk(ring, start) ==
    LET first == StartIndex(ring, start)
    IN  [i \in DOMAIN ring |-> ring[((first + i - 1) % Len(ring)) + 1].node]

\* The walk takes every eligible node that is not excluded when it meets it
\* for the first time, until there are count.
Taken(walk, nodes, exclude) ==
    {i \in DOMAIN walk : /\ walk[i] \notin exclude
                         /\ \A j \in 1..(i - 1) : walk[j] # walk[i]
                         /\ IsEligible(nodes[walk[i]])}
PlacementCandidates(ring, nodes, start, count, exclude) ==
    LET walk == Walk(ring, start)
        all == Pick(walk, Taken(walk, nodes, exclude))
    IN  IF ring = <<>> THEN <<>>
                       ELSE SubSeq(all, 1, Min({count, Len(all)}))
=============================================================================
