--------------------------- MODULE PlacementTable ---------------------------
(***************************************************************************)
(* The coordinator's table of chunk placements, for one chunk, under every *)
(* request and loop that reads or writes it: registering, draining and     *)
(* re-registering nodes (coordinator/nodes.py), the repair cycles          *)
(* (replication.py, repair.py), heartbeats, and the creation and deletion  *)
(* of the file (files.py).  Requests run in a pool of threads, each with   *)
(* its own database session that reads outside any transaction: a handler  *)
(* is the sequence of its queries and commits, and anything may happen     *)
(* between two of them.                                                    *)
(*                                                                         *)
(* Chunks are treated independently by all of this code, so one is enough. *)
(* The bytes on the nodes are the subject of ChunkBytes, not of this       *)
(* module: here a copy is a row of chunk_placements.                       *)
(*                                                                         *)
(* Drains are ordered by the flag each commits before it reads; nothing    *)
(* orders a registration, which releases copies too and clears the flag.   *)
(* The history variable crossed says that a registration has overlapped    *)
(* another release, and stays TRUE until the releases that overlap each    *)
(* other have all ended.                                                   *)
(***************************************************************************)
EXTENDS Naturals, FiniteSets

CONSTANTS
    Node,         \* addresses of storage nodes
    Worker,       \* threads that serve requests and run repair cycles
    RF,           \* replication_factor
    W,            \* write_quorum
    NoNode        \* on[w] of a worker that serves no node

ASSUME ReplicationAssumption == /\ RF \in Nat /\ W \in Nat
                                /\ RF >= 2 /\ 1 <= W /\ W <= RF
ASSUME NodeAssumption == IsFiniteSet(Node) /\ NoNode \notin Node
ASSUME WorkerAssumption == IsFiniteSet(Worker)

VARIABLES
    chunk,        \* "none" before POST /files, then "stored", then "deleted"
    holders,      \* nodes with a row in chunk_placements
    live,         \* age of last_heartbeat_at; "absent": no row in nodes
    draining,     \* nodes with Node.draining set
    kind,         \* what a worker is doing
    at,           \* where in it the worker is
    on,           \* the node a drain or registration is about
    todo,         \* targets of the repair plan still to be copied to
    seenDraining, \* nodes read as DRAINING by _release_surplus_placements
    seenDown,     \* nodes read as DOWN (or not read) by it
    crossed       \* history: a registration overlaps another release

nodeVars == <<live, draining>>
workVars == <<kind, at, on, todo, seenDraining, seenDown>>
vars == <<chunk, holders, nodeVars, workVars, crossed>>

Kinds == {"none", "repair", "drain", "register"}
Places == {"idle", "plan", "copy", "states", "decide", "drop", "answer"}

Registered == {n \in Node : live[n] # "absent"}
Busy(k) == {w \in Worker : kind[w] \in k}
Releasing == Busy({"drain", "register"})

\* state_from_heartbeat: draining outranks the clock.
IsDown(n) == n \notin draining /\ live[n] \in {"absent", "down"}
IsUp(n) == n \notin draining /\ live[n] = "up"
Servable == {n \in holders : ~IsDown(n)}
Permanent == Servable \ draining
-----------------------------------------------------------------------------
Init ==
    /\ chunk = "none" /\ holders = {}
    /\ live = [n \in Node |-> "absent"] /\ draining = {}
    /\ kind = [w \in Worker |-> "none"] /\ at = [w \in Worker |-> "idle"]
    /\ on = [w \in Worker |-> NoNode] /\ todo = [w \in Worker |-> {}]
    /\ seenDraining = [w \in Worker |-> {}]
    /\ seenDown = [w \in Worker |-> {}]
    /\ crossed = FALSE

\* The worker is handed k about node n and stands before step p.
Begin(w, k, n, p) ==
    /\ at[w] = "idle"
    /\ kind' = [kind EXCEPT ![w] = k]
    /\ on' = [on EXCEPT ![w] = n]
    /\ at' = [at EXCEPT ![w] = p]

\* The worker has sent its answer and forgets everything it read.
Finish(w) ==
    /\ kind' = [kind EXCEPT ![w] = "none"]
    /\ at' = [at EXCEPT ![w] = "idle"]
    /\ on' = [on EXCEPT ![w] = NoNode]
    /\ todo' = [todo EXCEPT ![w] = {}]
    /\ seenDraining' = [seenDraining EXCEPT ![w] = {}]
    /\ seenDown' = [seenDown EXCEPT ![w] = {}]
    /\ crossed' = (crossed /\ ~(Releasing \subseteq {w}))

Goto(w, p) ==
    /\ at' = [at EXCEPT ![w] = p]
    /\ UNCHANGED <<kind, on>>

\* After the release a drain still counts what remains; a registration is done.
AfterRelease(w) ==
    IF kind[w] = "drain"
    THEN /\ Goto(w, "answer")
         /\ UNCHANGED <<todo, seenDraining, seenDown, crossed>>
    ELSE Finish(w)
-----------------------------------------------------------------------------
(* Nodes come, go silent and come back. *)

\* POST /nodes/register for an address the coordinator has never seen.
RegisterNew(n) ==
    /\ live[n] = "absent"
    /\ live' = [live EXCEPT ![n] = "up"]
    /\ UNCHANGED <<chunk, holders, draining, workVars, crossed>>

\* POST /nodes/register for a known address: _apply_report clears draining
\* and the heartbeat age, commits, and goes on to release surplus copies.
Rejoin(w, n) ==
    /\ live[n] # "absent"
    /\ Begin(w, "register", n, "states")
    /\ live' = [live EXCEPT ![n] = "up"]
    /\ draining' = draining \ {n}
    /\ crossed' = (crossed \/ Releasing # {})
    /\ UNCHANGED <<chunk, holders, todo, seenDraining, seenDown>>

\* POST /nodes/heartbeat renews the age and nothing else.
Heartbeat(n) ==
    /\ live[n] \in {"suspect", "down"}
    /\ live' = [live EXCEPT ![n] = "up"]
    /\ UNCHANGED <<chunk, holders, draining, workVars, crossed>>

\* The last heartbeat grows older than a threshold.
Lapse(n) ==
    /\ live[n] \in {"up", "suspect"}
    /\ live' = [live EXCEPT ![n] = IF @ = "up" THEN "suspect" ELSE "down"]
    /\ UNCHANGED <<chunk, holders, draining, workVars, crossed>>
-----------------------------------------------------------------------------
(* The file of the chunk. *)

\* POST /files, by a browser that collected W acknowledgements or more; the
\* handler only checks that the nodes exist.
CreateFileUnchecked(S) ==
    /\ chunk = "none"
    /\ Cardinality(S) >= W
    /\ chunk' = "stored"
    /\ holders' = S
    /\ UNCHANGED <<nodeVars, workVars, crossed>>
CreateFile(S) ==
    /\ chunk = "none"
    /\ Cardinality(S) >= W
    /\ S \subseteq Registered
    /\ chunk' = "stored"
    /\ holders' = S
    /\ UNCHANGED <<nodeVars, workVars, crossed>>

\* DELETE /files/{id} deletes the placement rows with the chunk.
DeleteFile ==
    /\ chunk = "stored"
    /\ chunk' = "deleted"
    /\ holders' = {}
    /\ UNCHANGED <<nodeVars, workVars, crossed>>
-----------------------------------------------------------------------------
(* Repair: the loop, POST /replication/repair and the middle of a drain. *)

\* _compute_repair_plans: as many of the UP nodes that do not hold the chunk
\* as are needed, in ring order, the full ones left out.  Neither the ring nor
\* the fill of the disks is modelled, so any choice of that size is possible.
Planned ==
    IF chunk = "stored" /\ Servable # {}
    THEN {T \in SUBSET {n \in Node \ holders : IsUp(n)} :
             Cardinality(T) + Cardinality(Permanent) <= RF}
    ELSE {}

StartRepair(w) ==
    \E T \in Planned \ {{}} :
       /\ Begin(w, "repair", NoNode, "copy")
       /\ todo' = [todo EXCEPT ![w] = T]
       /\ UNCHANGED <<chunk, holders, nodeVars, seenDraining, seenDown,
                      crossed>>

PlanForDrain(w) ==
    /\ at[w] = "plan"
    /\ \E T \in Planned \cup {{}} : todo' = [todo EXCEPT ![w] = T]
    /\ Goto(w, "copy")
    /\ UNCHANGED <<chunk, holders, nodeVars, seenDraining, seenDown, crossed>>

\* _execute_repair, one target: the node took the bytes and the row is
\* committed.  The insert fails, and the failure is ignored, when the row is
\* there already or the chunk is gone.
Copy(w, n) ==
    /\ at[w] = "copy" /\ n \in todo[w]
    /\ todo' = [todo EXCEPT ![w] = @ \ {n}]
    /\ holders' = IF chunk = "stored" THEN holders \cup {n} ELSE holders
    /\ UNCHANGED <<chunk, nodeVars, kind, at, on, seenDraining, seenDown,
                   crossed>>

\* The source or the target could not be reached, or refused.
CopyFails(w, n) ==
    /\ at[w] = "copy" /\ n \in todo[w]
    /\ todo' = [todo EXCEPT ![w] = @ \ {n}]
    /\ UNCHANGED <<chunk, holders, nodeVars, kind, at, on, seenDraining,
                   seenDown, crossed>>

EndRepair(w) ==
    /\ at[w] = "copy" /\ kind[w] = "repair" /\ todo[w] = {}
    /\ Finish(w)
    /\ UNCHANGED <<chunk, holders, nodeVars>>
-----------------------------------------------------------------------------
(* Draining, and the release of surplus copies. *)

\* POST /nodes/drain: the flag is committed before anything is read.
MarkDrainingLater(w, n) ==
    /\ live[n] # "absent"
    /\ Begin(w, "drain", n, "plan")
    /\ crossed' = (crossed \/ Busy({"register"}) # {})
    /\ UNCHANGED <<chunk, holders, nodeVars, todo, seenDraining, seenDown>>
MarkDraining(w, n) ==
    /\ live[n] # "absent"
    /\ Begin(w, "drain", n, "plan")
    /\ draining' = draining \cup {n}
    /\ crossed' = (crossed \/ Busy({"register"}) # {})
    /\ UNCHANGED <<chunk, holders, live, todo, seenDraining, seenDown>>

\* _release_surplus_placements, first query: the state of every node.
ReadStates(w) ==
    /\ \/ at[w] = "states"
       \/ at[w] = "copy" /\ kind[w] = "drain" /\ todo[w] = {}
    /\ seenDraining' = [seenDraining EXCEPT ![w] = draining]
    /\ seenDown' = [seenDown EXCEPT ![w] = {n \in Node : IsDown(n)}]
    /\ Goto(w, "decide")
    /\ UNCHANGED <<chunk, holders, nodeVars, todo, crossed>>

\* Copies on other nodes that, by the states read before, are there to stay.
OtherCountsDraining(w) == holders \ ({on[w]} \cup seenDown[w])
OtherCountsItself(w) == holders \ (seenDraining[w] \cup seenDown[w])
OtherPermanent(w) ==
    holders \ ({on[w]} \cup seenDraining[w] \cup seenDown[w])

\* Second query: the placements of the chunk.
DecideDrop(w) ==
    /\ at[w] = "decide"
    /\ on[w] \in holders
    /\ Cardinality(OtherPermanent(w)) >= RF
    /\ Goto(w, "drop")
    /\ UNCHANGED <<chunk, holders, nodeVars, todo, seenDraining, seenDown,
                   crossed>>

DecideKeep(w) ==
    /\ at[w] = "decide"
    /\ \/ on[w] \notin holders
       \/ Cardinality(OtherPermanent(w)) < RF
    /\ AfterRelease(w)
    /\ UNCHANGED <<chunk, holders, nodeVars>>

\* The commit.  A row that is gone by now is no error.
Drop(w) ==
    /\ at[w] = "drop"
    /\ holders' = holders \ {on[w]}
    /\ AfterRelease(w)
    /\ UNCHANGED <<chunk, nodeVars>>

\* The drain counts what is left on the node and answers.
AnswerDrain(w) ==
    /\ at[w] = "answer"
    /\ Finish(w)
    /\ UNCHANGED <<chunk, holders, nodeVars>>
-----------------------------------------------------------------------------
\* The coordinator stops and starts again: the database survives.
Restart ==
    /\ Busy(Kinds \ {"none"}) # {}
    /\ kind' = [w \in Worker |-> "none"] /\ at' = [w \in Worker |-> "idle"]
    /\ on' = [w \in Worker |-> NoNode] /\ todo' = [w \in Worker |-> {}]
    /\ seenDraining' = [w \in Worker |-> {}]
    /\ seenDown' = [w \in Worker |-> {}]
    /\ crossed' = FALSE
    /\ UNCHANGED <<chunk, holders, nodeVars>>

NodeStep(n) == RegisterNew(n) \/ Heartbeat(n) \/ Lapse(n)

FileStep == (\E S \in SUBSET Node : CreateFile(S)) \/ DeleteFile

RepairStep(w) ==
    \/ StartRepair(w) \/ EndRepair(w)
    \/ \E n \in Node : Copy(w, n) \/ CopyFails(w, n)

DrainStep(w) ==
    \/ \E n \in Node : MarkDraining(w, n)
    \/ PlanForDrain(w) \/ AnswerDrain(w)

ReleaseStep(w) ==
    \/ \E n \in Node : Rejoin(w, n)
    \/ ReadStates(w) \/ DecideDrop(w) \/ DecideKeep(w) \/ Drop(w)

Next ==
    \/ \E n \in Node : NodeStep(n)
    \/ FileStep
    \/ \E w \in Worker : RepairStep(w) \/ DrainStep(w) \/ ReleaseStep(w)
    \/ Restart

Spec == Init /\ [][Next]_vars
-----------------------------------------------------------------------------
(* Properties. *)

\* Every variable has its type, a placement row points at a registered node
\* (the foreign key the database enforces), and a worker stands only where
\* its request can bring it.
TypeOK ==
    /\ chunk \in {"none", "stored", "deleted"}
    /\ chunk # "stored" => holders = {}
    /\ live \in [Node -> {"absent", "up", "suspect", "down"}]
    /\ holders \subseteq Registered
    /\ draining \subseteq Registered
    /\ kind \in [Worker -> Kinds] /\ at \in [Worker -> Places]
    /\ on \in [Worker -> Node \cup {NoNode}]
    /\ todo \in [Worker -> SUBSET Registered]
    /\ seenDraining \in [Worker -> SUBSET Node]
    /\ seenDown \in [Worker -> SUBSET Node]
    /\ crossed \in BOOLEAN
    /\ \A w \in Worker :
          /\ kind[w] = "none" <=> at[w] = "idle"
          /\ kind[w] = "repair" => at[w] = "copy"
          /\ kind[w] = "register" => at[w] \in {"states", "decide", "drop"}
          /\ at[w] = "states" => kind[w] = "register"
          /\ at[w] \in {"plan", "answer"} => kind[w] = "drain"
          /\ kind[w] \in {"drain", "register"} => on[w] \in Registered
          /\ at[w] # "copy" => todo[w] = {}

\* Workers that have read the states and not yet finished their release.
Reading == {w \in Worker : at[w] \in {"decide", "drop"}}

\* While a drain is served its node stays marked, and a drain that has read
\* the node states read its own node as DRAINING (nodes.py commits the flag
\* first).
MarkedBeforeRead ==
    \A w \in Worker : kind[w] = "drain" =>
       /\ on[w] \in draining
       /\ w \in Reading => on[w] \in seenDraining[w]

\* What concurrent drains read is ordered: of two of them the later one saw
\* every node draining that the earlier one saw, and they are all draining.
ReadsOrdered ==
    \A w \in Reading : kind[w] = "drain" =>
       /\ seenDraining[w] \subseteq draining
       /\ \A v \in Reading : kind[v] = "drain" =>
             \/ seenDraining[w] \subseteq seenDraining[v]
             \/ seenDraining[v] \subseteq seenDraining[w]

\* A drain about to drop a copy still has RF copies on nodes it did not see
\* draining, whatever the others dropped since it decided; a registration
\* has RF copies besides its own.
Covered(w) ==
    IF kind[w] = "drain"
    THEN Cardinality(holders \ seenDraining[w]) >= RF
    ELSE Cardinality(holders \ {on[w]}) >= RF

DropCovered ==
    \A w \in Worker : at[w] = "drop" /\ chunk = "stored" => Covered(w)

\* Until releases cross, a registration that releases copies is alone.
RejoinIsAlone == \A w \in Busy({"register"}) : Releasing = {w}

\* No release ever waits for a chunk that was not stored when it read it.
DropAfterStore == \A w \in Worker : at[w] = "drop" => chunk # "none"

\* The inductive invariant behind the promise: concurrent releases of one
\* chunk (_release_surplus_placements in several threads) never count on each
\* other, because a node is marked draining before its release reads states,
\* unless a registration is among them.
InOrder == MarkedBeforeRead /\ ReadsOrdered /\ DropCovered /\ RejoinIsAlone
ReleaseInv == DropAfterStore /\ (~crossed => InOrder)

\* However releases cross, a chunk of a stored file keeps a write quorum of
\* recorded copies or, with T threads, at least RF + 1 - T: every release
\* finds RF copies besides its own, and can only be overtaken by those
\* already decided (nodes.py:64-86).
QuorumFloor ==
    chunk = "stored" => \/ Cardinality(holders) >= W
                        \/ Cardinality(holders) + Cardinality(Worker) > RF

\* A placement of a stored chunk is only given up while replication-factor
\* others stay: what _release_surplus_placements counts for (nodes.py:75-81).
NoReleaseBelowRF ==
    [][ chunk = "stored" /\ chunk' = "stored" /\ ~(holders \subseteq holders')
        => Cardinality(holders') >= RF ]_vars

\* The coordinator keeps the promise of DurablePlacement: drains, rejoins,
\* repairs and restarts in any interleaving only ever store, add, give up a
\* covered copy or delete, and give up one that is not covered only while
\* releases cross (all of nodes.py, repair.py and files.py).
AtLeast(k) == {S \in SUBSET Node : Cardinality(S) >= k}
Promise == INSTANCE DurablePlacement
               WITH WriteSets <- AtLeast(W), FullSets <- AtLeast(RF)
KeepsPromise == Promise!Spec
=============================================================================
