----------------------------- MODULE ChunkBytes -----------------------------
(***************************************************************************)
(* One encrypted chunk: the copies the coordinator has on record, and the  *)
(* bytes that really are on the disks of the storage nodes.  Nothing ties  *)
(* the two together: a browser PUTs the bytes and then asks for the record *)
(* (lib/upload.ts, coordinator/files.py); repair PUTs and then records     *)
(* (repair.py); a release or a deletion drops the record and then DELETEs  *)
(* (nodes.py, files.py); and the GC sweep lists, looks the chunk up and    *)
(* DELETEs (gc.py).  All of them run at once.                              *)
(*                                                                         *)
(* The decision which record a release may drop is taken in one step here; *)
(* PlacementTable takes it apart.  A chunk's hash is its own: every upload *)
(* encrypts under a fresh nonce, so no two files share bytes.              *)
(*                                                                         *)
(* Nobody holds a lock from a look-up to the DELETE that follows it, so a  *)
(* copy may be recorded in between, and lose its bytes to a decision that  *)
(* was right when it was taken.  The history variable raced keeps which    *)
(* copies did: what the look-ups do guarantee is that no other copy on     *)
(* record is ever without bytes.                                           *)
(***************************************************************************)
EXTENDS Naturals, FiniteSets

CONSTANTS
    Node,          \* row ids of the storage nodes, numbers
    Worker,        \* coordinator threads that repair, release or delete
    RF,            \* replication_factor
    W,             \* write_quorum
    MaxTrouble     \* bound on outages, drains, refusals, restarts and rot

ASSUME ReplicationAssumption == /\ RF \in Nat /\ W \in Nat
                                /\ RF >= 2 /\ 1 <= W /\ W <= RF
ASSUME NodeAssumption == Node \subseteq Nat \ {0} /\ IsFiniteSet(Node)
ASSUME TroubleAssumption == MaxTrouble \in Nat

VARIABLES
    chunk,     \* "uploading", "abandoned", "stored" or "deleted"
    acked,     \* nodes whose PUT the uploading browser saw succeed
    holders,   \* nodes with a row in chunk_placements
    state,     \* a node as the coordinator sees it, and whether it answers
    data,      \* the file named by the hash on each node's disk
    aged,      \* nodes where that file's mtime is older than the GC grace
    at,        \* what a worker does next
    todo,      \* nodes it still has to deal with
    current,   \* the node it is dealing with (0: none)
    gcAt,      \* where the one GC thread is
    gcNode,    \* the node it is sweeping (0: none)
    raced,     \* history: copies hit by a DELETE decided before their record
    trouble    \* how much has gone wrong so far

recordVars == <<chunk, acked, holders>>
diskVars == <<data, aged>>
workVars == <<at, todo, current>>
gcVars == <<gcAt, gcNode>>
vars == <<recordVars, state, diskVars, workVars, gcVars, raced, trouble>>

\* "silent": does not answer, but its last heartbeat is not old enough for DOWN.
\* "stopped": does not answer, but was draining, and draining outranks the clock
\* (state_from_heartbeat): such a node is never seen as DOWN.
States == {"up", "silent", "down", "draining", "stopped"}
Answers(n) == state[n] \in {"up", "draining"}

Servable == {n \in holders : state[n] # "down"}
Permanent == {n \in holders : state[n] \in {"up", "silent"}}

\* Enough other copies are permanent for the record of n to be dropped.
SurplusWithItself(n) == Cardinality(Permanent) >= RF
Surplus(n) == Cardinality(Permanent \ {n}) >= RF

\* What repair may plan: targets are UP, as far as the coordinator knows, hold
\* no copy, and are no more than needed; full ones are left out, so any choice
\* up to the need is possible.
TargetsIgnoringDrains ==
    {T \in SUBSET {n \in Node \ holders : state[n] \in {"up", "silent"}} :
        T # {} /\ Cardinality(T) + Cardinality(Servable) <= RF}
Targets ==
    {T \in SUBSET {n \in Node \ holders : state[n] \in {"up", "silent"}} :
        T # {} /\ Cardinality(T) + Cardinality(Permanent) <= RF}

\* The source of a repair is the servable holder with the lowest id, and no
\* other: the repair fails when it does not answer or its bytes fail the hash.
SourceUsable ==
    \E source \in Servable :
       /\ \A n \in Servable : source <= n
       /\ Answers(source) /\ data[source] = "good"

\* What the GC sweep goes by: is the file old enough, is it referenced there?
PastGrace(n) == n \in aged
ReferencedAnywhere(n) == chunk = "stored"
Referenced(n) == n \in holders

Idle(w) == at[w] = "idle"

\* Copies a node has acknowledged, to a browser or to repair, that are not on
\* record yet, and copies somebody is about to DELETE, having found no record.
Awaited == acked \cup {current[w] : w \in {v \in Worker : at[v] = "record"}}
Doomed(n) == \/ \E w \in Worker : at[w] = "delete" /\ current[w] = n
             \/ gcAt = "delete" /\ gcNode = n
-----------------------------------------------------------------------------
\* Some nodes may not answer when the upload begins.
Init ==
    /\ chunk = "uploading" /\ acked = {} /\ holders = {}
    /\ state \in [Node -> {"up", "silent"}]
    /\ data = [n \in Node |-> "none"] /\ aged = {}
    /\ at = [w \in Worker |-> "idle"] /\ todo = [w \in Worker |-> {}]
    /\ current = [w \in Worker |-> 0]
    /\ gcAt = "idle" /\ gcNode = 0
    /\ raced = {}
    /\ trouble = 0

Trouble == trouble < MaxTrouble /\ trouble' = trouble + 1

\* store_chunk on node n.  A file that already verifies is left alone, with
\* the modification time it has; anything else is overwritten.
StoreChunk(n) ==
    /\ Answers(n)
    /\ data' = [data EXCEPT ![n] = "good"]
    /\ aged' = IF data[n] = "good" THEN aged ELSE aged \ {n}
    /\ raced' = raced \ {n}

\* delete_chunk on node n.
DeleteChunk(n) ==
    /\ Answers(n)
    /\ data' = [data EXCEPT ![n] = "none"]
    /\ aged' = aged \ {n}
    /\ raced' = IF n \in Awaited THEN raced \cup {n} ELSE raced

\* Worker w is through with node n and goes on at p, or is idle again.
NextNode(w, n, p) ==
    /\ todo' = [todo EXCEPT ![w] = @ \ {n}]
    /\ at' = [at EXCEPT ![w] = IF todo[w] = {n} THEN "idle" ELSE p]
    /\ current' = [current EXCEPT ![w] = 0]
-----------------------------------------------------------------------------
(* The browser. *)

\* A node the coordinator proposed takes the bytes; the acknowledgement may be
\* lost or come after the browser's timeout.
UploadChunk(n) ==
    /\ chunk = "uploading" /\ state[n] = "up" /\ n \notin acked
    /\ StoreChunk(n)
    /\ acked' \in {acked, acked \cup {n}}
    /\ UNCHANGED <<chunk, holders, state, workVars, gcVars, trouble>>

\* All chunks of the file reached their quorum: POST /files.
CreateFile ==
    /\ chunk = "uploading" /\ Cardinality(acked) >= W
    /\ chunk' = "stored" /\ holders' = acked /\ acked' = {}
    /\ raced' = raced \cup {n \in acked : Doomed(n)}
    /\ UNCHANGED <<state, diskVars, workVars, gcVars, trouble>>

\* A chunk misses its quorum, or the tab is closed.
AbandonUpload ==
    /\ chunk = "uploading"
    /\ chunk' = "abandoned" /\ acked' = {}
    /\ UNCHANGED <<holders, state, diskVars, workVars, gcVars, raced, trouble>>
-----------------------------------------------------------------------------
(* Repair. *)

\* Plan and fetch.  A fetch that fails changes nothing.
PlanAndFetch(w) ==
    /\ Idle(w) /\ chunk = "stored"
    /\ SourceUsable
    /\ \E T \in Targets : todo' = [todo EXCEPT ![w] = T]
    /\ at' = [at EXCEPT ![w] = "put"]
    /\ UNCHANGED <<recordVars, state, diskVars, current, gcVars, raced, trouble>>

PutCopy(w, n) ==
    /\ at[w] = "put" /\ n \in todo[w]
    /\ StoreChunk(n)
    /\ at' = [at EXCEPT ![w] = "record"]
    /\ current' = [current EXCEPT ![w] = n]
    /\ UNCHANGED <<recordVars, state, todo, gcVars, trouble>>

\* The target does not answer, or it refuses (no room, a stale chunk token).
PutFails(w, n) ==
    /\ at[w] = "put" /\ n \in todo[w]
    /\ \/ ~Answers(n) /\ UNCHANGED trouble
       \/ Answers(n) /\ Trouble
    /\ NextNode(w, n, "put")
    /\ UNCHANGED <<recordVars, state, diskVars, gcVars, raced>>

\* The placement row is committed when its savepoint is released, before the
\* next PUT; without its chunk the insert fails, and the failure is ignored.
RecordCopy(w) ==
    /\ at[w] = "record"
    /\ holders' = IF chunk = "stored" THEN holders \cup {current[w]} ELSE holders
    /\ raced' = IF Doomed(current[w]) THEN raced \cup {current[w]} ELSE raced
    /\ NextNode(w, current[w], "put")
    /\ UNCHANGED <<chunk, acked, state, diskVars, gcVars, trouble>>
-----------------------------------------------------------------------------
(* Records dropped first, bytes deleted after. *)

\* The release at the end of POST /nodes/drain.
ReleaseDrainedBytesFirst(w, n) ==
    /\ Idle(w) /\ state[n] = "draining" /\ n \in holders /\ Surplus(n)
    /\ at' = [at EXCEPT ![w] = "delete"]
    /\ todo' = [todo EXCEPT ![w] = {n}]
    /\ current' = [current EXCEPT ![w] = n]
    /\ UNCHANGED <<recordVars, state, diskVars, gcVars, raced, trouble>>
ReleaseDrained(w, n) ==
    /\ Idle(w) /\ state[n] = "draining" /\ n \in holders /\ Surplus(n)
    /\ holders' = holders \ {n}
    /\ at' = [at EXCEPT ![w] = "check"]
    /\ todo' = [todo EXCEPT ![w] = {n}]
    /\ UNCHANGED <<chunk, acked, state, diskVars, current, gcVars, raced, trouble>>

\* DELETE /files/{id}.
DeleteFileKeepsRows(w) ==
    /\ Idle(w) /\ chunk = "stored" /\ holders # {}
    /\ chunk' = "deleted"
    /\ at' = [at EXCEPT ![w] = "check"]
    /\ todo' = [todo EXCEPT ![w] = holders]
    /\ UNCHANGED <<acked, holders, state, diskVars, current, gcVars,
                   raced, trouble>>
DeleteFile(w) ==
    /\ Idle(w) /\ chunk = "stored" /\ holders # {}
    /\ chunk' = "deleted" /\ holders' = {}
    /\ at' = [at EXCEPT ![w] = "check"]
    /\ todo' = [todo EXCEPT ![w] = holders]
    /\ UNCHANGED <<acked, state, diskVars, current, gcVars, raced, trouble>>

\* still_needed: is there a row for this hash on this node by now?
CheckNeeded(w, n) ==
    /\ at[w] = "check" /\ n \in todo[w]
    /\ IF n \in holders
       THEN NextNode(w, n, "check")
       ELSE /\ at' = [at EXCEPT ![w] = "delete"]
            /\ current' = [current EXCEPT ![w] = n]
            /\ UNCHANGED todo
    /\ UNCHANGED <<recordVars, state, diskVars, gcVars, raced, trouble>>

DeleteBytes(w) ==
    /\ at[w] = "delete"
    /\ DeleteChunk(current[w])
    /\ NextNode(w, current[w], "check")
    /\ UNCHANGED <<recordVars, state, gcVars, trouble>>

\* Best effort: the bytes stay for the GC sweep.
DeleteFails(w) ==
    /\ at[w] = "delete"
    /\ \/ ~Answers(current[w]) /\ UNCHANGED trouble
       \/ Answers(current[w]) /\ Trouble
    /\ NextNode(w, current[w], "check")
    /\ UNCHANGED <<recordVars, state, diskVars, gcVars, raced>>
-----------------------------------------------------------------------------
(* The GC sweep, one node after the other in one thread. *)

GcList(n) ==
    /\ gcAt = "idle" /\ Answers(n) /\ PastGrace(n)
    /\ gcAt' = "listed" /\ gcNode' = n
    /\ UNCHANGED <<recordVars, state, diskVars, workVars, raced, trouble>>

GcLookUp ==
    /\ gcAt = "listed"
    /\ IF Referenced(gcNode)
       THEN gcAt' = "idle" /\ gcNode' = 0
       ELSE gcAt' = "delete" /\ UNCHANGED gcNode
    /\ UNCHANGED <<recordVars, state, diskVars, workVars, raced, trouble>>

GcDelete ==
    /\ gcAt = "delete"
    /\ \/ DeleteChunk(gcNode)
       \/ ~Answers(gcNode) /\ UNCHANGED <<diskVars, raced>>
    /\ gcAt' = "idle" /\ gcNode' = 0
    /\ UNCHANGED <<recordVars, state, workVars, trouble>>

\* GC_ORPHAN_GRACE_SECONDS have passed since the file was written.
Age(n) ==
    /\ data[n] # "none" /\ n \notin aged
    /\ aged' = aged \cup {n}
    /\ UNCHANGED <<recordVars, state, data, workVars, gcVars, raced, trouble>>
-----------------------------------------------------------------------------
(* Nodes and the coordinator process. *)

GoSilent(n) ==
    /\ Answers(n) /\ Trouble
    /\ state' = [state EXCEPT ![n] = IF @ = "up" THEN "silent" ELSE "stopped"]
    /\ UNCHANGED <<recordVars, diskVars, workVars, gcVars, raced>>

\* No heartbeat for SUSPECT_THRESHOLD and DOWN_GRACE_PERIOD.
Lapse(n) ==
    /\ state[n] = "silent"
    /\ state' = [state EXCEPT ![n] = "down"]
    /\ UNCHANGED <<recordVars, diskVars, workVars, gcVars, raced, trouble>>

\* The connection is back and with it the heartbeats.
Reconnect(n) ==
    /\ ~Answers(n)
    /\ state' = [state EXCEPT ![n] = IF @ = "stopped" THEN "draining" ELSE "up"]
    /\ UNCHANGED <<recordVars, diskVars, workVars, gcVars, raced, trouble>>

\* POST /nodes/drain commits the flag; the repair and the release follow.
MarkDraining(n) ==
    /\ state[n] \notin {"draining", "stopped"} /\ Trouble
    /\ state' = [state EXCEPT ![n] = IF @ = "up" THEN "draining" ELSE "stopped"]
    /\ UNCHANGED <<recordVars, diskVars, workVars, gcVars, raced>>

\* The node process starts again and registers.  A surplus record is dropped;
\* the DELETE that follows it always fails, because the node registers before
\* it listens (node/app.py).
Rejoin(n) ==
    /\ state' = [state EXCEPT ![n] = "up"]
    /\ holders' = IF Surplus(n) THEN holders \ {n} ELSE holders
    /\ state[n] # "up" \/ holders' # holders
    /\ UNCHANGED <<chunk, acked, diskVars, workVars, gcVars, raced, trouble>>

\* The coordinator stops and starts; the database survives.
Restart ==
    /\ Trouble
    /\ at' = [w \in Worker |-> "idle"] /\ todo' = [w \in Worker |-> {}]
    /\ current' = [w \in Worker |-> 0]
    /\ gcAt' = "idle" /\ gcNode' = 0
    /\ UNCHANGED <<recordVars, state, diskVars, raced>>

\* A disk loses bits.
Rot(n) ==
    /\ data[n] = "good" /\ Trouble
    /\ data' = [data EXCEPT ![n] = "bad"]
    /\ UNCHANGED <<recordVars, state, aged, workVars, gcVars, raced>>
-----------------------------------------------------------------------------
Browser == (\E n \in Node : UploadChunk(n)) \/ CreateFile \/ AbandonUpload

Repair(w) ==
    \/ PlanAndFetch(w) \/ RecordCopy(w)
    \/ \E n \in Node : PutCopy(w, n) \/ PutFails(w, n)

Reclaim(w) ==
    \/ \E n \in Node : CheckNeeded(w, n)
    \/ DeleteBytes(w) \/ DeleteFails(w)

Request(w) == DeleteFile(w) \/ \E n \in Node : ReleaseDrained(w, n)

Sweep == (\E n \in Node : GcList(n)) \/ GcLookUp \/ GcDelete

Environment ==
    \/ \E n \in Node : \/ GoSilent(n) \/ Reconnect(n) \/ MarkDraining(n)
                       \/ Rejoin(n) \/ Rot(n) \/ Lapse(n) \/ Age(n)
    \/ Restart

Next ==
    \/ Browser
    \/ \E w \in Worker : Repair(w) \/ Reclaim(w) \/ Request(w)
    \/ Sweep
    \/ Environment

Spec == Init /\ [][Next]_vars

\* The repair loop starts a cycle every REPAIR_INTERVAL_SECONDS and finishes
\* it; the sweep comes to every node that answers in every round; requests
\* are served to their end; clocks run.
Fairness ==
    /\ \A w \in Worker : WF_vars(Repair(w)) /\ WF_vars(Reclaim(w))
    /\ \A n \in Node : WF_vars(Lapse(n)) /\ WF_vars(Age(n)) /\ SF_vars(GcList(n))
    /\ WF_vars(GcLookUp) /\ WF_vars(GcDelete)

FairSpec == Spec /\ Fairness

\* Behaviours in which repair records at once what it has put: no file comes
\* of age between the PUT and the insert, which waits five seconds at most.
RepairIsPrompt == (\E w \in Worker : at[w] = "record") => aged' \subseteq aged
PromptSpec == Init /\ [][Next /\ RepairIsPrompt]_vars
-----------------------------------------------------------------------------
(* Properties. *)

TypeOK ==
    /\ chunk \in {"uploading", "abandoned", "stored", "deleted"}
    /\ acked \subseteq Node /\ holders \subseteq Node
    /\ chunk # "uploading" => acked = {}
    /\ chunk # "stored" => holders = {}
    /\ state \in [Node -> States]
    /\ data \in [Node -> {"none", "good", "bad"}]
    /\ aged \subseteq {n \in Node : data[n] # "none"}
    /\ at \in [Worker -> {"idle", "put", "record", "check", "delete"}]
    /\ todo \in [Worker -> SUBSET Node]
    /\ current \in [Worker -> Node \cup {0}]
    /\ \A w \in Worker :
          /\ at[w] = "idle" <=> todo[w] = {}
          /\ IF at[w] \in {"record", "delete"} THEN current[w] \in todo[w]
                                               ELSE current[w] = 0
    /\ gcAt \in {"idle", "listed", "delete"}
    /\ IF gcAt = "idle" THEN gcNode = 0 ELSE gcNode \in Node
    /\ raced \subseteq Node
    /\ trouble \in 0..MaxTrouble

\* Every record of a copy has bytes behind it, and so has every copy that was
\* acknowledged and waits for its record, unless a DELETE that was decided
\* before the record existed has hit it: a release, a deletion and the sweep
\* never take bytes they could have seen a record of (nodes.py:88-97,
\* gc.py:34-45), and repair records only what a node has taken.
LostOnlyToRaces == \A n \in holders \cup Awaited : data[n] = "none" => n \in raced

\* The copies on record that have bytes, rotten ones among them: neither the
\* coordinator nor the sweep looks at what the bytes are.
OnDisk == {n \in holders : data[n] # "none"}

\* A stored chunk is short of a write quorum of copies on disk only by copies
\* lost in that way, whatever was released (nodes.py:70-79, README.md:55-57).
QuorumButForRaces ==
    chunk = "stored" => Cardinality(OnDisk) + Cardinality(holders \cap raced) >= W

\* What repair records as a copy is one: a chunk below RF is re-replicated
\* onto a spare node, and the sweep reclaims only chunks that nothing
\* references any more (README.md:70-73).
RepairRecordsCopies ==
    [][\A w \in Worker : RecordCopy(w) => data[current[w]] # "none"]_vars

\* Nothing the browser was acknowledged for is reclaimed before POST /files
\* (gc.py:18).
AckedStays == \A n \in acked : data[n] # "none"

\* A chunk does not stay below RF for ever while the source that repair picks
\* is usable and there are RF nodes up to hold copies (repair.py, replication.py).
EnoughUp == Cardinality({n \in Node : state[n] = "up"}) >= RF
Replicated == Cardinality(Permanent) >= RF
RepairHeals ==
    []<>(chunk = "stored" /\ SourceUsable /\ EnoughUp => Replicated)

\* The same from any surviving copy, as README.md:71-72 has it: some holder
\* answers and has good bytes.
Survives == \E n \in holders : Answers(n) /\ data[n] = "good"
RepairHealsFromAnyCopy ==
    []<>(chunk = "stored" /\ Survives /\ EnoughUp => Replicated)

\* Bytes that nothing refers to do not stay on a node that answers for ever.
Orphan(n) == data[n] # "none" /\ n \notin holders /\ chunk # "uploading"
OrphansReclaimed == \A n \in Node : []<>~(Orphan(n) /\ Answers(n))
=============================================================================
