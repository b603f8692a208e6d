# A specification of the LAN distributed file system

This directory holds TLA+ modules that model the coordinator, the storage nodes
and the browser of this repository, TLC configurations that check them on small
instances, and proofs, checked by TLAPS, of the theorems that matter most for
every number of nodes and threads. Paths below are relative to `src/`.

## 1. Inventory

| part | state it keeps | operations | talks to |
|---|---|---|---|
| coordinator, placement table (`backend/coordinator/nodes.py`, `repair.py`, `replication.py`, `files.py`) | rows `nodes`, `files`, `chunks`, `chunk_placements` in SQLite | register, drain, heartbeat, create/delete file, repair cycle (loop, request, drain), release of surplus placements | nodes over HTTP (GET/PUT/DELETE chunk); browsers and nodes call it |
| coordinator, sweep (`gc.py`) | none of its own | list a node, look hashes up, DELETE orphans | nodes |
| placement rules (`backend/shared/placement.py`) | none, pure | liveness, capacity, ring, candidates | used by uploads, repair and the nodes |
| node, chunk store (`backend/node/chunks.py`) | one file per chunk hash | PUT, GET, DELETE, list, each PUT in a thread | browsers, coordinator |
| node, process (`backend/node/__main__.py`, `app.py`, `heartbeat.py`, `registration.py`) | event loop, heartbeat task, HTTP client with its session | start, register, heartbeat, drain on shutdown, end | coordinator |
| browser upload (`frontend/src/lib/upload.ts`, `pages/FilesPage.tsx`) | workers, attempted and acknowledged nodes per chunk | placement, PUT to nodes, create file, delete the replaced file | coordinator, nodes |
| browser download (`frontend/src/lib/download.ts`) | workers, pending chunks, save target | fetch from replicas, decrypt, flush in order | coordinator, nodes |
| files table and file lists (`backend/coordinator/files.py`, `models.py`, `frontend/src/pages/FilesPage.tsx`) | rows `files`; in every dashboard a list of them | list, create, rename, delete, replace | coordinator, through a row id |
| accounts and sessions (`backend/coordinator/auth.py`, `security.py`, `frontend/src/App.tsx`) | rows `accounts`; a cookie per browser; rate limit | register, login, logout, `/me` | browsers, nodes |
| namespace key and verifier (`auth.py`, `frontend/src/pages/SettingsPage.tsx`, `lib/namespaceKey.ts`) | the verifier; in every browser a derived key and an "unlocked" flag | fetch the salt, derive, GET and PUT the verifier, check, store, forget | coordinator |
| settings (`backend/coordinator/settings.py`, `app.py`) | salt, secrets, replication limits | seed at the start, load, refuse | all handlers |
| events, discovery, dashboard, demo, schemas | a log, presentation | | |

Requests and the two loops run in a pool of threads; every thread has its own
database session, reads outside transactions, and commits now and then. So a
handler is a sequence of queries, commits and HTTP calls, and another handler may
run between any two of them. Nothing ties rows to bytes: bytes are always put
before the row is written and deleted after it is dropped. The browser is single
threaded, its workers interleave at awaits.

What is hard, and makes each part correct:

- *Placement table.* Several releases of one chunk at once (drains,
  re-registrations) must not count on each other; a release reads node states
  long before it acts on them; a drain is answered by one count.
- *Rows against bytes.* Sweep, release, deletion and repair check and act in
  separate steps, without a lock: a row must be without bytes only where a look-up
  could not have seen it; no acknowledged chunk may be swept away before it is
  recorded; repair heals, orphans go.
- *Placement rules.* The ring walk at its boundaries, agreement of upload and
  repair, and small movement when one node changes.
- *Chunk store.* Room is measured before it is used and files are truncated before
  they are written, with other threads, a DELETE and crashes in between; what was
  acknowledged must be whole.
- *Node process.* One event loop, blocked by its own drain request; a heartbeat in a
  thread that outlasts the shutdown; a session that ends; timeouts against late
  answers. A shutdown ends, a node that runs is heard from.
- *Upload.* Only what was acknowledged is recorded; a quorum for every chunk; the
  replaced file goes last; an end in every case.
- *Download.* Output in order whatever order chunks arrive in; closed only when
  complete; nothing after the end; an end in every case.
- *Files by id.* SQLite gives the id of the newest row out again; who kept an id
  across an await acts on another file.
- *Accounts and namespace.* One account per name though look-up and insert are two
  steps; a browser unlocks only with a key the group shares, whatever is answered,
  lost or mistyped; one salt across restarts; the first verifier stays.

`PROJECT.json` lists the hazards line by line.

## 2. Modules

    DurablePlacement            what the coordinator promises about one chunk
      ^ implemented by (checked and proved)
    PlacementTable              rows of one chunk, handlers as threads
    ChunkBytes                  rows and bytes of one chunk; repair, release, sweep
    Placement                   placement.py as operators
      Cluster                   the nodes table that feeds it, and who asks
    ChunkStore                  files of one node, PUTs as threads
      ^ extends
    NodeProcess                 the node as a process, and its row
    Upload                      one upload in a browser tab
    Download                    one download in a browser tab
    Namespace                   start, accounts, sessions, passphrase form, verifier
    <module>_proofs             TLAPS proofs about PlacementTable, ChunkBytes,
                                Placement, Cluster, NodeProcess, Upload, Download,
                                Namespace
    MC<module>                  what TLC needs: symmetry, small values

Every name of a module that stands for code is listed in `PROJECT.json` "map" with
its lines. Some definitions come in two forms, the second one being that of the
code; the first, which no other definition uses, is a plausible slip in the code (a
guard dropped, an order swapped) that shows which property would notice.

Code that relies on something without enforcing it gets no guard in the model that
would enforce it. Where the code leaves a hole, a *history variable*, which no guard
reads, records that a behaviour went through it, the property states the exception in
terms of it, and a run of its own shows the hole where the repository claims that there
is none: `crossed` in PlacementTable, `raced` in ChunkBytes, `lapped` and `crowd` in
ChunkStore, `elsewhere` and `made` in Upload, `past` and `crossed` in Namespace.

**PlacementTable.** One chunk is enough: every handler treats chunks
independently. `holders` are the rows of `chunk_placements`; `live` and `draining`
are what `state_from_heartbeat` computes the state from. A worker is a thread: it
serves a repair cycle (`StartRepair`, `Copy`, `CopyFails`, `EndRepair`), a drain
(`MarkDraining`, `PlanForDrain`, copies, `ReadStates`, `DecideDrop`/`DecideKeep`,
`Drop`, `AnswerDrain`) or a registration of a known node (`Rejoin`, then a
release). Each action lies between two commits. A repair plan is read in one step
and executed any time later, so that it may be stale in any way. `Restart` loses
the threads and keeps the rows. `crossed` is set when the registration of a known node
begins while another release is served, or a drain while such a registration is, and
reset when the releases that overlap each other have all ended.

**ChunkBytes.** Adds the disks: `data` is the file a node has under the chunk's
hash, `aged` says that its mtime is older than the GC grace. Repair puts bytes and
then records them, target by target (SQLite commits the row when its savepoint is
released, before the next PUT); release and deletion drop the row, look the hash up
once more and DELETE; the sweep lists, looks up, and DELETEs. Nodes fall silent, go
down, drain, stop, come back, lose bits. The decision of a release is one step here,
since PlacementTable takes it apart. `MaxTrouble` bounds outages, drains, refusals,
restarts and rot together. `raced` has the copies that a DELETE hit although they were
acknowledged and about to be recorded (`Awaited`), or that were recorded while a DELETE
was on its way (`Doomed`); a copy leaves it when its bytes are put again.

**ChunkStore, NodeProcess.** A PUT verifies and measures (`StoreChunk`), truncates
(`Open`), and writes (`Write`, `WriteFails`), each a step of its own, and a DELETE comes
in between as it likes. A thread that has the file open is `behind` when another has
truncated the file since, and `adrift` when the file was unlinked: what it writes then
is not under the hash, and its PUT is answered "stored" all the same. `acked` is what
the node answered "stored" for and was not told to delete. `lapped` has the chunks for
which requests overlapped, until no PUT of them is under way and the bytes are there if
acknowledged; `crowd` is how many PUTs were between their look at the room and their end at
once, at most so far. `proc` is where the process is between login and exit, and
`beat` the heartbeat task; what happens in the event loop needs it free, what
happens in threads does not. While `proc` is `drain` the loop stands still: the
coordinator's repair asks this very node for its chunks (`AnswerDrain`) and gets no
answer, and only the timeouts let both go on, although the docstring at
`backend/node/__main__.py` 12-13 has the request sent early "so the coordinator's
repair can still fetch chunks from this node". A request that waited in the
coordinator longer than the node did may be served after the node has come back
(`MarkDraining`). `heard` says that the last heartbeat is recent; any time may pass
between two steps, so it may lapse at any of them.

**Placement, Cluster.** A ring is the sequence of virtual nodes by position, the
walk takes eligible nodes at their first occurrence. `SortBy` stands for `sort`, `Pick`
and `Only` for loops that append what they select; they are written with ranks instead
of recursion, so that they can be reasoned about. Hashes are small numbers, and no two
nodes have a virtual node at the same position (`DistinctAssumption`; the code keeps 64
bits of SHA-256, and would order equal positions by the row order). Time is counted in units with thresholds of one; ages above
the suspect threshold are alike since placement only asks whether a node is up.

**Upload, Download.** Workers take indices from a shared counter; an action runs
from one await to the next. In Upload the answers of a round are gathered in one
step, as `Promise.all` does, and the answer of the coordinator is any set of W to RF
nodes outside the excluded ones. `table` is the files table by row id: the page keeps the id
of the file it replaces (`existing`), the coordinator inserts at the id behind the
largest (`IsNext`), and `DeleteOld` deletes whatever has the id by then, while other
pages delete and create rows. The lists and the `transferInProgress` guards of this page
keep the user from doing the same in the same page during an upload; another dashboard
has nothing of the kind. In Download the number of replicas left stands for
the list of replicas. A closed tab is an execution that stops, which the safety
properties cover.

**Namespace.** A coordinator handler is one step per SELECT and one for its write
with the commit, since SQLite begins a transaction at the first write: `Lookup`,
`Join` for a registration; `Check`, `Merge`, `Insert` or `Update` for the verifier
(`set_setting` merges, that is, it looks for the row once more). A browser handler
goes from await to await: `Submit` (salt and key), `GetVerifier`, `PutVerifier`, and
after a 409 `GetVerifier` again, `Verify`, `Unlock`. `Abandon` is any error of it or a
closed tab; the thread that serves its request goes on. A key is a passphrase with the
salt it was derived with, a verifier is the key it was encrypted under, so that
decrypting is comparing. `Seed`, `LoadConfig` and `Stop` are the coordinator's life:
the salt is committed before the configuration is looked at. `Logout` does not wait
for its answer, which may therefore end a later session (`EndSession`). `crossed` is set when a PUT is let past its check while another one is past it and has
not committed.

## 3. What the runs check

| run | bounds | question |
|---|---|---|
| `placement_table` | 3 nodes, 2 threads, RF = W = 2, symmetric | type, the inductive invariant `ReleaseInv`, `QuorumFloor`, refinement of DurablePlacement |
| `concurrent_rejoin` (violated) | the same | two registrations count each other and both drop |
| `chunk_bytes` | 3 nodes, 2 threads and the sweep, RF = W = 2, one trouble, fair | `LostOnlyToRaces`, `QuorumButForRaces`, `RepairHeals`, `OrphansReclaimed` |
| `reclaim_race` (violated) | 3 nodes, 1 thread and the sweep, W 1; repair records at once what it put | the sweep deletes what repair is about to record |
| `slow_upload` (violated) | 1 thread, two troubles | an upload outlasts the grace and loses acknowledged chunks |
| `stopped_while_draining` (violated) | 1 thread, two troubles, fair | a chunk is never healed although a good copy survives |
| `cluster` | 3 nodes, ring of 9, 3 reports, RF 2 | candidates are the nearest, repair follows placement, a node more or less leaves the order of the others and moves one copy of a chunk at most |
| `upload` | 2 workers, 2 chunks, 4 nodes, 2 rounds, 2 row ids, fair | what is recorded is durable, no node twice, replacement in order, an end |
| `download` | 3 workers, 5 chunks, 2 replicas, fair | output in order, complete when closed, nothing after the end, an end |
| `node` | 2 threads, 2 chunks of size 2, budget 3, fair | acknowledged chunks are whole, budget exceeded by one chunk per other thread at most, a leaving node stays DRAINING, shutdown ends, a node with a session is heard from |
| `session_expired` (violated) | 1 thread, 1 chunk, fair | a node that runs is not heard from again once its session has ended |
| `namespace` | 2 browsers, 2 threads, 1 name, 2 passphrases, 2 starts | one account per name, only shared keys unlock, one salt, the first verifier stays |

The violated runs are findings: each states what a document, comment or test says,
and shows an execution of the code that disagrees. `PROJECT.json` "findings" has
the quotations.

*Why these bounds.* Two threads are the least with which handlers interleave, and
with RF = 2 three nodes are the least that have a copy to give up, or one spare for
two drains to compete for; the theorems cover more. Three
workers and five chunks let one download worker fall behind while another runs
ahead by more than one chunk. Four nodes are two upload rounds of a quorum each,
so that acknowledgements of two rounds add up. Two row ids are the old file with the
new one behind it, or the new one, or somebody else's, in the row the old one had. Two chunks for a budget
of one and a half let two PUTs exceed it. Nine ring positions and up to three
virtual nodes per node interleave all three nodes; the three reports are room, little
room, and none in the budget. One trouble in `chunk_bytes` is an outage, a drain, a
refusal, a restart or rot, not two of them in a row, beside nodes that do not answer when
the upload begins (`Init`); the theorems have any number.

*Exceptions.* What the code relies on without enforcing it, and the properties that say so:

- A known node re-registers while no other registration and no drain is served. Until
  they cross, `ReleaseInv` is the whole argument for the releases and a copy is given up
  only over RF others. When they do, `concurrent_rejoin` has what happens, and `QuorumFloor`
  bounds it: with T threads RF + 1 - T copies stay, which is something for two or three
  threads and nothing for the forty of the thread pool.
- A file is recorded before its bytes are older than `GC_ORPHAN_GRACE_SECONDS`.
  `slow_upload` is the run where an upload takes longer.
- No copy is recorded between a look-up of the coordinator and the DELETE it leads to.
  `reclaim_race` shows it for the sweep and a prompt repair: an upload leaves bytes on
  node 1 without an acknowledgement, they come of age, repair is told by the node that it
  has the chunk, the sweep finds no record of it and deletes it, and repair records it. The
  look-up may as well come first. Since repair plans by rows, nothing ever restores that copy. In
  `LostOnlyToRaces` and `QuorumButForRaces` these copies are `raced`: every other copy on
  record has bytes.
- Requests for one chunk do not overlap at a node. When they do, an acknowledged chunk
  may be lost (section 5); `AckedIsWhole` excepts it while `lapped`.
- No other page deletes the file an upload replaces. When one does, `ReplacedInOrder`
  leaves open what has the row id by then (section 5).
- Two PUTs of a verifier do not cross. `FirstWriteWins` says what holds until they do.

*Fairness.* The repair and sweep loops start a cycle in every interval, forever,
and catch what a cycle throws (`repair.py` 169-183, `gc.py` 63-75): weak fairness of
`Repair`, `Reclaim`, `GcLookUp`, `GcDelete`, and strong fairness of `GcList(n)`, since a
node that answers again and again is met in some round. Clocks run: `Lapse`, `Age`.
In the browser the event loop runs what can run: weak fairness of every worker and of
the page. PUTs and GETs of chunks have a timeout there (`upload.ts` 52, `download.ts` 42).
The requests to the coordinator have none (`api.ts`: placement, POST and DELETE of files,
and the report of a missing chunk), so that `UploadEnds` and `TransferEnds` also lean on
the coordinator to answer, or on its connections to break. In a node the event loop and
the threads run, and the HTTP client times out. No fairness is assumed of nodes coming
back, of users, or of uploads.

*RepairHeals* has `SourceUsable` and enough nodes up as its premises; the first is
necessary, as `stopped_while_draining` shows.

## 4. What is proved

`PlacementTable_proofs.tla` assumes what the module does of its constants, and
proves for every finite set of nodes, every finite set of threads and every RF >= 2,
W <= RF:

- `TypeCorrect`: `Spec => []TypeOK`.
- `ReleasesCovered`: `Spec => []ReleaseInv`.
- `PromiseKept`: `Spec => KeepsPromise`, the coordinator implements DurablePlacement.
- `QuorumKept`: `Spec => []QuorumFloor`.

`ReleasesCovered` and `PromiseKept` have the exception of `crossed`, in `ReleaseInv` and in
the `GiveUp` of DurablePlacement; the other two have none.

The argument. That a release leaves RF copies behind does not follow from its own
count, because others drop copies between its count and its drop. What saves the
code is that a node is marked DRAINING *before* its release reads the states. So of
two drains the one that read later saw the other draining (`ReadsOrdered`, on top of
`MarkedBeforeRead`) and did not count its copy; the one that read earlier may have
counted the other's copy only if the other does not drop below RF of nodes *it*
counted, and those are among the nodes the earlier one counted. `DropCovered` says
this in one formula: a drain about to drop has RF copies on nodes it did not see
draining, whatever was dropped since. It needs `RejoinIsAlone` because registrations
do not mark themselves: that is what `crossed` excepts. Each action has a lemma;
`DropKeepsOthersCovered` is the heart. `DropLeavesRF` then gives every `Drop` as a
`GiveUp` of DurablePlacement. `QuorumKept` counts instead: a release that decides has
found RF copies besides its own, and each of the others that decided before can take
one of these away.

`NodeProcess_proofs.tla` proves, for any number of threads and chunks, any chunk size
and any budget:

- `AckedWhole`: `Spec => []AckedIsWhole`, by `FilesInv`: a chunk that is not `lapped` has
  one PUT at most, which has the file of the chunk open if any, and if it is acknowledged
  it is whole and nobody writes it.
- `BudgetKept`: `Spec => []BudgetBound`. The bound itself is not inductive, since a write
  under way adds to it. `BudgetInv` bounds the chunks there are together with those
  that are coming: a PUT that finds room adds at most one for each thread that is busy,
  and no other step adds any.
- `TypeCorrect`, `LeavingMarked`, by `ProcInv`, their conjunction.

Every step of the process is a step of the store or leaves it alone
(`NextIsStoreStep`), so that the first two are about the store only.

`ChunkBytes_proofs.tla` proves for any number of nodes and threads and any amount of
trouble `TypeCorrect`, `CopiesLostToRacesOnly` and `QuorumOnDisk`. `LostOnlyToRaces` alone
is not inductive: whoever is about to DELETE could hit a row. `Blind` adds that there is
a row where somebody is about to DELETE only if it is `raced` or being put again, and
`Recorded` that a stored chunk has W rows, which a release keeps because it finds RF
others.

`Upload_proofs.tla` proves `RecordedDurable`, `NodesAskedOnce`, `OldGoesLast` and
`TypeCorrect` for any nodes, workers, chunks and rounds. What has to be added to
"recorded means durable" is that nothing is missing when all workers are done
(`NoneMissing`): without an error, a chunk that was taken has its quorum or is in the
hands of a worker, and a worker that ended found no chunk to take. `OldGoesLast` has the
exception of `ReplacedInOrder`; it follows where each of the two files is, by its row.

`Download_proofs.tla` proves `PrefixWritten`, `ClosedWhole`, `NothingWrittenLater` and
`TypeCorrect` for any chunks, workers and replicas. The invariant says where every
chunk that was taken is (written, pending, being written, or with a worker), that there
is one writer exactly while `flushing`, and that the next chunk does not wait in
`pending` when nobody writes: so that a worker may leave its chunk to another's flush.

`Namespace_proofs.tla` proves `NamesAreUnique`, `UnlocksAreShared`, `SaltStays`,
`FirstStays` and `TypeCorrect` for any browsers, threads, names and passphrases. A browser
gets to `Unlock` by a look at the verifier or by the answer to its own PUT; `Waits` says
that it waits for one thread at most, which carries its key, also after answers were lost.
For `FirstStays` the invariant adds that, until PUTs cross, one thread at most is past
its check, and none once there is a verifier.

`Placement_proofs.tla` says what the operators of placement.py compute, for rings of any
size and without induction. `SortByLists` and `SortByUnique`: sorting by a key that tells
the members apart gives the one sequence that has them all and goes up. `TurnSorts`: the
virtual nodes in the order of the walk go up in their distance from the start, modular
arithmetic included, hence the walk *is* the ring sorted by distance. `TakenAreNearest`:
the first time the walk meets a node it is at the nearest virtual node of that node, so
what is taken goes up in the distance of nodes and is, by uniqueness, the usable nodes
sorted by it. `NearestFirst` cuts this at the number asked for. It holds for every table
that is `WellPlaced`: finitely many nodes, a virtual node for each, distinct positions.

`Cluster_proofs.tla` shows that registrations, reports, drains and silence lead to such
tables only (`Rows`, `TableIsPlaced`), for any number of nodes and any reports, and proves:

- `TypeCorrect`, with the bound on virtual nodes, `EligibleHasRoom` about the rule that
  makes a node a target, and `WeightFollowsCapacity`: the number of virtual nodes grows
  with the disk and is proportional to it, between its bounds, up to Python's rounding.
- `CandidatesNearest`: `Spec => []CandidatesAreNearest`, from `NearestFirst`.
- `RepairFollows`: `Spec => []RepairFollowsPlacement`, since leaving members out before
  or after sorting is the same (`OnlySorts`).
- `OneMovesOne`: `Spec => []OneNodeMovesOne`, and `StepsMoveOne`, the same of the two sides
  of every step of the table. That the order of the others stays follows from `OnlySorts`
  as well; that one copy moves at most does from ranks: a member more or less shifts the
  rank of the others by one (`RankMoves`), so that only the one at rank RF can be pushed
  out, and only by the newcomer (`TopMovesOne`).

The answer of the coordinator that Upload takes for granted, at most RF different nodes
none of which is excluded, is an instance of `CandidatesNearest`.

Upload and Download assume what the code has, at least one worker, and `W <= RF`.

Only model-checked: liveness, that is `RepairHeals`, `OrphansReclaimed`, `UploadEnds`,
`TransferEnds`, `ShutdownEnds` and `HeardAgain` (fairness and ENABLED are beyond
the prover). Every other property of a passing run is a theorem.

## 5. What is not modelled

- Of accounts: the rate limiter, password hashing, the contents of a token, and the
  session of a node beyond its end in NodeProcess. They guard requests and do not touch
  the replicated state.
- The event log (never read by the code); replication health (a read-only report);
  discovery, dashboard pages, demo, schemas (I/O and presentation).
- Encryption itself; names, owners and sizes of files; the detail cache of the page.
- Several chunks in one repair plan. In particular, a plan keeps chunk ids across
  commits and SQLite reuses these as it does file ids; Upload has the effect for
  files only.
- The file lists of dashboards, and renaming. A list that is out of date may show a file
  under an id that another file has by now; Upload has this for the file it replaces.
- `GET /files/{id}` as three SELECTs (`files.py` 111-124): Download takes the details as
  one answer with at least one chunk.
- A heartbeat task that dies of a disk error; the storage directory always answers.
- A listing of a node that fails because a chunk is deleted while it is read
  (`node/chunks.py` 77-84): the sweep skips the node for a round, which `GcList` covers
  by not being taken.

Observations that no run has as a violated property. They are behaviours of the modules,
and those properties that they touch name them as exceptions.

- *An acknowledged chunk is lost to an overlapping request* (`node/chunks.py` 55-67, 87-91;
  `lapped`). Two PUTs of one hash find no file; the first one is answered "stored"; the
  second one truncates the file and fails, or the node crashes. Or a DELETE, of the sweep
  say, unlinks the file while a PUT writes it, and the PUT is answered "stored".
- *An upload deletes its own file* (`FilesPage.tsx` 106, `models.py` 72). While a file is
  being replaced, another dashboard deletes it, or a DELETE that was already under way
  does. If its row was the newest, POST /files gives the new file the same id, and the
  DELETE of the old file, which goes by that id, removes the new one; the page reports
  success. With another creation in between it is somebody else's file: the handler does
  not ask whose file it deletes.
- *The verifier is replaced* (`auth.py` 171-176; `crossed` of Namespace). Two PUTs both
  find none, the later commit wins, and the browser that was first is unlocked with a
  key that nobody else has, although the comment says "First-write-wins".
- *A node that is back is marked DRAINING* (`node/app.py` 45): the drain request of its last
  shutdown, given up after five seconds, is served after it has registered again.
- *A row without bytes is never repaired*: repair counts rows, and reports of missing chunks
  change nothing.
- Nothing bounds the chunks a download keeps in memory,
  in the code as in Download, although README.md 63-64 has "no full-file buffering in
  memory".
- A node that was drained and answered "0 remaining" may be given a row
  afterwards, by an upload that was placed, or a repair that was planned, before the drain.

## 6. What is left

1. The details of a file read in several SELECTs, as a step of Download, against
   deletions.
2. Several chunks with row ids, against repair plans that keep them; the lists of other
   dashboards.
3. Both releases of PlacementTable inside ChunkBytes, instead of one step.
