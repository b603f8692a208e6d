------------------------------- MODULE Upload -------------------------------
(***************************************************************************)
(* One upload in a browser tab (FilesPage.tsx handleFileSelected, and       *)
(* lib/upload.ts): a few workers put the chunks of a file on nodes until    *)
(* each has a write quorum, then the file is recorded, and at last the file *)
(* it replaces is deleted.                                                  *)
(*                                                                         *)
(* The coordinator and the nodes appear by their answers.  An answer of     *)
(* GET /placement is any set it could give as nodes come and go: between W  *)
(* and RF nodes, none of the excluded ones (nodes.py, placement.py).        *)
(*                                                                         *)
(* The page deletes the replaced file by the row id that its list gave.     *)
(* The files table gives the id of a newest row out again once that row is  *)
(* deleted (models.py File: no AUTOINCREMENT), which another page may do    *)
(* while the upload goes on.                                                *)
(***************************************************************************)
EXTENDS Naturals, FiniteSets

CONSTANTS
    Node,
    Worker,    \* Math.min(concurrency, blobs.length) workers
    N,         \* chunks of the file
    RF, W,     \* replication_factor and write_quorum
    MaxRounds, \* MAX_RETRY_ROUNDS
    MaxId      \* bound: the row ids that can be in use

ASSUME UploadAssumption ==
    /\ IsFiniteSet(Node) /\ IsFiniteSet(Worker) /\ Worker # {}
    /\ {N, RF, W, MaxRounds, MaxId} \subseteq Nat \ {0} /\ W <= RF

VARIABLES
    phase,     \* "uploading", "creating", "deleting", or how it ended
    replaces,  \* the page listed a file of this name when the upload began
    existing,  \* the row id of that file, as the page remembers it
    table,     \* the files table: what is in the row with an id
    made,      \* history: the upload has inserted its row
    elsewhere, \* history: what other pages have deleted
    recorded,  \* node_ids of the chunks of "new"
    stored,    \* nodes with the bytes of a chunk
    at,        \* what a worker awaits
    index,     \* the chunk it is at
    round,     \* its attempt at that chunk
    putting,   \* nodes whose answer it awaits
    attempted, \* nodes a chunk was sent to
    acked,     \* nodes that acknowledged it
    nextIndex, \* next chunk to upload
    failed     \* firstError is set

fileVars  == <<table, made, elsewhere, recorded>>
known     == <<replaces, existing>>
pageVars  == <<phase, known, fileVars>>
chunkVars == <<attempted, acked, stored>>
workVars  == <<at, index, round, putting>>
vars == <<pageVars, chunkVars, workVars, nextIndex, failed>>

Chunks == 0..(N - 1)
Ended == {"done", "warned", "failed"}

Ids == 1..MaxId
Kinds == {"none", "old", "new", "other"}
InTable == {table[i] : i \in Ids} \ {"none"}

\* SQLite gives a row the id behind the largest one in the table.
IsNext(i) == \A j \in Ids : /\ j >= i => table[j] = "none"
                            /\ j = i - 1 => table[j] # "none"

\* The page's list names the old file, or is out of date and does not.  There
\* is room for the new one.
Init ==
    /\ phase = "uploading"
    /\ replaces \in BOOLEAN /\ existing \in Ids
    /\ table \in [Ids -> Kinds \ {"new"}] /\ table[MaxId] = "none"
    /\ \A i \in Ids : table[i] = "old" <=> i = existing
    /\ made = FALSE /\ elsewhere = {}
    /\ recorded = [c \in Chunks |-> {}] /\ stored = [c \in Chunks |-> {}]
    /\ at = [w \in Worker |-> "take"] /\ index = [w \in Worker |-> 0]
    /\ round = [w \in Worker |-> 0]
    /\ putting = [w \in Worker |-> {}]
    /\ attempted = [c \in Chunks |-> {}] /\ acked = [c \in Chunks |-> {}]
    /\ nextIndex = 0 /\ failed = FALSE
-----------------------------------------------------------------------------
(* A worker. *)

TakePast(w) ==
    /\ at[w] = "take" /\ ~failed
    /\ nextIndex' = nextIndex + 1
    /\ index' = [index EXCEPT ![w] = nextIndex]
    /\ round' = [round EXCEPT ![w] = 1]
    /\ at' = [at EXCEPT ![w] = "place"]
    /\ UNCHANGED <<pageVars, chunkVars, putting, failed>>
Take(w) ==
    /\ at[w] = "take" /\ ~failed /\ nextIndex < N
    /\ nextIndex' = nextIndex + 1
    /\ index' = [index EXCEPT ![w] = nextIndex]
    /\ round' = [round EXCEPT ![w] = 1]
    /\ at' = [at EXCEPT ![w] = "place"]
    /\ UNCHANGED <<pageVars, chunkVars, putting, failed>>

TakeNoneAtTheEnd(w) ==
    /\ at[w] = "take" /\ nextIndex >= N
    /\ at' = [at EXCEPT ![w] = "done"]
    /\ UNCHANGED <<pageVars, chunkVars, index, round, putting, nextIndex,
                   failed>>
TakeNone(w) ==
    /\ at[w] = "take" /\ (failed \/ nextIndex >= N)
    /\ at' = [at EXCEPT ![w] = "done"]
    /\ UNCHANGED <<pageVars, chunkVars, index, round, putting, nextIndex,
                   failed>>

\* The selected file cannot be read any more (blobs[i].arrayBuffer).  The error
\* is thrown outside the try, and ends the upload at once; firstError is not
\* set, and the other workers go on.
ReadFails(w) ==
    /\ at[w] = "place" /\ round[w] = 1
    /\ at' = [at EXCEPT ![w] = "done"]
    /\ phase' = IF phase = "uploading" THEN "failed" ELSE phase
    /\ UNCHANGED <<known, fileVars, chunkVars, index, round, putting,
                   nextIndex, failed>>

\* The nodes that were not asked before are sent the chunk, all at once.
PlacedAnywhere(w) ==
    /\ at[w] = "place"
    /\ \E fresh \in SUBSET Node :
          /\ Cardinality(fresh) \in W..RF
          /\ putting' = [putting EXCEPT ![w] = fresh]
          /\ attempted' = [attempted EXCEPT ![index[w]] = @ \cup fresh]
    /\ at' = [at EXCEPT ![w] = "put"]
    /\ UNCHANGED <<pageVars, acked, stored, index, round, nextIndex, failed>>
Placed(w) ==
    /\ at[w] = "place"
    /\ \E fresh \in SUBSET (Node \ attempted[index[w]]) :
          /\ Cardinality(fresh) \in W..RF
          /\ putting' = [putting EXCEPT ![w] = fresh]
          /\ attempted' = [attempted EXCEPT ![index[w]] = @ \cup fresh]
    /\ at' = [at EXCEPT ![w] = "put"]
    /\ UNCHANGED <<pageVars, acked, stored, index, round, nextIndex, failed>>

\* 503, fewer than W nodes; or no answer.
NotPlaced(w) ==
    /\ at[w] = "place"
    /\ failed' = TRUE
    /\ at' = [at EXCEPT ![w] = "done"]
    /\ UNCHANGED <<pageVars, chunkVars, index, round, putting, nextIndex>>

\* Every node of the round answered or timed out: those in kept have the
\* bytes, and those in ok were heard to say so in time.  The others are gone,
\* full, or know another token.
AnswersUnheard(w, kept, ok) ==
    LET c == index[w]
    IN  /\ at[w] = "put" /\ kept \subseteq putting[w] /\ ok \subseteq kept
        /\ stored' = [stored EXCEPT ![c] = @ \cup kept]
        /\ acked' = [acked EXCEPT ![c] = @ \cup putting[w]]
        /\ putting' = [putting EXCEPT ![w] = {}]
        /\ UNCHANGED <<pageVars, attempted, index, nextIndex>>
Answers(w, kept, ok) ==
    LET c == index[w]
    IN  /\ at[w] = "put" /\ kept \subseteq putting[w] /\ ok \subseteq kept
        /\ stored' = [stored EXCEPT ![c] = @ \cup kept]
        /\ acked' = [acked EXCEPT ![c] = @ \cup ok]
        /\ putting' = [putting EXCEPT ![w] = {}]
        /\ UNCHANGED <<pageVars, attempted, index, nextIndex>>

HasQuorum(c) == Cardinality(acked'[c]) >= W

ChunkDone(w, kept, ok) ==
    /\ Answers(w, kept, ok) /\ HasQuorum(index[w])
    /\ at' = [at EXCEPT ![w] = "take"]
    /\ UNCHANGED <<round, failed>>

NextRound(w, kept, ok) ==
    /\ Answers(w, kept, ok) /\ ~HasQuorum(index[w])
    /\ round[w] < MaxRounds
    /\ round' = [round EXCEPT ![w] = @ + 1]
    /\ at' = [at EXCEPT ![w] = "place"]
    /\ UNCHANGED failed

\* No quorum after the last round; or a node answered 400 or 422, that the
\* chunk is not what its name says.
ChunkFails(w, kept, ok) ==
    /\ Answers(w, kept, ok)
    /\ \/ kept # putting[w]
       \/ ~HasQuorum(index[w]) /\ round[w] = MaxRounds
    /\ failed' = TRUE
    /\ at' = [at EXCEPT ![w] = "done"]
    /\ UNCHANGED round
-----------------------------------------------------------------------------
(* The page. *)

AllDone == \A w \in Worker : at[w] = "done"

Uploaded ==
    /\ phase = "uploading" /\ AllDone /\ ~failed
    /\ phase' = "creating"
    /\ UNCHANGED <<known, fileVars, chunkVars, workVars, nextIndex, failed>>

UploadFails ==
    /\ phase = "uploading" /\ AllDone /\ failed
    /\ phase' = "failed"
    /\ UNCHANGED <<known, fileVars, chunkVars, workVars, nextIndex, failed>>

\* POST /files; the answer may be lost.
CreateFile ==
    /\ phase = "creating"
    /\ \E i \in Ids : IsNext(i) /\ table' = [table EXCEPT ![i] = "new"]
    /\ made' = TRUE /\ recorded' = acked
    /\ phase' \in {IF replaces THEN "deleting" ELSE "done", "failed"}
    /\ UNCHANGED <<known, elsewhere, chunkVars, workVars, nextIndex, failed>>

\* The file is too large, or the coordinator cannot be reached.
CreateFails ==
    /\ phase = "creating" /\ phase' = "failed"
    /\ UNCHANGED <<known, fileVars, chunkVars, workVars, nextIndex, failed>>

\* DELETE /files/{existing.id}: it removes what is in that row by now.  The
\* answer may be lost.
DeleteOldAnyTime ==
    /\ phase \in {"creating", "deleting"} /\ table[existing] # "none"
    /\ table' = [table EXCEPT ![existing] = "none"]
    /\ phase' \in {"done", "warned"}
    /\ UNCHANGED <<known, made, elsewhere, recorded, chunkVars, workVars,
                   nextIndex, failed>>
DeleteOld ==
    /\ phase = "deleting" /\ table[existing] # "none"
    /\ table' = [table EXCEPT ![existing] = "none"]
    /\ phase' \in {"done", "warned"}
    /\ UNCHANGED <<known, made, elsewhere, recorded, chunkVars, workVars,
                   nextIndex, failed>>

\* 404, when there is no such row; or the coordinator cannot be reached.
DeleteOldFails ==
    /\ phase = "deleting" /\ phase' = "warned"
    /\ UNCHANGED <<known, fileVars, chunkVars, workVars, nextIndex, failed>>

\* Other pages delete and create files.  They may at any time; the upload does
\* not read the table before it inserts its row nor after it has ended, so that
\* what they did by then is done here when the first row is due.
Elsewhere == phase \in {"creating", "deleting"}
DeletedElsewhere ==
    /\ Elsewhere
    /\ \E i \in Ids : /\ table[i] # "none"
                      /\ table' = [table EXCEPT ![i] = "none"]
                      /\ elsewhere' = elsewhere \cup {table[i]}
    /\ UNCHANGED <<phase, known, made, recorded, chunkVars, workVars, nextIndex,
                   failed>>
CreatedElsewhere ==
    /\ Elsewhere
    /\ \E i \in Ids : /\ IsNext(i) /\ i < MaxId
                      /\ table' = [table EXCEPT ![i] = "other"]
    /\ UNCHANGED <<phase, known, made, elsewhere, recorded, chunkVars, workVars,
                   nextIndex, failed>>

Work(w) ==
    \/ Take(w) \/ TakeNone(w) \/ ReadFails(w)
    \/ Placed(w) \/ NotPlaced(w)
    \/ \E kept \in SUBSET putting[w] : \E ok \in SUBSET kept :
          \/ ChunkDone(w, kept, ok) \/ NextRound(w, kept, ok)
          \/ ChunkFails(w, kept, ok)

Page ==
    \/ Uploaded \/ UploadFails \/ CreateFile \/ CreateFails
    \/ DeleteOld \/ DeleteOldFails

Next == (\E w \in Worker : Work(w)) \/ Page
        \/ DeletedElsewhere \/ CreatedElsewhere

Spec == Init /\ [][Next]_vars

\* The event loop runs whatever can run.  A PUT is answered or times out
\* (upload.ts); the requests to the coordinator have no timeout (api.ts), so
\* that for them this says that it answers or the connection breaks.
FairSpec ==
    /\ Spec
    /\ \A w \in Worker : WF_vars(Work(w))
    /\ WF_vars(Page)
-----------------------------------------------------------------------------
(* Properties. *)

TypeOK ==
    /\ phase \in {"uploading", "creating", "deleting"} \cup Ended
    /\ replaces \in BOOLEAN /\ existing \in Ids
    /\ table \in [Ids -> Kinds] /\ made \in BOOLEAN /\ elsewhere \subseteq Kinds
    /\ {recorded, stored, attempted, acked} \subseteq [Chunks -> SUBSET Node]
    /\ at \in [Worker -> {"take", "place", "put", "done"}]
    /\ index \in [Worker -> Chunks] /\ round \in [Worker -> 0..MaxRounds]
    /\ putting \in [Worker -> SUBSET Node]
    /\ nextIndex \in 0..N /\ failed \in BOOLEAN

\* A recorded file is durable: each of its chunks names a write quorum of
\* nodes, and the bytes are on each of them (README.md:55-57).
RecordedIsDurable ==
    made =>
       \A c \in Chunks : /\ Cardinality(recorded[c]) >= W
                         /\ recorded[c] \subseteq stored[c]

\* The workers of an upload that goes on are never at the same chunk, and no
\* chunk is sent to the same node again (upload.ts attempted).
NoNodeTwice ==
    [][\A v, w \in Worker :
          /\ putting'[w] \ putting[w] # {} =>
                /\ (putting'[w] \ putting[w]) \cap attempted[index[w]] = {}
                /\ v # w /\ at[v] \in {"place", "put"}
                      => index[v] # index[w]]_vars

\* The upload takes the old file away only when the new one is recorded, and
\* says that it is done only when the old one is gone and the new one there
\* (FilesPage.tsx finalizeUpload), whatever rows come and go in between.  The
\* exception: when another page has deleted the old file, its id may be that of
\* the new one by now, and the upload removes its own file and says "done".
ReplacedInOrder ==
    /\ "old" \notin InTable \cup elsewhere => replaces /\ made
    /\ phase = "done" =>
          /\ made /\ (replaces => "old" \notin InTable)
          /\ "new" \notin InTable \cup elsewhere =>
                replaces /\ "old" \in elsewhere

\* An upload comes to an end, whatever the nodes do.
UploadEnds == <>(phase \in Ended)
=============================================================================
