---------------------------- MODULE Upload_proofs ----------------------------
(***************************************************************************)
(* An upload of any number of chunks by any number of workers to any set of *)
(* nodes records durable chunks only, sends no chunk to a node twice, and   *)
(* deletes the file it replaces only behind the new one.                    *)
(*                                                                         *)
(* The argument: workers are at different chunks, since each takes the next *)
(* index.  While the upload goes on without an error, a chunk that was      *)
(* taken has its quorum or is in the hands of a worker, and a worker that   *)
(* is done found no chunk to take.  So when all are done, every chunk has   *)
(* its quorum; and no worker changes that while the file is recorded.       *)
(***************************************************************************)
EXTENDS Upload, FiniteSetTheorems, TLAPS

\* Worker w is at a chunk.
Busy(w) == at[w] \in {"place", "put"}
InHands(c) == \E w \in Worker : Busy(w) /\ index[w] = c
Quorate(c) == Cardinality(acked[c]) >= W

\* The type invariant in two parts.
Types ==
    /\ phase \in {"uploading", "creating", "deleting"} \cup Ended
    /\ existing \in Ids
    /\ table \in [Ids -> Kinds] /\ elsewhere \subseteq Kinds
    /\ recorded \in [Chunks -> SUBSET Node] /\ stored \in [Chunks -> SUBSET Node]
    /\ attempted \in [Chunks -> SUBSET Node] /\ acked \in [Chunks -> SUBSET Node]
    /\ at \in [Worker -> {"take", "place", "put", "done"}]
    /\ index \in [Worker -> Chunks] /\ round \in [Worker -> 0..MaxRounds]
    /\ putting \in [Worker -> SUBSET Node]
    /\ nextIndex \in 0..N
Flags == replaces \in BOOLEAN /\ failed \in BOOLEAN /\ made \in BOOLEAN

\* The workers are at different chunks, and await answers while they put.
Apart ==
    /\ \A v, w \in Worker : Busy(v) /\ Busy(w) /\ index[v] = index[w] => v = w
    /\ \A w \in Worker : Busy(w) => index[w] < nextIndex
    /\ \A w \in Worker : at[w] # "put" => putting[w] = {}
\* What was heard was done.
Heard == \A c \in Chunks : acked[c] \subseteq stored[c]
NoneMissing ==
    phase = "uploading" /\ ~failed =>
       /\ \A c \in Chunks : c < nextIndex => Quorate(c) \/ InHands(c)
       /\ \A w \in Worker : at[w] = "done" => nextIndex = N
Recording ==
    phase = "creating" => AllDone /\ \A c \in Chunks : Quorate(c)
\* The old file is in its row, until another page or the upload deletes it;
\* and the new row is not lost as long as only the upload does.
Ending ==
    /\ phase = "deleting" => replaces /\ made
    /\ \A i \in Ids : table[i] = "old" => i = existing
    /\ phase \notin Ended => table[existing] = "old" \/ "old" \in elsewhere
    /\ made /\ "new" \notin InTable \cup elsewhere =>
          replaces /\ "old" \in elsewhere
    /\ ReplacedInOrder

Inv == /\ Types /\ Flags /\ Apart /\ Heard /\ NoneMissing /\ Recording
       /\ Ending /\ RecordedIsDurable

LEMMA TypesAreOK == TypeOK <=> Types /\ Flags
BY DEF TypeOK, Types, Flags

\* A set of nodes that grows keeps its quorum.
LEMMA QuorumGrows ==
  ASSUME NEW S \in SUBSET Node, NEW T \in SUBSET Node, S \subseteq T,
         Cardinality(S) >= W
  PROVE  Cardinality(T) >= W
<1>1. IsFiniteSet(T) /\ IsFiniteSet(S)
  BY UploadAssumption, FS_Subset
<1>2. Cardinality(S) \in Nat /\ Cardinality(T) \in Nat
  BY <1>1, FS_CardinalityType
<1>3. Cardinality(S) <= Cardinality(T)
  BY <1>1, FS_Subset
<1> QED BY <1>2, <1>3, UploadAssumption

LEMMA InitInv == Init => Inv
<1> SUFFICES ASSUME Init PROVE Inv
  OBVIOUS
<1> USE UploadAssumption DEF Chunks, Init
<1>1. Types
  BY DEF Types
<1>2. Flags
  BY Zenon DEF Flags
<1>3. Apart /\ Heard
  BY DEF Apart, Heard, Busy
<1>4. NoneMissing
  BY DEF NoneMissing
<1>5. Ending
  <2>1. existing \in Ids /\ table[existing] = "old"
    OBVIOUS
  <2>2. "old" \in InTable
    BY <2>1 DEF InTable
  <2> QED BY <2>1, <2>2 DEF Ending, ReplacedInOrder
<1>6. Recording /\ RecordedIsDurable
  BY DEF Recording, RecordedIsDurable
<1> QED BY <1>1, <1>2, <1>3, <1>4, <1>5, <1>6 DEF Inv

LEMMA TakeInv == ASSUME NEW w \in Worker, Inv, Take(w) PROVE Inv'
<1> USE UploadAssumption DEF Inv, Chunks, Take,
       pageVars, known, fileVars, chunkVars, workVars
<1>1. Types'
  BY DEF Types, Ended
<1>2. Flags'
  BY DEF Flags
<1>3. Apart'
  BY DEF Apart, Busy, Types
<1>4. Heard'
  BY DEF Heard, Types
<1>5. NoneMissing'
  <2> SUFFICES ASSUME phase = "uploading", ~failed PROVE NoneMissing'
    BY Zenon DEF NoneMissing
  <2>1. \A c \in Chunks : c < nextIndex => Quorate(c) \/ InHands(c)
    BY DEF NoneMissing
  <2>2. \A c \in Chunks : c < nextIndex' /\ ~(c < nextIndex) => c = nextIndex
    BY DEF Types
  <2>3. \A c \in Chunks : InHands(c) \/ c = nextIndex => InHands(c)'
    BY DEF InHands, Busy, Types
  <2>4. \A v \in Worker : at'[v] = "done" => nextIndex' = N
    BY DEF NoneMissing, Types
  <2> QED BY <2>1, <2>2, <2>3, <2>4 DEF NoneMissing, Quorate
<1>6. Recording'
  BY DEF Recording, AllDone, Quorate, Types
<1>7. Ending'
  BY DEF Ending, ReplacedInOrder, InTable, Ended
<1>8. RecordedIsDurable'
  BY DEF RecordedIsDurable, Types
<1> QED BY <1>1, <1>2, <1>3, <1>4, <1>5, <1>6, <1>7, <1>8

LEMMA TakeNoneInv == ASSUME NEW w \in Worker, Inv, TakeNone(w) PROVE Inv'
<1> USE UploadAssumption DEF Inv, Chunks, TakeNone,
       pageVars, known, fileVars, chunkVars, workVars
<1>1. Types'
  BY DEF Types, Ended
<1>2. Flags'
  BY DEF Flags
<1>3. Apart'
  BY DEF Apart, Busy, Types
<1>4. Heard'
  BY DEF Heard, Types
<1>5. NoneMissing'
  <2> SUFFICES ASSUME phase = "uploading", ~failed PROVE NoneMissing'
    BY Zenon DEF NoneMissing
  <2>1. nextIndex = N
    BY DEF Types
  <2>2. \A c \in Chunks : InHands(c) => InHands(c)'
    BY DEF InHands, Busy, Types
  <2> QED BY <2>1, <2>2 DEF NoneMissing, Quorate
<1>6. Recording'
  BY DEF Recording, AllDone, Quorate, Types
<1>7. Ending'
  BY DEF Ending, ReplacedInOrder, InTable, Ended
<1>8. RecordedIsDurable'
  BY DEF RecordedIsDurable, Types
<1> QED BY <1>1, <1>2, <1>3, <1>4, <1>5, <1>6, <1>7, <1>8

LEMMA ReadFailsInv == ASSUME NEW w \in Worker, Inv, ReadFails(w) PROVE Inv'
<1> USE UploadAssumption DEF Inv, Chunks, ReadFails,
       pageVars, known, fileVars, chunkVars, workVars
<1>1. Types'
  BY DEF Types, Ended
<1>2. Flags'
  BY DEF Flags
<1>3. Apart'
  BY DEF Apart, Busy, Types
<1>4. Heard'
  BY DEF Heard, Types
<1>5. NoneMissing'
  BY DEF NoneMissing, Quorate, InHands, Busy, Types, Apart
<1>6. Recording'
  BY DEF Recording, AllDone, Quorate, Types
<1>7. Ending'
  BY DEF Ending, ReplacedInOrder, InTable, Ended
<1>8. RecordedIsDurable'
  BY DEF RecordedIsDurable, Types
<1> QED BY <1>1, <1>2, <1>3, <1>4, <1>5, <1>6, <1>7, <1>8

LEMMA PlacedInv == ASSUME NEW w \in Worker, Inv, Placed(w) PROVE Inv'
<1> USE UploadAssumption DEF Inv, Chunks, Placed,
       pageVars, known, fileVars, chunkVars, workVars
<1>1. Types'
  BY DEF Types, Ended
<1>2. Flags'
  BY DEF Flags
<1>3. Apart'
  BY DEF Apart, Busy, Types
<1>4. Heard'
  BY DEF Heard, Types
<1>5. NoneMissing'
  BY DEF NoneMissing, Quorate, InHands, Busy, Types, Apart
<1>6. Recording'
  BY DEF Recording, AllDone, Quorate, Types
<1>7. Ending'
  BY DEF Ending, ReplacedInOrder, InTable, Ended
<1>8. RecordedIsDurable'
  BY DEF RecordedIsDurable, Types
<1> QED BY <1>1, <1>2, <1>3, <1>4, <1>5, <1>6, <1>7, <1>8

LEMMA NotPlacedInv == ASSUME NEW w \in Worker, Inv, NotPlaced(w) PROVE Inv'
<1> USE UploadAssumption DEF Inv, Chunks, NotPlaced,
       pageVars, known, fileVars, chunkVars, workVars
<1>1. Types'
  BY DEF Types, Ended
<1>2. Flags'
  BY DEF Flags
<1>3. Apart'
  BY DEF Apart, Busy, Types
<1>4. Heard'
  BY DEF Heard, Types
<1>5. NoneMissing'
  BY DEF NoneMissing, Quorate, InHands, Busy, Types, Apart
<1>6. Recording'
  BY DEF Recording, AllDone, Quorate, Types
<1>7. Ending'
  BY DEF Ending, ReplacedInOrder, InTable, Ended
<1>8. RecordedIsDurable'
  BY DEF RecordedIsDurable, Types
<1> QED BY <1>1, <1>2, <1>3, <1>4, <1>5, <1>6, <1>7, <1>8

LEMMA ChunkDoneInv == ASSUME NEW w \in Worker, NEW kept, NEW ok, Inv, ChunkDone(w, kept, ok) PROVE Inv'
<1> USE UploadAssumption DEF Inv, Chunks, ChunkDone, Answers, HasQuorum,
       pageVars, known, fileVars, chunkVars, workVars
<1>0. /\ acked' \in [Chunks -> SUBSET Node]
      /\ \A c \in Chunks : acked[c] \subseteq acked'[c]
  BY DEF Types
<1>1. Types'
  BY <1>0 DEF Types, Ended
<1>2. Flags'
  BY DEF Flags
<1>3. Apart'
  BY DEF Apart, Busy, Types
<1>4. Heard'
  BY DEF Heard, Types
<1>5. NoneMissing'
  BY <1>0, QuorumGrows DEF NoneMissing, Quorate, InHands, Busy, Types, Apart
<1>6. Recording'
  BY DEF Recording, AllDone, Quorate, Types
<1>7. Ending'
  BY DEF Ending, ReplacedInOrder, InTable, Ended
<1>8. RecordedIsDurable'
  BY DEF RecordedIsDurable, Types
<1> QED BY <1>1, <1>2, <1>3, <1>4, <1>5, <1>6, <1>7, <1>8

LEMMA NextRoundInv == ASSUME NEW w \in Worker, NEW kept, NEW ok, Inv, NextRound(w, kept, ok) PROVE Inv'
<1> USE UploadAssumption DEF Inv, Chunks, NextRound, Answers, HasQuorum,
       pageVars, known, fileVars, chunkVars, workVars
<1>0. /\ acked' \in [Chunks -> SUBSET Node]
      /\ \A c \in Chunks : acked[c] \subseteq acked'[c]
  BY DEF Types
<1>1. Types'
  BY <1>0 DEF Types, Ended
<1>2. Flags'
  BY DEF Flags
<1>3. Apart'
  BY DEF Apart, Busy, Types
<1>4. Heard'
  BY DEF Heard, Types
<1>5. NoneMissing'
  BY <1>0, QuorumGrows DEF NoneMissing, Quorate, InHands, Busy, Types, Apart
<1>6. Recording'
  BY DEF Recording, AllDone, Quorate, Types
<1>7. Ending'
  BY DEF Ending, ReplacedInOrder, InTable, Ended
<1>8. RecordedIsDurable'
  BY DEF RecordedIsDurable, Types
<1> QED BY <1>1, <1>2, <1>3, <1>4, <1>5, <1>6, <1>7, <1>8

LEMMA ChunkFailsInv == ASSUME NEW w \in Worker, NEW kept, NEW ok, Inv, ChunkFails(w, kept, ok) PROVE Inv'
<1> USE UploadAssumption DEF Inv, Chunks, ChunkFails, Answers, HasQuorum,
       pageVars, known, fileVars, chunkVars, workVars
<1>0. /\ acked' \in [Chunks -> SUBSET Node]
      /\ \A c \in Chunks : acked[c] \subseteq acked'[c]
  BY DEF Types
<1>1. Types'
  BY <1>0 DEF Types, Ended
<1>2. Flags'
  BY DEF Flags
<1>3. Apart'
  BY DEF Apart, Busy, Types
<1>4. Heard'
  BY DEF Heard, Types
<1>5. NoneMissing'
  BY <1>0, QuorumGrows DEF NoneMissing, Quorate, InHands, Busy, Types, Apart
<1>6. Recording'
  BY DEF Recording, AllDone, Quorate, Types
<1>7. Ending'
  BY DEF Ending, ReplacedInOrder, InTable, Ended
<1>8. RecordedIsDurable'
  BY DEF RecordedIsDurable, Types
<1> QED BY <1>1, <1>2, <1>3, <1>4, <1>5, <1>6, <1>7, <1>8

LEMMA UploadedInv == ASSUME Inv, Uploaded PROVE Inv'
<1> USE UploadAssumption DEF Inv, Chunks, Uploaded,
       pageVars, known, fileVars, chunkVars, workVars
<1>1. Types'
  BY DEF Types, Ended
<1>2. Flags'
  BY DEF Flags
<1>3. Apart'
  BY DEF Apart, Busy, Types
<1>4. Heard'
  BY DEF Heard, Types
<1>5. NoneMissing'
  BY DEF NoneMissing, Quorate, InHands, Busy, Types, Apart
<1>6. Recording'
  <2>1. \A c \in Chunks : ~InHands(c)
    BY DEF AllDone, InHands, Busy
  <2>2. nextIndex = N
    BY DEF NoneMissing, AllDone
  <2>3. \A c \in Chunks : Quorate(c)
    BY <2>1, <2>2 DEF NoneMissing
  <2> QED BY <2>3 DEF Recording, AllDone, Quorate
<1>7. Ending'
  BY DEF Ending, ReplacedInOrder, InTable, Ended
<1>8. RecordedIsDurable'
  BY DEF RecordedIsDurable, Types
<1> QED BY <1>1, <1>2, <1>3, <1>4, <1>5, <1>6, <1>7, <1>8

LEMMA UploadFailsInv == ASSUME Inv, UploadFails PROVE Inv'
<1> USE UploadAssumption DEF Inv, Chunks, UploadFails,
       pageVars, known, fileVars, chunkVars, workVars
<1>1. Types'
  BY DEF Types, Ended
<1>2. Flags'
  BY DEF Flags
<1>3. Apart'
  BY DEF Apart, Busy, Types
<1>4. Heard'
  BY DEF Heard, Types
<1>5. NoneMissing'
  BY DEF NoneMissing, Quorate, InHands, Busy, Types, Apart
<1>6. Recording'
  BY DEF Recording, AllDone, Quorate, Types
<1>7. Ending'
  BY DEF Ending, ReplacedInOrder, InTable, Ended
<1>8. RecordedIsDurable'
  BY DEF RecordedIsDurable, Types
<1> QED BY <1>1, <1>2, <1>3, <1>4, <1>5, <1>6, <1>7, <1>8

LEMMA CreateFileInv == ASSUME Inv, CreateFile PROVE Inv'
<1> USE UploadAssumption DEF Inv, Chunks, CreateFile,
       pageVars, known, fileVars, chunkVars, workVars
<1>1. Types'
  BY DEF Types, Ended, Kinds
<1>2. Flags'
  BY DEF Flags
<1>3. Apart'
  BY DEF Apart, Busy, Types
<1>4. Heard'
  BY DEF Heard, Types
<1>5. NoneMissing'
  BY DEF NoneMissing, Quorate, InHands, Busy, Types, Apart
<1>6. Recording'
  BY DEF Recording, AllDone, Quorate, Types
<1>7. Ending'
  <2>1. PICK i \in Ids : IsNext(i) /\ table' = [table EXCEPT ![i] = "new"]
    OBVIOUS
  <2>2. table[i] = "none"
    BY <2>1 DEF IsNext, Ids
  <2>3. /\ \A j \in Ids : table'[j] = IF j = i THEN "new" ELSE table[j]
    BY <2>1 DEF Types
  <2>4. existing' = existing /\ elsewhere' = elsewhere /\ existing \in Ids
    BY DEF Types
  <2>5. "new" \in InTable' /\ ("old" \in InTable' <=> "old" \in InTable)
    BY <2>2, <2>3 DEF InTable
  <2> QED BY <2>2, <2>3, <2>4, <2>5 DEF Ending, ReplacedInOrder, Ended
<1>8. RecordedIsDurable'
  BY DEF RecordedIsDurable, Recording, Quorate, Heard
<1> QED BY <1>1, <1>2, <1>3, <1>4, <1>5, <1>6, <1>7, <1>8

LEMMA CreateFailsInv == ASSUME Inv, CreateFails PROVE Inv'
<1> USE UploadAssumption DEF Inv, Chunks, CreateFails,
       pageVars, known, fileVars, chunkVars, workVars
<1>1. Types'
  BY DEF Types, Ended
<1>2. Flags'
  BY DEF Flags
<1>3. Apart'
  BY DEF Apart, Busy, Types
<1>4. Heard'
  BY DEF Heard, Types
<1>5. NoneMissing'
  BY DEF NoneMissing, Quorate, InHands, Busy, Types, Apart
<1>6. Recording'
  BY DEF Recording, AllDone, Quorate, Types
<1>7. Ending'
  BY DEF Ending, ReplacedInOrder, InTable, Ended
<1>8. RecordedIsDurable'
  BY DEF RecordedIsDurable, Types
<1> QED BY <1>1, <1>2, <1>3, <1>4, <1>5, <1>6, <1>7, <1>8

LEMMA DeleteOldInv == ASSUME Inv, DeleteOld PROVE Inv'
<1> USE UploadAssumption DEF Inv, Chunks, DeleteOld,
       pageVars, known, fileVars, chunkVars, workVars
<1>1. Types'
  BY DEF Types, Ended, Kinds
<1>2. Flags'
  BY DEF Flags
<1>3. Apart'
  BY DEF Apart, Busy, Types
<1>4. Heard'
  BY DEF Heard, Types
<1>5. NoneMissing'
  BY DEF NoneMissing, Quorate, InHands, Busy, Types, Apart
<1>6. Recording'
  BY DEF Recording, AllDone, Quorate, Types
<1>7. Ending'
  <2>1. /\ replaces /\ made /\ made' = made /\ replaces' = replaces
        /\ existing' = existing /\ elsewhere' = elsewhere /\ phase' \in Ended
    BY DEF Ending, Ended
  <2>2. \A j \in Ids : table'[j] = IF j = existing THEN "none" ELSE table[j]
    BY DEF Types
  <2>3. "old" \notin InTable'
    BY <2>2 DEF Ending, InTable
  <2>4. "old" \notin elsewhere => ("new" \in InTable => "new" \in InTable')
    BY <2>2 DEF Ending, InTable, Ended
  <2> QED BY <2>1, <2>2, <2>3, <2>4 DEF Ending, ReplacedInOrder
<1>8. RecordedIsDurable'
  BY DEF RecordedIsDurable, Types
<1> QED BY <1>1, <1>2, <1>3, <1>4, <1>5, <1>6, <1>7, <1>8

LEMMA DeleteOldFailsInv == ASSUME Inv, DeleteOldFails PROVE Inv'
<1> USE UploadAssumption DEF Inv, Chunks, DeleteOldFails,
       pageVars, known, fileVars, chunkVars, workVars
<1>1. Types'
  BY DEF Types, Ended
<1>2. Flags'
  BY DEF Flags
<1>3. Apart'
  BY DEF Apart, Busy, Types
<1>4. Heard'
  BY DEF Heard, Types
<1>5. NoneMissing'
  BY DEF NoneMissing, Quorate, InHands, Busy, Types, Apart
<1>6. Recording'
  BY DEF Recording, AllDone, Quorate, Types
<1>7. Ending'
  BY DEF Ending, ReplacedInOrder, InTable, Ended
<1>8. RecordedIsDurable'
  BY DEF RecordedIsDurable, Types
<1> QED BY <1>1, <1>2, <1>3, <1>4, <1>5, <1>6, <1>7, <1>8

LEMMA DeletedElsewhereInv == ASSUME Inv, DeletedElsewhere PROVE Inv'
<1> USE UploadAssumption DEF Inv, Chunks, DeletedElsewhere,
       pageVars, known, fileVars, chunkVars, workVars
<1>1. Types'
  BY DEF Types, Ended, Kinds
<1>2. Flags'
  BY DEF Flags
<1>3. Apart'
  BY DEF Apart, Busy, Types
<1>4. Heard'
  BY DEF Heard, Types
<1>5. NoneMissing'
  BY DEF NoneMissing, Quorate, InHands, Busy, Types, Apart
<1>6. Recording'
  BY DEF Recording, AllDone, Quorate, Types
<1>7. Ending'
  <2>1. PICK i \in Ids : /\ table' = [table EXCEPT ![i] = "none"]
                        /\ elsewhere' = elsewhere \cup {table[i]}
    OBVIOUS
  <2>2. \A j \in Ids : table'[j] = IF j = i THEN "none" ELSE table[j]
    BY <2>1 DEF Types
  <2>3. /\ InTable' \subseteq InTable
        /\ InTable \cup elsewhere \subseteq InTable' \cup elsewhere'
        /\ elsewhere \subseteq elsewhere'
    BY <2>1, <2>2 DEF InTable
  <2>4. /\ existing' = existing /\ existing \in Ids /\ phase' = phase
        /\ made' = made /\ replaces' = replaces /\ phase # "done"
    BY DEF Types, Elsewhere
  <2>5. table'[existing] = "old" \/ "old" \in elsewhere'
    BY <2>1, <2>2, <2>4 DEF Ending, Elsewhere, Ended
  <2> QED BY <2>1, <2>2, <2>3, <2>4, <2>5 DEF Ending, ReplacedInOrder
<1>8. RecordedIsDurable'
  BY DEF RecordedIsDurable, Types
<1> QED BY <1>1, <1>2, <1>3, <1>4, <1>5, <1>6, <1>7, <1>8

LEMMA CreatedElsewhereInv == ASSUME Inv, CreatedElsewhere PROVE Inv'
<1> USE UploadAssumption DEF Inv, Chunks, CreatedElsewhere,
       pageVars, known, fileVars, chunkVars, workVars
<1>1. Types'
  BY DEF Types, Ended, Kinds
<1>2. Flags'
  BY DEF Flags
<1>3. Apart'
  BY DEF Apart, Busy, Types
<1>4. Heard'
  BY DEF Heard, Types
<1>5. NoneMissing'
  BY DEF NoneMissing, Quorate, InHands, Busy, Types, Apart
<1>6. Recording'
  BY DEF Recording, AllDone, Quorate, Types
<1>7. Ending'
  <2>1. PICK i \in Ids : IsNext(i) /\ table' = [table EXCEPT ![i] = "other"]
    OBVIOUS
  <2>2. table[i] = "none"
    BY <2>1 DEF IsNext, Ids
  <2>3. \A j \in Ids : table'[j] = IF j = i THEN "other" ELSE table[j]
    BY <2>1 DEF Types
  <2>4. /\ existing' = existing /\ existing \in Ids /\ phase' = phase
        /\ made' = made /\ replaces' = replaces /\ elsewhere' = elsewhere
    BY DEF Types
  <2>5. \A k \in {"old", "new"} : k \in InTable' <=> k \in InTable
    BY <2>2, <2>3 DEF InTable
  <2> QED BY <2>2, <2>3, <2>4, <2>5 DEF Ending, ReplacedInOrder
<1>8. RecordedIsDurable'
  BY DEF RecordedIsDurable, Types
<1> QED BY <1>1, <1>2, <1>3, <1>4, <1>5, <1>6, <1>7, <1>8

LEMMA StepInv == Inv /\ [Next]_vars => Inv'
<1> SUFFICES ASSUME Inv, [Next]_vars PROVE Inv'
  OBVIOUS
<1>1. ASSUME NEW w \in Worker, Work(w) PROVE Inv'
  BY <1>1, TakeInv, TakeNoneInv, ReadFailsInv, PlacedInv, NotPlacedInv,
     ChunkDoneInv, NextRoundInv, ChunkFailsInv DEF Work
<1>2. CASE Page
  BY <1>2, UploadedInv, UploadFailsInv, CreateFileInv, CreateFailsInv,
     DeleteOldInv, DeleteOldFailsInv DEF Page
<1>3. CASE DeletedElsewhere \/ CreatedElsewhere
  BY <1>3, DeletedElsewhereInv, CreatedElsewhereInv
<1>4. CASE UNCHANGED vars
  BY <1>4 DEF Inv, vars, pageVars, known, fileVars, chunkVars, workVars, Types, Flags, Apart,
     Busy, Heard, NoneMissing, InHands, Quorate, Recording, AllDone, Ending,
     RecordedIsDurable, ReplacedInOrder, InTable
<1> QED BY <1>1, <1>2, <1>3, <1>4 DEF Next

LEMMA AlwaysInv == Spec => []Inv
BY InitInv, StepInv, PTL DEF Spec

\* Every reachable state of an upload is well typed.
THEOREM TypeCorrect == Spec => []TypeOK
<1>1. Inv => TypeOK
  BY TypesAreOK DEF Inv
<1> QED BY <1>1, AlwaysInv, PTL

\* Whatever nodes answer, late or never, and whatever workers fail, a file is
\* recorded with a write quorum of nodes that have the bytes of each chunk
\* (upload.ts:104, FilesPage.tsx finalizeUpload).
THEOREM RecordedDurable == Spec => []RecordedIsDurable
<1>1. Inv => RecordedIsDurable
  BY DEF Inv
<1> QED BY <1>1, AlwaysInv, PTL

\* No two workers are at one chunk, and no node is sent a chunk again
\* (upload.ts attempted).
THEOREM NodesAskedOnce == Spec => NoNodeTwice
<1>1. Inv /\ [Next]_vars => [\A v, w \in Worker :
          /\ putting'[w] \ putting[w] # {} =>
                /\ (putting'[w] \ putting[w]) \cap attempted[index[w]] = {}
                /\ v # w /\ at[v] \in {"place", "put"}
                      => index[v] # index[w]]_vars
  <2> SUFFICES ASSUME Inv, Next, NEW v \in Worker, NEW w \in Worker,
                      putting'[w] \ putting[w] # {}
               PROVE  /\ (putting'[w] \ putting[w]) \cap attempted[index[w]] = {}
                      /\ v # w /\ at[v] \in {"place", "put"}
                            => index[v] # index[w]
    BY DEF vars
  <2>1. Placed(w)
    <3>1. ASSUME NEW u \in Worker, Work(u) PROVE Placed(w)
      <4>1. CASE Placed(u)
        BY <4>1 DEF Inv, Types, Placed
      <4>2. CASE ~Placed(u)
        BY <3>1, <4>2 DEF Inv, Types, Work, Take, TakeNone, ReadFails, NotPlaced,
           ChunkDone, NextRound, ChunkFails, Answers
      <4> QED BY <4>1, <4>2
    <3>2. CASE Page \/ DeletedElsewhere \/ CreatedElsewhere
      BY <3>2 DEF Page, DeletedElsewhere, CreatedElsewhere, Uploaded, UploadFails, CreateFile,
         CreateFails, DeleteOld, DeleteOldFails, workVars
    <3> QED BY <3>1, <3>2 DEF Next
  <2> QED BY <2>1 DEF Inv, Types, Apart, Busy, Placed
<1> QED BY <1>1, AlwaysInv, PTL DEF Spec, NoNodeTwice

\* The upload deletes the old file only behind the new one, and says that it is
\* done only when the old one is gone and the new one there, or deleted by
\* another page, or by the upload itself because another page had deleted the
\* old one and its row id was given out again (FilesPage.tsx:91-114).
THEOREM OldGoesLast == Spec => []ReplacedInOrder
<1>1. Inv => ReplacedInOrder
  BY DEF Inv, Ending
<1> QED BY <1>1, AlwaysInv, PTL
=============================================================================
