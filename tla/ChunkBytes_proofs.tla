-------------------------- MODULE ChunkBytes_proofs --------------------------
(***************************************************************************)
(* Records against bytes, for any number of nodes and threads and with no  *)
(* assumption on how they overlap: a copy on record is without bytes only  *)
(* when a DELETE decided before the record has hit it, and a stored chunk  *)
(* is short of its write quorum on disk by such copies only.               *)
(*                                                                         *)
(* The argument: bytes go only by a DELETE, of a release, of a deletion or *)
(* of the sweep.  Who is about to DELETE on a node looked the chunk up     *)
(* there and found no record, so a record that is there when the DELETE    *)
(* lands came after the look-up, and was marked as raced when it came, or  *)
(* its copy is being put once more and still waits for its record.         *)
(***************************************************************************)
EXTENDS ChunkBytes, FiniteSetTheorems, TLAPS

\* A copy on record that somebody is about to DELETE got its record after the
\* look-up, or repair has just put it there again.
Blind == \A n \in holders : Doomed(n) => n \in raced \/ n \in Awaited

Recorded == chunk = "stored" => Cardinality(holders) >= W

Inv == TypeOK /\ LostOnlyToRaces /\ Blind /\ Recorded

\* A release that may drop the copy of n leaves a write quorum.
LEMMA SurplusLeavesQuorum ==
  ASSUME TypeOK, NEW n \in Node, Surplus(n)
  PROVE  Cardinality(holders \ {n}) >= W
<1>1. Permanent \ {n} \subseteq holders \ {n} /\ IsFiniteSet(holders \ {n})
  BY NodeAssumption, FS_Subset DEF TypeOK, Permanent
<1>2. /\ Cardinality(Permanent \ {n}) <= Cardinality(holders \ {n})
      /\ Cardinality(holders \ {n}) \in Nat
      /\ Cardinality(Permanent \ {n}) \in Nat
  BY <1>1, FS_Subset, FS_CardinalityType
<1> QED BY <1>2, ReplicationAssumption DEF Surplus

\* A copy more does not take the quorum away.
LEMMA RecordKeepsQuorum ==
  ASSUME TypeOK, NEW n \in Node, Cardinality(holders) >= W
  PROVE  Cardinality(holders \cup {n}) >= W
<1>1. IsFiniteSet(holders)
  BY NodeAssumption, FS_Subset DEF TypeOK
<1>2. /\ Cardinality(holders \cup {n}) \in {Cardinality(holders), Cardinality(holders) + 1}
      /\ Cardinality(holders) \in Nat
  BY <1>1, FS_AddElement, FS_CardinalityType
<1> QED BY <1>2, ReplicationAssumption

\* What a thread has to do is typed, and stays so when it goes on.
ThreadsOK ==
    /\ at \in [Worker -> {"idle", "put", "record", "check", "delete"}]
    /\ todo \in [Worker -> SUBSET Node]
    /\ current \in [Worker -> Node \cup {0}]
    /\ \A w \in Worker :
          /\ at[w] = "idle" <=> todo[w] = {}
          /\ IF at[w] \in {"record", "delete"} THEN current[w] \in todo[w]
                                               ELSE current[w] = 0

LEMMA NextNodeOK ==
  ASSUME TypeOK, NEW w \in Worker, NEW n \in todo[w], NEW p \in {"put", "check"},
         NextNode(w, n, p)
  PROVE  ThreadsOK'
<1>1. at' \in [Worker -> {"idle", "put", "record", "check", "delete"}]
  BY DEF TypeOK, NextNode
<1>2. todo' \in [Worker -> SUBSET Node] /\ current' \in [Worker -> Node \cup {0}]
  BY DEF TypeOK, NextNode
<1>3. ASSUME NEW v \in Worker, v # w
      PROVE  at'[v] = at[v] /\ todo'[v] = todo[v] /\ current'[v] = current[v]
  BY <1>3 DEF TypeOK, NextNode
<1>4. /\ todo'[w] = todo[w] \ {n} /\ current'[w] = 0
      /\ at'[w] = IF todo[w] = {n} THEN "idle" ELSE p
  BY DEF TypeOK, NextNode
<1>5. todo'[w] = {} <=> todo[w] = {n}
  BY <1>4
<1> QED BY <1>1, <1>2, <1>3, <1>4, <1>5 DEF ThreadsOK, TypeOK

LEMMA InitInv == Init => Inv
<1> SUFFICES ASSUME Init PROVE Inv
  OBVIOUS
<1> USE NodeAssumption, TroubleAssumption DEF Init
<1>1. TypeOK
  BY DEF TypeOK, States
<1>2. LostOnlyToRaces /\ Blind /\ Recorded
  BY DEF LostOnlyToRaces, Blind, Recorded, Awaited, Doomed
<1> QED BY <1>1, <1>2 DEF Inv

LEMMA UploadChunkInv ==
  ASSUME NEW n \in Node, Inv, UploadChunk(n)
  PROVE  Inv'
<1> USE NodeAssumption, TroubleAssumption DEF Inv, UploadChunk, StoreChunk, Answers,
        recordVars, diskVars, workVars, gcVars
<1>1. TypeOK'
  BY DEF TypeOK, States
<1>2. LostOnlyToRaces'
  BY DEF LostOnlyToRaces, Blind, Awaited, Doomed, TypeOK
<1>3. Blind'
  BY DEF Blind, Awaited, Doomed, TypeOK
<1>4. Recorded'
  BY SurplusLeavesQuorum, RecordKeepsQuorum DEF Recorded, TypeOK
<1> QED BY <1>1, <1>2, <1>3, <1>4

LEMMA CreateFileInv ==
  ASSUME Inv, CreateFile
  PROVE  Inv'
<1> USE NodeAssumption, TroubleAssumption DEF Inv, CreateFile,
        recordVars, diskVars, workVars, gcVars
<1>1. TypeOK'
  BY DEF TypeOK, States
<1>2. LostOnlyToRaces'
  BY DEF LostOnlyToRaces, Blind, Awaited, Doomed, TypeOK
<1>3. Blind'
  BY DEF Blind, Awaited, Doomed, TypeOK
<1>4. Recorded'
  BY SurplusLeavesQuorum, RecordKeepsQuorum DEF Recorded, TypeOK
<1> QED BY <1>1, <1>2, <1>3, <1>4

LEMMA AbandonUploadInv ==
  ASSUME Inv, AbandonUpload
  PROVE  Inv'
<1> USE NodeAssumption, TroubleAssumption DEF Inv, AbandonUpload,
        recordVars, diskVars, workVars, gcVars
<1>1. TypeOK'
  BY DEF TypeOK, States
<1>2. LostOnlyToRaces'
  BY DEF LostOnlyToRaces, Blind, Awaited, Doomed, TypeOK
<1>3. Blind'
  BY DEF Blind, Awaited, Doomed, TypeOK
<1>4. Recorded'
  BY SurplusLeavesQuorum, RecordKeepsQuorum DEF Recorded, TypeOK
<1> QED BY <1>1, <1>2, <1>3, <1>4

LEMMA PlanAndFetchInv ==
  ASSUME NEW w \in Worker, Inv, PlanAndFetch(w)
  PROVE  Inv'
<1> USE NodeAssumption, TroubleAssumption DEF Inv, PlanAndFetch, Idle, Targets,
        recordVars, diskVars, workVars, gcVars
<1>1. TypeOK'
  BY DEF TypeOK, States
<1>2. LostOnlyToRaces'
  BY DEF LostOnlyToRaces, Blind, Awaited, Doomed, TypeOK
<1>3. Blind'
  BY DEF Blind, Awaited, Doomed, TypeOK
<1>4. Recorded'
  BY SurplusLeavesQuorum, RecordKeepsQuorum DEF Recorded, TypeOK
<1> QED BY <1>1, <1>2, <1>3, <1>4

LEMMA PutCopyInv ==
  ASSUME NEW w \in Worker, NEW n \in Node, Inv, PutCopy(w, n)
  PROVE  Inv'
<1> USE NodeAssumption, TroubleAssumption DEF Inv, PutCopy, StoreChunk, Answers,
        recordVars, diskVars, workVars, gcVars
<1>1. TypeOK'
  BY DEF TypeOK, States
<1>2. LostOnlyToRaces'
  BY DEF LostOnlyToRaces, Blind, Awaited, Doomed, TypeOK
<1>3. Blind'
  BY DEF Blind, Awaited, Doomed, TypeOK
<1>4. Recorded'
  BY SurplusLeavesQuorum, RecordKeepsQuorum DEF Recorded, TypeOK
<1> QED BY <1>1, <1>2, <1>3, <1>4

LEMMA PutFailsInv ==
  ASSUME NEW w \in Worker, NEW n \in Node, Inv, PutFails(w, n)
  PROVE  Inv'
<1> USE NodeAssumption, TroubleAssumption DEF Inv, PutFails, NextNode, Trouble, Answers,
        recordVars, diskVars, workVars, gcVars
<1>1. TypeOK'
  BY DEF TypeOK, States
<1>2. LostOnlyToRaces'
  BY DEF LostOnlyToRaces, Blind, Awaited, Doomed, TypeOK
<1>3. Blind'
  BY DEF Blind, Awaited, Doomed, TypeOK
<1>4. Recorded'
  BY SurplusLeavesQuorum, RecordKeepsQuorum DEF Recorded, TypeOK
<1> QED BY <1>1, <1>2, <1>3, <1>4

LEMMA RecordCopyInv ==
  ASSUME NEW w \in Worker, Inv, RecordCopy(w)
  PROVE  Inv'
<1> USE NodeAssumption, TroubleAssumption DEF Inv, RecordCopy, NextNode,
        recordVars, diskVars, workVars, gcVars
<1>1. TypeOK'
  <2>1. ThreadsOK'
    BY NextNodeOK DEF TypeOK
  <2>2. /\ holders' \subseteq Node /\ (chunk # "stored" => holders' = {})
        /\ raced' \subseteq Node
    BY DEF TypeOK
  <2> QED BY <2>1, <2>2 DEF TypeOK, ThreadsOK
<1>2. LostOnlyToRaces'
  <2>1. current[w] \in Awaited /\ raced \subseteq raced'
    BY DEF Awaited
  <2>2. Awaited' \subseteq Awaited
    BY DEF Awaited, TypeOK
  <2>3. holders' \cup Awaited' \subseteq holders \cup Awaited
    BY <2>1, <2>2
  <2> QED BY <2>1, <2>3 DEF LostOnlyToRaces
<1>3. Blind'
  BY DEF Blind, Awaited, Doomed, TypeOK
<1>4. Recorded'
  BY SurplusLeavesQuorum, RecordKeepsQuorum DEF Recorded, TypeOK
<1> QED BY <1>1, <1>2, <1>3, <1>4

LEMMA ReleaseDrainedInv ==
  ASSUME NEW w \in Worker, NEW n \in Node, Inv, ReleaseDrained(w, n)
  PROVE  Inv'
<1> USE NodeAssumption, TroubleAssumption DEF Inv, ReleaseDrained, Idle,
        recordVars, diskVars, workVars, gcVars
<1>1. TypeOK'
  BY DEF TypeOK, States
<1>2. LostOnlyToRaces'
  BY DEF LostOnlyToRaces, Blind, Awaited, Doomed, TypeOK
<1>3. Blind'
  BY DEF Blind, Awaited, Doomed, TypeOK
<1>4. Recorded'
  BY SurplusLeavesQuorum, RecordKeepsQuorum DEF Recorded, TypeOK
<1> QED BY <1>1, <1>2, <1>3, <1>4

LEMMA DeleteFileInv ==
  ASSUME NEW w \in Worker, Inv, DeleteFile(w)
  PROVE  Inv'
<1> USE NodeAssumption, TroubleAssumption DEF Inv, DeleteFile, Idle,
        recordVars, diskVars, workVars, gcVars
<1>1. TypeOK'
  BY DEF TypeOK, States
<1>2. LostOnlyToRaces'
  BY DEF LostOnlyToRaces, Blind, Awaited, Doomed, TypeOK
<1>3. Blind'
  BY DEF Blind, Awaited, Doomed, TypeOK
<1>4. Recorded'
  BY SurplusLeavesQuorum, RecordKeepsQuorum DEF Recorded, TypeOK
<1> QED BY <1>1, <1>2, <1>3, <1>4

LEMMA CheckNeededInv ==
  ASSUME NEW w \in Worker, NEW n \in Node, Inv, CheckNeeded(w, n)
  PROVE  Inv'
<1> USE NodeAssumption, TroubleAssumption DEF Inv, CheckNeeded, NextNode,
        recordVars, diskVars, workVars, gcVars
<1>1. TypeOK'
  BY DEF TypeOK, States
<1>2. LostOnlyToRaces'
  BY DEF LostOnlyToRaces, Blind, Awaited, Doomed, TypeOK
<1>3. Blind'
  BY DEF Blind, Awaited, Doomed, TypeOK
<1>4. Recorded'
  BY SurplusLeavesQuorum, RecordKeepsQuorum DEF Recorded, TypeOK
<1> QED BY <1>1, <1>2, <1>3, <1>4

LEMMA DeleteBytesInv ==
  ASSUME NEW w \in Worker, Inv, DeleteBytes(w)
  PROVE  Inv'
<1> USE NodeAssumption, TroubleAssumption DEF Inv, DeleteBytes, DeleteChunk, NextNode, Answers,
        recordVars, diskVars, workVars, gcVars
<1>1. TypeOK'
  <2>1. ThreadsOK'
    BY NextNodeOK DEF TypeOK
  <2>2. /\ data' \in [Node -> {"none", "good", "bad"}]
        /\ aged' \subseteq {n \in Node : data'[n] # "none"}
    BY DEF TypeOK
  <2>3. current[w] \in Node /\ raced \subseteq Node
    BY DEF TypeOK
  <2>4. raced' \subseteq Node
    BY <2>3
  <2> QED BY <2>1, <2>2, <2>4 DEF TypeOK, ThreadsOK
<1>2. LostOnlyToRaces'
  BY DEF LostOnlyToRaces, Blind, Awaited, Doomed, TypeOK
<1>3. Blind'
  BY DEF Blind, Awaited, Doomed, TypeOK
<1>4. Recorded'
  BY SurplusLeavesQuorum, RecordKeepsQuorum DEF Recorded, TypeOK
<1> QED BY <1>1, <1>2, <1>3, <1>4

LEMMA DeleteFailsInv ==
  ASSUME NEW w \in Worker, Inv, DeleteFails(w)
  PROVE  Inv'
<1> USE NodeAssumption, TroubleAssumption DEF Inv, DeleteFails, NextNode, Trouble, Answers,
        recordVars, diskVars, workVars, gcVars
<1>1. TypeOK'
  BY DEF TypeOK, States
<1>2. LostOnlyToRaces'
  BY DEF LostOnlyToRaces, Blind, Awaited, Doomed, TypeOK
<1>3. Blind'
  BY DEF Blind, Awaited, Doomed, TypeOK
<1>4. Recorded'
  BY SurplusLeavesQuorum, RecordKeepsQuorum DEF Recorded, TypeOK
<1> QED BY <1>1, <1>2, <1>3, <1>4

LEMMA GcListInv ==
  ASSUME NEW n \in Node, Inv, GcList(n)
  PROVE  Inv'
<1> USE NodeAssumption, TroubleAssumption DEF Inv, GcList, PastGrace, Answers,
        recordVars, diskVars, workVars, gcVars
<1>1. TypeOK'
  BY DEF TypeOK, States
<1>2. LostOnlyToRaces'
  BY DEF LostOnlyToRaces, Blind, Awaited, Doomed, TypeOK
<1>3. Blind'
  BY DEF Blind, Awaited, Doomed, TypeOK
<1>4. Recorded'
  BY SurplusLeavesQuorum, RecordKeepsQuorum DEF Recorded, TypeOK
<1> QED BY <1>1, <1>2, <1>3, <1>4

LEMMA GcLookUpInv ==
  ASSUME Inv, GcLookUp
  PROVE  Inv'
<1> USE NodeAssumption, TroubleAssumption DEF Inv, GcLookUp, Referenced,
        recordVars, diskVars, workVars, gcVars
<1>1. TypeOK'
  BY DEF TypeOK, States
<1>2. LostOnlyToRaces'
  BY DEF LostOnlyToRaces, Blind, Awaited, Doomed, TypeOK
<1>3. Blind'
  BY DEF Blind, Awaited, Doomed, TypeOK
<1>4. Recorded'
  BY SurplusLeavesQuorum, RecordKeepsQuorum DEF Recorded, TypeOK
<1> QED BY <1>1, <1>2, <1>3, <1>4

LEMMA GcDeleteInv ==
  ASSUME Inv, GcDelete
  PROVE  Inv'
<1> USE NodeAssumption, TroubleAssumption DEF Inv, GcDelete, DeleteChunk, Answers,
        recordVars, diskVars, workVars, gcVars
<1>1. TypeOK'
  BY DEF TypeOK, States
<1>2. LostOnlyToRaces'
  BY DEF LostOnlyToRaces, Blind, Awaited, Doomed, TypeOK
<1>3. Blind'
  BY DEF Blind, Awaited, Doomed, TypeOK
<1>4. Recorded'
  BY SurplusLeavesQuorum, RecordKeepsQuorum DEF Recorded, TypeOK
<1> QED BY <1>1, <1>2, <1>3, <1>4

LEMMA AgeInv ==
  ASSUME NEW n \in Node, Inv, Age(n)
  PROVE  Inv'
<1> USE NodeAssumption, TroubleAssumption DEF Inv, Age,
        recordVars, diskVars, workVars, gcVars
<1>1. TypeOK'
  BY DEF TypeOK, States
<1>2. LostOnlyToRaces'
  BY DEF LostOnlyToRaces, Blind, Awaited, Doomed, TypeOK
<1>3. Blind'
  BY DEF Blind, Awaited, Doomed, TypeOK
<1>4. Recorded'
  BY SurplusLeavesQuorum, RecordKeepsQuorum DEF Recorded, TypeOK
<1> QED BY <1>1, <1>2, <1>3, <1>4

LEMMA GoSilentInv ==
  ASSUME NEW n \in Node, Inv, GoSilent(n)
  PROVE  Inv'
<1> USE NodeAssumption, TroubleAssumption DEF Inv, GoSilent, Trouble, Answers,
        recordVars, diskVars, workVars, gcVars
<1>1. TypeOK'
  BY DEF TypeOK, States
<1>2. LostOnlyToRaces'
  BY DEF LostOnlyToRaces, Blind, Awaited, Doomed, TypeOK
<1>3. Blind'
  BY DEF Blind, Awaited, Doomed, TypeOK
<1>4. Recorded'
  BY SurplusLeavesQuorum, RecordKeepsQuorum DEF Recorded, TypeOK
<1> QED BY <1>1, <1>2, <1>3, <1>4

LEMMA LapseInv ==
  ASSUME NEW n \in Node, Inv, Lapse(n)
  PROVE  Inv'
<1> USE NodeAssumption, TroubleAssumption DEF Inv, Lapse,
        recordVars, diskVars, workVars, gcVars
<1>1. TypeOK'
  BY DEF TypeOK, States
<1>2. LostOnlyToRaces'
  BY DEF LostOnlyToRaces, Blind, Awaited, Doomed, TypeOK
<1>3. Blind'
  BY DEF Blind, Awaited, Doomed, TypeOK
<1>4. Recorded'
  BY SurplusLeavesQuorum, RecordKeepsQuorum DEF Recorded, TypeOK
<1> QED BY <1>1, <1>2, <1>3, <1>4

LEMMA ReconnectInv ==
  ASSUME NEW n \in Node, Inv, Reconnect(n)
  PROVE  Inv'
<1> USE NodeAssumption, TroubleAssumption DEF Inv, Reconnect, Answers,
        recordVars, diskVars, workVars, gcVars
<1>1. TypeOK'
  BY DEF TypeOK, States
<1>2. LostOnlyToRaces'
  BY DEF LostOnlyToRaces, Blind, Awaited, Doomed, TypeOK
<1>3. Blind'
  BY DEF Blind, Awaited, Doomed, TypeOK
<1>4. Recorded'
  BY SurplusLeavesQuorum, RecordKeepsQuorum DEF Recorded, TypeOK
<1> QED BY <1>1, <1>2, <1>3, <1>4

LEMMA MarkDrainingInv ==
  ASSUME NEW n \in Node, Inv, MarkDraining(n)
  PROVE  Inv'
<1> USE NodeAssumption, TroubleAssumption DEF Inv, MarkDraining, Trouble,
        recordVars, diskVars, workVars, gcVars
<1>1. TypeOK'
  BY DEF TypeOK, States
<1>2. LostOnlyToRaces'
  BY DEF LostOnlyToRaces, Blind, Awaited, Doomed, TypeOK
<1>3. Blind'
  BY DEF Blind, Awaited, Doomed, TypeOK
<1>4. Recorded'
  BY SurplusLeavesQuorum, RecordKeepsQuorum DEF Recorded, TypeOK
<1> QED BY <1>1, <1>2, <1>3, <1>4

LEMMA RejoinInv ==
  ASSUME NEW n \in Node, Inv, Rejoin(n)
  PROVE  Inv'
<1> USE NodeAssumption, TroubleAssumption DEF Inv, Rejoin,
        recordVars, diskVars, workVars, gcVars
<1>1. TypeOK'
  BY DEF TypeOK, States
<1>2. LostOnlyToRaces'
  BY DEF LostOnlyToRaces, Blind, Awaited, Doomed, TypeOK
<1>3. Blind'
  BY DEF Blind, Awaited, Doomed, TypeOK
<1>4. Recorded'
  BY SurplusLeavesQuorum, RecordKeepsQuorum DEF Recorded, TypeOK
<1> QED BY <1>1, <1>2, <1>3, <1>4

LEMMA RestartInv ==
  ASSUME Inv, Restart
  PROVE  Inv'
<1> USE NodeAssumption, TroubleAssumption DEF Inv, Restart, Trouble,
        recordVars, diskVars, workVars, gcVars
<1>1. TypeOK'
  BY DEF TypeOK, States
<1>2. LostOnlyToRaces'
  BY DEF LostOnlyToRaces, Blind, Awaited, Doomed, TypeOK
<1>3. Blind'
  BY DEF Blind, Awaited, Doomed, TypeOK
<1>4. Recorded'
  BY SurplusLeavesQuorum, RecordKeepsQuorum DEF Recorded, TypeOK
<1> QED BY <1>1, <1>2, <1>3, <1>4

LEMMA RotInv ==
  ASSUME NEW n \in Node, Inv, Rot(n)
  PROVE  Inv'
<1> USE NodeAssumption, TroubleAssumption DEF Inv, Rot, Trouble,
        recordVars, diskVars, workVars, gcVars
<1>1. TypeOK'
  BY DEF TypeOK, States
<1>2. LostOnlyToRaces'
  BY DEF LostOnlyToRaces, Blind, Awaited, Doomed, TypeOK
<1>3. Blind'
  BY DEF Blind, Awaited, Doomed, TypeOK
<1>4. Recorded'
  BY SurplusLeavesQuorum, RecordKeepsQuorum DEF Recorded, TypeOK
<1> QED BY <1>1, <1>2, <1>3, <1>4

LEMMA StepInv == Inv /\ [Next]_vars => Inv'
<1> SUFFICES ASSUME Inv, [Next]_vars PROVE Inv'
  OBVIOUS
<1>1. CASE Browser
  BY <1>1, UploadChunkInv, CreateFileInv, AbandonUploadInv DEF Browser
<1>2. ASSUME NEW w \in Worker, Repair(w) PROVE Inv'
  BY <1>2, PlanAndFetchInv, RecordCopyInv, PutCopyInv, PutFailsInv DEF Repair
<1>3. ASSUME NEW w \in Worker, Reclaim(w) PROVE Inv'
  BY <1>3, CheckNeededInv, DeleteBytesInv, DeleteFailsInv DEF Reclaim
<1>4. ASSUME NEW w \in Worker, Request(w) PROVE Inv'
  BY <1>4, DeleteFileInv, ReleaseDrainedInv DEF Request
<1>5. CASE Sweep
  BY <1>5, GcListInv, GcLookUpInv, GcDeleteInv DEF Sweep
<1>6. CASE Environment
  BY <1>6, GoSilentInv, ReconnectInv, MarkDrainingInv, RejoinInv, RotInv,
     LapseInv, AgeInv, RestartInv DEF Environment
<1>7. CASE UNCHANGED vars
  BY <1>7 DEF Inv, vars, recordVars, diskVars, workVars, gcVars, TypeOK,
     LostOnlyToRaces, Blind, Recorded, Awaited, Doomed
<1> QED BY <1>1, <1>2, <1>3, <1>4, <1>5, <1>6, <1>7 DEF Next

LEMMA AlwaysInv == Spec => []Inv
BY InitInv, StepInv, PTL DEF Spec

\* Every reachable state of records, disks and threads is well typed.
THEOREM TypeCorrect == Spec => []TypeOK
<1>1. Inv => TypeOK
  BY DEF Inv
<1> QED BY <1>1, AlwaysInv, PTL

\* A copy on record, or acknowledged and about to be, is without bytes only
\* when a DELETE decided before its record has hit it, whatever uploads,
\* repairs, releases, deletions and the sweep do at once (nodes.py:86-102,
\* repair.py:65-78, files.py, gc.py).
THEOREM CopiesLostToRacesOnly == Spec => []LostOnlyToRaces
<1>1. Inv => LostOnlyToRaces
  BY DEF Inv
<1> QED BY <1>1, AlwaysInv, PTL

\* The copies of a stored chunk that have bytes and those such a DELETE has hit
\* together are a write quorum, through every release (nodes.py:64-81).
THEOREM QuorumOnDisk == Spec => []QuorumButForRaces
<1>1. Inv => QuorumButForRaces
  <2> SUFFICES ASSUME Inv, chunk = "stored"
               PROVE  Cardinality(OnDisk) + Cardinality(holders \cap raced) >= W
    BY DEF QuorumButForRaces
  <2> DEFINE Hit == holders \cap raced
  <2>1. holders = OnDisk \cup Hit
    BY DEF Inv, LostOnlyToRaces, OnDisk
  <2>2. IsFiniteSet(OnDisk) /\ IsFiniteSet(Hit)
    BY NodeAssumption, FS_Subset DEF Inv, TypeOK, OnDisk
  <2>3. /\ Cardinality(OnDisk \cup Hit)
              = Cardinality(OnDisk) + Cardinality(Hit) - Cardinality(OnDisk \cap Hit)
        /\ IsFiniteSet(OnDisk \cap Hit)
    BY <2>2, FS_Union, FS_Intersection
  <2>4. /\ Cardinality(OnDisk) \in Nat /\ Cardinality(Hit) \in Nat
        /\ Cardinality(OnDisk \cap Hit) \in Nat
    BY <2>2, <2>3, FS_CardinalityType
  <2>5. Cardinality(holders) >= W
    BY DEF Inv, Recorded
  <2> HIDE DEF Hit
  <2>6. Cardinality(OnDisk) + Cardinality(Hit) >= W
    BY <2>1, <2>3, <2>4, <2>5, ReplicationAssumption
  <2> QED BY <2>6 DEF Hit
<1> QED BY <1>1, AlwaysInv, PTL
=============================================================================
