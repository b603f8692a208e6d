------------------------- MODULE NodeProcess_proofs -------------------------
(***************************************************************************)
(* Proofs about NodeProcess, for any number of PUT threads and chunks, any *)
(* chunk size and any budget.                                              *)
(***************************************************************************)
EXTENDS NodeProcess, FiniteSetTheorems, TLAPS

-----------------------------------------------------------------------------
(* The chunk store, apart from the process it belongs to. *)

\* A step of the store, or none.
StoreStep ==
    \/ \E t \in Thread, c \in Chunk : StoreChunk(t, c)
    \/ \E t \in Thread : Open(t) \/ Write(t) \/ WriteFails(t)
    \/ \E c \in Chunk : DeleteChunk(c)
    \/ StoreCrash
    \/ UNCHANGED storeVars

LEMMA NextIsStoreStep == [Next]_vars => StoreStep
  BY DEF Next, vars, StoreStep, Start, StartFails, Loop, Listen, BeatDue,
         LoopTurns, LoopStops, SendHeartbeat, Shutdown, MarkDraining,
         AnswerDrain, DrainReturns, DrainTimesOut, CloseSockets, CloseClient,
         Crash, Connection, SessionExpires, Lapse, OperatorDrains,
         Store, Served, ThreadSteps

\* The chunk a thread works for is a chunk.
LEMMA JobChunk ==
  ASSUME StoreTypeOK, NEW t \in Thread, ~Idle(t)
  PROVE  /\ writing[t].chunk \in Chunk
         /\ writing[t].at \in {"open", "write", "behind", "adrift"}
  BY DEF StoreTypeOK, Idle, Job, NoWork

LEMMA Sizes ==
  /\ ChunkSize \in Nat /\ Budget \in Nat
  /\ Cardinality(Thread) \in Nat /\ Cardinality(Thread) >= 1
  /\ IsFiniteSet(Chunk) /\ IsFiniteSet(Thread)
  BY StoreAssumption, FS_CardinalityType, FS_EmptySet

LEMMA BusyBound ==
  /\ IsFiniteSet(Busy) /\ Cardinality(Busy) \in Nat
  /\ Cardinality(Busy) <= Cardinality(Thread)
  BY Sizes, FS_Subset, FS_CardinalityType DEF Busy

LEMMA BusyBoundNext ==
  /\ IsFiniteSet(Busy') /\ Cardinality(Busy)' \in Nat
  /\ Cardinality(Busy)' <= Cardinality(Thread)
  BY Sizes, FS_Subset, FS_CardinalityType DEF Busy

\* What Lap leaves: chunks that were lapped, or are so now.
LEMMA LapFacts ==
  ASSUME NEW C, Lap(C)
  PROVE  /\ lapped' \subseteq lapped \cup C
         /\ \A c \in lapped \cup C : c \in lapped' <=> ~AtRest(c)'
  BY DEF Lap

\* Threads that are moved stay on their chunks.
LEMMA MovedFacts ==
  ASSUME StoreTypeOK, NEW c \in Chunk, NEW from, NEW to,
         to \in {"behind", "adrift"}
  PROVE  /\ Moved(c, from, to) \in [Thread -> Job]
         /\ \A t \in Thread :
              /\ Moved(c, from, to)[t].at = "idle" <=> Idle(t)
              /\ Moved(c, from, to)[t].chunk = writing[t].chunk
              /\ ~On(t, c) => Moved(c, from, to)[t] = writing[t]
  <1>1. ASSUME NEW t \in Thread
        PROVE  /\ Moved(c, from, to)[t] \in Job
               /\ Moved(c, from, to)[t].at = "idle" <=> Idle(t)
               /\ Moved(c, from, to)[t].chunk = writing[t].chunk
               /\ ~On(t, c) => Moved(c, from, to)[t] = writing[t]
    <2>1. CASE On(t, c) /\ writing[t].at \in from
      <3>1. Moved(c, from, to)[t] = [at |-> to, chunk |-> c]
        BY <2>1 DEF Moved
      <3> QED BY <2>1, <3>1 DEF On, Idle, Job
    <2>2. CASE ~(On(t, c) /\ writing[t].at \in from)
      <3>1. Moved(c, from, to)[t] = writing[t]
        BY <2>2 DEF Moved
      <3> QED BY <2>2, <3>1 DEF StoreTypeOK, Idle
    <2> QED BY <2>1, <2>2
  <1>2. Moved(c, from, to) = [t \in Thread |-> Moved(c, from, to)[t]]
    BY DEF Moved
  <1> QED BY <1>1, <1>2

LEMMA StoreInitTypeOK == StoreInit => StoreTypeOK
  BY Sizes DEF StoreInit, StoreTypeOK, Job

LEMMA StoreStepTypeOK ==
  ASSUME StoreTypeOK, StoreStep
  PROVE  StoreTypeOK'
  <1>1. ASSUME NEW t \in Thread, NEW c \in Chunk, StoreChunk(t, c)
        PROVE  StoreTypeOK'
    <2>1. Overlapped(c) \subseteq Chunk
      BY DEF Overlapped
    <2>2. lapped' \subseteq Chunk
      BY <1>1, <2>1, LapFacts DEF StoreChunk, StoreTypeOK
    <2>3. crowd' \in 1..Cardinality(Thread)
      BY <1>1, BusyBoundNext, Sizes DEF StoreChunk, StoreTypeOK
    <2>4. /\ file' \in [Chunk -> {"none", "part", "whole"}]
          /\ writing' \in [Thread -> Job]
          /\ acked' \subseteq Chunk
      BY <1>1 DEF StoreChunk, StoreTypeOK, Job
    <2> QED BY <2>2, <2>3, <2>4 DEF StoreTypeOK
  <1>2. ASSUME NEW t \in Thread, Open(t)
        PROVE  StoreTypeOK'
    <2>1. ~Idle(t)
      BY <1>2 DEF Open, Idle
    <2>2. writing[t].chunk \in Chunk
      BY <2>1, JobChunk
    <2>3. Moved(writing[t].chunk, {"write"}, "behind") \in [Thread -> Job]
      BY <2>2, MovedFacts
    <2>4. writing' \in [Thread -> Job]
      BY <1>2, <2>2, <2>3 DEF Open, Job
    <2>5. lapped' \subseteq Chunk
      BY <1>2, LapFacts DEF Open, StoreTypeOK
    <2> QED BY <1>2, <2>2, <2>4, <2>5 DEF Open, StoreTypeOK
  <1>3. ASSUME NEW t \in Thread, Write(t)
        PROVE  StoreTypeOK'
    <2>1. ~Idle(t)
      BY <1>3 DEF Write, Idle
    <2>2. writing[t].chunk \in Chunk
      BY <2>1, JobChunk
    <2>3. lapped' \subseteq Chunk
      BY <1>3, LapFacts DEF Write, StoreTypeOK
    <2>4. file' \in [Chunk -> {"none", "part", "whole"}]
      BY <1>3, <2>2 DEF Write, StoreTypeOK
    <2> QED BY <1>3, <2>2, <2>3, <2>4 DEF Write, StoreTypeOK, Job
  <1>4. ASSUME NEW t \in Thread, WriteFails(t)
        PROVE  StoreTypeOK'
    <2>1. lapped' \subseteq Chunk
      BY <1>4, LapFacts DEF WriteFails, StoreTypeOK
    <2> QED BY <1>4, <2>1 DEF WriteFails, StoreTypeOK, Job
  <1>5. ASSUME NEW c \in Chunk, DeleteChunk(c)
        PROVE  StoreTypeOK'
    <2>1. Overlapped(c) \subseteq Chunk
      BY DEF Overlapped
    <2>2. lapped' \subseteq Chunk
      BY <1>5, <2>1, LapFacts DEF DeleteChunk, StoreTypeOK
    <2>3. writing' \in [Thread -> Job]
      BY <1>5, MovedFacts DEF DeleteChunk
    <2> QED BY <1>5, <2>2, <2>3 DEF DeleteChunk, StoreTypeOK
  <1>6. CASE StoreCrash
    <2>1. lapped' \subseteq Chunk
      BY <1>6, LapFacts DEF StoreCrash, StoreTypeOK
    <2> QED BY <1>6, <2>1 DEF StoreCrash, StoreTypeOK, Job
  <1>7. CASE UNCHANGED storeVars
    BY <1>7 DEF storeVars, StoreTypeOK
  <1> QED BY <1>1, <1>2, <1>3, <1>4, <1>5, <1>6, <1>7 DEF StoreStep

-----------------------------------------------------------------------------
(* Acknowledged chunks are whole. *)

\* How things are with a chunk whose requests came one after the other: one
\* PUT at most is under way, the file it has open is on disk, and while it is
\* there is no acknowledgement to break.
Clear(c) ==
    /\ \A t, u \in Thread : On(t, c) /\ On(u, c) => t = u
    /\ \A t \in Thread : On(t, c) => writing[t].at \in {"open", "write"}
    /\ c \in acked => AtRest(c)
FilesInv == StoreTypeOK /\ \A c \in Chunk \ lapped : Clear(c)

LEMMA FilesInvInit == Init => FilesInv
  <1> SUFFICES ASSUME Init PROVE FilesInv
    OBVIOUS
  <1>1. StoreTypeOK /\ acked = {}
    BY StoreInitTypeOK DEF Init, StoreInit
  <1>2. \A t \in Thread, c \in Chunk : ~On(t, c)
    BY DEF Init, StoreInit, On, Idle, NoWork
  <1> QED BY <1>1, <1>2 DEF FilesInv, Clear

\* A chunk that Lap takes from the history, or leaves out of it, is at rest.
LEMMA RestIsClear ==
  ASSUME NEW C, Lap(C), NEW c \in Chunk \ lapped'
  PROVE  c \notin lapped \cup C \/ Clear(c)'
  <1>1. c \in lapped \cup C => AtRest(c)'
    BY LapFacts
  <1>2. AtRest(c)' => Clear(c)'
    BY DEF AtRest, Clear, Free
  <1> QED BY <1>1, <1>2

\* What says of a chunk how things are with it.
LEMMA ClearElsewhere ==
  ASSUME NEW c \in Chunk, Clear(c),
         \A t \in Thread : On(t, c) \/ On(t, c)' => writing'[t] = writing[t],
         file'[c] = file[c], c \in acked' => c \in acked
  PROVE  Clear(c)'
  <1>1. \A t \in Thread : On(t, c)' <=> On(t, c)
    BY DEF On, Idle
  <1> QED BY <1>1 DEF Clear, AtRest, Free

LEMMA StoreChunkFiles ==
  ASSUME FilesInv, NEW t \in Thread, NEW c \in Chunk, StoreChunk(t, c),
         NEW d \in Chunk \ (lapped \cup Overlapped(c))
  PROVE  Clear(d)'
  <1>1. Clear(d) /\ StoreTypeOK
    BY DEF FilesInv
  <1>2. file' = file
    BY DEF StoreChunk
  <1>3. CASE d # c
    <2>1. \A u \in Thread : On(u, d) \/ On(u, d)' => writing'[u] = writing[u]
      BY <1>1, <1>3 DEF StoreChunk, StoreTypeOK, On, Idle
    <2>2. d \in acked' => d \in acked
      BY <1>3 DEF StoreChunk
    <2> QED BY <1>1, <1>2, <2>1, <2>2, ClearElsewhere
  <1>4. CASE d = c
    <2>1. Free(c)
      BY <1>4 DEF Overlapped
    <2>2. CASE Verifies(c) /\ writing' = writing
      BY <1>2, <1>4, <2>1, <2>2 DEF Verifies, Clear, AtRest, Free, On, Idle
    <2>3. CASE /\ ~Verifies(c) /\ acked' = acked
               /\ writing' = [writing EXCEPT ![t] = [at |-> "open", chunk |-> c]]
      <3>1. c \notin acked'
        BY <1>1, <1>4, <2>3 DEF Clear, AtRest, Verifies
      <3>2. \A u \in Thread : On(u, c)' => u = t /\ writing'[u].at = "open"
        BY <1>1, <2>1, <2>3 DEF StoreTypeOK, Free, On, Idle
      <3> QED BY <1>4, <3>1, <3>2 DEF Clear
    <2> QED BY <2>2, <2>3 DEF StoreChunk
  <1> QED BY <1>3, <1>4

LEMMA OpenFiles ==
  ASSUME FilesInv, NEW t \in Thread, Open(t), NEW d \in Chunk \ lapped
  PROVE  Clear(d)'
  <1>0. PICK c \in Chunk : c = writing[t].chunk
    BY JobChunk DEF Open, FilesInv, Idle
  <1>1. /\ Clear(d) /\ StoreTypeOK
        /\ c \in Chunk /\ On(t, c)
    BY <1>0 DEF Open, FilesInv, Idle, On
  <1>2. /\ file' = [file EXCEPT ![c] = "part"]
        /\ writing' = [Moved(c, {"write"}, "behind")
                         EXCEPT ![t] = [at |-> "write", chunk |-> c]]
        /\ acked' = acked
    BY <1>0 DEF Open
  <1>3. /\ Moved(c, {"write"}, "behind") \in [Thread -> Job]
        /\ \A u \in Thread :
             /\ Moved(c, {"write"}, "behind")[u].at = "idle" <=> Idle(u)
             /\ Moved(c, {"write"}, "behind")[u].chunk = writing[u].chunk
             /\ ~On(u, c) => Moved(c, {"write"}, "behind")[u] = writing[u]
    BY <1>1, MovedFacts
  <1>4. /\ \A u \in Thread : On(u, c)' <=> On(u, c)
        /\ writing'[t].at = "write"
        /\ \A u \in Thread : ~On(u, c) => writing'[u] = writing[u]
    BY <1>1, <1>2, <1>3 DEF On, Idle
  <1>5. CASE d # c
    <2>1. \A u \in Thread : On(u, d) \/ On(u, d)' => ~On(u, c)
      BY <1>4, <1>5 DEF On, Idle
    <2>2. file'[d] = file[d]
      BY <1>2, <1>5, <1>1 DEF StoreTypeOK
    <2> QED BY <1>1, <1>2, <1>4, <2>1, <2>2, ClearElsewhere
  <1>6. CASE d = c
    <2>1. \A u \in Thread : On(u, c) => u = t
      BY <1>1, <1>6 DEF Clear
    <2>2. c \notin acked
      BY <1>1, <1>6 DEF Clear, AtRest, Free
    <2>3. \A u \in Thread : On(u, c)' => u = t
      BY <1>4, <2>1
    <2>4. /\ \A u, v \in Thread : On(u, c)' /\ On(v, c)' => u = v
          /\ \A u \in Thread : On(u, c)' => writing'[u].at \in {"open", "write"}
      BY <1>4, <2>3
    <2>5. c \notin acked'
      BY <1>2, <2>2
    <2> QED BY <1>6, <2>4, <2>5 DEF Clear
  <1> QED BY <1>5, <1>6

\* The end of a PUT, well or ill.
LEMMA EndFiles ==
  ASSUME FilesInv, NEW t \in Thread, Write(t) \/ WriteFails(t),
         NEW d \in Chunk \ lapped
  PROVE  Clear(d)'
  <1> DEFINE c == writing[t].chunk
  <1>1. Clear(d) /\ StoreTypeOK /\ c \in Chunk /\ On(t, c)
    BY JobChunk DEF Write, WriteFails, FilesInv, Idle, On
  <1>2. /\ writing' = [writing EXCEPT ![t] = NoWork]
        /\ acked' \subseteq acked \cup {c}
        /\ \A e \in Chunk : e # c => file'[e] = file[e]
    BY <1>1 DEF Write, WriteFails, StoreTypeOK
  <1>3. \A u \in Thread : writing'[u] = IF u = t THEN NoWork ELSE writing[u]
    BY <1>1, <1>2 DEF StoreTypeOK
  <1>4. \A u \in Thread, e \in Chunk : On(u, e)' <=> On(u, e) /\ u # t
    BY <1>3 DEF On, Idle, NoWork
  <1>5. CASE d # c
    <2>1. \A u \in Thread : On(u, d) \/ On(u, d)' => u # t
      BY <1>4, <1>5 DEF On
    <2> QED BY <1>1, <1>2, <1>3, <1>5, <2>1, ClearElsewhere
  <1>6. CASE d = c
    <2>1. Free(d)'
      BY <1>1, <1>4, <1>6 DEF Free, Clear
    <2>2. c \notin acked
      BY <1>1, <1>6 DEF Clear, AtRest, Free
    <2>3. CASE Write(t)
      <3>1. writing[t].at = "write"
        BY <1>1, <1>6, <2>3 DEF Write, Clear
      <3>2. file'[c] = "whole"
        BY <1>1, <2>3, <3>1 DEF Write, StoreTypeOK
      <3> HIDE DEF c
      <3> QED BY <1>6, <2>1, <3>2 DEF Clear, AtRest, Free
    <2>4. CASE WriteFails(t)
      <3>1. acked' = acked
        BY <2>4 DEF WriteFails
      <3> HIDE DEF c
      <3> QED BY <1>6, <2>1, <2>2, <3>1 DEF Clear, Free
    <2> QED BY <2>3, <2>4
  <1> QED BY <1>5, <1>6

LEMMA DeleteFiles ==
  ASSUME FilesInv, NEW c \in Chunk, DeleteChunk(c),
         NEW d \in Chunk \ (lapped \cup Overlapped(c))
  PROVE  Clear(d)'
  <1>1. Clear(d) /\ StoreTypeOK
    BY DEF FilesInv
  <1>2. \A u \in Thread :
          /\ writing'[u].at = "idle" <=> Idle(u)
          /\ writing'[u].chunk = writing[u].chunk
          /\ ~On(u, c) => writing'[u] = writing[u]
    BY <1>1, MovedFacts DEF DeleteChunk
  <1>3. acked' = acked \ {c} /\ \A e \in Chunk : e # c => file'[e] = file[e]
    BY <1>1 DEF DeleteChunk, StoreTypeOK
  <1>4. CASE d # c
    <2>1. \A u \in Thread : On(u, d) \/ On(u, d)' => ~On(u, c)
      BY <1>2, <1>4 DEF On, Idle
    <2> QED BY <1>1, <1>2, <1>3, <1>4, <2>1, ClearElsewhere
  <1>5. CASE d = c
    <2>1. Free(c)
      BY <1>5 DEF Overlapped
    <2>2. \A u \in Thread : ~On(u, c)'
      BY <1>2, <2>1 DEF Free, On, Idle
    <2> QED BY <1>3, <1>5, <2>2 DEF Clear
  <1> QED BY <1>4, <1>5

LEMMA CrashFiles ==
  ASSUME FilesInv, StoreCrash, NEW d \in Chunk \ lapped
  PROVE  Clear(d)'
  <1>1. Clear(d) /\ file' = file /\ acked' = acked
    BY DEF StoreCrash, FilesInv
  <1>2. \A u \in Thread : ~On(u, d)'
    BY DEF StoreCrash, On, Idle, NoWork
  <1> QED BY <1>1, <1>2 DEF Clear, AtRest, Free

LEMMA FilesInvStep == FilesInv /\ [Next]_vars => FilesInv'
  <1> SUFFICES ASSUME FilesInv, StoreStep
               PROVE  FilesInv'
    BY NextIsStoreStep
  <1>1. StoreTypeOK'
    BY StoreStepTypeOK DEF FilesInv
  <1>2. ASSUME NEW d \in Chunk \ lapped' PROVE Clear(d)'
    <2>1. ASSUME NEW t \in Thread, NEW c \in Chunk, StoreChunk(t, c)
          PROVE  Clear(d)'
      <3>1. Lap(Overlapped(c))
        BY <2>1 DEF StoreChunk
      <3> QED BY <2>1, <3>1, RestIsClear, StoreChunkFiles
    <2>2. ASSUME NEW t \in Thread, Open(t)
          PROVE  Clear(d)'
      <3>1. Lap({})
        BY <2>2 DEF Open
      <3> QED BY <2>2, <3>1, RestIsClear, OpenFiles
    <2>3. ASSUME NEW t \in Thread, Write(t) \/ WriteFails(t)
          PROVE  Clear(d)'
      <3>1. Lap({})
        BY <2>3 DEF Write, WriteFails
      <3> QED BY <2>3, <3>1, RestIsClear, EndFiles
    <2>4. ASSUME NEW c \in Chunk, DeleteChunk(c)
          PROVE  Clear(d)'
      <3>1. Lap(Overlapped(c))
        BY <2>4 DEF DeleteChunk
      <3> QED BY <2>4, <3>1, RestIsClear, DeleteFiles
    <2>5. CASE StoreCrash
      <3>1. Lap({})
        BY <2>5 DEF StoreCrash
      <3> QED BY <2>5, <3>1, RestIsClear, CrashFiles
    <2>6. CASE UNCHANGED storeVars
      BY <2>6 DEF storeVars, FilesInv, Clear, AtRest, Free, On, Idle
    <2> QED BY <2>1, <2>2, <2>3, <2>4, <2>5, <2>6 DEF StoreStep
  <1> QED BY <1>1, <1>2 DEF FilesInv

\* What a node acknowledged stays on its disk in full, wherever a crash or a
\* failing write strikes, unless another request for the same chunk overlapped
\* with the PUT, in which case the code does lose it (chunks.py:55-67, 87-91).
THEOREM AckedWhole == Spec => []AckedIsWhole
  <1>1. FilesInv => AckedIsWhole
    BY DEF FilesInv, StoreTypeOK, AckedIsWhole, Clear, AtRest
  <1> QED BY FilesInvInit, FilesInvStep, <1>1, PTL DEF Spec

-----------------------------------------------------------------------------
(* The budget. *)

\* The chunks that PUTs under way may still add, and what there is with them.
Coming == {writing[t].chunk : t \in Busy}
Expected == Whole \cup Coming

Limit == Budget + ChunkSize * (crowd - 1)
BudgetInv ==
    /\ StoreTypeOK
    /\ Cardinality(Busy) <= crowd
    /\ ChunkSize * Cardinality(Expected) <= Limit

LEMMA Monotone ==
  ASSUME NEW i \in Nat, NEW j \in Nat, i <= j
  PROVE  ChunkSize * i <= ChunkSize * j
  BY Sizes

LEMMA ExpectedFinite ==
  ASSUME StoreTypeOK
  PROVE  /\ Expected \subseteq Chunk /\ Whole \subseteq Chunk
         /\ IsFiniteSet(Expected) /\ IsFiniteSet(Whole)
         /\ Cardinality(Expected) \in Nat /\ Cardinality(Whole) \in Nat
         /\ crowd \in Nat
  <1>1. Coming \subseteq Chunk
    BY JobChunk DEF Coming, Busy
  <1>2. Expected \subseteq Chunk /\ Whole \subseteq Chunk
    BY <1>1 DEF Expected, Whole
  <1>3. crowd \in Nat
    BY Sizes DEF StoreTypeOK
  <1> QED BY <1>2, <1>3, Sizes, FS_Subset, FS_CardinalityType

\* One chunk for each thread that is busy.
LEMMA ComingBound ==
  ASSUME StoreTypeOK
  PROVE  /\ IsFiniteSet(Coming)
         /\ Cardinality(Coming) \in Nat
         /\ Cardinality(Coming) <= Cardinality(Busy)
  <1> DEFINE f == [t \in Busy |-> writing[t].chunk]
  <1>1. f \in Surjection(Busy, Coming)
    BY DEF Coming, Surjection
  <1>2. IsFiniteSet(Coming) /\ Cardinality(Coming) <= Cardinality(Busy)
    BY BusyBound, <1>1, FS_Surjection
  <1> QED BY <1>2, FS_CardinalityType

LEMMA ExpectedBound ==
  ASSUME StoreTypeOK
  PROVE  Cardinality(Expected) <= Cardinality(Whole) + Cardinality(Busy)
  <1>1. Cardinality(Expected) =
          Cardinality(Whole) + Cardinality(Coming) - Cardinality(Whole \cap Coming)
    BY ExpectedFinite, ComingBound, FS_Union DEF Expected
  <1>2. Cardinality(Whole \cap Coming) \in Nat
    BY ExpectedFinite, FS_Subset, FS_CardinalityType
  <1> QED BY <1>1, <1>2, ExpectedFinite, ComingBound, BusyBound

\* The same of the next state.
ExpectedFacts ==
    /\ Cardinality(Expected) \in Nat /\ crowd \in Nat
    /\ Cardinality(Expected) <= Cardinality(Whole) + Cardinality(Busy)

LEMMA ExpectedNext == StoreTypeOK' => ExpectedFacts'
  <1>1. StoreTypeOK => ExpectedFacts
    BY ExpectedFinite, ExpectedBound DEF ExpectedFacts
  <1> QED BY <1>1, PTL

\* A PUT that was found to fit may add its chunk, and so may all the others
\* that are under way with it.
LEMMA AcceptKeepsLimit ==
  ASSUME StoreTypeOK, StoreTypeOK', HasRoom, file' = file,
         Cardinality(Busy)' <= crowd'
  PROVE  (ChunkSize * Cardinality(Expected) <= Limit)'
  <1> DEFINE w == Cardinality(Whole)  n == crowd'
  <1>1. Whole' = Whole
    BY DEF Whole
  <1>2. /\ Cardinality(Expected)' \in Nat /\ w \in Nat /\ n \in Nat
        /\ Cardinality(Busy)' \in Nat
    BY ExpectedNext, ExpectedFinite, BusyBoundNext DEF ExpectedFacts
  <1>3. Cardinality(Expected)' <= w + n
    BY <1>1, <1>2, ExpectedNext DEF ExpectedFacts
  <1> HIDE DEF w, n
  <1>4. ChunkSize * Cardinality(Expected)' <= ChunkSize * (w + n)
    BY <1>2, <1>3, Monotone
  <1>5. ChunkSize * w + ChunkSize <= Budget
    BY DEF HasRoom, Weight, w
  <1>6. ChunkSize * (w + n) = (ChunkSize * w + ChunkSize) + ChunkSize * (n - 1)
    BY <1>2, Sizes
  <1>7. /\ ChunkSize * w + ChunkSize \in Int /\ ChunkSize * (n - 1) \in Int
        /\ ChunkSize * Cardinality(Expected)' \in Int
    BY <1>2, Sizes
  <1>8. ChunkSize * Cardinality(Expected)' <= Budget + ChunkSize * (n - 1)
    BY <1>4, <1>5, <1>6, <1>7, Sizes
  <1> QED BY <1>8 DEF Limit, n

\* Every other step leaves no more to expect.
LEMMA FewerKeepLimit ==
  ASSUME BudgetInv, StoreTypeOK', Expected' \subseteq Expected, crowd' = crowd
  PROVE  (ChunkSize * Cardinality(Expected) <= Limit)'
  <1>1. /\ Cardinality(Expected)' <= Cardinality(Expected)
        /\ Cardinality(Expected)' \in Nat /\ Cardinality(Expected) \in Nat
        /\ crowd \in Nat
    BY ExpectedFinite, ExpectedNext, FS_Subset DEF BudgetInv, ExpectedFacts
  <1>2. ChunkSize * Cardinality(Expected)' <= ChunkSize * Cardinality(Expected)
    BY <1>1, Monotone
  <1>3. /\ ChunkSize * Cardinality(Expected)' \in Int
        /\ ChunkSize * Cardinality(Expected) \in Int /\ Limit \in Int
    BY <1>1, Sizes DEF Limit
  <1>4. Limit' = Limit
    BY DEF Limit
  <1> QED BY <1>2, <1>3, <1>4 DEF BudgetInv

\* A step takes up a PUT that fits, and counts it, or leaves no more to do.
LEMMA StepLeavesFewer ==
  ASSUME BudgetInv, StoreStep, StoreTypeOK'
  PROVE  \/ /\ HasRoom /\ file' = file
            /\ Cardinality(Busy)' <= crowd'
         \/ /\ Expected' \subseteq Expected /\ Busy' \subseteq Busy
            /\ crowd' = crowd
  <1> DEFINE Fewer == /\ Expected' \subseteq Expected /\ Busy' \subseteq Busy
                      /\ crowd' = crowd
  <1>0. StoreTypeOK /\ crowd \in Nat
    BY ExpectedFinite DEF BudgetInv
  <1>1. ASSUME NEW t \in Thread, NEW c \in Chunk, StoreChunk(t, c), ~Fewer
        PROVE  HasRoom /\ file' = file /\ Cardinality(Busy)' <= crowd'
    <2>1. CASE writing' = writing /\ crowd' = crowd
      BY <1>1, <2>1 DEF StoreChunk, Expected, Whole, Coming, Busy, Idle
    <2>2. CASE /\ HasRoom
               /\ writing' = [writing EXCEPT ![t] = [at |-> "open", chunk |-> c]]
               /\ crowd' = IF Cardinality(Busy') > crowd THEN crowd + 1 ELSE crowd
      <3>1. Busy' = Busy \cup {t}
        BY <1>0, <1>1, <2>2 DEF Busy, Idle, StoreTypeOK
      <3>a. Cardinality(Busy \cup {t}) <= Cardinality(Busy) + 1
        <4> HIDE DEF Fewer
        <4>1. \/ Cardinality(Busy \cup {t}) = Cardinality(Busy)
              \/ Cardinality(Busy \cup {t}) = Cardinality(Busy) + 1
          BY BusyBound, FS_AddElement
        <4> QED BY <4>1, BusyBound
      <3>2. Cardinality(Busy') <= Cardinality(Busy) + 1
        BY <3>1, <3>a
      <3>3. Cardinality(Busy') \in Nat /\ Cardinality(Busy) \in Nat
        BY BusyBound, BusyBoundNext
      <3>4. Cardinality(Busy) <= crowd
        BY DEF BudgetInv
      <3>5. Cardinality(Busy') <= crowd'
        BY <1>0, <2>2, <3>2, <3>3, <3>4
      <3> QED BY <1>1, <2>2, <3>5 DEF StoreChunk
    <2> QED BY <1>1, <2>1, <2>2 DEF StoreChunk
  <1>2. ASSUME NEW t \in Thread, Open(t)
        PROVE  Fewer
    <2>1. writing[t].chunk \in Chunk
      BY <1>0, <1>2, JobChunk DEF Open, Idle
    <2>2. /\ \A u \in Thread : writing'[u].chunk = writing[u].chunk
          /\ \A u \in Thread : Idle(u)' <=> Idle(u)
      BY <1>0, <1>2, <2>1, MovedFacts DEF Open, Idle
    <2>3. /\ \A d \in Chunk : file'[d] = "whole" => file[d] = "whole"
          /\ crowd' = crowd
      BY <1>0, <1>2 DEF Open, StoreTypeOK
    <2> QED BY <2>2, <2>3 DEF Expected, Whole, Coming, Busy
  <1>3. ASSUME NEW t \in Thread, Write(t) \/ WriteFails(t)
        PROVE  Fewer
    <2>1. /\ \A u \in Thread : u # t => writing'[u] = writing[u]
          /\ writing'[t].at = "idle" /\ writing[t].at # "idle"
          /\ \A d \in Chunk : file'[d] = "whole" =>
                file[d] = "whole" \/ d = writing[t].chunk
          /\ crowd' = crowd
      BY <1>0, <1>3 DEF Write, WriteFails, StoreTypeOK, NoWork, Idle
    <2> QED BY <2>1 DEF Expected, Whole, Coming, Busy, Idle
  <1>4. ASSUME NEW c \in Chunk, DeleteChunk(c)
        PROVE  Fewer
    <2>1. \A u \in Thread : /\ writing'[u].chunk = writing[u].chunk
                            /\ Idle(u)' <=> Idle(u)
      BY <1>0, <1>4, MovedFacts DEF DeleteChunk, Idle
    <2>2. /\ \A d \in Chunk : file'[d] = "whole" => file[d] = "whole"
          /\ crowd' = crowd
      BY <1>0, <1>4 DEF DeleteChunk, StoreTypeOK
    <2> QED BY <2>1, <2>2 DEF Expected, Whole, Coming, Busy
  <1>5. CASE StoreCrash
    BY <1>5 DEF StoreCrash, NoWork, Expected, Whole, Coming, Busy, Idle
  <1>6. CASE UNCHANGED storeVars
    BY <1>6 DEF storeVars, Expected, Whole, Coming, Busy, Idle
  <1> QED BY <1>1, <1>2, <1>3, <1>4, <1>5, <1>6 DEF StoreStep

LEMMA BudgetInvInit == Init => BudgetInv
  <1> SUFFICES ASSUME Init PROVE BudgetInv
    OBVIOUS
  <1>1. StoreTypeOK /\ Busy = {} /\ Expected = {} /\ crowd = 1
    BY StoreInitTypeOK
       DEF Init, StoreInit, Expected, Whole, Coming, Busy, Idle, NoWork
  <1>2. ChunkSize * Cardinality(Expected) = 0 /\ Cardinality(Busy) = 0
    BY <1>1, Sizes, FS_EmptySet
  <1> QED BY <1>1, <1>2, Sizes DEF BudgetInv, Limit

LEMMA BudgetInvStep == BudgetInv /\ [Next]_vars => BudgetInv'
  <1> SUFFICES ASSUME BudgetInv, StoreStep
               PROVE  BudgetInv'
    BY NextIsStoreStep
  <1>1. StoreTypeOK' /\ StoreTypeOK
    BY StoreStepTypeOK DEF BudgetInv
  <1>2. CASE HasRoom /\ file' = file /\ Cardinality(Busy)' <= crowd'
    BY <1>1, <1>2, AcceptKeepsLimit DEF BudgetInv
  <1>3. CASE Expected' \subseteq Expected /\ Busy' \subseteq Busy /\ crowd' = crowd
    <2>1. Cardinality(Busy') <= Cardinality(Busy)
      BY <1>3, BusyBound, FS_Subset
    <2>2. Cardinality(Busy') <= crowd'
      BY <1>1, <1>3, <2>1, BusyBound, BusyBoundNext, ExpectedFinite DEF BudgetInv
    <2> QED BY <1>1, <1>3, <2>2, FewerKeepLimit DEF BudgetInv
  <1> QED BY <1>1, <1>2, <1>3, StepLeavesFewer

\* PUTs at the same time, each of which measured the room before it wrote, go
\* beyond the budget by at most one chunk for each that was under way beside
\* another; a node that gets them one by one keeps its budget.
THEOREM BudgetKept == Spec => []BudgetBound
  <1>1. ASSUME BudgetInv PROVE BudgetBound
    <2>1. /\ Cardinality(Whole) <= Cardinality(Expected)
          /\ Cardinality(Expected) \in Nat /\ Cardinality(Whole) \in Nat
          /\ crowd \in Nat
      BY <1>1, ExpectedFinite, FS_Subset DEF BudgetInv, Expected
    <2>2. Weight <= ChunkSize * Cardinality(Expected)
      BY <2>1, Monotone DEF Weight
    <2>3. /\ Weight \in Int /\ Limit \in Int
          /\ ChunkSize * Cardinality(Expected) \in Int
      BY <2>1, Sizes DEF Weight, Limit
    <2> QED BY <1>1, <2>2, <2>3 DEF BudgetInv, BudgetBound, Limit
  <1> QED BY BudgetInvInit, BudgetInvStep, <1>1, PTL DEF Spec

-----------------------------------------------------------------------------
(* The process and its row. *)

ProcInv == TypeOK /\ LeavingStaysMarked

LEMMA ProcInvInit == Init => ProcInv
  <1> SUFFICES ASSUME Init PROVE ProcInv
    OBVIOUS
  <1>1. StoreTypeOK
    BY StoreInitTypeOK DEF Init
  <1>2. \A t \in Thread : Idle(t)
    BY DEF Init, StoreInit, Idle, NoWork
  <1> QED BY <1>1, <1>2
          DEF Init, ProcInv, TypeOK, LeavingStaysMarked

LEMMA ServeProcInv ==
  ASSUME ProcInv, StoreTypeOK', Store
  PROVE  ProcInv'
  <1> USE DEF ProcInv, TypeOK, LeavingStaysMarked,
              procVars, rowVars
  <1>1. UNCHANGED <<procVars, rowVars>>
    BY DEF Store
  <1>2. CASE Served
    BY <1>1, <1>2 DEF Served
  <1>3. ASSUME NEW t \in Thread, Open(t) \/ Write(t) \/ WriteFails(t)
        PROVE  proc \notin {"off", "stop"}
    BY <1>3 DEF Open, Write, WriteFails, Idle
  <1> QED BY <1>1, <1>2, <1>3 DEF Store, ThreadSteps

LEMMA LoopProcInv ==
  ASSUME ProcInv, StoreTypeOK', Loop \/ SendHeartbeat
  PROVE  ProcInv'
  <1> USE DEF ProcInv, TypeOK, LeavingStaysMarked,
              storeVars, rowVars, Idle
  <1>1. CASE Listen
    BY <1>1 DEF Listen
  <1>2. CASE BeatDue
    BY <1>2 DEF BeatDue, LoopFree
  <1>3. CASE LoopTurns
    BY <1>3 DEF LoopTurns, LoopFree
  <1>4. CASE LoopStops
    BY <1>4 DEF LoopStops
  <1>5. CASE SendHeartbeat
    BY <1>5 DEF SendHeartbeat, Admitted
  <1> QED BY <1>1, <1>2, <1>3, <1>4, <1>5 DEF Loop

LEMMA StartProcInv ==
  ASSUME ProcInv, StoreTypeOK', Start \/ StartFails
  PROVE  ProcInv'
  <1> USE DEF ProcInv, TypeOK, LeavingStaysMarked,
              storeVars, procVars, RowRegistered, Idle
  <1>1. CASE Start
    BY <1>1 DEF Start
  <1>2. CASE StartFails
    BY <1>2 DEF StartFails
  <1> QED BY <1>1, <1>2

LEMMA EndProcInv ==
  ASSUME ProcInv, StoreTypeOK',
         \/ Shutdown \/ MarkDraining \/ AnswerDrain \/ DrainReturns
         \/ DrainTimesOut \/ CloseSockets \/ CloseClient \/ Crash
  PROVE  ProcInv'
  <1> USE DEF ProcInv, TypeOK, LeavingStaysMarked,
              storeVars, procVars, rowVars, Idle
  <1>1. CASE Shutdown
    BY <1>1 DEF Shutdown
  <1>2. CASE MarkDraining
    BY <1>2 DEF MarkDraining
  <1>3. CASE AnswerDrain
    BY <1>3 DEF AnswerDrain
  <1>4. CASE DrainReturns
    BY <1>4 DEF DrainReturns
  <1>5. CASE DrainTimesOut
    BY <1>5 DEF DrainTimesOut
  <1>6. CASE CloseSockets
    BY <1>6 DEF CloseSockets
  <1>7. CASE CloseClient
    BY <1>7 DEF CloseClient
  <1>8. CASE Crash
    <2>1. \A t \in Thread : Idle(t)'
      BY <1>8 DEF Crash, StoreCrash, NoWork
    <2>2. heard' \in BOOLEAN
      BY <1>8 DEF Crash
    <2> QED BY <1>8, <2>1, <2>2 DEF Crash
  <1> QED BY <1>1, <1>2, <1>3, <1>4, <1>5, <1>6, <1>7, <1>8

LEMMA WorldProcInv ==
  ASSUME ProcInv, StoreTypeOK',
         \/ Connection \/ SessionExpires \/ Lapse \/ OperatorDrains
         \/ UNCHANGED vars
  PROVE  ProcInv'
  <1> USE DEF ProcInv, TypeOK, LeavingStaysMarked,
              storeVars, procVars, rowVars, Idle
  <1>1. CASE Connection
    BY <1>1 DEF Connection
  <1>2. CASE SessionExpires
    BY <1>2 DEF SessionExpires
  <1>3. CASE Lapse
    BY <1>3 DEF Lapse
  <1>4. CASE OperatorDrains
    BY <1>4 DEF OperatorDrains
  <1>5. CASE UNCHANGED vars
    BY <1>5 DEF vars
  <1> QED BY <1>1, <1>2, <1>3, <1>4, <1>5

LEMMA ProcInvStep == ProcInv /\ [Next]_vars => ProcInv'
  <1> SUFFICES ASSUME ProcInv, [Next]_vars
               PROVE  ProcInv'
    OBVIOUS
  <1>1. StoreTypeOK'
    BY NextIsStoreStep, StoreStepTypeOK DEF ProcInv, TypeOK
  <1> QED BY <1>1, ServeProcInv, LoopProcInv, StartProcInv, EndProcInv,
             WorldProcInv DEF Next

LEMMA ProcInvAlways == Spec => []ProcInv
  BY ProcInvInit, ProcInvStep, PTL DEF Spec

\* The variables keep their types, and a process that is gone, or is about to
\* close its client, has no request under way.
THEOREM TypeCorrect == Spec => []TypeOK
  <1>1. ProcInv => TypeOK
    BY DEF ProcInv
  <1> QED BY ProcInvAlways, <1>1, PTL

\* No heartbeat brings back a node whose drain the coordinator has begun to
\* serve; only a registration does (nodes.py:45, 238).
THEOREM LeavingMarked == Spec => []LeavingStaysMarked
  <1>1. ProcInv => LeavingStaysMarked
    BY DEF ProcInv
  <1> QED BY ProcInvAlways, <1>1, PTL
=============================================================================
