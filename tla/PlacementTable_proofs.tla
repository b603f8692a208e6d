------------------------ MODULE PlacementTable_proofs ------------------------
(***************************************************************************)
(* Proofs about PlacementTable, for any number of nodes and threads and    *)
(* any replication factor and write quorum the coordinator accepts, with   *)
(* no assumption on how registrations, drains and repairs overlap.         *)
(***************************************************************************)
EXTENDS PlacementTable, FiniteSetTheorems, TLAPS

-----------------------------------------------------------------------------
(* Type correctness. *)

LEMMA InitTypeOK == Init => TypeOK
  BY NodeAssumption DEF Init, TypeOK, Registered, Kinds, Places

LEMMA NodeTypeOK ==
  ASSUME TypeOK, NEW n \in Node, NodeStep(n)
  PROVE  TypeOK'
  <1> USE DEF TypeOK, Registered, workVars
  <1>1. CASE RegisterNew(n)
    BY <1>1 DEF RegisterNew
  <1>2. CASE Heartbeat(n)
    BY <1>2 DEF Heartbeat
  <1>3. CASE Lapse(n)
    BY <1>3 DEF Lapse
  <1> QED BY <1>1, <1>2, <1>3 DEF NodeStep

LEMMA FileTypeOK ==
  ASSUME TypeOK, FileStep
  PROVE  TypeOK'
  <1> USE DEF TypeOK, Registered, workVars, nodeVars
  <1>1. CASE \E S \in SUBSET Node : CreateFile(S)
    BY <1>1 DEF CreateFile
  <1>2. CASE DeleteFile
    BY <1>2 DEF DeleteFile
  <1> QED BY <1>1, <1>2 DEF FileStep

LEMMA RepairTypeOK ==
  ASSUME TypeOK, NEW w \in Worker, RepairStep(w)
  PROVE  TypeOK'
  <1> USE DEF TypeOK, Registered, Kinds, Places, nodeVars
  <1>1. CASE StartRepair(w)
    BY <1>1 DEF StartRepair, Begin, Planned, IsUp
  <1>2. CASE EndRepair(w)
    BY <1>2 DEF EndRepair, Finish
  <1>3. ASSUME NEW n \in Node, Copy(w, n) PROVE TypeOK'
    BY <1>3 DEF Copy
  <1>4. ASSUME NEW n \in Node, CopyFails(w, n) PROVE TypeOK'
    BY <1>4 DEF CopyFails
  <1> QED BY <1>1, <1>2, <1>3, <1>4 DEF RepairStep

LEMMA DrainTypeOK ==
  ASSUME TypeOK, NEW w \in Worker, DrainStep(w)
  PROVE  TypeOK'
  <1> USE DEF TypeOK, Registered, Kinds, Places, nodeVars
  <1>1. ASSUME NEW n \in Node, MarkDraining(w, n) PROVE TypeOK'
    BY <1>1 DEF MarkDraining, Begin
  <1>2. CASE PlanForDrain(w)
    BY <1>2 DEF PlanForDrain, Planned, IsUp, Goto
  <1>3. CASE AnswerDrain(w)
    BY <1>3 DEF AnswerDrain, Finish
  <1> QED BY <1>1, <1>2, <1>3 DEF DrainStep

LEMMA ReleaseTypeOK ==
  ASSUME TypeOK, NEW w \in Worker, ReleaseStep(w)
  PROVE  TypeOK'
  <1> USE DEF TypeOK, Registered, Kinds, Places, nodeVars
  <1>1. ASSUME NEW n \in Node, Rejoin(w, n) PROVE TypeOK'
    BY <1>1 DEF Rejoin, Begin
  <1>2. CASE ReadStates(w)
    BY <1>2 DEF ReadStates, Goto
  <1>3. CASE DecideDrop(w)
    BY <1>3 DEF DecideDrop, Goto
  <1>4. ASSUME DecideKeep(w) \/ Drop(w) PROVE TypeOK'
    <2>1. crossed' \in BOOLEAN
      BY <1>4 DEF DecideKeep, Drop, AfterRelease, Finish
    <2>2. CASE DecideKeep(w)
      BY <2>1, <2>2 DEF DecideKeep, AfterRelease, Goto, Finish
    <2>3. CASE Drop(w)
      BY <2>1, <2>3 DEF Drop, AfterRelease, Goto, Finish
    <2> QED BY <1>4, <2>2, <2>3
  <1> QED BY <1>1, <1>2, <1>3, <1>4 DEF ReleaseStep

LEMMA NextTypeOK == TypeOK /\ [Next]_vars => TypeOK'
  <1> SUFFICES ASSUME TypeOK, [Next]_vars PROVE TypeOK'
    OBVIOUS
  <1>1. ASSUME NEW n \in Node, NodeStep(n) PROVE TypeOK'
    BY <1>1, NodeTypeOK
  <1>2. CASE FileStep
    BY <1>2, FileTypeOK
  <1>3. ASSUME NEW w \in Worker, RepairStep(w) \/ DrainStep(w) \/ ReleaseStep(w)
        PROVE  TypeOK'
    BY <1>3, RepairTypeOK, DrainTypeOK, ReleaseTypeOK
  <1>4. CASE Restart
    BY <1>4 DEF Restart, TypeOK, Registered, Kinds, Places, nodeVars
  <1>5. CASE UNCHANGED vars
    BY <1>5 DEF TypeOK, Registered, vars, nodeVars, workVars
  <1> QED BY <1>1, <1>2, <1>3, <1>4, <1>5 DEF Next

\* Every reachable state is well typed: rows refer to registered nodes and
\* every worker stands where its request can bring it.
THEOREM TypeCorrect == Spec => []TypeOK
  BY InitTypeOK, NextTypeOK, PTL DEF Spec
-----------------------------------------------------------------------------
(* Releases never count on each other, until they cross. *)

\* What holds of every step in which no registration crosses a release.
Ordered == DropAfterStore /\ InOrder

LEMMA Enough ==
  ASSUME NEW T \in SUBSET Node, NEW S \in SUBSET T, Cardinality(S) >= RF
  PROVE  Cardinality(T) >= RF
  <1>1. IsFiniteSet(T)
    BY NodeAssumption, FS_Subset
  <1>2. /\ Cardinality(S) \in Nat /\ Cardinality(T) \in Nat
        /\ Cardinality(S) <= Cardinality(T)
    BY <1>1, FS_Subset, FS_CardinalityType
  <1> QED BY <1>2, ReplicationAssumption

\* A worker that stays where it is stays covered when copies are added.
LEMMA StaysCovered ==
  ASSUME TypeOK, TypeOK', NEW w \in Worker, Covered(w),
         kind'[w] = kind[w], on'[w] = on[w],
         seenDraining'[w] = seenDraining[w], holders \subseteq holders'
  PROVE  Covered(w)'
  <1>1. holders' \subseteq Node
    BY DEF TypeOK, Registered
  <1>2. CASE kind[w] = "drain"
    BY <1>1, <1>2, Enough DEF Covered
  <1>3. CASE kind[w] # "drain"
    BY <1>1, <1>3, Enough DEF Covered
  <1> QED BY <1>2, <1>3

LEMMA InitReleaseInv == Init => ReleaseInv
  BY DEF Init, ReleaseInv, InOrder, MarkedBeforeRead, ReadsOrdered, DropCovered,
         RejoinIsAlone, DropAfterStore, Reading, Busy

\* Nodes and files: no worker moves and no node is marked or unmarked.
LEMMA EnvironmentReleaseInv ==
  ASSUME TypeOK, TypeOK', Ordered,
         FileStep \/ (\E n \in Node : NodeStep(n)) \/ UNCHANGED vars
  PROVE  Ordered'
  <1>1. UNCHANGED <<workVars, draining>>
    BY DEF FileStep, CreateFile, DeleteFile, NodeStep, RegisterNew, Heartbeat,
           Lapse, vars, nodeVars
  <1>2. (MarkedBeforeRead /\ ReadsOrdered /\ RejoinIsAlone)'
    BY <1>1 DEF Ordered, InOrder, MarkedBeforeRead, ReadsOrdered, RejoinIsAlone,
                Reading, Releasing, Busy, workVars
  <1>3. \/ chunk' = chunk /\ holders \subseteq holders'
        \/ chunk = "none"
        \/ chunk' = "deleted"
    BY DEF FileStep, CreateFile, DeleteFile, NodeStep, RegisterNew, Heartbeat,
           Lapse, vars
  <1>4. DropCovered'
    <2> SUFFICES ASSUME NEW w \in Worker, at[w] = "drop", chunk' = "stored"
                 PROVE  Covered(w)'
      BY <1>1 DEF DropCovered, workVars
    <2>1. chunk = "stored" /\ holders \subseteq holders'
      BY <1>3 DEF Ordered, InOrder, DropAfterStore
    <2>2. Covered(w)
      BY <2>1 DEF Ordered, InOrder, DropCovered
    <2> QED BY <2>1, <2>2, <1>1, StaysCovered DEF workVars
  <1>5. DropAfterStore'
    BY <1>1 DEF Ordered, InOrder, DropAfterStore, FileStep, CreateFile, DeleteFile,
           NodeStep, RegisterNew, Heartbeat, Lapse, vars, workVars
  <1> QED BY <1>2, <1>4, <1>5 DEF Ordered, InOrder

\* Workers that neither mark, read states, decide nor drop: a step of repair,
\* the plan and the answer of a drain.
LEMMA RepairReleaseInv ==
  ASSUME TypeOK, TypeOK', Ordered, NEW w \in Worker,
         RepairStep(w) \/ PlanForDrain(w) \/ AnswerDrain(w)
  PROVE  Ordered'
  <1> USE DEF RepairStep, StartRepair, EndRepair, Copy, CopyFails,
              PlanForDrain, AnswerDrain, Begin, Finish, Goto, nodeVars
  <1>1. /\ UNCHANGED <<chunk, draining>>
        /\ holders \subseteq holders'
        /\ \A v \in Worker \ {w} :
              /\ kind'[v] = kind[v] /\ at'[v] = at[v] /\ on'[v] = on[v]
              /\ seenDraining'[v] = seenDraining[v]
    BY DEF TypeOK
  <1>2. /\ at[w] \notin {"decide", "drop"} /\ at'[w] \notin {"decide", "drop"}
        /\ kind'[w] # "register" /\ kind[w] # "register"
        /\ kind'[w] = "drain" => kind[w] = "drain" /\ on'[w] = on[w]
    BY DEF TypeOK
  <1>3. (MarkedBeforeRead /\ ReadsOrdered)'
    BY <1>1, <1>2 DEF Ordered, InOrder, MarkedBeforeRead, ReadsOrdered, Reading
  <1>4. RejoinIsAlone'
    BY <1>1, <1>2 DEF Ordered, InOrder, RejoinIsAlone, Releasing, Busy
  <1>5. (DropCovered /\ DropAfterStore)'
    <2>1. DropAfterStore'
      BY <1>1, <1>2 DEF Ordered, InOrder, DropAfterStore
    <2>2. ASSUME NEW v \in Worker, (at[v] = "drop" /\ chunk = "stored")'
          PROVE  Covered(v)'
      <3>1. v # w /\ at[v] = "drop" /\ chunk = "stored"
        BY <2>2, <1>1, <1>2
      <3>2. Covered(v)
        BY <3>1 DEF Ordered, InOrder, DropCovered
      <3> QED BY <3>1, <3>2, <1>1, StaysCovered
    <2> QED BY <2>1, <2>2 DEF DropCovered
  <1> QED BY <1>3, <1>4, <1>5 DEF Ordered, InOrder

\* A worker that has read the states drains or registers.
LEMMA ReadersAreBusy ==
  ASSUME TypeOK, NEW w \in Reading
  PROVE  w \in Worker /\ kind[w] \in {"drain", "register"}
  BY DEF TypeOK, Reading, Kinds

LEMMA MarkReleaseInv ==
  ASSUME TypeOK, TypeOK', Ordered, Busy({"register"}) = {},
         NEW w \in Worker, NEW n \in Node, MarkDraining(w, n)
  PROVE  Ordered'
  <1> USE DEF MarkDraining, Begin
  <1>1. /\ at[w] = "idle" /\ at'[w] = "plan"
        /\ kind'[w] = "drain" /\ on'[w] = n
        /\ Busy({"register"}) = {}
        /\ draining' = draining \cup {n}
        /\ UNCHANGED <<chunk, holders, seenDraining>>
        /\ \A v \in Worker \ {w} :
              kind'[v] = kind[v] /\ at'[v] = at[v] /\ on'[v] = on[v]
    BY DEF TypeOK
  <1>2. (MarkedBeforeRead /\ ReadsOrdered)'
    BY <1>1 DEF Ordered, InOrder, MarkedBeforeRead, ReadsOrdered, Reading
  <1>3. RejoinIsAlone'
    BY <1>1 DEF RejoinIsAlone, Releasing, Busy
  <1>4. (DropCovered /\ DropAfterStore)'
    BY <1>1 DEF Ordered, InOrder, DropCovered, Covered, DropAfterStore
  <1> QED BY <1>2, <1>3, <1>4 DEF Ordered, InOrder

LEMMA RejoinReleaseInv ==
  ASSUME TypeOK, TypeOK', Ordered, Releasing = {},
         NEW w \in Worker, NEW n \in Node, Rejoin(w, n)
  PROVE  Ordered'
  <1> USE DEF Rejoin, Begin
  <1>1. /\ at'[w] = "states" /\ kind'[w] = "register"
        /\ \A v \in Worker \ {w} : kind'[v] = kind[v] /\ at'[v] = at[v]
        /\ \A v \in Worker : kind[v] \notin {"drain", "register"}
    BY DEF TypeOK, Releasing, Busy
  <1>2. Reading' = {}
    BY <1>1, ReadersAreBusy DEF Reading
  <1>3. Releasing' = {w}
    BY <1>1 DEF Releasing, Busy
  <1>4. (MarkedBeforeRead /\ ReadsOrdered /\ DropCovered /\ DropAfterStore)'
    BY <1>1, <1>2 DEF MarkedBeforeRead, ReadsOrdered, DropCovered,
                      DropAfterStore, Reading
  <1>5. RejoinIsAlone'
    BY <1>1, <1>3 DEF RejoinIsAlone, Releasing, Busy
  <1> QED BY <1>4, <1>5 DEF Ordered, InOrder

LEMMA ReadReleaseInv ==
  ASSUME TypeOK, TypeOK', Ordered, NEW w \in Worker, ReadStates(w)
  PROVE  Ordered'
  <1> USE DEF ReadStates, Goto, nodeVars
  <1>1. /\ at[w] \notin {"decide", "drop"} /\ at'[w] = "decide"
        /\ seenDraining'[w] = draining
        /\ UNCHANGED <<chunk, holders, draining, kind, on>>
        /\ \A v \in Worker \ {w} :
              at'[v] = at[v] /\ seenDraining'[v] = seenDraining[v]
    BY DEF TypeOK
  <1>2. MarkedBeforeRead'
    BY <1>1 DEF Ordered, InOrder, MarkedBeforeRead, Reading
  <1>3. ReadsOrdered'
    BY <1>1 DEF Ordered, InOrder, ReadsOrdered, Reading
  <1>4. (RejoinIsAlone /\ DropAfterStore /\ DropCovered)'
    BY <1>1 DEF Ordered, InOrder, RejoinIsAlone, Releasing, Busy, DropAfterStore, DropCovered,
                Covered
  <1> QED BY <1>2, <1>3, <1>4 DEF Ordered, InOrder

LEMMA DecideReleaseInv ==
  ASSUME TypeOK, TypeOK', Ordered, NEW w \in Worker, DecideDrop(w)
  PROVE  Ordered'
  <1> USE DEF DecideDrop, Goto, nodeVars
  <1>1. /\ at[w] = "decide" /\ at'[w] = "drop" /\ on[w] \in holders
        /\ UNCHANGED <<chunk, holders, draining, kind, on, seenDraining>>
        /\ \A v \in Worker \ {w} : at'[v] = at[v]
    BY DEF TypeOK
  <1>2. (MarkedBeforeRead /\ ReadsOrdered /\ RejoinIsAlone)'
    BY <1>1 DEF Ordered, InOrder, MarkedBeforeRead, ReadsOrdered, RejoinIsAlone,
                Reading, Releasing, Busy
  <1>3. DropAfterStore'
    BY <1>1 DEF Ordered, InOrder, DropAfterStore, TypeOK
  <1>4. Covered(w)
    <2>1. /\ OtherPermanent(w) \subseteq holders \ seenDraining[w]
          /\ OtherPermanent(w) \subseteq holders \ {on[w]}
          /\ holders \subseteq Node
      BY DEF OtherPermanent, TypeOK, Registered
    <2> QED BY <2>1, Enough DEF Covered
  <1>5. DropCovered'
    BY <1>1, <1>4 DEF Ordered, InOrder, DropCovered, Covered
  <1> QED BY <1>2, <1>3, <1>5 DEF Ordered, InOrder

\* Another worker's commit takes no copy a worker counts on: of two drains the
\* later one saw the earlier one's node draining, and a registration is alone.
LEMMA DropKeepsOthersCovered ==
  ASSUME TypeOK, TypeOK', Ordered, chunk = "stored",
         NEW w \in Worker, at[w] = "drop",
         NEW v \in Worker \ {w}, at[v] = "drop",
         holders' = holders \ {on[w]},
         kind'[v] = kind[v], on'[v] = on[v], seenDraining'[v] = seenDraining[v]
  PROVE  Covered(v)'
  <1>1. w \in Reading /\ v \in Reading
    BY DEF Reading
  <1>2. kind[w] = "drain" /\ kind[v] = "drain"
    BY <1>1, ReadersAreBusy DEF Ordered, InOrder, RejoinIsAlone, Releasing, Busy
  <1>3. on[w] \in seenDraining[w]
    BY <1>1, <1>2 DEF Ordered, InOrder, MarkedBeforeRead
  <1>4. Covered(v) /\ Covered(w)
    BY DEF Ordered, InOrder, DropCovered
  <1>5. CASE on[w] \in seenDraining[v]
    <2>1. holders' \ seenDraining[v] = holders \ seenDraining[v]
      BY <1>5
    <2> QED BY <2>1, <1>2, <1>4 DEF Covered
  <1>6. CASE on[w] \notin seenDraining[v]
    <2>1. seenDraining[v] \subseteq seenDraining[w]
      BY <1>1, <1>2, <1>3, <1>6 DEF Ordered, InOrder, ReadsOrdered
    <2>2. /\ holders \ seenDraining[w] \subseteq holders' \ seenDraining[v]
          /\ holders' \subseteq Node
      BY <2>1, <1>3 DEF TypeOK, Registered
    <2> QED BY <2>2, <1>2, <1>4, Enough DEF Covered
  <1> QED BY <1>5, <1>6

LEMMA LeaveReleaseInv ==
  ASSUME TypeOK, TypeOK', Ordered, NEW w \in Worker,
         DecideKeep(w) \/ Drop(w)
  PROVE  Ordered'
  <1> USE DEF DecideKeep, Drop, AfterRelease, Finish, Goto, nodeVars
  <1>1. /\ at[w] \in {"decide", "drop"} /\ at'[w] \notin {"decide", "drop"}
        /\ kind'[w] # "register"
        /\ kind'[w] = "drain" => kind[w] = "drain" /\ on'[w] = on[w]
        /\ UNCHANGED <<chunk, draining>>
        /\ \A v \in Worker \ {w} :
              /\ kind'[v] = kind[v] /\ at'[v] = at[v] /\ on'[v] = on[v]
              /\ seenDraining'[v] = seenDraining[v]
    BY DEF TypeOK
  <1>2. (MarkedBeforeRead /\ ReadsOrdered)'
    BY <1>1 DEF Ordered, InOrder, MarkedBeforeRead, ReadsOrdered, Reading
  <1>3. RejoinIsAlone'
    BY <1>1 DEF Ordered, InOrder, RejoinIsAlone, Releasing, Busy
  <1>4. DropAfterStore'
    BY <1>1 DEF Ordered, InOrder, DropAfterStore
  <1>5. ASSUME NEW v \in Worker, (at[v] = "drop" /\ chunk = "stored")'
        PROVE  Covered(v)'
    <2>1. v # w /\ at[v] = "drop" /\ chunk = "stored"
      BY <1>1, <1>5
    <2>2. CASE DecideKeep(w)
      <3>1. holders' = holders /\ Covered(v)
        BY <2>1, <2>2 DEF Ordered, InOrder, DropCovered
      <3> QED BY <3>1, <2>1, <1>1, StaysCovered
    <2>3. CASE Drop(w)
      BY <2>1, <2>3, <1>1, DropKeepsOthersCovered
    <2> QED BY <2>2, <2>3
  <1>6. DropCovered'
    BY <1>5 DEF DropCovered
  <1> QED BY <1>2, <1>3, <1>4, <1>6 DEF Ordered, InOrder

LEMMA RestartReleaseInv ==
  ASSUME Ordered, Restart
  PROVE  Ordered'
  BY DEF Restart, Ordered, InOrder, MarkedBeforeRead, ReadsOrdered, DropCovered,
         RejoinIsAlone, DropAfterStore, Reading, Releasing, Busy

\* Nobody waits to drop a copy of a chunk that is not stored yet.
LEMMA NextDropAfterStore ==
  ASSUME TypeOK, DropAfterStore, [Next]_vars
  PROVE  DropAfterStore'
  <1> USE DEF DropAfterStore
  <1>1. ASSUME UNCHANGED <<at, chunk>> \/ (UNCHANGED at /\ chunk' # "none")
        PROVE  DropAfterStore'
    BY <1>1
  <1>2. CASE FileStep \/ (\E n \in Node : NodeStep(n)) \/ UNCHANGED vars
    BY <1>1, <1>2 DEF FileStep, CreateFile, DeleteFile, NodeStep, RegisterNew,
       Heartbeat, Lapse, vars, workVars
  <1>3. ASSUME NEW w \in Worker, UNCHANGED chunk,
               \A v \in Worker \ {w} : at'[v] = at[v],
               at'[w] = "drop" => chunk # "none"
        PROVE  DropAfterStore'
    BY <1>3
  <1>4. ASSUME NEW w \in Worker, RepairStep(w) \/ DrainStep(w)
        PROVE  DropAfterStore'
    <2>1. UNCHANGED chunk /\ at'[w] # "drop" /\ \A v \in Worker \ {w} : at'[v] = at[v]
      BY <1>4 DEF RepairStep, DrainStep, StartRepair, EndRepair, Copy, CopyFails,
         MarkDraining, PlanForDrain, AnswerDrain, Begin, Finish, Goto, TypeOK
    <2> QED BY <2>1, <1>3
  <1>5. ASSUME NEW w \in Worker, ReleaseStep(w)
        PROVE  DropAfterStore'
    <2>1. /\ UNCHANGED chunk /\ \A v \in Worker \ {w} : at'[v] = at[v]
          /\ at'[w] = "drop" => on[w] \in holders
      BY <1>5 DEF ReleaseStep, Rejoin, ReadStates, DecideDrop, DecideKeep, Drop,
         AfterRelease, Begin, Finish, Goto, TypeOK
    <2> QED BY <2>1, <1>3 DEF TypeOK
  <1>6. CASE Restart
    BY <1>6 DEF Restart
  <1> QED BY <1>2, <1>4, <1>5, <1>6 DEF Next

\* Releases stop being crossed when the last of them ends.
LEMMA LastReleaseEnds ==
  ASSUME TypeOK, [Next]_vars, crossed, ~crossed'
  PROVE  Releasing' = {}
  <1>1. CASE FileStep \/ (\E n \in Node : NodeStep(n)) \/ UNCHANGED vars
    BY <1>1 DEF FileStep, CreateFile, DeleteFile, NodeStep, RegisterNew,
       Heartbeat, Lapse, vars
  <1>2. ASSUME NEW w \in Worker, RepairStep(w) \/ DrainStep(w) \/ ReleaseStep(w)
        PROVE  Releasing' = {}
    <2>1. Finish(w)
      BY <1>2 DEF RepairStep, DrainStep, ReleaseStep, StartRepair, EndRepair, Copy,
         CopyFails, MarkDraining, PlanForDrain, AnswerDrain, Rejoin, ReadStates,
         DecideDrop, DecideKeep, Drop, AfterRelease
    <2>2. Releasing \subseteq {w} /\ kind' = [kind EXCEPT ![w] = "none"]
      BY <2>1 DEF Finish
    <2>3. kind \in [Worker -> Kinds]
      BY DEF TypeOK
    <2> QED BY <2>2, <2>3 DEF Releasing, Busy
  <1>3. CASE Restart
    BY <1>3 DEF Restart, Releasing, Busy
  <1> QED BY <1>1, <1>2, <1>3 DEF Next

LEMMA NextReleaseInv ==
  TypeOK /\ TypeOK' /\ ReleaseInv /\ [Next]_vars => ReleaseInv'
  <1> SUFFICES ASSUME TypeOK, TypeOK', ReleaseInv, [Next]_vars
               PROVE  ReleaseInv'
    OBVIOUS
  <1>1. DropAfterStore'
    BY NextDropAfterStore DEF ReleaseInv
  <1>2. CASE crossed /\ ~crossed'
    <2>1. Reading' = {} /\ \A w \in Worker : kind'[w] \notin {"drain", "register"}
      BY <1>2, LastReleaseEnds DEF Releasing, Busy, Reading, TypeOK, Kinds
    <2>2. InOrder'
      BY <2>1 DEF InOrder, MarkedBeforeRead, ReadsOrdered, DropCovered,
         RejoinIsAlone, Busy, Reading
    <2> QED BY <1>1, <2>2 DEF ReleaseInv
  <1>3. CASE ~crossed /\ ~crossed'
    <2>1. Ordered
      BY <1>3 DEF ReleaseInv, Ordered
    <2>2. CASE FileStep \/ (\E n \in Node : NodeStep(n)) \/ UNCHANGED vars
      BY <2>1, <2>2, EnvironmentReleaseInv DEF Ordered, ReleaseInv
    <2>3. ASSUME NEW w \in Worker, RepairStep(w) PROVE Ordered'
      BY <2>1, <2>3, RepairReleaseInv
    <2>4. ASSUME NEW w \in Worker, DrainStep(w) PROVE Ordered'
      <3>1. ASSUME NEW n \in Node, MarkDraining(w, n) PROVE Ordered'
        BY <1>3, <2>1, <3>1, MarkReleaseInv DEF MarkDraining
      <3> QED BY <2>1, <2>4, <3>1, RepairReleaseInv DEF DrainStep
    <2>5. ASSUME NEW w \in Worker, ReleaseStep(w) PROVE Ordered'
      <3>1. ASSUME NEW n \in Node, Rejoin(w, n) PROVE Ordered'
        BY <1>3, <2>1, <3>1, RejoinReleaseInv DEF Rejoin
      <3> QED BY <2>1, <2>5, <3>1, ReadReleaseInv, DecideReleaseInv,
              LeaveReleaseInv DEF ReleaseStep
    <2>6. CASE Restart
      BY <2>1, <2>6, RestartReleaseInv DEF Ordered, ReleaseInv
    <2> QED BY <2>2, <2>3, <2>4, <2>5, <2>6 DEF Next, Ordered, ReleaseInv
  <1>4. CASE crossed'
    BY <1>1, <1>4 DEF ReleaseInv
  <1> QED BY <1>2, <1>3, <1>4

\* Concurrent drains, repairs, rejoins and restarts never count on each other's
\* copies, except while a registration crosses another release.
THEOREM ReleasesCovered == Spec => []ReleaseInv
  <1>1. TypeOK /\ TypeOK' /\ ReleaseInv /\ [Next]_vars => ReleaseInv'
    BY NextReleaseInv
  <1> QED BY <1>1, InitReleaseInv, TypeCorrect, PTL DEF Spec
-----------------------------------------------------------------------------
(* What follows for the copies of a chunk. *)

\* A commit of a release leaves RF copies, unless releases cross.
LEMMA DropLeavesRF ==
  ASSUME TypeOK, ReleaseInv, ~crossed, NEW w \in Worker, Drop(w), chunk = "stored"
  PROVE  Cardinality(holders') >= RF
  <1>1. Covered(w) /\ holders' = holders \ {on[w]} /\ holders' \subseteq Node
    BY DEF Drop, ReleaseInv, InOrder, DropCovered, TypeOK, Registered
  <1>2. CASE kind[w] = "drain"
    <2>1. on[w] \in seenDraining[w]
      BY <1>2 DEF ReleaseInv, InOrder, MarkedBeforeRead, Reading, Drop
    <2>2. holders \ seenDraining[w] \subseteq holders'
      BY <2>1, <1>1
    <2> QED BY <2>2, <1>1, <1>2, Enough DEF Covered
  <1>3. CASE kind[w] # "drain"
    BY <1>1, <1>3 DEF Covered
  <1> QED BY <1>2, <1>3

\* Every step creates, deletes, adds a copy, gives one up that is covered or
\* while releases cross, or leaves chunk and holders alone.
LEMMA StepOfTheTable ==
  ASSUME TypeOK, TypeOK', ReleaseInv, [Next]_vars
  PROVE  Promise!Next
  <1> USE DEF nodeVars, workVars
  <1>1. CASE FileStep
    <2>1. ASSUME NEW S \in SUBSET Node, CreateFile(S) PROVE Promise!Store
      BY <2>1 DEF CreateFile, Promise!Store, AtLeast
    <2>2. ASSUME DeleteFile PROVE Promise!Remove
      BY <2>2 DEF DeleteFile, Promise!Remove
    <2> QED BY <1>1, <2>1, <2>2 DEF FileStep, Promise!Next, TypeOK
  <1>2. ASSUME NEW w \in Worker, NEW n \in Node, Copy(w, n)
        PROVE  Promise!Add \/ Promise!Cross
    BY <1>2 DEF Copy, Promise!Add, Promise!Cross
  <1>3. ASSUME NEW w \in Worker, Drop(w)
        PROVE  Promise!GiveUp \/ Promise!Cross
    <2>1. CASE chunk = "stored" /\ on[w] \in holders
      BY <1>3, <2>1, DropLeavesRF
         DEF Drop, Promise!GiveUp, AtLeast, TypeOK, Registered
    <2>2. CASE chunk # "stored" \/ on[w] \notin holders
      BY <1>3, <2>2 DEF Drop, TypeOK, Promise!Cross
    <2> QED BY <2>1, <2>2
  <1>4. CASE (\E n \in Node : NodeStep(n)) \/ Restart \/ UNCHANGED vars
    BY <1>4 DEF NodeStep, RegisterNew, Heartbeat, Lapse, Restart, vars,
       Promise!Next, Promise!Cross, TypeOK
  <1>5. ASSUME NEW w \in Worker,
               RepairStep(w) \/ DrainStep(w) \/ ReleaseStep(w),
               ~Drop(w), \A n \in Node : ~Copy(w, n)
        PROVE  Promise!Cross
    BY <1>5 DEF RepairStep, DrainStep, ReleaseStep, StartRepair, EndRepair,
                CopyFails, MarkDraining, PlanForDrain, AnswerDrain, Rejoin,
                ReadStates, DecideDrop, DecideKeep, Promise!Cross
  <1> QED BY <1>1, <1>2, <1>3, <1>4, <1>5 DEF Next, Promise!Next, TypeOK

\* The coordinator keeps the promise of DurablePlacement: a chunk starts with
\* a quorum of copies and gives one up only while RF others stay, or while
\* the registration of a node crosses another release.
THEOREM PromiseKept == Spec => KeepsPromise
  <1>1. Init => Promise!Init
    BY DEF Init, Promise!Init
  <1>2. TypeOK /\ TypeOK' /\ ReleaseInv /\ [Next]_vars
        => [Promise!Next]_Promise!vars
    BY StepOfTheTable DEF Promise!vars
  <1> QED BY <1>1, <1>2, TypeCorrect, ReleasesCovered, PTL
         DEF Spec, KeepsPromise, Promise!Spec
-----------------------------------------------------------------------------
(* How far crossing releases can take a chunk. *)

\* Releases that have decided and not committed yet.  As long as there have
\* been none the quorum of the upload is there; each of them finds RF copies
\* besides its own, and takes one.
Pending == {w \in Worker : at[w] = "drop"}
Floor == chunk = "stored" =>
            \/ Pending = {} /\ Cardinality(holders) >= W
            \/ Cardinality(holders) + Cardinality(Worker)
                   >= RF + 1 + Cardinality(Pending)

LEMMA Counts ==
  ASSUME TypeOK
  PROVE  /\ IsFiniteSet(holders) /\ Cardinality(holders) \in Nat
         /\ IsFiniteSet(Pending) /\ Cardinality(Pending) \in Nat
         /\ Cardinality(Worker) \in Nat
         /\ Cardinality(Pending) <= Cardinality(Worker)
  <1>1. holders \subseteq Node /\ Pending \subseteq Worker
    BY DEF TypeOK, Registered, Pending
  <1> QED BY <1>1, NodeAssumption, WorkerAssumption, FS_Subset, FS_CardinalityType

LEMMA CountsAfter ==
  ASSUME TypeOK'
  PROVE  /\ IsFiniteSet(holders') /\ Cardinality(holders') \in Nat
         /\ IsFiniteSet(Pending') /\ Cardinality(Pending') \in Nat
         /\ Cardinality(Worker) \in Nat
         /\ Cardinality(Pending') <= Cardinality(Worker)
  <1>1. holders' \subseteq Node /\ Pending' \subseteq Worker
    BY DEF TypeOK, Registered, Pending
  <1> QED BY <1>1, NodeAssumption, WorkerAssumption, FS_Subset, FS_CardinalityType

\* Without a decision or a commit the floor stays.
LEMMA FloorStays ==
  ASSUME TypeOK, TypeOK', Floor, chunk' = chunk, holders \subseteq holders',
         Pending' \subseteq Pending
  PROVE  Floor'
  <1>1. /\ IsFiniteSet(holders') /\ IsFiniteSet(Pending)
        /\ Cardinality(holders) \in Nat /\ Cardinality(holders') \in Nat
        /\ Cardinality(Pending) \in Nat /\ Cardinality(Pending') \in Nat
        /\ Cardinality(Worker) \in Nat
    BY Counts, CountsAfter
  <1>2. /\ Cardinality(holders) <= Cardinality(holders')
        /\ Cardinality(Pending') <= Cardinality(Pending)
    BY <1>1, FS_Subset
  <1> QED BY <1>1, <1>2, ReplicationAssumption DEF Floor

\* A release that decides finds RF copies besides its own.
LEMMA DecideFloor ==
  ASSUME TypeOK, TypeOK', NEW w \in Worker, DecideDrop(w)
  PROVE  Floor'
  <1> DEFINE Others == holders \ {on[w]}
  <1>1. /\ OtherPermanent(w) \subseteq Others /\ Others \subseteq Node
        /\ on[w] \in holders /\ holders' = holders
        /\ Cardinality(OtherPermanent(w)) >= RF
    BY DEF OtherPermanent, DecideDrop, TypeOK, Registered
  <1>2. Cardinality(Others) >= RF
    BY <1>1, Enough
  <1>3. Cardinality(Others) = Cardinality(holders) - 1
    BY <1>1, Counts, FS_RemoveElement
  <1>4. Cardinality(holders') >= RF + 1
    BY <1>1, <1>2, <1>3, Counts, ReplicationAssumption
  <1> QED BY <1>4, CountsAfter, ReplicationAssumption DEF Floor

\* A commit takes one copy and is one release less to come.
LEMMA DropFloor ==
  ASSUME TypeOK, TypeOK', Floor, NEW w \in Worker, Drop(w)
  PROVE  Floor'
  <1>1. /\ w \in Pending /\ Pending' = Pending \ {w}
        /\ holders' = holders \ {on[w]} /\ chunk' = chunk
    BY DEF Drop, AfterRelease, Goto, Finish, Pending, TypeOK
  <1>2. Cardinality(Pending') = Cardinality(Pending) - 1
    BY <1>1, Counts, FS_RemoveElement
  <1>3. Cardinality(holders') >= Cardinality(holders) - 1
    <2>1. CASE on[w] \in holders
      <3>1. Cardinality(holders \ {on[w]}) = Cardinality(holders) - 1
        BY <2>1, Counts, FS_RemoveElement
      <3> QED BY <3>1, <1>1, Counts
    <2>2. CASE on[w] \notin holders
      <3>1. holders' = holders
        BY <1>1, <2>2
      <3> QED BY <3>1, Counts
    <2> QED BY <2>1, <2>2
  <1>4. Pending # {}
    BY <1>1
  <1> QED BY <1>1, <1>2, <1>3, <1>4, Counts, CountsAfter, ReplicationAssumption DEF Floor

LEMMA NextFloor ==
  TypeOK /\ TypeOK' /\ ReleaseInv /\ Floor /\ [Next]_vars => Floor'
  <1> SUFFICES ASSUME TypeOK, TypeOK', ReleaseInv, Floor, [Next]_vars
               PROVE  Floor'
    OBVIOUS
  <1>1. CASE FileStep
    <2>1. ASSUME NEW S \in SUBSET Node, CreateFile(S) PROVE Floor'
      BY <2>1 DEF CreateFile, Floor, Pending, ReleaseInv, DropAfterStore, workVars
    <2>2. CASE DeleteFile
      BY <2>2 DEF DeleteFile, Floor
    <2> QED BY <1>1, <2>1, <2>2 DEF FileStep
  <1>2. CASE (\E n \in Node : NodeStep(n)) \/ Restart \/ UNCHANGED vars
    <2>1. UNCHANGED <<chunk, holders>> /\ Pending' \subseteq Pending
      BY <1>2 DEF NodeStep, RegisterNew, Heartbeat, Lapse, Restart, vars, workVars,
         Pending
    <2> QED BY <2>1, FloorStays
  <1>3. ASSUME NEW w \in Worker, RepairStep(w) \/ DrainStep(w) PROVE Floor'
    <2>1. /\ chunk' = chunk /\ holders \subseteq holders' /\ at'[w] # "drop"
          /\ \A v \in Worker \ {w} : at'[v] = at[v]
      BY <1>3 DEF RepairStep, DrainStep, StartRepair, EndRepair, Copy, CopyFails,
         MarkDraining, PlanForDrain, AnswerDrain, Begin, Finish, Goto, TypeOK
    <2>2. Pending' \subseteq Pending
      BY <2>1 DEF Pending
    <2> QED BY <2>1, <2>2, FloorStays
  <1>4. ASSUME NEW w \in Worker, ReleaseStep(w), ~DecideDrop(w), ~Drop(w)
        PROVE  Floor'
    <2>1. /\ chunk' = chunk /\ holders' = holders /\ at'[w] # "drop"
          /\ \A v \in Worker \ {w} : at'[v] = at[v]
      BY <1>4 DEF ReleaseStep, Rejoin, ReadStates, DecideKeep, AfterRelease, Begin,
         Finish, Goto, TypeOK
    <2>2. Pending' \subseteq Pending
      BY <2>1 DEF Pending
    <2> QED BY <2>1, <2>2, FloorStays
  <1> QED BY <1>1, <1>2, <1>3, <1>4, DecideFloor, DropFloor DEF Next

\* However many registrations and drains cross, T threads take a chunk no
\* lower than RF + 1 - T copies, or leave it its write quorum.
THEOREM QuorumKept == Spec => []QuorumFloor
  <1>1. Init => Floor
    BY DEF Init, Floor
  <1>2. TypeOK /\ TypeOK' /\ ReleaseInv /\ Floor /\ [Next]_vars => Floor'
    BY NextFloor
  <1>3. TypeOK /\ Floor => QuorumFloor
    BY Counts, ReplicationAssumption DEF Floor, QuorumFloor
  <1> QED BY <1>1, <1>2, <1>3, TypeCorrect, ReleasesCovered, PTL DEF Spec
=============================================================================
