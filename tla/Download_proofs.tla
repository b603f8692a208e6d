--------------------------- MODULE Download_proofs ---------------------------
(***************************************************************************)
(* A download of any number of chunks by any number of workers writes the   *)
(* beginning of the file, nothing after the end of the transfer, and closes *)
(* the save target only behind the whole file.                              *)
(*                                                                         *)
(* The argument: while no worker has failed, every chunk that was taken is  *)
(* written, waits in pending, is being written, or is in the hands of a     *)
(* worker; and when nobody flushes, the next chunk to write does not wait.  *)
(* A worker that is done found no chunk to take.  So when all are done,     *)
(* nothing can be missing.                                                  *)
(***************************************************************************)
EXTENDS Download, TLAPS

\* Where a chunk that was taken may be.
InHands(i) ==
    \E w \in Worker : at[w] \in {"fetch", "decrypt"} /\ index[w] = i
Writing == \E w \in Worker : at[w] = "write"
Accounted(i) ==
    i < nextToWrite \/ i \in pending \/ (Writing /\ i = nextToWrite) \/ InHands(i)

\* The inductive invariant: the type invariant in three parts, the length of
\* the file, when workers work, and where the chunks are.
Types == /\ phase \in {"key", "detail", "transfer", "over"}
         /\ sink \in {"open", "closed", "aborted"}
         /\ file \in Seq(Chunks) /\ Len(file) <= nextToWrite
         /\ at \in [Worker ->
                       {"idle", "take", "fetch", "decrypt", "write", "done"}]
         /\ index \in [Worker -> Chunks] /\ left \in [Worker -> 0..Replicas]
         /\ pending \subseteq Chunks
         /\ nextIndex \in 0..N /\ nextToWrite \in 0..N
Flags == flushing \in BOOLEAN /\ failed \in BOOLEAN
Writer == /\ flushing <=> Writing
          /\ \A v, w \in Worker : at[v] = "write" /\ at[w] = "write" => v = w
Lengths == /\ Len(file) = nextToWrite /\ OutputIsPrefix
           /\ Writing => nextToWrite \in Chunks
Phases == /\ phase \in {"key", "detail"} => \A w \in Worker : at[w] = "idle"
          /\ phase \in {"key", "detail"} => sink = "open" /\ nextIndex = 0
          /\ phase = "transfer" => sink = "open"
          /\ phase = "over" => \A w \in Worker : at[w] \in {"idle", "done"}
NoneMissing ==
    ~failed => /\ \A i \in Chunks : i < nextIndex => Accounted(i)
               /\ ~Writing => nextToWrite \notin pending
               /\ \A w \in Worker : at[w] = "done" => nextIndex = N
Inv == /\ Types /\ Flags /\ Writer /\ Lengths /\ Phases /\ NoneMissing
       /\ ClosedIsComplete

LEMMA TypesAreOK == TypeOK <=> Types /\ Flags /\ Writer
BY DEF TypeOK, Types, Flags, Writer, Writing

LEMMA InitInv == Init => Inv
<1> SUFFICES ASSUME Init PROVE Inv
  OBVIOUS
<1> USE DownloadAssumption DEF Chunks, Init
<1>1. file \in Seq(Chunks) /\ Len(file) = 0
  OBVIOUS
<1>2. Types
  BY <1>1 DEF Types
<1>3. Flags
  BY Zenon DEF Flags
<1>4. Writer
  BY DEF Writer, Writing
<1>5. Lengths /\ Phases /\ ClosedIsComplete
  BY <1>1 DEF Lengths, Writing, Phases, ClosedIsComplete, OutputIsPrefix
<1>6. NoneMissing
  BY DEF NoneMissing, Writing, Accounted, InHands
<1> QED BY <1>2, <1>3, <1>4, <1>5, <1>6 DEF Inv

LEMMA HaveKeyInv == ASSUME Inv, HaveKey PROVE Inv'
<1> USE DownloadAssumption DEF Inv, Chunks, HaveKey, workVars, flushVars
<1>1. Types'
  BY DEF Types, Phases, Lengths
<1>2. Flags'
  BY Zenon DEF Flags, Types
<1>3. Writer'
  BY DEF Writer, Writing, Types, Phases
<1>4. Lengths'
  BY DEF Lengths, Writing, OutputIsPrefix, Types
<1>5. Phases'
  BY DEF Phases, Types
<1>6. NoneMissing'
  BY DEF NoneMissing, Writing, Accounted, InHands, Phases, Types, Writer, Lengths
<1>7. ClosedIsComplete'
  BY DEF ClosedIsComplete, Phases, Types
<1> QED BY <1>1, <1>2, <1>3, <1>4, <1>5, <1>6, <1>7

LEMMA NoKeyInv == ASSUME Inv, NoKey PROVE Inv'
<1> USE DownloadAssumption DEF Inv, Chunks, NoKey, workVars, flushVars
<1>1. Types'
  BY DEF Types, Phases, Lengths
<1>2. Flags'
  BY Zenon DEF Flags, Types
<1>3. Writer'
  BY DEF Writer, Writing, Types, Phases
<1>4. Lengths'
  BY DEF Lengths, Writing, OutputIsPrefix, Types
<1>5. Phases'
  BY DEF Phases, Types
<1>6. NoneMissing'
  BY DEF NoneMissing, Writing, Accounted, InHands, Phases, Types, Writer, Lengths
<1>7. ClosedIsComplete'
  BY DEF ClosedIsComplete, Phases, Types
<1> QED BY <1>1, <1>2, <1>3, <1>4, <1>5, <1>6, <1>7

LEMMA HaveDetailInv == ASSUME Inv, HaveDetail PROVE Inv'
<1> USE DownloadAssumption DEF Inv, Chunks, HaveDetail, workVars, flushVars
<1>1. Types'
  BY DEF Types, Phases, Lengths
<1>2. Flags'
  BY Zenon DEF Flags, Types
<1>3. Writer'
  BY DEF Writer, Writing, Types, Phases
<1>4. Lengths'
  BY DEF Lengths, Writing, OutputIsPrefix, Types
<1>5. Phases'
  BY DEF Phases, Types
<1>6. NoneMissing'
  BY DEF NoneMissing, Writing, Accounted, InHands, Phases, Types, Writer, Lengths
<1>7. ClosedIsComplete'
  BY DEF ClosedIsComplete, Phases, Types
<1> QED BY <1>1, <1>2, <1>3, <1>4, <1>5, <1>6, <1>7

LEMMA StaleDetailInv == ASSUME Inv, StaleDetail PROVE Inv'
<1> USE DownloadAssumption DEF Inv, Chunks, StaleDetail, workVars, flushVars
<1>1. Types'
  BY DEF Types, Phases, Lengths
<1>2. Flags'
  BY Zenon DEF Flags, Types
<1>3. Writer'
  BY DEF Writer, Writing, Types, Phases
<1>4. Lengths'
  BY DEF Lengths, Writing, OutputIsPrefix, Types
<1>5. Phases'
  BY DEF Phases, Types
<1>6. NoneMissing'
  BY DEF NoneMissing, Writing, Accounted, InHands, Phases, Types, Writer, Lengths
<1>7. ClosedIsComplete'
  BY DEF ClosedIsComplete, Phases, Types
<1> QED BY <1>1, <1>2, <1>3, <1>4, <1>5, <1>6, <1>7

LEMMA DetailRejectedInv == ASSUME Inv, DetailRejected PROVE Inv'
<1> USE DownloadAssumption DEF Inv, Chunks, DetailRejected, workVars, flushVars
<1>1. Types'
  BY DEF Types, Phases, Lengths
<1>2. Flags'
  BY Zenon DEF Flags, Types
<1>3. Writer'
  BY DEF Writer, Writing, Types, Phases
<1>4. Lengths'
  BY DEF Lengths, Writing, OutputIsPrefix, Types
<1>5. Phases'
  BY DEF Phases, Types
<1>6. NoneMissing'
  BY DEF NoneMissing, Writing, Accounted, InHands, Phases, Types, Writer, Lengths
<1>7. ClosedIsComplete'
  BY DEF ClosedIsComplete, Phases, Types
<1> QED BY <1>1, <1>2, <1>3, <1>4, <1>5, <1>6, <1>7

LEMMA TakeInv == ASSUME NEW w \in Worker, Inv, Take(w) PROVE Inv'
<1> USE DownloadAssumption DEF Inv, Chunks, Take, workVars, flushVars
<1>1. Types'
  BY DEF Types, Phases, Lengths
<1>2. Flags'
  BY Zenon DEF Flags, Types
<1>3. Writer'
  BY DEF Writer, Writing, Types, Phases
<1>4. Lengths'
  BY DEF Lengths, Writing, OutputIsPrefix, Types
<1>5. Phases'
  BY DEF Phases, Types
<1>6. NoneMissing'
  BY DEF NoneMissing, Writing, Accounted, InHands, Phases, Types, Writer, Lengths
<1>7. ClosedIsComplete'
  BY DEF ClosedIsComplete, Phases, Types
<1> QED BY <1>1, <1>2, <1>3, <1>4, <1>5, <1>6, <1>7

LEMMA TakeNoneInv == ASSUME NEW w \in Worker, Inv, TakeNone(w) PROVE Inv'
<1> USE DownloadAssumption DEF Inv, Chunks, TakeNone, workVars, flushVars
<1>1. Types'
  BY DEF Types, Phases, Lengths
<1>2. Flags'
  BY Zenon DEF Flags, Types
<1>3. Writer'
  BY DEF Writer, Writing, Types, Phases
<1>4. Lengths'
  BY DEF Lengths, Writing, OutputIsPrefix, Types
<1>5. Phases'
  BY DEF Phases, Types
<1>6. NoneMissing'
  <2> SUFFICES ASSUME ~failed PROVE NoneMissing'
    BY Zenon DEF NoneMissing
  <2>1. nextIndex = N
    BY DEF Types
  <2>2. Writing' = Writing /\ \A i \in Chunks : InHands(i)' = InHands(i)
    BY DEF Writing, InHands, Types
  <2> QED BY <2>1, <2>2 DEF NoneMissing, Accounted, Types
<1>7. ClosedIsComplete'
  BY DEF ClosedIsComplete, Phases, Types
<1> QED BY <1>1, <1>2, <1>3, <1>4, <1>5, <1>6, <1>7

LEMMA MissInv == ASSUME NEW w \in Worker, Inv, Miss(w) PROVE Inv'
<1> USE DownloadAssumption DEF Inv, Chunks, Miss, workVars, flushVars
<1>1. Types'
  BY DEF Types, Phases, Lengths
<1>2. Flags'
  BY Zenon DEF Flags, Types
<1>3. Writer'
  BY DEF Writer, Writing, Types, Phases
<1>4. Lengths'
  BY DEF Lengths, Writing, OutputIsPrefix, Types
<1>5. Phases'
  BY DEF Phases, Types
<1>6. NoneMissing'
  BY DEF NoneMissing, Writing, Accounted, InHands, Phases, Types, Writer, Lengths
<1>7. ClosedIsComplete'
  BY DEF ClosedIsComplete, Phases, Types
<1> QED BY <1>1, <1>2, <1>3, <1>4, <1>5, <1>6, <1>7

LEMMA UnavailableInv == ASSUME NEW w \in Worker, Inv, Unavailable(w) PROVE Inv'
<1> USE DownloadAssumption DEF Inv, Chunks, Unavailable, Fail, workVars, flushVars
<1>1. Types'
  BY DEF Types, Phases, Lengths
<1>2. Flags'
  BY Zenon DEF Flags, Types
<1>3. Writer'
  BY DEF Writer, Writing, Types, Phases
<1>4. Lengths'
  BY DEF Lengths, Writing, OutputIsPrefix, Types
<1>5. Phases'
  BY DEF Phases, Types
<1>6. NoneMissing'
  BY DEF NoneMissing, Writing, Accounted, InHands, Phases, Types, Writer, Lengths
<1>7. ClosedIsComplete'
  BY DEF ClosedIsComplete, Phases, Types
<1> QED BY <1>1, <1>2, <1>3, <1>4, <1>5, <1>6, <1>7

LEMMA FetchedInv == ASSUME NEW w \in Worker, Inv, Fetched(w) PROVE Inv'
<1> USE DownloadAssumption DEF Inv, Chunks, Fetched, workVars, flushVars
<1>1. Types'
  BY DEF Types, Phases, Lengths
<1>2. Flags'
  BY Zenon DEF Flags, Types
<1>3. Writer'
  BY DEF Writer, Writing, Types, Phases
<1>4. Lengths'
  BY DEF Lengths, Writing, OutputIsPrefix, Types
<1>5. Phases'
  BY DEF Phases, Types
<1>6. NoneMissing'
  BY DEF NoneMissing, Writing, Accounted, InHands, Phases, Types, Writer, Lengths
<1>7. ClosedIsComplete'
  BY DEF ClosedIsComplete, Phases, Types
<1> QED BY <1>1, <1>2, <1>3, <1>4, <1>5, <1>6, <1>7

LEMMA DecryptFailsInv == ASSUME NEW w \in Worker, Inv, DecryptFails(w) PROVE Inv'
<1> USE DownloadAssumption DEF Inv, Chunks, DecryptFails, Fail, workVars, flushVars
<1>1. Types'
  BY DEF Types, Phases, Lengths
<1>2. Flags'
  BY Zenon DEF Flags, Types
<1>3. Writer'
  BY DEF Writer, Writing, Types, Phases
<1>4. Lengths'
  BY DEF Lengths, Writing, OutputIsPrefix, Types
<1>5. Phases'
  BY DEF Phases, Types
<1>6. NoneMissing'
  BY DEF NoneMissing, Writing, Accounted, InHands, Phases, Types, Writer, Lengths
<1>7. ClosedIsComplete'
  BY DEF ClosedIsComplete, Phases, Types
<1> QED BY <1>1, <1>2, <1>3, <1>4, <1>5, <1>6, <1>7

LEMMA DecryptedInv == ASSUME NEW w \in Worker, Inv, Decrypted(w) PROVE Inv'
<1> USE DownloadAssumption DEF Inv, Chunks, Decrypted, FlushTurn, workVars, flushVars
<1>1. Types'
  <2>1. pending' = pending \cup {index[w]} \/ pending' \subseteq pending \cup {index[w]}
    OBVIOUS
  <2>2. nextToWrite' = nextToWrite
    OBVIOUS
  <2>3. at' = [at EXCEPT ![w] = "take"] \/ at' = [at EXCEPT ![w] = "write"]
    OBVIOUS
  <2>4. at' \in [Worker ->
                    {"idle", "take", "fetch", "decrypt", "write", "done"}]
    BY <2>3 DEF Types
  <2>5. pending' \subseteq Chunks
    BY <2>1 DEF Types
  <2> QED BY <2>2, <2>4, <2>5 DEF Types
<1>2. Flags'
  BY Zenon DEF Flags, Types
<1>3. Writer'
  BY DEF Writer, Writing, Types, Phases
<1>4. Lengths'
  BY DEF Lengths, Writing, OutputIsPrefix, Types
<1>5. Phases'
  BY DEF Phases, Types
<1>6. NoneMissing'
  <2> SUFFICES ASSUME ~failed PROVE NoneMissing'
    BY Zenon DEF NoneMissing
  <2>1. \A i \in Chunks : i < nextIndex => Accounted(i)
    BY DEF NoneMissing
  <2>2. \A i \in Chunks : Accounted(i) => Accounted(i)'
    <3> SUFFICES ASSUME NEW i \in Chunks, Accounted(i) PROVE Accounted(i)'
      OBVIOUS
    <3>1. CASE InHands(i) /\ i # index[w]
      BY <3>1 DEF Accounted, InHands, Types
    <3>2. CASE ~InHands(i) \/ i = index[w]
      <4>1. i < nextToWrite \/ i \in pending \cup {index[w]} \/ (Writing /\ i = nextToWrite)
        BY <3>2 DEF Accounted
      <4>2. CASE Writing
        BY <4>1, <4>2 DEF Accounted, Writing, Writer, Types
      <4>3. CASE ~Writing
        BY <4>1, <4>3 DEF Accounted, Writing, Writer, Types
      <4> QED BY <4>2, <4>3
    <3> QED BY <3>1, <3>2
  <2>3. ~Writing' => (nextToWrite \notin pending)'
    BY DEF Writing, Writer, Types
  <2>4. \A v \in Worker : at'[v] = "done" => nextIndex = N
    BY DEF NoneMissing, Types
  <2> QED BY <2>1, <2>2, <2>3, <2>4 DEF NoneMissing, Types
<1>7. ClosedIsComplete'
  BY DEF ClosedIsComplete, Phases, Types
<1> QED BY <1>1, <1>2, <1>3, <1>4, <1>5, <1>6, <1>7

LEMMA WrittenInv == ASSUME NEW w \in Worker, Inv, Written(w) PROVE Inv'
<1> USE DownloadAssumption DEF Inv, Chunks, Written, FlushTurn, workVars, flushVars
<1>0. nextToWrite \in Chunks /\ Writing /\ \A v \in Worker : at[v] = "write" => v = w
  BY DEF Writing, Writer, Lengths
<1>1. Types'
  <2>1. file' \in Seq(Chunks) /\ Len(file') = nextToWrite + 1
    BY <1>0 DEF Types, Lengths
  <2>2. pending' \subseteq pending /\ nextToWrite' = nextToWrite + 1
    OBVIOUS
  <2>3. at' = [at EXCEPT ![w] = "take"] \/ at' = [at EXCEPT ![w] = "write"]
    OBVIOUS
  <2>4. at' \in [Worker ->
                    {"idle", "take", "fetch", "decrypt", "write", "done"}]
    BY <2>3 DEF Types
  <2>5. pending' \subseteq Chunks /\ nextToWrite' \in 0..N
    BY <1>0, <2>2 DEF Types
  <2> QED BY <2>1, <2>2, <2>4, <2>5 DEF Types
<1>2. Flags'
  BY Zenon DEF Flags, Types
<1>3. Writer'
  BY DEF Writer, Writing, Types, Phases
<1>4. Lengths'
  <2>1. Len(file') = nextToWrite' /\ OutputIsPrefix'
    <3>1. /\ Len(file') = nextToWrite + 1
          /\ \A i \in 1..nextToWrite : file'[i] = file[i]
          /\ file'[nextToWrite + 1] = nextToWrite
      BY <1>0 DEF Types, Lengths
    <3>2. \A i \in 1..nextToWrite : file[i] = i - 1
      <4>1. DOMAIN file = 1..nextToWrite
        BY DEF Types, Lengths
      <4> QED BY <4>1 DEF Lengths, OutputIsPrefix
    <3>3. DOMAIN file' = 1..(nextToWrite + 1)
      BY <1>1, <3>1 DEF Types
    <3> QED BY <1>0, <3>1, <3>2, <3>3 DEF OutputIsPrefix
  <2>2. Writing' => nextToWrite' \in Chunks
    BY <1>0 DEF Writing, Types
  <2> QED BY <2>1, <2>2 DEF Lengths
<1>5. Phases'
  BY DEF Phases, Types
<1>6. NoneMissing'
  <2> SUFFICES ASSUME ~failed PROVE NoneMissing'
    BY Zenon DEF NoneMissing
  <2>1. \A i \in Chunks : i < nextIndex => Accounted(i)
    BY DEF NoneMissing
  <2>2. \A i \in Chunks : Accounted(i) => Accounted(i)'
    <3> SUFFICES ASSUME NEW i \in Chunks, Accounted(i) PROVE Accounted(i)'
      OBVIOUS
    <3>1. CASE InHands(i)
      BY <3>1 DEF Accounted, InHands, Types
    <3>2. CASE i < nextToWrite \/ i = nextToWrite
      BY <1>0, <3>2 DEF Accounted
    <3>3. CASE i \in pending
      BY <3>3 DEF Accounted, Writing, Types
    <3> QED BY <3>1, <3>2, <3>3 DEF Accounted
  <2>3. ~Writing' => (nextToWrite \notin pending)'
    BY DEF Writing, Types
  <2>4. \A v \in Worker : at'[v] = "done" => nextIndex = N
    BY DEF NoneMissing, Types
  <2> QED BY <2>1, <2>2, <2>3, <2>4 DEF NoneMissing, Types
<1>7. ClosedIsComplete'
  BY DEF ClosedIsComplete, Phases, Types
<1> QED BY <1>1, <1>2, <1>3, <1>4, <1>5, <1>6, <1>7

LEMMA WriteFailsInv == ASSUME NEW w \in Worker, Inv, WriteFails(w) PROVE Inv'
<1> USE DownloadAssumption DEF Inv, Chunks, WriteFails, Fail, workVars, flushVars
<1>1. Types'
  BY DEF Types, Phases, Lengths
<1>2. Flags'
  BY Zenon DEF Flags, Types
<1>3. Writer'
  BY DEF Writer, Writing, Types, Phases
<1>4. Lengths'
  BY DEF Lengths, Writing, OutputIsPrefix, Types
<1>5. Phases'
  BY DEF Phases, Types
<1>6. NoneMissing'
  BY DEF NoneMissing, Writing, Accounted, InHands, Phases, Types, Writer, Lengths
<1>7. ClosedIsComplete'
  BY DEF ClosedIsComplete, Phases, Types
<1> QED BY <1>1, <1>2, <1>3, <1>4, <1>5, <1>6, <1>7

LEMMA CloseInv == ASSUME Inv, Close PROVE Inv'
<1> USE DownloadAssumption DEF Inv, Chunks, Close, AllDone, workVars, flushVars
<1>1. Types'
  BY DEF Types, Phases, Lengths
<1>2. Flags'
  BY Zenon DEF Flags, Types
<1>3. Writer'
  BY DEF Writer, Writing, Types, Phases
<1>4. Lengths'
  BY DEF Lengths, Writing, OutputIsPrefix, Types
<1>5. Phases'
  BY DEF Phases, Types
<1>6. NoneMissing'
  BY DEF NoneMissing, Writing, Accounted, InHands, Phases, Types, Writer, Lengths
<1>7. ClosedIsComplete'
  <2>1. nextIndex = N /\ ~Writing /\ nextToWrite \notin pending
    BY DEF NoneMissing, Writing
  <2>2. ~(nextToWrite \in Chunks)
    <3> SUFFICES ASSUME nextToWrite \in Chunks PROVE FALSE
      OBVIOUS
    <3>1. Accounted(nextToWrite)
      BY <2>1 DEF NoneMissing
    <3>2. ~InHands(nextToWrite)
      BY DEF InHands
    <3> QED BY <2>1, <3>1, <3>2 DEF Accounted
  <2>3. nextToWrite = N
    BY <2>2 DEF Types
  <2> QED BY <2>3 DEF ClosedIsComplete, Lengths
<1> QED BY <1>1, <1>2, <1>3, <1>4, <1>5, <1>6, <1>7

LEMMA AbortInv == ASSUME Inv, Abort PROVE Inv'
<1> USE DownloadAssumption DEF Inv, Chunks, Abort, AllDone, workVars, flushVars
<1>1. Types'
  BY DEF Types, Phases, Lengths
<1>2. Flags'
  BY Zenon DEF Flags, Types
<1>3. Writer'
  BY DEF Writer, Writing, Types, Phases
<1>4. Lengths'
  BY DEF Lengths, Writing, OutputIsPrefix, Types
<1>5. Phases'
  BY DEF Phases, Types
<1>6. NoneMissing'
  BY DEF NoneMissing, Writing, Accounted, InHands, Phases, Types, Writer, Lengths
<1>7. ClosedIsComplete'
  BY DEF ClosedIsComplete, Phases, Types
<1> QED BY <1>1, <1>2, <1>3, <1>4, <1>5, <1>6, <1>7

LEMMA StepInv == Inv /\ [Next]_vars => Inv'
<1> SUFFICES ASSUME Inv, [Next]_vars PROVE Inv'
  OBVIOUS
<1>1. CASE Prepare
  BY <1>1, HaveKeyInv, NoKeyInv, HaveDetailInv, StaleDetailInv,
     DetailRejectedInv DEF Prepare
<1>2. CASE \E w \in Worker : Work(w)
  BY <1>2, TakeInv, TakeNoneInv, MissInv, UnavailableInv, FetchedInv,
     DecryptFailsInv, DecryptedInv, WrittenInv, WriteFailsInv DEF Work
<1>3. CASE End
  BY <1>3, CloseInv, AbortInv DEF End
<1>4. CASE UNCHANGED vars
  BY <1>4 DEF Inv, vars, workVars, flushVars, Types, Flags, Writer, Writing,
     Lengths, OutputIsPrefix, Phases, NoneMissing, Accounted, InHands,
     ClosedIsComplete
<1> QED BY <1>1, <1>2, <1>3, <1>4 DEF Next

LEMMA AlwaysInv == Spec => []Inv
BY InitInv, StepInv, PTL DEF Spec

\* Every reachable state of a download is well typed, and at most one worker
\* writes, exactly while the flag is set (download.ts flush).
THEOREM TypeCorrect == Spec => []TypeOK
<1>1. Inv => TypeOK
  BY TypesAreOK DEF Inv
<1> QED BY <1>1, AlwaysInv, PTL

\* Whatever order chunks arrive in, and whatever fails, what is written is the
\* beginning of the file (download.ts flush).
THEOREM PrefixWritten == Spec => []OutputIsPrefix
<1>1. Inv => OutputIsPrefix
  BY DEF Inv, Lengths
<1> QED BY <1>1, AlwaysInv, PTL

\* Workers that all ended without an error leave no chunk behind: the save
\* target is closed with the whole file in it (download.ts:121-123).
THEOREM ClosedWhole == Spec => []ClosedIsComplete
<1>1. Inv => ClosedIsComplete
  BY DEF Inv
<1> QED BY <1>1, AlwaysInv, PTL

\* Only a worker writes, and none is left when the target is closed or aborted
\* (FilesPage.tsx handleDownload).
THEOREM NothingWrittenLater == Spec => NothingAfterTheEnd
<1>1. Inv /\ [Next]_vars => [sink # "open" => file' = file]_vars
  <2> SUFFICES ASSUME Inv, Next, sink # "open" PROVE file' = file
    BY DEF vars
  <2>1. CASE Prepare
    BY <2>1 DEF Prepare, HaveKey, NoKey, HaveDetail, StaleDetail,
       DetailRejected, flushVars
  <2>2. CASE \E w \in Worker : Work(w)
    <3>1. \A w \in Worker : at[w] # "write"
      BY DEF Inv, Types, Phases
    <3> QED BY <2>2, <3>1 DEF Work, Take, TakeNone, Miss, Unavailable, Fetched,
               DecryptFails, Decrypted, Written, WriteFails, flushVars
  <2>3. CASE End
    BY <2>3 DEF End, Close, Abort, flushVars
  <2> QED BY <2>1, <2>2, <2>3 DEF Next
<1> QED BY <1>1, AlwaysInv, PTL DEF Spec, NothingAfterTheEnd
=============================================================================
