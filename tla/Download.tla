------------------------------ MODULE Download ------------------------------
(***************************************************************************)
(* One download in a browser tab (FilesPage.tsx handleDownload, and         *)
(* lib/download.ts): a few workers fetch the chunks of a file from their    *)
(* replicas, out of order, and flush them to the save target in order.      *)
(* The tab has one thread: a step runs from one await to the next, and the  *)
(* workers interleave at the awaits only.                                   *)
(*                                                                         *)
(* What is modelled of a chunk is its index.  The array of chunks comes     *)
(* from GET /files/{id} in sequence order, with indices 0..N-1 (files.py).  *)
(***************************************************************************)
EXTENDS Naturals, Sequences, FiniteSets

CONSTANTS
    Worker,    \* Math.min(concurrency, chunks.length) workers
    N,         \* chunks of the file
    Replicas   \* replicas that the file's details name for a chunk

ASSUME DownloadAssumption == /\ N \in Nat \ {0} /\ Replicas \in Nat
                             /\ IsFiniteSet(Worker) /\ Worker # {}

VARIABLES
    phase,       \* "key", "detail", "transfer", "over"
    sink,        \* the save target: "open", "closed" or "aborted"
    file,        \* what was written to it
    at,          \* what a worker awaits
    index,       \* the chunk it is at
    left,        \* replicas of that chunk it has not asked yet
    pending,     \* decrypted chunks that wait to be written
    nextIndex,   \* next chunk to fetch
    nextToWrite, \* next chunk to write
    flushing,    \* a worker is in flush()
    failed       \* firstError is set

workVars == <<at, index, left>>
flushVars == <<pending, nextToWrite, flushing, file>>
vars == <<phase, sink, workVars, flushVars, nextIndex, failed>>

Chunks == 0..(N - 1)

Init ==
    /\ phase = "key" /\ sink = "open" /\ file = <<>>
    /\ at = [w \in Worker |-> "idle"] /\ index = [w \in Worker |-> 0]
    /\ left = [w \in Worker |-> 0]
    /\ pending = {} /\ nextIndex = 0 /\ nextToWrite = 0
    /\ flushing = FALSE /\ failed = FALSE
-----------------------------------------------------------------------------
(* handleDownload, from the open save target to the first worker. *)

\* The derived key is there or it is not.
HaveKey ==
    /\ phase = "key" /\ phase' = "detail"
    /\ UNCHANGED <<sink, workVars, flushVars, nextIndex, failed>>

NoKey ==
    /\ phase = "key" /\ phase' = "over" /\ sink' = "aborted"
    /\ UNCHANGED <<workVars, flushVars, nextIndex, failed>>

HaveDetail ==
    /\ phase = "detail" /\ phase' = "transfer"
    /\ at' = [w \in Worker |-> "take"]
    /\ UNCHANGED <<sink, index, left, flushVars, nextIndex, failed>>

\* The cached details are those of another file: the download is refused.
StaleDetail ==
    /\ phase = "detail" /\ phase' = "over" /\ sink' = "aborted"
    /\ UNCHANGED <<workVars, flushVars, nextIndex, failed>>

\* GET /files/{id} is refused, or the coordinator does not answer.  Nothing
\* catches the error: the save target stays open.
DetailRejected ==
    /\ phase = "detail" /\ phase' = "over"
    /\ UNCHANGED <<sink, workVars, flushVars, nextIndex, failed>>
-----------------------------------------------------------------------------
(* A worker. *)

\* The worker's error ends it, and stops the others at their next chunk.
Fail(w) ==
    /\ failed' = TRUE
    /\ at' = [at EXCEPT ![w] = "done"]

TakeSame(w) ==
    /\ at[w] = "take" /\ ~failed /\ nextIndex < N
    /\ index' = [index EXCEPT ![w] = nextIndex]
    /\ left' = [left EXCEPT ![w] = Replicas]
    /\ at' = [at EXCEPT ![w] = "fetch"]
    /\ UNCHANGED <<phase, sink, flushVars, failed, nextIndex>>
Take(w) ==
    /\ at[w] = "take" /\ ~failed /\ nextIndex < N
    /\ nextIndex' = nextIndex + 1
    /\ index' = [index EXCEPT ![w] = nextIndex]
    /\ left' = [left EXCEPT ![w] = Replicas]
    /\ at' = [at EXCEPT ![w] = "fetch"]
    /\ UNCHANGED <<phase, sink, flushVars, failed>>

TakeNone(w) ==
    /\ at[w] = "take" /\ (failed \/ nextIndex >= N)
    /\ at' = [at EXCEPT ![w] = "done"]
    /\ UNCHANGED <<phase, sink, index, left, flushVars, nextIndex, failed>>

\* No answer within the timeout, an error, or bytes with the wrong hash: the
\* miss is reported, whether or not the report arrives, and the next is asked.
Miss(w) ==
    /\ at[w] = "fetch" /\ left[w] > 0
    /\ left' = [left EXCEPT ![w] = @ - 1]
    /\ UNCHANGED <<phase, sink, at, index, flushVars, nextIndex, failed>>

Unavailable(w) ==
    /\ at[w] = "fetch" /\ left[w] = 0
    /\ Fail(w)
    /\ UNCHANGED <<phase, sink, index, left, flushVars, nextIndex>>

\* The bytes have the hash of the chunk.
Fetched(w) ==
    /\ at[w] = "fetch" /\ left[w] > 0
    /\ at' = [at EXCEPT ![w] = "decrypt"]
    /\ UNCHANGED <<phase, sink, index, left, flushVars, nextIndex, failed>>

\* The key is not the one the chunk was encrypted with.
DecryptFails(w) ==
    /\ at[w] = "decrypt"
    /\ Fail(w)
    /\ UNCHANGED <<phase, sink, index, left, flushVars, nextIndex>>

\* One turn of the loop of flush() by its only runner, up to the next await.
FlushTurn(w, waiting, next) ==
    /\ IF next \in waiting
       THEN /\ pending' = waiting \ {next}
            /\ flushing' = TRUE
            /\ at' = [at EXCEPT ![w] = "write"]
       ELSE /\ pending' = waiting
            /\ flushing' = FALSE
            /\ at' = [at EXCEPT ![w] = "take"]
    /\ nextToWrite' = next

\* The chunk waits to be written; if no one is flushing, this worker does.
DecryptedUnguarded(w) ==
    /\ at[w] = "decrypt"
    /\ FlushTurn(w, pending \cup {index[w]}, nextToWrite)
    /\ UNCHANGED <<phase, sink, index, left, file, nextIndex, failed>>
Decrypted(w) ==
    /\ at[w] = "decrypt"
    /\ IF flushing
       THEN /\ pending' = pending \cup {index[w]}
            /\ at' = [at EXCEPT ![w] = "take"]
            /\ UNCHANGED <<flushing, nextToWrite>>
       ELSE FlushTurn(w, pending \cup {index[w]}, nextToWrite)
    /\ UNCHANGED <<phase, sink, index, left, file, nextIndex, failed>>

WrittenAndLeft(w) ==
    /\ at[w] = "write"
    /\ file' = Append(file, nextToWrite)
    /\ nextToWrite' = nextToWrite + 1 /\ flushing' = FALSE
    /\ at' = [at EXCEPT ![w] = "take"]
    /\ UNCHANGED <<phase, sink, index, left, pending, nextIndex, failed>>
Written(w) ==
    /\ at[w] = "write"
    /\ file' = Append(file, nextToWrite)
    /\ FlushTurn(w, pending, nextToWrite + 1)
    /\ UNCHANGED <<phase, sink, index, left, nextIndex, failed>>

\* The disk is full, say.  The chunk is lost, and no later one can be next.
WriteSkipped(w) ==
    /\ at[w] = "write"
    /\ flushing' = FALSE /\ nextToWrite' = nextToWrite + 1
    /\ Fail(w)
    /\ UNCHANGED <<phase, sink, index, left, pending, file, nextIndex>>
WriteFails(w) ==
    /\ at[w] = "write"
    /\ flushing' = FALSE
    /\ Fail(w)
    /\ UNCHANGED <<phase, sink, index, left, pending, nextToWrite, file,
                   nextIndex>>
-----------------------------------------------------------------------------
(* The end.  Promise.all waits for every worker: none of them rejects. *)

AllDone == \A w \in Worker : at[w] = "done"

Close ==
    /\ phase = "transfer" /\ AllDone /\ ~failed
    /\ phase' = "over" /\ sink' = "closed"
    /\ UNCHANGED <<workVars, flushVars, nextIndex, failed>>

\* A worker failed, or close() did.
AbortAtOnce ==
    /\ phase = "transfer" /\ (failed \/ AllDone)
    /\ phase' = "over" /\ sink' = "aborted"
    /\ UNCHANGED <<workVars, flushVars, nextIndex, failed>>
Abort ==
    /\ phase = "transfer" /\ AllDone
    /\ phase' = "over" /\ sink' = "aborted"
    /\ UNCHANGED <<workVars, flushVars, nextIndex, failed>>

Prepare == HaveKey \/ NoKey \/ HaveDetail \/ StaleDetail \/ DetailRejected

Work(w) ==
    \/ Take(w) \/ TakeNone(w) \/ Miss(w) \/ Unavailable(w) \/ Fetched(w)
    \/ DecryptFails(w) \/ Decrypted(w) \/ Written(w) \/ WriteFails(w)

End == Close \/ Abort

Next == Prepare \/ (\E w \in Worker : Work(w)) \/ End

Spec == Init /\ [][Next]_vars

\* Every fetch from a node has a timeout (CHUNK_FETCH_TIMEOUT_MS) and writes
\* settle; the report of a missing chunk has none (api.ts), so that for it this
\* says that the coordinator answers or the connection breaks.
FairSpec ==
    /\ Spec
    /\ \A w \in Worker : WF_vars(Work(w))
    /\ WF_vars(End)
-----------------------------------------------------------------------------
(* Properties. *)

TypeOK ==
    /\ phase \in {"key", "detail", "transfer", "over"}
    /\ sink \in {"open", "closed", "aborted"}
    /\ file \in Seq(Chunks) /\ Len(file) <= nextToWrite
    /\ at \in [Worker -> {"idle", "take", "fetch", "decrypt", "write", "done"}]
    /\ index \in [Worker -> Chunks] /\ left \in [Worker -> 0..Replicas]
    /\ pending \subseteq Chunks
    /\ nextIndex \in 0..N /\ nextToWrite \in 0..N
    /\ flushing \in BOOLEAN /\ failed \in BOOLEAN
    /\ flushing <=> \E w \in Worker : at[w] = "write"
    /\ \A v, w \in Worker : at[v] = "write" /\ at[w] = "write" => v = w

\* Whatever order chunks arrive in, and whatever fails, what is on disk is the
\* beginning of the file, each chunk once (download.ts flush).
OutputIsPrefix == \A i \in DOMAIN file : file[i] = i - 1

\* A save target is closed only with the whole file in it: no chunk is left in
\* pending by a worker that relied on another one to flush it (download.ts:83).
ClosedIsComplete == sink = "closed" => Len(file) = N

\* Nothing is written once the target is closed or aborted: the tail of the
\* transfer is over before handleDownload goes on (download.ts:121-123).
NothingAfterTheEnd == [][sink # "open" => file' = file]_vars

\* A transfer ends, with the save target closed or aborted (no fetch waits
\* for ever, every worker stops at the first error or behind the last chunk).
TransferEnds == phase = "transfer" ~> sink # "open"
=============================================================================
