----------------------------- MODULE ChunkStore -----------------------------
(***************************************************************************)
(* The chunk files of one storage node (backend/node/chunks.py).  Every    *)
(* PUT runs store_chunk in an OS thread of its own (app.py, to_thread): it *)
(* reads the file that may be there, measures the room, and only then      *)
(* opens the file, which truncates it, and writes.  Nothing excludes       *)
(* another PUT in between, be it of another chunk that competes for the    *)
(* room or of the same one (two repairs of a chunk at once), and nothing   *)
(* excludes a DELETE, which unlinks the file under a PUT that writes it.   *)
(*                                                                         *)
(* All chunks have one size.  The listing that measures the room is one    *)
(* step, and so are the last byte of a write and its answer.  All writers  *)
(* of a chunk write the same bytes, each from where it is: the one that    *)
(* opened the file last fills it for sure, one before it may have written  *)
(* what was cut off again.                                                 *)
(***************************************************************************)
EXTENDS Naturals, FiniteSets

CONSTANTS
    Chunk,       \* chunk hashes
    Thread,      \* threads that serve PUTs
    ChunkSize,
    Budget       \* capacity_budget_bytes

ASSUME StoreAssumption == /\ ChunkSize \in Nat \ {0} /\ Budget \in Nat
                          /\ IsFiniteSet(Chunk)
                          /\ IsFiniteSet(Thread) /\ Thread # {}

VARIABLES
    file,      \* what is on disk under a hash: "none", "part" or "whole"
    writing,   \* the chunk a thread works for, and how far it is
    acked,     \* chunks the node answered "stored" for, and was not told since
               \* to delete
    lapped,    \* history: chunks for which a request came while a PUT of the
               \* same chunk was under way, and which were not at rest since
    crowd      \* history: the most PUTs that wrote, or were about to, at once

storeVars == <<file, writing, acked, lapped, crowd>>

\* "behind": another thread has opened the file since.  "adrift": the file it
\* has open is not on disk any more.
NoWork == [at |-> "idle"]
Job == {NoWork} \cup [at : {"open", "write", "behind", "adrift"}, chunk : Chunk]

Idle(t) == writing[t].at = "idle"
Busy == {t \in Thread : ~Idle(t)}
On(t, c) == ~Idle(t) /\ writing[t].chunk = c
Free(c) == \A t \in Thread : ~On(t, c)

\* No PUT of c is under way, and there is nothing to lose or it is there.
AtRest(c) == Free(c) /\ (c \in acked => file[c] = "whole")
Lap(C) == lapped' = {c \in lapped \cup C : ~AtRest(c)'}
Overlapped(c) == IF Free(c) THEN {} ELSE {c}

\* What becomes of the threads that have the file of c open.
Moved(c, from, to) ==
    [t \in Thread |-> IF On(t, c) /\ writing[t].at \in from
                     THEN [at |-> to, chunk |-> c] ELSE writing[t]]

Whole == {c \in Chunk : file[c] = "whole"}

\* What files weigh at least: a truncated one may be empty.
Weight == ChunkSize * Cardinality(Whole)

\* remaining_bytes can be enough for one more chunk.
HasAnyRoom == Weight < Budget
HasRoom == Weight + ChunkSize <= Budget

\* The file is there, and its hash is right.
IsThere(c) == file[c] # "none"
Verifies(c) == file[c] = "whole"

StoreInit ==
    /\ file = [c \in Chunk |-> "none"]
    /\ writing = [t \in Thread |-> NoWork]
    /\ acked = {} /\ lapped = {} /\ crowd = 1
-----------------------------------------------------------------------------
\* The bytes that arrived have the right hash, or the PUT ends here.  A file
\* that verifies is left alone; otherwise there must be room.
StoreChunk(t, c) ==
    /\ Idle(t)
    /\ \/ /\ Verifies(c)
          /\ acked' = acked \cup {c}
          /\ UNCHANGED <<writing, crowd>>
       \/ /\ ~Verifies(c) /\ HasRoom
          /\ writing' = [writing EXCEPT ![t] = [at |-> "open", chunk |-> c]]
          /\ crowd' = IF Cardinality(Busy') > crowd THEN crowd + 1 ELSE crowd
          /\ UNCHANGED acked
    /\ UNCHANGED file
    /\ Lap(Overlapped(c))

\* write_bytes opens the file, and that truncates it, whatever has become of
\* it since this thread looked.
Open(t) ==
    /\ writing[t].at = "open"
    /\ LET c == writing[t].chunk
       IN /\ file' = [file EXCEPT ![c] = "part"]
          /\ writing' = [Moved(c, {"write"}, "behind")
                           EXCEPT ![t] = [at |-> "write", chunk |-> c]]
    /\ UNCHANGED <<acked, crowd>>
    /\ Lap({})

\* The last byte of this thread is written, and the PUT answered.
Write(t) ==
    /\ writing[t].at \in {"write", "behind", "adrift"}
    /\ LET c == writing[t].chunk
       IN /\ \E f \in CASE writing[t].at = "write" -> {"whole"}
                     [] writing[t].at = "behind" -> {file[c], "whole"}
                     [] writing[t].at = "adrift" -> {file[c]} :
                file' = [file EXCEPT ![c] = f]
          /\ acked' = acked \cup {c}
    /\ writing' = [writing EXCEPT ![t] = NoWork]
    /\ UNCHANGED crowd
    /\ Lap({})

\* The file cannot be opened, or the disk is full or broken half-way: the PUT
\* is answered with an error.
WriteFails(t) ==
    /\ ~Idle(t)
    /\ writing' = [writing EXCEPT ![t] = NoWork]
    /\ UNCHANGED <<file, acked, crowd>>
    /\ Lap({})

\* unlink takes the name away, from the threads that have the file open too.
DeleteChunk(c) ==
    /\ file' = [file EXCEPT ![c] = "none"]
    /\ writing' = Moved(c, {"write", "behind"}, "adrift")
    /\ acked' = acked \ {c}
    /\ UNCHANGED crowd
    /\ Lap(Overlapped(c))

\* The process is gone: files stay as they are.
StoreCrash ==
    /\ writing' = [t \in Thread |-> NoWork]
    /\ UNCHANGED <<file, acked, crowd>>
    /\ Lap({})
-----------------------------------------------------------------------------
StoreTypeOK ==
    /\ file \in [Chunk -> {"none", "part", "whole"}]
    /\ writing \in [Thread -> Job]
    /\ acked \subseteq Chunk /\ lapped \subseteq Chunk
    /\ crowd \in 1..Cardinality(Thread)

\* What the node answered "stored" for is on disk in full, through crashes and
\* failed writes: a truncated file they left is never taken for a stored chunk
\* (chunks.py:55-61).  This is so unless another request for the same chunk
\* overlapped: a PUT that looked before the chunk was there truncates it all
\* the same (chunks.py:67), and the bytes are gone if it then stops half-way;
\* a DELETE unlinks what a PUT writes, and the PUT is answered "stored".
AckedIsWhole == \A c \in acked \ lapped : file[c] = "whole"

\* The check against the budget comes before the write, so that PUTs at the
\* same time can exceed it: by no more than a chunk for each PUT that was under
\* way beside another, and not at all while they come one by one
\* (chunks.py:63-67).
BudgetBound == Weight <= Budget + ChunkSize * (crowd - 1)
=============================================================================
