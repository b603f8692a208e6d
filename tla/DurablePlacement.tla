-------------------------- MODULE DurablePlacement --------------------------
(***************************************************************************)
(* What the coordinator promises about the copies of one chunk, whatever   *)
(* requests it serves at once: a chunk is first recorded with a write      *)
(* quorum of copies, a copy is only ever given up while a full replication *)
(* factor of copies stays behind, and the last copies go only with the     *)
(* file.  The second part has an exception, as long as the registration of *)
(* a node crosses another release.  PlacementTable is the coordinator that *)
(* has to keep this promise.                                               *)
(***************************************************************************)
CONSTANTS
    Node,       \* the storage nodes
    WriteSets,  \* sets of nodes that make a write durable: W nodes or more
    FullSets    \* sets of nodes that replicate a chunk fully: RF or more

VARIABLES
    chunk,      \* "none" before POST /files, then "stored", then "deleted"
    holders,    \* the nodes the coordinator says hold a copy
    crossed     \* a registration crosses another release

vars == <<chunk, holders, crossed>>

Init == chunk = "none" /\ holders = {} /\ crossed = FALSE

\* A file is recorded once a quorum of nodes acknowledged the chunk.
Store == chunk = "none" /\ chunk' = "stored" /\ holders' \in WriteSets

\* Repair adds copies, one at a time.
Add == /\ chunk = "stored"
       /\ \E n \in Node : holders' = holders \cup {n}
       /\ UNCHANGED chunk

\* A surplus copy goes only while a full set of others stays, or while
\* releases cross.
GiveUp == /\ chunk = "stored"
          /\ \E n \in holders : holders' = holders \ {n}
          /\ crossed \/ holders' \in FullSets
          /\ UNCHANGED chunk

\* Deleting the file deletes every copy.
Remove == chunk = "stored" /\ chunk' = "deleted" /\ holders' = {}

\* Releases come and go, and cross or do not.
Cross == UNCHANGED <<chunk, holders>>

Next == (Store \/ Add \/ GiveUp \/ Remove \/ Cross) /\ crossed' \in BOOLEAN

Spec == Init /\ [][Next]_vars
=============================================================================
