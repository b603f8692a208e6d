---------------------------- MODULE NodeProcess ----------------------------
(***************************************************************************)
(* One storage node as a process, and its row at the coordinator: login    *)
(* and registration before it listens, the heartbeat loop, the drain       *)
(* request of a shutdown, the end of the loop, and a crash at any time     *)
(* (backend/node/__main__.py, app.py, heartbeat.py, registration.py).      *)
(*                                                                         *)
(* The event loop is one thread.  Heartbeats and PUTs run in threads       *)
(* beside it, and it takes up what they return when it is free; the drain  *)
(* request runs in the loop itself, which stands still until the answer or *)
(* the timeout of the HTTP client.                                         *)
(***************************************************************************)
EXTENDS ChunkStore

VARIABLES
    proc,        \* "off", "registered", "up", "drain", "closing" or "stop"
    beat,        \* the heartbeat loop: "wait", "sending", "returned", "ended"
    session,     \* the cookie of the login is still valid
    reach,       \* requests get through to the coordinator
    heard,       \* the row of the node has a recent heartbeat
    draining,    \* the flag in that row
    request      \* the drain request of the last shutdown

procVars == <<proc, beat, session, reach>>
rowVars == <<heard, draining, request>>
vars == <<storeVars, procVars, rowVars>>

Running == proc # "off"
LoopFree == proc \in {"registered", "up", "closing", "stop"}
StopSet == proc = "stop"

\* require_session lets a request of the node pass.
Admitted == reach /\ session

Init ==
    /\ StoreInit
    /\ proc = "off" /\ beat = "ended"
    /\ session = FALSE /\ reach = TRUE
    /\ heard = FALSE /\ draining = FALSE /\ request = "none"
-----------------------------------------------------------------------------
(* Start. *)

\* _apply_report: a node that registers has come back.  A drain request that
\* the coordinator has not begun to serve is not recalled.
RowRegistered ==
    /\ heard' = TRUE /\ draining' = FALSE
    /\ request' = IF request = "sent" THEN "sent" ELSE "none"

Start ==
    /\ proc = "off" /\ reach
    /\ proc' = "registered" /\ beat' = "wait" /\ session' = TRUE
    /\ RowRegistered
    /\ UNCHANGED <<storeVars, reach>>

\* The answer to the registration is lost: the process ends, the row stays.
StartFails ==
    /\ proc = "off" /\ reach
    /\ RowRegistered
    /\ UNCHANGED <<storeVars, procVars>>

Listen ==
    /\ proc = "registered"
    /\ proc' = "up"
    /\ UNCHANGED <<storeVars, beat, session, reach, rowVars>>
-----------------------------------------------------------------------------
(* The heartbeat loop. *)

\* The interval has passed, and stop is not set.
BeatDue ==
    /\ beat = "wait" /\ LoopFree /\ ~StopSet
    /\ beat' = "sending"
    /\ UNCHANGED <<storeVars, proc, session, reach, rowVars>>

\* POST /nodes/heartbeat from the thread: the coordinator notes the time and
\* leaves the flag as it is; without a session the answer is 401.
SendHeartbeatAsReport ==
    /\ beat = "sending"
    /\ heard' = (heard \/ Admitted)
    /\ draining' = (draining /\ ~Admitted)
    /\ beat' = "returned"
    /\ UNCHANGED <<storeVars, proc, session, reach, request>>
SendHeartbeatOnce ==
    /\ beat = "sending"
    /\ heard' = (heard \/ Admitted)
    /\ beat' = IF Admitted THEN "returned" ELSE "ended"
    /\ UNCHANGED <<storeVars, proc, session, reach, draining, request>>
SendHeartbeat ==
    /\ beat = "sending"
    /\ heard' = (heard \/ Admitted)
    /\ beat' = "returned"
    /\ UNCHANGED <<storeVars, proc, session, reach, draining, request>>

\* The loop goes on, whether the beat got through or not, until stop is set.
LoopTurns ==
    /\ beat = "returned" /\ LoopFree
    /\ beat' = IF StopSet THEN "ended" ELSE "wait"
    /\ UNCHANGED <<storeVars, proc, session, reach, rowVars>>

\* stop.wait() returns.
LoopStops ==
    /\ beat = "wait" /\ StopSet
    /\ beat' = "ended"
    /\ UNCHANGED <<storeVars, proc, session, reach, rowVars>>
-----------------------------------------------------------------------------
(* Shutdown. *)

\* A signal.  The drain request is sent from inside the event loop.
Shutdown ==
    /\ proc = "up"
    /\ proc' = "drain"
    /\ request' = IF Admitted THEN "sent" ELSE "refused"
    /\ UNCHANGED <<storeVars, beat, session, reach, heard, draining>>

\* POST /nodes/drain: the flag is committed first.  A request that waited in
\* the coordinator is served even when the node has given up on it.
MarkDraining ==
    /\ request = "sent"
    /\ request' = "marked" /\ draining' = TRUE
    /\ UNCHANGED <<storeVars, procVars, heard>>

\* Repair fetches the chunks of the node from the node, in vain as long as its
\* loop stands still, and the release DELETEs them there; then the answer.
AnswerDrain ==
    /\ request = "marked"
    /\ request' = "answered"
    /\ UNCHANGED <<storeVars, procVars, heard, draining>>

DrainReturns ==
    /\ proc = "drain" /\ request \in {"answered", "refused"}
    /\ proc' = "closing"
    /\ UNCHANGED <<storeVars, beat, session, reach, rowVars>>

\* The HTTP client waits five seconds.
DrainTimesOutWhenServed ==
    /\ proc = "drain" /\ request = "marked"
    /\ proc' = "closing"
    /\ UNCHANGED <<storeVars, beat, session, reach, rowVars>>
DrainTimesOut ==
    /\ proc = "drain" /\ request \in {"sent", "marked"}
    /\ proc' = "closing"
    /\ UNCHANGED <<storeVars, beat, session, reach, rowVars>>

\* uvicorn closes the sockets and waits for the requests under way; then the
\* lifespan goes on behind its yield, and sets stop.
CloseSocketsAtOnce ==
    /\ proc = "closing"
    /\ proc' = "stop"
    /\ UNCHANGED <<storeVars, beat, session, reach, rowVars>>
CloseSockets ==
    /\ proc = "closing" /\ \A t \in Thread : Idle(t)
    /\ proc' = "stop"
    /\ UNCHANGED <<storeVars, beat, session, reach, rowVars>>

\* The client is closed after the heartbeat task has returned.
CloseClient ==
    /\ proc = "stop" /\ beat = "ended"
    /\ proc' = "off"
    /\ UNCHANGED <<storeVars, beat, session, reach, rowVars>>

\* A heartbeat on its way may still be noted.
Crash ==
    /\ Running
    /\ StoreCrash
    /\ proc' = "off" /\ beat' = "ended"
    /\ heard' \in IF beat = "sending" /\ Admitted THEN {heard, TRUE}
                                                   ELSE {heard}
    /\ UNCHANGED <<session, reach, draining, request>>
-----------------------------------------------------------------------------
(* The world around it. *)

Connection ==
    /\ reach' = ~reach
    /\ UNCHANGED <<storeVars, proc, beat, session, rowVars>>

\* SESSION_LIFETIME after the login.
SessionExpires ==
    /\ Running /\ session
    /\ session' = FALSE
    /\ UNCHANGED <<storeVars, proc, beat, reach, rowVars>>

\* The last heartbeat is older than SUSPECT_THRESHOLD.
Lapse ==
    /\ heard
    /\ heard' = FALSE
    /\ UNCHANGED <<storeVars, procVars, draining, request>>

\* The owner drains the node from the dashboard, which shows a node that runs,
\* or that was heard from lately.
OperatorDrains ==
    /\ Running \/ heard
    /\ ~draining
    /\ draining' = TRUE
    /\ UNCHANGED <<storeVars, procVars, heard, request>>

\* Requests are taken up by the loop of a node that listens; the threads that
\* serve them are not stopped by it.
Served ==
    /\ proc = "up"
    /\ \/ \E t \in Thread, c \in Chunk : StoreChunk(t, c)
       \/ \E c \in Chunk : DeleteChunk(c)
ThreadSteps == \E t \in Thread : Open(t) \/ Write(t)
Store ==
    /\ \/ Served \/ ThreadSteps
       \/ \E t \in Thread : WriteFails(t)
    /\ UNCHANGED <<procVars, rowVars>>

Loop == Listen \/ BeatDue \/ LoopTurns \/ LoopStops
Next ==
    \/ Start \/ StartFails \/ Loop \/ SendHeartbeat
    \/ Shutdown \/ MarkDraining \/ AnswerDrain
    \/ DrainReturns \/ DrainTimesOut \/ CloseSockets \/ CloseClient
    \/ Crash \/ Connection \/ SessionExpires \/ Lapse \/ OperatorDrains
    \/ Store

Spec == Init /\ [][Next]_vars

\* The loop runs what can run, threads get on, and the HTTP client gives up in
\* the end.  Nobody need start or stop the node.
Fairness ==
    /\ WF_vars(Listen) /\ WF_vars(BeatDue) /\ WF_vars(SendHeartbeat)
    /\ WF_vars(LoopTurns) /\ WF_vars(LoopStops)
    /\ WF_vars(DrainReturns \/ DrainTimesOut)
    /\ WF_vars(CloseSockets) /\ WF_vars(CloseClient)
    /\ WF_vars(ThreadSteps /\ UNCHANGED <<procVars, rowVars>>)
FairSpec == Spec /\ Fairness
-----------------------------------------------------------------------------
TypeOK ==
    /\ StoreTypeOK
    /\ proc \in {"off", "registered", "up", "drain", "closing", "stop"}
    /\ beat \in {"wait", "sending", "returned", "ended"}
    /\ {session, reach, heard, draining} \subseteq BOOLEAN
    /\ request \in {"none", "sent", "marked", "answered", "refused"}
    /\ proc \in {"off", "stop"} => \A t \in Thread : Idle(t)

\* A node that has begun to leave stays DRAINING for placement and repair until
\* it registers again, whatever heartbeats of it come after (nodes.py:45, 238).
LeavingStaysMarked == request \in {"marked", "answered"} => draining

\* A shutdown comes to its end, although the coordinator waits for the node
\* while the node waits for the coordinator (__main__.py:15-20, app.py:43-51).
ShutdownEnds == proc = "drain" ~> proc = "off"

\* A node that listens, has a session and can reach the coordinator is heard
\* from again, however many beats failed before and however many PUTs it
\* serves (heartbeat.py:44-47, app.py:146-148).
HeardAgain == []<>(proc = "up" /\ reach /\ session => heard)

\* The same without the session: the coordinator knows that a node is alive by
\* its heartbeats (README.md:27-28).
KnownAlive == []<>(proc = "up" /\ reach => heard)
=============================================================================
