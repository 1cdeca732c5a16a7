--------------------------- MODULE LegacyServer ----------------------------
(***************************************************************************)
(* A legacy server of one root (deltaweave-net lib.rs): the v1 and v2      *)
(* handlers, which run one operation per connection, and the swarm         *)
(* handler, which runs one per stream, against pause, resume and shutdown. *)
(*                                                                         *)
(* Two tokio RwLocks count what runs: an admitted operation reads `active` *)
(* of OperationAdmission, a handler that must finish before the root is    *)
(* given up reads active_handlers.  Both are fair: nobody reads while a    *)
(* writer waits.  Which requests an operation serves is left out.          *)
(***************************************************************************)
EXTENDS FiniteSets, Naturals

CONSTANTS
    Direct, Swarm,  \* connections of the v1 and v2 protocols, and of the swarm
    Stream,         \* swarm streams
    Caller,         \* of pause and resume
    Nobody,
    Limit,          \* max_connections
    SwarmLimit,     \* SWARM_MAX_CONNECTIONS
    Inflight        \* SWARM_MAX_INFLIGHT

ASSUME LegacyAssumption ==
    /\ Direct \cap Swarm = {} /\ Nobody \notin Caller
    /\ IsFiniteSet(Direct \cup Swarm) /\ IsFiniteSet(Stream)
    /\ {Limit, SwarmLimit, Inflight} \subseteq Nat \ {0} /\ Inflight <= Cardinality(Stream)

Connection == Direct \cup Swarm

VARIABLES
    server,       \* "up" | "drain" | "join" | "down": shutdown and its waits
    paused, lifecycle,  \* OperationAdmission
    conn, stream, \* what each accepted connection and stream is doing
    asked,        \* calls of pause and resume under way
    quiet         \* history: a pause has returned and is in force

legacy == <<server, paused, lifecycle, conn, stream, asked, quiet>>
calls == <<lifecycle, asked>>

LegacyTypeOK ==
    /\ server \in {"up", "drain", "join", "down"} /\ paused \in BOOLEAN /\ quiet \in BOOLEAN
    /\ lifecycle \in Caller \cup {Nobody} /\ stream \in [Stream -> {"free", "serve"}]
    /\ conn \in [Connection -> {"free", "arrive", "retained", "admit", "check", "operate",
                                "closing", "leaving", "loop", "permit", "spawn"}]
    /\ asked \in [Caller -> {"idle", "pause", "drain", "resume"}]

Serving == {s \in Stream : stream[s] = "serve"}
ConnectionsAt(steps) == {c \in Connection : conn[c] \in steps}
Move(c, step) == conn' = [conn EXCEPT ![c] = step]

\* Mutant: the guard of a stream's operation stays with the accept loop.
ReadersOfLoop == ConnectionsAt({"check", "operate", "permit", "spawn"})

\* Who holds a read guard of OperationAdmission::active.
Readers == ConnectionsAt({"check", "operate", "permit", "spawn"}) \cup Serving

\* Who holds one of active_handlers.
Retained == ConnectionsAt({"retained", "admit", "operate", "closing"})
            \cup {c \in Direct : conn[c] = "check"} \cup Serving

\* Connections with a permit of connection_limit.
Permitted == ConnectionsAt({"admit", "check", "operate", "closing", "loop", "permit", "spawn"})

ServerInit ==
    /\ server = "up" /\ paused = FALSE /\ lifecycle = Nobody /\ quiet = FALSE
    /\ conn = [c \in Connection |-> "free"] /\ stream = [s \in Stream |-> "free"]
    /\ asked = [c \in Caller |-> "idle"]

-----------------------------------------------------------------------------
(* OperationAdmission::admit, in a handler of either kind. *)

outer == <<server, paused, calls, stream, quiet>>

\* The step at which a handler asks for admission, and what it does without it.
Asking(c) == IF c \in Direct THEN "admit" ELSE "loop"
WriterWaits == \E c \in Caller : asked[c] = "drain"

\* try_read_owned; a swarm connection has received a stream.
TryRead(c) ==
    /\ conn[c] = Asking(c)
    /\ IF WriterWaits
       THEN c \in Direct /\ Move(c, "leaving") \* a swarm stream is reset
       ELSE Move(c, "check")
    /\ UNCHANGED outer

\* The guard is held: now the flag is read.
CheckPaused(c) ==
    /\ conn[c] = "check"
    /\ Move(c, IF c \in Direct THEN IF paused THEN "leaving" ELSE "operate"
               ELSE IF paused THEN "loop" ELSE "permit")
    /\ UNCHANGED outer

-----------------------------------------------------------------------------
(* PushHandler and SyncHandler *)

\* The router calls accept for a connection.
Arrive(c) ==
    /\ server = "up" /\ conn[c] = "free"
    /\ Move(c, IF c \in Direct THEN "arrive" ELSE "loop")
    /\ c \in Swarm => Cardinality(Permitted) < Limit
                      /\ Cardinality(Permitted \cap Swarm) < SwarmLimit
    /\ UNCHANGED outer

\* active_handlers is read and the task spawned that no cancellation reaches.
Retain(c) ==
    /\ conn[c] = "arrive" /\ server # "drain" /\ Move(c, "retained")
    /\ UNCHANGED outer

\* The connection limit, and the peer policy.
Permit(c) ==
    /\ conn[c] = "retained"
    /\ \/ Cardinality(Permitted) < Limit /\ Move(c, "admit")
       \/ Move(c, "leaving")
    /\ UNCHANGED outer

\* The operation ends, its guard is dropped and the connection awaited; a lost
\* one ends the handler at once.
EndOperation(c) ==
    /\ conn[c] = "operate" /\ (Move(c, "closing") \/ Move(c, "leaving"))
    /\ UNCHANGED outer

\* connection.closed: active_handlers is given back, then the handler's clone
\* with its share of the root's lease.
Closed(c) ==
    /\ conn[c] = "closing" /\ Move(c, "leaving")
    /\ UNCHANGED outer

Leave(c) ==
    /\ conn[c] = "leaving" /\ Move(c, "free")
    /\ UNCHANGED outer

-----------------------------------------------------------------------------
(* SwarmHandler *)

PermitStream(c) ==
    /\ conn[c] = "permit"
    /\ Move(c, IF Cardinality(Serving) + Cardinality(ConnectionsAt({"spawn"})) < Inflight
               THEN "spawn" ELSE "loop")
    /\ UNCHANGED outer

\* active_handlers is read; the task takes the guards and is registered.
Spawn(c, s) ==
    /\ conn[c] = "spawn" /\ server # "drain" /\ stream[s] = "free"
    /\ Move(c, "loop") /\ stream' = [stream EXCEPT ![s] = "serve"]
    /\ UNCHANGED <<server, paused, calls, quiet>>

\* The stream is answered or reset, also when its frame does not come in time.
EndStream(s) ==
    /\ stream[s] = "serve" /\ stream' = [stream EXCEPT ![s] = "free"]
    /\ UNCHANGED <<server, paused, calls, conn, quiet>>

HangUp(c) ==
    /\ conn[c] = "loop" /\ Move(c, "free")
    /\ UNCHANGED outer

-----------------------------------------------------------------------------
(* The server's owner. *)

handling == <<conn, stream>>

Ask(c) ==
    /\ server = "up" /\ asked[c] = "idle"
    /\ \E k \in {"pause", "resume"} : asked' = [asked EXCEPT ![c] = k]
    /\ UNCHANGED <<handling, server, paused, lifecycle, quiet>>

\* pause: the flag first, then the wait for the write lock.
StartPause(c) ==
    /\ asked[c] = "pause" /\ lifecycle = Nobody
    /\ lifecycle' = c /\ paused' = TRUE /\ asked' = [asked EXCEPT ![c] = "drain"]
    /\ UNCHANGED <<handling, server, quiet>>

DrainedPause(c) ==
    /\ asked[c] = "drain" /\ Readers = {}
    /\ lifecycle' = Nobody /\ quiet' = TRUE /\ asked' = [asked EXCEPT ![c] = "idle"]
    /\ UNCHANGED <<handling, server, paused>>

ResumeServer(c) ==
    /\ asked[c] = "resume" /\ lifecycle = Nobody
    /\ paused' = FALSE /\ quiet' = FALSE /\ asked' = [asked EXCEPT ![c] = "idle"]
    /\ UNCHANGED <<handling, server, lifecycle>>

\* shutdown owns the server, so no other call is under way.  The router ends
\* the accept futures and closes every connection; spawned tasks go on.
ShutRouter ==
    /\ server = "up" /\ \A c \in Caller : asked[c] = "idle"
    /\ server' = "drain"
    /\ conn' = [c \in Connection |->
                   IF c \in Swarm \/ conn[c] = "arrive" THEN "free" ELSE conn[c]]
    /\ UNCHANGED <<paused, calls, stream, quiet>>

\* active_handlers.write: no request task or stream is left.
DrainedHandlers ==
    /\ server = "drain" /\ Retained = {} /\ server' = "join"
    /\ UNCHANGED <<paused, calls, handling, quiet>>

\* await_swarm_tasks
JoinedStreams ==
    /\ server = "join" /\ Serving = {} /\ server' = "down"
    /\ UNCHANGED <<paused, calls, handling, quiet>>

\* start_server_observed: the root's lease is free once no handler has a clone.
StartServer ==
    /\ server = "down" /\ ConnectionsAt({"leaving"}) = {}
    /\ server' = "up" /\ paused' = FALSE /\ quiet' = FALSE
    /\ UNCHANGED <<calls, handling>>

-----------------------------------------------------------------------------
ServerNext ==
    \/ \E c \in Connection : Arrive(c) \/ TryRead(c) \/ CheckPaused(c)
    \/ \E c \in Direct : Retain(c) \/ Permit(c) \/ EndOperation(c) \/ Closed(c) \/ Leave(c)
    \/ \E c \in Swarm : PermitStream(c) \/ HangUp(c) \/ \E s \in Stream : Spawn(c, s)
    \/ \E s \in Stream : EndStream(s)
    \/ \E c \in Caller : Ask(c) \/ StartPause(c) \/ DrainedPause(c) \/ ResumeServer(c)
    \/ ShutRouter \/ DrainedHandlers \/ JoinedStreams \/ StartServer

ServerSpec == ServerInit /\ [][ServerNext]_legacy

-----------------------------------------------------------------------------
\* ServerQuiet: once a pause has returned, and until a resume, no operation of
\* any protocol runs, the ones admitted while the flag was set included; once a
\* shutdown has returned no handler runs either (OperationAdmission, shutdown).
ServerQuiet ==
    /\ quiet => ConnectionsAt({"operate", "permit", "spawn"}) = {} /\ Serving = {}
    /\ server = "down" => Retained = {} /\ Readers = {}
=============================================================================
