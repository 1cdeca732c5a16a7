--------------------------- MODULE ServersProofs ----------------------------
(***************************************************************************)
(* Of what serves a root: QuietAfterReturn of ShareSessions for any        *)
(* devices and handlers, ServerQuiet of LegacyServer for any connections,  *)
(* streams, callers and limits, and both of Servers, where one of them runs. *)
(***************************************************************************)
EXTENDS Servers, TLAPS

-----------------------------------------------------------------------------
(* The legacy server *)

\* Operations past their admission, in the connection or in a stream's task.
Admitted == ConnectionsAt({"operate", "permit", "spawn"}) \cup Serving

\* A pause that waits holds the lifecycle mutex, and the flag stays set.
DrainState == \A c \in Caller : asked[c] = "drain" => lifecycle = c /\ paused

\* A pause in force has the flag set and no operation.
PausedQuiet == quiet => paused /\ Admitted = {}

\* Each kind of handler has its own steps, and a router that is shut has
\* neither a swarm connection nor one that is not in its task yet.
HandlerState ==
    /\ \A c \in Direct : conn[c] \notin {"loop", "permit", "spawn"}
    /\ \A c \in Swarm : conn[c] \in {"free", "loop", "check", "permit", "spawn"}
    /\ server # "up" => /\ \A c \in Swarm : conn[c] = "free"
                        /\ \A c \in Direct : conn[c] # "arrive"

\* Once the handlers were drained none is left.
ShutQuiet == server \in {"join", "down"} => Retained = {}

\* A server that shuts down has no other caller.
DownIdle == server # "up" => \A c \in Caller : asked[c] = "idle"

ServerInv == LegacyTypeOK /\ DrainState /\ PausedQuiet /\ HandlerState /\ ShutQuiet /\ DownIdle

\* The invariant says what the property asks: with no swarm connection whoever
\* reads `active` also reads active_handlers.
LEMMA InvImplies == ServerInv => ServerQuiet
<1> SUFFICES ASSUME ServerInv PROVE ServerQuiet
    OBVIOUS
<1>1. quiet => ConnectionsAt({"operate", "permit", "spawn"}) = {} /\ Serving = {}
    BY DEF ServerInv, PausedQuiet, Admitted
<1>2. ASSUME server = "down" PROVE Retained = {} /\ Readers = {}
    <2>1. Retained = {}
        BY <1>2 DEF ServerInv, ShutQuiet
    <2>2. \A c \in Connection : conn[c] \notin {"check", "operate", "permit", "spawn"}
        BY <1>2, <2>1 DEF ServerInv, HandlerState, Retained, ConnectionsAt, Connection
    <2>3. Serving = {}
        BY <2>1 DEF Retained
    <2> QED
        BY <2>1, <2>2, <2>3 DEF Readers, ConnectionsAt
<1> QED
    BY <1>1, <1>2 DEF ServerQuiet

LEMMA InvInit == ServerInit => ServerInv
BY LegacyAssumption DEF ServerInit, ServerInv, LegacyTypeOK, DrainState, PausedQuiet, HandlerState,
   ShutQuiet, DownIdle, Admitted, Serving, ConnectionsAt, Connection

\* A step of one connection that reaches no operation while a pause is in
\* force keeps the invariant.
LEMMA MoveKeeps ==
    ASSUME ServerInv, NEW c \in Connection, NEW step, Move(c, step), UNCHANGED outer,
           step \in {"free", "arrive", "retained", "admit", "check", "operate", "closing",
                     "leaving", "loop", "permit", "spawn"},
           quiet => step \notin {"operate", "permit", "spawn"},
           c \in Direct => step \notin {"loop", "permit", "spawn"},
           c \in Swarm => step \in {"free", "loop", "check", "permit", "spawn"},
           server = "up" \/ (c \in Direct /\ conn[c] # "free" /\ step # "arrive"),
           server \in {"join", "down"} => step \in {"free", "leaving"}
    PROVE  ServerInv'
<1> USE DEF outer, calls, Move
<1>1. LegacyTypeOK'
    BY DEF ServerInv, LegacyTypeOK
<1>2. DrainState' /\ DownIdle'
    BY DEF ServerInv, DrainState, DownIdle
<1>3. conn \in [Connection -> {"free", "arrive", "retained", "admit", "check", "operate",
                                "closing", "leaving", "loop", "permit", "spawn"}]
    BY DEF ServerInv, LegacyTypeOK
<1>4. PausedQuiet'
    BY <1>3 DEF ServerInv, PausedQuiet, Admitted, ConnectionsAt, Serving
<1>5. HandlerState'
    BY <1>3, LegacyAssumption DEF ServerInv, HandlerState, Connection
<1>6. ShutQuiet'
    BY <1>3 DEF ServerInv, ShutQuiet, Retained, ConnectionsAt, Serving, Connection
<1> QED
    BY <1>1, <1>2, <1>4, <1>5, <1>6 DEF ServerInv

\* The steps of the handlers of either kind.
LEMMA HandlersKeep ==
    ASSUME ServerInv, NEW c \in Connection,
           \/ Arrive(c) \/ TryRead(c) \/ CheckPaused(c)
           \/ c \in Direct /\ (Retain(c) \/ Permit(c) \/ EndOperation(c) \/ Closed(c) \/ Leave(c))
           \/ c \in Swarm /\ (PermitStream(c) \/ HangUp(c))
    PROVE  ServerInv'
<1> USE LegacyAssumption DEF Connection
<1>0. /\ c \in Direct => conn[c] \notin {"loop", "permit", "spawn"}
      /\ c \in Swarm => conn[c] \in {"free", "loop", "check", "permit", "spawn"}
      /\ server # "up" /\ c \in Swarm => conn[c] = "free"
      /\ server # "up" /\ c \in Direct => conn[c] # "arrive"
      /\ c \in Direct => c \notin Swarm
    BY DEF ServerInv, HandlerState
<1>1. server \in {"join", "down"} =>
         conn[c] \notin {"retained", "admit", "operate", "closing"}
         /\ (c \in Direct => conn[c] # "check")
    BY DEF ServerInv, ShutQuiet, Retained, ConnectionsAt
<1>2. quiet => paused /\ conn[c] \notin {"operate", "permit", "spawn"}
    BY DEF ServerInv, PausedQuiet, Admitted, ConnectionsAt
<1>3. server \in {"up", "drain", "join", "down"}
    BY DEF ServerInv, LegacyTypeOK
<1>4. CASE Arrive(c)
    <2>1. CASE c \in Direct
        BY <1>4, <2>1, <1>0, <1>2, MoveKeeps DEF Arrive
    <2>2. CASE c \in Swarm
        BY <1>4, <2>2, <1>0, <1>2, MoveKeeps DEF Arrive
    <2> QED
        BY <2>1, <2>2
<1>5. CASE TryRead(c)
    <2>1. server = "up" \/ (c \in Direct /\ conn[c] = "admit")
        BY <1>5, <1>0 DEF TryRead, Asking
    <2>2. server \notin {"join", "down"}
        BY <1>5, <1>0, <1>1, <2>1 DEF TryRead, Asking
    <2>3. c \in Direct => conn[c] # "free"
        BY <1>5 DEF TryRead, Asking
    <2>4. CASE WriterWaits
        BY <1>5, <2>1, <2>2, <2>3, <2>4, <1>0, MoveKeeps DEF TryRead
    <2>5. CASE ~WriterWaits
        BY <1>5, <2>1, <2>2, <2>3, <2>5, <1>0, MoveKeeps DEF TryRead
    <2> QED
        BY <2>4, <2>5
<1>6. CASE CheckPaused(c)
    <2>1. server \notin {"join", "down"} /\ (server = "up" \/ c \in Direct) /\ conn[c] = "check"
        BY <1>6, <1>0, <1>1 DEF CheckPaused
    <2>2. CASE c \in Direct /\ paused
        BY <1>6, <2>1, <2>2, <1>0, MoveKeeps DEF CheckPaused
    <2>3. CASE c \in Direct /\ ~paused
        BY <1>6, <2>1, <2>3, <1>0, <1>2, MoveKeeps DEF CheckPaused
    <2>4. CASE c \in Swarm /\ paused
        BY <1>6, <2>1, <2>4, <1>0, MoveKeeps DEF CheckPaused
    <2>5. CASE c \in Swarm /\ ~paused
        BY <1>6, <2>1, <2>5, <1>0, <1>2, MoveKeeps DEF CheckPaused
    <2> QED
        BY <2>2, <2>3, <2>4, <2>5
<1>7. CASE c \in Direct /\ Retain(c)
    BY <1>7, <1>0, <1>3, MoveKeeps DEF Retain
<1>8. CASE c \in Direct /\ Permit(c)
    BY <1>8, <1>0, <1>1, MoveKeeps DEF Permit
<1>9. CASE c \in Direct /\ EndOperation(c)
    BY <1>9, <1>0, <1>1, MoveKeeps DEF EndOperation
<1>10. CASE c \in Direct /\ Closed(c)
    BY <1>10, <1>0, <1>1, MoveKeeps DEF Closed
<1>11. CASE c \in Direct /\ Leave(c)
    BY <1>11, <1>0, MoveKeeps DEF Leave
<1>12. CASE c \in Swarm /\ PermitStream(c)
    <2>1. server = "up" /\ ~quiet
        BY <1>12, <1>0, <1>2 DEF PermitStream
    <2>2. PICK step \in {"spawn", "loop"} : Move(c, step)
        BY <1>12 DEF PermitStream
    <2> QED
        BY <1>12, <2>1, <2>2, <1>0, MoveKeeps DEF PermitStream
<1>13. CASE c \in Swarm /\ HangUp(c)
    <2>1. server = "up"
        BY <1>13, <1>0 DEF HangUp
    <2> QED
        BY <1>13, <2>1, <1>0, MoveKeeps DEF HangUp
<1> QED
    BY <1>4, <1>5, <1>6, <1>7, <1>8, <1>9, <1>10, <1>11, <1>12, <1>13

\* A stream is served under the guards its connection took, and gives them back.
LEMMA StreamsKeep ==
    ASSUME ServerInv, NEW s \in Stream,
           EndStream(s) \/ \E c \in Swarm : Spawn(c, s)
    PROVE  ServerInv'
<1> USE LegacyAssumption DEF Connection, calls
<1>0. /\ conn \in [Connection -> {"free", "arrive", "retained", "admit", "check", "operate",
                                "closing", "leaving", "loop", "permit", "spawn"}]
      /\ stream \in [Stream -> {"free", "serve"}]
    BY DEF ServerInv, LegacyTypeOK
<1>1. CASE EndStream(s)
    <2> USE <1>1 DEF EndStream
    <2>1. LegacyTypeOK' /\ DrainState' /\ HandlerState' /\ DownIdle'
        BY DEF ServerInv, LegacyTypeOK, DrainState, HandlerState, DownIdle
    <2>2. PausedQuiet'
        BY <1>0 DEF ServerInv, PausedQuiet, Admitted, ConnectionsAt, Serving
    <2>3. ShutQuiet'
        BY <1>0 DEF ServerInv, ShutQuiet, Retained, ConnectionsAt, Serving
    <2> QED
        BY <2>1, <2>2, <2>3 DEF ServerInv
<1>2. ASSUME NEW c \in Swarm, Spawn(c, s) PROVE ServerInv'
    <2> USE <1>2 DEF Spawn, Move
    <2>1. server = "up" /\ ~quiet
        BY DEF ServerInv, HandlerState, PausedQuiet, Admitted, ConnectionsAt
    <2>2. LegacyTypeOK'
        BY <1>0 DEF ServerInv, LegacyTypeOK
    <2>3. DrainState' /\ PausedQuiet' /\ ShutQuiet' /\ DownIdle'
        BY <2>1 DEF ServerInv, DrainState, PausedQuiet, ShutQuiet, DownIdle
    <2>4. HandlerState'
        BY <2>1, <1>0 DEF ServerInv, HandlerState
    <2> QED
        BY <2>2, <2>3, <2>4 DEF ServerInv
<1> QED
    BY <1>1, <1>2

\* pause and resume: the flag is only cleared by who holds the mutex, and a
\* pause returns at a moment without readers.
LEMMA CallersKeep ==
    ASSUME ServerInv, NEW c \in Caller,
           Ask(c) \/ StartPause(c) \/ DrainedPause(c) \/ ResumeServer(c)
    PROVE  ServerInv'
<1> USE LegacyAssumption DEF handling
<1>0. asked \in [Caller -> {"idle", "pause", "drain", "resume"}] /\ UNCHANGED <<handling, server>>
    BY DEF ServerInv, LegacyTypeOK, Ask, StartPause, DrainedPause, ResumeServer
<1>1. HandlerState' /\ ShutQuiet'
    BY <1>0 DEF ServerInv, HandlerState, ShutQuiet, Retained, ConnectionsAt, Serving
<1>2. LegacyTypeOK'
    BY <1>0 DEF ServerInv, LegacyTypeOK, Ask, StartPause, DrainedPause, ResumeServer
<1>6. DownIdle'
    BY <1>0 DEF ServerInv, DownIdle, Ask, StartPause, DrainedPause, ResumeServer
<1>3. DrainState'
    <2>1. CASE Ask(c)
        BY <1>0, <2>1 DEF ServerInv, DrainState, Ask
    <2>2. CASE StartPause(c)
        BY <1>0, <2>2 DEF ServerInv, DrainState, StartPause
    <2>3. CASE DrainedPause(c)
        BY <1>0, <2>3 DEF ServerInv, DrainState, DrainedPause
    <2>4. CASE ResumeServer(c)
        BY <1>0, <2>4 DEF ServerInv, DrainState, ResumeServer
    <2> QED
        BY <2>1, <2>2, <2>3, <2>4
<1>4. Admitted' = Admitted
    BY <1>0 DEF Admitted, ConnectionsAt, Serving
<1>5. PausedQuiet'
    <2>1. CASE Ask(c) \/ StartPause(c) \/ ResumeServer(c)
        BY <1>4, <2>1 DEF ServerInv, PausedQuiet, Ask, StartPause, ResumeServer
    <2>2. CASE DrainedPause(c)
        <3>1. paused
            BY <2>2 DEF ServerInv, DrainState, DrainedPause
        <3>2. Admitted = {}
            BY <2>2 DEF DrainedPause, Readers, Admitted, ConnectionsAt
        <3> QED
            BY <2>2, <3>1, <3>2, <1>4 DEF PausedQuiet, DrainedPause
    <2> QED
        BY <2>1, <2>2
<1> QED
    BY <1>1, <1>2, <1>3, <1>5, <1>6 DEF ServerInv

\* shutdown and a new start.
LEMMA ShutdownKeeps ==
    ASSUME ServerInv, ShutRouter \/ DrainedHandlers \/ JoinedStreams \/ StartServer
    PROVE  ServerInv'
<1> USE LegacyAssumption DEF handling, calls, Connection
<1>0. conn \in [Connection -> {"free", "arrive", "retained", "admit", "check", "operate",
                                "closing", "leaving", "loop", "permit", "spawn"}]
    BY DEF ServerInv, LegacyTypeOK
<1>1. CASE ShutRouter
    <2> USE <1>1 DEF ShutRouter
    <2>1. LegacyTypeOK' /\ DrainState' /\ ShutQuiet' /\ DownIdle'
        BY <1>0 DEF ServerInv, LegacyTypeOK, DrainState, ShutQuiet, DownIdle
    <2>2. PausedQuiet'
        BY <1>0 DEF ServerInv, PausedQuiet, Admitted, ConnectionsAt, Serving
    <2>3. HandlerState'
        BY <1>0 DEF ServerInv, HandlerState
    <2> QED
        BY <2>1, <2>2, <2>3 DEF ServerInv
<1>2. CASE DrainedHandlers \/ JoinedStreams
    <2>1. /\ server' \in {"join", "down"} /\ server # "up"
          /\ UNCHANGED <<paused, lifecycle, asked, conn, stream, quiet>>
        BY <1>2 DEF DrainedHandlers, JoinedStreams
    <2>2. Retained = {}
        BY <1>2 DEF ServerInv, ShutQuiet, DrainedHandlers, JoinedStreams
    <2>3. LegacyTypeOK' /\ DrainState' /\ HandlerState' /\ DownIdle'
        BY <2>1 DEF ServerInv, LegacyTypeOK, DrainState, HandlerState, DownIdle
    <2>4. PausedQuiet' /\ ShutQuiet'
        BY <2>1, <2>2 DEF ServerInv, PausedQuiet, ShutQuiet, Admitted, Retained, ConnectionsAt, Serving
    <2> QED
        BY <2>3, <2>4 DEF ServerInv
<1>3. CASE StartServer
    <2> USE <1>3 DEF StartServer
    <2>1. LegacyTypeOK' /\ PausedQuiet' /\ ShutQuiet' /\ HandlerState'
        BY DEF ServerInv, LegacyTypeOK, PausedQuiet, ShutQuiet, HandlerState
    <2>2. DrainState' /\ DownIdle'
        BY DEF ServerInv, DrainState, DownIdle
    <2> QED
        BY <2>1, <2>2 DEF ServerInv
<1> QED
    BY <1>1, <1>2, <1>3

\* Every step keeps the invariant.
LEMMA InvStep == ServerInv /\ [ServerNext]_legacy => ServerInv'
<1> SUFFICES ASSUME ServerInv, [ServerNext]_legacy PROVE ServerInv'
    OBVIOUS
<1>1. CASE UNCHANGED legacy
    BY <1>1 DEF legacy, ServerInv, LegacyTypeOK, DrainState, PausedQuiet, HandlerState, ShutQuiet,
                DownIdle, Admitted, Retained, Serving, ConnectionsAt
<1>2. CASE ServerNext
    <2>1. ASSUME NEW c \in Connection, Arrive(c) \/ TryRead(c) \/ CheckPaused(c) PROVE ServerInv'
        BY <2>1, HandlersKeep
    <2>2. ASSUME NEW c \in Direct,
                 Retain(c) \/ Permit(c) \/ EndOperation(c) \/ Closed(c) \/ Leave(c)
          PROVE  ServerInv'
        BY <2>2, HandlersKeep DEF Connection
    <2>3. ASSUME NEW c \in Swarm, PermitStream(c) \/ HangUp(c) PROVE ServerInv'
        BY <2>3, HandlersKeep DEF Connection
    <2>4. ASSUME NEW c \in Swarm, NEW s \in Stream, Spawn(c, s) PROVE ServerInv'
        BY <2>4, StreamsKeep
    <2>5. ASSUME NEW s \in Stream, EndStream(s) PROVE ServerInv'
        BY <2>5, StreamsKeep
    <2>6. ASSUME NEW c \in Caller, Ask(c) \/ StartPause(c) \/ DrainedPause(c) \/ ResumeServer(c)
          PROVE  ServerInv'
        BY <2>6, CallersKeep
    <2>7. CASE ShutRouter \/ DrainedHandlers \/ JoinedStreams \/ StartServer
        BY <2>7, ShutdownKeeps
    <2> QED
        BY <1>2, <2>1, <2>2, <2>3, <2>4, <2>5, <2>6, <2>7 DEF ServerNext
<1> QED
    BY <1>1, <1>2

\* StoppedIsQuiet: a pause or a shutdown of a legacy server that has returned
\* leaves no operation running, for any connections, streams, callers and limits
\* (OperationAdmission, Server::shutdown).
THEOREM StoppedIsQuiet == ServerSpec => []ServerQuiet
<1>1. ServerInv /\ [ServerNext]_legacy => ServerInv'
    BY InvStep
<1> QED
    BY InvInit, <1>1, InvImplies, PTL DEF ServerSpec

-----------------------------------------------------------------------------
(* The runtime of a share *)

\* From its registration to its release a session is among those that a call
\* drains: nothing past "track" is out of the map.
Registered ==
    \A s \in Session :
        handlers[s].step \in {"final", "reply", "ending"} \cup Working => s \in tracked

\* Inside a session the device is known.
Named == \A s \in Session : handlers[s].step # "free" => handlers[s].peer \in Peer

\* A revocation is in force from its first step.
InForce == \A p \in Revocable : call[p] # "idle" => p \in revoked

SessionsInv == TypeOK /\ Registered /\ Named /\ InForce /\ QuietAfterReturn

LEMMA SessionsInit == Init => SessionsInv
BY SessionsAssumption DEF Init, SessionsInv, TypeOK, Registered, Named, InForce, QuietAfterReturn,
   Returned, Denied, Scope, Free, Handler, Opening, Working, Gated, Call

\* A device under a denial does not pass a check.
LEMMA DeniedStops ==
    ASSUME NEW s \in Session, NEW b, Check(s, b), NEW c \in Call, Denied(c)
    PROVE  s \notin Scope(c)
BY DEF Denied, Check, Authorized, Scope

\* Where a push may be that holds the receive lock.
Receiving == {"receive", "queued"} \cup Gated

\* One handler moves on: the gate stays with the one inside it and the receive
\* lock with its push, and a handler that starts to work is under no denial.
LEMMA HandlerMoves ==
    ASSUME SessionsInv, NEW s \in Session, NEW step, Set(s, step),
           UNCHANGED <<revoked, served, enabled, closed, call, woken>>,
           step \in Opening \cup Working \cup {"ending"}, handlers[s].step # "free",
           tracked \subseteq tracked', tracked' \subseteq Session,
           step \in (Opening \ {"track"}) \cup Working \cup {"ending"} => s \in tracked',
           gate' \in Session \cup {None}, receiving' \in Session \cup {None},
           \A t \in Session : gate' = t <=> IF t = s THEN step \in Gated ELSE gate = t,
           \A t \in Session \ {s} : receiving' = t <=> receiving = t,
           step = "receive" => receiving' = s, receiving' = s => step \in Receiving,
           \/ step \notin Working
           \/ handlers[s].step \in Working
           \/ \E b \in BOOLEAN : Check(s, b)
    PROVE  SessionsInv'
<1>1. /\ handlers \in [Session -> Handler] /\ handlers[s] \in Handler
      /\ handlers' = [handlers EXCEPT ![s] = [handlers[s] EXCEPT !.step = step]]
    BY DEF SessionsInv, TypeOK, Set
<1>2. [handlers[s] EXCEPT !.step = step] \in Handler
    BY <1>1 DEF Handler, Opening, Working, Gated
<1>3. /\ handlers' \in [Session -> Handler] /\ \A t \in Session \ {s} : handlers'[t] = handlers[t]
      /\ handlers'[s].step = step /\ handlers'[s].peer = handlers[s].peer
    BY <1>1, <1>2 DEF Handler
<1>4. TypeOK'
    BY <1>3 DEF SessionsInv, TypeOK, Receiving
<1>5. Registered' /\ Named'
    <2>1. Registered'
        <3> SUFFICES ASSUME NEW t \in Session,
                            handlers'[t].step \in {"final", "reply", "ending"} \cup Working
                     PROVE  t \in tracked'
            BY DEF Registered
        <3>1. CASE t = s
            BY <1>3, <3>1 DEF Opening
        <3>2. CASE t # s
            BY <1>3, <3>2 DEF SessionsInv, Registered
        <3> QED BY <3>1, <3>2
    <2>2. Named'
        BY <1>3 DEF SessionsInv, Named
    <2> QED BY <2>1, <2>2
<1>6. InForce'
    BY DEF SessionsInv, InForce
<1>7. QuietAfterReturn'
    <2> SUFFICES ASSUME NEW c \in Call, Returned(c)', NEW t \in Session, t \in Scope(c)'
                 PROVE  handlers'[t].step \notin Working
        BY DEF QuietAfterReturn, Scope
    <2>1. t \in Scope(c) /\ Returned(c) /\ Denied(c)
        BY <1>3 DEF Scope, Returned, Denied
    <2>2. handlers[t].step \notin Working
        BY <2>1 DEF SessionsInv, QuietAfterReturn
    <2>3. CASE t = s
        BY <1>3, <2>1, <2>2, <2>3, DeniedStops
    <2> QED BY <1>3, <2>2, <2>3
<1> QED BY <1>4, <1>5, <1>6, <1>7 DEF SessionsInv

\* A handler that returns leaves nothing behind.
LEMMA ReleaseKeeps ==
    ASSUME SessionsInv, NEW s \in Session, Release(s), handlers[s].step \notin Working,
           UNCHANGED opening
    PROVE  SessionsInv'
<1>1. /\ handlers' \in [Session -> Handler] /\ handlers'[s] = Free
      /\ \A t \in Session \ {s} : handlers'[t] = handlers[t]
      /\ tracked' = tracked \ {s} /\ closed' \subseteq closed /\ woken' \subseteq Call
    BY DEF Release, SessionsInv, TypeOK, Handler, Free
<1>2. Free.step = "free" /\ Free.peer = None /\ "free" \notin {"final", "reply", "ending"} \cup Working
    BY DEF Free, Working, Gated
<1>3. gate # s /\ receiving # s
    BY DEF SessionsInv, TypeOK, Working
<1>4. TypeOK'
    BY <1>1, <1>2, <1>3 DEF opening, SessionsInv, TypeOK, Working
<1>5. Registered' /\ Named' /\ InForce'
    BY <1>1, <1>2 DEF opening, SessionsInv, Registered, Named, InForce
<1>6. QuietAfterReturn'
    BY <1>1, <1>2 DEF opening, SessionsInv, QuietAfterReturn, Returned, Denied, Scope
<1> QED BY <1>4, <1>5, <1>6 DEF SessionsInv

LEMMA AcceptKeeps == ASSUME SessionsInv, NEW s \in Session, NEW p \in Peer, Accept(s, p) PROVE SessionsInv'
<1>1. /\ handlers[s].step = "free"
      /\ UNCHANGED <<revoked, served, enabled, gate, receiving, call, tracked, closed, woken>>
      /\ handlers' = [handlers EXCEPT ![s] = [step |-> "track", peer |-> p]]
    BY DEF Accept, At, opening
<1>2. /\ handlers' \in [Session -> Handler] /\ handlers'[s] = [step |-> "track", peer |-> p]
      /\ \A t \in Session \ {s} : handlers'[t] = handlers[t]
    BY <1>1 DEF SessionsInv, TypeOK, Handler, Opening
<1>3. TypeOK'
    BY <1>1, <1>2 DEF SessionsInv, TypeOK, Gated
<1>4. Registered' /\ Named' /\ InForce'
    BY <1>1, <1>2 DEF SessionsInv, Registered, Named, InForce, Working, Gated
<1>5. QuietAfterReturn'
    BY <1>1, <1>2 DEF SessionsInv, QuietAfterReturn, Returned, Denied, Scope, Working, Gated
<1> QED BY <1>3, <1>4, <1>5 DEF SessionsInv

\* Before the operation of a session.
LEMMA OpeningKeeps ==
    ASSUME SessionsInv, NEW s \in Session,
           Track(s) \/ FinalAuthorize(s) \/ Request(s) \/ Refuse(s) \/ End(s)
    PROVE  SessionsInv'
<1> USE DEF At, opening
<1>1. /\ tracked \subseteq Session
      /\ gate \in Session \cup {None} /\ receiving \in Session \cup {None}
      /\ \A t \in Session : gate = t <=> handlers[t].step \in Gated
      /\ \A t \in Session : receiving = t => handlers[t].step \in Receiving
    BY DEF SessionsInv, TypeOK, Receiving
<1>2. CASE Track(s)
    <2>1. handlers[s].step = "track" /\ Set(s, "final")
        BY <1>2 DEF Track
    <2> QED BY <1>1, <1>2, <2>1, HandlerMoves DEF Track, Opening, Working, Gated, Receiving
<1>3. CASE FinalAuthorize(s)
    <2>1. handlers[s].step = "final" /\ Set(s, "reply") /\ s \in tracked
        BY <1>3 DEF FinalAuthorize, SessionsInv, Registered
    <2> QED BY <1>1, <1>3, <2>1, HandlerMoves DEF FinalAuthorize, Opening, Working, Gated, Receiving
<1>4. CASE Request(s)
    <2>1. handlers[s].step = "reply" /\ s \in tracked /\ Check(s, FALSE)
        BY <1>4 DEF Request, SessionsInv, Registered
    <2>2. PICK step \in {"query", "push", "queued"} : Set(s, step)
        BY <1>4 DEF Request
    <2> QED BY <1>1, <1>4, <2>1, <2>2, HandlerMoves DEF Request, Opening, Working, Gated, Receiving
<1>5. CASE Refuse(s) \/ End(s)
    BY <1>5, ReleaseKeeps DEF Refuse, End, Working, Gated
<1> QED BY <1>2, <1>3, <1>4, <1>5

\* Inside it: the gate and the receive lock are taken, kept and given up.
LEMMA OperationKeeps ==
    ASSUME SessionsInv, NEW s \in Session,
           \/ LockToRead(s) \/ LockToReceive(s) \/ Receive(s) \/ LockToWrite(s)
           \/ Apply(s) \/ Finish(s) \/ Fail(s)
    PROVE  SessionsInv'
<1> USE DEF At, operation
<1>1. /\ tracked \subseteq Session
      /\ gate \in Session \cup {None} /\ receiving \in Session \cup {None}
      /\ \A t \in Session : gate = t <=> handlers[t].step \in Gated
      /\ \A t \in Session : receiving = t => handlers[t].step \in Receiving
      /\ handlers[s].step = "receive" => receiving = s
    BY DEF SessionsInv, TypeOK, Receiving
<1>2. handlers[s].step \in {"reply"} \cup Working => s \in tracked
    BY DEF SessionsInv, Registered
<1>3. CASE LockToRead(s)
    <2>1. /\ handlers[s].step = "query" /\ Set(s, "answer") /\ gate = None /\ gate' = s
          /\ UNCHANGED <<revoked, served, enabled, tracked, closed, call, woken, receiving>>
        BY <1>3 DEF LockToRead
    <2> QED BY <1>1, <1>2, <2>1, SessionsAssumption, HandlerMoves DEF Opening, Working, Gated, Receiving
<1>4. CASE LockToReceive(s)
    <2>1. /\ handlers[s].step = "push" /\ Set(s, "receive") /\ receiving = None /\ receiving' = s
          /\ UNCHANGED <<revoked, served, enabled, tracked, closed, call, woken, gate>>
        BY <1>4 DEF LockToReceive
    <2> QED BY <1>1, <1>2, <2>1, SessionsAssumption, HandlerMoves DEF Opening, Working, Gated, Receiving
<1>5. CASE Receive(s)
    <2>1. /\ handlers[s].step = "receive" /\ Set(s, "queued")
          /\ UNCHANGED <<revoked, served, enabled, tracked, closed, call, woken, gate, receiving>>
        BY <1>5 DEF Receive
    <2> QED BY <1>1, <1>2, <2>1, HandlerMoves DEF Opening, Working, Gated, Receiving
<1>6. CASE LockToWrite(s)
    <2>1. /\ handlers[s].step = "queued" /\ Set(s, "apply") /\ gate = None /\ gate' = s
          /\ UNCHANGED <<revoked, served, enabled, tracked, closed, call, woken, receiving>>
        BY <1>6 DEF LockToWrite
    <2> QED BY <1>1, <1>2, <2>1, SessionsAssumption, HandlerMoves DEF Opening, Working, Gated, Receiving
<1>7. CASE Apply(s)
    <2>1. /\ handlers[s].step = "apply" /\ Set(s, "answer")
          /\ UNCHANGED <<revoked, served, enabled, tracked, closed, call, woken, gate, receiving>>
        BY <1>7 DEF Apply
    <2> QED BY <1>1, <1>2, <2>1, HandlerMoves DEF Opening, Working, Gated, Receiving
<1>8. CASE Finish(s) \/ Fail(s)
    <2>1. /\ handlers[s].step \in {"reply", "query", "receive", "queued", "apply", "answer"}
          /\ Set(s, "ending")
          /\ gate' = (IF gate = s THEN None ELSE gate)
          /\ receiving' = (IF receiving = s THEN None ELSE receiving)
          /\ UNCHANGED <<revoked, served, enabled, tracked, closed, call, woken>>
        BY <1>8 DEF Finish, Fail, GiveUp
    <2>2. /\ \A t \in Session : gate' = t <=> t # s /\ gate = t
          /\ \A t \in Session : receiving' = t <=> t # s /\ receiving = t
          /\ gate' \in Session \cup {None} /\ receiving' \in Session \cup {None}
        BY <1>1, <2>1, SessionsAssumption
    <2> QED BY <1>2, <1>1, <2>1, <2>2, HandlerMoves DEF Opening, Working, Gated, Receiving
<1> QED BY <1>3, <1>4, <1>5, <1>6, <1>7, <1>8

\* An owner call moves: what it denies stays denied until it is idle again.
LEMMA CallKeeps ==
    ASSUME SessionsInv, NEW c \in Call, NEW step, Go(c, step),
           step \in {"close", "gate", "check", "found", "wait"},
           c \in Revocable => c \in revoked',
           revoked \subseteq revoked', revoked' \subseteq Peer, enabled' \in BOOLEAN,
           \A d \in Call \ {c} : Denied(d)' => Denied(d),
           UNCHANGED <<served, gate, receiving, handlers, tracked>>,
           closed' \subseteq Session, woken' \subseteq woken
    PROVE  SessionsInv'
<1>1. /\ call' \in [Call -> {"idle", "close", "gate", "check", "found", "wait"}]
      /\ call'[c] = step /\ \A d \in Call \ {c} : call'[d] = call[d]
    BY DEF SessionsInv, TypeOK, Go
<1>2. TypeOK' /\ Registered' /\ Named'
    BY <1>1 DEF SessionsInv, TypeOK, Registered, Named
<1>3. InForce'
    BY <1>1 DEF SessionsInv, InForce, Call
<1>4. QuietAfterReturn'
    <2>1. \A d \in Call : Returned(d)' => Returned(d)
        BY <1>1 DEF Returned
    <2> QED BY <2>1 DEF SessionsInv, QuietAfterReturn, Scope
<1> QED BY <1>2, <1>3, <1>4 DEF SessionsInv

\* A call that found its scope drained returns: whatever works is registered, so
\* nothing works in its scope.
LEMMA DrainedKeeps == ASSUME SessionsInv, NEW c \in Call, Drained(c) PROVE SessionsInv'
<1>1. /\ served /\ call[c] = "check" /\ tracked \cap Scope(c) = {}
      /\ UNCHANGED <<served, gate, receiving, handlers, tracked, revoked, enabled, closed>>
      /\ woken' \subseteq woken
      /\ call' = [call EXCEPT ![c] = "idle"]
    BY DEF Drained, InCall, Go, owner
<1>2. TypeOK' /\ Registered' /\ Named'
    BY <1>1 DEF SessionsInv, TypeOK, Registered, Named
<1>3. InForce'
    BY <1>1 DEF SessionsInv, TypeOK, InForce, Call
<1>4. \A s \in Scope(c) : handlers[s].step \notin Working
    <2>1. Scope(c) \subseteq Session
        BY DEF Scope
    <2> QED BY <1>1, <2>1 DEF SessionsInv, Registered
<1>5. QuietAfterReturn'
    <2>1. \A d \in Call \ {c} : Returned(d)' => Returned(d)
        BY <1>1 DEF SessionsInv, TypeOK, Returned, Denied
    <2> QED BY <1>1, <1>4, <2>1 DEF SessionsInv, QuietAfterReturn, Scope
<1> QED BY <1>2, <1>3, <1>5 DEF SessionsInv

LEMMA OwnerKeeps ==
    ASSUME SessionsInv,
           \/ \E p \in Revocable : RevokeMember(p)
           \/ PauseShare
           \/ \E c \in Call : CallStep(c)
    PROVE  SessionsInv'
<1> USE DEF InCall, owner
<1>1. /\ revoked \subseteq Peer /\ enabled \in BOOLEAN
      /\ closed \subseteq Session /\ tracked \subseteq Session
    BY DEF SessionsInv, TypeOK
<1>2. ASSUME NEW p \in Revocable, RevokeMember(p)
      PROVE  SessionsInv'
    <2>1. p \in Call /\ p # Pause /\ p \in Peer
        BY SessionsAssumption DEF Call
    <2>2. \A d \in Call \ {p} : Denied(d)' => Denied(d)
        BY <1>2 DEF RevokeMember, Denied
    <2> QED BY <1>1, <1>2, <2>1, <2>2, CallKeeps DEF RevokeMember
<1>3. ASSUME PauseShare
      PROVE  SessionsInv'
    <2>1. Pause \in Call /\ Pause \notin Revocable
        BY SessionsAssumption DEF Call
    <2>2. \A d \in Call \ {Pause} : Denied(d)' => Denied(d)
        BY <1>3 DEF PauseShare, Denied
    <2> QED BY <1>1, <1>3, <2>1, <2>2, CallKeeps DEF PauseShare
<1>4. ASSUME NEW c \in Call, CallStep(c)
      PROVE  SessionsInv'
    <2>1. CASE Drained(c)
        BY <2>1, DrainedKeeps
    <2>2. CASE ~Drained(c)
        <3>1. PICK step \in {"gate", "check", "found", "wait"} :
                  /\ Go(c, step) /\ call[c] # "idle"
                  /\ closed' \subseteq Session /\ woken' \subseteq woken
                  /\ UNCHANGED <<served, gate, receiving, handlers, tracked, revoked, enabled>>
            BY <1>1, <1>4, <2>2
            DEF CallStep, CloseConnections, Arm, Undrained, Await, Notified, PassGate
        <3>2. c \in Revocable => c \in revoked
            BY <3>1 DEF SessionsInv, InForce
        <3>3. \A d \in Call \ {c} : Denied(d)' => Denied(d)
            BY <3>1 DEF Denied
        <3> QED BY <1>1, <3>1, <3>2, <3>3, CallKeeps
    <2> QED BY <2>1, <2>2
<1> QED BY <1>2, <1>3, <1>4

\* The owner resumes, the process ends, or it loads the share again.
LEMMA RuntimeKeeps == ASSUME SessionsInv, Resume \/ Stop \/ Load PROVE SessionsInv'
<1>1. CASE Resume \/ Load
    <2>1. /\ enabled' = TRUE /\ served' \in BOOLEAN
          /\ UNCHANGED <<gate, receiving, handlers, tracked, revoked, closed, call, woken>>
        BY <1>1 DEF Resume, Load, owner, SessionsInv, TypeOK
    <2>2. TypeOK' /\ Registered' /\ Named' /\ InForce'
        BY <2>1 DEF SessionsInv, TypeOK, Registered, Named, InForce
    <2>3. QuietAfterReturn'
        BY <2>1 DEF SessionsInv, QuietAfterReturn, Returned, Denied, Scope
    <2> QED BY <2>2, <2>3 DEF SessionsInv
<1>2. CASE Stop
    <2>1. /\ Free \in Handler /\ Free.step = "free" /\ None \notin Session
          /\ "free" \notin {"final", "reply", "ending"} \cup Working /\ "free" \notin Gated
        BY SessionsAssumption DEF Free, Handler, Working, Gated
    <2>2. TypeOK'
        BY <1>2, <2>1 DEF Stop, SessionsInv, TypeOK
    <2>3. Registered' /\ Named' /\ QuietAfterReturn'
        BY <1>2, <2>1 DEF Stop, Registered, Named, QuietAfterReturn, Scope
    <2>4. InForce'
        BY <1>2, SessionsAssumption DEF Stop, InForce, Call
    <2> QED BY <2>2, <2>3, <2>4 DEF SessionsInv
<1> QED BY <1>1, <1>2

LEMMA SessionsStep == SessionsInv /\ [Next]_vars => SessionsInv'
<1> SUFFICES ASSUME SessionsInv, [Next]_vars PROVE SessionsInv'
    OBVIOUS
<1>1. CASE UNCHANGED vars
    <2>1. UNCHANGED <<revoked, served, enabled, gate, receiving, handlers, tracked, closed, call, woken>>
        BY <1>1 DEF vars
    <2> QED BY <2>1 DEF SessionsInv, TypeOK, Registered, Named, InForce, QuietAfterReturn, Returned,
                        Denied, Scope
<1>2. ASSUME NEW s \in Session, HandlerStep(s) \/ Request(s)
      PROVE  SessionsInv'
    BY <1>2, OpeningKeeps, OperationKeeps DEF HandlerStep
<1>3. ASSUME NEW s \in Session, Disconnect(s)
      PROVE  SessionsInv'
    <2>1. /\ UNCHANGED <<revoked, served, enabled, gate, receiving, call, handlers, tracked, woken>>
          /\ closed' = closed \cup {s}
        BY <1>3 DEF Disconnect, opening
    <2> QED BY <2>1 DEF SessionsInv, TypeOK, Registered, Named, InForce, QuietAfterReturn, Returned,
                        Denied, Scope
<1> QED BY <1>1, <1>2, <1>3, AcceptKeeps, OwnerKeeps, RuntimeKeeps DEF Next

\* Every variable keeps its type, and at any moment the gate is held by exactly
\* the handler that is inside an operation on the share's disk, if any, and the
\* receive lock by the only push that receives: two sessions never read, apply
\* or adopt at once, however their checks fail and their connections are lost
\* (service.rs, the share's gate; lib.rs handle_push_record).
THEOREM GateExclusive == Spec => []TypeOK
<1>1. SessionsInv => TypeOK
    BY DEF SessionsInv
<1> QED BY <1>1, SessionsInit, SessionsStep, PTL DEF Spec

\* QuietAfterReturn: once a revocation or a pause has returned, no handler it
\* covers is inside an operation, and none gets into one, for any devices and
\* handlers (runtime.rs drain_connections, service.rs TrackedConnection).
THEOREM ReturnedIsQuiet == Spec => []QuietAfterReturn
<1>1. SessionsInv => QuietAfterReturn
    BY DEF SessionsInv
<1> QED BY <1>1, SessionsInit, SessionsStep, PTL DEF Spec

-----------------------------------------------------------------------------
(* Whichever serves the root *)

LEMMA ServersInvInit == ServersInit => SessionsInv /\ ServerInv
BY SessionsInit, InvInit DEF ServersInit

LEMMA ServersInvStep == SessionsInv /\ ServerInv /\ [ServersNext]_serverVars => SessionsInv' /\ ServerInv'
<1> SUFFICES ASSUME SessionsInv, ServerInv, [ServersNext]_serverVars
             PROVE  SessionsInv' /\ ServerInv'
    OBVIOUS
<1>1. [Next]_vars /\ [ServerNext]_legacy
    BY DEF ServersNext, serverVars
<1> QED BY <1>1, SessionsStep, InvStep

\* A root that a share or a legacy server serves is quiet after every call that
\* stops it has returned: a revocation, a pause or a shutdown.
THEOREM StopsAreQuiet == ServersSpec => [](QuietAfterReturn /\ ServerQuiet)
<1>1. SessionsInv /\ ServerInv => QuietAfterReturn /\ ServerQuiet
    BY InvImplies DEF SessionsInv
<1> QED BY <1>1, ServersInvInit, ServersInvStep, PTL DEF ServersSpec
=============================================================================
