--------------------------- MODULE ShareSessions ---------------------------
(***************************************************************************)
(* The served runtime of an owner's share (deltaweave-net share/): the v3  *)
(* handlers (service.rs), the owner's revoke_member, pause, resume and     *)
(* shutdown (runtime.rs), and the points at which the v2 operations that a *)
(* session runs re-check their authorization under the gate (lib.rs).      *)
(*                                                                         *)
(* Every registry read, lock and await is a step.  Devices are enrolled    *)
(* already (ShareCatalog models how); a membership is never renewed after  *)
(* its revocation, so its epoch says no more than revoked.  What applying  *)
(* and recovering a record do to a path is PathJournal.                    *)
(***************************************************************************)
EXTENDS Naturals

CONSTANTS
    Peer,         \* enrolled devices
    ReadOnlyPeer, \* those of them enrolled with a read-only key
    Revocable,    \* the devices the owner may revoke
    Session,      \* handler permits
    Pause,        \* the owner's pause, beside one revocation per such device
    None          \* no peer, no holder

ASSUME SessionsAssumption ==
    /\ ReadOnlyPeer \subseteq Peer /\ Revocable \subseteq Peer /\ Pause \notin Peer
    /\ None \notin Peer \cup Session

Call == Revocable \cup {Pause}

\* Before an operation; inside one, waiting for the gate or holding it; after.
Opening == {"track", "final", "reply"}
Gated == {"apply", "answer"}
Working == {"query", "push", "receive", "queued"} \cup Gated

\* Steps at which a handler waits for its device, at any length.
Peered == {"reply", "receive", "answer"}
Handler == [step: {"free", "ending"} \cup Opening \cup Working, peer: Peer \cup {None}]
Free == [step |-> "free", peer |-> None]

VARIABLES
    revoked,      \* durable: devices whose denial the registry holds
    served,       \* the runtime is in the map
    enabled, gate,
    receiving,    \* the push that holds receive_admission_lock
    handlers, tracked, closed,  \* handlers, tracked connections, closed ones
    call, woken   \* owner calls under way; whether their waiter was notified

vars == <<revoked, served, enabled, gate, receiving, handlers, tracked, closed, call, woken>>

-----------------------------------------------------------------------------
\* Registry::authorize, and Authorization::check which also reads enabled.
Authorized(p, write) == p \notin revoked /\ (write => p \notin ReadOnlyPeer)
Check(s, write) == enabled /\ Authorized(handlers[s].peer, write)

At(s, step) == served /\ handlers[s].step = step
Alive(s) == s \notin closed
Set(s, step) == handlers' = [handlers EXCEPT ![s].step = step]

\* read_frame, receive_chunks and the answers have no timeout: only the device,
\* or the end of its connection, gets the handler past them.
OnPeer(s) == handlers[s].step \in Peered /\ Alive(s)
Scope(c) == {s \in Session : c = Pause \/ handlers[s].peer = c}

\* Mutant: a waiter is only notified once it awaits.
ListeningLate(c) == call[c] = "wait"

\* drain_connections enables its notification before it looks at the map.
Listening(c) == call[c] \in {"check", "found", "wait"}

\* The handler returns: its permit is free and the drop of TrackedConnection
\* notifies the waiters.
Release(s) ==
    /\ handlers' = [handlers EXCEPT ![s] = Free]
    /\ tracked' = tracked \ {s} /\ closed' = closed \ {s}
    /\ woken' = IF s \in tracked THEN woken \cup {c \in Call : Listening(c)} ELSE woken

Init ==
    /\ revoked = {}
    /\ served = TRUE /\ enabled = TRUE /\ gate = None /\ receiving = None
    /\ handlers = [s \in Session |-> Free] /\ tracked = {} /\ closed = {}
    /\ call = [c \in Call |-> "idle"] /\ woken = {}

-----------------------------------------------------------------------------
(* The v3 handler of one connection. *)

opening == <<revoked, served, enabled, gate, receiving, call>>

\* Handler::accept takes a permit, the device asks for a session and is
\* authorized; one that is not never registers.
Accept(s, p) ==
    /\ At(s, "free") /\ enabled /\ Authorized(p, FALSE)
    /\ handlers' = [handlers EXCEPT ![s] = [step |-> "track", peer |-> p]]
    /\ UNCHANGED <<opening, tracked, closed, woken>>

\* Mutant: the session starts without registering its connection.
TrackNothing(s) ==
    /\ At(s, "track") /\ Set(s, "final")
    /\ UNCHANGED <<opening, tracked, closed, woken>>

Track(s) ==
    /\ At(s, "track") /\ Set(s, "final") /\ tracked' = tracked \cup {s}
    /\ UNCHANGED <<opening, closed, woken>>

FinalAuthorize(s) ==
    /\ At(s, "final") /\ Check(s, FALSE) /\ Set(s, "reply")
    /\ UNCHANGED <<opening, tracked, closed, woken>>

\* The reply is written, the membership read once more for the epoch of the
\* session, and auth.check passed on the stream that carries the request; a
\* write is checked as one when the request has arrived.
Request(s) ==
    /\ At(s, "reply") /\ Alive(s) /\ Check(s, FALSE)
    /\ \/ Set(s, "query")
       \/ Check(s, TRUE) /\ Set(s, "push")
       \/ Check(s, TRUE) /\ Set(s, "queued")
    /\ UNCHANGED <<opening, tracked, closed, woken>>

\* An error before the operation returns from run and drops the guard.
Refuse(s) ==
    /\ \/ At(s, "final") /\ ~Check(s, FALSE)
       \/ At(s, "reply") /\ (s \in closed \/ ~Authorized(handlers[s].peer, FALSE))
    /\ Release(s)
    /\ UNCHANGED opening

-----------------------------------------------------------------------------
(* The operations a session runs. *)

operation == <<revoked, served, enabled, tracked, closed, call, woken>>

\* handle_query_session and handle_pull.  Recovery is the first thing done under
\* the gate: what it adopts or rolls back is PathJournal's.
LockToRead(s) ==
    /\ At(s, "query") /\ gate = None /\ Check(s, FALSE)
    /\ gate' = s /\ Set(s, "answer")
    /\ UNCHANGED <<operation, receiving>>

\* handle_push_record: one push at a time receives, and keeps the lock to its
\* end.  handle_metadata has nothing to receive.
LockToReceive(s) ==
    /\ At(s, "push") /\ receiving = None
    /\ receiving' = s /\ Set(s, "receive")
    /\ UNCHANGED <<operation, gate>>

\* Chunks arrive without the gate, each batch is checked.
Receive(s) ==
    /\ At(s, "receive") /\ Alive(s) /\ Check(s, TRUE) /\ Set(s, "queued")
    /\ UNCHANGED <<operation, gate, receiving>>

LockToWrite(s) ==
    /\ At(s, "queued") /\ gate = None /\ Check(s, TRUE)
    /\ gate' = s /\ Set(s, "apply")
    /\ UNCHANGED <<operation, receiving>>

\* apply_causal_record and the adoption, each after a check.  Of a change whose
\* adoption is refused the next recovery disposes, as PathJournal has it.
Apply(s) ==
    /\ At(s, "apply") /\ Check(s, TRUE) /\ Set(s, "answer")
    /\ UNCHANGED <<operation, gate, receiving>>

\* The operation ends, and with it the guards it holds.
GiveUp(s) ==
    /\ gate' = (IF gate = s THEN None ELSE gate)
    /\ receiving' = (IF receiving = s THEN None ELSE receiving)
    /\ Set(s, "ending")
    /\ UNCHANGED operation

\* A query is answered, and a file sent, under the gate until the device has
\* finished; a write sends its receipt.
Finish(s) == At(s, "answer") /\ GiveUp(s)

\* Mutant: a failed check before the installation leaves the gate locked.
FailLocked(s) ==
    /\ At(s, "apply") /\ ~Check(s, TRUE) /\ Set(s, "ending")
    /\ UNCHANGED <<operation, gate, receiving>>

\* A failed check or a lost connection ends the operation; an installed attempt
\* stays for the next recovery.
Fail(s) ==
    /\ \/ At(s, "reply") /\ Alive(s) /\ ~Check(s, TRUE)
       \/ At(s, "query") /\ gate = None /\ ~Check(s, FALSE)
       \/ At(s, "receive") /\ (s \in closed \/ ~Check(s, TRUE))
       \/ At(s, "queued") /\ gate = None /\ ~Check(s, TRUE)
       \/ At(s, "apply") /\ ~Check(s, TRUE)
    /\ GiveUp(s)

\* All disk work is done before the guard can disappear.
End(s) ==
    /\ At(s, "ending") /\ s \in closed
    /\ Release(s)
    /\ UNCHANGED opening

\* The connection is closed by the device, or lost.
Disconnect(s) ==
    /\ served /\ handlers[s].step # "free" /\ Alive(s)
    /\ closed' = closed \cup {s}
    /\ UNCHANGED <<opening, handlers, tracked, woken>>

-----------------------------------------------------------------------------
(* The owner's calls: a revocation or a pause denies, closes, passes the    *)
(* gate once and drains the handlers that are still tracked.                *)

InCall(c, step) == served /\ call[c] = step
Go(c, step) == call' = [call EXCEPT ![c] = step]
owner == <<served, gate, receiving, handlers, tracked>>

RevokeMember(p) ==
    /\ InCall(p, "idle")
    /\ revoked' = revoked \cup {p} /\ Go(p, "close")
    /\ UNCHANGED <<owner, enabled, closed, woken>>

PauseShare ==
    /\ InCall(Pause, "idle")
    /\ enabled' = FALSE /\ Go(Pause, "close")
    /\ UNCHANGED <<owner, revoked, closed, woken>>

CloseConnections(c) ==
    /\ InCall(c, "close") /\ Go(c, "gate")
    /\ closed' = closed \cup (tracked \cap Scope(c))
    /\ UNCHANGED <<owner, revoked, enabled, woken>>

\* The notification is armed first in every round of drain_connections.
Arm(c) == Go(c, "check") /\ woken' = woken \ {c}

PassGate(c) ==
    /\ InCall(c, "gate") /\ gate = None /\ Arm(c)
    /\ UNCHANGED <<owner, revoked, enabled, closed>>

Drained(c) ==
    /\ InCall(c, "check") /\ tracked \cap Scope(c) = {}
    /\ Go(c, "idle")
    /\ woken' = woken \ {c}
    /\ UNCHANGED <<owner, revoked, enabled, closed>>

Undrained(c) ==
    /\ InCall(c, "check") /\ tracked \cap Scope(c) # {} /\ Go(c, "found")
    /\ UNCHANGED <<owner, revoked, enabled, closed, woken>>

Await(c) ==
    /\ InCall(c, "found") /\ Go(c, "wait")
    /\ UNCHANGED <<owner, revoked, enabled, closed, woken>>

Notified(c) ==
    /\ InCall(c, "wait") /\ c \in woken /\ Arm(c)
    /\ UNCHANGED <<owner, revoked, enabled, closed>>

Resume ==
    /\ served /\ ~enabled /\ enabled' = TRUE
    /\ UNCHANGED <<owner, revoked, closed, call, woken>>

\* The process dies anywhere, or shuts down after a pause, once no handler is
\* left (active.write); what is volatile is gone.
Stop ==
    /\ served /\ served' = FALSE /\ enabled' = FALSE /\ gate' = None /\ receiving' = None
    /\ handlers' = [s \in Session |-> Free] /\ tracked' = {} /\ closed' = {}
    /\ call' = [c \in Call |-> "idle"] /\ woken' = {}
    /\ UNCHANGED revoked

\* load_owned_share: recovery runs before the runtime is published.
Load ==
    /\ ~served /\ served' = TRUE /\ enabled' = TRUE
    /\ UNCHANGED <<revoked, gate, receiving, handlers, tracked, closed, call, woken>>

-----------------------------------------------------------------------------
HandlerStep(s) ==
    \/ Track(s) \/ FinalAuthorize(s) \/ Refuse(s) \/ End(s)
    \/ LockToRead(s) \/ LockToReceive(s) \/ Receive(s) \/ LockToWrite(s)
    \/ Apply(s) \/ Finish(s) \/ Fail(s)

CallStep(c) ==
    \/ CloseConnections(c) \/ PassGate(c) \/ Drained(c) \/ Undrained(c)
    \/ Await(c) \/ Notified(c)

Next ==
    \/ PauseShare \/ Resume \/ Stop \/ Load
    \/ \E s \in Session :
        HandlerStep(s) \/ Request(s) \/ Disconnect(s) \/ \E p \in Peer : Accept(s, p)
    \/ \E p \in Revocable : RevokeMember(p)
    \/ \E c \in Call : CallStep(c)

\* Handlers and calls run to completion: tokio polls every task that can go on
\* and its mutexes are FIFO, so no waiter is overtaken for ever.  Of a step that
\* waits for the device nothing is assumed while the connection is open; once it
\* is closed every read and write on it fails.
Fairness ==
    /\ \A s \in Session : SF_vars(~OnPeer(s) /\ HandlerStep(s))
    /\ \A c \in Call : SF_vars(CallStep(c))

Spec == Init /\ [][Next]_vars /\ Fairness

-----------------------------------------------------------------------------
\* Every variable has its type; the gate is held by a handler inside it, and
\* the receive lock by a push that receives or has received.
TypeOK ==
    /\ revoked \subseteq Peer
    /\ served \in BOOLEAN /\ enabled \in BOOLEAN
    /\ gate \in Session \cup {None} /\ receiving \in Session \cup {None}
    /\ handlers \in [Session -> Handler] /\ tracked \subseteq Session /\ closed \subseteq Session
    /\ call \in [Call -> {"idle", "close", "gate", "check", "found", "wait"}]
    /\ woken \subseteq Call
    /\ \A s \in Session : gate = s <=> handlers[s].step \in Gated
    /\ \A s \in Session : handlers[s].step = "receive" => receiving = s
    /\ \A s \in Session : receiving = s => handlers[s].step \in {"receive", "queued"} \cup Gated

\* What an owner call denies stays denied, a pause until the owner resumes.
Denied(c) == IF c = Pause THEN ~enabled ELSE c \in revoked
Returned(c) == Denied(c) /\ call[c] = "idle"

\* revoke_member and pause leave a quiet share: once a revocation has returned
\* no handler of that device is inside an operation, and once a pause has
\* returned no handler is, until the owner resumes (runtime.rs: denial, close,
\* gate, every retained handler; service.rs: a session registers before its
\* final authorization).
QuietAfterReturn ==
    \A c \in Call : Returned(c) => \A s \in Scope(c) : handlers[s].step \notin Working

\* A connected device keeps a lock of the share to itself.
Held(s) == OnPeer(s) /\ s \in {gate, receiving}

\* Every pause returns unless the owner resumes, and so does every revocation
\* unless some device, of which the revocation closes nothing, stays connected
\* and silent for ever inside an operation that holds the gate or the receive
\* lock (drain_connections enables its notification before it reads the map; a
\* closed connection ends every wait on it).
CallsReturn ==
    /\ (\A s \in Session : []<>~Held(s)) =>
           \A p \in Revocable : call[p] # "idle" ~> call[p] = "idle"
    /\ call[Pause] # "idle" ~> call[Pause] = "idle" \/ enabled
=============================================================================
