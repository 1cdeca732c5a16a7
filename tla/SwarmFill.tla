----------------------------- MODULE SwarmFill -----------------------------
(***************************************************************************)
(* Filling missing chunks from several swarm sources at once               *)
(* (swarm_fill_chunks_preconnected, deltaweave-net lib.rs): availability,  *)
(* scheduling, one retry per hash on the same source, disabling a source   *)
(* and reassigning its queue, and the local errors that stop the fill.     *)
(* A queue is a set: nothing depends on the order within it.               *)
(***************************************************************************)
EXTENDS ChunkStore

CONSTANTS
    Source,       \* configured sources
    Honest,       \* those that keep answering, and truthfully
    Streams,      \* SWARM_FILL_STREAMS_PER_SOURCE
    PerFetch      \* SWARM_FILL_CHUNKS_PER_SOURCE

ASSUME FillAssumption ==
    /\ IsFiniteSet(Source) /\ Honest \subseteq Source
    /\ Streams \in Nat \ {0} /\ PerFetch \in Nat \ {0}

\* A fetch asks, reads what the source said is present, and ends.
Ended == {"ok", "source", "local"}
Fetch == [source: Source, assigned: SUBSET Chunk, at: {"ask", "read"} \cup Ended,
          present: SUBSET Chunk, missing: SUBSET Chunk]

VARIABLES
    held,         \* what each honest source has and keeps during the fill
    wanted,       \* remaining_all: the chunks the fill was started for
    available,    \* PeerAvailability of the sources that answered
    peers,        \* the sources that answered
    queue,        \* source -> chunks assigned to it and not asked for
    fetches,      \* the tasks of fetch_set
    remaining, retried, disabled,
    fault         \* set of "local", "source": local_error and source_error

fill == <<held, wanted, available, peers, queue, fetches, remaining, retried, disabled, fault>>

FillTypeOK ==
    /\ held \in [Source -> SUBSET Chunk] /\ wanted \in SUBSET Chunk
    /\ available \in [Source -> SUBSET Chunk] /\ peers \in SUBSET Source
    /\ queue \in [Source -> SUBSET Chunk] /\ fetches \in SUBSET Fetch
    /\ remaining \in SUBSET Chunk /\ retried \in [Source -> SUBSET Chunk]
    /\ disabled \in SUBSET Source /\ fault \in SUBSET {"local", "source"}
    /\ \A s \in Source : Cardinality({f \in fetches : f.source = s}) <= Streams

NoChunks == [s \in Source |-> {}]

FillIdle ==
    /\ held = NoChunks /\ wanted = {} /\ available = NoChunks /\ peers = {} /\ queue = NoChunks
    /\ fetches = {} /\ remaining = {} /\ retried = NoChunks /\ disabled = {} /\ fault = {}

FillReset ==
    /\ held' = NoChunks /\ wanted' = {} /\ available' = NoChunks /\ peers' = {} /\ queue' = NoChunks
    /\ fetches' = {} /\ remaining' = {} /\ retried' = NoChunks /\ disabled' = {} /\ fault' = {}

\* schedule_chunks gives every chunk that an eligible source advertises to one
\* of them.  Which one (rarest first, least loaded) matters to no property.
Schedule(chunks, eligible, adverts) ==
    {a \in [chunks -> eligible] : \A c \in chunks : c \in adverts[a[c]]}
Advertised(chunks, eligible, adverts) ==
    {c \in chunks : \E s \in eligible : c \in adverts[s]}
Enqueue(queues, assignment) ==
    [s \in Source |-> queues[s] \cup {c \in DOMAIN assignment : assignment[c] = s}]

\* What serve_availability answers with: the hashes asked for that verify.
ServedAvailability(has, asked) == has \cap asked

\* swarm_availability_on: a bit for every hash asked for.
Adverts(s, has, asked) ==
    IF s \in Honest THEN {ServedAvailability(has[s], asked)} ELSE SUBSET asked

\* The availability pages: an honest source answers with what it has, another
\* with anything or not at all; who has not answered at the deadline is left
\* out.  A chunk nobody advertises is in no queue.
Answered(asked) ==
    \E p \in SUBSET Source, has \in [Honest -> SUBSET asked] :
    \E a \in {f \in [Source -> SUBSET asked] :
                 \A s \in Source : f[s] \in IF s \in p THEN Adverts(s, has, asked) ELSE {{}}} :
       /\ Honest \subseteq p /\ p # {}
       /\ peers' = p /\ available' = a
       /\ held' = [s \in Source |-> IF s \in Honest THEN has[s] ELSE {}]
       /\ \E g \in Schedule(Advertised(asked, p, a), p, a) : queue' = Enqueue(NoChunks, g)

OpenFill ==
    /\ wanted' = Missing /\ remaining' = Missing
    /\ Answered(Missing)
    /\ UNCHANGED <<fetches, retried, disabled, fault>>

-----------------------------------------------------------------------------
Running(s) == {f \in fetches : f.source = s}
CanSpawn(s) ==
    /\ fault = {} /\ s \notin disabled /\ queue[s] # {}
    /\ Cardinality(Running(s)) < Streams

\* The loop fills every free stream before it waits for a task.
Spawn(s) ==
    /\ CanSpawn(s)
    /\ \E b \in SUBSET queue[s] :
          /\ Cardinality(b) = (IF Cardinality(queue[s]) < PerFetch
                               THEN Cardinality(queue[s]) ELSE PerFetch)
          /\ queue' = [queue EXCEPT ![s] = @ \ b]
          /\ fetches' = fetches \cup {[source |-> s, assigned |-> b, at |-> "ask",
                                       present |-> {}, missing |-> {}]}
    /\ UNCHANGED <<held, wanted, available, peers, remaining, retried, disabled, fault>>

Become(f, g) == fetches' = (fetches \ {f}) \cup {g}
Waiting == \A s \in Source : ~CanSpawn(s)
network == <<held, wanted, available, peers, queue, remaining, retried, disabled, fault>>

\* What serve_chunks answers with: the requested chunks that do not verify.
ServedMissing(s, requested) == requested \ held[s]

\* validate_swarm_chunk_outcomes: nothing is named twice, left out or unasked.
ValidOutcomes(requested, present, missing) ==
    present \cap missing = {} /\ present \cup missing = requested

\* begin_swarm_chunk_fetch.  An answer that is not valid is a source failure.
Reply(f) ==
    /\ f.at = "ask"
    /\ \E p, m \in SUBSET f.assigned :
          /\ f.source \in Honest => m = ServedMissing(f.source, f.assigned)
          /\ ValidOutcomes(f.assigned, p, m)
          /\ Become(f, [f EXCEPT !.at = "read", !.present = p, !.missing = m])
    /\ UNCHANGED network

\* A timeout, a reset, an outcome that was not asked for, a chunk that does not
\* hash to its name.
SourceFails(f) ==
    /\ f.at \in {"ask", "read"} /\ f.source \notin Honest
    /\ Become(f, [f EXCEPT !.at = "source"])
    /\ UNCHANGED network

\* One chunk: the budget is checked and the chunk put (and its directory
\* fsynced) under write_lock.
StoreChunk(f, c) ==
    /\ f.at = "read" /\ c \in f.present
    /\ CheckState(Size[c]) /\ PutVerified(c)
    /\ Become(f, [f EXCEPT !.present = @ \ {c}])
    /\ UNCHANGED network

\* The budget check fails, or the write does.
StoreFails(f) ==
    /\ f.at = "read" /\ f.present # {}
    /\ Become(f, [f EXCEPT !.at = "local"])
    /\ UNCHANGED network

FetchEnds(f) ==
    /\ f.at = "read" /\ f.present = {}
    /\ Become(f, [f EXCEPT !.at = "ok"])
    /\ UNCHANGED network

-----------------------------------------------------------------------------
(* The loop takes an ended task out of fetch_set. *)

\* reassign_swarm_hashes: all of them find a source that is not disabled, or
\* none is queued and the fill fails.
Reassign(chunks, dis, adverts, queues) ==
    LET eligible == peers \ dis IN
    \/ /\ fault' = fault
       /\ \E g \in Schedule(chunks, eligible, adverts) : queue' = Enqueue(queues, g)
    \/ /\ Schedule(chunks, eligible, adverts) = {}
       /\ fault' = fault \cup {"source"} /\ queue' = queues

JoinOk(f) ==
    /\ f.at = "ok" /\ Waiting
    /\ fetches' = fetches \ {f}
    /\ remaining' = remaining \ f.assigned
    /\ available' = [available EXCEPT ![f.source] = @ \ f.missing]
    /\ IF f.missing = {} \/ "source" \in fault THEN UNCHANGED <<queue, fault>>
       ELSE Reassign(f.missing, disabled, available', queue)
    /\ UNCHANGED <<held, wanted, peers, retried, disabled>>

\* Mutant: a hash is tried again on a source that another task disabled.
JoinSourceDisabled(f) ==
    /\ f.at = "source" /\ Waiting
    /\ fetches' = fetches \ {f}
    /\ LET s == f.source
           still == {c \in f.assigned : ~Verified(c)}
           again == still \ retried[s]
           moved == still \ again
           all == moved \cup queue[s] \cup again
       IN /\ remaining' = (remaining \ f.assigned) \cup still
          /\ retried' = [retried EXCEPT ![s] = @ \cup again]
          /\ disabled' = IF moved = {} THEN disabled ELSE disabled \cup {s}
          /\ IF moved = {} \/ "source" \in fault
             THEN queue' = [queue EXCEPT ![s] = @ \cup again] /\ UNCHANGED fault
             ELSE Reassign(all, disabled', available, [queue EXCEPT ![s] = {}])
    /\ UNCHANGED <<held, wanted, peers, available>>

\* Mutant: a hash that failed twice on one source fails the whole fill.
JoinSourceGivesUp(f) ==
    /\ f.at = "source" /\ Waiting
    /\ fetches' = fetches \ {f}
    /\ LET s == f.source
           still == {c \in f.assigned : ~Verified(c)}
           again == still \ retried[s]
       IN /\ remaining' = (remaining \ f.assigned) \cup still
          /\ retried' = [retried EXCEPT ![s] = @ \cup again]
          /\ fault' = IF again = still THEN fault ELSE fault \cup {"source"}
          /\ queue' = [queue EXCEPT ![s] = @ \cup again]
    /\ UNCHANGED <<held, wanted, peers, available, disabled>>

\* A source error: what was stored before it counts; each missing hash is tried
\* once more on this source, and when one fails there a second time the source
\* is disabled and its whole queue goes to the others.
JoinSource(f) ==
    /\ f.at = "source" /\ Waiting
    /\ fetches' = fetches \ {f}
    /\ LET s == f.source
           still == {c \in f.assigned : ~Verified(c)}
           again == IF s \in disabled THEN {} ELSE still \ retried[s]
           moved == still \ again
           all == moved \cup queue[s] \cup again
       IN /\ remaining' = (remaining \ f.assigned) \cup still
          /\ retried' = [retried EXCEPT ![s] = @ \cup again]
          /\ disabled' = IF moved = {} THEN disabled ELSE disabled \cup {s}
          /\ CASE moved = {} ->
                    queue' = [queue EXCEPT ![s] = @ \cup again] /\ UNCHANGED fault
               [] moved # {} /\ "source" \in fault ->
                    queue' = [queue EXCEPT ![s] = {}] /\ UNCHANGED fault
               [] OTHER -> Reassign(all, disabled', available, [queue EXCEPT ![s] = {}])
    /\ UNCHANGED <<held, wanted, peers, available>>

JoinLocal(f) ==
    /\ f.at = "local" /\ Waiting
    /\ fetches' = fetches \ {f} /\ fault' = fault \cup {"local"}
    /\ UNCHANGED <<held, wanted, available, peers, queue, remaining, retried, disabled>>

Progress(f) ==
    \/ (Reply(f) \/ SourceFails(f) \/ StoreFails(f) \/ FetchEnds(f)) /\ UNCHANGED store
    \/ \E c \in Chunk : StoreChunk(f, c)

\* Join takes the tasks in the order they end.
Join(f) == (JoinOk(f) \/ JoinSource(f) \/ JoinLocal(f)) /\ UNCHANGED store

\* What the fill returns once no task is left.
Drained == fetches = {} /\ Waiting
Filled == fault = {} /\ remaining = {} /\ \A c \in wanted : Verified(c)

-----------------------------------------------------------------------------
\* Accounted: until the fill fails, every chunk it still lacks, and that some
\* source advertised, is queued at an enabled source or asked for, at exactly
\* one place (swarm_fill_chunks_preconnected, reassign_swarm_hashes): none is
\* dropped when a source misses a chunk, fails or is disabled, and none is
\* fetched twice at the same time.
Accounted ==
    fault = {} =>
       /\ \A c \in wanted : ~Verified(c) =>
             \/ \E s \in Source \ disabled : c \in queue[s]
             \/ \E f \in fetches : c \in f.assigned
             \/ c \in remaining /\ \A s \in peers : c \notin available[s]
       /\ \A s, t \in Source : s # t => queue[s] \cap queue[t] = {}
       /\ \A f \in fetches, s \in Source : f.assigned \cap queue[s] = {}
       /\ \A f, g \in fetches : f # g => f.assigned \cap g.assigned = {}

\* HonestSuffices: the fill reports a source error only if some chunk is held
\* by no honest source: one source that keeps answering outweighs any number
\* that fail, lie about what they have or send wrong bytes.
HonestSuffices ==
    (\A c \in wanted : \E s \in Honest : c \in held[s]) =>
       /\ "source" \notin fault
       /\ wanted # {} /\ Drained /\ fault = {} => Filled
=============================================================================
