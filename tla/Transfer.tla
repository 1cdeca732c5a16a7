----------------------------- MODULE Transfer ------------------------------
(***************************************************************************)
(* Staging one file of a pass (stage_desired_files, stage_remote_file,     *)
(* deltaweave-sync lib.rs): inventory, swarm fill, the v2 pull of what is  *)
(* left, and materialization; and receiving a push on a server             *)
(* (handle_push_record), which is the same from the inventory of the pull  *)
(* on.  Composes SwarmFill and ChunkPipeline on one ChunkStore.            *)
(***************************************************************************)
EXTENDS SwarmFill, ChunkPipeline

CONSTANT Fillable \* bound: the chunks swarm fills are started for

VARIABLE phase    \* of the attempt

vars == <<store, fill, pipe, phase>>

Resting == {"idle", "staged", "failed", "done"}

TypeOK ==
    /\ StoreTypeOK /\ FillTypeOK /\ PipeTypeOK
    /\ phase \in Resting \cup {"local", "manifest", "connect", "fill", "pull", "admit", "receive", "ingest"}

Init ==
    /\ StoreInit /\ FillIdle /\ PipeIdle /\ phase = "idle"

\* Content that a local file has is ingested, any other asked of the peer.
Begin ==
    /\ phase = "idle" /\ phase' \in {"local", "manifest"}
    /\ UNCHANGED <<store, fill, pipe>>

\* pull_manifest_connected; it fails when the peer no longer has exactly the
\* record that was planned.  Then the inventory.
PullManifest ==
    /\ phase = "manifest" /\ phase' \in {"connect", "failed"}
    /\ UNCHANGED <<store, fill, pipe>>

NothingMissing ==
    /\ phase = "connect" /\ Missing = {} /\ phase' = "staged"
    /\ UNCHANGED <<store, fill, pipe>>

\* No swarm source is configured, or none connects or answers.
NoSwarm ==
    /\ phase = "connect" /\ Missing # {} /\ phase' = "pull"
    /\ UNCHANGED <<store, fill, pipe>>

StartFill ==
    /\ phase = "connect" /\ Missing # {} /\ Missing \subseteq Fillable
    /\ IF CheckState(0) THEN OpenFill /\ phase' = "fill"
       ELSE phase' = "failed" /\ UNCHANGED fill
    /\ UNCHANGED <<store, pipe>>

FillStep ==
    /\ phase = "fill" /\ UNCHANGED <<pipe, phase>>
    /\ \/ \E s \in Source : Spawn(s) /\ UNCHANGED store
       \/ \E f \in fetches : Progress(f) \/ Join(f)

\* A local error ends the attempt; a source error or a chunk nobody has leaves
\* the rest to the pull.
EndFill ==
    /\ phase = "fill" /\ Drained
    /\ phase' = CASE "local" \in fault -> "failed"
                  [] Filled -> "staged"
                  [] OTHER -> "pull"
    /\ FillReset /\ UNCHANGED <<store, pipe>>

\* The peer answers the second request with the manifest, or not.
PullRecord ==
    /\ phase = "pull" /\ phase' \in {"admit", "failed"}
    /\ UNCHANGED <<store, fill, pipe>>

\* On a server, a push that names a valid record and manifest takes
\* receive_admission_lock, which it holds to its end, and goes on like a pull.
AcceptPush ==
    /\ phase = "idle" /\ phase' = "admit"
    /\ UNCHANGED <<store, fill, pipe>>

\* Mutant: it starts without admitting the bytes that are going to be written.
StartUnadmitted ==
    /\ phase = "admit" /\ phase' = "receive" /\ OpenPipe(Missing)
    /\ UNCHANGED <<store, fill>>

\* Inventory is taken again, and all the missing bytes are admitted at once.
StartReceive ==
    /\ phase = "admit"
    /\ IF CheckState(Bytes(Missing)) THEN phase' = "receive" /\ OpenPipe(Missing)
       ELSE phase' = "failed" /\ UNCHANGED pipe
    /\ UNCHANGED <<store, fill>>

ReceiveStep ==
    /\ phase = "receive" /\ Receiver
    /\ UNCHANGED <<fill, phase>>

\* The blocking tasks run on their own, whatever the transfer does.
WriteTask ==
    /\ \E i \in DOMAIN inflight : Task(i)
    /\ UNCHANGED <<fill, phase>>

\* The receipt: it may disagree with what was counted.
EndPull ==
    /\ phase = "receive" /\ step = "closed"
    /\ phase' \in IF failed THEN {"failed"} ELSE {"staged", "failed"}
    /\ failed' = FALSE /\ expected' = <<>>
    /\ UNCHANGED <<store, fill, step, pending, inflight>>

\* The content is in a local file, and no manifest is pulled:
\* ingest_file_with_admission admits all the missing bytes, then each chunk
\* again as it is put.
StartIngest ==
    /\ phase = "local"
    /\ IF CheckState(Bytes(Missing)) THEN phase' = "ingest" /\ expected' = Manifest
       ELSE phase' = "failed" /\ UNCHANGED expected
    /\ UNCHANGED <<store, fill, step, pending, inflight, failed>>

Ingest ==
    /\ phase = "ingest" /\ expected # <<>>
    /\ LET c == Head(expected) IN (Verified(c) \/ CheckState(Size[c])) /\ PutVerified(c)
    /\ expected' = Tail(expected)
    /\ UNCHANGED <<fill, step, pending, inflight, failed, phase>>

\* Space ran out, or the file changed since its snapshot.
IngestFails ==
    /\ phase = "ingest" /\ phase' = "failed" /\ expected' = <<>>
    /\ UNCHANGED <<store, fill, step, pending, inflight, failed>>

Ingested ==
    /\ phase = "ingest" /\ expected = <<>> /\ phase' = "staged"
    /\ UNCHANGED <<store, fill, pipe>>

\* Store::materialize reads and verifies every chunk and the whole before it
\* changes a path (PathJournal); an error ends the pass.
Materialize ==
    /\ phase = "staged"
    /\ IF Budget(0, Destination) /\ Missing = {}
       THEN phase' = "done" /\ free' = IF shared THEN free - Destination ELSE free
       ELSE phase' = "idle" /\ UNCHANGED free
    /\ UNCHANGED <<content, unsynced, shared, outside, fill, pipe>>

Retry ==
    /\ phase = "failed" /\ phase' = "idle"
    /\ UNCHANGED <<store, fill, pipe>>

\* What may be half written: a chunk that is not in place, by each task of the
\* pipeline, or one admitted chunk by the swarm, under its lock, or by an
\* ingestion.
Ingesting == IF phase = "ingest" /\ expected # <<>> THEN {Head(expected)} ELSE {}
Torn ==
    LET single == Ingesting \cup UNION {f.present : f \in fetches} IN
    {t \in SUBSET Writing : t \subseteq Missing} \cup
        {{c} : c \in {d \in Missing \cap single : CheckState(Size[d])}}
Crash ==
    /\ phase # "done" /\ phase' = "idle"
    /\ PowerLoss(Torn)
    /\ FillReset /\ PipeReset

Outside == Consume /\ UNCHANGED <<fill, pipe, phase>>

Next ==
    \/ Begin \/ PullManifest \/ NothingMissing \/ NoSwarm \/ StartFill \/ FillStep \/ EndFill
    \/ PullRecord \/ AcceptPush \/ StartReceive \/ ReceiveStep \/ WriteTask \/ EndPull
    \/ StartIngest \/ Ingest \/ IngestFails \/ Ingested
    \/ Materialize \/ Retry \/ Crash \/ Outside

\* The v2 pulls and receive_chunks wait for the peer without a timeout: for its
\* manifests, for each chunk and, when all went well, for the receipt.
OnPeer ==
    \/ phase \in {"manifest", "pull"}
    \/ phase = "receive" /\ step = "recv" /\ expected # <<>>
    \/ phase = "receive" /\ step = "closed" /\ ~failed

\* Every other wait is for a task of this process or, in a fill, has a timeout.
Fairness ==
    /\ WF_vars(NothingMissing \/ NoSwarm \/ StartFill) /\ WF_vars(FillStep) /\ WF_vars(EndFill)
    /\ WF_vars(~OnPeer /\ (StartReceive \/ ReceiveStep \/ EndPull)) /\ WF_vars(WriteTask)
    /\ WF_vars(StartIngest \/ Ingest \/ IngestFails \/ Ingested)

Spec == Init /\ [][Next]_vars /\ Fairness

-----------------------------------------------------------------------------
\* WritesKeepReserve: leaving aside what other programs took, no write of the
\* transfer brings the disk below the configured reserve plus, on a shared
\* filesystem, the destination bytes still to be written (DiskAdmission, the
\* admission of all missing bytes in pull_record_connected, write_lock in
\* swarm_store_chunks_on), although a batch is admitted while others are
\* still unwritten.
WritesKeepReserve ==
    [][free' < free /\ outside' = outside =>
          free' + outside >= Reserve + (IF shared /\ phase' # "done" THEN Destination ELSE 0)]_vars

\* ImplementsStaging: the detailed transfer, with its sources, retries, batches
\* and tasks, is a staging attempt: chunks enter the store only while it runs
\* (no write outlives the transfer that started it), it reports staged only
\* with every chunk intact, and it returns whatever the swarm sources do,
\* unless the peer it pulls from, or that pushes, leaves it waiting for ever.
Attempt == CASE phase = "done" -> "staged"
             [] phase \in Resting \ {"done"} -> phase
             [] phase \notin Resting -> IF OnPeer THEN "asking" ELSE "busy"
S == INSTANCE Staging WITH have <- Chunk \ Missing, attempt <- Attempt
ImplementsStaging == S!Spec
=============================================================================
