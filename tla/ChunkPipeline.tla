--------------------------- MODULE ChunkPipeline ---------------------------
(***************************************************************************)
(* Receiving chunks over one stream into the store (receive_chunks,        *)
(* pull_record_connected and ChunkWritePipeline, deltaweave-net lib.rs):   *)
(* several batches are written by blocking tasks while the next chunks     *)
(* arrive, within bounds on the tasks and on the bytes in memory.          *)
(***************************************************************************)
EXTENDS ChunkStore, Sequences, SequencesExt

CONSTANTS
    Manifest,     \* the chunks in the order of the manifest
    Batch,        \* CHUNK_WRITE_BATCH
    MaxInflight,  \* CHUNK_WRITE_CONCURRENCY
    MaxQueued     \* CHUNK_WRITE_MAX_QUEUED_BYTES

ASSUME PipelineAssumption ==
    /\ Manifest \in Seq(Chunk) /\ Range(Manifest) = Chunk
    /\ Batch \in Nat \ {0} /\ MaxInflight \in Nat \ {0} /\ MaxQueued \in Nat \ {0}

\* A write task: its batch, what it has still to install, how it ended.
Write == [batch: Seq(Chunk), todo: Seq(Chunk), at: {"run", "ok", "err"}]

VARIABLES
    step,         \* where the receiving side is
    expected,     \* chunks still to come
    pending,      \* verified chunks not yet given to a task
    inflight,     \* the write tasks, oldest first
    failed        \* an error was met

pipe == <<step, expected, pending, inflight, failed>>
Step == {"closed", "recv", "push", "flush", "drain", "finish", "close"}

Length(chunks) == FoldSeq(LAMBDA c, n : n + Size[c], 0, chunks)
Load(tasks) == FoldSeq(LAMBDA w, n : n + Length(w.batch), 0, tasks)
Queued == Length(pending) + Load(inflight)

\* The bounds of the pipeline are part of its type: tasks, chunks of a batch,
\* and the bytes in memory, one larger chunk apart.
PipeTypeOK ==
    /\ step \in Step /\ failed \in BOOLEAN
    /\ expected \in Seq(Chunk) /\ pending \in Seq(Chunk) /\ inflight \in Seq(Write)
    /\ Len(inflight) <= MaxInflight /\ Len(pending) <= Batch
    /\ Queued <= MaxQueued \/ Len(pending) + Len(inflight) <= 1

PipeIdle ==
    step = "closed" /\ expected = <<>> /\ pending = <<>> /\ inflight = <<>> /\ failed = FALSE
PipeReset ==
    step' = "closed" /\ expected' = <<>> /\ pending' = <<>> /\ inflight' = <<>> /\ failed' = FALSE

\* missing_chunks names each missing chunk once, in the manifest's order.
InOrder(missing) ==
    FoldLeft(LAMBDA q, c : IF c \in missing /\ c \notin Range(q) THEN Append(q, c) ELSE q,
             <<>>, Manifest)

OpenPipe(missing) ==
    /\ step' = "recv" /\ failed' = FALSE
    /\ expected' = InOrder(missing)
    /\ UNCHANGED <<pending, inflight>>

-----------------------------------------------------------------------------
\* The next chunk arrives, with the expected hash and length and the bytes
\* that hash to it, and is handed to push.
Receive ==
    /\ step = "recv" /\ expected # <<>>
    /\ step' = "push"
    /\ UNCHANGED <<expected, pending, inflight, failed, store>>

\* The stream ends, or brings another chunk, length or content.
ReceiveFails ==
    /\ step = "recv" /\ expected # <<>>
    /\ step' = "finish" /\ failed' = TRUE
    /\ UNCHANGED <<expected, pending, inflight, store>>

ReceivedAll ==
    /\ step = "recv" /\ expected = <<>>
    /\ step' = "finish"
    /\ UNCHANGED <<expected, pending, inflight, failed, store>>

\* flush_pending with room for a task: the batch is checked against the free
\* space of this moment; a refused batch is dropped.
Flush(then) ==
    /\ Len(inflight) < MaxInflight
    /\ pending' = <<>> /\ UNCHANGED <<expected, store>>
    /\ IF CheckState(Length(pending))
       THEN /\ inflight' = Append(inflight, [batch |-> pending, todo |-> pending, at |-> "run"])
            /\ step' = then /\ UNCHANGED failed
       ELSE /\ step' = "finish" /\ failed' = TRUE /\ UNCHANGED inflight

\* join_oldest: on an error it waits for all the other tasks before it returns.
JoinOldest(then) ==
    /\ inflight # <<>> /\ Head(inflight).at # "run"
    /\ inflight' = Tail(inflight)
    /\ IF Head(inflight).at = "ok" THEN step' = then /\ UNCHANGED failed
       ELSE step' = "drain" /\ failed' = TRUE
    /\ UNCHANGED <<expected, pending, store>>

Full == Queued + Size[Head(expected)] > MaxQueued

\* push: make room, then queue the chunk.
MakeRoom ==
    /\ step = "push" /\ Full
    /\ IF pending # <<>> /\ Len(inflight) < MaxInflight
       THEN Flush("push") ELSE JoinOldest("push")

\* Mutant: the chunk is queued before there is room for it.
QueueAtOnce ==
    /\ step = "push"
    /\ pending' = Append(pending, Head(expected)) /\ expected' = Tail(expected)
    /\ step' = IF Len(pending') >= Batch THEN "flush" ELSE "recv"
    /\ UNCHANGED <<inflight, failed, store>>

Queue ==
    /\ step = "push" /\ (Full => pending = <<>> /\ inflight = <<>>)
    /\ pending' = Append(pending, Head(expected)) /\ expected' = Tail(expected)
    /\ step' = IF Len(pending') >= Batch \/ Queued + Size[Head(expected)] > MaxQueued
               THEN "flush" ELSE "recv"
    /\ UNCHANGED <<inflight, failed, store>>

FlushBatch ==
    /\ step = "flush"
    /\ IF Len(inflight) >= MaxInflight THEN JoinOldest("flush") ELSE Flush("recv")

\* join_oldest has failed; the error ends the receiving part (or, when finish
\* was flushing, finish), with every task joined.
Drain ==
    /\ step = "drain" /\ \A i \in DOMAIN inflight : inflight[i].at # "run"
    /\ inflight' = <<>> /\ step' = "finish"
    /\ UNCHANGED <<expected, pending, failed, store>>

\* finish: one last flush, whose error is kept; then every task is joined.
FinishFlush ==
    /\ step = "finish" /\ pending # <<>>
    /\ IF Len(inflight) >= MaxInflight
       THEN /\ Head(inflight).at # "run"
            /\ inflight' = Tail(inflight)
            /\ IF Head(inflight).at = "ok" THEN UNCHANGED <<step, pending, failed>>
               ELSE step' = "close" /\ failed' = TRUE /\ pending' = <<>>
            /\ UNCHANGED <<expected, store>>
       ELSE Flush("close")

\* Mutant: finish returns its first error without joining the tasks left.
FinishAtOnce ==
    /\ step \in {"finish", "close"} /\ pending = <<>>
    /\ failed \/ \A i \in DOMAIN inflight : inflight[i].at # "run"
    /\ step' = "closed"
    /\ failed' = (failed \/ \E i \in DOMAIN inflight : inflight[i].at = "err")
    /\ UNCHANGED <<expected, pending, inflight, store>>

Finish ==
    /\ step \in {"finish", "close"} /\ pending = <<>>
    /\ \A i \in DOMAIN inflight : inflight[i].at # "run"
    /\ step' = "closed" /\ inflight' = <<>>
    /\ failed' = (failed \/ \E i \in DOMAIN inflight : inflight[i].at = "err")
    /\ UNCHANGED <<expected, pending, store>>

-----------------------------------------------------------------------------
(* The blocking tasks (put_validated_batch). *)

task == <<step, expected, pending, failed>>

WriteChunk(i) ==
    /\ inflight[i].at = "run" /\ inflight[i].todo # <<>>
    /\ Install(Head(inflight[i].todo))
    /\ inflight' = [inflight EXCEPT ![i].todo = Tail(@)]
    /\ UNCHANGED task

\* The parents of what was installed are fsynced, after an error too.
WriteEnds(i) ==
    /\ inflight[i].at = "run" /\ inflight[i].todo = <<>>
    /\ Sync(Range(inflight[i].batch))
    /\ inflight' = [inflight EXCEPT ![i].at = "ok"]
    /\ UNCHANGED task

WriteFails(i) ==
    /\ inflight[i].at = "run"
    /\ Sync(Range(inflight[i].batch) \ Range(inflight[i].todo))
    /\ inflight' = [inflight EXCEPT ![i].at = "err"]
    /\ UNCHANGED task

Writing == {Head(w.todo) : w \in {v \in Range(inflight) : v.at = "run" /\ v.todo # <<>>}}

Task(i) == WriteChunk(i) \/ WriteEnds(i) \/ WriteFails(i)
Receiver ==
    \/ Receive \/ ReceiveFails \/ ReceivedAll
    \/ MakeRoom \/ Queue \/ FlushBatch \/ Drain \/ FinishFlush \/ Finish

=============================================================================
