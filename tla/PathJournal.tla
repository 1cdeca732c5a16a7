---------------------------- MODULE PathJournal ----------------------------
(***************************************************************************)
(* The preservation journal of deltaweave-store (preservation.rs) together *)
(* with the callers that drive it: the v1 push handler, the v2 causal      *)
(* handlers and local apply, and the start-up / per-operation recovery of  *)
(* deltaweave-net (recover_causal_index_with).                             *)
(*                                                                         *)
(* One destination path of one root.  The apply lock and the               *)
(* materialization lock serialise the program, so it is one process with a *)
(* program counter; every durable write (a rename, a redb commit) is a     *)
(* step of its own, and between any two of them a local user may edit the  *)
(* path, the process may crash, or an owner may revoke the peer.           *)
(*                                                                         *)
(* A filesystem location holds at most one object and is the set of the    *)
(* objects it holds: {} or {o}.  Readonly flags, symlinks and parent       *)
(* directories are left out.                                               *)
(***************************************************************************)
EXTENDS Naturals

CONSTANTS
    Attempt,      \* identities of journalled attempts
    NoAttempt,    \* no attempt is being worked on
    RemoteData,   \* contents a peer may send, as numbers
    PushV1,       \* the root also serves the v1 push protocol
    Shared,       \* the root is an owner share: peers can be revoked
    Repush,       \* peers may push a record the index already holds
    MaxWrites,    \* bound on edits of the local user
    MaxCrashes,   \* bound on crashes
    MaxFaults,    \* bound on failed commits after an installation
    MaxVer        \* bound on the versions identical v1 pushes may author

ASSUME ConstantsAssumption ==
    /\ NoAttempt \notin Attempt
    /\ RemoteData \subseteq Nat
    /\ PushV1 \in BOOLEAN /\ Shared \in BOOLEAN /\ Repush \in BOOLEAN
    /\ MaxWrites \in Nat /\ MaxCrashes \in Nat /\ MaxFaults \in Nat /\ MaxVer \in Nat
    /\ ~(PushV1 /\ Shared)

-----------------------------------------------------------------------------
(* Objects, index rows and journal entries. *)

\* Content of an object: written by the user, sent by a peer, or none (an
\* empty directory).  Every user write has a fresh number.
Data == [by: {"none", "user", "remote"}, n: Nat]
NoData == [by |-> "none", n |-> 0]

\* What PathObservation captures: file identity, kind and content.
Obj == [ino: Nat, kind: {"file", "dir"}, data: Data]

\* An index row: "none" is a path never indexed, "absent" a tombstone.  ver
\* grows along the path's causal history, by names the author of the event.
Row == [kind: {"none", "absent", "file", "dir"}, data: Data, ver: Nat,
        by: {"none", "scan", "push", "remote"}]
NoRow == [kind |-> "none", data |-> NoData, ver |-> 0, by |-> "none"]

PathChangeState == {"Unused", "Prepared", "Preserved", "Materialized", "Indexed",
                    "Committed", "Aborted", "RollingBack", "RolledBack"}

\* record is the target (and, once bound, the causal record), pre the index
\* row it was prepared against.
PathChange == [state: PathChangeState, expected: SUBSET Obj, record: Row,
               pre: Row, bound: BOOLEAN, metaOnly: BOOLEAN]
UnusedChange == [state |-> "Unused", expected |-> {}, record |-> NoRow,
                 pre |-> NoRow, bound |-> FALSE, metaOnly |-> FALSE]

Steps == {"down", "idle", "recover", "recovered", "ready", "stage", "bind",
          "check", "capture", "verify", "install", "place", "record", "observe",
          "adopt", "marking", "commit", "restore", "abandon", "resume",
          "rollback", "withdraw", "withdrawn", "reinstate", "rolled"}

VARIABLES
    dest,         \* the destination path
    artifact,     \* attempt -> captured original in the vault
    staging,      \* attempt -> verified incoming file
    rollback,     \* attempt -> incoming object withdrawn by a rollback
    journal,      \* attempt -> durable PathChange
    idx,          \* durable index row of the path
    pc, cur, task, seen,           \* volatile program state
    revoked, gone,                 \* denial persisted; revoke_member returned
    clock, writes, crashes, faults, \* fresh numbers and bounds
    owed,         \* history: user contents the user has not removed
    history,      \* history: every row the index ever held
    adopted       \* history: attempts whose own adoption reached the index

store == <<artifact, staging, rollback, journal>>
proc == <<pc, cur, task, seen>>
env == <<revoked, gone, writes, crashes, faults, owed>>
index == <<idx, history, adopted>>
vars == <<dest, store, index, proc, env, clock>>

-----------------------------------------------------------------------------
(* Predicates the handlers test. *)

IsDir(l) == \E o \in l : o.kind = "dir"

\* PathObservation::matches_record
Matches(l, row) ==
    \E o \in l : o.kind = row.kind /\ (row.kind = "file" => o.data = row.data)

\* The destination shows exactly what the row says (adoption, scan).
Shows(l, row) == IF row.kind \in {"none", "absent"} THEN l = {} ELSE Matches(l, row)

Detaches(c) == c.expected # {} /\ ~c.metaOnly

\* validate_change: a captured original must still be in the vault.
Valid(i) ==
    LET c == journal[i] IN
    (c.state \in {"Preserved", "Materialized", "Indexed", "Committed"} /\ Detaches(c))
        => \E a \in artifact[i], e \in c.expected : a.ino = e.ino

\* Mutant: the sweep also takes an installed attempt that has no binding.
UnboundInstalled(i) ==
    journal[i].state \in {"Prepared", "Preserved", "Materialized"} /\ ~journal[i].bound

Unbound(i) == journal[i].state \in {"Prepared", "Preserved"} /\ ~journal[i].bound
SweepDone == \A i \in Attempt :
                Valid(i) /\ ~Unbound(i) /\ journal[i].state # "Indexed"

\* Mutant: a captured attempt is taken for a finished one.
TerminalWhenCaptured == {"Unused", "Preserved", "Committed", "Aborted", "RolledBack"}

Terminal == {"Unused", "Committed", "Aborted", "RolledBack"}
Pending(i) == journal[i].bound /\ journal[i].state \notin Terminal

\* Mutant: every installed attempt of the path is completed, whatever was indexed.
CompletesAny(i) == journal[i].state = "Materialized"

\* mark_record_indexed: the Materialized attempts that the indexed row completes.
Completes(i) ==
    LET c == journal[i] IN
    /\ c.state = "Materialized"
    /\ c.record.kind = idx.kind /\ c.record.data = idx.data
    /\ c.bound => c.record = idx

-----------------------------------------------------------------------------
Init ==
    /\ dest = {}
    /\ artifact = [i \in Attempt |-> {}]
    /\ staging = [i \in Attempt |-> {}]
    /\ rollback = [i \in Attempt |-> {}]
    /\ journal = [i \in Attempt |-> UnusedChange]
    /\ idx = NoRow /\ history = {} /\ adopted = {}
    /\ pc = "down" /\ task = "apply" /\ seen = {}
    /\ cur = NoAttempt
    /\ revoked = FALSE /\ gone = FALSE
    /\ clock = 1 /\ writes = 0 /\ crashes = 0 /\ faults = 0 /\ owed = {}

At(step) == pc = step
Goto(step) == pc' = step /\ UNCHANGED <<cur, task, seen>>
Return(step) == pc' = step /\ cur' = NoAttempt /\ task' = "apply" /\ seen' = {}
Fail == Return("idle")        \* the operation returns its error to the caller
SetState(i, s) == journal' = [journal EXCEPT ![i].state = s]

-----------------------------------------------------------------------------
(* Recovery: recover_path_changes, then recover_causal_index_with. *)

\* Every start-up, handler and synchronization pass recovers before it scans.
Restart == At("down") /\ Goto("recover") /\ UNCHANGED <<dest, store, index, env, clock>>
StartPass == At("idle") /\ Goto("recover") /\ UNCHANGED <<dest, store, index, env, clock>>

\* recover_path_changes: an attempt without a causal binding is aborted ...
SweepUnbound(i) ==
    /\ At("recover") /\ Valid(i) /\ Unbound(i)
    /\ pc' = "restore" /\ cur' = i /\ task' = "sweep"
    /\ UNCHANGED <<dest, store, index, seen, env, clock>>

\* ... and an indexed one is committed.
SweepIndexed(i) ==
    /\ At("recover") /\ Valid(i) /\ journal[i].state = "Indexed"
    /\ SetState(i, "Committed")
    /\ UNCHANGED <<dest, artifact, staging, rollback, index, proc, env, clock>>

\* What recover_causal_index_with refuses: the error ends the whole operation.
Refuses(i) ==
    LET c == journal[i] IN
    \/ ~Valid(i)
    \/ /\ SweepDone /\ Pending(i)
       /\ \/ idx = c.record /\ c.state # "Materialized"
          \/ idx # c.record /\ idx # c.pre

RecoverRefuse ==
    /\ At("recover") /\ \E i \in Attempt : Refuses(i)
    /\ Fail /\ UNCHANGED <<dest, store, index, env, clock>>

Recoverable(i) == At("recover") /\ SweepDone /\ Pending(i)

\* The row is already the target: only the journal is behind.
RecoverMark(i) ==
    /\ Recoverable(i) /\ idx = journal[i].record /\ journal[i].state = "Materialized"
    /\ pc' = "marking" /\ cur' = i /\ task' = "resume"
    /\ UNCHANGED <<dest, store, index, seen, env, clock>>

\* Mutant: recovery does not compare the index row with the binding.
RecoverDecideBlind(i) ==
    /\ Recoverable(i)
    /\ pc' = IF journal[i].state = "RollingBack" \/ revoked THEN "rollback" ELSE "resume"
    /\ cur' = i /\ task' = "resume"
    /\ UNCHANGED <<dest, store, index, seen, env, clock>>

\* Mutant: recovery resumes an attempt without asking whether its peer is revoked.
RecoverDecideUnauthorized(i) ==
    /\ Recoverable(i) /\ idx # journal[i].record /\ idx = journal[i].pre
    /\ pc' = IF journal[i].state = "RollingBack" THEN "rollback" ELSE "resume"
    /\ cur' = i /\ task' = "resume"
    /\ UNCHANGED <<dest, store, index, seen, env, clock>>

\* RollingBack is finished; an attempt of a revoked peer is rolled back;
\* any other is resumed.
RecoverDecide(i) ==
    /\ Recoverable(i) /\ idx # journal[i].record /\ idx = journal[i].pre
    /\ pc' = IF journal[i].state = "RollingBack" \/ revoked THEN "rollback" ELSE "resume"
    /\ cur' = i /\ task' = "resume"
    /\ UNCHANGED <<dest, store, index, seen, env, clock>>

RecoverDone ==
    /\ At("recover") /\ SweepDone /\ \A i \in Attempt : ~Pending(i)
    /\ Goto("recovered") /\ UNCHANGED <<dest, store, index, env, clock>>

(* resume_path_change *)
\* Staging is written before the binding is, so a bound attempt has it.
ResumePrepared ==
    /\ At("resume") /\ journal[cur].state = "Prepared"
    /\ UNCHANGED <<dest, artifact, staging, rollback, index, env, clock>>
    /\ \/ /\ artifact[cur] # {} /\ artifact[cur] = journal[cur].expected
          /\ SetState(cur, "Preserved") /\ UNCHANGED proc
       \/ /\ artifact[cur] # {} /\ artifact[cur] # journal[cur].expected
          /\ Fail /\ UNCHANGED journal
       \/ artifact[cur] = {} /\ Goto("check") /\ UNCHANGED journal

ResumePreserved ==
    /\ At("resume") /\ journal[cur].state = "Preserved"
    /\ UNCHANGED <<dest, artifact, staging, rollback, index, env, clock>>
    /\ IF Shows(dest, journal[cur].record)
       THEN SetState(cur, "Materialized") /\ Goto("observe")
       ELSE Goto("install") /\ UNCHANGED journal

ResumeMaterialized ==
    /\ At("resume") /\ journal[cur].state = "Materialized"
    /\ Goto("observe") /\ UNCHANGED <<dest, store, index, env, clock>>

-----------------------------------------------------------------------------
(* Scan and the start of an application. *)

\* LocalIndex::scan at this path: a difference is authored as a local event.
ScannedRow ==
    [kind |-> IF dest = {} THEN "absent" ELSE IF IsDir(dest) THEN "dir" ELSE "file",
     data |-> IF dest = {} \/ IsDir(dest) THEN NoData ELSE (CHOOSE o \in dest : TRUE).data,
     ver |-> idx.ver + 1, by |-> "scan"]

Scan ==
    /\ At("recovered") /\ Goto("ready")
    /\ IF Shows(dest, idx)
       THEN UNCHANGED <<idx, history>>
       ELSE idx' = ScannedRow /\ history' = history \cup {idx'}
    /\ UNCHANGED <<dest, store, adopted, env, clock>>

\* The pass has nothing to apply here, or is rejected before it prepares.
EndPass == At("ready") /\ Fail /\ UNCHANGED <<dest, store, index, env, clock>>

PushRejected ==
    /\ At("recovered") /\ PushV1 /\ Fail
    /\ UNCHANGED <<dest, store, index, env, clock>>

\* ensure_causally_applicable admits a record that follows the row, or the
\* row itself again.
Incoming ==
    {[kind |-> "file", data |-> [by |-> "remote", n |-> d], ver |-> idx.ver + 1,
      by |-> "remote"] : d \in RemoteData}
    \cup {[kind |-> k, data |-> NoData, ver |-> idx.ver + 1, by |-> "remote"] :
          k \in {"dir", "absent"}}
    \cup {r \in {idx} : Repush /\ r.kind # "none"}

\* prepare_path_change refuses a directory with children unless it stays.
DirectoryNotEmpty(r) == r.kind # "dir" /\ \E o \in dest : o.kind = "dir" /\ o.data # NoData

Prepare(i, r) ==
    /\ journal[i].state = "Unused"
    /\ ~DirectoryNotEmpty(r)
    /\ journal' = [journal EXCEPT ![i] =
                     [state |-> "Prepared", expected |-> dest, record |-> r,
                      pre |-> idx, bound |-> FALSE, metaOnly |-> FALSE]]
    /\ pc' = IF r.kind = "file" THEN "stage" ELSE "bind"
    /\ cur' = i /\ task' = "apply"
    /\ UNCHANGED <<dest, artifact, staging, rollback, index, seen, env, clock>>

\* apply_causal_record, up to the first put_change.
BeginCausal(i, r) ==
    /\ At("ready") /\ ~revoked
    /\ Shows(dest, idx)
    /\ Prepare(i, r)

\* Store::materialize for the v1 push: no scan, no index precondition.
BeginPush(i, d) ==
    /\ At("recovered") /\ PushV1
    /\ LET r == [kind |-> "file", data |-> [by |-> "remote", n |-> d],
                 ver |-> idx.ver + 1, by |-> "push"]
       IN ~Matches(dest, r) /\ Prepare(i, r)

\* ... whose already-current fast path journals nothing and is adopted.
PushCurrent(d) ==
    /\ At("recovered") /\ PushV1 /\ idx.ver < MaxVer
    /\ LET r == [kind |-> "file", data |-> [by |-> "remote", n |-> d],
                 ver |-> idx.ver + 1, by |-> "push"]
       IN Matches(dest, r) /\ idx' = r /\ history' = history \cup {r}
    /\ pc' = "marking" /\ task' = "apply"
    /\ UNCHANGED <<dest, store, adopted, cur, seen, env, clock>>

WriteStaging ==
    /\ At("stage")
    /\ staging' = [staging EXCEPT ![cur] =
                     {[ino |-> clock, kind |-> "file", data |-> journal[cur].record.data]}]
    /\ clock' = clock + 1
    /\ Goto(IF journal[cur].record.by = "push" THEN "check" ELSE "bind")
    /\ UNCHANGED <<dest, artifact, rollback, journal, index, env>>

\* The second put_change of apply_causal_record.
Bind ==
    /\ At("bind")
    /\ LET c == journal[cur] IN
       journal' = [journal EXCEPT ![cur] =
                     [c EXCEPT !.bound = TRUE,
                               !.metaOnly = c.record.kind = "dir" /\ IsDir(c.expected)]]
    /\ Goto("check")
    /\ UNCHANGED <<dest, artifact, staging, rollback, index, env, clock>>

-----------------------------------------------------------------------------
(* capture_path_change *)

AfterCapture == IF task = "resume" THEN "resume" ELSE "install"

\* A changed destination is an error that leaves the attempt Prepared.
CaptureCheck ==
    /\ At("check")
    /\ UNCHANGED <<dest, artifact, staging, rollback, index, env, clock>>
    /\ IF \/ dest # journal[cur].expected
          \/ journal[cur].record.kind = "file" /\ staging[cur] = {}
       THEN Fail /\ UNCHANGED journal
       ELSE IF Detaches(journal[cur])
            THEN Goto("capture") /\ UNCHANGED journal
            ELSE SetState(cur, "Preserved") /\ Goto(AfterCapture)

\* rename_noreplace(destination, artifact)
CaptureMove ==
    /\ At("capture")
    /\ UNCHANGED <<staging, rollback, journal, index, env, clock>>
    /\ IF dest # {} /\ artifact[cur] = {}
       THEN /\ artifact' = [artifact EXCEPT ![cur] = dest] /\ dest' = {}
            /\ Goto("verify")
       ELSE Fail /\ UNCHANGED <<dest, artifact>>

CaptureVerify ==
    /\ At("verify")
    /\ UNCHANGED <<dest, artifact, staging, rollback, index, env, clock>>
    /\ IF artifact[cur] = journal[cur].expected
       THEN SetState(cur, "Preserved") /\ Goto(AfterCapture)
       ELSE Goto("restore") /\ UNCHANGED journal

(* materialize_path_change *)

InstallCheck ==
    /\ At("install")
    /\ Goto(IF Detaches(journal[cur]) /\ artifact[cur] # journal[cur].expected
            THEN "restore" ELSE "place")
    /\ UNCHANGED <<dest, store, index, env, clock>>

\* Mutant: the installation is a plain rename, which replaces an occupant.
PlaceFileReplacing ==
    /\ At("place") /\ journal[cur].record.kind = "file" /\ staging[cur] # {}
    /\ dest' = staging[cur] /\ staging' = [staging EXCEPT ![cur] = {}]
    /\ Goto("record") /\ UNCHANGED <<artifact, rollback, journal, index, env, clock>>

\* Nothing is ever installed over an occupant; staging must still be there (a
\* crash after the rename may have left the target installed and then deleted).
PlaceFile ==
    /\ At("place") /\ journal[cur].record.kind = "file" /\ staging[cur] # {}
    /\ dest = {}
    /\ dest' = staging[cur] /\ staging' = [staging EXCEPT ![cur] = {}]
    /\ Goto("record") /\ UNCHANGED <<artifact, rollback, journal, index, env, clock>>

PlaceDirectory ==
    /\ At("place") /\ journal[cur].record.kind = "dir" /\ ~journal[cur].metaOnly
    /\ dest = {}
    /\ dest' = {[ino |-> clock, kind |-> "dir", data |-> NoData]} /\ clock' = clock + 1
    /\ Goto("record") /\ UNCHANGED <<store, index, env>>

PlaceNothing ==
    /\ At("place")
    /\ \/ journal[cur].metaOnly /\ dest = journal[cur].expected
       \/ journal[cur].record.kind = "absent" /\ dest = {}
    /\ Goto("record") /\ UNCHANGED <<dest, store, index, env, clock>>

PlaceRefused ==
    /\ At("place")
    /\ \/ journal[cur].metaOnly /\ dest # journal[cur].expected
       \/ ~journal[cur].metaOnly /\ dest # {}
       \/ journal[cur].record.kind = "file" /\ staging[cur] = {}
    /\ Goto("restore") /\ UNCHANGED <<dest, store, index, env, clock>>

\* put_manifest or the parent fsync fails after the namespace changed.
PlaceFault ==
    /\ At("record") /\ faults < MaxFaults /\ faults' = faults + 1
    /\ Goto("restore")
    /\ UNCHANGED <<dest, store, index, revoked, gone, writes, crashes, owed, clock>>

RecordMaterialized ==
    /\ At("record") /\ SetState(cur, "Materialized") /\ Goto("observe")
    /\ UNCHANGED <<dest, artifact, staging, rollback, index, env, clock>>

\* Mutant: the original is put back beside an occupant.
RestoreBeside ==
    /\ At("restore") /\ Goto("abandon")
    /\ dest' = dest \cup artifact[cur] /\ artifact' = [artifact EXCEPT ![cur] = {}]
    /\ UNCHANGED <<staging, rollback, journal, index, env, clock>>

(* abort_path_change: restore into an absent destination only. *)
Restore ==
    /\ At("restore") /\ Goto("abandon")
    /\ IF artifact[cur] # {} /\ dest = {}
       THEN dest' = artifact[cur] /\ artifact' = [artifact EXCEPT ![cur] = {}]
       ELSE UNCHANGED <<dest, artifact>>
    /\ UNCHANGED <<staging, rollback, journal, index, env, clock>>

Abandon ==
    /\ At("abandon") /\ SetState(cur, "Aborted")
    /\ Return(IF task = "sweep" THEN "recover" ELSE "idle")
    /\ UNCHANGED <<dest, artifact, staging, rollback, index, env, clock>>

-----------------------------------------------------------------------------
(* Adoption by the index and completion of the journal. *)

\* The handler re-authorizes and verifies the installed object.
Observe ==
    /\ At("observe")
    /\ IF Shows(dest, journal[cur].record) /\ ~(revoked /\ task = "apply")
       THEN Goto("adopt") ELSE Fail
    /\ UNCHANGED <<dest, store, index, env, clock>>

\* commit_adopted_record
Adopt ==
    /\ At("adopt") /\ Goto("marking")
    /\ idx' = journal[cur].record
    /\ history' = history \cup {idx'} /\ adopted' = adopted \cup {cur}
    /\ UNCHANGED <<dest, store, env, clock>>

\* mark_record_indexed after an application, mark_path_change_indexed in recovery.
ToMark == {i \in Attempt : Completes(i) /\ (task = "resume" => i = cur)}

MarkIndexed(i) ==
    /\ At("marking") /\ i \in ToMark
    /\ SetState(i, "Indexed")
    /\ pc' = "commit" /\ cur' = i
    /\ UNCHANGED <<dest, artifact, staging, rollback, index, task, seen, env, clock>>

\* Mutant: the commit purges the captured original.
MarkCommittedPurging ==
    /\ At("commit") /\ SetState(cur, "Committed") /\ Goto("marking")
    /\ artifact' = [artifact EXCEPT ![cur] = {}]
    /\ UNCHANGED <<dest, staging, rollback, index, env, clock>>

MarkCommitted ==
    /\ At("commit") /\ SetState(cur, "Committed") /\ Goto("marking")
    /\ UNCHANGED <<dest, artifact, staging, rollback, index, env, clock>>

MarkDone ==
    /\ At("marking") /\ ToMark = {}
    /\ Return(IF task = "resume" THEN "recover" ELSE "idle")
    /\ UNCHANGED <<dest, store, index, env, clock>>

-----------------------------------------------------------------------------
(* rollback_causal_change *)

SameIno(l, m) == \E o \in l, p \in m : o.ino = p.ino

\* Mutant: a rollback interrupted after its last rename is not recognised.
NothingToUndoForgetful(i) ==
    LET c == journal[i] IN
    \/ c.metaOnly /\ dest = c.expected
    \/ ~c.metaOnly /\ c.state = "Prepared" /\ artifact[i] = {} /\ dest = c.expected

\* Nothing is left to move back.
NothingToUndo(i) ==
    LET c == journal[i] IN
    \/ c.metaOnly /\ dest = c.expected
    \/ ~c.metaOnly /\ c.state = "Prepared" /\ artifact[i] = {} /\ dest = c.expected
    \/ ~c.metaOnly /\ c.state = "RollingBack" /\ artifact[i] = {} /\ SameIno(dest, c.expected)

\* The destination still holds the incoming object (or nothing), and the
\* vault the original.
CanUndo(i) ==
    LET c == journal[i] IN
    /\ ~c.metaOnly
    /\ IF dest # {}
       THEN Matches(dest, c.record) /\ rollback[i] = {}
       ELSE ~(c.state = "Materialized" /\ c.record.kind # "absent")
    /\ c.expected # {} => SameIno(artifact[i], c.expected)

RollbackSkip ==
    /\ At("rollback") /\ NothingToUndo(cur)
    /\ SetState(cur, "RolledBack") /\ Return("recover")
    /\ UNCHANGED <<dest, artifact, staging, rollback, index, env, clock>>

\* Mutant: an empty destination is taken for a restored one.
RollbackStartShort ==
    /\ At("rollback") /\ ~NothingToUndo(cur) /\ CanUndo(cur)
    /\ SetState(cur, "RollingBack")
    /\ seen' = dest /\ pc' = (IF dest # {} THEN "withdraw" ELSE "rolled")
    /\ UNCHANGED <<dest, artifact, staging, rollback, index, cur, task, env, clock>>

\* Mutant: objects move before RollingBack is journalled.
RollbackStartUnjournalled ==
    /\ At("rollback") /\ ~NothingToUndo(cur) /\ CanUndo(cur)
    /\ seen' = dest /\ pc' = (IF dest # {} THEN "withdraw" ELSE "reinstate")
    /\ UNCHANGED <<dest, store, index, cur, task, env, clock>>

RollbackStart ==
    /\ At("rollback") /\ ~NothingToUndo(cur) /\ CanUndo(cur)
    /\ SetState(cur, "RollingBack")
    /\ seen' = dest /\ pc' = (IF dest # {} THEN "withdraw" ELSE "reinstate")
    /\ UNCHANGED <<dest, artifact, staging, rollback, index, cur, task, env, clock>>

RollbackRefuse ==
    /\ At("rollback") /\ ~NothingToUndo(cur) /\ ~CanUndo(cur)
    /\ Fail /\ UNCHANGED <<dest, store, index, env, clock>>

\* Move the incoming object aside; it must be the one that was judged.
Withdraw ==
    /\ At("withdraw")
    /\ UNCHANGED <<artifact, staging, journal, index, env, clock>>
    /\ IF dest # {} /\ rollback[cur] = {}
       THEN /\ rollback' = [rollback EXCEPT ![cur] = dest] /\ dest' = {}
            /\ Goto("withdrawn")
       ELSE Fail /\ UNCHANGED <<dest, rollback>>

Withdrawn ==
    /\ At("withdrawn")
    /\ IF rollback[cur] = seen THEN Goto("reinstate") ELSE Fail
    /\ UNCHANGED <<dest, store, index, env, clock>>

\* Mutant: the original is restored over whatever holds the path.
ReinstateReplacing ==
    /\ At("reinstate")
    /\ IF journal[cur].expected = {}
       THEN UNCHANGED <<dest, artifact>>
       ELSE dest' = artifact[cur] /\ artifact' = [artifact EXCEPT ![cur] = {}]
    /\ Goto("rolled")
    /\ UNCHANGED <<staging, rollback, journal, index, env, clock>>

Reinstate ==
    /\ At("reinstate")
    /\ UNCHANGED <<staging, rollback, journal, index, env, clock>>
    /\ IF journal[cur].expected = {}
       THEN Goto("rolled") /\ UNCHANGED <<dest, artifact>>
       ELSE IF dest = {}
            THEN /\ dest' = artifact[cur]
                 /\ artifact' = [artifact EXCEPT ![cur] = {}] /\ Goto("rolled")
            ELSE Fail /\ UNCHANGED <<dest, artifact>>

Rolled ==
    /\ At("rolled") /\ SetState(cur, "RolledBack") /\ Return("recover")
    /\ UNCHANGED <<dest, artifact, staging, rollback, index, env, clock>>

-----------------------------------------------------------------------------
(* Environment: the local user, crashes and the owner. *)

Fresh == [by |-> "user", n |-> clock]
DataIn(l) == {o.data : o \in l}

UserStep ==
    /\ writes < MaxWrites /\ writes' = writes + 1 /\ clock' = clock + 1
    /\ UNCHANGED <<staging, rollback, journal, index, proc, revoked, gone, crashes, faults>>

\* A new object takes the path: created, or saved over the old one.
UserSave ==
    /\ UserStep /\ ~IsDir(dest)
    /\ dest' = {[ino |-> clock, kind |-> "file", data |-> Fresh]}
    /\ owed' = (owed \ DataIn(dest)) \cup {Fresh}
    /\ UNCHANGED artifact

UserMkdir ==
    /\ UserStep /\ dest = {}
    /\ dest' = {[ino |-> clock, kind |-> "dir", data |-> NoData]}
    /\ UNCHANGED <<artifact, owed>>

\* The object changes in place: a file is rewritten, a directory gains children.
UserEdit ==
    /\ UserStep /\ dest # {}
    /\ dest' = {[o EXCEPT !.data = Fresh] : o \in dest}
    /\ owed' = (owed \ DataIn(dest)) \cup {Fresh}
    /\ UNCHANGED artifact

UserDelete ==
    /\ UserStep /\ dest # {}
    /\ dest' = {} /\ owed' = owed \ DataIn(dest)
    /\ UNCHANGED artifact

\* A handle opened before the capture still writes to the captured object.
UserEditHeld(i) ==
    /\ UserStep /\ artifact[i] # {}
    /\ artifact' = [artifact EXCEPT ![i] = {[o EXCEPT !.data = Fresh] : o \in artifact[i]}]
    /\ owed' = (owed \ DataIn(artifact[i])) \cup {Fresh}
    /\ UNCHANGED dest

Crash ==
    /\ ~At("down") /\ crashes < MaxCrashes /\ crashes' = crashes + 1
    /\ Return("down")
    /\ UNCHANGED <<dest, store, index, clock, revoked, gone, writes, faults, owed>>

\* revoke_member: the denial is persisted at once, the call returns when the
\* gate has been free.
Revoke ==
    /\ Shared /\ ~revoked /\ revoked' = TRUE
    /\ UNCHANGED <<dest, store, index, proc, gone, writes, crashes, faults, owed, clock>>

RevokeReturns ==
    /\ revoked /\ ~gone /\ At("idle") /\ gone' = TRUE
    /\ UNCHANGED <<dest, store, index, proc, revoked, writes, crashes, faults, owed, clock>>

-----------------------------------------------------------------------------
Recovery ==
    \/ Restart \/ StartPass \/ RecoverRefuse \/ RecoverDone
    \/ \E i \in Attempt : SweepUnbound(i) \/ SweepIndexed(i) \/ RecoverMark(i)
                          \/ RecoverDecide(i)
    \/ ResumePrepared \/ ResumePreserved \/ ResumeMaterialized

Application ==
    \/ WriteStaging \/ Bind \/ CaptureCheck \/ CaptureMove \/ CaptureVerify
    \/ InstallCheck \/ PlaceFile \/ PlaceDirectory \/ PlaceNothing \/ PlaceRefused
    \/ RecordMaterialized \/ Restore \/ Abandon \/ Observe \/ Adopt
    \/ MarkCommitted \/ MarkDone \/ \E i \in Attempt : MarkIndexed(i)

Undo == RollbackSkip \/ RollbackStart \/ RollbackRefuse \/ Withdraw \/ Withdrawn
        \/ Reinstate \/ Rolled

\* A peer that pushes, or the pass that ends without anything to apply.
Choice ==
    \/ Scan \/ EndPass \/ PushRejected
    \/ \E i \in Attempt, r \in Incoming : BeginCausal(i, r)
    \/ \E i \in Attempt, d \in RemoteData : BeginPush(i, d)
    \/ \E d \in RemoteData : PushCurrent(d)

Environment ==
    \/ UserSave \/ UserMkdir \/ UserEdit \/ UserDelete
    \/ \E i \in Attempt : UserEditHeld(i)
    \/ PlaceFault \/ Crash \/ Revoke \/ RevokeReturns

Next == Recovery \/ Application \/ Undo \/ Choice \/ Environment

Spec == Init /\ [][Next]_vars

\* The program keeps running and the continuous mode keeps retrying passes;
\* nothing is assumed of the user, of crashes, of peers or of the owner.
Program == Recovery \/ Application \/ Undo \/ Scan \/ EndPass
FairSpec == Spec /\ WF_vars(Program)

-----------------------------------------------------------------------------
(* Properties *)

Location == SUBSET Obj
AtMostOne(l) == \A o, p \in l : o = p

\* Every variable has its type, and every location holds at most one object: no
\* rename of the journal ever puts a second object where one is.
TypeOK ==
    /\ dest \in Location /\ seen \in Location
    /\ artifact \in [Attempt -> Location]
    /\ staging \in [Attempt -> Location]
    /\ rollback \in [Attempt -> Location]
    /\ journal \in [Attempt -> PathChange]
    /\ idx \in Row /\ history \subseteq Row /\ adopted \subseteq Attempt
    /\ pc \in Steps /\ cur \in Attempt \cup {NoAttempt} /\ task \in {"apply", "resume", "sweep"}
    /\ revoked \in BOOLEAN /\ gone \in BOOLEAN
    /\ clock \in Nat /\ writes \in Nat /\ crashes \in Nat /\ faults \in Nat
    /\ owed \subseteq Data
    /\ AtMostOne(dest)
    /\ \A i \in Attempt :
          AtMostOne(artifact[i]) /\ AtMostOne(staging[i]) /\ AtMostOne(rollback[i])

Everywhere == dest \cup UNION {artifact[i] \cup rollback[i] : i \in Attempt}

\* Whatever the user wrote at the path and has not removed is still at the
\* path, in a captured artifact or in a rollback artifact, whichever renames
\* ran, failed or were cut short by a crash (capture, install, restore and
\* rollback of preservation.rs).
NoUserWriteLost == \A d \in owed : \E o \in Everywhere : o.data = d

\* An attempt whose record reached the index is never aborted or rolled back
\* afterwards: recovery compares the index row with the binding first.
AdoptedNeverUndone ==
    \A i \in adopted : journal[i].state \in {"Materialized", "Indexed", "Committed"}

\* The journal never claims a completion the index database did not commit.
CommittedWasIndexed ==
    \A i \in Attempt : journal[i].state \in {"Indexed", "Committed"} =>
        \E r \in history :
            /\ r.kind = journal[i].record.kind /\ r.data = journal[i].record.data
            /\ journal[i].bound => r = journal[i].record

\* The original displaced by an installed target stays in the vault under its
\* own identity ("never purges the captured object").
OriginalRetained ==
    \A i \in Attempt :
        (journal[i].state \in {"Materialized", "Indexed", "Committed"} /\ Detaches(journal[i]))
            => SameIno(artifact[i], journal[i].expected)

\* A finished rollback has put the original back: none is left in the vault.
RolledBackRestored ==
    \A i \in Attempt : journal[i].state = "RolledBack" => artifact[i] = {}

\* Bytes installed for a causal record are never taken for a local edit by a
\* scan, across crashes and recoveries.
RemoteNeverAuthored ==
    \A r \in history : r.by = "scan" => r.data.by # "remote"

\* Once revoke_member has returned, no attempt of the peer reaches the index.
NoAdoptionAfterRevoke == [][gone => adopted' = adopted]_vars

\* Every bound attempt is settled, whatever crash interrupted it.
RecoverySettles == \A i \in Attempt : Pending(i) ~> ~Pending(i)

\* A retried pass gets through recovery and scans the state that now exists.
RetryReconciles == At("idle") ~> At("ready")

\* Recovery never refuses a journal that only the program itself has written.
RecoveryIdempotent == At("recover") => \A i \in Attempt : ~Refuses(i)
=============================================================================
