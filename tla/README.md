# A TLA+ model of DeltaWeave

DeltaWeave keeps folders of several devices in step. A serving process owns a
root; clients run *passes* against it: scan, fetch the remote snapshot, merge,
stage contents, apply locally, push, verify. Every namespace change goes through
a durable *preservation journal*, so that a local file displaced by a remote one
is captured and never destroyed.

This directory holds TLA+ modules translated from the Rust source, TLC
configurations for small instances of them, and proofs checked by TLAPS.
`PROJECT.json` maps every definition to the source lines it models and lists runs,
mutants, hazards and theorems.

## 1. Inventory

| Component | State it keeps | Operations | Must be true |
|---|---|---|---|
| Preservation journal (`deltaweave-store/preservation.rs`) | redb table of path changes (Prepared, Preserved, Materialized, Indexed, Committed, Aborted, RollingBack, RolledBack), causal bindings, vault artifacts, staging files, rollback artifacts | prepare, bind, capture, install, abort, resume, roll back, mark indexed, sweep | user bytes are never lost; an adopted attempt is never undone; a completion in the journal happened |
| Causal application and recovery (`deltaweave-net/lib.rs`) | apply lock, index row per path | v1 push handler, v2 push and metadata handlers, `recover_causal_index_with` | journal and index, two databases, agree again after any crash |
| Reconciliation (`deltaweave-reconcile`) | none (pure) | merge, conflict resolution, conflict names, plan | symmetric, deterministic, admitted by the receiver, loses no bytes |
| Records (`deltaweave-core`) | none | version vectors, records, state hash | causal order |
| Local index (`deltaweave-index`) | rows, replica counter, retry queue, authoritative snapshot | scan with rename correlation, adopt, retry, watch | a counter is issued once; a version means one state |
| Synchronization pass (`deltaweave-sync/lib.rs`) | local and remote snapshot, plan, staged contents | `sync_once`, continuous mode | no edit overwritten unseen; replicas converge |
| Read-only and managed participants (`deltaweave-sync/{read_only,shared}.rs`) | journalled desired state, attempts and stages | authoritative pass and its resume | the root becomes the owner's snapshot, local data preserved |
| Share ownership (`deltaweave-net/share/*`) | catalog of shares, keys, members; live connections; gate | invite, enroll, authorize, revoke, drain | nothing of a revoked member is adopted after the revocation returned |
| Legacy server (`deltaweave-net/lib.rs`) | admission flag and guards, handlers, stream tasks | accept, admit, pause, resume, shutdown | a pause or shutdown that returned leaves nothing running on the root |
| Root admission (`deltaweave-net/root_admission.rs`) | registry of roots, leases, managed bindings, private reservations, markers | admit, prepare, commit, release | no two owners of overlapping roots, also across crashes |
| Chunk store and transfer (`deltaweave-store`, `deltaweave-net`) | content-addressed chunks, write pipeline, disk reserve | put, verified read, pipeline, disk admission | no unverified chunk is used; an error drains and fails the transfer |
| Swarm (`deltaweave-swarm`) | leases of chunks to sources | schedule, fill rounds | every missing chunk is retried elsewhere or reported |
| Chunker | none | content-defined chunking | chunks concatenate to the file |
| Control manager and worker (`deltaweave-control`) | folder slots, configuration, worker state | add, update, remove, pause, resume, sync, shutdown | configuration, view and worker agree |
| Web, CLI | none of their own | routing, printing | |

**Interactions.** A client's pass calls index, reconcile and store locally and
talks to the server's handlers. Each handler takes the server's apply lock,
recovers, scans, checks the causal precondition, runs the journal and adopts the
record in the index. In a share, a gate serialises application against
revocation. Local users edit every root without any lock.

**What is hard.** User edits between any two file operations; a crash between any
two commits, of which some go to the journal and some to the index; late writers
holding a handle of a captured file; passes of two clients planned on the same
snapshot; lost replies and repeated pushes; a revocation between installation and
adoption; conflict resolution that must not depend on who runs it. `PROJECT.json`
lists each at its line under "hazards".

## 2. Modules

| Module | Models |
|---|---|
| `PathJournal` | the journal at one path of one root, with its callers, recovery, a local user, crashes, failed commits and revocation |
| `Reconcile` | version vectors, records, the merge, conflict copies and the plan, as operators |
| `Merkle` | the Merkle comparison by which a client gets the server's snapshot, as operators; extends `Reconcile` |
| `Replicas` | a server and its clients: scan, pass, handlers; extends `Merkle` |
| `LocalScan` | one index: full and hinted scans against a changing tree, the watcher, the retry queue, adoption |
| `ReadOnly` | the pass of a read-only member, its checkpoint and its pending round |
| `RootAdmission` | leases, managed bindings, markers and private reservations of the host's registry |
| `ShareCatalog` | what an owner keeps of a share: invitations, members, replicas, ceilings, and the pushes that change them |
| `ShareSessions` | a served share: handlers and tracked connections against revocation, pause and resume |
| `LegacyServer` | a legacy server: v1, v2 and swarm handlers against pause, resume and shutdown |
| `Servers` | one root served in either way; extends `ShareSessions` and `LegacyServer` |
| `ChunkStore`, `SwarmFill`, `ChunkPipeline` | the chunk store; filling it from a swarm; filling it from one stream |
| `Transfer` | staging one file; extends (composes) the three above |
| `Staging` | the abstract specification of a staging attempt, which `Transfer` implements |
| `Control` | the manager: saved configuration, folder views, workers, concurrent operations |
| `PathJournalProofs`, `ReplicasProofs`, `LocalScanProofs`, `ReadOnlyProofs`, `OwnershipProofs`, `ServersProofs`, `ControlProofs`, `TransferProofs` | theorems |
| `MC*` | instances for TLC |

What is one step in one module is opened in another: `Replicas` and `ReadOnly`
install a record in one step, whose inside is `PathJournal`; staging is one step of
theirs, whose inside is `Transfer`; scanning is one step of `Replicas`, whose inside is
`LocalScan`; a push is a handful of steps of `ShareCatalog` and `ShareSessions`, the
first about what it may claim, the second about when it may still run.

### PathJournal

*State.* A filesystem location (`dest`, the vault's `artifact[i]`, `staging[i]`,
`rollback[i]`) is the set of objects it holds, so "two objects at one place" can
be expressed and refuted. An object has an identity, a kind and a content; every
user write has a fresh content. `journal[i]` is the durable entry of attempt `i`,
`idx` the durable index row. `pc`, `cur`, `task` and `seen` are lost in a crash.
`owed`, `history` and `adopted` are history variables that no guard reads.

*Steps.* The apply lock and the materialization lock serialise the program, so it
is one process; every rename and every commit is a step of its own and the
environment may act between any two of them:

- recovery: `Restart`, `StartPass`, `SweepUnbound`, `SweepIndexed`, `RecoverMark`,
  `RecoverDecide`, `RecoverRefuse`, `Resume*`, `RecoverDone`. It runs before every
  scan, at start-up and in every handler, so no other order is possible here;
- application: `BeginPush`/`BeginCausal`, `WriteStaging`, `Bind`, `Capture*`,
  `InstallCheck`, `Place*`, `RecordMaterialized`, `Restore`, `Abandon`, `Observe`,
  `Adopt`, `Mark*`;
- undo of a revoked peer's attempt: `Rollback*`, `Withdraw`, `Withdrawn`,
  `Reinstate`, `Rolled`;
- environment: `UserSave`, `UserMkdir`, `UserEdit`, `UserDelete`, `UserEditHeld`
  (a handle opened before the capture), `PlaceFault` (a failed commit or fsync
  after the rename), `Crash`, `Revoke`, `RevokeReturns`.

*Constants.* `PushV1`: the root serves the v1 protocol, whose attempts have no
causal binding. `Shared`: it is an owner share. The code never has both
(`ConstantsAssumption`). `Repush`: a peer may send a record the index already
holds.

Left out: readonly flags, symlinks, vault selection, path validation, parents.

### Reconcile

`MergeSnapshots`, `MergeRecord`, `ConflictPath`, `ActionsToReach` and
`Materializable` follow `merge_snapshots`, `resolve_conflict`,
`allocate_conflict_path`, `actions_to_reach` and
`validate_materializable_namespace`. `StateHash` is any injective order: the code
compares cryptographic digests. A conflict name is a record of the name, the
losing record and a serial, since the code derives it from that record's hash.

### Replicas

Each client runs one pass at a time (`Begin`, `Fetch`, `StageLocal`,
`StageRemote`, `Check`, `Apply`, `Push`, `VerifyLocal`, `VerifyRemote`). A server
request is one step, because it runs under the apply lock; applying one record is
one step, because `PathJournal` is about its inside. Users write, delete, move and
make directories at every root at any time; `Fail` ends a pass anywhere. A
filesystem entry remembers the row whose fingerprint it matches, which is what
rename correlation looks at. `Disturb = FALSE` excludes edits and failures at a
client that is in the middle of applying a plan (`ReplicasInterrupted.cfg` is about
exactly those).

`Fetch` goes through `Merkle`: the client queries the nodes of the server's tree that
differ from its own, keeps its own records below the others, and checks the
reconstructed tree against the root it was shown. A digest stands for the subtree it
is computed from (no collisions).

A scan hands out its counters in path order (`Ticks`): a parent before what is in it, names
by their stems. A conflict copy sorts before or after its original depending on the
extension, so there the model allows either order.

Left out: chunk transfer (`Transfer`), disk admission, permissions, unreadable files
(`LocalScan`).

### LocalScan

*State.* `disk` is the tree users see: each path holds a directory or a file with
inode, mtime, ctime and content; every write makes a new content and a new ctime, and
may keep the old mtime. `rows` and `retry` are the database, `events` and `rescan` the
watcher's queue, `scan` the one scan under way.

*Steps.* The walk lists one directory or looks at one path per step (`ScanStep` with
its parts), each file is opened, read and checked again in separate steps, and the
commit computes the difference with the rows read at the start. Between any two of
them users `Write`, `Mkdir`, `Remove`, `Rename`, make objects unreadable or names
unportable (`Disturb`), and the watcher loses events (`WatcherError`). `Adopt` commits
a peer's file between scans only: the gate excludes it while a scan runs.
`Reopen` changes the ignored paths, `Periodic` and `Trigger` start full and hinted
scans, `Tick` lets retry delays pass.

Left out: versions (`Replicas`), case collisions, symlinks, the table schema. The model
is that of Unix: without ctime a rename away and back during hashing could go
unnoticed.

### ReadOnly

*State.* The member's folder, the owner's records and an older backup of them, the
durable `checkpoint` and `pending` round, the path change under way for each path, the
vault, and the pass's own variables, lost when the process stops.

*Steps.* `PassStep` is the authoritative pass in its order: fetch and the rollback
check against checkpoint and pending round, finish interrupted changes, scan and plan,
stage, apply each path, adopt, finish; opening is part of it. The environment: the
owner edits, backs up and is restored; users edit the folder and write late through
open handles; `Shutdown` and `Crash`.

Each call on a path change (capture, install, abort) is its rename and then the put that
records it (`Record`), and a stop, a user's edit or a late write may fall between the
two. `Resume` is `resume_path_change` case by case.

Left out: directories; the write member, whose pass is that of `Replicas`; the
transport; an entry whose id was not yet saved with the round, which no pass looks at.

A change of an interrupted round may be refused by every later pass (`Refused`): it is
Prepared and its object was edited before or after the capture (the first
disagreement below), or it is Preserved and its object is not in the vault any more,
because a stop fell between the restoring rename of an abort and the put of Aborted (the
third). `Settles` excepts exactly these (`Blocked`) and an owner that went back.

### RootAdmission

*State.* The registry database (`entries`, `private`), the ownership `marker` beside
each managed root (absent, torn, or naming its owner), the OS `lease` on each root,
the registry lock and the admission under it.

*Steps.* `Begin` takes the lock; each entry is examined (`Skip`, `Pass`, `Deny`,
`Recover` of a half-made binding), expired entries are removed, the request is reserved,
and a managed request commits its intent, creates the marker, writes it and confirms
(`Reserve`, `Persist`, `CreateMarker`, `FillMarker`, `KeepMarker`, `RefuseMarker`,
`Confirm`), each a durable step. `Die` ends a process between any two of them;
`Release` and `RemoveRegistry` are the rest. Paths are canonical sequences of names;
normalisation and file formats are left out.

### ShareCatalog and ShareSessions

`ShareCatalog` has the catalog (`life`, `invitations`, `members`, `known`), the causal
metadata stored with the index (`ceilings`, `counters`, `pending`), the relationship
each device stored and the runtime. A push claims one counter; it is offered, takes the
gate, recovers, is checked against the ceilings, prepared, applied and adopted, and may
stop anywhere (`Crash`). Enrollment loses replies; a device may prove a replica that it
used before. Tickets, signatures and encodings always agree and are left out.

`ShareSessions` has the handlers of a served share with the point each has reached,
the tracked connections, the gate, the receive lock and the owner's calls. Every registry
read, lock and await is a step, so that a revocation may fall between any two of a
handler's. A handler may have to wait for its device (`OnPeer`: for the request, for the
chunks of a push, which keeps the receive lock, and for the end of an answer, which keeps
the gate), as long as the connection is open. The lost-wakeup question is in it: a call
listens for the notification before it looks at the map (`Listening`). What applying and
recovering do to a path is `PathJournal`'s.

### LegacyServer and Servers

*State.* The flag and the lifecycle mutex of `OperationAdmission`, what each accepted
connection and each swarm stream is doing, the calls of pause and resume, and how far a
shutdown is. The two tokio RwLocks are not variables: who reads them follows from
the handlers' steps (`Readers`, `Retained`).

*Steps.* A v1 or v2 connection arrives, is retained in a task of its own, takes a
permit, asks for admission, operates, waits for its connection to close and leaves. A
swarm connection loops over its streams and hands each admitted one to a task. Taking
the guard and reading the flag are two steps, as in `admit`. `ShutRouter` is external
(the iroh router): it ends the accept futures and leaves the spawned tasks alone.

A request task gives back `active_handlers` before its clone of the handler, and with
it the root's lease, is dropped (step `leaving`); a shutdown may return in between, and
a start at that moment is refused and has to be repeated. Swarm tasks are joined, so
for them the test's claim that shutdown "has released every retained root lease"
(`swarm_integration_tests.rs:149`) always holds.

`Servers` lets either kind of server run: `RootAdmission` keeps a root from having
both, so nothing of the two interleaves.

### Transfer and its parts

`ChunkStore` is content (absent, intact, rotten), entries not fsynced, free space and
the disk admission. `SwarmFill` is `swarm_fill_chunks_preconnected`: availability,
assignment to sources, concurrent fetches, one retry per chunk on the same source,
disabled sources and their reassigned queues. `ChunkPipeline` is the receiving side
of the pull and of the push: batches written by concurrent tasks under bounds on tasks and
bytes, an error drains the others. `Transfer` runs local ingest, the swarm and
the pull on one store with crashes, write errors and other programs taking space.
Sources other than `Honest` answer anything or nothing; the peer of a pull or a push may
stop answering (`OnPeer`), for no read from it has a timeout. The v1 push stream, the
sender's manifest cache and the timing of timeouts are left out.

`Staging` is what the pass relies on: content enters the store only in an attempt, an
attempt is reported staged only with all chunks present, and every attempt returns
that is not in the end left asking its peer for ever. `ImplementsStaging` maps `have` to
the intact chunks and `attempt` to the phase.

### Control

*State.* `disk` (config.json), `config` and `folders` in memory, one `worker` with its
channel (`mail`) and one operation lock (`slot`) per folder, each caller's operation, the
saves that go on without a caller (`late`) and the roots of workers that end without a slot
(`leaving`).

*Steps.* An operation (add, update, remove, pause, resume, sync) goes through its
awaits: lock, reserve, stop, start, command, persist, and on an error undo, restart
and revert, any of which may fail too. `AddDevice`, `RemoveDevice`, `Shutdown` with
its wait, `Crash` and `Open` run beside them. A folder's root stands for all the paths
and identities it reserves. Progress, `last_seen_at`, history and the web view are left
out.

The web server awaits an operation in the future of its HTTP request, which is dropped
when the client disconnects. So an operation may end at any of its awaits (`Drop`): before
it did anything (`LeavesIdle`); with its worker stopping or starting, which then ends by
itself and holds its root's lease until it has (`LeavesWorker`, `Leave`); with an order in
the worker's channel, which the worker still carries out (`LeavesOrder`, `Deliver`); or in
a save, which is not begun or goes on on the blocking pool and replaces the file later
(`LeavesSave`, `Land`). The slot and the persistence mutex are free at once.

Three things the code does show in the history variable `torn`, and `Agreement` leaves
those folders aside until an update saves them, a removal deletes them or the manager opens
again: when a save fails, the undo sends the opposite command without
looking at what state the folder was in (`deltaweave-control/src/lib.rs:751`), so a
resume of an enabled folder whose save fails leaves it paused; an add whose save
and whose undo both fail leaves a view of a folder that is not saved, as any stop that
reports an error leaves the operation unfinished; and an operation whose caller goes away
half-way is neither finished nor undone. Nothing else tears a folder.

## 3. Runs

`tlc -config X.cfg M` in this directory. Deadlock is checked except in `transfer`,
where a behaviour ends with the last attempt.

| Run | Instance | Shows |
|---|---|---|
| `journal_legacy` | 2 attempts, 2 edits, 1 crash, 1 failed commit, v1 and v2, repeated pushes; 1.56 M states | `TypeOK`, `NoUserWriteLost`, `AdoptedNeverUndone`, `CommittedWasIndexed`, `OriginalRetained` |
| `journal_shared` | 2 attempts, 2 edits, 2 crashes, revocation; 0.6 M | `RolledBackRestored`, `RemoteNeverAuthored`, `NoAdoptionAfterRevoke` |
| `journal_live` | 2 attempts, 2 crashes, revocation, no user | `RecoveryIdempotent`; `RecoverySettles` under `FairSpec` |
| `replicas` | server, 2 interchangeable clients, 1 path, 3 edits; 0.46 M | `TypeOK`, `EqualClockSameState`, `CounterCovers`, `ConflictCopyKept`, `SnapshotExact`, `KnowledgeGrows` |
| `replicas_live` | server, 1 client, 2 paths, 3 edits, 1 failed pass, edits during application | `Converges` under `FairSpec` |
| `local_scan` | a file, a directory, a file in it; 5 contents and changes; 0.57 M | `RowsObserved`, `NoFalseDeletion`, `HistoryGrows`, `CatchesUp` |
| `readonly` | 2 paths, 2 owner changes, 2 edits, 1 stop; 0.99 M | `LocalWorkKept`, `NeverOlder`, `Settles` |
| `admission` | 2 processes, nested and disjoint paths, 2 shares and legacy use; 0.14 M | `LeasesDisjoint`, `PrivateNeverPublic`, `BindingSurvives` |
| `catalog` | 2 devices, 2 pushes at a time, 4 replicas, one of them retained; 0.85 M | `CeilingsCover`, `DistinctAuthors`, `Loadable`, `CountersOwned` |
| `sessions` | a share with 2 devices, one of them revocable, 2 handlers, a pause; or a legacy server with 3 connections, 2 streams, 2 callers; 0.17 M | `QuietAfterReturn`, `ServerQuiet`, `CallsReturn` |
| `transfer` | 4 chunks, an honest and an arbitrary source, 2 write tasks; 0.32 M | `Accounted`, `HonestSuffices`, `WritesKeepReserve`, `ImplementsStaging` |
| `control` | 2 folders, 2 roots, 1 device, 2 callers, 3 operations, 2 faults, 1 caller that goes away; 0.51 M | `Reopens`, `Agreement` |

*Why these bounds.* Two attempts are the least in which one attempt completes,
aborts or meets the leftovers of another. Two edits allow one before the capture
and one after it; two crashes allow one in recovery from the other. Two clients
are needed for two plans on one snapshot, and three edits for two concurrent
writes and a third that meets their resolution. Two paths are the least with a
rename. `MCStateHash` orders the states so that a deletion wins against one
content and loses against the other. A directory with a file, beside another file, is the
least tree in which a subtree can be unreadable, renamed or replaced while its sibling
is read. Two owner changes and a backup allow an owner that goes back and then on.
Two processes and nested paths give every overlap; a third would
meet the same registry, which one lock serialises. Two pushes at a time make a
prepared attempt meet the adoption of another. Four chunks fill a batch, leave a
remainder, and leave one to be fetched while the store holds a rotten one; the swarm
is started for two of them (`Fillable`). Two devices let one hold the gate or the
receive lock, silently, while the other is revoked. Three operations of two callers (an
added device counts as one, the removal of a device does not), two faults and a caller
that goes away let an operation fail, fail again in its undo, or be left half-way, beside
another and be followed by a third; an update can meet the removal of its device. The
theorems below hold without any of the bounds.

*Symmetry.* Attempts, the clients of `replicas` (nothing orders replicas, and with one
path no scan has two events to order), and the interchangeable constants of
`admission`, `catalog` and `control`. No run with a liveness property uses it.

*Fairness.* `PathJournal!FairSpec` is weak fairness of the program's own steps
(`Program`): the process is restarted, continuous mode keeps starting passes and a
handler that runs does not stop by itself. `Replicas!FairSpec` is weak fairness of
every client's `Pass`. `LocalScan`: the watch loop goes on and time passes (weak
fairness of `ScanStep`, `Periodic`, `Tick`). `ReadOnly`: the member keeps trying, and
staging, which needs the network, does not fail every time (weak fairness of
`PassStep`, strong fairness of a `Stage` that succeeds). `ShareSessions`: tokio polls every task that can go on and its mutexes are FIFO
(strong fairness of a handler's steps and of a call's, since others may take a lock away
again and again). A handler that waits for its device has no fairness while the connection
is open (`~OnPeer`): `read_frame` (`deltaweave-net/src/lib.rs:4399`), `receive_chunks` and
the answers have no timeout. `Transfer`: the same of the peer of a pull or a push; every
other await waits for a task of the same process or, in a swarm fill, has a timeout
(weak fairness of each stage, outside `OnPeer`). In `Replicas` and `ReadOnly` the other
side answers in the end, as their liveness properties presuppose. Nothing is assumed of
users, crashes or failures, which are only bounded in number.

What this leaves out of the liveness properties is said in them: `CallsReturn` demands
that every pause of a share returns that is not resumed (it closes every connection), and
a revocation unless some device stays connected and silent for ever while it holds the
gate or the receive lock; `ImplementsStaging` that an attempt ends or in the end asks its
peer for ever. `SessionsSilent.cfg` (module `MCServers`) shows the revocation of one
device waiting for ever behind another's silent query.

*Mutants.* Every property of a passing run has a mutant in `PROJECT.json`: a
definition of the model changed as a plausible bug would, with which TLC finds the
property violated.

### Disagreements between code and documentation

Seven configurations of the two core modules are kept beside the runs: in each, TLC
violates what a document or comment says. Run them with `tlc -config X.cfg
MCPathJournal` or `MCReplicas`. Two more, `SessionsSilent.cfg` (above) and
`ControlDropped.cfg` (below), show what the code does not promise anywhere.

- `JournalRetry.cfg` (`RetryReconciles`), against `docs/ARCHITECTURE.md:209`,
  "external writes can race an apply. A retry reconciles the state that now exists."
  An edit between preparation and capture makes `capture_path_change` return an error
  before its abort path (`preservation.rs:353`); the attempt stays Prepared and bound,
  and every later pass fails in recovery before it scans.
- `JournalRepushCrash.cfg` (`RecoveryIdempotent`), against
  `docs/superpowers/plans/2026-09-06-folder-share-keys.md:88`, "Recover idempotently
  after each interruption". A crash while a record equal to the index row is applied
  again leaves a journal entry that recovery refuses on every start
  (`deltaweave-net/src/lib.rs:2616`).
- `JournalAbortCrash.cfg` (`RecoveryIdempotent`), against the same line. A user's late
  write into the captured file makes the installation give up; `abort_path_change`
  renames the original back (`preservation.rs:649`) and a crash falls before the put of
  Aborted. The entry is then Preserved without its artifact, and `validate_change`
  (`preservation.rs:627`) refuses it on every start.
- `ReplicasInterrupted.cfg` (`ConflictCopyKept`), against `README.md:57` and
  `docs/ARCHITECTURE.md:175`. The winner of a conflict and the conflict copy are
  applied one after the other (`deltaweave-sync/src/lib.rs:654`); a pass that ends
  between them leaves the resolved version without the copy, and no later merge plans
  it. The bytes remain only in the private vault and the chunk store.
- `ReplicasRename.cfg` (`ConflictCopyKept`), against `README.md:56`. A rename target
  inherits the version of the source (`deltaweave-index/src/lib.rs:1012`). Counters
  belong to replicas, not to paths, so that version can cover an unseen edit of the
  target path, which is then overwritten without a copy.
- `ReplicasNestedDelete.cfg` (`OnlyDesiredCreated`), against
  `deltaweave-core/src/lib.rs:626` and `docs/ARCHITECTURE.md:184`. Applying the
  tombstone of `d/f` creates `d` if it is gone (`preservation.rs:279`); the next scan
  takes it for a new local directory.
- `ReplicasNestedCreate.cfg` (`Converges`), against `README.md:58` and
  `docs/ARCHITECTURE.md:210`. A directory deleted on one side while the other creates a
  file in it gives a merged namespace that every pass rejects
  (`deltaweave-sync/src/lib.rs:791`).

- `ControlDropped.cfg` (`MCControl`, `AgreementThroughout`): without any failure, a pause
  whose HTTP client disconnects while `worker.command` waits for the current cycle
  (`deltaweave-control/src/lib.rs:736`) pauses the worker and saves nothing; the
  configuration and the view say enabled, and nothing was reported.

For that reason `Agreement` sets such folders aside. The `replicas*` runs use flat paths,
`replicas` has one path (no rename) and `ConflictCopyKept` is not stated over two.

Also met: `docs/ARCHITECTURE.md:86` says "There is no startup
journal replay", while servers and passes run `recover_causal_index` at start-up.

## 4. Proofs

Checked by `tlapm M.tla` for each of the eight modules below. Each proves its theorems
for every value of the constants from the named assumptions of the module it extends,
which TLC evaluates in its runs. Every inductive invariant was checked by TLC on a small
instance before it was proved.

**PathJournalProofs** proves, for any sets of attempts and contents and any bounds,
`Spec => []P` for `TypeOK`, `NoUserWriteLost`, `AdoptedNeverUndone`,
`CommittedWasIndexed`, `OriginalRetained`, `RolledBackRestored`, and
`Spec => NoAdoptionAfterRevoke`. Only `ConstantsAssumption` is used. The inductive
invariant has two layers:

- `TypeInv`: `TypeOK` and `Working` (a busy program counter has a current
  attempt). That no location gets a second object needs no more, since every rename
  of the code is guarded by a check or is a no-replace rename;
- `JournalInv`: the properties themselves and what they rest on: `StepState` (which
  journal state each program counter goes with: the program's volatile position
  against the durable entry), `OnePending` (at most one bound attempt is unsettled, for
  recovery runs before a new one begins), `AdoptedIsIndexed` (an adopted attempt
  that is still Materialized has the index row, which is why recovery marks it
  instead of undoing it), `IndexKnown` (the row is in the history),
  `VaultKnown` (the vault holds the original while an installation is under way, and
  nothing for an attempt that detaches nothing or was rolled back) and `RevokedQuiet` (no adoption is under way once a revocation returned).

Three more layers are about what recovery meets:

- `IndexBetween`, `VaultIntact`: what the index row may be while an attempt is pending,
  and that the vault still holds the captured object, by identity. They give
  `RefusalsKnown`, which no run states: the entries that recovery refuses are exactly
  those of `JournalRepushCrash.cfg` and `JournalAbortCrash.cfg`, whatever edits, crashes,
  faults and revocations there are;
- `IdentityInv`, `CausalInv`, `RemoteInv`: identities of objects are fresh, every attempt
  is bound before it installs, and what lies at the path with bytes that were installed
  is the object of the pending attempt or of the index row. They give
  `RemoteBytesNotAuthored`: `faults = 0 => RemoteNeverAuthored`, if `~PushV1`. Both
  conditions are the code's: a v1 push has no binding, so a crash after its installation
  leaves an object a scan takes for new; and a commit that fails after the installation
  is answered by an abort that leaves the object where it is (TLC shows either);
- `ExactInv`: which shape the path, the vault and the staging file have at each journal
  state, while neither a user nor a fault disturbs them. It gives `RecoveryGoesOn`:
  `writes = 0 /\ faults = 0 => RecoveryIdempotent`, if `~PushV1` and `~Repush`. Without
  these conditions the two configurations above refute it.

Each layer is one lemma per action and a PTL step.

**ReplicasProofs** is about the merge, the fetch and the passes. It proves of the merge, for every set of replicas and contents
and every injective `StateHash`: `MergeRecordCommutes` and
`MergeSnapshotsCommutes` (the result, copies and their paths included, does not
depend on the side), `MergeAdmitted` (the receiver's causal check admits the merged
record over either source), `MergeStable` (merging again with a source changes
nothing), `ConflictKeepsBytes` (a live file's bytes are the merged record's or the
loser's, which gets a copy). They rest on the order laws of version vectors (the
merge is the least upper bound, the resolved version is strictly after both) and on
the totality and antisymmetry of the winner rule, which is where injectivity is
used.

Of the fetch it proves `FetchExact`: what `FetchSnapshot` puts together is the server's
snapshot, for any two indexes. A record under a node that was not queried lies under
the shortest prefix at which the two trees agree; every prefix above it differs, so it
was reached, and the client's own records below it are the server's. `FetchAccepted` proves,
again for any two indexes, that none of the count and digest checks on the way refuses
it: the children of a node partition the paths below it, so the counts an honest server
sends add up. The sum over the children is a fold, and that it is unique follows from a
least set of children on which two solutions would differ. `DescentExact` puts both
together as `SnapshotExact`.

Of the passes it proves, for any clients, nested paths, renames and failures:

- `ReplicasTypeCorrect` and `CountersCover`, from `ReplicasInv`: every disk is a tree,
  every index and every snapshot of a pass is finite and well formed (`IsDisk`, `IsIndex`,
  `IsPass`), and none of them names an event beyond its author's counter (`AllBelow`).
  `CounterCovers` alone is not inductive, because the next plan is made of the snapshots
  a pass holds and not of the indexes. It also shows that the own component
  `next_replica_counter` looks at never exceeds the counter;
- `KnowledgeKept`: `KnowledgeGrows` in every behaviour in which no user renames a file.
  A scan gives a renamed file the version of its source, which may know less than the
  row that is at the target, so the condition is the code's; with one path, as in
  `replicas`, no step is a rename. It needs `PlansFit`: a plan is the merge of its two
  snapshots, and the client's index is still the local one at every path the plan has yet to change there.
  `apply_local` compares no version when it installs a record (the server does), and
  `InstalledAdmitted` shows why that is safe: the check before it found the planned
  snapshot, and the index changes only by the pass itself until it is through.
  `OwnRows` says that without renames an entry matches no row but its own;
- `SameVersionSameState`: `EqualClockSameState` in the same behaviours. Two rows with one
  version have one state because of everything both replicas, and the plans that are not
  through, have had, so the invariant (`Chained`) is about all of these. Clients exchange
  records through the server only: the versions the server has of a path grow along a
  chain, and what a client has is either on the chain (`Public`) or knows nothing of
  another replica that the chain does not, and something of the client's own that it does
  not yet (`InLine`). So two clients with the same version have it from the chain, where it
  has one state (`OneState`). A conflict copy starts at a path the server has not; it knows
  at least what the record that lost did (`Base`), which its name tells, and either the
  server's record lost, which everyone can see, or the client's own did, and no other
  client can have that path before the server has (`OwnLoser`, `Sole`). That a copy's name
  tells its origin and its loser, and that no user writes at such a name, is `CopyNamed` and
  `NamesKnown`. There is one lemma for each way in which records change: a scan of a
  client, a scan of the server, a push, a plan. Whether the condition on renames can be
  dropped here is open: simulation with renames finds no counterexample, but a renamed
  file's row knows what its source's did, which breaks `InLine`;
- `LosersKept`: `ConflictCopyKept` for any clients, flat paths, edits and failed passes,
  if no user renames a file and `~Disturb`. The first two layers of `KeptInv` say what an
  application can rely on: `TidyState` (an entry that was read has the content of its
  row, a copy in an index is on disk with the bytes of the loser it names) and `Undisturbed` (the root of a client that
  applies a plan is what its index says). The third says where each owed content is
  (`Kept`): in an entry no scan has read (`Unread`); under an event such that every row,
  snapshot and plan entry that knows the event is a live file with that content, on disk
  wherever an index knows it (`Carried`); or in a conflict copy that is in an index or
  that a plan being applied has yet to install (`Copied`). A content moves from the first
  to the second when a scan draws its event, and from the second to the third when it
  loses a merge; there is one lemma per kind of pass step. Renames and
  `Disturb` are excluded because the code loses contents with them
  (`ReplicasRename.cfg`, `ReplicasInterrupted.cfg`). Flat paths are what the runs take;
  with directories an installation can be refused halfway, and whether the property
  survives that is open: TLC finds no counterexample over a directory and a file in it
  (server and client with 3 edits, complete; two clients with 4 edits, in the first 4.9
  million states).

**ReadOnlyProofs** proves `LocalWorkKept` and `NeverOlder` (and `TypeOK`), for any
paths, edits, owner changes and stops, between any rename and its record. `LocalWorkKept`
follows from `KeptInv`: what a user wrote is on the disk, in the vault or in the artifact of
a path change (`Kept`); every rename moves it from one of these to another, and an abort
that is recorded puts what is still in the artifact into the vault. `NeverOlder` follows from `RoundInv`: `ShownReached` (what was ever installed
at a path is covered by the checkpoint or by the pending round), `ChangeOfRound` (a
journalled change belongs to the pending round or an earlier one and installs nothing
older than its path has had) and `RoundOfPass` (the snapshot
a pass holds covers what was reached, and is the pending round once it applies). `NeverOlder` needs
them because a change left over from an older round must install nothing older than what
has been shown since.

**OwnershipProofs** is about who owns what on a host and in a share. For `RootAdmission`
it proves `LeasesDisjoint`, `PrivateNeverPublic` and
`BindingSurvives` from `AdmissionInv`: `CallState` (what the lock's holder has written
at each step), `Entered` (every leased root has an entry or is
about to), `StaleExpired` (what an admission
will remove really has no live process), `Examined` (every entry examined and not expired is
compatible with the request), `ManagedAlone` (no other leased root overlaps a managed one) and `BoundKept`
(a confirmed binding keeps entry and marker). The point of the induction is that the
checks are made entry by entry while leases can be dropped, but not taken, by others.

For `ShareCatalog` it proves `CeilingsCover`, `DistinctAuthors`, `Loadable` and
`CountersOwned` from `CatalogInv`: `Up` (what a published runtime implies of the
catalog and the metadata), `MembersKnown` (members' replicas are in the catalog, which is why
a random one is nobody's), `PushState` (the gate's holder and the step of its push),
`PreparedHolds` (a prepared push is still acceptable, and its ceilings cover what is
indexed when it is adopted), `PendingHolds` (an installed attempt is of a member and
acceptable, so recovery takes it), `LifeState` and `Covered`.

**ServersProofs** is about a root served in either way. `ServerQuiet` follows from
`ServerInv`: `DrainState` (a pause that waits holds the mutex and the flag is set),
`PausedQuiet` (while a pause is in force the flag is set and nothing is admitted),
`HandlerState` (the steps of each kind of handler; a router that is shut has no accept
future), `DownIdle` and `ShutQuiet`. `QuietAfterReturn` follows from `SessionsInv`: `Registered`
(nothing past its registration is out of the map that a call drains), `Named` (inside a
session the device is known) and `InForce` (a denial is in force from the call's first
step, and what returned stays denied). `GateExclusive` (`TypeOK`, whose last part says
that exactly the handler that is inside an operation holds the gate, and a push the receive
lock to its end) follows from it too,
and `StopsAreQuiet` joins both kinds of server.

**ControlProofs** proves `Reopens`, `Agreement` and `TypeOK` of the manager, for any
folders, roots, devices, callers and any number of operations, faults and callers that go
away. `ControlInv`
has one part for each thing an operation must not find out of order when it goes on
after an await: `OpShape` (the steps of each kind of operation and what it carries),
`FreshAdd` (an addition that has not reserved yet is alone with its id), `Holder` (what
the holder of a folder's slot has put in place so far: view, saved folder, worker),
`Settled` (a folder whose slot is free and that is not torn is viewed, saved and run alike,
and no order but a sync is in its worker's channel), `Reserved` (the
root of a view that may still be saved is nobody else's), `Sound` (both
configurations, and every save still under way without its caller, are ones `open`
accepts), `Apart` (no two untorn folders, viewed or saved, claim one root) and
`Stilled` (nothing is under way once the workers are stopped). `Reopens` is not
inductive without them: a configuration is saved from views, and another operation may
have changed one since the reservation.

**LocalScanProofs** proves `RowsObserved`, `NoFalseDeletion` and `HistoryGrows`, for any
tree, any ignored, locked and oddly named entries and any number of changes in a scan.
`ScanInv`: `Rooted` (what exists lies in a directory that exists), `Stamps` (contents and
modification times that belong together), `Absences` (what was absent took everything
below it along), `Reached` (a path that was always there has been found, is on the
walk's list or is uncertain, unless its directory has not been found yet), `Hashing`
(what is known of a file at each stage). `NoFalseDeletion` needs the tree to have no
cycle (`LocalScanAssumption`): `WalkComplete` says that the paths a finished walk does
not account for would be closed under taking the parent.

**TransferProofs** is about staging one file, for any manifest, chunk sizes, sources,
peers, limits, amounts of space and any faults. It proves `TypeOK`, whose pipeline part
holds the bounds on write tasks, batches and bytes in memory, `Accounted`,
`HonestSuffices`, `WritesKeepReserve`, and `TransferIsStaging`: the safety part of
`ImplementsStaging`, that every step of a transfer is a step of `Staging` or leaves
`have` and `attempt` alone (an attempt that waits for its peer being `asking`). Its invariant `Inv` has four parts:

- `Typed`: the type invariant, and where each part of the transfer rests: the fill is
  idle outside its phase, the pipeline is closed outside the receiving one, and a push
  has a chunk in its hand;
- `PipeInv`: `Bounds`, which need that a batch is never full when the next chunk
  arrives; `PipeState` (what each step of the receiving side has behind it); `OnTheWay`
  (while no error was met, a missing chunk is still to come, pending, or with a task
  that may still store it, so a pipeline that finishes without an error has stored
  everything: this is what makes `Staged` true in the refinement); `PipeRests`;
- `RoomLeft`: what was admitted at once stays affordable. The admission of a pull counts
  all missing chunks, while the tasks that write them check nothing, so the reserve is
  kept only because each write takes from the free space what it takes from the bytes
  still missing, and what other programs take is not the transfer's;
- `FillInv`: `Covered` and `FetchState` (what an answer may name, and what is known of a
  chunk it no longer names); `Open` and `Once` (a chunk that is wanted is queued at one
  source, with one fetch, or advertised by nobody), the strengthening of `Accounted`,
  which alone says nothing of a chunk that another fetch has stored meanwhile;
  `HonestTrusted` (an honest source is never disabled and what it holds stays
  advertised) and `NoSourceError`.

The bytes of a set of chunks, of a batch and of the tasks are folds over recursive
functions, and induction over data is out of the prover's reach. The lemmas the proofs need of them
(the sum exists, adding an element adds its size, a subset has no larger sum, a
sequence's length is that of its head and its tail, the chunks are named once and
in order) are proved from least counterexamples instead: the relation `<` on naturals and
strict inclusion in a finite set are well-founded (`NatLessThanWellFounded`,
`FS_StrictSubsetOrderingWellFounded`), so a
claim that fails anywhere fails at a least place (`WFMin`).

**Model-checked only.** The liveness properties, the one of `ImplementsStaging` included
(every attempt returns that its peer does not leave asking): temporal reasoning under fairness and ENABLED are out of the
prover's reach. These are `RecoverySettles`, `Converges`, `CallsReturn`,
`ImplementsStaging`, `CatchesUp` and `Settles`; a theorem states every other property
of the runs, under the conditions named above. Of a legacy server only safety is
checked.

## 5. Not modelled

Chunker (byte-level, stateless, a library wrapper), web and CLI (presentation; the
CLI's continuous mode is the retry loop that the fairness stands for). Within the
modelled parts: the v1 push stream, the sender's manifest cache, case collisions and
symlinks, path normalisation, ticket encoding and signatures, the table schemas and
their migration, progress events and history.

Seven hazards of `PROJECT.json` have no property of a run: five because the code does not
handle them (`JournalRetry.cfg`, `JournalRepushCrash.cfg`, `ReplicasInterrupted.cfg`,
`ReplicasRename.cfg`, `ReplicasNested*.cfg`), one because nothing ever repairs it (the empty
ownership marker), one because it only loses a date shown to users (`last_seen_at`). The exhaustion of conflict
names (`deltaweave-reconcile/src/lib.rs:530`) needs thousands of records and is out of
reach of an instance.

## 6. Plan

1. Proofs: `EqualClockSameState` with renames; `ConflictCopyKept` with directories.
2. An abstract specification of "apply one record" that `PathJournal` implements and
   that `Replicas` and `ReadOnly` use as one step.
3. The sender's manifest cache and the v1 push stream; liveness of the legacy server's
   pause and shutdown.
4. Directories in `ReadOnly`.
