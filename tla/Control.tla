------------------------------ MODULE Control ------------------------------
(***************************************************************************)
(* The administration of managed folders (deltaweave-control): the Manager *)
(* with its saved configuration, its folder views, one serialized worker   *)
(* per folder, and the operations that callers run at the same time.       *)
(*                                                                         *)
(* A folder is the paths and identity it reserves (its root stands for     *)
(* them: two folders conflict when their roots are equal), the device it   *)
(* refers to and whether it is enabled.  persist is one step: it holds the *)
(* persistence mutex from the copy of the configuration to its             *)
(* replacement, and the file is replaced atomically.                       *)
(*                                                                         *)
(* An operation is a future of the web server: it ends by its own steps,   *)
(* with the process, or at any await when its caller disconnects.  Then    *)
(* nothing of it is undone, but what it had handed over goes on: a command *)
(* in the worker's channel, a save on the blocking pool, a worker or an    *)
(* engine that ends by itself and keeps the lease of its root until then.  *)
(***************************************************************************)
EXTENDS Naturals, FiniteSets, Sequences

CONSTANTS
    Id,           \* folder ids; new_id never repeats one in use
    Root, Device,
    Caller,       \* concurrent callers
    None,
    MaxCalls,     \* bound: operations on folders, and devices added
    MaxFaults,    \* bound: failing saves, starts, stops and pauses
    MaxDrops      \* bound: callers that go away before their answer

Folder == [root: Root, device: Device \cup {None}, enabled: BOOLEAN]
Config == [folders: [Id -> Folder \cup {None}], devices: SUBSET Device]
Order == {"pause", "resume", "sync"}
Kind == {"add", "update", "remove"} \cup Order

\* mail: the orders in its channel that nobody waits for any more.
Worker == [root: Root, paused: BOOLEAN, syncing: BOOLEAN, mail: Seq(Order)]
Op == [kind: Kind \cup {None},
       step: {"idle", "lock", "reserve", "stop", "start", "command", "cycle", "persist", "undo",
              "restart", "revert"},
       id: Id \cup {None}, new: Folder \cup {None}, old: Folder \cup {None}]

\* None stands for every absent value, and is no value itself; ids are strings
\* of a fixed length.
ASSUME ControlAssumption ==
    /\ IsFiniteSet(Id)
    /\ None \notin Id \cup Root \cup Device \cup Caller \cup Kind \cup Folder \cup Worker
    /\ MaxCalls \in Nat /\ MaxFaults \in Nat /\ MaxDrops \in Nat

Idle == [kind |-> None, step |-> "idle", id |-> None, new |-> None, old |-> None]

VARIABLES
    disk,         \* config.json
    config,       \* Runtime::config
    folders,      \* Runtime::folders: reserved while an operation is under way
    worker,       \* the worker in each folder's slot, if any
    slot,         \* who holds the slot's operation lock
    op,           \* caller -> operation
    manager,      \* "open" | "closing" (shutdown waits) | "stopping" | "closed"
    late,         \* saves that go on without their callers, by departure
    leaving,      \* roots whose lease a worker without a slot still holds
    torn,         \* history: folders left half-way: a stop or a revert failed,
                  \* the revert did not restore the state, or the caller went
                  \* away in the middle
    made,         \* operations begun
    faults, drops

vars == <<disk, config, folders, worker, slot, op, manager, late, leaving, torn, made, faults, drops>>

TypeOK ==
    /\ disk \in Config /\ config \in Config
    /\ folders \in [Id -> Folder \cup {None}] /\ worker \in [Id -> Worker \cup {None}]
    /\ slot \in [Id -> Caller \cup {None}] /\ op \in [Caller -> Op]
    /\ manager \in {"open", "closing", "stopping", "closed"}
    /\ late \in [1..MaxDrops -> Config \cup {None}] /\ leaving \in SUBSET Root
    /\ torn \in SUBSET Id /\ made \in 0..MaxCalls /\ faults \in 0..MaxFaults /\ drops \in 0..MaxDrops

Nothing == [i \in Id |-> None]
Empty == [folders |-> Nothing, devices |-> {}]
NoLate == [n \in 1..MaxDrops |-> None]

Init ==
    /\ disk = Empty /\ config = Empty /\ folders = Nothing /\ worker = Nothing
    /\ slot = Nothing /\ op = [c \in Caller |-> Idle] /\ manager = "open"
    /\ late = NoLate /\ leaving = {} /\ torn = {} /\ made = 0 /\ faults = 0 /\ drops = 0

-----------------------------------------------------------------------------
Fault == faults < MaxFaults /\ faults' = faults + 1

Goto(c, step) == op' = [op EXCEPT ![c].step = step]
At(c, kinds, step) == op[c].kind \in kinds /\ op[c].step = step
It(c) == op[c].id

\* The operation returns, to its caller, and drops the slot's guard.
Return(c) ==
    /\ op' = [op EXCEPT ![c] = Idle]
    /\ slot' = [i \in Id |-> IF slot[i] = c THEN None ELSE slot[i]]

\* Worker::start: the engine opens, and the run loop starts paused or not.
Started(f) == [root |-> f.root, paused |-> ~f.enabled, syncing |-> FALSE, mail |-> <<>>]

\* It fails, or the lease of the root is still held.
StartFails(f) == Fault \/ (f.root \in leaving /\ UNCHANGED faults)

\* Mutant: only the views are compared, not the saved folders.
UnreservedViews(i, root) ==
    \A j \in Id \ {i} : folders[j] # None => folders[j].root # root

\* paths_conflict with every other view and every other saved folder.
Unreserved(i, root) ==
    \A j \in Id \ {i} :
       /\ folders[j] # None => folders[j].root # root
       /\ config.folders[j] # None => config.folders[j].root # root

\* validate_device_reference
DeviceKnown(f) == f.device = None \/ f.device \in config.devices

\* persist: saved, or not; a failing fsync of the directory comes after the
\* file was replaced.
Saved(new) == disk' = new /\ config' = new /\ UNCHANGED faults
NotSaved(new) == Fault /\ UNCHANGED config /\ disk' \in {disk, new}

\* What the operation of c writes.
Target(c) ==
    LET i == It(c) IN
    CASE op[c].kind \in {"add", "update"} -> [config EXCEPT !.folders[i] = op[c].new]
      [] op[c].kind = "remove" -> [config EXCEPT !.folders[i] = None]
      [] op[c].kind = "pause" -> [config EXCEPT !.folders[i].enabled = FALSE]
      [] op[c].kind = "resume" -> [config EXCEPT !.folders[i].enabled = TRUE]

\* The closure given to persist may refuse: the device is gone, or the folder.
Refused(c) ==
    CASE op[c].kind = "add" -> ~DeviceKnown(op[c].new)
      [] op[c].kind = "update" -> ~DeviceKnown(op[c].new) \/ config.folders[It(c)] = None
      [] op[c].kind = "remove" -> FALSE
      [] OTHER -> config.folders[It(c)] = None

-----------------------------------------------------------------------------
(* The beginning of an operation, up to the reservation. *)

settled == <<disk, config, worker, manager, late, leaving, torn, faults, drops>>

\* lifecycle.read: a waiting shutdown lets no new operation in.
Call(c) == manager = "open" /\ op[c] = Idle /\ made < MaxCalls /\ made' = made + 1

\* resolve_device and normalize against the views of this moment.
AddFolder(c) ==
    /\ Call(c)
    /\ \E i \in Id, f \in Folder :
          /\ folders[i] = None /\ config.folders[i] = None /\ disk.folders[i] = None
          /\ \A d \in Caller : op[d].id # i
          /\ \A n \in 1..MaxDrops : late[n] # None => late[n].folders[i] = None
          /\ DeviceKnown(f)
          /\ op' = [op EXCEPT ![c] = [kind |-> "add", step |-> "reserve", id |-> i,
                                      new |-> f, old |-> None]]
    /\ UNCHANGED <<settled, folders, slot>>

\* The others name an existing folder; update also brings its new form.
CallFolder(c) ==
    /\ Call(c)
    /\ \E i \in Id, k \in Kind \ {"add"}, f \in Folder :
          /\ folders[i] # None
          /\ k = "update" => DeviceKnown(f)
          /\ k # "update" => f = folders[i]
          /\ k = "sync" => folders[i].enabled /\ ~(worker[i] # None /\ worker[i].syncing)
          /\ op' = [op EXCEPT ![c] = [kind |-> k, step |-> "lock", id |-> i, old |-> None,
                                      new |-> IF k = "update" THEN f ELSE None]]
    /\ UNCHANGED <<settled, folders, slot>>

\* slot.operation.lock (try_lock for a sync, which does not wait); the folder
\* may be gone by then.
Lock(c) ==
    /\ op[c].step = "lock" /\ (slot[It(c)] = None \/ op[c].kind = "sync")
    /\ IF slot[It(c)] # None \/ folders[It(c)] = None \/ (op[c].kind \in {"pause", "resume", "sync"} /\ worker[It(c)] = None)
       THEN Return(c)
       ELSE /\ slot' = [slot EXCEPT ![It(c)] = c]
            /\ op' = [op EXCEPT ![c].old = folders[It(c)],
                                ![c].step = CASE op[c].kind = "update" -> "reserve"
                                              [] op[c].kind = "remove" -> "stop"
                                              [] OTHER -> "command"]
    /\ UNCHANGED <<settled, folders, made>>

\* Under the snapshot mutex: nobody else reserves or keeps these paths.
Reserve(c) ==
    /\ op[c].step = "reserve"
    /\ IF Unreserved(It(c), op[c].new.root)
       THEN /\ folders' = [folders EXCEPT ![It(c)] = op[c].new]
            /\ slot' = [slot EXCEPT ![It(c)] = c]
            /\ Goto(c, IF op[c].kind = "add" THEN "start" ELSE "stop")
       ELSE Return(c) /\ UNCHANGED folders
    /\ UNCHANGED <<settled, made>>

-----------------------------------------------------------------------------
(* The worker is replaced, the configuration saved, or all of it undone. *)

rest == <<manager, disk, config, late, leaving, made, drops>>

\* The worker takes its messages between cycles, and in order.
Waiting(i) == worker[i] # None /\ ~worker[i].syncing
Ready(i) == Waiting(i) /\ worker[i].mail = <<>>

\* worker.stop waits for the cycle and the orders before it.  When it reports
\* an error the operation ends here: the worker is gone, the view stays.
Stopping(c, step) ==
    LET i == It(c) IN
    /\ worker[i] # None => Ready(i)
    /\ worker' = [worker EXCEPT ![i] = None]
    /\ \/ Goto(c, step) /\ UNCHANGED <<slot, torn, faults>>
       \/ worker[i] # None /\ Fault /\ Return(c) /\ torn' = torn \cup {i}

Stop(c) ==
    /\ op[c].step = "stop"
    /\ Stopping(c, IF op[c].kind = "update" THEN "start" ELSE "persist")
    /\ UNCHANGED <<rest, folders>>

Start(c) ==
    /\ op[c].step = "start"
    /\ \/ /\ op[c].new.root \notin leaving /\ UNCHANGED <<folders, slot, faults>>
          /\ worker' = [worker EXCEPT ![It(c)] = Started(op[c].new)] /\ Goto(c, "persist")
       \/ /\ StartFails(op[c].new) /\ UNCHANGED worker
          /\ folders' = [folders EXCEPT ![It(c)] = op[c].old]
          /\ IF op[c].kind = "add" THEN Return(c) ELSE Goto(c, "restart") /\ UNCHANGED slot
    /\ UNCHANGED <<rest, torn>>

\* The old worker is started again, or the folder is left without one.
Restart(c) ==
    /\ op[c].step = "restart" /\ Return(c)
    /\ \/ /\ op[c].old.root \notin leaving /\ UNCHANGED faults
          /\ worker' = [worker EXCEPT ![It(c)] = Started(op[c].old)]
       \/ StartFails(op[c].old) /\ UNCHANGED worker
    /\ UNCHANGED <<rest, folders, torn>>

\* The save fails, or the closure refuses it: what was done is to be undone.
Unsaved(c) ==
    /\ \/ ~Refused(c) /\ NotSaved(Target(c))
       \/ Refused(c) /\ UNCHANGED <<disk, config, faults>>
    /\ Goto(c, CASE op[c].kind \in {"add", "update"} -> "undo"
                 [] op[c].kind = "remove" -> "restart"
                 [] OTHER -> "revert")
    /\ UNCHANGED <<folders, slot, torn>>

\* A folder that was left half-way is whole again once it is saved or removed.
Mended(c) == torn' = IF op[c].kind \in {"pause", "resume"} THEN torn ELSE torn \ {It(c)}

\* Mutant: the view is not removed until the next start.
PersistKeepsView(c) ==
    /\ op[c].step = "persist"
    /\ \/ /\ ~Refused(c) /\ Saved(Target(c)) /\ Return(c) /\ Mended(c)
          /\ folders' = IF op[c].kind \in {"pause", "resume"}
                        THEN [folders EXCEPT ![It(c)].enabled = (op[c].kind = "resume")]
                        ELSE folders
       \/ Unsaved(c)
    /\ UNCHANGED <<worker, manager, late, leaving, made, drops>>

Persist(c) ==
    /\ op[c].step = "persist"
    /\ \/ /\ ~Refused(c) /\ Saved(Target(c)) /\ Return(c) /\ Mended(c)
          /\ folders' = CASE op[c].kind = "remove" -> [folders EXCEPT ![It(c)] = None]
                          [] op[c].kind \in {"pause", "resume"} ->
                               [folders EXCEPT ![It(c)].enabled = (op[c].kind = "resume")]
                          [] OTHER -> folders
       \/ Unsaved(c)
    /\ UNCHANGED <<worker, manager, late, leaving, made, drops>>

\* The new worker is stopped and the old view put back (none, for an add).
Undo(c) ==
    /\ op[c].step = "undo"
    /\ LET i == It(c) IN
       /\ worker[i] # None => Ready(i)
       /\ worker' = [worker EXCEPT ![i] = None]
       /\ \/ /\ folders' = [folders EXCEPT ![i] = op[c].old] /\ UNCHANGED <<torn, faults>>
             /\ IF op[c].kind = "add" THEN Return(c) ELSE Goto(c, "restart") /\ UNCHANGED slot
          \/ /\ worker[i] # None /\ Fault /\ Return(c) /\ torn' = torn \cup {i}
             /\ UNCHANGED folders
    /\ UNCHANGED rest

-----------------------------------------------------------------------------
(* Commands to the worker, which takes them between cycles. *)

Command(c) ==
    /\ op[c].step = "command" /\ Ready(It(c))
    /\ \/ /\ op[c].kind = "sync"
          /\ IF worker[It(c)].paused THEN Return(c) /\ UNCHANGED worker
             ELSE worker' = [worker EXCEPT ![It(c)].syncing = TRUE] /\ Goto(c, "cycle") /\ UNCHANGED slot
          /\ UNCHANGED faults
       \/ /\ op[c].kind # "sync" /\ Goto(c, "persist") /\ UNCHANGED <<slot, faults>>
          /\ worker' = [worker EXCEPT ![It(c)].paused = (op[c].kind = "pause")]
       \/ op[c].kind # "sync" /\ Fault /\ Return(c) /\ UNCHANGED worker
    /\ UNCHANGED <<rest, folders, torn>>

SyncReturns(c) ==
    /\ op[c].step = "cycle" /\ ~worker[It(c)].syncing /\ Return(c)
    /\ UNCHANGED <<settled, folders, made>>

\* Saving failed: the opposite command.  A folder that was already paused (or
\* already running) does not get back the state it had.
Revert(c) ==
    /\ op[c].step = "revert" /\ Ready(It(c)) /\ Return(c)
    /\ \/ /\ worker' = [worker EXCEPT ![It(c)].paused = (op[c].kind # "pause")]
          /\ torn' = IF op[c].old.enabled = (op[c].kind = "resume") THEN torn \cup {It(c)} ELSE torn
          /\ UNCHANGED faults
       \/ Fault /\ torn' = torn \cup {It(c)} /\ UNCHANGED worker
    /\ UNCHANGED <<rest, folders>>

\* An order that nobody waits for is carried out all the same, or fails unseen.
Deliver(i) ==
    /\ Waiting(i) /\ worker[i].mail # <<>>
    /\ LET order == Head(worker[i].mail)
           taken == [worker[i] EXCEPT !.mail = Tail(@)]
       IN \/ /\ order = "sync" /\ UNCHANGED faults
             /\ worker' = [worker EXCEPT ![i] = [taken EXCEPT !.syncing = ~taken.paused]]
          \/ /\ order # "sync" /\ UNCHANGED faults
             /\ worker' = [worker EXCEPT ![i] = [taken EXCEPT !.paused = (order = "pause")]]
          \/ order # "sync" /\ Fault /\ worker' = [worker EXCEPT ![i] = taken]
    /\ UNCHANGED <<rest, folders, slot, op, torn>>

\* The run loop: a cycle when the timer or the watcher says so.
Tick(i) ==
    /\ Waiting(i) /\ ~worker[i].paused
    /\ worker' = [worker EXCEPT ![i].syncing = TRUE]
    /\ UNCHANGED <<rest, folders, slot, op, torn, faults>>

CycleEnds(i) ==
    /\ worker[i] # None /\ worker[i].syncing
    /\ worker' = [worker EXCEPT ![i].syncing = FALSE]
    /\ UNCHANGED <<rest, folders, slot, op, torn, faults>>

-----------------------------------------------------------------------------
(* The caller goes away: its future is dropped where it waits. *)

Leaves(c) == drops < MaxDrops /\ drops' = drops + 1 /\ Return(c)

\* Before anything was done, or with the command carried out.
LeavesIdle(c) ==
    /\ op[c].step \in {"lock", "reserve", "cycle"} /\ Leaves(c)
    /\ UNCHANGED <<disk, config, folders, worker, manager, late, leaving, torn, made, faults>>

\* With the worker that is stopping, or being started: no slot has it any more,
\* and it ends by itself.  A view that was put in place stays.
LeavesWorker(c) ==
    /\ op[c].step \in {"stop", "start", "undo", "restart"} /\ Leaves(c)
    /\ LET i == It(c) IN
       /\ worker' = [worker EXCEPT ![i] = None]
       /\ leaving' = leaving \cup
             CASE op[c].step = "start" -> {op[c].new.root}
               [] op[c].step = "restart" -> {op[c].old.root}
               [] OTHER -> {worker[j].root : j \in {k \in {i} : worker[k] # None}}
       /\ torn' = IF op[c].kind = "remove" \/ op[c].step = "restart" THEN torn ELSE torn \cup {i}
    /\ UNCHANGED <<disk, config, folders, manager, late, made, faults>>

\* With an order in the worker's channel, which it will take.
LeavesOrder(c) ==
    /\ op[c].step \in {"command", "revert"} /\ worker[It(c)] # None /\ Leaves(c)
    /\ LET i == It(c)
           order == IF op[c].step = "command" THEN op[c].kind
                    ELSE IF op[c].kind = "pause" THEN "resume" ELSE "pause"
       IN /\ worker' = [worker EXCEPT ![i].mail = Append(@, order)]
          /\ torn' = IF order = "sync" THEN torn ELSE torn \cup {i}
    /\ UNCHANGED <<disk, config, folders, manager, late, leaving, made, faults>>

\* Abandoned: a save that is on the blocking pool goes on; the persistence mutex
\* is free, and the configuration in memory stays as it was.
Abandoned(new) == late' = [late EXCEPT ![drops + 1] = new]

\* With the save not begun, or under way.
LeavesSave(c) ==
    /\ op[c].step = "persist" /\ Leaves(c)
    /\ \/ UNCHANGED late
       \/ ~Refused(c) /\ Abandoned(Target(c))
    /\ torn' = IF op[c].kind = "remove" THEN torn ELSE torn \cup {It(c)}
    /\ UNCHANGED <<disk, config, folders, worker, manager, leaving, made, faults>>

Drop(c) == LeavesIdle(c) \/ LeavesWorker(c) \/ LeavesOrder(c) \/ LeavesSave(c)

\* A save without a caller replaces the file, whatever was saved meanwhile.
Land(n) ==
    /\ manager # "closed" /\ late[n] # None
    /\ disk' = late[n] /\ late' = [late EXCEPT ![n] = None]
    /\ UNCHANGED <<config, folders, worker, slot, op, manager, leaving, torn, made, faults, drops>>

\* A worker without a slot has ended.
Leave(r) ==
    /\ r \in leaving /\ leaving' = leaving \ {r}
    /\ UNCHANGED <<disk, config, folders, worker, slot, op, manager, late, torn, made, faults, drops>>

-----------------------------------------------------------------------------
(* Devices, settings and history; shutdown, crash and open. *)

views == <<folders, worker, slot, op, manager, leaving, torn>>

\* The save of a request that touches no folder: done, failed or abandoned.
Saves(new) ==
    \/ (Saved(new) \/ NotSaved(new)) /\ UNCHANGED <<late, drops>>
    \/ /\ drops < MaxDrops /\ drops' = drops + 1
       /\ Abandoned(new) /\ UNCHANGED <<disk, config, faults>>

Free == manager = "open" /\ \E c \in Caller : op[c] = Idle

AddDevice(d) ==
    /\ Free /\ d \notin config.devices /\ made < MaxCalls /\ made' = made + 1
    /\ LET new == [config EXCEPT !.devices = @ \cup {d}] IN Saves(new)
    /\ UNCHANGED views

\* Mutant: a device may go while a folder refers to it.
RemoveUsedDevice(d) ==
    /\ Free /\ d \in config.devices
    /\ LET new == [config EXCEPT !.devices = @ \ {d}] IN Saves(new)
    /\ UNCHANGED <<views, made>>

RemoveDevice(d) ==
    /\ Free /\ d \in config.devices
    /\ \A i \in Id : config.folders[i] # None => config.folders[i].device # d
    /\ LET new == [config EXCEPT !.devices = @ \ {d}] IN Saves(new)
    /\ UNCHANGED <<views, made>>

\* update_device, update_settings and the periodic save of the history write
\* the configuration as it is, these details apart.
SaveAgain ==
    /\ manager = "open"
    /\ Saves(config) /\ UNCHANGED <<views, made>>

\* shutdown waits for the operations (lifecycle.write), stops every worker,
\* saves, and only then gives up the lock on the data directory.
Shutdown ==
    /\ manager = "open" /\ manager' = "closing"
    /\ UNCHANGED <<disk, config, folders, worker, slot, op, late, leaving, torn, made, faults, drops>>

Exclusive ==
    /\ manager = "closing" /\ \A c \in Caller : op[c] = Idle
    /\ manager' = "stopping"
    /\ UNCHANGED <<disk, config, folders, worker, slot, op, late, leaving, torn, made, faults, drops>>

ShutdownStop(i) ==
    /\ manager = "stopping" /\ Ready(i)
    /\ worker' = [worker EXCEPT ![i] = None]
    /\ UNCHANGED <<disk, config, folders, slot, op, manager, late, leaving, torn, made, faults, drops>>

\* The process is gone, and all that was in its memory.
Gone ==
    /\ manager' = "closed" /\ config' = Empty /\ torn' = {}
    /\ worker' = Nothing /\ folders' = Nothing /\ slot' = Nothing
    /\ op' = [c \in Caller |-> Idle] /\ late' = NoLate /\ leaving' = {} /\ UNCHANGED <<made, drops>>

\* A save that is still under way ends before the process or with it.
Closed ==
    /\ manager = "stopping" /\ worker = Nothing /\ Gone
    /\ \/ disk' \in {config} \cup {late[n] : n \in {m \in 1..MaxDrops : late[m] # None}}
          /\ UNCHANGED faults
       \/ Fault /\ UNCHANGED disk

Crash == manager # "closed" /\ Gone /\ UNCHANGED <<disk, faults>>

\* What open accepts: distinct paths and identities.
Opens(cfg) ==
    \A i, j \in Id :
       i # j /\ cfg.folders[i] # None /\ cfg.folders[j] # None
          => cfg.folders[i].root # cfg.folders[j].root

\* Manager::open: every saved folder gets its view and, if it starts, a worker.
Open ==
    /\ manager = "closed" /\ Opens(disk) /\ manager' = "open"
    /\ config' = disk /\ folders' = disk.folders
    /\ slot' = Nothing /\ op' = op
    /\ \E fails \in SUBSET {i \in Id : disk.folders[i] # None} :
          /\ faults + Cardinality(fails) <= MaxFaults /\ faults' = faults + Cardinality(fails)
          /\ worker' = [i \in Id |-> IF disk.folders[i] = None \/ i \in fails THEN None
                                     ELSE Started(disk.folders[i])]
    /\ UNCHANGED <<disk, late, leaving, torn, made, drops>>

Operation(c) ==
    \/ Lock(c) \/ Reserve(c) \/ Stop(c) \/ Start(c) \/ Restart(c) \/ Persist(c) \/ Undo(c)
    \/ Command(c) \/ SyncReturns(c) \/ Revert(c)

Next ==
    \/ \E c \in Caller : AddFolder(c) \/ CallFolder(c) \/ Operation(c) \/ Drop(c)
    \/ \E i \in Id : Deliver(i) \/ Tick(i) \/ CycleEnds(i) \/ ShutdownStop(i)
    \/ \E n \in 1..MaxDrops : Land(n)
    \/ \E r \in Root : Leave(r)
    \/ \E d \in Device : AddDevice(d) \/ RemoveDevice(d)
    \/ SaveAgain \/ Shutdown \/ Exclusive \/ Closed \/ Crash \/ Open

Spec == Init /\ [][Next]_vars

-----------------------------------------------------------------------------
\* Reopens: whatever operations run at the same time, fail, are undone, lose
\* their callers or are cut off by a crash, the saved configuration is one that
\* open accepts (no two folders with the same paths or identity) and in which
\* every folder's device exists (add_folder, update_folder, remove_device, persist).
Reopens ==
    /\ Opens(disk)
    /\ \A i \in Id : disk.folders[i] # None =>
          disk.folders[i].device \in disk.devices \cup {None}

\* Agreement: workers never share paths, and a worker no operation is busy
\* with is the one the configuration describes: the saved paths, paused if and
\* only if disabled, and no cycle runs while it is paused.  Set aside are the
\* folders left half-way (their stop or revert reported an error, or the caller
\* went away in the middle), until an update saves or a removal deletes them or
\* the manager opens again.
Agreement ==
    /\ \A i, j \in Id \ torn : i # j /\ worker[i] # None /\ worker[j] # None
          => worker[i].root # worker[j].root
    /\ \A i \in Id : worker[i] # None /\ slot[i] = None /\ i \notin torn =>
          /\ folders[i] = config.folders[i] /\ folders[i] # None
          /\ worker[i].root = folders[i].root /\ worker[i].paused = ~folders[i].enabled
    /\ \A i \in Id : worker[i] # None /\ worker[i].syncing => ~worker[i].paused
=============================================================================
