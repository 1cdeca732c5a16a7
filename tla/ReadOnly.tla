------------------------------ MODULE ReadOnly ------------------------------
(***************************************************************************)
(* The pass of a read-only member (deltaweave-sync, read_only.rs): fetch   *)
(* the owner's snapshot, check that it continues the checkpoint and the    *)
(* pending round, finish interrupted path changes, scan, move local work   *)
(* aside, install the owner's files, adopt the snapshot in one commit, and *)
(* verify.  Users edit the folder all the while, the process may stop at   *)
(* any step, and the owner may be put back to an older backup.             *)
(*                                                                         *)
(* Paths are files of one directory.  Every content the owner or a user    *)
(* writes is a new number.  A capture, an installation and an abort each   *)
(* move one object and then record it, and the process may stop between    *)
(* the two.  What can happen before the object moves is PathJournal's.     *)
(***************************************************************************)
EXTENDS Naturals, FiniteSets

CONSTANTS
    Path, None,
    MaxOwner,     \* bound: edits, backups and restorations at the owner
    MaxUser,      \* bound: edits by users of this folder
    MaxStop       \* bound: stops of the process

Content == (1 .. MaxOwner + MaxUser) \cup {None}
Snapshot == [Path -> [ver: 0 .. MaxOwner, data: Content]]
Attempt == [expected: Content, target: Content, ver: 0 .. MaxOwner,
            state: {"prepared", "preserved", "materialized"}, artifact: Content,
            staged: BOOLEAN]

ASSUME ReadOnlyAssumption ==
    /\ MaxOwner \in Nat /\ MaxUser \in Nat /\ MaxStop \in Nat
    /\ None \notin Nat /\ None \notin Snapshot /\ None \notin Attempt

VARIABLES
    disk,         \* the member's folder
    owner, backup,\* the owner's records, and an older copy of them
    checkpoint,   \* ReadOnlyState::checkpoint, saved with the index
    pending,      \* ReadOnlyState::pending: the desired records, or None
    journal,      \* the path change under way for each path, if any
    vault,        \* contents kept by finished or aborted path changes
    open,         \* the ManagedSyncEngine is open
    pass,         \* the pass under way
    mine,         \* history: what users wrote and did not take away
    shown,        \* history: newest owner version installed at each path
    made, owned, stops

store == <<checkpoint, pending, journal, vault>>
counts == <<made, owned, stops>>
vars == <<disk, owner, backup, store, open, pass, mine, shown, counts>>

Empty == [p \in Path |-> [ver |-> 0, data |-> None]]
\* A pass holds the engine's gate: there is one at a time.
\* "moved": the object it has moved for a change, not yet recorded.
Idle == [pc |-> "idle", moved |-> "nothing", remote |-> Empty,
         current |-> [p \in Path |-> None], todo |-> {}]
Pass == [pc: {"idle", "resume", "plan", "stage", "apply", "adopt", "finish"},
         moved: {"nothing", "captured", "installed", "restored"},
         remote: Snapshot, current: [Path -> Content], todo: SUBSET Path]

TypeOK ==
    /\ disk \in [Path -> Content] /\ owner \in Snapshot /\ backup \in Snapshot
    /\ checkpoint \in Snapshot /\ pending \in Snapshot \cup {None}
    /\ journal \in [Path -> Attempt \cup {None}] /\ vault \subseteq Content
    /\ open \in BOOLEAN /\ pass \in Pass
    /\ mine \subseteq Content /\ shown \in [Path -> 0 .. MaxOwner]

Init ==
    /\ disk = [p \in Path |-> None] /\ owner = Empty /\ backup = Empty
    /\ checkpoint = Empty /\ pending = None /\ journal = [p \in Path |-> None] /\ vault = {}
    /\ open = FALSE /\ pass = Idle /\ mine = {} /\ shown = [p \in Path |-> 0]
    /\ made = 0 /\ owned = 0 /\ stops = 0

-----------------------------------------------------------------------------
(* The owner, users, and stops. *)

Fresh == made + owned + 1
Owner == owned < MaxOwner /\ owned' = owned + 1
member == <<disk, store, open, pass, mine, shown, made, stops>>

OwnerEdit(p) ==
    /\ Owner
    /\ \E c \in {Fresh, None} : owner' = [owner EXCEPT ![p] = [ver |-> @.ver + 1, data |-> c]]
    /\ UNCHANGED <<backup, member>>

OwnerBackup == Owner /\ backup' = owner /\ UNCHANGED <<owner, member>>
OwnerRestore == Owner /\ backup # owner /\ owner' = backup /\ UNCHANGED <<backup, member>>

\* A user writes or removes a file; what it held before is no longer wanted.
UserEdit(p) ==
    /\ made < MaxUser /\ made' = made + 1
    /\ \E c \in {Fresh, None} :
          /\ disk' = [disk EXCEPT ![p] = c]
          /\ mine' = (mine \ {disk[p]}) \cup ({c} \ {None})
    /\ UNCHANGED <<owner, backup, store, open, pass, shown, owned, stops>>

\* A write through a handle opened before the capture.
LateWrite(p) ==
    /\ made < MaxUser /\ made' = made + 1
    /\ journal[p] # None /\ journal[p].artifact # None
    /\ journal' = [journal EXCEPT ![p].artifact = Fresh]
    /\ mine' = (mine \ {journal[p].artifact}) \cup {Fresh}
    /\ UNCHANGED <<disk, owner, backup, checkpoint, pending, vault, open, pass, shown, owned, stops>>

\* shutdown waits for the work that cancelled callers left behind; a crash does
\* not.  Neither changes what is stored.
Stop ==
    /\ open /\ stops < MaxStop /\ stops' = stops + 1 /\ open' = FALSE
    /\ UNCHANGED <<disk, owner, backup, store, mine, shown, made, owned>>

Shutdown == pass = Idle /\ Stop /\ UNCHANGED pass
Crash == pass # Idle /\ Stop /\ pass' = Idle

\* open the first time, resume afterwards: the checkpoint is initialised once
\* and read back from then on.
Open ==
    /\ ~open /\ open' = TRUE
    /\ UNCHANGED <<disk, owner, backup, store, pass, mine, shown, counts>>

-----------------------------------------------------------------------------
(* The pass.  An error ends it; what was saved stays. *)

outside == <<owner, backup, open, mine, counts>>
Step(pc) == pass' = [pass EXCEPT !.pc = pc]
Fail == pass' = Idle

\* validate_checkpoint: every record is newer than before, or the same record.
Continues(before, after) ==
    \A p \in Path : before[p].ver < after[p].ver \/ before[p] = after[p]

\* Mutant: only the checkpoint of the last finished round is compared.
FetchFinished ==
    /\ open /\ pass = Idle
    /\ IF Continues(checkpoint, owner)
       THEN pass' = [Idle EXCEPT !.pc = "resume", !.remote = owner]
       ELSE Fail
    /\ UNCHANGED <<disk, store, shown, outside>>

\* The snapshot continues the last round and the one that was interrupted.
Fetch ==
    /\ open /\ pass = Idle
    /\ IF Continues(checkpoint, owner) /\ (pending # None => Continues(pending, owner))
       THEN pass' = [Idle EXCEPT !.pc = "resume", !.remote = owner]
       ELSE Fail
    /\ UNCHANGED <<disk, store, shown, outside>>

Moved(what) == pass' = [pass EXCEPT !.moved = what]

\* The change a pass works on.  There is one at a time: nothing is prepared
\* before the others are installed or aborted.
Unfinished == {p \in Path : journal[p] # None /\ journal[p].state # "materialized"}

\* put_change with the next state.
Recorded(p, state) == journal' = [journal EXCEPT ![p].state = state]

\* capture_path_change: the object is moved into the vault if it is the
\* expected one; where nothing is expected nothing moves.  Otherwise the change
\* stays prepared and the pass ends.
Captured(p) ==
    /\ journal[p].state = "prepared" /\ journal[p].artifact = None
    /\ IF disk[p] # journal[p].expected THEN Fail /\ UNCHANGED <<disk, journal>>
       ELSE IF disk[p] = None THEN Recorded(p, "preserved") /\ UNCHANGED <<disk, pass>>
       ELSE /\ disk' = [disk EXCEPT ![p] = None]
            /\ journal' = [journal EXCEPT ![p].artifact = disk[p]] /\ Moved("captured")
    /\ UNCHANGED <<vault, shown>>

\* abort_path_change, first half: back to the path if it is free.
Restored(p) ==
    /\ IF disk[p] = None
       THEN /\ disk' = [disk EXCEPT ![p] = journal[p].artifact]
            /\ journal' = [journal EXCEPT ![p].artifact = None]
       ELSE UNCHANGED <<disk, journal>>
    /\ Moved("restored") /\ UNCHANGED <<vault, shown>>

\* Its second half: the change is recorded as aborted, what is still in the
\* vault stays there, and the pass ends.
Aborted(p) ==
    /\ vault' = (vault \cup {journal[p].artifact}) \ {None}
    /\ journal' = [journal EXCEPT ![p] = None] /\ UNCHANGED <<disk, shown>> /\ Fail

\* The captured object is looked at once more before it is recorded.
Sealed(p) ==
    \/ /\ journal[p].artifact = journal[p].expected
       /\ Recorded(p, "preserved") /\ Moved("nothing") /\ UNCHANGED <<disk, vault, shown>>
    \/ journal[p].artifact # journal[p].expected /\ Restored(p)

\* What an installation records of the path: the staged content is used up.
Installed(p) ==
    /\ disk' = [disk EXCEPT ![p] = journal[p].target]
    /\ journal' = [journal EXCEPT ![p].staged = FALSE]
    /\ shown' = [shown EXCEPT ![p] = journal[p].ver]
    /\ Moved("installed") /\ UNCHANGED vault

\* Mutant: installs over whatever is there now.
InstallsOver(p) == journal[p].staged /\ Installed(p)

\* rename_noreplace of the staged content into the free path; a removal only
\* checks that the path is free.
Installs(p) == disk[p] = None /\ journal[p].staged /\ Installed(p)

\* materialize_path_change
Materialized(p) ==
    LET kept == journal[p].artifact = journal[p].expected IN
    /\ journal[p].state = "preserved"
    /\ \/ kept /\ Installs(p)
       \/ (kept => disk[p] # None \/ ~journal[p].staged) /\ Restored(p)

\* The installation is recorded.
Marked(p) ==
    /\ Recorded(p, "materialized") /\ shown' = [shown EXCEPT ![p] = journal[p].ver]
    /\ Moved("nothing") /\ UNCHANGED <<disk, vault>>

\* A change of the interrupted round that cannot be resumed: its object was
\* edited before its capture, or after a capture that was not recorded, or an
\* abort put it back and was not recorded (validate_change: an object that was
\* preserved must be in the vault).
Refused(p) ==
    \/ /\ journal[p].state = "prepared"
       /\ IF journal[p].artifact = None THEN disk[p] # journal[p].expected
          ELSE journal[p].artifact # journal[p].expected
    \/ journal[p].state = "preserved" /\ journal[p].expected # None /\ journal[p].artifact = None

\* resume_path_change.  A captured object is recorded, and so is an installation
\* that the stop left unrecorded; otherwise the change goes on where it was.
Continued(p) ==
    \/ Refused(p) /\ Fail /\ UNCHANGED <<disk, journal, vault, shown>>
    \/ /\ ~Refused(p) /\ journal[p].state = "prepared"
       /\ \/ journal[p].artifact = None /\ Captured(p)
          \/ /\ journal[p].artifact # None /\ Recorded(p, "preserved")
             /\ UNCHANGED <<disk, vault, shown, pass>>
    \/ /\ ~Refused(p) /\ journal[p].state = "preserved"
       /\ \/ disk[p] = journal[p].target /\ Marked(p)
          \/ disk[p] # journal[p].target /\ Materialized(p)

\* The changes of the interrupted round, before anything else.
Resume ==
    /\ pass.pc = "resume" /\ pass.moved = "nothing" /\ UNCHANGED <<checkpoint, pending, outside>>
    /\ \/ Unfinished = {} /\ Step("plan") /\ UNCHANGED <<disk, journal, vault, shown>>
       \/ \E p \in Unfinished : Continued(p)

\* What a call that moved an object does next.
Record(p) ==
    /\ p \in Unfinished /\ UNCHANGED <<checkpoint, pending, outside>>
    /\ \/ pass.moved = "captured" /\ Sealed(p)
       \/ pass.moved = "installed" /\ Marked(p)
       \/ pass.moved = "restored" /\ Aborted(p)

\* physical_equal: versions are not compared.
PhysicalEqual(content, record) == content = record.data

\* Mutant: the saved rows are compared, not the folder.
PlanRows ==
    /\ pass.pc = "plan"
    /\ pass' = [pass EXCEPT !.pc = "stage", !.current = disk,
                            !.todo = {p \in Path : checkpoint[p] # pass.remote[p]}]
    /\ UNCHANGED <<disk, store, shown, outside>>

\* Scan, and what differs physically from the snapshot.
Plan ==
    /\ pass.pc = "plan"
    /\ pass' = [pass EXCEPT !.pc = "stage", !.current = disk,
                            !.todo = {p \in Path : ~PhysicalEqual(disk[p], pass.remote[p])}]
    /\ UNCHANGED <<disk, store, shown, outside>>

\* The contents are staged (Transfer), or a source fails; then the folder must
\* still be as it was scanned, and the round is saved.
Stage ==
    /\ pass.pc = "stage"
    /\ \/ disk = pass.current /\ pending' = pass.remote /\ Step("apply")
       \/ Fail /\ UNCHANGED pending
    /\ UNCHANGED <<disk, checkpoint, journal, vault, shown, outside>>

\* prepare_path_change, and its id saved with the pending round: a stop between
\* the two leaves an entry that no pass looks at.  A change of an earlier round
\* that was installed keeps its artifact.
Prepare(p) ==
    /\ pass.pc = "apply" /\ p \in pass.todo /\ Unfinished = {}
    /\ IF disk[p] # pass.current[p] THEN Fail /\ UNCHANGED <<journal, vault>>
       ELSE /\ journal' = [journal EXCEPT ![p] =
                  [expected |-> disk[p], target |-> pass.remote[p].data,
                   ver |-> pass.remote[p].ver, state |-> "prepared", artifact |-> None,
                   staged |-> TRUE]]
            /\ vault' = (vault \cup IF journal[p] = None THEN {} ELSE {journal[p].artifact}) \ {None}
            /\ pass' = [pass EXCEPT !.todo = @ \ {p}]
    /\ UNCHANGED <<disk, checkpoint, pending, shown, outside>>

Capture(p) ==
    /\ pass.pc = "apply" /\ pass.moved = "nothing" /\ p \in Unfinished /\ Captured(p)
    /\ UNCHANGED <<checkpoint, pending, outside>>

Materialize(p) ==
    /\ pass.pc = "apply" /\ pass.moved = "nothing" /\ p \in Unfinished /\ Materialized(p)
    /\ UNCHANGED <<checkpoint, pending, outside>>

Applied ==
    /\ pass.pc = "apply" /\ pass.todo = {} /\ Unfinished = {}
    /\ pass' = [pass EXCEPT !.pc = "adopt", !.current = Idle.current]
    /\ UNCHANGED <<disk, store, shown, outside>>

\* adopt_authoritative_snapshot: every record is verified against the folder,
\* nothing else is there, and rows and checkpoint change in one commit.
Adopt ==
    /\ pass.pc = "adopt"
    /\ IF \A p \in Path : PhysicalEqual(disk[p], pass.remote[p])
       THEN checkpoint' = pass.remote /\ pass' = [Idle EXCEPT !.pc = "finish"]
       ELSE Fail /\ UNCHANGED checkpoint
    /\ UNCHANGED <<disk, pending, journal, vault, shown, outside>>

\* preserved: the objects kept by path changes of any state.
Preserved ==
    (vault \cup {journal[p].artifact : p \in {q \in Path : journal[q] # None}}) \ {None}

\* The installed changes are marked, and the round is no longer pending.  The
\* scan and the snapshot that follow only decide what the pass reports.
Finish ==
    /\ pass.pc = "finish" /\ pass' = Idle /\ pending' = None
    /\ vault' = Preserved /\ journal' = [p \in Path |-> None]
    /\ UNCHANGED <<disk, checkpoint, shown, outside>>

PassStep ==
    \/ Open \/ Fetch \/ Resume \/ Plan \/ Stage \/ Applied \/ Adopt \/ Finish
    \/ \E p \in Path : Prepare(p) \/ Capture(p) \/ Materialize(p) \/ Record(p)

Next ==
    \/ PassStep \/ OwnerBackup \/ OwnerRestore \/ Shutdown \/ Crash
    \/ \E p \in Path : OwnerEdit(p) \/ UserEdit(p) \/ LateWrite(p)

\* The member keeps trying, the owner answers in the end, and staging does not
\* fail every time.
Spec ==
    /\ Init /\ [][Next]_vars /\ WF_vars(PassStep)
    /\ SF_vars(Stage /\ pass'.pc = "apply")

-----------------------------------------------------------------------------
\* LocalWorkKept: whatever a user wrote into the folder, and did not replace or
\* remove, is still there or listed as preserved, through captures, aborts, late
\* writes, interrupted rounds and changes of the owner (sync, preserved).
LocalWorkKept ==
    mine \subseteq Preserved \cup {disk[p] : p \in Path}

\* NeverOlder: an owner's version is never installed over a newer one of the
\* same path, even when the owner was put back to a backup while a round that
\* had installed part of the newer snapshot was interrupted (validate_checkpoint
\* on the checkpoint and on the pending round).
NeverOlder == [][\A p \in Path : shown'[p] >= shown[p]]_vars

\* A change that every later pass refuses ends it there.
Blocked == \E p \in Unfinished : Refused(p)

\* Settles: when everybody else is quiet, the folder comes to hold exactly what
\* the owner has, after any number of interrupted and aborted rounds, unless a
\* change of an interrupted round is refused for ever (an edit in the way of its
\* capture, a stop inside a capture or an abort that an edit had disturbed) or
\* the owner went back in time.
Settles ==
    <>[]\/ Blocked \/ \A p \in Path : disk[p] = owner[p].data
        \/ ~Continues(checkpoint, owner) \/ (pending # None /\ ~Continues(pending, owner))
=============================================================================
