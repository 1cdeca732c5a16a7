------------------------------ MODULE Replicas ------------------------------
(***************************************************************************)
(* A serving root and the clients that synchronize with it: the scan of    *)
(* deltaweave-index, the pass of deltaweave-sync (sync_once) and the v2    *)
(* handlers of deltaweave-net, over the merge of Reconcile.                *)
(*                                                                         *)
(* Each client runs passes one after the other; each request the server    *)
(* answers runs under its apply lock and is one step.  Users edit every    *)
(* root at any time.  Applying one record (journal, install, adopt, mark)  *)
(* is one step here; PathJournal shows what happens inside it.  Chunk      *)
(* transfer, swarm sources, disk admission and share permissions are left  *)
(* out, and scans find no unreadable or mutating file.                     *)
(***************************************************************************)
EXTENDS Merkle

CONSTANTS
    Server,       \* the replica that serves; the others are clients
    Path,         \* paths the users edit
    Disturb,      \* a client may be edited, or fail, while it applies a plan
    MaxEdits,     \* bound on user edits
    MaxFailures   \* bound on failed passes (network, process)

ASSUME ReplicasAssumption ==
    /\ Server \in Replica
    /\ Path \subseteq Seq([stem: Nat, suffixes: {<<>>}]) \ {<<>>}
    /\ Disturb \in BOOLEAN
    /\ MaxEdits \in Nat /\ MaxFailures \in Nat

Client == Replica \ {Server}

VARIABLES
    disk,         \* replica -> path -> filesystem entry
    index,        \* replica -> path -> record of the durable index
    counter,      \* replica -> durable replica counter
    session,      \* client -> the pass it runs
    edits, failures,
    owed          \* history: contents users wrote and no user took away

replicas == <<disk, index, counter>>
vars == <<disk, index, counter, session, edits, failures, owed>>

-----------------------------------------------------------------------------
(* Filesystem.  row is the path whose index row matches the entry's        *)
(* fingerprint (identity, mtime, content), <<>> if none does.              *)

Entry(content, row) == [content |-> content, row |-> row]
NewEntry(content) == Entry(content, <<>>)

Empty == [p \in {} |-> 0]
Without(f, S) == [x \in DOMAIN f \ S |-> f[x]]
Put(f, x, v) == [y \in DOMAIN f \cup {x} |-> IF y = x THEN v ELSE f[y]]
Tree(p, f) == {q \in DOMAIN f : p = q \/ p \in Ancestors(q)}
Inside(p, f) == Tree(p, f) \ {p}
Entries(f, p) == {f[q] : q \in {p} \cap DOMAIN f}
Contents(f) == {f[p].content : p \in DOMAIN f} \ {Directory}

HasParent(f, p) == \A a \in Ancestors(p) : a \in DOMAIN f /\ f[a].content = Directory

\* create_dir_all of the parent: nothing indexes what it makes.
WithParents(f, p) ==
    [q \in DOMAIN f \cup Ancestors(p) |->
        IF q \in DOMAIN f THEN f[q] ELSE NewEntry(Directory)]

-----------------------------------------------------------------------------
(* LocalIndex::scan: apply_scan with correlate_renames. *)

\* Path order.  A copy sorts before or after its original, depending on the
\* extension, so copies are not ordered against names with the same stem.
Sorts(p, q) ==
    \/ p \in Ancestors(q)
    \/ \E i \in DOMAIN p \cap DOMAIN q :
        p[i].stem < q[i].stem /\ \A j \in 1 .. i - 1 : p[j] = q[j]

LiveRows(i) == {p \in DOMAIN i : ~i[p].tombstone}

\* A scan result: the root's disk (every entry now has a row), rows, counter.
Root(f, i, n) == [disk |-> f, index |-> i, counter |-> n]

\* Mutant: the new counter is not committed with the rows.
ScanForgetful(n) ==
    {Root([p \in DOMAIN disk[n] |-> Entry(disk[n][p].content, p)],
         [p \in DOMAIN index[n] \cup DOMAIN disk[n] |->
            IF p \notin DOMAIN disk[n]
            THEN [index[n][p] EXCEPT !.tombstone = TRUE,
                                     !.version = Observe(@, n, counter[n] + 1)]
            ELSE IF disk[n][p].row = p THEN index[n][p]
            ELSE [content |-> disk[n][p].content, tombstone |-> FALSE,
                  version |-> Observe(IF p \in DOMAIN index[n] THEN index[n][p].version
                                      ELSE NoVersion, n, counter[n] + 1)]],
         counter[n])}

\* The counters after c in the order in which the paths are handled.
Ticks(S, c) ==
    {t \in [S -> c + 1 .. c + Cardinality(S)] :
        \A p, q \in S : p # q => t[p] # t[q] /\ (Sorts(p, q) => t[p] < t[q])}

\* Found paths are handled in one order, then the missing ones; each event
\* takes the next counter.  (next_replica_counter also takes the row's own
\* component into account, which CounterCovers makes redundant.)
Scan(n) ==
    LET f == disk[n]
        i == index[n]
        changed == {p \in DOMAIN f : p \notin LiveRows(i) \/ f[p].row # p}
        missing == LiveRows(i) \ DOMAIN f
        renames == {p \in changed \ LiveRows(i) : f[p].row \in missing}
        source(p) == f[p].row
        sources == {source(p) : p \in renames}
        target(p) == CHOOSE q \in renames : source(q) = p
        past(p) == IF p \in renames THEN i[source(p)].version
                   ELSE IF p \in DOMAIN i THEN i[p].version ELSE NoVersion
        found(p, t) == [content |-> f[p].content, tombstone |-> FALSE,
                        version |-> Observe(past(p), n, t)]
        buried(p, t) == [i[p] EXCEPT !.tombstone = TRUE, !.version = Observe(@, n, t)]
        last == counter[n] + Cardinality(changed)
    IN  {Root([p \in DOMAIN f |-> Entry(f[p].content, p)],
              [p \in DOMAIN i \cup DOMAIN f |->
                 CASE p \in changed -> found(p, new[p])
                   [] p \in sources -> buried(p, new[target(p)])
                   [] p \in missing \ sources -> buried(p, old[p])
                   [] OTHER -> i[p]],
              last + Cardinality(missing \ sources)) :
           new \in Ticks(changed, counter[n]), old \in Ticks(missing \ sources, last)}

-----------------------------------------------------------------------------
(* Store::apply_causal_record followed by the adoption of the record. *)

\* The object at the path is what the index row says (PathObservation,
\* matches_record), a directory that goes away is empty, parents are
\* directories.
Installable(root, p, r) ==
    /\ IF p \in DOMAIN root.disk
       THEN p \in LiveRows(root.index) /\ root.disk[p].content = root.index[p].content
       ELSE p \notin LiveRows(root.index)
    /\ \A a \in Ancestors(p) \cap DOMAIN root.disk : root.disk[a].content = Directory
    /\ ~LiveDirectory(r) => Inside(p, root.disk) = {}

\* The adopted counter is the maximum of the counter and the record's own
\* component, which every caller has required to be covered already.
Install(root, p, r) ==
    LET f == WithParents(root.disk, p)
    IN  Root(IF r.tombstone THEN Without(f, {p}) ELSE Put(f, p, Entry(r.content, p)),
             Put(root.index, p, r),
             root.counter)

Becomes(n, root) ==
    /\ disk' = [disk EXCEPT ![n] = root.disk]
    /\ index' = [index EXCEPT ![n] = root.index]
    /\ counter' = [counter EXCEPT ![n] = root.counter]

\* Mutant: the receiver takes concurrent records too.
ApplicableUnlessStale(root, p, r) ==
    p \in DOMAIN root.index => Relation(root.index[p].version, r.version) # "After"

\* ensure_index_causally_applicable, at the server
CausallyApplicable(root, p, r) ==
    /\ r.version[Server] <= root.counter
    /\ p \in DOMAIN root.index => Admits(root.index[p], r)

Accepts(root, p, r) == CausallyApplicable(root, p, r) /\ Installable(root, p, r)

-----------------------------------------------------------------------------
(* One pass of a client. *)

Idle == [step |-> "idle", local |-> Empty, remote |-> Empty, desired |-> Empty,
         need |-> {}, here |-> {}, there |-> {}]

Goto(c, s) == session' = [session EXCEPT ![c] = s]
AtStep(c, step) == session[c].step = step
PassOnly == UNCHANGED <<edits, failures, owed>>

Covered(S, n) == \A p \in DOMAIN S : S[p].version[n] <= counter[n]

\* action_records and the sorts of apply_local and apply_remote: deletions
\* deepest first, directories from the root down, then files in path order.
Phase(r) == IF r.tombstone THEN 1 ELSE IF LiveDirectory(r) THEN 2 ELSE 3
Sooner(S, p, q) ==
    \/ Phase(S[p]) < Phase(S[q])
    \/ Phase(S[p]) = 1 /\ Phase(S[q]) = 1 /\ Len(p) > Len(q)
    \/ Phase(S[p]) = 2 /\ Phase(S[q]) = 2 /\ Len(p) < Len(q)
    \/ Phase(S[p]) = 3 /\ Phase(S[q]) = 3 /\ Sorts(p, q)
NextOf(S, paths) == {p \in paths : \A q \in paths : ~Sooner(S, q, p)}

\* Mutant: the kind is not looked at.
RequiredOfLive(S, paths) == {S[p].content : p \in {q \in paths : ~S[q].tombstone}}

\* The contents stage_desired_files must have before anything is applied.
Required(S, paths) == {S[p].content : p \in {q \in paths : LiveFile(S[q])}}

\* live_file_sources: the first path with the content.
Sources(S, h) ==
    LET having == {p \in DOMAIN S : LiveFile(S[p]) /\ S[p].content = h}
    IN  {p \in having : \A q \in having : ~Sorts(q, p)}

-----------------------------------------------------------------------------
(* The values a step computes once are bound over a singleton set. *)

\* sync_once: recover and scan, then the local snapshot.
Begin(c) ==
    /\ AtStep(c, "idle")
    /\ \E root \in Scan(c) :
        /\ Becomes(c, root)
        /\ Goto(c, [Idle EXCEPT !.step = "fetch", !.local = root.index])
    /\ PassOnly

Plan(local, remote, desired) ==
    LET here == ActionsToReach(local, desired)
        there == ActionsToReach(remote, desired)
    IN  [step |-> "stage", local |-> local, remote |-> remote, desired |-> desired,
         need |-> Required(desired, here \cup there), here |-> here, there |-> there]

\* fetch_snapshot (handle_query_session scans first), the checks on what came
\* back and the plan.
Fetch(c) ==
    /\ AtStep(c, "fetch")
    /\ \E root \in Scan(Server) :
       \E remote \in {FetchSnapshot(session[c].local, root.index)} :
       \E desired \in {MergeSnapshots(session[c].local, remote)} :
        /\ Becomes(Server, root)
        /\ Goto(c, IF /\ Accepted(session[c].local, root.index, remote)
                      /\ Covered(remote, c) /\ Materializable(desired)
                   THEN Plan(session[c].local, remote, desired) ELSE Idle)
    /\ PassOnly

\* A required content is ingested from its file, which must still have it.
StageLocal(c) ==
    LET s == session[c] IN
    /\ AtStep(c, "stage")
    /\ \E h \in s.need : \E p \in Sources(s.local, h) :
        Goto(c, IF \E e \in Entries(disk[c], p) : e.content = h
                THEN [s EXCEPT !.need = @ \ {h}] ELSE Idle)
    /\ UNCHANGED replicas
    /\ PassOnly

\* Or it is pulled: handle_pull scans and requires the exact record.
StageRemote(c) ==
    LET s == session[c] IN
    /\ AtStep(c, "stage")
    /\ \E root \in Scan(Server) :
        /\ Becomes(Server, root)
        /\ \E h \in {h \in s.need : Sources(s.local, h) = {}} :
           \E p \in Sources(s.remote, h) :
            Goto(c, IF root.index[p] = s.remote[p]
                    THEN [s EXCEPT !.need = @ \ {h}] ELSE Idle)
    /\ PassOnly

\* apply_local starts with a scan that must find the initial snapshot.
Check(c) ==
    /\ AtStep(c, "stage") /\ session[c].need = {}
    /\ \E root \in Scan(c) :
        /\ Becomes(c, root)
        /\ Goto(c, IF root.index = session[c].local
                   THEN [session[c] EXCEPT !.step = "apply"] ELSE Idle)
    /\ PassOnly

\* apply_local, one record.
Apply(c) ==
    LET s == session[c]
        root == Root(disk[c], index[c], counter[c])
    IN  /\ AtStep(c, "apply")
        /\ \E p \in NextOf(s.desired, s.here) :
            \/ /\ ~Installable(root, p, s.desired[p])
               /\ Goto(c, Idle) /\ UNCHANGED replicas
            \/ /\ Installable(root, p, s.desired[p])
               /\ Goto(c, [s EXCEPT !.here = @ \ {p}])
               /\ Becomes(c, Install(root, p, s.desired[p]))
        /\ PassOnly

\* push_record reads the local file again.
Readable(c, p, r) == LiveFile(r) => \E e \in Entries(disk[c], p) : e.content = r.content

\* apply_remote: what is sent next, once everything is applied here.
SentNext(c) ==
    LET s == session[c] IN
    IF AtStep(c, "apply") /\ s.here = {} THEN NextOf(s.desired, s.there) ELSE {}

\* One record; handle_push_record and handle_metadata scan, check and apply.
Push(c) ==
    LET s == session[c] IN
    /\ \E p \in SentNext(c), root \in Scan(Server) :
        \/ /\ ~Readable(c, p, s.desired[p])
           /\ Goto(c, Idle) /\ UNCHANGED replicas
        \/ /\ Readable(c, p, s.desired[p])
           /\ ~Accepts(root, p, s.desired[p])
           /\ Goto(c, Idle) /\ Becomes(Server, root)
        \/ /\ Readable(c, p, s.desired[p])
           /\ Accepts(root, p, s.desired[p])
           /\ Goto(c, [s EXCEPT !.there = @ \ {p}])
           /\ Becomes(Server, Install(root, p, s.desired[p]))
    /\ PassOnly

\* The verification scan must find the desired tree.
VerifyLocal(c) ==
    /\ AtStep(c, "apply") /\ session[c].here = {} /\ session[c].there = {}
    /\ \E root \in Scan(c) :
        /\ Becomes(c, root)
        /\ Goto(c, IF root.index = session[c].desired
                   THEN [Idle EXCEPT !.step = "verify"] ELSE Idle)
    /\ PassOnly

\* A second snapshot of the server; the pass then ends, reporting success or
\* an error, and the caller starts the next one.
VerifyRemote(c) ==
    /\ AtStep(c, "verify")
    /\ \E root \in Scan(Server) : Becomes(Server, root)
    /\ Goto(c, Idle)
    /\ PassOnly

Pass(c) == \/ Begin(c) \/ Fetch(c) \/ StageLocal(c) \/ StageRemote(c) \/ Check(c)
           \/ Apply(c) \/ Push(c) \/ VerifyLocal(c) \/ VerifyRemote(c)

Applying(n) == n \in Client /\ AtStep(n, "apply") /\ session[n].here # {}

\* A network error or a crash ends the pass; the index and the disk remain.
Fail(c) ==
    /\ ~AtStep(c, "idle")
    /\ Applying(c) => Disturb
    /\ failures < MaxFailures
    /\ failures' = failures + 1
    /\ Goto(c, Idle)
    /\ UNCHANGED <<replicas, edits, owed>>

-----------------------------------------------------------------------------
(* Users. *)

Edit(n, f, given, taken) ==
    /\ Applying(n) => Disturb
    /\ edits < MaxEdits
    /\ edits' = edits + 1
    /\ disk' = [disk EXCEPT ![n] = f]
    /\ owed' = (owed \ taken) \cup given
    /\ UNCHANGED <<index, counter, session, failures>>

Overwritten(f, p) == {e.content : e \in Entries(f, p)}

Write(n, p, v) ==
    /\ HasParent(disk[n], p)
    /\ p \in DOMAIN disk[n] => disk[n][p].content # Directory
    /\ Edit(n, Put(disk[n], p, NewEntry(v)), {v}, Overwritten(disk[n], p))

MakeDirectory(n, p) ==
    /\ HasParent(disk[n], p) /\ p \notin DOMAIN disk[n]
    /\ Edit(n, Put(disk[n], p, NewEntry(Directory)), {}, {})

\* Deletes a file, or a directory with everything in it.
Delete(n, p) ==
    LET gone == Tree(p, disk[n]) IN
    /\ p \in DOMAIN disk[n]
    /\ Edit(n, Without(disk[n], gone), {}, {disk[n][q].content : q \in gone})

\* Moves a file, possibly over another one.
Move(n, p, q) ==
    LET f == disk[n] IN
    /\ p \in DOMAIN f /\ p # q /\ HasParent(f, q)
    /\ f[p].content # Directory
    /\ q \in DOMAIN f => f[q].content # Directory
    /\ Edit(n, Put(Without(f, {p}), q, f[p]), {f[p].content}, Overwritten(f, q))

User(n) ==
    \E p \in Path :
        \/ \E v \in Content : Write(n, p, v)
        \/ MakeDirectory(n, p)
        \/ Delete(n, p)
        \/ \E q \in Path : Move(n, p, q)

-----------------------------------------------------------------------------
Init ==
    /\ disk = [n \in Replica |-> Empty]
    /\ index = [n \in Replica |-> Empty]
    /\ counter = [n \in Replica |-> 0]
    /\ session = [c \in Client |-> Idle]
    /\ edits = 0 /\ failures = 0
    /\ owed = {}

Next == \/ \E c \in Client : Pass(c) \/ Fail(c)
        \/ \E n \in Replica : User(n)

Spec == Init /\ [][Next]_vars

\* Every client keeps starting passes and a pass never stops by itself
\* (continuous synchronization); users owe nothing.
FairSpec == Spec /\ \A c \in Client : WF_vars(Pass(c))

-----------------------------------------------------------------------------
(* Properties. *)

TypeOK ==
    /\ \A n \in Replica :
        /\ counter[n] \in Nat
        /\ IsSnapshot(index[n])
        /\ \A p \in DOMAIN disk[n] :
            /\ HasParent(disk[n], p)
            /\ disk[n][p].content \in Content \cup {Directory}
    /\ \A c \in Client :
        /\ session[c].step \in {"idle", "fetch", "stage", "apply", "verify"}
        /\ session[c].need \subseteq Content
        /\ (session[c].here \cup session[c].there) \subseteq DOMAIN session[c].desired
    /\ edits \in 0 .. MaxEdits /\ failures \in 0 .. MaxFailures
    /\ owed \subseteq Content

\* Two replicas whose rows for a path have the same version vector have the
\* same state there: passes of different clients that resolve conflicts in
\* different orders, and the receiver's check, never give one version two
\* meanings.
EqualClockSameState ==
    \A m, n \in Replica : \A p \in DOMAIN index[m] \cap DOMAIN index[n] :
        index[m][p].version = index[n][p].version => SameState(index[m][p], index[n][p])

\* No row anywhere, and no plan, names an event of a replica beyond that
\* replica's own durable counter, so a replica never issues a counter twice.
CounterCovers ==
    \A n \in Replica :
        /\ \A m \in Replica : Covered(index[m], n)
        /\ \A c \in Client : Covered(session[c].desired, n)

\* Unless a client is half way through applying a plan, what a user wrote and
\* no user took away is still a file of some root: whichever side wins, the
\* losing bytes stay in the namespace as a conflict copy.
ConflictCopyKept ==
    (\A c \in Client : ~Applying(c)) =>
        owed \subseteq UNION {Contents(disk[n]) : n \in Replica}

\* Applying a plan creates nothing at a root but what the plan's desired tree
\* has live: a deletion leaves no directory behind that the next scan would
\* take for a user's.
OnlyDesiredCreated ==
    [][\A n \in Replica : \A p \in DOMAIN disk'[n] \ DOMAIN disk[n] :
        \/ edits' # edits
        \/ \E c \in Client : p \in LiveRows(session[c].desired)]_vars

\* Snapshots over a tree three levels deep: any of its paths may be absent, or
\* have one of two records that differ in version and tombstone only.
Deep == {<<Name(1)>>, <<Name(1), Name(1)>>, <<Name(1), Name(1), Name(2)>>, <<Name(2)>>}
Older == [content |-> Directory, tombstone |-> FALSE, version |-> NoVersion]
Newer == [content |-> Directory, tombstone |-> TRUE, version |-> Observe(NoVersion, Server, 1)]
Snapshots == UNION {[D -> {Older, Newer}] : D \in SUBSET Deep}

\* Whatever the client already has, the descent through the differing subtrees
\* is accepted and gives exactly the server's records, tombstones and versions
\* included: what is reused from the client's own tree is never out of date
\* (fetch_snapshot_connected).  Over all pairs of Snapshots; the runs evaluate
\* it once, in the initial state.
SnapshotExact ==
    Init => \A local, remote \in Snapshots :
        \E records \in {FetchSnapshot(local, remote)} :
            records = remote /\ Accepted(local, remote, records)

\* What a replica knows of a path's history is never forgotten.
KnowledgeGrows ==
    [][\A n \in Replica : \A p \in DOMAIN index[n] :
        /\ p \in DOMAIN index'[n]
        /\ Relation(index[n][p].version, index'[n][p].version) \in {"Before", "Equal"}]_vars

\* Every root is exactly what its index says, and all indexes are the same.
InSync ==
    \A n \in Replica :
        /\ index[n] = index[Server]
        /\ DOMAIN disk[n] = LiveRows(index[n])
        /\ \A p \in DOMAIN disk[n] :
            disk[n][p].row = p /\ disk[n][p].content = index[n][p].content

\* When the users stop editing and passes stop failing, all replicas reach the
\* same state and stay there.
Converges == <>[]InSync

=============================================================================
