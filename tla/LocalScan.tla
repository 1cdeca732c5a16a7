----------------------------- MODULE LocalScan -----------------------------
(***************************************************************************)
(* LocalIndex::scan and scan_incremental (deltaweave-index) while users    *)
(* keep changing the tree: the walk, the parallel stable hashing, the      *)
(* difference with the saved rows and its commit, the retry queue, and the *)
(* watch loop that decides when to scan and what to look at.               *)
(*                                                                         *)
(* Every write makes new bytes, named by a number; a write or a rename     *)
(* gives the file a new ctime (Unix), its mtime may be put back.           *)
(***************************************************************************)
EXTENDS Naturals, Sequences, FiniteSets

CONSTANTS
    Path,         \* portable paths; those in Dir can only be directories
    Dir, Root,
    Parent,       \* Path -> Dir \cup {Root}
    Order,        \* the paths in the order in which a walk comes to them
    Flaky, OddIn, \* what may become unreadable, and get names that are not portable
    None,
    MaxEdits,     \* bound: the first files, changes by users, reopenings
    MaxWait       \* bound: ticks of the longest retry delay (RETRY_MAX_MS)

ASSUME LocalScanAssumption ==
    /\ Flaky \subseteq Path \cup {Root} /\ OddIn \subseteq Dir \cup {Root}
    /\ Dir \subseteq Path /\ Root \notin Path /\ Parent \in [Path -> Dir \cup {Root}]
    /\ Order \in [1 .. Cardinality(Path) -> Path]
    /\ \A p \in Path : \E i \in DOMAIN Order : Order[i] = p
    /\ \A S \in (SUBSET Path) \ {{}} : \E p \in S : Parent[p] \notin S  \* no cycle
    /\ MaxEdits \in Nat /\ Len(Order) <= MaxEdits /\ MaxWait \in Nat \ {0}

Number == 0 .. MaxEdits
Object == [dir: BOOLEAN, ino: Number, mtime: Number, ctime: Number, data: Number]
Row == [dir: BOOLEAN, ino: Number, mtime: Number, data: Number, dead: BOOLEAN, ver: Nat]

ASSUME NoneAssumption == None \notin Object

VARIABLES
    disk,         \* what users see
    locked,       \* objects that cannot be opened or listed at the moment
    odd,          \* directories with an entry whose name is not portable
    mtimeOf,      \* history: the mtime with which each content was written
    edits,
    rows, retry,  \* the database: PathRecord and RetryRecord tables
    ignored,      \* ignored paths of this opening of the index
    events,       \* WatchService: paths reported and not yet taken
    rescan,       \*   and whether loss or ambiguity was reported
    scan,         \* the scan under way
    gone          \* history: paths absent at some moment of this scan

tree == <<disk, locked, odd, mtimeOf, edits>>
base == <<rows, retry>>
watch == <<events, rescan>>
vars == <<tree, base, ignored, watch, scan, gone>>

Stage == {"none", "queued", "read", "done", "failed"}
Scan == [pc: {"idle", "walk", "hash"}, full: BOOLEAN, touched: SUBSET Path,
         later: SUBSET Path,          \* retries that are not due
         prev: [Path -> Row \cup {None}],
         todo: SUBSET [list: BOOLEAN, at: Path \cup {Root}],
         found: [Path -> Object \cup {None}],
         unsure: SUBSET Path, keep: SUBSET Path, keepAll: BOOLEAN,
         stage: [Path -> Stage], data: [Path -> Number]]

Nowhere == [p \in Path |-> None]
Idle == [pc |-> "idle", full |-> FALSE, touched |-> {}, later |-> {}, prev |-> Nowhere,
         todo |-> {}, found |-> Nowhere, unsure |-> {}, keep |-> {}, keepAll |-> FALSE,
         stage |-> [p \in Path |-> "none"], data |-> [p \in Path |-> 0]]

TypeOK ==
    /\ disk \in [Path -> Object \cup {None}] /\ locked \subseteq Path \cup {Root}
    /\ odd \subseteq Dir \cup {Root} /\ edits \in Number /\ mtimeOf \in [Number -> Number]
    /\ rows \in [Path -> Row \cup {None}]
    /\ retry \in [Path -> [attempts: 1 .. MaxWait, wait: 0 .. MaxWait] \cup {None}]
    /\ ignored \subseteq Path /\ events \subseteq Path /\ rescan \in BOOLEAN
    /\ scan \in Scan /\ gone \subseteq Path

\* A path and the directories it lies in: the least set that has the path and the
\* parent of each of its members.
Upward(S) == \A q \in S : Parent[q] \in S \cup {Root}
Above == [p \in Path |-> {q \in Path : \A S \in SUBSET Path : p \in S /\ Upward(S) => q \in S}]
Under(p, set) == Above[p] \cap set # {}

\* Where a walk that meets everything would come to it.
Place == [q \in Path \cup {Root} |-> IF q = Root THEN 0 ELSE CHOOSE i \in DOMAIN Order : Order[i] = q]

\* A folder that was never scanned, full or without its directories; its
\* contents are the first numbers.
Init ==
    /\ \E with \in BOOLEAN : disk =
          [p \in Path |-> LET n == Place[p] IN
                 IF ~with /\ Above[p] \cap Dir # {} THEN None
                 ELSE IF p \in Dir THEN [dir |-> TRUE, ino |-> n, mtime |-> 0, ctime |-> 0, data |-> 0]
                 ELSE [dir |-> FALSE, ino |-> n, mtime |-> n, ctime |-> n, data |-> n]]
    /\ edits = Len(Order) /\ mtimeOf = [n \in Number |-> IF n <= Len(Order) THEN n ELSE 0]
    /\ locked = {} /\ odd = {}
    /\ rows = Nowhere /\ retry = Nowhere /\ ignored = {}
    /\ events = {} /\ rescan = FALSE /\ scan = Idle /\ gone = {}

-----------------------------------------------------------------------------
Live(rs) == {p \in Path : rs[p] # None /\ ~rs[p].dead}

-----------------------------------------------------------------------------
(* Users, and the watcher that may tell of them (notify; external). *)

Exists(d) == d \in {Root} \cup {p \in Path : disk[p] # None}

\* The native watcher reports the paths, or misses them.
Reported(ps) == events' \in {events, events \cup ps} /\ UNCHANGED rescan

\* It reports an error or an ambiguous event (seen by the next poll).
WatcherError ==
    /\ scan = Idle /\ ~rescan /\ rescan' = TRUE
    /\ UNCHANGED <<tree, base, ignored, events, scan, gone>>

Edit(ps) ==
    /\ edits < MaxEdits /\ edits' = edits + 1 /\ Reported(ps)
    /\ gone' = IF scan = Idle THEN {} ELSE gone \cup {p \in Path : disk'[p] = None}
    /\ UNCHANGED <<base, ignored, scan>>

Write(p) ==
    LET n == edits + 1 IN
    /\ p \notin Dir /\ Exists(Parent[p])
    /\ \E m \in {n} \cup {disk[q].mtime : q \in {p} \ {r \in Path : disk[r] = None}} :
          /\ disk' = [disk EXCEPT ![p] =
                [dir |-> FALSE, ino |-> IF disk[p] = None THEN n ELSE disk[p].ino,
                 mtime |-> m, ctime |-> n, data |-> n]]
          /\ mtimeOf' = [mtimeOf EXCEPT ![n] = m]
    /\ Edit({p}) /\ UNCHANGED <<locked, odd>>

Mkdir(d) ==
    /\ d \in Dir /\ disk[d] = None /\ Exists(Parent[d])
    /\ disk' = [disk EXCEPT ![d] = [dir |-> TRUE, ino |-> edits + 1, mtime |-> 0,
                                    ctime |-> 0, data |-> 0]]
    /\ Edit({d}) /\ UNCHANGED <<locked, odd, mtimeOf>>

Remove(p) ==
    /\ disk[p] # None /\ (\A q \in Path : Parent[q] = p => disk[q] = None)
    /\ disk' = [disk EXCEPT ![p] = None]
    /\ locked' = locked \ {p} /\ odd' = odd \ {p}
    /\ Edit({p}) /\ UNCHANGED mtimeOf

Rename(p, q) ==
    /\ p # q /\ p \notin Dir /\ q \notin Dir /\ disk[p] # None /\ Exists(Parent[q])
    /\ disk' = [disk EXCEPT ![q] = [disk[p] EXCEPT !.ctime = edits + 1], ![p] = None]
    /\ Edit({p, q}) /\ UNCHANGED <<locked, odd, mtimeOf>>

\* Permissions and odd names come and go.
Disturb ==
    /\ UNCHANGED <<disk, mtimeOf>>
    /\ \/ \E x \in Flaky :
             /\ Exists(x) /\ UNCHANGED odd
             /\ locked' = IF x \in locked THEN locked \ {x} ELSE locked \cup {x}
       \/ \E d \in OddIn :
             /\ Exists(d) /\ UNCHANGED locked
             /\ odd' = IF d \in odd THEN odd \ {d} ELSE odd \cup {d}
    /\ Edit({})

\* Time passes: retries come due (RetryRecord::is_due).
Tick ==
    /\ \E p \in Path : retry[p] # None /\ retry[p].wait > 0
    /\ retry' = [p \in Path |-> IF retry[p] = None \/ retry[p].wait = 0 THEN retry[p]
                                ELSE [retry[p] EXCEPT !.wait = @ - 1]]
    /\ UNCHANGED <<tree, rows, ignored, watch, scan, gone>>

-----------------------------------------------------------------------------
(* The walk. *)

\* scan_internal up to the walk; ignored paths are uncertain from the start.
Begin(full, touched) ==
    /\ scan = Idle
    /\ scan' = [Idle EXCEPT !.pc = "walk", !.full = full, !.touched = touched, !.prev = rows,
                            !.todo = {[list |-> TRUE, at |-> Root]}, !.unsure = ignored,
                            !.later = {p \in Path : retry[p] # None /\ retry[p].wait > 0}]
    /\ gone' = {p \in Path : disk[p] = None}
    /\ UNCHANGED <<tree, base, ignored>>

\* Mutant: the periodic scan also looks at the reported paths only.
PeriodicHints == Begin(FALSE, {}) /\ UNCHANGED watch

\* The periodic (and the fallback, and the first) scan looks at everything.
Periodic == Begin(TRUE, {}) /\ UNCHANGED watch

\* take_ready: some event came, and the quiet time or the longest delay passed;
\* an ambiguous one does not wait.
Ready == events # {} \/ rescan

\* WatchService::poll takes the whole batch.
Poll == Ready /\ events' = {} /\ rescan' = FALSE

\* The scan a batch starts; loss or ambiguity asks for a full one.
Trigger ==
    /\ Poll
    /\ \E full \in {TRUE, rescan} : Begin(full, IF full THEN {} ELSE events)

\* read_dir.  A root that cannot be listed ends the scan without a commit.
List(v) ==
    LET dir == v.at
        entries == {p \in Path : Parent[p] = dir /\ disk[p] # None /\ p \notin ignored}
    IN
    /\ IF Exists(dir) /\ dir \notin locked
       THEN /\ scan' = [scan EXCEPT
                   !.todo = (@ \ {v}) \cup {[list |-> FALSE, at |-> p] : p \in entries},
                   !.keepAll = @ \/ (dir = Root /\ dir \in odd),
                   !.unsure = IF dir # Root /\ dir \in odd THEN @ \cup {dir} ELSE @]
            /\ UNCHANGED gone
       ELSE IF dir = Root THEN scan' = Idle /\ gone' = {}
       ELSE scan' = [scan EXCEPT !.todo = @ \ {v}, !.unsure = @ \cup {dir}] /\ UNCHANGED gone

\* symlink_metadata of a listed entry.
Stat(v) ==
    LET p == v.at IN
    /\ scan' = IF disk[p] = None
               THEN [scan EXCEPT !.todo = @ \ {v}, !.unsure = @ \cup {p}, !.keep = @ \cup {p}]
               ELSE [scan EXCEPT !.found[p] = disk[p],
                                 !.todo = (@ \ {v}) \cup
                                     (IF disk[p].dir THEN {[list |-> TRUE, at |-> p]} ELSE {})]
    /\ UNCHANGED gone

\* collect_directory: what is left to do is done in the order of the tree, a
\* directory's entries before its next sibling.
Walk ==
    /\ scan.pc = "walk"
    /\ \E v \in scan.todo :
          /\ \A w \in scan.todo : Place[v.at] <= Place[w.at]
          /\ IF v.list THEN List(v) ELSE Stat(v)
    /\ UNCHANGED <<tree, base, ignored, watch>>

-----------------------------------------------------------------------------
(* Hashing. *)

\* record_fingerprint_matches (no ctime) and record_matches.
SameFingerprint(r, o) == r.dir = o.dir /\ r.ino = o.ino /\ r.mtime = o.mtime
Matches(r, o) == SameFingerprint(r, o) /\ r.data = o.data

\* Which files are hashed, taken over from their row, or left for later.
Classify ==
    LET file == {p \in Path : scan.found[p] # None /\ ~scan.found[p].dir}
        reuse == {p \in file : /\ ~scan.full /\ ~Under(p, scan.touched)
                               /\ p \in Live(scan.prev)
                               /\ SameFingerprint(scan.prev[p], scan.found[p])}
        defer == (file \ reuse) \cap scan.later
    IN
    /\ scan.pc = "walk" /\ scan.todo = {}
    /\ scan' = [scan EXCEPT
          !.pc = "hash", !.keep = @ \cup defer,
          !.stage = [p \in Path |-> CASE p \in reuse -> "done"
                                      [] p \in file \ (reuse \cup defer) -> "queued"
                                      [] OTHER -> "none"],
          !.data = [p \in Path |-> IF p \in reuse THEN scan.prev[p].data ELSE 0]]
    /\ UNCHANGED <<tree, base, ignored, watch, gone>>

\* hash_stable_file, first half: a worker opens and reads the file.
HashRead(p) ==
    /\ scan.pc = "hash" /\ scan.stage[p] = "queued"
    /\ scan' = IF disk[p] = None \/ p \in locked THEN [scan EXCEPT !.stage[p] = "failed"]
               ELSE [scan EXCEPT !.stage[p] = "read", !.data[p] = disk[p].data]
    /\ UNCHANGED <<tree, base, ignored, watch, gone>>

\* Mutant: what was read is taken without looking at the file again.
HashTrusted(p) ==
    /\ scan.pc = "hash" /\ scan.stage[p] = "read"
    /\ scan' = [scan EXCEPT !.stage[p] = "done"]
    /\ UNCHANGED <<tree, base, ignored, watch, gone>>

\* Second half: all of the metadata, ctime included, is as it was at the walk.
HashCheck(p) ==
    /\ scan.pc = "hash" /\ scan.stage[p] = "read"
    /\ scan' = [scan EXCEPT !.stage[p] = IF disk[p] = scan.found[p] THEN "done" ELSE "failed"]
    /\ UNCHANGED <<tree, base, ignored, watch, gone>>

-----------------------------------------------------------------------------
(* apply_scan and commit_state: one transaction. *)

Current == {p \in Path : scan.found[p] # None /\ (scan.found[p].dir \/ scan.stage[p] = "done")}
Entry(p) == [scan.found[p] EXCEPT !.data = scan.data[p]]
Failed == {p \in Path : scan.stage[p] = "failed"}

\* Mutant: a file that could not be hashed counts as missing.
PreserveUnread(p) == scan.keepAll \/ p \in scan.keep \/ Under(p, scan.unsure)

\* should_preserve: a path the scan is not sure about is never a deletion.
Preserve(p) == scan.keepAll \/ p \in scan.keep \cup Failed \/ Under(p, scan.unsure)

\* correlate_renames: one missing row and one new entry with that identity.
Missing == {p \in Live(scan.prev) \ Current : ~Preserve(p)}
Fresh == Current \ Live(scan.prev)
Source(q) ==
    LET same(o) == o.ino = scan.found[q].ino /\ o.dir = scan.found[q].dir
        old == {p \in Missing : same(scan.prev[p])}
    IN  {p \in old : /\ old = {p} /\ {r \in Fresh : same(scan.found[r])} = {q}
                     /\ Matches(scan.prev[p], Entry(q))}
Renamed == {q \in Fresh : Source(q) # {}}

NewRow(p, ver) == [dir |-> Entry(p).dir, ino |-> Entry(p).ino, mtime |-> Entry(p).mtime,
                   data |-> Entry(p).data, dead |-> FALSE, ver |-> ver]
Ver(r) == IF r = None THEN 0 ELSE r.ver
NextRows ==
    [p \in Path |->
       CASE p \in Renamed -> NewRow(p, Ver(scan.prev[CHOOSE s \in Source(p) : TRUE]) + 1)
         [] p \in Current \ Renamed ->
              IF p \in Live(scan.prev) /\ Matches(scan.prev[p], Entry(p)) THEN scan.prev[p]
              ELSE NewRow(p, Ver(scan.prev[p]) + 1)
         [] p \in Missing -> [scan.prev[p] EXCEPT !.dead = TRUE, !.ver = @ + 1]
         [] OTHER -> scan.prev[p]]

\* schedule_retry: the delay doubles up to the longest one.
Doubled(r) == LET n == IF r = None THEN 1 ELSE IF r.attempts < MaxWait THEN r.attempts + 1 ELSE MaxWait
              IN  [attempts |-> n, wait |-> IF 2 ^ (n - 1) < MaxWait THEN 2 ^ (n - 1) ELSE MaxWait]

\* A retry stays while its path is unresolved and not ignored.
NextRetries ==
    [p \in Path |->
       IF p \in Failed THEN Doubled(IF Under(p, ignored) THEN None ELSE retry[p])
       ELSE IF p \in Current \/ Under(p, ignored) \/ ~Preserve(p) THEN None ELSE retry[p]]

\* Every row of the difference is written; a row it does not have is kept.
Commit ==
    /\ scan.pc = "hash" /\ \A p \in Path : scan.stage[p] \notin {"queued", "read"}
    /\ rows' = [p \in Path |-> IF NextRows[p] = None THEN rows[p] ELSE NextRows[p]]
    /\ retry' = NextRetries
    /\ scan' = Idle /\ gone' = {}
    /\ UNCHANGED <<tree, ignored, watch>>

-----------------------------------------------------------------------------
(* Adoption of a peer's file, a crash, another opening. *)

Adopting(p) ==
    LET n == edits + 1 IN
    /\ p \notin Dir /\ Exists(Parent[p]) /\ edits < MaxEdits /\ edits' = n
    /\ disk' = [disk EXCEPT ![p] = [dir |-> FALSE, ino |-> n, mtime |-> n, ctime |-> n, data |-> n]]
    /\ mtimeOf' = [mtimeOf EXCEPT ![n] = n]
    /\ rows' = [rows EXCEPT ![p] = [dir |-> FALSE, ino |-> n, mtime |-> n, data |-> n,
                                    dead |-> FALSE, ver |-> Ver(rows[p]) + 1]]
    /\ retry' = [retry EXCEPT ![p] = None]
    /\ events' = events \cup {p}
    /\ UNCHANGED <<locked, odd, ignored, rescan, scan, gone>>

\* Mutant: no mutation gate around scans and adoptions.
AdoptUngated(p) == Adopting(p)

\* Materialized and adopted (commit_adopted_record) by a caller that holds the
\* gate which scans hold too; the file is verified against the record first.
Adopt(p) == scan = Idle /\ Adopting(p)

\* The process stops and starts again, possibly with other ignored paths.
Reopen ==
    /\ edits < MaxEdits /\ edits' = edits + 1
    /\ ignored' \in {{}} \cup {{d} : d \in Dir}
    /\ scan' = Idle /\ gone' = {} /\ events' = {} /\ rescan' = FALSE
    /\ UNCHANGED <<disk, locked, odd, mtimeOf, base>>

ScanStep ==
    \/ Walk \/ Classify \/ Commit
    \/ \E p \in Path : HashRead(p) \/ HashCheck(p)

Next ==
    \/ \E p \in Path : Write(p) \/ Mkdir(p) \/ Remove(p) \/ Adopt(p) \/ \E q \in Path : Rename(p, q)
    \/ WatcherError \/ Disturb \/ Tick \/ Reopen
    \/ Periodic \/ Trigger \/ ScanStep

\* The watch loop keeps running, and time keeps passing.
Spec == Init /\ [][Next]_vars /\ WF_vars(ScanStep) /\ WF_vars(Periodic) /\ WF_vars(Tick)

-----------------------------------------------------------------------------
\* NoFalseDeletion: a commit buries a row only if the path was really absent
\* at some moment of that scan, whatever failed to be listed, read or hashed,
\* was ignored or changed meanwhile (apply_scan, should_preserve).
NoFalseDeletion ==
    [][\A p \in Live(rows) : rows'[p].dead => p \in gone]_vars

\* RowsObserved: the content hash and the modification time in a live row were
\* once those of the same file: no mixture of what the file was at the walk and
\* while it was read (hash_stable_file, and the reuse of hashes by
\* scan_incremental).
RowsObserved ==
    \A p \in Live(rows) : rows[p].dir \/ mtimeOf[rows[p].data] = rows[p].mtime

\* HistoryGrows: a path that stays live, or is buried, never goes back to an
\* older version, so no commit overwrites a row that another operation has
\* adopted since the scan read it (scan_internal, commit_state).
HistoryGrows ==
    [][\A p \in Live(rows) : rows'[p].ver >= rows[p].ver]_vars

\* What the index cannot know: the path is ignored, in a directory it cannot
\* list, a file it cannot read, or missing where an odd name hides something.
Unknowable(p) ==
    \/ Under(p, ignored \cup locked) \/ Root \in locked
    \/ disk[p] = None /\ (Root \in odd \/ \E d \in odd : d \in Above[p])

\* CatchesUp: when users stop, every row comes to agree with the tree for good,
\* although events were lost, files were busy and their retries put off, and a
\* writer put the modification time back (watch, scan, schedule_retry).
CatchesUp ==
    <>[]\A p \in Path : Unknowable(p) \/
          IF disk[p] = None THEN p \notin Live(rows)
          ELSE p \in Live(rows) /\ Matches(rows[p], disk[p])
=============================================================================
