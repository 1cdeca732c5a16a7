----------------------------- MODULE Reconcile -----------------------------
(***************************************************************************)
(* The pure merge of deltaweave-reconcile over the version vectors and     *)
(* records of deltaweave-core: how two snapshots of a folder become one,   *)
(* which side wins a conflict and where the losing bytes go.               *)
(*                                                                         *)
(* A path is a non-empty sequence of names; a name is a number, in the     *)
(* order of the strings, and the conflict suffixes it carries.  A file     *)
(* record is known by its content; size and readonly flag are part of the  *)
(* content, and symlinks and special files (never materialized) are left   *)
(* out.                                                                    *)
(***************************************************************************)
EXTENDS Naturals, Sequences

CONSTANTS
    Replica,      \* replicas that author events
    Resolver,     \* the clock component of conflict_resolver_replica
    Content,      \* contents of files
    Directory,    \* what a directory has in place of a content
    StateHash     \* the order of state_hash over states

Clock == Replica \cup {Resolver}
State == [content: Content \cup {Directory}, tombstone: BOOLEAN]

\* state_hash is a cryptographic digest: any order, without collisions.
ASSUME ReconcileAssumption ==
    /\ Resolver \notin Replica
    /\ Directory \notin Content
    /\ StateHash \in [State -> Nat]
    /\ \A s, t \in State : StateHash[s] = StateHash[t] => s = t

-----------------------------------------------------------------------------
(* Version vectors.  A replica without an entry has counter 0. *)

VersionVector == [Clock -> Nat]
NoVersion == [k \in Clock |-> 0]

Larger(m, n) == IF m < n THEN n ELSE m

Observe(v, k, n) == [v EXCEPT ![k] = Larger(@, n)]

Merge(v, w) == [k \in Clock |-> Larger(v[k], w[k])]

Relation(v, w) ==
    LET less == \E k \in Clock : v[k] < w[k]
        greater == \E k \in Clock : v[k] > w[k]
    IN  CASE less /\ greater   -> "Concurrent"
          [] less /\ ~greater  -> "Before"
          [] ~less /\ greater  -> "After"
          [] ~less /\ ~greater -> "Equal"

-----------------------------------------------------------------------------
(* Records.  A tombstone keeps the content the path last had. *)

Record == [content: Content \cup {Directory}, tombstone: BOOLEAN,
           version: VersionVector]

StateOf(r) == [content |-> r.content, tombstone |-> r.tombstone]
SameState(l, r) == StateOf(l) = StateOf(r)

LiveDirectory(r) == ~r.tombstone /\ r.content = Directory
LiveFile(r) == ~r.tombstone /\ r.content # Directory

-----------------------------------------------------------------------------
(* resolve_conflict *)

\* A live directory beats anything else; otherwise the larger state_hash.
LeftWins(l, r) ==
    \/ LiveDirectory(l) /\ ~LiveDirectory(r)
    \/ /\ LiveDirectory(l) <=> LiveDirectory(r)
       /\ StateHash[StateOf(l)] >= StateHash[StateOf(r)]

Winner(l, r) == IF LeftWins(l, r) THEN l ELSE r
Loser(l, r) == IF LeftWins(l, r) THEN r ELSE l

Resolved(l, r) ==
    LET v == Merge(l.version, r.version) IN Observe(v, Resolver, v[Resolver] + 1)

\* Mutant: bytes that lose to a deletion are taken for deleted.
PreservesLoserOfEdit(winner, loser) ==
    LiveFile(loser) /\ ~winner.tombstone /\ winner.content # loser.content

\* should_preserve_loser
PreservesLoser(winner, loser) ==
    LiveFile(loser) /\ (winner.tombstone \/ winner.content # loser.content)

Conflicting(l, r) ==
    Relation(l.version, r.version) \in {"Equal", "Concurrent"} /\ ~SameState(l, r)

\* Mutant: identical concurrent states are taken for equal records.
MergeRecordKeepingClock(l, r) ==
    CASE Relation(l.version, r.version) = "Before" -> r
      [] Relation(l.version, r.version) = "After"  -> l
      [] Conflicting(l, r) -> [Winner(l, r) EXCEPT !.version = Resolved(l, r)]
      [] OTHER -> l

\* The canonical record merge_snapshots keeps at a path both sides know.
MergeRecord(l, r) ==
    CASE Relation(l.version, r.version) = "Before" -> r
      [] Relation(l.version, r.version) = "After"  -> l
      [] Conflicting(l, r) -> [Winner(l, r) EXCEPT !.version = Resolved(l, r)]
      [] OTHER -> [l EXCEPT !.version = Merge(l.version, r.version)]

\* ensure_index_causally_applicable: what a replica takes over its current row.
Admits(current, r) ==
    \/ Relation(current.version, r.version) = "Before"
    \/ Relation(current.version, r.version) = "Equal" /\ SameState(current, r)

-----------------------------------------------------------------------------
(* merge_snapshots.  A snapshot is a function from paths to records. *)

IsSnapshot(S) == \A p \in DOMAIN S : S[p] \in Record

Name(k) == [stem |-> k, suffixes |-> <<>>]

\* Six token lengths, then the serials 1..10000.
ConflictNames == 0 .. 10005

\* allocate_conflict_path: a sibling named after the losing record (its
\* logical_hash covers path, state and version), the first name not occupied.
ConflictPath(p, loser, occupied) ==
    LET named(n) == [p EXCEPT ![Len(p)].suffixes = Append(@, [of |-> loser, nth |-> n])]
        free(n) == named(n) \notin occupied
    IN  named(CHOOSE n \in ConflictNames : free(n) /\ \A m \in 0 .. n - 1 : ~free(m))

\* The paths that get a conflict copy.
Losing(L, R) ==
    {p \in DOMAIN L \cap DOMAIN R :
        /\ Conflicting(L[p], R[p])
        /\ PreservesLoser(Winner(L[p], R[p]), Loser(L[p], R[p]))}

\* Where the copy of each goes, and the copy.
CopyAt(L, R) ==
    [p \in Losing(L, R) |->
        ConflictPath(p, Loser(L[p], R[p]), DOMAIN L \cup DOMAIN R)]
CopyOf(L, R, p) ==
    [Loser(L[p], R[p]) EXCEPT !.version = Resolved(L[p], R[p]), !.tombstone = FALSE]

\* The record at a path some side knows.
MergedAt(L, R, p) ==
    IF p \notin DOMAIN R THEN L[p]
    ELSE IF p \notin DOMAIN L THEN R[p] ELSE MergeRecord(L[p], R[p])

MergeSnapshots(L, R) ==
    [q \in DOMAIN L \cup DOMAIN R \cup {CopyAt(L, R)[p] : p \in Losing(L, R)} |->
        IF q \in DOMAIN L \cup DOMAIN R THEN MergedAt(L, R, q)
        ELSE CopyOf(L, R, CHOOSE p \in Losing(L, R) : CopyAt(L, R)[p] = q)]

Ancestors(p) == {SubSeq(p, 1, i) : i \in 1 .. Len(p) - 1}

\* validate_materializable_namespace, without the case-folding collisions.
Materializable(S) ==
    \A p \in DOMAIN S : ~S[p].tombstone =>
        \A a \in Ancestors(p) \cap DOMAIN S : LiveDirectory(S[a])

\* actions_to_reach: the paths whose desired record the snapshot lacks.
ActionsToReach(current, desired) ==
    {p \in DOMAIN desired : p \notin DOMAIN current \/ current[p] # desired[p]}

=============================================================================
