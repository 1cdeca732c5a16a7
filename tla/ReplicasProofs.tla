--------------------------- MODULE ReplicasProofs ---------------------------
(***************************************************************************)
(* Theorems about the merge, the fetch of a snapshot and the passes, for   *)
(* every set of replicas, contents and paths.                              *)
(*                                                                         *)
(* The merge does not depend on which side runs it, both sides may adopt   *)
(* its result, merging the result again changes nothing, and no live bytes *)
(* drop out of it.  A fetched snapshot is exactly the server's, and the    *)
(* checks on the way never refuse it.  Every event a replica has heard of  *)
(* is covered by its author's counter; and as long as nobody renames, no   *)
(* index forgets what it knew of a path, and a version of a path has one   *)
(* state, whichever replica has it.  Where names are flat and nothing gets *)
(* in between the steps of an application, no conflict loses what a user   *)
(* wrote.                                                                  *)
(***************************************************************************)
EXTENDS Replicas, FiniteSetTheorems, SequenceTheorems, TLAPS

-----------------------------------------------------------------------------
(* Version vectors. *)

\* The relation spelled out: which components are smaller on which side.
LEMMA RelationMeaning ==
    ASSUME NEW v, NEW w
    PROVE  LET less == \E k \in Clock : v[k] < w[k]
               greater == \E k \in Clock : v[k] > w[k]
           IN  /\ Relation(v, w) = "Before" <=> less /\ ~greater
               /\ Relation(v, w) = "After" <=> ~less /\ greater
               /\ Relation(v, w) = "Equal" <=> ~less /\ ~greater
               /\ Relation(v, w) = "Concurrent" <=> less /\ greater
  BY DEF Relation

\* Exchanging the sides exchanges Before and After.
LEMMA RelationSwaps ==
    ASSUME NEW v \in VersionVector, NEW w \in VersionVector
    PROVE  /\ Relation(v, w) = "Before" <=> Relation(w, v) = "After"
           /\ Relation(v, w) = "After" <=> Relation(w, v) = "Before"
           /\ Relation(v, w) \in {"Equal", "Concurrent"}
                <=> Relation(w, v) \in {"Equal", "Concurrent"}
  <1>1. \A k \in Clock : (v[k] < w[k]) <=> (w[k] > v[k])
    BY DEF VersionVector
  <1>2. \A k \in Clock : (v[k] > w[k]) <=> (w[k] < v[k])
    BY DEF VersionVector
  <1> QED
    BY <1>1, <1>2, RelationMeaning

\* VersionVector::merge keeps type, order of arguments does not matter, and
\* the result is an upper bound of both.
LEMMA MergeFacts ==
    ASSUME NEW v \in VersionVector, NEW w \in VersionVector
    PROVE  /\ Merge(v, w) \in VersionVector
           /\ Merge(v, w) = Merge(w, v)
           /\ \A k \in Clock : v[k] <= Merge(v, w)[k] /\ w[k] <= Merge(v, w)[k]
  BY DEF Merge, Larger, VersionVector

\* Equal vectors are the same function.
LEMMA EqualVectors ==
    ASSUME NEW v \in VersionVector, NEW w \in VersionVector,
           Relation(v, w) = "Equal"
    PROVE  v = w
  <1>1. \A k \in Clock : ~(v[k] < w[k]) /\ ~(v[k] > w[k])
    BY RelationMeaning
  <1>2. \A k \in Clock : v[k] = w[k]
    BY <1>1 DEF VersionVector
  <1> QED
    BY <1>2 DEF VersionVector

\* The resolver's event makes the resolved vector strictly larger than both.
LEMMA ResolvedFacts ==
    ASSUME NEW l \in Record, NEW r \in Record
    PROVE  /\ Resolved(l, r) \in VersionVector
           /\ Resolved(l, r) = Resolved(r, l)
           /\ Relation(l.version, Resolved(l, r)) = "Before"
           /\ Relation(r.version, Resolved(l, r)) = "Before"
  <1> DEFINE m == Merge(l.version, r.version)
  <1>1. l.version \in VersionVector /\ r.version \in VersionVector
    BY DEF Record
  <1>2. /\ m \in VersionVector
        /\ m = Merge(r.version, l.version)
        /\ \A k \in Clock : l.version[k] <= m[k] /\ r.version[k] <= m[k]
    BY <1>1, MergeFacts
  <1>3. Resolver \in Clock
    BY DEF Clock
  <1>4. Resolved(l, r) = [m EXCEPT ![Resolver] = m[Resolver] + 1]
    BY <1>2, <1>3 DEF Resolved, Observe, Larger, VersionVector
  <1>5. Resolved(r, l) = Resolved(l, r)
    BY <1>2 DEF Resolved
  <1>6. Resolved(l, r) \in VersionVector
    BY <1>2, <1>3, <1>4 DEF VersionVector
  <1>7. /\ l.version[Resolver] < Resolved(l, r)[Resolver]
        /\ r.version[Resolver] < Resolved(l, r)[Resolver]
    BY <1>1, <1>2, <1>3, <1>4 DEF VersionVector
  <1>8. \A k \in Clock : /\ ~(l.version[k] > Resolved(l, r)[k])
                         /\ ~(r.version[k] > Resolved(l, r)[k])
    BY <1>1, <1>2, <1>3, <1>4 DEF VersionVector
  <1> QED
    BY <1>3, <1>5, <1>6, <1>7, <1>8, RelationMeaning

-----------------------------------------------------------------------------
(* The winner of a conflict. *)

\* state_hash of a record is a number, and different states have different
\* ones.
LEMMA HashFacts ==
    ASSUME NEW l \in Record, NEW r \in Record, ~SameState(l, r)
    PROVE  /\ StateHash[StateOf(l)] \in Nat
           /\ StateHash[StateOf(r)] \in Nat
           /\ StateHash[StateOf(l)] # StateHash[StateOf(r)]
  <1>1. StateOf(l) \in State /\ StateOf(r) \in State
    BY DEF StateOf, Record, State
  <1> QED
    BY <1>1, ReconcileAssumption DEF SameState

\* Exactly one side of a conflict wins, whichever side is called left.
LEMMA OneWinner ==
    ASSUME NEW l \in Record, NEW r \in Record, ~SameState(l, r)
    PROVE  LeftWins(l, r) <=> ~LeftWins(r, l)
  <1>1. (StateHash[StateOf(l)] >= StateHash[StateOf(r)])
            <=> ~(StateHash[StateOf(r)] >= StateHash[StateOf(l)])
    BY HashFacts
  <1>2. CASE LiveDirectory(l) <=> LiveDirectory(r)
    BY <1>1, <1>2 DEF LeftWins
  <1>3. CASE ~(LiveDirectory(l) <=> LiveDirectory(r))
    BY <1>3 DEF LeftWins
  <1> QED
    BY <1>2, <1>3

\* So winner and loser are the same records from both sides.
LEMMA WinnerAgrees ==
    ASSUME NEW l \in Record, NEW r \in Record, ~SameState(l, r)
    PROVE  /\ Winner(l, r) = Winner(r, l)
           /\ Loser(l, r) = Loser(r, l)
  BY OneWinner DEF Winner, Loser

\* Whether two records conflict does not depend on the sides either.
LEMMA ConflictAgrees ==
    ASSUME NEW l \in Record, NEW r \in Record
    PROVE  Conflicting(l, r) <=> Conflicting(r, l)
  <1>1. l.version \in VersionVector /\ r.version \in VersionVector
    BY DEF Record
  <1> QED
    BY <1>1, RelationSwaps DEF Conflicting, SameState

-----------------------------------------------------------------------------
(* One path. *)

\* The record a merge keeps is a record.
LEMMA MergeRecordType ==
    ASSUME NEW l \in Record, NEW r \in Record
    PROVE  MergeRecord(l, r) \in Record
  <1>1. Resolved(l, r) \in VersionVector
    BY ResolvedFacts
  <1>2. Merge(l.version, r.version) \in VersionVector
    BY MergeFacts DEF Record
  <1>3. Winner(l, r) \in Record
    BY DEF Winner
  <1>4. [Winner(l, r) EXCEPT !.version = Resolved(l, r)] \in Record
    BY <1>1, <1>3 DEF Record
  <1>5. [l EXCEPT !.version = Merge(l.version, r.version)] \in Record
    BY <1>2 DEF Record
  <1> QED
    BY <1>4, <1>5 DEF MergeRecord

\* Two peers that merge the same pair of records, each seeing its own as the
\* left one, keep the same record (merge_snapshots, resolve_conflict).
THEOREM MergeRecordCommutes ==
    ASSUME NEW l \in Record, NEW r \in Record
    PROVE  MergeRecord(l, r) = MergeRecord(r, l)
  <1>1. l.version \in VersionVector /\ r.version \in VersionVector
    BY DEF Record
  <1>2. CASE Relation(l.version, r.version) = "Before"
    <2>1. Relation(r.version, l.version) = "After"
      BY <1>1, <1>2, RelationSwaps
    <2> QED
      BY <1>2, <2>1 DEF MergeRecord, Conflicting
  <1>3. CASE Relation(l.version, r.version) = "After"
    <2>1. Relation(r.version, l.version) = "Before"
      BY <1>1, <1>3, RelationSwaps
    <2> QED
      BY <1>3, <2>1 DEF MergeRecord, Conflicting
  <1>4. CASE Conflicting(l, r)
    <2>1. Conflicting(r, l)
      BY <1>4, ConflictAgrees
    <2>2. ~SameState(l, r)
      BY <1>4 DEF Conflicting
    <2>3. Winner(l, r) = Winner(r, l) /\ Resolved(l, r) = Resolved(r, l)
      BY <2>2, WinnerAgrees, ResolvedFacts
    <2>4. /\ Relation(l.version, r.version) \notin {"Before", "After"}
          /\ Relation(r.version, l.version) \notin {"Before", "After"}
      BY <1>4, <2>1 DEF Conflicting
    <2> QED
      BY <1>4, <2>1, <2>3, <2>4 DEF MergeRecord
  <1>5. CASE /\ Relation(l.version, r.version) \notin {"Before", "After"}
             /\ ~Conflicting(l, r)
    <2>1. /\ Relation(r.version, l.version) \notin {"Before", "After"}
          /\ ~Conflicting(r, l)
      BY <1>1, <1>5, RelationSwaps, ConflictAgrees
    <2>2. Relation(l.version, r.version) \in {"Equal", "Concurrent"}
      BY <1>5 DEF Relation
    <2>3. SameState(l, r)
      BY <1>5, <2>2 DEF Conflicting
    <2>4. l.content = r.content /\ l.tombstone = r.tombstone
      BY <2>3 DEF SameState, StateOf
    <2>5. Merge(l.version, r.version) = Merge(r.version, l.version)
      BY <1>1, MergeFacts
    <2>6. [l EXCEPT !.version = Merge(l.version, r.version)]
            = [r EXCEPT !.version = Merge(r.version, l.version)]
      BY <2>4, <2>5 DEF Record
    <2> QED
      BY <1>5, <2>1, <2>6 DEF MergeRecord
  <1> QED
    BY <1>2, <1>3, <1>4, <1>5

\* The merged record passes the causal check of either side's receiver, as
\* long as that side still has the record that went into the merge: it is
\* causally after it, or it is the same record.
THEOREM MergeAdmitted ==
    ASSUME NEW l \in Record, NEW r \in Record
    PROVE  Admits(l, MergeRecord(l, r)) /\ Admits(r, MergeRecord(l, r))
  <1> SUFFICES ASSUME NEW a \in Record, NEW b \in Record
               PROVE  Admits(a, MergeRecord(a, b))
    BY MergeRecordCommutes
  <1>1. a.version \in VersionVector /\ b.version \in VersionVector
    BY DEF Record
  <1>2. CASE Relation(a.version, b.version) = "Before"
    BY <1>2 DEF Admits, MergeRecord, Conflicting
  <1>3. CASE Relation(a.version, b.version) = "After"
    <2>1. MergeRecord(a, b) = a
      BY <1>3 DEF MergeRecord, Conflicting
    <2>2. Relation(a.version, a.version) = "Equal"
      BY <1>1, RelationMeaning DEF VersionVector
    <2> QED
      BY <2>1, <2>2 DEF Admits, SameState
  <1>4. CASE Conflicting(a, b)
    <2>1. Relation(a.version, b.version) \notin {"Before", "After"}
      BY <1>4 DEF Conflicting
    <2>2. MergeRecord(a, b) = [Winner(a, b) EXCEPT !.version = Resolved(a, b)]
      BY <1>4, <2>1 DEF MergeRecord
    <2>3. MergeRecord(a, b).version = Resolved(a, b)
      BY <2>2 DEF Winner, Record
    <2> QED
      BY <2>3, ResolvedFacts DEF Admits
  <1>5. CASE /\ Relation(a.version, b.version) \notin {"Before", "After"}
             /\ ~Conflicting(a, b)
    <2> DEFINE m == Merge(a.version, b.version)
    <2>1. MergeRecord(a, b) = [a EXCEPT !.version = m]
      BY <1>5 DEF MergeRecord
    <2>2. MergeRecord(a, b).version = m /\ SameState(a, MergeRecord(a, b))
      BY <2>1 DEF Record, SameState, StateOf
    <2>3. m \in VersionVector /\ \A k \in Clock : a.version[k] <= m[k]
      BY <1>1, MergeFacts
    <2>4. ~ \E k \in Clock : a.version[k] > m[k]
      BY <1>1, <2>3 DEF VersionVector
    <2>5. Relation(a.version, m) \in {"Before", "Equal"}
      BY <2>4, RelationMeaning
    <2> QED
      BY <2>2, <2>5 DEF Admits
  <1> QED
    BY <1>2, <1>3, <1>4, <1>5

\* A merged record merged again with either of its sides is itself: a pass
\* repeated after an interruption finds no new conflict at the path.
THEOREM MergeStable ==
    ASSUME NEW l \in Record, NEW r \in Record
    PROVE  /\ MergeRecord(l, MergeRecord(l, r)) = MergeRecord(l, r)
           /\ MergeRecord(r, MergeRecord(l, r)) = MergeRecord(l, r)
  <1> DEFINE m == MergeRecord(l, r)
  <1>1. m \in Record
    BY MergeRecordType
  <1> SUFFICES ASSUME NEW a \in Record, Admits(a, m)
               PROVE  MergeRecord(a, m) = m
    BY MergeAdmitted
  <1>2. CASE Relation(a.version, m.version) = "Before"
    BY <1>2 DEF MergeRecord, Conflicting
  <1>3. CASE Relation(a.version, m.version) = "Equal" /\ SameState(a, m)
    <2>1. a.version = m.version
      BY <1>1, <1>3, EqualVectors DEF Record
    <2>2. a = m
      BY <1>1, <1>3, <2>1 DEF SameState, StateOf, Record
    <2>3. MergeRecord(a, a) = [a EXCEPT !.version = Merge(a.version, a.version)]
      BY <1>3, <2>1, <2>2 DEF MergeRecord, Conflicting, SameState
    <2>4. Merge(a.version, a.version) = a.version
      BY DEF Merge, Larger, Record, VersionVector
    <2>5. MergeRecord(a, a) = a
      BY <2>3, <2>4 DEF Record
    <2> QED
      BY <2>2, <2>5
  <1> QED
    BY <1>2, <1>3 DEF Admits

\* In a conflict the bytes of a live file either stay at the path or are the
\* loser that should_preserve_loser keeps: neither side's bytes drop out.
THEOREM ConflictKeepsBytes ==
    ASSUME NEW l \in Record, NEW r \in Record, Conflicting(l, r),
           NEW f \in {l, r}, LiveFile(f)
    PROVE  \/ /\ LiveFile(MergeRecord(l, r))
              /\ MergeRecord(l, r).content = f.content
           \/ /\ Loser(l, r) = f
              /\ PreservesLoser(Winner(l, r), Loser(l, r))
  <1>1. Relation(l.version, r.version) \notin {"Before", "After"}
    BY DEF Conflicting
  <1>2. MergeRecord(l, r) = [Winner(l, r) EXCEPT !.version = Resolved(l, r)]
    BY <1>1 DEF MergeRecord
  <1>3. /\ MergeRecord(l, r).content = Winner(l, r).content
        /\ MergeRecord(l, r).tombstone = Winner(l, r).tombstone
    BY <1>2 DEF Winner, Record
  <1>4. CASE f = Winner(l, r)
    BY <1>3, <1>4 DEF LiveFile
  <1>5. CASE f = Loser(l, r)
    <2>1. CASE Winner(l, r).tombstone \/ Winner(l, r).content # f.content
      BY <1>5, <2>1 DEF PreservesLoser
    <2>2. CASE ~Winner(l, r).tombstone /\ Winner(l, r).content = f.content
      BY <1>3, <2>2 DEF LiveFile
    <2> QED
      BY <2>1, <2>2
  <1> QED
    BY <1>4, <1>5 DEF Winner, Loser

-----------------------------------------------------------------------------
(* Whole snapshots. *)

\* The same paths lose bytes, to the same copies, from both sides.
LEMMA LosingAgrees ==
    ASSUME NEW L, NEW R, IsSnapshot(L), IsSnapshot(R)
    PROVE  /\ Losing(L, R) = Losing(R, L)
           /\ \A p \in Losing(L, R) :
                /\ Loser(L[p], R[p]) = Loser(R[p], L[p])
                /\ CopyOf(L, R, p) = CopyOf(R, L, p)
  <1>1. \A p \in DOMAIN L \cap DOMAIN R : L[p] \in Record /\ R[p] \in Record
    BY DEF IsSnapshot
  <1>2. ASSUME NEW p \in DOMAIN L \cap DOMAIN R, Conflicting(L[p], R[p])
        PROVE  /\ Conflicting(R[p], L[p])
               /\ Winner(L[p], R[p]) = Winner(R[p], L[p])
               /\ Loser(L[p], R[p]) = Loser(R[p], L[p])
               /\ Resolved(L[p], R[p]) = Resolved(R[p], L[p])
    <2>1. L[p] \in Record /\ R[p] \in Record
      BY <1>1
    <2>2. ~SameState(L[p], R[p])
      BY <1>2 DEF Conflicting
    <2> QED
      BY <1>2, <2>1, <2>2, ConflictAgrees, WinnerAgrees, ResolvedFacts
  <1>3. ASSUME NEW p \in DOMAIN L \cap DOMAIN R, Conflicting(R[p], L[p])
        PROVE  Conflicting(L[p], R[p])
    <2>1. L[p] \in Record /\ R[p] \in Record
      BY <1>1
    <2> QED
      BY <1>3, <2>1, ConflictAgrees
  <1>4. Losing(L, R) = Losing(R, L)
    <2>1. \A p : p \in Losing(L, R) => p \in Losing(R, L)
      BY <1>2 DEF Losing
    <2>2. \A p : p \in Losing(R, L) => p \in Losing(L, R)
      BY <1>2, <1>3 DEF Losing
    <2> QED
      BY <2>1, <2>2
  <1>5. \A p \in Losing(L, R) : /\ Loser(L[p], R[p]) = Loser(R[p], L[p])
                                /\ Resolved(L[p], R[p]) = Resolved(R[p], L[p])
    BY <1>2 DEF Losing
  <1> QED
    BY <1>4, <1>5 DEF CopyOf

\* The merge of two snapshots is one and the same from both sides: records,
\* versions, and conflict copies with their paths (merge_snapshots; the
\* documents call it orientation-independent).
THEOREM MergeSnapshotsCommutes ==
    ASSUME NEW L, NEW R, IsSnapshot(L), IsSnapshot(R)
    PROVE  MergeSnapshots(L, R) = MergeSnapshots(R, L)
  <1>1. DOMAIN L \cup DOMAIN R = DOMAIN R \cup DOMAIN L
    OBVIOUS
  <1>2. Losing(L, R) = Losing(R, L)
    BY LosingAgrees
  <1>3. CopyAt(L, R) = CopyAt(R, L)
    BY <1>1, <1>2, LosingAgrees DEF CopyAt
  <1>4. \A p \in DOMAIN L \cup DOMAIN R : MergedAt(L, R, p) = MergedAt(R, L, p)
    BY MergeRecordCommutes DEF MergedAt, IsSnapshot
  <1> DEFINE copies == {CopyAt(L, R)[p] : p \in Losing(L, R)}
             source(q) == CHOOSE p \in Losing(L, R) : CopyAt(L, R)[p] = q
  <1>5. \A q \in copies : source(q) \in Losing(L, R)
    OBVIOUS
  <1>6. \A q \in copies : CopyOf(L, R, source(q)) = CopyOf(R, L, source(q))
    BY <1>5, LosingAgrees
  <1>7. MergeSnapshots(L, R) =
            [q \in DOMAIN L \cup DOMAIN R \cup copies |->
                IF q \in DOMAIN L \cup DOMAIN R THEN MergedAt(L, R, q)
                ELSE CopyOf(L, R, source(q))]
    BY DEF MergeSnapshots
  <1>8. MergeSnapshots(R, L) =
            [q \in DOMAIN L \cup DOMAIN R \cup copies |->
                IF q \in DOMAIN L \cup DOMAIN R THEN MergedAt(R, L, q)
                ELSE CopyOf(R, L, source(q))]
    BY <1>1, <1>2, <1>3 DEF MergeSnapshots
  <1> HIDE DEF copies, source
  <1> QED
    BY <1>4, <1>6, <1>7, <1>8

-----------------------------------------------------------------------------
(* Paths and finite sets. *)

\* A path: a non-empty sequence of names, whatever the names are.
IsPath(p) == \E S : p \in Seq(S) /\ p # <<>>

LEMMA PathFacts ==
    ASSUME NEW p, IsPath(p)
    PROVE  /\ Len(p) \in Nat /\ Len(p) > 0
           /\ DOMAIN p = 1 .. Len(p)
           /\ p = [i \in 1 .. Len(p) |-> p[i]]
  <1>1. PICK S : p \in Seq(S) /\ p # <<>>
    BY DEF IsPath
  <1>2. Len(p) \in Nat /\ p \in [1 .. Len(p) -> S] /\ DOMAIN p = 1 .. Len(p)
    BY <1>1, LenProperties
  <1>3. Len(p) # 0
    BY <1>1, EmptySeq
  <1> QED
    BY <1>2, <1>3

\* The ancestors of a path are shorter paths, and theirs are among them.
LEMMA AncestorFacts ==
    ASSUME NEW p, IsPath(p), NEW a \in Ancestors(p)
    PROVE  /\ IsPath(a)
           /\ Len(a) < Len(p)
           /\ Ancestors(a) \subseteq Ancestors(p)
           /\ p \notin Ancestors(a) \cup {a}
  <1>1. PICK S : p \in Seq(S) /\ p # <<>>
    BY DEF IsPath
  <1>2. PICK i \in 1 .. Len(p) - 1 : a = SubSeq(p, 1, i)
    BY DEF Ancestors
  <1>3. Len(p) \in Nat /\ \A j \in 1 .. Len(p) : p[j] \in S
    BY <1>1, LenProperties, ElementOfSeq
  <1>4. /\ a \in Seq(S) /\ Len(a) = i
        /\ i \in Nat /\ i > 0 /\ i < Len(p)
    BY <1>2, <1>3, SubSeqProperties
  <1>5. a # <<>>
    BY <1>4, EmptySeq
  <1>6. ASSUME NEW b \in Ancestors(a)
        PROVE  b \in Ancestors(p) /\ Len(b) < Len(a)
    <2>1. PICK k \in 1 .. Len(a) - 1 : b = SubSeq(a, 1, k)
      BY DEF Ancestors
    <2>2. k \in 1 .. i - 1 + 1 /\ k \in 1 .. Len(p) - 1 /\ 1 \in 1 .. i - 1 + 1
      BY <1>3, <1>4
    <2>3. 1 \in 1 .. Len(p) /\ i \in 1 .. Len(p)
      BY <1>3, <1>4
    <2>4. SubSeq(SubSeq(p, 1, i), 1, k) = SubSeq(p, 1 + 1 - 1, 1 + k - 1)
      BY <1>1, <1>4, <2>2, <2>3, SubSeqOfSubSeq
    <2>5. b = SubSeq(p, 1, k)
      BY <1>2, <2>1, <2>2, <2>4
    <2>6. Len(b) = k
      BY <1>3, <2>2, <2>5, SubSeqProperties
    <2> QED
      BY <1>4, <2>1, <2>2, <2>5, <2>6 DEF Ancestors
  <1>7. p \notin Ancestors(a) \cup {a}
    BY <1>3, <1>4, <1>6
  <1> QED
    BY <1>4, <1>5, <1>6, <1>7 DEF IsPath

\* A path is not its own ancestor.
LEMMA NotOwnAncestor ==
    ASSUME NEW p, IsPath(p)
    PROVE  p \notin Ancestors(p)
  BY AncestorFacts

\* The image of a finite set under a function is finite.
LEMMA FiniteImage ==
    ASSUME NEW S, IsFiniteSet(S), NEW f, DOMAIN f = S
    PROVE  IsFiniteSet({f[x] : x \in S})
  <1> DEFINE T == {f[x] : x \in S}
             g == [x \in S |-> f[x]]
  <1>1. g \in [S -> T] /\ \A t \in T : \E x \in S : g[x] = t
    OBVIOUS
  <1>2. g \in Surjection(S, T)
    BY <1>1 DEF Surjection
  <1> QED
    BY <1>2, FS_Surjection

LEMMA FiniteAncestors ==
    ASSUME NEW p, IsPath(p)
    PROVE  IsFiniteSet(Ancestors(p))
  <1> DEFINE f == [i \in 1 .. Len(p) - 1 |-> SubSeq(p, 1, i)]
  <1>1. IsFiniteSet(1 .. Len(p) - 1)
    <2>1. 1 \in Int /\ Len(p) - 1 \in Int
      BY PathFacts
    <2> QED
      BY <2>1, FS_Interval
  <1>2. DOMAIN f = 1 .. Len(p) - 1
    OBVIOUS
  <1>3. Ancestors(p) = {f[i] : i \in 1 .. Len(p) - 1}
    BY DEF Ancestors
  <1> HIDE DEF f
  <1> QED
    BY <1>1, <1>2, <1>3, FiniteImage

-----------------------------------------------------------------------------
(* Disks. *)

\* A tree of a filesystem: finitely many entries, each in a directory.
IsDisk(f) ==
    /\ IsFiniteSet(DOMAIN f)
    /\ \A p \in DOMAIN f :
        /\ IsPath(p)
        /\ HasParent(f, p)
        /\ f[p].content \in Content \cup {Directory}

\* Only a directory has something below it.
LEMMA NothingBelow ==
    ASSUME NEW f, IsDisk(f), NEW p, p \in DOMAIN f => f[p].content # Directory
    PROVE  \A q \in DOMAIN f : p \notin Ancestors(q)
  BY DEF IsDisk, HasParent

LEMMA PutDisk ==
    ASSUME NEW f, IsDisk(f), NEW p, IsPath(p), HasParent(f, p),
           NEW e, e.content \in Content \cup {Directory},
           e.content = Directory \/ \A q \in DOMAIN f : p \notin Ancestors(q)
    PROVE  IsDisk(Put(f, p, e))
  <1> DEFINE g == Put(f, p, e)
  <1>1. /\ DOMAIN g = DOMAIN f \cup {p}
        /\ g[p] = e
        /\ \A q \in DOMAIN f \ {p} : g[q] = f[q]
    BY DEF Put
  <1> HIDE DEF g
  <1>2. IsFiniteSet(DOMAIN g)
    BY <1>1, FS_AddElement DEF IsDisk
  <1>3. ASSUME NEW q \in DOMAIN g
        PROVE  IsPath(q) /\ g[q].content \in Content \cup {Directory}
    BY <1>1, <1>3 DEF IsDisk
  <1>4. p \notin Ancestors(p)
    BY NotOwnAncestor
  <1>5. ASSUME NEW q \in DOMAIN g, NEW a \in Ancestors(q)
        PROVE  a \in DOMAIN g /\ g[a].content = Directory
    <2>1. a \in DOMAIN f /\ f[a].content = Directory
      BY <1>1, <1>5 DEF IsDisk, HasParent
    <2>2. CASE a = p
      <3>1. q \in DOMAIN f
        BY <1>1, <1>4, <1>5, <2>2
      <3>2. e.content = Directory
        BY <1>5, <2>2, <3>1
      <3> QED
        BY <1>1, <2>2, <3>2
    <2>3. CASE a # p
      BY <1>1, <2>1, <2>3
    <2> QED
      BY <2>2, <2>3
  <1>6. IsDisk(g)
    BY <1>2, <1>3, <1>5 DEF IsDisk, HasParent
  <1> QED
    BY <1>6 DEF g

LEMMA WithoutDisk ==
    ASSUME NEW f, IsDisk(f), NEW S,
           \A q \in DOMAIN f \ S : Ancestors(q) \cap S = {}
    PROVE  IsDisk(Without(f, S))
  <1> DEFINE g == Without(f, S)
  <1>1. DOMAIN g = DOMAIN f \ S /\ \A q \in DOMAIN g : g[q] = f[q]
    BY DEF Without
  <1> HIDE DEF g
  <1>2. IsFiniteSet(DOMAIN g)
    BY <1>1, FS_Subset DEF IsDisk
  <1>3. ASSUME NEW q \in DOMAIN g, NEW a \in Ancestors(q)
        PROVE  a \in DOMAIN g /\ g[a].content = Directory
    <2>1. q \in DOMAIN f \ S
      BY <1>1
    <2>2. a \in DOMAIN f /\ f[a].content = Directory /\ a \notin S
      BY <2>1 DEF IsDisk, HasParent
    <2> QED
      BY <1>1, <2>2
  <1>4. IsDisk(g)
    BY <1>1, <1>2, <1>3 DEF IsDisk, HasParent
  <1> QED
    BY <1>4 DEF g

\* create_dir_all makes no file a directory and nothing below the path.
LEMMA WithParentsDisk ==
    ASSUME NEW f, IsDisk(f), NEW p, IsPath(p),
           \A a \in Ancestors(p) \cap DOMAIN f : f[a].content = Directory
    PROVE  /\ IsDisk(WithParents(f, p))
           /\ HasParent(WithParents(f, p), p)
           /\ \A q \in DOMAIN WithParents(f, p) :
                p \in Ancestors(q) => q \in Inside(p, f)
  <1> DEFINE g == WithParents(f, p)
  <1>1. /\ DOMAIN g = DOMAIN f \cup Ancestors(p)
        /\ \A q \in DOMAIN f : g[q] = f[q]
        /\ \A q \in Ancestors(p) \ DOMAIN f : g[q].content = Directory
    BY DEF WithParents, NewEntry, Entry
  <1> HIDE DEF g
  <1>2. \A q \in Ancestors(p) : q \in DOMAIN g /\ g[q].content = Directory
    BY <1>1
  <1>3. IsFiniteSet(DOMAIN g)
    BY <1>1, FiniteAncestors, FS_Union DEF IsDisk
  <1>4. ASSUME NEW q \in DOMAIN g
        PROVE  IsPath(q) /\ g[q].content \in Content \cup {Directory}
    BY <1>1, <1>4, AncestorFacts DEF IsDisk
  <1>5. ASSUME NEW q \in DOMAIN g, NEW a \in Ancestors(q)
        PROVE  a \in DOMAIN g /\ g[a].content = Directory
    <2>1. CASE q \in Ancestors(p)
      <3>1. a \in Ancestors(p)
        BY <1>5, <2>1, AncestorFacts
      <3> QED
        BY <1>2, <3>1
    <2>2. CASE q \in DOMAIN f
      BY <1>1, <1>5, <2>2 DEF IsDisk, HasParent
    <2> QED
      BY <1>1, <2>1, <2>2
  <1>6. ASSUME NEW q \in DOMAIN g, p \in Ancestors(q)
        PROVE  q \in Inside(p, f)
    <2>1. p \notin Ancestors(p)
      BY NotOwnAncestor
    <2>2. q \notin Ancestors(p)
      BY <1>6, <2>1, AncestorFacts
    <2>3. q \in DOMAIN f /\ q # p
      BY <1>1, <1>6, <2>1, <2>2
    <2> QED
      BY <1>6, <2>3 DEF Inside, Tree
  <1>7. IsDisk(g)
    BY <1>3, <1>4, <1>5 DEF IsDisk, HasParent
  <1> QED
    BY <1>2, <1>6, <1>7 DEF g, HasParent

-----------------------------------------------------------------------------
(* Snapshots. *)

\* What a root's index, and every snapshot taken from one, looks like.
IsIndex(S) ==
    /\ IsFiniteSet(DOMAIN S)
    /\ IsSnapshot(S)
    /\ \A p \in DOMAIN S : IsPath(p)
    /\ S = [p \in DOMAIN S |-> S[p]]

\* No component of the vector is beyond the counters c, and none of a snapshot's.
Below(v, c) == \A n \in Replica : v[n] <= c[n]
AllBelow(S, c) == \A p \in DOMAIN S : Below(S[p].version, c)

LEMMA BelowGrows ==
    ASSUME NEW v \in VersionVector, NEW c \in [Replica -> Nat], NEW d \in [Replica -> Nat],
           Below(v, c), \A n \in Replica : c[n] <= d[n]
    PROVE  Below(v, d)
  <1> SUFFICES ASSUME NEW n \in Replica
               PROVE  v[n] <= d[n]
    BY DEF Below
  <1>1. v[n] \in Nat /\ c[n] \in Nat /\ d[n] \in Nat
    BY DEF VersionVector, Clock
  <1>2. v[n] <= c[n] /\ c[n] <= d[n]
    BY DEF Below
  <1> QED
    BY <1>1, <1>2

LEMMA AllBelowGrows ==
    ASSUME NEW S, IsIndex(S), NEW c \in [Replica -> Nat], NEW d \in [Replica -> Nat],
           AllBelow(S, c), \A n \in Replica : c[n] <= d[n]
    PROVE  AllBelow(S, d)
  <1> SUFFICES ASSUME NEW p \in DOMAIN S
               PROVE  Below(S[p].version, d)
    BY DEF AllBelow
  <1>1. S[p].version \in VersionVector /\ Below(S[p].version, c)
    BY DEF IsIndex, IsSnapshot, Record, AllBelow
  <1> QED
    BY <1>1, BelowGrows

\* A merge counts events of the resolver, and no event of a replica that
\* neither side knows.
LEMMA MergeBelow ==
    ASSUME NEW l \in Record, NEW r \in Record, NEW c \in [Replica -> Nat],
           Below(l.version, c), Below(r.version, c)
    PROVE  Below(Resolved(l, r), c) /\ Below(MergeRecord(l, r).version, c)
  <1> DEFINE m == Merge(l.version, r.version)
  <1>1. l.version \in VersionVector /\ r.version \in VersionVector
    BY DEF Record
  <1>2. m \in VersionVector
    BY <1>1, MergeFacts
  <1>3. Below(m, c)
    BY <1>1 DEF Below, Merge, Larger, Clock, VersionVector
  <1>4. \A n \in Replica : Resolved(l, r)[n] = m[n]
    BY <1>2, ReconcileAssumption DEF Resolved, Observe, VersionVector, Clock
  <1>5. Below(Resolved(l, r), c)
    BY <1>3, <1>4 DEF Below
  <1>6. [Winner(l, r) EXCEPT !.version = Resolved(l, r)].version = Resolved(l, r)
    BY DEF Winner, Record
  <1>7. [l EXCEPT !.version = m].version = m
    BY DEF Record
  <1> HIDE DEF m
  <1>8. MergeRecord(l, r).version \in {l.version, r.version, Resolved(l, r), m}
    BY <1>6, <1>7 DEF MergeRecord, m
  <1> QED
    BY <1>3, <1>5, <1>8

\* The sibling at which a conflict copy is put is a path.
LEMMA ConflictPathIsPath ==
    ASSUME NEW p, IsPath(p), NEW loser, NEW occupied
    PROVE  IsPath(ConflictPath(p, loser, occupied))
  <1>1. PICK S : p \in Seq(S) /\ p # <<>>
    BY DEF IsPath
  <1>2. PICK e : ConflictPath(p, loser, occupied) = [p EXCEPT ![Len(p)] = e]
    BY DEF ConflictPath
  <1> DEFINE T == S \cup {e}
  <1>3. p \in Seq(T) /\ e \in T
    BY <1>1, SeqMonotonic
  <1>4. Len(p) \in 1 .. Len(p)
    BY PathFacts
  <1>5. /\ [p EXCEPT ![Len(p)] = e] \in Seq(T)
        /\ Len([p EXCEPT ![Len(p)] = e]) = Len(p)
    BY <1>3, <1>4, ExceptSeq
  <1>6. [p EXCEPT ![Len(p)] = e] # <<>>
    BY <1>5, PathFacts, EmptySeq
  <1> QED
    BY <1>2, <1>5, <1>6 DEF IsPath

\* merge_snapshots: every path of either side, and the copies.
LEMMA MergeShape ==
    ASSUME NEW L, NEW R
    PROVE  /\ DOMAIN MergeSnapshots(L, R) =
                DOMAIN L \cup DOMAIN R \cup {CopyAt(L, R)[p] : p \in Losing(L, R)}
           /\ \A q \in DOMAIN L \cup DOMAIN R :
                MergeSnapshots(L, R)[q] = MergedAt(L, R, q)
           /\ \A q \in DOMAIN MergeSnapshots(L, R) \ (DOMAIN L \cup DOMAIN R) :
                \E p \in Losing(L, R) : /\ q = CopyAt(L, R)[p]
                                        /\ MergeSnapshots(L, R)[q] = CopyOf(L, R, p)
  <1> DEFINE D == DOMAIN L \cup DOMAIN R
             copies == {CopyAt(L, R)[p] : p \in Losing(L, R)}
             source(q) == CHOOSE p \in Losing(L, R) : CopyAt(L, R)[p] = q
  <1>1. MergeSnapshots(L, R) =
            [q \in D \cup copies |->
                IF q \in D THEN MergedAt(L, R, q) ELSE CopyOf(L, R, source(q))]
    BY DEF MergeSnapshots
  <1>2. \A q \in copies : source(q) \in Losing(L, R) /\ q = CopyAt(L, R)[source(q)]
    OBVIOUS
  <1> HIDE DEF source
  <1>3. \A q \in (D \cup copies) \ D :
            /\ source(q) \in Losing(L, R)
            /\ q = CopyAt(L, R)[source(q)]
            /\ MergeSnapshots(L, R)[q] = CopyOf(L, R, source(q))
    BY <1>1, <1>2
  <1> QED
    BY <1>1, <1>3

LEMMA WithTombstone ==
    ASSUME NEW r \in Record, NEW t
    PROVE  [r EXCEPT !.tombstone = t]
             = [content |-> r.content, tombstone |-> t, version |-> r.version]
  BY DEF Record

LEMMA CopyFacts ==
    ASSUME NEW L, NEW R, IsIndex(L), IsIndex(R), NEW p \in Losing(L, R)
    PROVE  /\ p \in DOMAIN L /\ p \in DOMAIN R
           /\ CopyOf(L, R, p) \in Record
           /\ CopyOf(L, R, p).version = Resolved(L[p], R[p])
           /\ IsPath(CopyAt(L, R)[p])
  <1>1. p \in DOMAIN L /\ p \in DOMAIN R
    BY DEF Losing
  <1>2. L[p] \in Record /\ R[p] \in Record /\ IsPath(p)
    BY <1>1 DEF IsIndex, IsSnapshot
  <1>3. Loser(L[p], R[p]) \in Record
    BY <1>2 DEF Loser
  <1>4. Resolved(L[p], R[p]) \in VersionVector
    BY <1>2, ResolvedFacts
  <1>5. CopyOf(L, R, p) = [content |-> Loser(L[p], R[p]).content, tombstone |-> FALSE,
                           version |-> Resolved(L[p], R[p])]
    <2> DEFINE x == Loser(L[p], R[p])
               v == Resolved(L[p], R[p])
               y == [x EXCEPT !.version = v]
    <2>1. CopyOf(L, R, p) = [y EXCEPT !.tombstone = FALSE]
      BY DEF CopyOf
    <2> HIDE DEF x, v, y
    <2>2. x \in Record
      BY <1>3 DEF x
    <2>3. y \in Record /\ y.content = x.content /\ y.version = v
      BY <1>4, <2>2 DEF y, v, Record
    <2>4. [y EXCEPT !.tombstone = FALSE]
            = [content |-> y.content, tombstone |-> FALSE, version |-> y.version]
      BY <2>3, WithTombstone
    <2> QED
      BY <2>1, <2>3, <2>4 DEF x, v
  <1>6. CopyOf(L, R, p) \in Record /\ CopyOf(L, R, p).version = Resolved(L[p], R[p])
    BY <1>3, <1>4, <1>5 DEF Record
  <1>7. IsPath(CopyAt(L, R)[p])
    BY <1>2, ConflictPathIsPath DEF CopyAt
  <1> QED
    BY <1>1, <1>6, <1>7

\* The merge of two indexes is one, and knows no more than they do.
LEMMA MergeIsIndex ==
    ASSUME NEW L, NEW R, IsIndex(L), IsIndex(R),
           NEW c \in [Replica -> Nat], AllBelow(L, c), AllBelow(R, c)
    PROVE  IsIndex(MergeSnapshots(L, R)) /\ AllBelow(MergeSnapshots(L, R), c)
  <1> DEFINE M == MergeSnapshots(L, R)
             D == DOMAIN L \cup DOMAIN R
             copies == {CopyAt(L, R)[p] : p \in Losing(L, R)}
  <1>1. DOMAIN M = D \cup copies
    BY MergeShape
  <1>0. \A q \in DOMAIN M \ D :
            \E p \in Losing(L, R) : q = CopyAt(L, R)[p] /\ M[q] = CopyOf(L, R, p)
    BY MergeShape
  <1>2. IsFiniteSet(D)
    BY FS_Union DEF IsIndex
  <1>3. IsFiniteSet(copies)
    <2>1. IsFiniteSet(Losing(L, R))
      <3>1. Losing(L, R) \subseteq D
        BY DEF Losing
      <3> QED
        BY <1>2, <3>1, FS_Subset
    <2>2. DOMAIN CopyAt(L, R) = Losing(L, R)
      BY DEF CopyAt
    <2> QED
      BY <2>1, <2>2, FiniteImage
  <1>4. IsFiniteSet(DOMAIN M)
    BY <1>1, <1>2, <1>3, FS_Union
  <1>5. ASSUME NEW q \in D
        PROVE  M[q] \in Record /\ Below(M[q].version, c) /\ IsPath(q)
    <2>1. M[q] = MergedAt(L, R, q)
      BY MergeShape
    <2>2. CASE q \notin DOMAIN R
      BY <2>1, <2>2 DEF MergedAt, IsIndex, IsSnapshot, AllBelow
    <2>3. CASE q \notin DOMAIN L
      BY <2>1, <2>3 DEF MergedAt, IsIndex, IsSnapshot, AllBelow
    <2>4. CASE q \in DOMAIN L /\ q \in DOMAIN R
      <3>1. /\ L[q] \in Record /\ R[q] \in Record /\ IsPath(q)
            /\ Below(L[q].version, c) /\ Below(R[q].version, c)
        BY <2>4 DEF IsIndex, IsSnapshot, AllBelow
      <3>2. M[q] = MergeRecord(L[q], R[q])
        BY <2>1, <2>4 DEF MergedAt
      <3> QED
        BY <3>1, <3>2, MergeRecordType, MergeBelow
    <2> QED
      BY <2>2, <2>3, <2>4
  <1>6. ASSUME NEW q \in DOMAIN M, q \notin D
        PROVE  M[q] \in Record /\ Below(M[q].version, c) /\ IsPath(q)
    <2>1. PICK p \in Losing(L, R) : q = CopyAt(L, R)[p] /\ M[q] = CopyOf(L, R, p)
      BY <1>6, <1>0
    <2>2. p \in DOMAIN L /\ p \in DOMAIN R
      BY CopyFacts
    <2>3. /\ L[p] \in Record /\ R[p] \in Record
          /\ Below(L[p].version, c) /\ Below(R[p].version, c)
      BY <2>2 DEF IsIndex, IsSnapshot, AllBelow
    <2> QED
      BY <2>1, <2>3, CopyFacts, MergeBelow
  <1>7. M = [q \in DOMAIN M |-> M[q]]
    BY DEF MergeSnapshots
  <1> QED
    BY <1>1, <1>4, <1>5, <1>6, <1>7 DEF IsIndex, IsSnapshot, AllBelow

-----------------------------------------------------------------------------
(* The descent through the server's tree. *)

LEMMA LeastNatural ==
    ASSUME NEW S \in SUBSET Nat, S # {}
    PROVE  \E n \in S : \A m \in S : n <= m
  <1> DEFINE R == {ss \in Nat \X Nat : ss[1] < ss[2]}
  <1>1. IsWellFoundedOn(R, Nat)
    BY NatLessThanWellFounded DEF OpToRel
  <1>2. PICK n \in S : \A m \in S : ~(<<m, n>> \in R)
    BY <1>1, WFMin
  <1>3. \A m \in S : ~(m < n)
    BY <1>2
  <1> QED
    BY <1>3

LEMMA PrefixFacts ==
    ASSUME NEW p, IsPath(p), NEW k \in 0 .. Len(p)
    PROVE  /\ Len(SubSeq(p, 1, k)) = k
           /\ IsPrefix(SubSeq(p, 1, k), p)
           /\ Ancestors(SubSeq(p, 1, k)) \subseteq {SubSeq(p, 1, j) : j \in 1 .. k - 1}
           /\ k = 0 => SubSeq(p, 1, k) = <<>>
           /\ k = Len(p) => SubSeq(p, 1, k) = p
           /\ k > 0 => SubSeq(p, 1, k) \in Ancestors(p) \cup {p}
  <1> DEFINE s == SubSeq(p, 1, k)
  <1>1. PICK S : p \in Seq(S) /\ p # <<>>
    BY DEF IsPath
  <1>2. Len(p) \in Nat /\ \A j \in 1 .. Len(p) : p[j] \in S
    BY <1>1, LenProperties, ElementOfSeq
  <1>3. k \in Nat /\ k \in Int /\ k <= Len(p)
    BY <1>2
  <1>4. /\ s \in Seq(S)
        /\ Len(s) = IF 1 <= k THEN k - 1 + 1 ELSE 0
    BY <1>2, <1>3, SubSeqProperties
  <1>5. Len(s) = k
    BY <1>3, <1>4
  <1>6. SubSeq(s, 1, Len(s)) = s
    BY <1>4, SubSeqFull
  <1>7. IsPrefix(s, p)
    BY <1>3, <1>5, <1>6 DEF IsPrefix
  <1>8. k = 0 => s = <<>>
    BY <1>4, <1>5, EmptySeq
  <1>9. k = Len(p) => s = p
    BY <1>1, SubSeqFull
  <1>10. k > 0 => s \in Ancestors(p) \cup {p}
    <2>1. CASE k > 0 /\ k # Len(p)
      <3>1. k \in 1 .. Len(p) - 1
        BY <1>2, <1>3, <2>1
      <3> QED
        BY <3>1 DEF Ancestors
    <2> QED
      BY <1>9, <2>1
  <1>11. ASSUME NEW a \in Ancestors(s)
         PROVE  a \in {SubSeq(p, 1, j) : j \in 1 .. k - 1}
    <2>1. PICK i \in 1 .. k - 1 : a = SubSeq(s, 1, i)
      BY <1>5 DEF Ancestors
    <2>2. /\ 1 \in 1 .. Len(p) /\ k \in 1 .. Len(p)
          /\ 1 \in 1 .. k - 1 + 1 /\ i \in 1 .. k - 1 + 1
      BY <1>2, <1>3
    <2>3. SubSeq(SubSeq(p, 1, k), 1, i) = SubSeq(p, 1 + 1 - 1, 1 + i - 1)
      BY <1>1, <1>4, <2>2, SubSeqOfSubSeq
    <2>4. a = SubSeq(p, 1, i)
      BY <2>1, <2>2, <2>3
    <2> QED
      BY <2>4
  <1> QED
    BY <1>5, <1>7, <1>8, <1>9, <1>10, <1>11

\* Where the digests agree the records do.
LEMMA SameRecords ==
    ASSUME NEW local, NEW remote, NEW q, Same(local, remote, q)
    PROVE  /\ Under(local, q) = Under(remote, q)
           /\ \A p \in Under(local, q) : local[p] = remote[p]
  <1>1. RecordsUnder(local, q) = RecordsUnder(remote, q)
    BY DEF Same, SubtreeHash
  <1>2. /\ DOMAIN RecordsUnder(local, q) = Under(local, q)
        /\ DOMAIN RecordsUnder(remote, q) = Under(remote, q)
        /\ \A p \in Under(local, q) : RecordsUnder(local, q)[p] = local[p]
        /\ \A p \in Under(remote, q) : RecordsUnder(remote, q)[p] = remote[p]
    BY DEF RecordsUnder
  <1> QED
    BY <1>1, <1>2

\* Whatever the client already has, it ends up with exactly the server's
\* records: what it reuses of its own tree is never out of date, and no record
\* is missed or invented (fetch_snapshot_connected).
THEOREM FetchExact ==
    ASSUME NEW local, NEW remote, IsIndex(local), IsIndex(remote)
    PROVE  FetchSnapshot(local, remote) = remote
  <1> DEFINE nodes == {<<>>} \cup DOMAIN remote \cup UNION {Ancestors(p) : p \in DOMAIN remote}
             differing == {p \in nodes : ~Same(local, remote, p)}
             queried == Queried(local, remote)
             reached == {<<>>} \cup UNION {Children(remote, q) : q \in queried}
             reused == {p \in reached : Same(local, remote, p)}
             taken == UNION {Under(local, p) : p \in reused}
  <1>1. FetchSnapshot(local, remote) =
            [p \in taken \cup (queried \cap DOMAIN remote) |->
                IF p \in taken THEN local[p] ELSE remote[p]]
    BY DEF FetchSnapshot
  <1>2. ASSUME NEW p \in taken
        PROVE  p \in DOMAIN remote /\ local[p] = remote[p]
    <2>1. PICK q \in reused : p \in Under(local, q)
      OBVIOUS
    <2>2. p \in Under(remote, q) /\ local[p] = remote[p]
      BY <2>1, SameRecords
    <2> QED
      BY <2>2 DEF Under
  <1>3. ASSUME NEW p \in DOMAIN remote, p \notin queried
        PROVE  p \in taken
    <2> DEFINE K == {k \in 0 .. Len(p) : Same(local, remote, SubSeq(p, 1, k))}
    <2>1. IsPath(p)
      BY DEF IsIndex
    <2>2. Len(p) \in Nat /\ Len(p) > 0
      BY <2>1, PathFacts
    <2>3. \A k \in 0 .. Len(p) : SubSeq(p, 1, k) \in nodes
      <3> SUFFICES ASSUME NEW k \in 0 .. Len(p)
                   PROVE  SubSeq(p, 1, k) \in nodes
        OBVIOUS
      <3>1. CASE k = 0
        BY <2>1, <3>1, PrefixFacts
      <3>2. CASE k > 0
        <4>1. SubSeq(p, 1, k) \in Ancestors(p) \cup {p}
          BY <2>1, <3>2, PrefixFacts
        <4> QED
          BY <4>1
      <3> QED
        BY <2>2, <3>1, <3>2
    <2>4. ASSUME NEW k \in 0 .. Len(p), \A j \in 0 .. k : j \notin K
          PROVE  SubSeq(p, 1, k) \in queried
      <3>1. \A j \in 0 .. k : SubSeq(p, 1, j) \in differing
        BY <2>2, <2>3, <2>4
      <3>2. <<>> \in differing
        <4>1. SubSeq(p, 1, 0) = <<>>
          BY <2>1, <2>2, PrefixFacts
        <4>2. 0 \in 0 .. k
          BY <2>2
        <4>3. SubSeq(p, 1, 0) \in differing
          BY <3>1, <4>2
        <4> QED
          BY <4>1, <4>3
      <3>3. Ancestors(SubSeq(p, 1, k)) \subseteq differing
        <4>1. Ancestors(SubSeq(p, 1, k)) \subseteq {SubSeq(p, 1, j) : j \in 1 .. k - 1}
          BY <2>1, PrefixFacts
        <4>2. \A j \in 1 .. k - 1 : SubSeq(p, 1, j) \in differing
          BY <2>2, <3>1
        <4> QED
          BY <4>1, <4>2
      <3>4. SubSeq(p, 1, k) \in differing
        BY <2>2, <3>1
      <3> QED
        BY <3>2, <3>3, <3>4 DEF Queried
    <2>5. K # {}
      <3>1. SubSeq(p, 1, Len(p)) = p
        BY <2>1, <2>2, PrefixFacts
      <3>2. CASE \A j \in 0 .. Len(p) : j \notin K
        <4>1. Len(p) \in 0 .. Len(p)
          BY <2>2
        <4>2. SubSeq(p, 1, Len(p)) \in queried
          BY <2>4, <3>2, <4>1
        <4> QED
          BY <1>3, <3>1, <4>2
      <3> QED
        BY <3>2
    <2>6. PICK k \in K : \A j \in K : k <= j
      <3>1. K \in SUBSET Nat
        BY <2>2
      <3> HIDE DEF K
      <3> QED
        BY <2>5, <3>1, LeastNatural
    <2> DEFINE a == SubSeq(p, 1, k)
    <2>7. k \in 0 .. Len(p) /\ Same(local, remote, a) /\ k \in Nat
      BY <2>2
    <2>8. p \in Under(local, a)
      <3>1. p \in Under(remote, a)
        BY <2>1, <2>7, PrefixFacts DEF Under
      <3> QED
        BY <2>7, <3>1, SameRecords
    <2>9. a \in reached
      <3>1. CASE k = 0
        BY <2>1, <2>7, <3>1, PrefixFacts
      <3>2. CASE k > 0
        <4> DEFINE b == SubSeq(p, 1, k - 1)
        <4>1. k - 1 \in 0 .. Len(p) /\ \A j \in 0 .. k - 1 : j \notin K
          BY <2>2, <2>6, <2>7, <3>2
        <4>2. b \in queried
          BY <2>4, <4>1
        <4>3. Len(b) = k - 1 /\ IsPrefix(b, p)
          BY <2>1, <4>1, PrefixFacts
        <4>4. p \in Under(remote, b) /\ p # b /\ Len(b) + 1 = k
          BY <2>2, <2>7, <4>3 DEF Under
        <4>5. a \in Children(remote, b)
          BY <4>4 DEF Children
        <4> QED
          BY <4>2, <4>5
      <3> QED
        BY <2>7, <3>1, <3>2
    <2> QED
      BY <2>7, <2>8, <2>9
  <1>4. taken \cup (queried \cap DOMAIN remote) = DOMAIN remote
    BY <1>2, <1>3
  <1> HIDE DEF taken, queried
  <1>5. FetchSnapshot(local, remote) = [p \in DOMAIN remote |-> remote[p]]
    BY <1>1, <1>2, <1>4
  <1> QED
    BY <1>5 DEF IsIndex

-----------------------------------------------------------------------------
(* The counts of the nodes of a tree. *)

Pick(s) == CHOOSE x \in s : TRUE

\* The recursion by which the counts of the children of a node are added up.
AddsUp(h, c, Z) ==
    h = [s \in SUBSET Z |-> IF s = {} THEN 0 ELSE c[Pick(s)].count + h[s \ {Pick(s)}]]

\* What validate_snapshot_summary compares with a node's own count.
ChildCount(c) == MapThenSumSet(LAMBDA q : c[q].count, DOMAIN c)

LEMMA AddsUpOnce ==
    ASSUME NEW Z, IsFiniteSet(Z), NEW c, NEW f, AddsUp(f, c, Z), NEW h, AddsUp(h, c, Z)
    PROVE  f[Z] = h[Z]
  <1> DEFINE K == {s \in SUBSET Z : f[s] # h[s]}
  <1> SUFFICES ASSUME K # {}
               PROVE  FALSE
    OBVIOUS
  <1>1. K \in SUBSET SUBSET Z
    OBVIOUS
  <1>2. PICK s \in K : \A u \in K : ~(<<u, s>> \in StrictSubsetOrdering(Z))
    <2>1. IsWellFoundedOn(StrictSubsetOrdering(Z), SUBSET Z)
      BY FS_StrictSubsetOrderingWellFounded, FS_FiniteSubsetsOfFinite
    <2> HIDE DEF K
    <2> QED
      BY <1>1, <2>1, WFMin
  <1>3. /\ s \in SUBSET Z /\ f[s] # h[s]
        /\ \A u \in SUBSET Z : f[u] = IF u = {} THEN 0 ELSE c[Pick(u)].count + f[u \ {Pick(u)}]
        /\ \A u \in SUBSET Z : h[u] = IF u = {} THEN 0 ELSE c[Pick(u)].count + h[u \ {Pick(u)}]
    BY <1>2 DEF AddsUp
  <1> DEFINE u == s \ {Pick(s)}
  <1>4. s # {}
    BY <1>3
  <1>5. Pick(s) \in s
    BY <1>4 DEF Pick
  <1>6. <<u, s>> \in StrictSubsetOrdering(Z)
    BY <1>3, <1>5 DEF StrictSubsetOrdering
  <1>7. f[u] = h[u]
    BY <1>2, <1>3, <1>6
  <1> HIDE DEF u, K
  <1>8. f[s] = c[Pick(s)].count + f[u] /\ h[s] = c[Pick(s)].count + h[u]
    BY <1>3, <1>4 DEF u
  <1> QED
    BY <1>3, <1>7, <1>8

\* Parts: U cuts something into finite parts, one for each member of Z.
Parts(U, Z) ==
    /\ IsFiniteSet(Z)
    /\ \A x \in Z : IsFiniteSet(U[x])
    /\ \A x, y \in Z : x # y => U[x] \cap U[y] = {}
Whole(U, s) == UNION {U[x] : x \in s}

LEMMA WholeFinite ==
    ASSUME NEW Z, NEW U, Parts(U, Z), NEW s \in SUBSET Z
    PROVE  IsFiniteSet(Whole(U, s))
  <1> DEFINE f == [x \in s |-> U[x]]
  <1>1. IsFiniteSet(s)
    BY FS_Subset DEF Parts
  <1>2. IsFiniteSet({f[x] : x \in s})
    BY <1>1, FiniteImage
  <1>3. {f[x] : x \in s} = {U[x] : x \in s}
    OBVIOUS
  <1>4. \A T \in {U[x] : x \in s} : IsFiniteSet(T)
    BY DEF Parts
  <1> QED
    BY <1>2, <1>3, <1>4, FS_UNION DEF Whole

LEMMA CountsAddUp ==
    ASSUME NEW Z, NEW U, Parts(U, Z), NEW c, DOMAIN c = Z,
           \A x \in Z : c[x].count = Cardinality(U[x])
    PROVE  ChildCount(c) = Cardinality(Whole(U, Z))
  <1> DEFINE f == [s \in SUBSET Z |-> Cardinality(Whole(U, s))]
  <1>1. ASSUME NEW s \in SUBSET Z, s # {}
        PROVE  Cardinality(Whole(U, s)) =
                   c[Pick(s)].count + Cardinality(Whole(U, s \ {Pick(s)}))
    <2> DEFINE x == Pick(s)
               A == U[x]
               B == Whole(U, s \ {x})
    <2>1. x \in s
      BY <1>1 DEF Pick
    <2> HIDE DEF x
    <2>2. Whole(U, s) = A \cup B /\ A \cap B = {}
      BY <2>1 DEF Whole, Parts
    <2>3. IsFiniteSet(A) /\ IsFiniteSet(B)
      BY <2>1, WholeFinite DEF Parts
    <2> HIDE DEF A, B
    <2>4. Cardinality(A \cup B) = Cardinality(A) + Cardinality(B) - Cardinality({})
      BY <2>2, <2>3, FS_Union
    <2>5. Cardinality(A) \in Nat /\ Cardinality(B) \in Nat /\ Cardinality({}) = 0
      BY <2>3, FS_CardinalityType, FS_EmptySet
    <2>6. Cardinality(A \cup B) = Cardinality(A) + Cardinality(B)
      BY <2>4, <2>5
    <2> QED
      BY <2>1, <2>2, <2>6 DEF A, B, x
  <1>2. Cardinality(Whole(U, {})) = 0
    <2>1. Whole(U, {}) = {}
      BY DEF Whole
    <2> QED
      BY <2>1, FS_EmptySet
  <1>3. \A s \in SUBSET Z : f[s] = IF s = {} THEN 0 ELSE c[Pick(s)].count + f[s \ {Pick(s)}]
    <2> SUFFICES ASSUME NEW s \in SUBSET Z
                 PROVE  f[s] = IF s = {} THEN 0 ELSE c[Pick(s)].count + f[s \ {Pick(s)}]
      OBVIOUS
    <2>1. s \ {Pick(s)} \in SUBSET Z
      OBVIOUS
    <2>2. f[s] = Cardinality(Whole(U, s))
          /\ f[s \ {Pick(s)}] = Cardinality(Whole(U, s \ {Pick(s)}))
      BY <2>1
    <2> HIDE DEF f
    <2> QED
      BY <1>1, <1>2, <2>2
  <1>4. f = [s \in SUBSET Z |-> f[s]] /\ f[Z] = Cardinality(Whole(U, Z))
    OBVIOUS
  <1> HIDE DEF f
  <1>5. AddsUp(f, c, Z)
    BY <1>3, <1>4 DEF AddsUp
  <1>6. ChildCount(c) = (CHOOSE h : AddsUp(h, c, Z))[Z]
    <2>1. ChildCount(c) = (CHOOSE h : AddsUp(h, c, DOMAIN c))[DOMAIN c]
      BY DEF ChildCount, MapThenSumSet, MapThenFoldSet, Pick, AddsUp
    <2> QED
      BY <2>1
  <1>7. AddsUp(CHOOSE h : AddsUp(h, c, Z), c, Z)
    BY <1>5
  <1>8. (CHOOSE h : AddsUp(h, c, Z))[Z] = f[Z]
    BY <1>5, <1>7, AddsUpOnce DEF Parts
  <1> QED
    BY <1>4, <1>6, <1>8

\* A node of a tree: its root or a path.
IsNode(p) == p = <<>> \/ IsPath(p)

LEMMA PrefixOfPrefix ==
    ASSUME NEW q, IsPath(q), NEW k \in 1 .. Len(q), NEW n \in 0 .. k
    PROVE  SubSeq(SubSeq(q, 1, k), 1, n) = SubSeq(q, 1, n)
  <1>1. PICK S : q \in Seq(S)
    BY DEF IsPath
  <1>2. Len(q) \in Nat /\ Len(q) > 0
    BY PathFacts
  <1>3. k \in Nat /\ n \in Nat /\ k <= Len(q) /\ k > 0 /\ n <= k
    BY <1>2
  <1>4. CASE n = 0
    <2>1. SubSeq(SubSeq(q, 1, k), 1, 0) = <<>> /\ SubSeq(q, 1, 0) = <<>>
      BY SubSeqEmpty
    <2> QED
      BY <1>4, <2>1
  <1>5. CASE n # 0
    <2>1. /\ 1 \in 1 .. Len(q) /\ 1 \in 1 .. k - 1 + 1 /\ n \in 1 .. k - 1 + 1
      BY <1>2, <1>3, <1>5
    <2>2. SubSeq(SubSeq(q, 1, k), 1, n) = SubSeq(q, 1 + 1 - 1, 1 + n - 1)
      BY <1>1, <2>1, SubSeqOfSubSeq
    <2> QED
      BY <1>3, <2>2
  <1> QED
    BY <1>4, <1>5

LEMMA BelowNode ==
    ASSUME NEW p, IsNode(p), NEW q, IsPath(q), IsPrefix(p, q)
    PROVE  /\ Len(p) \in Nat /\ Len(q) \in Nat /\ Len(p) <= Len(q)
           /\ SubSeq(p, 1, Len(p)) = p /\ SubSeq(q, 1, Len(p)) = p
           /\ q # p => Len(p) < Len(q)
  <1>1. PICK S : q \in Seq(S)
    BY DEF IsPath
  <1>2. PICK T : p \in Seq(T)
    BY EmptySeq DEF IsNode, IsPath
  <1>3. SubSeq(p, 1, Len(p)) = p /\ SubSeq(q, 1, Len(q)) = q
    BY <1>1, <1>2, SubSeqFull
  <1>4. Len(p) \in Nat /\ Len(q) \in Nat
    BY <1>1, <1>2, LenProperties
  <1>5. Len(p) <= Len(q) /\ SubSeq(q, 1, Len(p)) = p
    BY <1>3 DEF IsPrefix
  <1>6. Len(p) = Len(q) => q = p
    BY <1>3, <1>5, Zenon
  <1>7. q # p => Len(p) < Len(q)
    BY <1>4, <1>5, <1>6
  <1> QED
    BY <1>3, <1>4, <1>5, <1>7, Zenon

\* What is below a node is below exactly one of its children.
Leads(S, p, q, a) ==
    /\ q \in Under(S, a) /\ a \in Children(S, p)
    /\ \A r \in Under(S, a) : r \in Under(S, p) \ {p} /\ SubSeq(r, 1, Len(p) + 1) = a

LEMMA ChildOf ==
    ASSUME NEW S, IsIndex(S), NEW p, IsNode(p), NEW q, q \in Under(S, p), q # p
    PROVE  Leads(S, p, q, SubSeq(q, 1, Len(p) + 1))
  <1> DEFINE k == Len(p) + 1
             a == SubSeq(q, 1, k)
  <1>1. q \in DOMAIN S /\ IsPath(q) /\ IsPrefix(p, q) /\ q # p
    BY DEF IsIndex, Under
  <1>2. /\ Len(p) \in Nat /\ Len(q) \in Nat /\ Len(p) < Len(q)
        /\ SubSeq(p, 1, Len(p)) = p /\ SubSeq(q, 1, Len(p)) = p
    BY <1>1, BelowNode
  <1>3. k \in 0 .. Len(q) /\ k \in 1 .. Len(q) /\ k > 0 /\ Len(p) \in 0 .. k
    BY <1>2
  <1>4. Len(a) = k /\ IsPrefix(a, q) /\ a \in Ancestors(q) \cup {q}
    BY <1>1, <1>3, PrefixFacts
  <1>5. IsPath(a)
    BY <1>1, <1>4, AncestorFacts
  <1>6. q \in Under(S, a) /\ a \in Children(S, p)
    BY <1>1, <1>4 DEF Under, Children
  <1> HIDE DEF a
  <1>7. ASSUME NEW r \in Under(S, a)
        PROVE  r \in Under(S, p) \ {p} /\ SubSeq(r, 1, k) = a
    <2>1. r \in DOMAIN S /\ IsPath(r) /\ IsPrefix(a, r)
      BY DEF IsIndex, Under
    <2>2. Len(r) \in Nat /\ k <= Len(r) /\ SubSeq(r, 1, k) = a
      BY <1>4, <1>5, <2>1, BelowNode, Zenon DEF IsNode
    <2>3. k \in 1 .. Len(r)
      BY <1>2, <2>2
    <2>4. SubSeq(r, 1, Len(p)) = SubSeq(a, 1, Len(p))
      BY <1>3, <2>1, <2>2, <2>3, PrefixOfPrefix
    <2>5. SubSeq(a, 1, Len(p)) = SubSeq(q, 1, Len(p))
      BY <1>1, <1>3, PrefixOfPrefix DEF a
    <2>6. IsPrefix(p, r)
      BY <1>2, <2>2, <2>4, <2>5 DEF IsPrefix
    <2>7. r # p
      BY <1>2, <2>2
    <2> QED
      BY <2>1, <2>2, <2>6, <2>7 DEF Under
  <1> QED
    BY <1>6, <1>7 DEF Leads, a

LEMMA ChildrenPart ==
    ASSUME NEW S, IsIndex(S), NEW p, IsNode(p), NEW U, U = [q \in Children(S, p) |-> Under(S, q)]
    PROVE  /\ Parts(U, Children(S, p))
           /\ Whole(U, Children(S, p)) = Under(S, p) \ {p}
           /\ \A q \in Children(S, p) : U[q] # {}
  <1> DEFINE Z == Children(S, p)
             k == Len(p) + 1
  <1>1. ASSUME NEW a \in Z
        PROVE  /\ U[a] = Under(S, a) /\ U[a] # {}
               /\ \A r \in U[a] : r \in Under(S, p) \ {p} /\ SubSeq(r, 1, k) = a
    <2>1. PICK q \in Under(S, p) \ {p} : a = SubSeq(q, 1, k)
      BY DEF Children
    <2>2. U[a] = Under(S, a)
      OBVIOUS
    <2>3. Leads(S, p, q, a)
      BY <2>1, ChildOf
    <2> QED
      BY <2>2, <2>3 DEF Leads
  <1>2. ASSUME NEW r \in Under(S, p) \ {p}
        PROVE  \E a \in Z : r \in U[a]
    <2> DEFINE a == SubSeq(r, 1, k)
    <2>1. Leads(S, p, r, a)
      BY ChildOf
    <2> HIDE DEF a
    <2>2. a \in Z /\ r \in Under(S, a)
      BY <2>1 DEF Leads
    <2> QED
      BY <2>2
  <1>3. IsFiniteSet(DOMAIN S)
    BY DEF IsIndex
  <1>4. \A a \in Z : IsFiniteSet(U[a])
    BY <1>1, <1>3, FS_Subset DEF Under
  <1>5. IsFiniteSet(Z)
    <2> DEFINE D == Under(S, p) \ {p}
               f == [q \in D |-> SubSeq(q, 1, k)]
    <2>1. IsFiniteSet(D)
      BY <1>3, FS_Subset DEF Under
    <2>2. {f[q] : q \in D} = Z
      BY DEF Children
    <2> HIDE DEF D, Z
    <2>3. IsFiniteSet({f[q] : q \in D})
      BY <2>1, FiniteImage
    <2> QED
      BY <2>2, <2>3
  <1> HIDE DEF Z
  <1>6. \A a, b \in Z : a # b => U[a] \cap U[b] = {}
    BY <1>1
  <1>7. Whole(U, Z) = Under(S, p) \ {p}
    <2>1. \A r : r \in Whole(U, Z) <=> \E a \in Z : r \in U[a]
      BY DEF Whole
    <2>2. \A r : r \in Whole(U, Z) <=> r \in Under(S, p) \ {p}
      BY <1>1, <1>2, <2>1
    <2> HIDE DEF Whole
    <2> QED
      BY <2>2
  <1> QED
    BY <1>1, <1>4, <1>5, <1>6, <1>7 DEF Parts, Z

\* A node under which the server has a record: the root or one that is queried.
LEMMA SummaryValid ==
    ASSUME NEW S, IsIndex(S), NEW p, IsNode(p), p # <<>> => Under(S, p) # {}
    PROVE  ValidSummary(p, NodeSummary(S, p))
  <1> DEFINE s == NodeSummary(S, p)
             Z == Children(S, p)
             c == [q \in Z |-> [hash |-> SubtreeHash(S, q), count |-> Cardinality(Under(S, q))]]
             U == [q \in Z |-> Under(S, q)]
             here == DOMAIN S \cap {p}
  <1>1. /\ s.count = Cardinality(Under(S, p)) /\ s.record = here /\ s.children = c
        /\ DOMAIN c = Z
    BY DEF NodeSummary
  <1>2. /\ Parts(U, Z) /\ Whole(U, Z) = Under(S, p) \ {p}
        /\ \A q \in Z : U[q] # {}
    BY ChildrenPart
  <1>3. \A q \in Z : c[q].count = Cardinality(U[q])
    OBVIOUS
  <1>4. \A q : IsFiniteSet(Under(S, q))
    BY FS_Subset DEF IsIndex, Under
  <1>5. ASSUME NEW T, IsFiniteSet(T), T # {}
        PROVE  Cardinality(T) > 0
    BY <1>5, FS_CardinalityType, FS_EmptySet
  <1>6. p # <<>> => s.count > 0
    BY <1>1, <1>4, <1>5
  <1>7. \A q \in Z : c[q].count > 0
    BY <1>2, <1>3, <1>5 DEF Parts
  <1> HIDE DEF U, c, Z
  <1>8. ChildCount(c) = Cardinality(Under(S, p) \ {p})
    <2>1. DOMAIN c = Z
      BY <1>1
    <2>2. Parts(U, Z)
      BY <1>2
    <2>3. ChildCount(c) = Cardinality(Whole(U, Z))
      BY <1>3, <2>1, <2>2, CountsAddUp
    <2> QED
      BY <1>2, <2>3
  <1>9. Cardinality(Under(S, p)) = Cardinality(here) + Cardinality(Under(S, p) \ {p})
    <2> DEFINE B == Under(S, p) \ {p}
    <2>1. p \in DOMAIN S => p \in Under(S, p)
      BY DEF Under, IsPrefix, IsIndex, IsPath
    <2>2. Under(S, p) = here \cup B /\ here \cap B = {}
      BY <2>1 DEF Under
    <2>3. IsFiniteSet(here) /\ IsFiniteSet(B)
      BY <1>4, <2>2, FS_Subset
    <2> HIDE DEF here, B
    <2>4. Cardinality(here \cup B) = Cardinality(here) + Cardinality(B) - Cardinality({})
      BY <2>2, <2>3, FS_Union
    <2>5. Cardinality(here) \in Nat /\ Cardinality(B) \in Nat /\ Cardinality({}) = 0
      BY <2>3, FS_CardinalityType, FS_EmptySet
    <2>6. Cardinality(here \cup B) = Cardinality(here) + Cardinality(B)
      BY <2>4, <2>5
    <2> QED
      BY <2>2, <2>6 DEF B
  <1> HIDE DEF here, s
  <1>10. s.count = Cardinality(s.record) + ChildCount(s.children)
    BY <1>1, <1>8, <1>9
  <1>11. ValidSummary(p, s)
    BY <1>1, <1>6, <1>7, <1>10 DEF ValidSummary, ChildCount
  <1> QED
    BY <1>11 DEF s

\* The checks on the way never refuse a snapshot: every summary of the server's
\* tree adds up (validate_snapshot_summary), and what the client has put
\* together has the count and the digest of the root it was shown
\* (fetch_snapshot_connected).
THEOREM FetchAccepted ==
    ASSUME NEW local, NEW remote, IsIndex(local), IsIndex(remote)
    PROVE  Accepted(local, remote, FetchSnapshot(local, remote))
  <1>1. FetchSnapshot(local, remote) = remote
    BY FetchExact
  <1>2. ASSUME NEW p \in Queried(local, remote)
        PROVE  ValidSummary(p, NodeSummary(remote, p))
    <2>1. p \in {<<>>} \cup DOMAIN remote \cup UNION {Ancestors(q) : q \in DOMAIN remote}
      BY DEF Queried
    <2>2. CASE p = <<>>
      BY <2>2, SummaryValid DEF IsNode
    <2>3. CASE p \in DOMAIN remote
      <3>1. IsPath(p) /\ Len(p) \in 0 .. Len(p)
        BY <2>3, PathFacts DEF IsIndex
      <3>2. IsPrefix(p, p)
        BY <3>1, PrefixFacts
      <3>3. p \in Under(remote, p)
        BY <2>3, <3>2 DEF Under
      <3> QED
        BY <3>1, <3>3, SummaryValid DEF IsNode
    <2>4. ASSUME NEW q \in DOMAIN remote, p \in Ancestors(q)
          PROVE  ValidSummary(p, NodeSummary(remote, p))
      <3>1. IsPath(q) /\ Len(q) \in Nat
        BY PathFacts DEF IsIndex
      <3>2. PICK k \in 1 .. Len(q) - 1 : p = SubSeq(q, 1, k)
        BY <2>4 DEF Ancestors
      <3>3. k \in 0 .. Len(q)
        BY <3>1
      <3>4. IsPrefix(p, q) /\ IsPath(p)
        BY <2>4, <3>1, <3>2, <3>3, PrefixFacts, AncestorFacts
      <3>5. q \in Under(remote, p)
        BY <3>4 DEF Under
      <3> QED
        BY <3>4, <3>5, SummaryValid DEF IsNode
    <2> QED
      BY <2>1, <2>2, <2>3, <2>4
  <1> QED
    BY <1>1, <1>2 DEF Accepted

-----------------------------------------------------------------------------
(* The inductive invariant. *)

\* A pass of a client: what it holds are snapshots, and counts no event beyond
\* the counters c.
IsPass(s, c) ==
    /\ s = [step |-> s.step, local |-> s.local, remote |-> s.remote,
            desired |-> s.desired, need |-> s.need, here |-> s.here, there |-> s.there]
    /\ s.step \in {"idle", "fetch", "stage", "apply", "verify"}
    /\ IsIndex(s.local) /\ IsIndex(s.remote) /\ IsIndex(s.desired)
    /\ AllBelow(s.local, c) /\ AllBelow(s.remote, c) /\ AllBelow(s.desired, c)
    /\ s.need \subseteq Content
    /\ s.here \subseteq DOMAIN s.desired /\ s.there \subseteq DOMAIN s.desired

\* CounterCovers with the snapshots a pass merges, which are what the next
\* plan is made of.
ReplicasInv ==
    /\ counter \in [Replica -> Nat]
    /\ DOMAIN disk = Replica /\ DOMAIN index = Replica /\ DOMAIN session = Client
    /\ \A n \in Replica :
        IsDisk(disk[n]) /\ IsIndex(index[n]) /\ AllBelow(index[n], counter)
    /\ \A c \in Client : IsPass(session[c], counter)
    /\ edits \in 0 .. MaxEdits /\ failures \in 0 .. MaxFailures
    /\ owed \subseteq Content

LEMMA InvImplies == ReplicasInv => TypeOK /\ CounterCovers
  <1> SUFFICES ASSUME ReplicasInv
               PROVE  TypeOK /\ CounterCovers
    OBVIOUS
  <1>1. TypeOK
    BY DEF ReplicasInv, TypeOK, IsDisk, IsIndex, IsPass
  <1>2. CounterCovers
    BY DEF ReplicasInv, CounterCovers, Covered, AllBelow, Below, IsPass
  <1> QED
    BY <1>1, <1>2

\* What a step of replica n may make of it.
IsRoot(n, root) ==
    /\ IsDisk(root.disk) /\ IsIndex(root.index)
    /\ root.counter \in Nat /\ counter[n] <= root.counter
    /\ AllBelow(root.index, [counter EXCEPT ![n] = root.counter])

\* A root that becomes n's, with passes that count nothing newer.
LEMMA BecomesSafe ==
    ASSUME ReplicasInv, NEW n \in Replica, NEW root, IsRoot(n, root), Becomes(n, root),
           NEW c \in Client, NEW s, IsPass(s, counter'),
           session' = [session EXCEPT ![c] = s] \/ session' = session,
           edits' = edits, failures' = failures, owed' = owed
    PROVE  ReplicasInv'
  <1>1. /\ counter \in [Replica -> Nat]
        /\ DOMAIN disk = Replica /\ DOMAIN index = Replica /\ DOMAIN session = Client
    BY DEF ReplicasInv
  <1>2. /\ disk' = [disk EXCEPT ![n] = root.disk]
        /\ index' = [index EXCEPT ![n] = root.index]
        /\ counter' = [counter EXCEPT ![n] = root.counter]
    BY DEF Becomes
  <1>3. /\ counter' \in [Replica -> Nat]
        /\ \A m \in Replica : counter[m] <= counter'[m]
    BY <1>1, <1>2 DEF IsRoot
  <1>4. DOMAIN disk' = Replica /\ DOMAIN index' = Replica /\ DOMAIN session' = Client
    BY <1>1, <1>2
  <1>5. ASSUME NEW m \in Replica
        PROVE  IsDisk(disk'[m]) /\ IsIndex(index'[m]) /\ AllBelow(index'[m], counter')
    <2>1. CASE m = n
      BY <1>1, <1>2, <2>1 DEF IsRoot
    <2>2. CASE m # n
      <3>1. disk'[m] = disk[m] /\ index'[m] = index[m]
        BY <1>1, <1>2, <2>2
      <3>2. IsDisk(disk[m]) /\ IsIndex(index[m]) /\ AllBelow(index[m], counter)
        BY DEF ReplicasInv
      <3> QED
        BY <1>1, <1>3, <3>1, <3>2, AllBelowGrows
    <2> QED
      BY <2>1, <2>2
  <1>6. ASSUME NEW d \in Client
        PROVE  IsPass(session'[d], counter')
    <2>1. session'[d] = s \/ session'[d] = session[d]
      BY <1>1
    <2>2. IsPass(session[d], counter)
      BY DEF ReplicasInv
    <2>3. IsPass(session[d], counter')
      BY <1>1, <1>3, <2>2, AllBelowGrows DEF IsPass
    <2> QED
      BY <2>1, <2>3
  <1> QED
    BY <1>3, <1>4, <1>5, <1>6 DEF ReplicasInv

\* The same for a step that leaves the roots alone.
LEMMA GotoSafe ==
    ASSUME ReplicasInv, UNCHANGED replicas,
           NEW c \in Client, NEW s, IsPass(s, counter), Goto(c, s),
           edits' = edits, failures' \in 0 .. MaxFailures, owed' = owed
    PROVE  ReplicasInv'
  <1>1. disk' = disk /\ index' = index /\ counter' = counter
    BY DEF replicas
  <1>2. DOMAIN session' = Client /\ \A d \in Client : session'[d] \in {s, session[d]}
    BY DEF Goto, ReplicasInv
  <1>3. \A d \in Client : IsPass(session'[d], counter)
    BY <1>2 DEF ReplicasInv
  <1> QED
    BY <1>1, <1>2, <1>3 DEF ReplicasInv

\* Between passes.
LEMMA IdleIsPass ==
    ASSUME NEW c
    PROVE  IsPass(Idle, c)
  <1>1. DOMAIN Empty = {}
    BY DEF Empty
  <1>2. IsIndex(Empty) /\ AllBelow(Empty, c)
    <2>1. Empty = [p \in DOMAIN Empty |-> Empty[p]]
      BY DEF Empty
    <2> QED
      BY <1>1, <2>1, FS_EmptySet DEF IsIndex, IsSnapshot, AllBelow
  <1>3. /\ Idle.step = "idle" /\ Idle.need = {} /\ Idle.here = {} /\ Idle.there = {}
        /\ Idle.local = Empty /\ Idle.remote = Empty /\ Idle.desired = Empty
        /\ Idle = [step |-> Idle.step, local |-> Idle.local, remote |-> Idle.remote,
                   desired |-> Idle.desired, need |-> Idle.need, here |-> Idle.here,
                   there |-> Idle.there]
    BY DEF Idle
  <1> QED
    BY <1>2, <1>3 DEF IsPass

LEMMA InitSafe == Init => ReplicasInv
  <1> SUFFICES ASSUME Init
               PROVE  ReplicasInv
    OBVIOUS
  <1>1. IsDisk(Empty) /\ IsIndex(Empty) /\ AllBelow(Empty, counter)
    <2>1. DOMAIN Empty = {}
      BY DEF Empty
    <2>2. Idle.local = Empty
      BY DEF Idle
    <2> QED
      BY <2>1, <2>2, IdleIsPass, FS_EmptySet DEF IsDisk, IsPass
  <1>2. counter \in [Replica -> Nat]
    BY DEF Init
  <1>3. \A c \in Client : IsPass(session[c], counter)
    BY IdleIsPass DEF Init
  <1>4. edits \in 0 .. MaxEdits /\ failures \in 0 .. MaxFailures
    BY ReplicasAssumption DEF Init
  <1> QED
    BY <1>1, <1>2, <1>3, <1>4 DEF Init, ReplicasInv

-----------------------------------------------------------------------------
(* The scan. *)

LEMMA Buried ==
    ASSUME NEW r \in Record, NEW v
    PROVE  [r EXCEPT !.tombstone = TRUE, !.version = v]
             = [content |-> r.content, tombstone |-> TRUE, version |-> v]
  <1> DEFINE s == [r EXCEPT !.tombstone = TRUE]
  <1>1. s = [content |-> r.content, tombstone |-> TRUE, version |-> r.version]
    BY WithTombstone
  <1>2. [r EXCEPT !.tombstone = TRUE, !.version = v] = [s EXCEPT !.version = v]
    OBVIOUS
  <1> HIDE DEF s
  <1>3. s \in Record /\ s.content = r.content /\ s.tombstone = TRUE
    BY <1>1 DEF Record
  <1>4. [s EXCEPT !.version = v]
            = [content |-> s.content, tombstone |-> s.tombstone, version |-> v]
    BY <1>3 DEF Record
  <1> QED
    BY <1>2, <1>3, <1>4

\* Each row a scan leaves is the old one, or has one new event of the scanning
\* replica: over the path's own history, or a rename's source's.
Found(n, p, t, r) ==
    \E v \in VersionVector :
        /\ r = [content |-> disk[n][p].content, tombstone |-> FALSE,
                version |-> Observe(v, n, t)]
        /\ \/ \E q \in LiveRows(index[n]) \ DOMAIN disk[n] :
                q = disk[n][p].row /\ v = index[n][q].version
           \/ p \in DOMAIN index[n] /\ v = index[n][p].version
           \/ p \notin DOMAIN index[n] /\ v = NoVersion

Gone(n, p, t, r) ==
    r = [content |-> index[n][p].content, tombstone |-> TRUE,
         version |-> Observe(index[n][p].version, n, t)]

Scanned(n, root) ==
    /\ root.disk = [p \in DOMAIN disk[n] |-> Entry(disk[n][p].content, p)]
    /\ root.counter \in Nat /\ counter[n] <= root.counter
    /\ DOMAIN root.index = DOMAIN index[n] \cup DOMAIN disk[n]
    /\ root.index = [p \in DOMAIN root.index |-> root.index[p]]
    /\ \A p \in DOMAIN root.index :
        \/ p \in DOMAIN index[n] /\ root.index[p] = index[n][p]
        \/ p \in DOMAIN disk[n] /\ \E t \in counter[n] + 1 .. root.counter : Found(n, p, t, root.index[p])
        \/ p \in DOMAIN index[n] /\ \E t \in counter[n] + 1 .. root.counter : Gone(n, p, t, root.index[p])

LEMMA ScanShape ==
    ASSUME ReplicasInv, NEW n \in Replica
    PROVE  \A root \in Scan(n) : Scanned(n, root)
  <1> DEFINE f == disk[n]
             i == index[n]
             changed == {p \in DOMAIN f : p \notin LiveRows(i) \/ f[p].row # p}
             missing == LiveRows(i) \ DOMAIN f
             renames == {p \in changed \ LiveRows(i) : f[p].row \in missing}
             source(p) == f[p].row
             sources == {source(p) : p \in renames}
             target(p) == CHOOSE q \in renames : source(q) = p
             past(p) == IF p \in renames THEN i[source(p)].version
                        ELSE IF p \in DOMAIN i THEN i[p].version ELSE NoVersion
             found(p, t) == [content |-> f[p].content, tombstone |-> FALSE,
                             version |-> Observe(past(p), n, t)]
             buried(p, t) == [i[p] EXCEPT !.tombstone = TRUE, !.version = Observe(@, n, t)]
             last == counter[n] + Cardinality(changed)
             rows(new, old) == [p \in DOMAIN i \cup DOMAIN f |->
                                  CASE p \in changed -> found(p, new[p])
                                    [] p \in sources -> buried(p, new[target(p)])
                                    [] p \in missing \ sources -> buried(p, old[p])
                                    [] OTHER -> i[p]]
             result(new, old) == Root([p \in DOMAIN f |-> Entry(f[p].content, p)],
                                      rows(new, old), last + Cardinality(missing \ sources))
  <1>0. Scan(n) = {result(new, old) : new \in Ticks(changed, counter[n]),
                                      old \in Ticks(missing \ sources, last)}
    BY DEF Scan
  <1> HIDE DEF rows, changed, missing, buried, found, past, renames, sources, target, last
  <1> SUFFICES ASSUME NEW root \in Scan(n)
               PROVE  Scanned(n, root)
    OBVIOUS
  <1>1. PICK new \in Ticks(changed, counter[n]), old \in Ticks(missing \ sources, last) :
            root = result(new, old)
    <2> HIDE DEF result
    <2> QED
      BY <1>0
  <1>2. /\ root.disk = [p \in DOMAIN f |-> Entry(f[p].content, p)]
        /\ root.index = rows(new, old)
        /\ root.counter = last + Cardinality(missing \ sources)
    BY <1>1 DEF Root
  <1>3. /\ IsFiniteSet(DOMAIN f) /\ IsFiniteSet(DOMAIN i) /\ counter[n] \in Nat
        /\ \A p \in DOMAIN i : i[p] \in Record
    BY DEF ReplicasInv, IsDisk, IsIndex, IsSnapshot
  <1>4. Cardinality(changed) \in Nat /\ Cardinality(missing \ sources) \in Nat
    <2>1. changed \subseteq DOMAIN f /\ missing \ sources \subseteq DOMAIN i
      BY DEF changed, missing, LiveRows
    <2>2. IsFiniteSet(changed) /\ IsFiniteSet(missing \ sources)
      BY <1>3, <2>1, FS_Subset
    <2> QED
      BY <2>2, FS_CardinalityType
  <1>5. root.counter \in Nat /\ counter[n] <= root.counter
    BY <1>2, <1>3, <1>4 DEF last
  <1>6. \A p \in changed : new[p] \in counter[n] + 1 .. root.counter
    <2>1. \A p \in changed : new[p] \in counter[n] + 1 .. counter[n] + Cardinality(changed)
      BY DEF Ticks
    <2> QED
      BY <1>2, <1>3, <1>4, <2>1 DEF last
  <1>7. \A p \in missing \ sources : old[p] \in counter[n] + 1 .. root.counter
    <2>1. \A p \in missing \ sources : old[p] \in last + 1 .. last + Cardinality(missing \ sources)
      BY DEF Ticks
    <2>2. last \in Nat /\ counter[n] \in Nat /\ counter[n] <= last
      BY <1>3, <1>4 DEF last
    <2>3. root.counter = last + Cardinality(missing \ sources)
      BY <1>2
    <2> DEFINE k == Cardinality(missing \ sources)
    <2>4. \A x \in last + 1 .. last + k : x \in counter[n] + 1 .. last + k
      <3>1. k \in Nat
        BY <1>4
      <3> HIDE DEF k
      <3> QED
        BY <2>2, <3>1
    <2> QED
      BY <2>1, <2>3, <2>4
  <1>8. \A p \in sources : target(p) \in changed /\ p \in missing
    BY DEF sources, target, renames
  <1>9. ASSUME NEW p \in changed
        PROVE  /\ past(p) \in VersionVector
               /\ \/ \E q \in missing : q = f[p].row /\ past(p) = i[q].version
                  \/ p \in DOMAIN i /\ past(p) = i[p].version
                  \/ p \notin DOMAIN i /\ past(p) = NoVersion
    <2>1. \A q \in DOMAIN i : i[q].version \in VersionVector
      BY <1>3 DEF Record
    <2>2. NoVersion \in VersionVector
      BY DEF NoVersion, VersionVector
    <2>3. missing \subseteq DOMAIN i
      BY DEF missing, LiveRows
    <2> QED
      BY <2>1, <2>2, <2>3 DEF past, renames
  <1>10. ASSUME NEW p \in DOMAIN i, NEW t
         PROVE  buried(p, t) = [content |-> i[p].content, tombstone |-> TRUE,
                                version |-> Observe(i[p].version, n, t)]
    <2> DEFINE v == Observe(i[p].version, n, t)
    <2> HIDE DEF v
    <2>1. buried(p, t) = [i[p] EXCEPT !.tombstone = TRUE, !.version = v]
      BY DEF v, buried
    <2>2. i[p] \in Record
      BY <1>3
    <2>3. [i[p] EXCEPT !.tombstone = TRUE, !.version = v]
            = [content |-> i[p].content, tombstone |-> TRUE, version |-> v]
      BY <2>2, Buried
    <2> QED
      BY <2>1, <2>3 DEF v
  <1>11. missing \subseteq DOMAIN i /\ changed \cap missing = {}
    BY DEF changed, missing, LiveRows
  <1>12. ASSUME NEW p \in changed
         PROVE  rows(new, old)[p] = found(p, new[p])
    <2>1. p \in DOMAIN f /\ p \notin missing /\ p \notin sources
      BY <1>8, <1>11 DEF changed
    <2> QED
      BY <2>1 DEF rows
  <1>13. ASSUME NEW p \in missing
         PROVE  \E t \in counter[n] + 1 .. root.counter : rows(new, old)[p] = buried(p, t)
    <2>1. CASE p \in sources
      <3>1. rows(new, old)[p] = buried(p, new[target(p)])
        BY <1>11, <2>1 DEF rows
      <3> QED
        BY <1>6, <1>8, <2>1, <3>1
    <2>2. CASE p \notin sources
      <3>1. rows(new, old)[p] = buried(p, old[p])
        BY <1>11, <2>2 DEF rows
      <3> QED
        BY <1>7, <2>2, <3>1
    <2> QED
      BY <2>1, <2>2
  <1>14. ASSUME NEW p \in DOMAIN i \cup DOMAIN f, p \notin changed, p \notin missing
         PROVE  p \in DOMAIN i /\ rows(new, old)[p] = i[p]
    <2>1. p \notin sources
      BY <1>8, <1>14
    <2>2. p \in DOMAIN i
      BY <1>14 DEF changed, LiveRows
    <2> QED
      BY <1>14, <2>1, <2>2 DEF rows
  <1>15. /\ DOMAIN rows(new, old) = DOMAIN i \cup DOMAIN f
         /\ rows(new, old) = [p \in DOMAIN rows(new, old) |-> rows(new, old)[p]]
    BY DEF rows
  <1>16. ASSUME NEW p \in DOMAIN root.index
         PROVE  \/ p \in DOMAIN i /\ root.index[p] = i[p]
                \/ p \in DOMAIN f /\ \E t \in counter[n] + 1 .. root.counter : Found(n, p, t, root.index[p])
                \/ p \in DOMAIN i /\ \E t \in counter[n] + 1 .. root.counter : Gone(n, p, t, root.index[p])
    <2>1. CASE p \in changed
      <3>1. root.index[p] = [content |-> f[p].content, tombstone |-> FALSE,
                             version |-> Observe(past(p), n, new[p])]
        BY <1>2, <1>12, <2>1 DEF found
      <3>2. p \in DOMAIN f
        BY <2>1 DEF changed
      <3>3. new[p] \in counter[n] + 1 .. root.counter
        BY <1>6, <2>1
      <3>4. Found(n, p, new[p], root.index[p])
        BY <1>9, <2>1, <3>1 DEF Found, missing
      <3> QED
        BY <3>2, <3>3, <3>4
    <2>2. CASE p \in missing
      <3>1. p \in DOMAIN i
        BY <1>11, <2>2
      <3>2. PICK t \in counter[n] + 1 .. root.counter : root.index[p] = buried(p, t)
        BY <1>2, <1>13, <2>2
      <3>3. Gone(n, p, t, root.index[p])
        BY <1>10, <3>1, <3>2 DEF Gone
      <3> QED
        BY <3>1, <3>2, <3>3
    <2>3. CASE p \notin changed /\ p \notin missing
      BY <1>2, <1>14, <1>15, <2>3
    <2> QED
      BY <2>1, <2>2, <2>3
  <1> QED
    BY <1>2, <1>5, <1>15, <1>16 DEF Scanned

\* A new event leaves a version at least as large.
LEMMA ObserveFacts ==
    ASSUME NEW v \in VersionVector, NEW n \in Replica, NEW t \in Nat
    PROVE  /\ Observe(v, n, t) \in VersionVector
           /\ \A k \in Clock : v[k] <= Observe(v, n, t)[k]
  <1>1. n \in Clock /\ Replica \subseteq Clock
    BY DEF Clock
  <1>2. Observe(v, n, t) = [v EXCEPT ![n] = IF v[n] < t THEN t ELSE v[n]]
    BY DEF Observe, Larger
  <1>3. \A k \in Clock : Observe(v, n, t)[k] = IF k = n /\ v[n] < t THEN t ELSE v[k]
    BY <1>1, <1>2 DEF VersionVector
  <1>4. \A k \in Clock : v[k] \in Nat
    BY DEF VersionVector
  <1>5. Observe(v, n, t) \in VersionVector
    BY <1>1, <1>2, <1>4 DEF VersionVector
  <1>6. \A k \in Clock : v[k] <= Observe(v, n, t)[k]
    BY <1>3, <1>4
  <1> QED
    BY <1>5, <1>6

\* What a scan finds is a root, and no event is above its counter.
LEMMA ScanSafe ==
    ASSUME ReplicasInv, NEW n \in Replica, NEW root \in Scan(n)
    PROVE  IsRoot(n, root)
  <1> DEFINE d == [counter EXCEPT ![n] = root.counter]
  <1>1. Scanned(n, root)
    BY ScanShape
  <1>2. /\ IsDisk(disk[n]) /\ IsIndex(index[n]) /\ AllBelow(index[n], counter)
        /\ counter \in [Replica -> Nat]
    BY DEF ReplicasInv
  <1>3. IsDisk(root.disk)
    <2>1. /\ DOMAIN root.disk = DOMAIN disk[n]
          /\ \A p \in DOMAIN disk[n] : root.disk[p].content = disk[n][p].content
      BY <1>1 DEF Scanned, Entry
    <2> QED
      BY <1>2, <2>1 DEF IsDisk, HasParent
  <1>4. ASSUME NEW v \in VersionVector, Below(v, counter), NEW t \in counter[n] + 1 .. root.counter
        PROVE  Observe(v, n, t) \in VersionVector /\ Below(Observe(v, n, t), d)
    <2>1. /\ t \in Nat /\ root.counter \in Nat /\ counter[n] <= root.counter
          /\ counter[n] \in Nat /\ t <= root.counter
      BY <1>1, <1>2 DEF Scanned
    <2>2. Observe(v, n, t) \in VersionVector
      BY <2>1, ObserveFacts
    <2>3. ASSUME NEW m \in Replica
          PROVE  Observe(v, n, t)[m] <= d[m]
      <3>1. v[m] <= counter[m] /\ v[m] \in Nat /\ counter[m] \in Nat
        BY <1>2, <1>4 DEF Below, VersionVector, Clock
      <3>2. Observe(v, n, t)[m] = IF m = n THEN Larger(v[m], t) ELSE v[m]
        BY DEF Observe, VersionVector, Clock
      <3>3. CASE m = n
        BY <1>2, <2>1, <3>1, <3>2, <3>3 DEF Larger
      <3>4. CASE m # n
        BY <1>2, <3>1, <3>2, <3>4
      <3> QED
        BY <3>3, <3>4
    <2> QED
      BY <2>2, <2>3 DEF Below
  <1>5. /\ \A p \in DOMAIN index[n] : /\ index[n][p] \in Record
                                      /\ index[n][p].version \in VersionVector
                                      /\ index[n][p].content \in Content \cup {Directory}
                                      /\ Below(index[n][p].version, counter)
        /\ NoVersion \in VersionVector /\ Below(NoVersion, counter)
        /\ LiveRows(index[n]) \subseteq DOMAIN index[n]
    <2>1. NoVersion \in VersionVector /\ Below(NoVersion, counter)
      BY <1>2 DEF NoVersion, VersionVector, Below, Clock
    <2> QED
      BY <1>2, <2>1 DEF IsIndex, IsSnapshot, AllBelow, Record, LiveRows
  <1>6. ASSUME NEW p \in DOMAIN root.index
        PROVE  root.index[p] \in Record /\ Below(root.index[p].version, d) /\ IsPath(p)
    <2>1. IsPath(p)
      BY <1>1, <1>2 DEF Scanned, IsIndex, IsDisk
    <2>2. CASE p \in DOMAIN index[n] /\ root.index[p] = index[n][p]
      <3>1. \A m \in Replica : counter[m] <= d[m] /\ d[m] \in Nat
        BY <1>1, <1>2 DEF Scanned
      <3>2. d \in [Replica -> Nat]
        BY <1>2, <3>1
      <3> HIDE DEF d
      <3> QED
        BY <1>2, <1>5, <2>1, <2>2, <3>1, <3>2, BelowGrows
    <2>3. ASSUME p \in DOMAIN disk[n], NEW t \in counter[n] + 1 .. root.counter,
                 Found(n, p, t, root.index[p])
          PROVE  root.index[p] \in Record /\ Below(root.index[p].version, d)
      <3>1. PICK v \in VersionVector :
                /\ root.index[p] = [content |-> disk[n][p].content, tombstone |-> FALSE,
                                    version |-> Observe(v, n, t)]
                /\ \/ \E q \in LiveRows(index[n]) : v = index[n][q].version
                   \/ p \in DOMAIN index[n] /\ v = index[n][p].version
                   \/ v = NoVersion
        BY <2>3 DEF Found
      <3>2. Below(v, counter)
        BY <1>5, <3>1
      <3>3. Observe(v, n, t) \in VersionVector /\ Below(Observe(v, n, t), d)
        BY <1>4, <3>2
      <3>4. disk[n][p].content \in Content \cup {Directory}
        BY <1>2, <2>3 DEF IsDisk
      <3> QED
        BY <3>1, <3>3, <3>4 DEF Record
    <2>4. ASSUME p \in DOMAIN index[n], NEW t \in counter[n] + 1 .. root.counter,
                 Gone(n, p, t, root.index[p])
          PROVE  root.index[p] \in Record /\ Below(root.index[p].version, d)
      <3>1. root.index[p] = [content |-> index[n][p].content, tombstone |-> TRUE,
                             version |-> Observe(index[n][p].version, n, t)]
        BY <2>4 DEF Gone
      <3>2. /\ Observe(index[n][p].version, n, t) \in VersionVector
            /\ Below(Observe(index[n][p].version, n, t), d)
        BY <1>4, <1>5, <2>4
      <3> QED
        BY <1>5, <2>4, <3>1, <3>2 DEF Record
    <2> QED
      BY <1>1, <2>1, <2>2, <2>3, <2>4 DEF Scanned
  <1>7. IsFiniteSet(DOMAIN root.index)
    <2>1. IsFiniteSet(DOMAIN index[n]) /\ IsFiniteSet(DOMAIN disk[n])
      BY <1>2 DEF IsIndex, IsDisk
    <2>2. IsFiniteSet(DOMAIN index[n] \cup DOMAIN disk[n])
      BY <2>1, FS_Union
    <2> QED
      BY <1>1, <2>2 DEF Scanned
  <1>8. IsIndex(root.index) /\ AllBelow(root.index, d)
    BY <1>1, <1>6, <1>7 DEF Scanned, IsIndex, IsSnapshot, AllBelow
  <1> QED
    BY <1>1, <1>3, <1>8 DEF IsRoot, Scanned

\* The index that a record goes into, and the disk it is applied to.
LEMMA InstallIndex ==
    ASSUME ReplicasInv, NEW n \in Replica, NEW root, IsRoot(n, root),
           NEW p, IsPath(p), NEW r \in Record, Below(r.version, counter)
    PROVE  /\ IsIndex(Put(root.index, p, r))
           /\ AllBelow(Put(root.index, p, r), [counter EXCEPT ![n] = root.counter])
  <1> DEFINE d == [counter EXCEPT ![n] = root.counter]
             S == Put(root.index, p, r)
  <1>1. /\ DOMAIN S = DOMAIN root.index \cup {p}
        /\ S[p] = r /\ \A q \in DOMAIN S \ {p} : S[q] = root.index[q]
        /\ S = [q \in DOMAIN S |-> S[q]]
    BY DEF Put
  <1>2. counter \in [Replica -> Nat] /\ d \in [Replica -> Nat]
    BY DEF ReplicasInv, IsRoot
  <1>3. \A m \in Replica : counter[m] <= d[m]
    BY <1>2 DEF IsRoot
  <1>4. Below(r.version, d)
    BY <1>2, <1>3, BelowGrows DEF Record
  <1> HIDE DEF S
  <1>5. IsFiniteSet(DOMAIN S)
    BY <1>1, FS_AddElement DEF IsRoot, IsIndex
  <1>6. \A q \in DOMAIN S : IsPath(q) /\ S[q] \in Record /\ Below(S[q].version, d)
    BY <1>1, <1>4 DEF IsRoot, IsIndex, IsSnapshot, AllBelow
  <1>7. IsIndex(S) /\ AllBelow(S, d)
    BY <1>1, <1>5, <1>6 DEF IsIndex, IsSnapshot, AllBelow
  <1> QED
    BY <1>7 DEF S

\* One record applied to a root.
LEMMA InstallSafe ==
    ASSUME ReplicasInv, NEW n \in Replica, NEW root, IsRoot(n, root),
           NEW p, IsPath(p), NEW r \in Record, Below(r.version, counter),
           Installable(root, p, r)
    PROVE  IsRoot(n, Install(root, p, r))
  <1> DEFINE f == root.disk
             g == WithParents(f, p)
             d == [counter EXCEPT ![n] = root.counter]
  <1>1. /\ IsDisk(g) /\ HasParent(g, p)
        /\ \A q \in DOMAIN g : p \in Ancestors(q) => q \in Inside(p, f)
    BY WithParentsDisk DEF Installable, IsRoot
  <1>2. LiveDirectory(r) \/ \A q \in DOMAIN g : p \notin Ancestors(q)
    BY <1>1 DEF Installable
  <1>3. CASE r.tombstone
    <2>1. \A q \in DOMAIN g \ {p} : Ancestors(q) \cap {p} = {}
      BY <1>2, <1>3 DEF LiveDirectory
    <2>2. IsDisk(Without(g, {p}))
      BY <1>1, <2>1, WithoutDisk
    <2> QED
      BY <1>3, <2>2, InstallIndex DEF Install, Root, IsRoot
  <1>4. CASE ~r.tombstone
    <2> DEFINE e == Entry(r.content, p)
    <2>1. e.content = r.content /\ r.content \in Content \cup {Directory}
      BY DEF Entry, Record
    <2>2. e.content = Directory \/ \A q \in DOMAIN g : p \notin Ancestors(q)
      BY <1>2, <2>1 DEF LiveDirectory
    <2> HIDE DEF e
    <2>3. IsDisk(Put(g, p, e))
      BY <1>1, <2>1, <2>2, PutDisk
    <2> QED
      BY <1>4, <2>3, InstallIndex DEF Install, Root, IsRoot, e
  <1> QED
    BY <1>3, <1>4

-----------------------------------------------------------------------------
(* The steps of a pass. *)

LEMMA PassGrows ==
    ASSUME NEW c \in [Replica -> Nat], NEW d \in [Replica -> Nat],
           \A n \in Replica : c[n] <= d[n], NEW s, IsPass(s, c)
    PROVE  IsPass(s, d)
  BY AllBelowGrows DEF IsPass

LEMMA BecomesGrows ==
    ASSUME ReplicasInv, NEW n \in Replica, NEW root, IsRoot(n, root), Becomes(n, root)
    PROVE  /\ counter \in [Replica -> Nat]
           /\ counter' \in [Replica -> Nat]
           /\ \A m \in Replica : counter[m] <= counter'[m]
           /\ AllBelow(root.index, counter')
           /\ \A c \in Client : IsPass(session[c], counter')
  <1>1. counter \in [Replica -> Nat] /\ counter' = [counter EXCEPT ![n] = root.counter]
    BY DEF ReplicasInv, Becomes
  <1>2. counter' \in [Replica -> Nat] /\ \A m \in Replica : counter[m] <= counter'[m]
    BY <1>1 DEF IsRoot
  <1>3. AllBelow(root.index, counter')
    BY <1>1 DEF IsRoot
  <1>4. \A c \in Client : IsPass(session[c], counter')
    BY <1>1, <1>2, PassGrows DEF ReplicasInv
  <1> QED
    BY <1>1, <1>2, <1>3, <1>4

\* What a step changes in a pass.
LEMMA PassChanges ==
    ASSUME NEW c, NEW s, IsPass(s, c), NEW x
    PROVE  /\ IsPass([s EXCEPT !.need = s.need \ {x}], c)
           /\ IsPass([s EXCEPT !.here = s.here \ {x}], c)
           /\ IsPass([s EXCEPT !.there = s.there \ {x}], c)
           /\ IsPass([s EXCEPT !.step = "apply"], c)
  <1>1. s = [step |-> s.step, local |-> s.local, remote |-> s.remote,
             desired |-> s.desired, need |-> s.need, here |-> s.here, there |-> s.there]
    BY DEF IsPass
  <1>2. \A y : [s EXCEPT !.need = y] =
            [step |-> s.step, local |-> s.local, remote |-> s.remote,
             desired |-> s.desired, need |-> y, here |-> s.here, there |-> s.there]
    BY <1>1
  <1>3. \A y : [s EXCEPT !.here = y] =
            [step |-> s.step, local |-> s.local, remote |-> s.remote,
             desired |-> s.desired, need |-> s.need, here |-> y, there |-> s.there]
    BY <1>1
  <1>4. \A y : [s EXCEPT !.there = y] =
            [step |-> s.step, local |-> s.local, remote |-> s.remote,
             desired |-> s.desired, need |-> s.need, here |-> s.here, there |-> y]
    BY <1>1
  <1>5. \A y : [s EXCEPT !.step = y] =
            [step |-> y, local |-> s.local, remote |-> s.remote,
             desired |-> s.desired, need |-> s.need, here |-> s.here, there |-> s.there]
    BY <1>1
  <1>6. IsPass([s EXCEPT !.need = s.need \ {x}], c)
    BY <1>2 DEF IsPass
  <1>7. IsPass([s EXCEPT !.here = s.here \ {x}], c)
    BY <1>3 DEF IsPass
  <1>8. IsPass([s EXCEPT !.there = s.there \ {x}], c)
    BY <1>4 DEF IsPass
  <1>9. IsPass([s EXCEPT !.step = "apply"], c)
    BY <1>5 DEF IsPass
  <1> QED
    BY <1>6, <1>7, <1>8, <1>9

\* A pass that starts from a snapshot, and one that waits for the second
\* snapshot of the server.
LEMMA NewPass ==
    ASSUME NEW c, NEW S, IsIndex(S), AllBelow(S, c)
    PROVE  /\ IsPass([Idle EXCEPT !.step = "fetch", !.local = S], c)
           /\ IsPass([Idle EXCEPT !.step = "verify"], c)
  <1>1. /\ IsPass(Idle, c)
        /\ Idle = [step |-> "idle", local |-> Empty, remote |-> Empty, desired |-> Empty,
                   need |-> {}, here |-> {}, there |-> {}]
    BY IdleIsPass DEF Idle
  <1>2. [Idle EXCEPT !.step = "fetch", !.local = S] =
            [step |-> "fetch", local |-> S, remote |-> Empty, desired |-> Empty,
             need |-> {}, here |-> {}, there |-> {}]
    <2> DEFINE s == [Idle EXCEPT !.step = "fetch"]
    <2>1. s = [step |-> "fetch", local |-> Empty, remote |-> Empty, desired |-> Empty,
               need |-> {}, here |-> {}, there |-> {}]
      BY DEF Idle
    <2>2. [Idle EXCEPT !.step = "fetch", !.local = S] = [s EXCEPT !.local = S]
      OBVIOUS
    <2> HIDE DEF s
    <2> QED
      BY <2>1, <2>2
  <1>3. [Idle EXCEPT !.step = "verify"] =
            [step |-> "verify", local |-> Empty, remote |-> Empty, desired |-> Empty,
             need |-> {}, here |-> {}, there |-> {}]
    BY DEF Idle
  <1>4. IsIndex(Empty) /\ AllBelow(Empty, c)
    BY <1>1 DEF IsPass
  <1>5. IsPass([Idle EXCEPT !.step = "fetch", !.local = S], c)
    BY <1>2, <1>4 DEF IsPass
  <1>6. IsPass([Idle EXCEPT !.step = "verify"], c)
    BY <1>3, <1>4 DEF IsPass
  <1> QED
    BY <1>5, <1>6

\* The plan is a pass.
LEMMA PlanIsPass ==
    ASSUME NEW c \in [Replica -> Nat], NEW L, NEW R, IsIndex(L), IsIndex(R),
           AllBelow(L, c), AllBelow(R, c)
    PROVE  IsPass(Plan(L, R, MergeSnapshots(L, R)), c)
  <1> DEFINE M == MergeSnapshots(L, R)
             here == ActionsToReach(L, M)
             there == ActionsToReach(R, M)
             need == Required(M, here \cup there)
  <1>1. IsIndex(M) /\ AllBelow(M, c)
    BY MergeIsIndex
  <1>2. here \subseteq DOMAIN M /\ there \subseteq DOMAIN M
    BY DEF ActionsToReach
  <1>3. need \subseteq Content
    <2>1. \A p \in DOMAIN M : M[p].content \in Content \cup {Directory}
      BY <1>1 DEF IsIndex, IsSnapshot, Record
    <2> HIDE DEF M, here, there
    <2> QED
      BY <1>2, <2>1 DEF Required, LiveFile
  <1>4. Plan(L, R, M) = [step |-> "stage", local |-> L, remote |-> R, desired |-> M,
                         need |-> need, here |-> here, there |-> there]
    BY DEF Plan
  <1> HIDE DEF M, here, there, need
  <1>5. IsPass(Plan(L, R, M), c)
    BY <1>1, <1>2, <1>3, <1>4 DEF IsPass
  <1> QED
    BY <1>5 DEF M

LEMMA ServerAndClients == Server \in Replica /\ Client \subseteq Replica
  BY ReplicasAssumption DEF Client

LEMMA BeginSafe ==
    ASSUME ReplicasInv, NEW c \in Client, Begin(c)
    PROVE  ReplicasInv'
  <1>1. PICK root \in Scan(c) :
            /\ Becomes(c, root)
            /\ Goto(c, [Idle EXCEPT !.step = "fetch", !.local = root.index])
    BY DEF Begin
  <1>2. c \in Replica /\ IsRoot(c, root)
    BY ServerAndClients, ScanSafe
  <1>3. IsPass([Idle EXCEPT !.step = "fetch", !.local = root.index], counter')
    BY <1>1, <1>2, BecomesGrows, NewPass DEF IsRoot
  <1> QED
    BY <1>1, <1>2, <1>3, BecomesSafe DEF Begin, Goto, PassOnly

LEMMA FetchSafe ==
    ASSUME ReplicasInv, NEW c \in Client, Fetch(c)
    PROVE  ReplicasInv'
  <1> DEFINE L == session[c].local
  <1>1. PICK root \in Scan(Server) : 
            /\ Becomes(Server, root)
            /\ \E remote \in {FetchSnapshot(L, root.index)} :
               \E desired \in {MergeSnapshots(L, remote)} :
                \/ Goto(c, Plan(L, remote, desired))
                \/ Goto(c, Idle)
    BY DEF Fetch
  <1>2. Server \in Replica /\ IsRoot(Server, root)
    BY ServerAndClients, ScanSafe
  <1>3. counter' \in [Replica -> Nat] /\ AllBelow(root.index, counter')
    BY <1>1, <1>2, BecomesGrows
  <1>4. IsIndex(L) /\ AllBelow(L, counter') /\ IsIndex(root.index)
    BY <1>1, <1>2, BecomesGrows DEF IsPass, IsRoot
  <1>5. FetchSnapshot(L, root.index) = root.index
    BY <1>4, FetchExact
  <1>6. IsPass(Plan(L, root.index, MergeSnapshots(L, root.index)), counter')
    BY <1>3, <1>4, PlanIsPass
  <1>7. \/ Goto(c, Plan(L, root.index, MergeSnapshots(L, root.index)))
        \/ Goto(c, Idle)
    BY <1>1, <1>5
  <1>8. edits' = edits /\ failures' = failures /\ owed' = owed
    BY DEF Fetch, PassOnly
  <1> QED
    BY <1>1, <1>2, <1>6, <1>7, <1>8, IdleIsPass, BecomesSafe DEF Goto

LEMMA StageLocalSafe ==
    ASSUME ReplicasInv, NEW c \in Client, StageLocal(c)
    PROVE  ReplicasInv'
  <1>1. PICK h \in session[c].need :
            \/ Goto(c, [session[c] EXCEPT !.need = session[c].need \ {h}])
            \/ Goto(c, Idle)
    BY DEF StageLocal
  <1>2. IsPass(session[c], counter)
    BY DEF ReplicasInv
  <1>3. UNCHANGED replicas /\ edits' = edits /\ failures' = failures /\ owed' = owed
    BY DEF StageLocal, PassOnly
  <1>4. failures' \in 0 .. MaxFailures
    BY <1>3 DEF ReplicasInv
  <1> QED
    BY <1>1, <1>2, <1>3, <1>4, PassChanges, IdleIsPass, GotoSafe

LEMMA StageRemoteSafe ==
    ASSUME ReplicasInv, NEW c \in Client, StageRemote(c)
    PROVE  ReplicasInv'
  <1>1. PICK root \in Scan(Server) :
            /\ Becomes(Server, root)
            /\ \E h \in session[c].need :
                \/ Goto(c, [session[c] EXCEPT !.need = session[c].need \ {h}])
                \/ Goto(c, Idle)
    BY DEF StageRemote
  <1>2. Server \in Replica /\ IsRoot(Server, root)
    BY ServerAndClients, ScanSafe
  <1>3. IsPass(session[c], counter')
    BY <1>1, <1>2, BecomesGrows
  <1>4. PICK s : IsPass(s, counter') /\ Goto(c, s)
    BY <1>1, <1>3, PassChanges, IdleIsPass
  <1> QED
    BY <1>1, <1>2, <1>4, BecomesSafe DEF StageRemote, Goto, PassOnly

LEMMA CheckSafe ==
    ASSUME ReplicasInv, NEW c \in Client, Check(c)
    PROVE  ReplicasInv'
  <1>1. PICK root \in Scan(c) :
            /\ Becomes(c, root)
            /\ \/ Goto(c, [session[c] EXCEPT !.step = "apply"])
               \/ Goto(c, Idle)
    BY DEF Check
  <1>2. c \in Replica /\ IsRoot(c, root)
    BY ServerAndClients, ScanSafe
  <1>3. IsPass(session[c], counter')
    BY <1>1, <1>2, BecomesGrows
  <1>4. PICK s : IsPass(s, counter') /\ Goto(c, s)
    BY <1>1, <1>3, PassChanges, IdleIsPass
  <1> QED
    BY <1>1, <1>2, <1>4, BecomesSafe DEF Check, Goto, PassOnly

\* A root as it is.
LEMMA OwnRoot ==
    ASSUME ReplicasInv, NEW n \in Replica
    PROVE  IsRoot(n, Root(disk[n], index[n], counter[n]))
  <1>1. [counter EXCEPT ![n] = counter[n]] = counter /\ counter[n] \in Nat
    BY DEF ReplicasInv
  <1>2. IsDisk(disk[n]) /\ IsIndex(index[n]) /\ AllBelow(index[n], counter)
    BY DEF ReplicasInv
  <1>3. counter[n] <= counter[n]
    BY <1>1
  <1> QED
    BY <1>1, <1>2, <1>3 DEF IsRoot, Root

\* The record a plan has at a path.
LEMMA DesiredRecord ==
    ASSUME ReplicasInv, NEW c \in Client, NEW p \in DOMAIN session[c].desired
    PROVE  /\ IsPath(p)
           /\ session[c].desired[p] \in Record
           /\ Below(session[c].desired[p].version, counter)
  BY DEF ReplicasInv, IsPass, IsIndex, IsSnapshot, AllBelow

LEMMA ApplySafe ==
    ASSUME ReplicasInv, NEW c \in Client, Apply(c)
    PROVE  ReplicasInv'
  <1> DEFINE s == session[c]
             root == Root(disk[c], index[c], counter[c])
  <1>1. PICK p \in NextOf(s.desired, s.here) :
            \/ Goto(c, Idle) /\ UNCHANGED replicas
            \/ /\ Installable(root, p, s.desired[p])
               /\ Goto(c, [s EXCEPT !.here = s.here \ {p}])
               /\ Becomes(c, Install(root, p, s.desired[p]))
    BY DEF Apply
  <1>2. edits' = edits /\ failures' = failures /\ owed' = owed
    BY DEF Apply, PassOnly
  <1>3. failures' \in 0 .. MaxFailures
    BY <1>2 DEF ReplicasInv
  <1>4. CASE Goto(c, Idle) /\ UNCHANGED replicas
    BY <1>2, <1>3, <1>4, IdleIsPass, GotoSafe
  <1>5. CASE /\ Installable(root, p, s.desired[p])
             /\ Goto(c, [s EXCEPT !.here = s.here \ {p}])
             /\ Becomes(c, Install(root, p, s.desired[p]))
    <2>1. c \in Replica /\ IsRoot(c, root)
      BY ServerAndClients, OwnRoot
    <2>2. p \in DOMAIN s.desired
      BY DEF NextOf, ReplicasInv, IsPass
    <2>3. IsRoot(c, Install(root, p, s.desired[p]))
      BY <1>5, <2>1, <2>2, DesiredRecord, InstallSafe
    <2>4. IsPass(s, counter')
      BY <1>5, <2>1, <2>3, BecomesGrows
    <2>5. IsPass([s EXCEPT !.here = s.here \ {p}], counter')
      BY <2>4, PassChanges
    <2> HIDE DEF s, root
    <2> QED
      BY <1>2, <1>5, <2>1, <2>3, <2>5, BecomesSafe DEF Goto
  <1> QED
    BY <1>1, <1>4, <1>5

LEMMA PushSafe ==
    ASSUME ReplicasInv, NEW c \in Client, Push(c)
    PROVE  ReplicasInv'
  <1> DEFINE s == session[c]
  <1>1. PICK p \in SentNext(c), root \in Scan(Server) :
            \/ Goto(c, Idle) /\ UNCHANGED replicas
            \/ Goto(c, Idle) /\ Becomes(Server, root)
            \/ /\ Accepts(root, p, s.desired[p])
               /\ Goto(c, [s EXCEPT !.there = s.there \ {p}])
               /\ Becomes(Server, Install(root, p, s.desired[p]))
    BY DEF Push
  <1>2. edits' = edits /\ failures' = failures /\ owed' = owed
    BY DEF Push, PassOnly
  <1>3. failures' \in 0 .. MaxFailures
    BY <1>2 DEF ReplicasInv
  <1>4. Server \in Replica /\ IsRoot(Server, root)
    BY ServerAndClients, ScanSafe
  <1>5. CASE Goto(c, Idle) /\ UNCHANGED replicas
    BY <1>2, <1>3, <1>5, IdleIsPass, GotoSafe
  <1>6. CASE Goto(c, Idle) /\ Becomes(Server, root)
    BY <1>2, <1>4, <1>6, IdleIsPass, BecomesSafe DEF Goto
  <1>7. CASE /\ Accepts(root, p, s.desired[p])
             /\ Goto(c, [s EXCEPT !.there = s.there \ {p}])
             /\ Becomes(Server, Install(root, p, s.desired[p]))
    <2>1. p \in DOMAIN s.desired
      BY DEF SentNext, NextOf, ReplicasInv, IsPass
    <2>2. Installable(root, p, s.desired[p])
      BY <1>7 DEF Accepts
    <2>3. IsRoot(Server, Install(root, p, s.desired[p]))
      BY <1>4, <2>1, <2>2, DesiredRecord, InstallSafe
    <2>4. IsPass(s, counter')
      BY <1>4, <1>7, <2>3, BecomesGrows
    <2>5. IsPass([s EXCEPT !.there = s.there \ {p}], counter')
      BY <2>4, PassChanges
    <2> HIDE DEF s
    <2> QED
      BY <1>2, <1>4, <1>7, <2>3, <2>5, BecomesSafe DEF Goto
  <1> QED
    BY <1>1, <1>5, <1>6, <1>7

LEMMA VerifySafe ==
    ASSUME ReplicasInv, NEW c \in Client, VerifyLocal(c) \/ VerifyRemote(c)
    PROVE  ReplicasInv'
  <1>1. \E n \in {c, Server} : \E root \in Scan(n) :
            /\ Becomes(n, root)
            /\ Goto(c, Idle) \/ Goto(c, [Idle EXCEPT !.step = "verify"])
    <2>1. CASE VerifyLocal(c)
      <3>1. \E root \in Scan(c) :
                /\ Becomes(c, root)
                /\ Goto(c, Idle) \/ Goto(c, [Idle EXCEPT !.step = "verify"])
        BY <2>1 DEF VerifyLocal
      <3> QED
        BY <3>1
    <2>2. CASE VerifyRemote(c)
      <3>1. \E root \in Scan(Server) : Becomes(Server, root) /\ Goto(c, Idle)
        BY <2>2 DEF VerifyRemote
      <3> QED
        BY <3>1
    <2> QED
      BY <2>1, <2>2
  <1>2. PICK n \in {c, Server} : \E root \in Scan(n) :
            /\ Becomes(n, root)
            /\ Goto(c, Idle) \/ Goto(c, [Idle EXCEPT !.step = "verify"])
    BY <1>1
  <1>6. PICK root \in Scan(n) :
            /\ Becomes(n, root)
            /\ Goto(c, Idle) \/ Goto(c, [Idle EXCEPT !.step = "verify"])
    BY <1>2
  <1>3. n \in Replica /\ IsRoot(n, root)
    BY ServerAndClients, ScanSafe
  <1>4. IsPass(Idle, counter') /\ IsPass([Idle EXCEPT !.step = "verify"], counter')
    <2>1. IsPass(Idle, counter')
      BY IdleIsPass
    <2>2. IsIndex(Idle.local) /\ AllBelow(Idle.local, counter')
      BY <2>1 DEF IsPass
    <2> QED
      BY <2>1, <2>2, NewPass
  <1>5. edits' = edits /\ failures' = failures /\ owed' = owed
    BY DEF VerifyLocal, VerifyRemote, PassOnly
  <1> QED
    BY <1>3, <1>4, <1>5, <1>6, BecomesSafe DEF Goto

LEMMA FailSafe ==
    ASSUME ReplicasInv, NEW c \in Client, Fail(c)
    PROVE  ReplicasInv'
  <1>1. failures' \in 0 .. MaxFailures
    BY ReplicasAssumption DEF Fail, ReplicasInv
  <1> QED
    BY <1>1, IdleIsPass, GotoSafe DEF Fail

-----------------------------------------------------------------------------
(* Users. *)

LEMMA EditSafe ==
    ASSUME ReplicasInv, NEW n \in Replica, NEW f, IsDisk(f),
           NEW given, given \subseteq Content, NEW taken, Edit(n, f, given, taken)
    PROVE  ReplicasInv'
  <1>1. DOMAIN disk' = Replica /\ \A m \in Replica : disk'[m] = IF m = n THEN f ELSE disk[m]
    BY DEF Edit, ReplicasInv
  <1>2. index' = index /\ counter' = counter /\ session' = session /\ failures' = failures
    BY DEF Edit
  <1>3. edits' \in 0 .. MaxEdits
    BY ReplicasAssumption DEF Edit, ReplicasInv
  <1>4. owed' \subseteq Content
    BY DEF Edit, ReplicasInv
  <1>5. \A m \in Replica : IsDisk(disk'[m])
    BY <1>1 DEF ReplicasInv
  <1> QED
    BY <1>1, <1>2, <1>3, <1>4, <1>5 DEF ReplicasInv

\* Users edit at paths.
LEMMA UserPaths == \A p \in Path : IsPath(p)
  BY ReplicasAssumption DEF IsPath

LEMMA UserSafe ==
    ASSUME ReplicasInv, NEW n \in Replica, User(n)
    PROVE  ReplicasInv'
  <1> DEFINE f == disk[n]
  <1>1. IsDisk(f)
    BY DEF ReplicasInv
  <1>2. PICK p \in Path :
            \/ \E v \in Content : Write(n, p, v)
            \/ MakeDirectory(n, p)
            \/ Delete(n, p)
            \/ \E q \in Path : Move(n, p, q)
    BY DEF User
  <1>3. IsPath(p)
    BY UserPaths
  <1> HIDE DEF f
  <1>4. ASSUME NEW v \in Content, Write(n, p, v)
        PROVE  ReplicasInv'
    <2> DEFINE e == NewEntry(v)
    <2>1. e.content = v
      BY DEF NewEntry, Entry
    <2>2. \A q \in DOMAIN f : p \notin Ancestors(q)
      BY <1>1, <1>4, NothingBelow DEF Write, f
    <2> HIDE DEF e
    <2>3. IsDisk(Put(f, p, e))
      BY <1>1, <1>3, <1>4, <2>1, <2>2, PutDisk DEF Write, f
    <2> QED
      BY <1>4, <2>3, EditSafe DEF Write, f, e
  <1>5. CASE MakeDirectory(n, p)
    <2> DEFINE e == NewEntry(Directory)
    <2>1. e.content = Directory
      BY DEF NewEntry, Entry
    <2> HIDE DEF e
    <2>2. IsDisk(Put(f, p, e))
      BY <1>1, <1>3, <1>5, <2>1, PutDisk DEF MakeDirectory, f
    <2> QED
      BY <1>5, <2>2, EditSafe DEF MakeDirectory, f, e
  <1>6. CASE Delete(n, p)
    <2> DEFINE gone == Tree(p, f)
    <2>1. ASSUME NEW q \in DOMAIN f \ gone
          PROVE  Ancestors(q) \cap gone = {}
      <3>1. IsPath(q) /\ q # p /\ p \notin Ancestors(q)
        BY <1>1 DEF IsDisk, Tree
      <3>2. \A a \in Ancestors(q) : a # p /\ p \notin Ancestors(a)
        BY <3>1, AncestorFacts
      <3> QED
        BY <3>2 DEF Tree
    <2>2. IsDisk(Without(f, gone))
      <3> HIDE DEF gone
      <3> QED
        BY <1>1, <2>1, WithoutDisk
    <2> QED
      BY <1>6, <2>2, EditSafe DEF Delete, f
  <1>7. ASSUME NEW q \in Path, Move(n, p, q)
        PROVE  ReplicasInv'
    <2> DEFINE g == Without(f, {p})
    <2>1. /\ p \in DOMAIN f /\ p # q /\ HasParent(f, q)
          /\ f[p].content # Directory
          /\ q \in DOMAIN f => f[q].content # Directory
      BY <1>7 DEF Move, f
    <2>2. f[p].content \in Content
      BY <1>1, <2>1 DEF IsDisk
    <2>3. \A x \in DOMAIN f : p \notin Ancestors(x) /\ q \notin Ancestors(x)
      BY <1>1, <2>1, NothingBelow
    <2>4. DOMAIN g = DOMAIN f \ {p} /\ \A x \in DOMAIN g : g[x] = f[x]
      BY DEF Without
    <2>5. IsDisk(g)
      <3>1. \A x \in DOMAIN f \ {p} : Ancestors(x) \cap {p} = {}
        BY <2>3
      <3> QED
        BY <1>1, <3>1, WithoutDisk
    <2> HIDE DEF g
    <2>6. HasParent(g, q)
      BY <2>1, <2>4 DEF HasParent
    <2>7. IsPath(q)
      BY UserPaths
    <2>8. IsDisk(Put(g, q, f[p]))
      BY <2>2, <2>3, <2>4, <2>5, <2>6, <2>7, PutDisk
    <2> QED
      BY <1>7, <2>2, <2>8, EditSafe DEF Move, f, g
  <1> QED
    BY <1>2, <1>4, <1>5, <1>6, <1>7

-----------------------------------------------------------------------------
(* The invariants. *)

LEMMA NextSafe == ReplicasInv /\ [Next]_vars => ReplicasInv'
  <1> SUFFICES ASSUME ReplicasInv, [Next]_vars
               PROVE  ReplicasInv'
    OBVIOUS
  <1>1. ASSUME NEW c \in Client, Pass(c)
        PROVE  ReplicasInv'
    BY <1>1, BeginSafe, FetchSafe, StageLocalSafe, StageRemoteSafe, CheckSafe, ApplySafe,
       PushSafe, VerifySafe DEF Pass
  <1>2. CASE UNCHANGED vars
    BY <1>2 DEF vars, ReplicasInv
  <1> QED
    BY <1>1, <1>2, FailSafe, UserSafe DEF Next

LEMMA ReplicasSafe == Spec => []ReplicasInv
  BY InitSafe, NextSafe, PTL DEF Spec

\* The roots, the indexes and the passes of the server and its clients keep
\* their shape: every disk is a tree, every index a snapshot of records.
THEOREM ReplicasTypeCorrect == Spec => []TypeOK
  BY ReplicasSafe, InvImplies, PTL

\* No row of any index and no plan names an event that its author has not
\* counted, so no counter is issued twice (apply_scan, adopt_verified_record,
\* merge_snapshots).
THEOREM CountersCover == Spec => []CounterCovers
  BY ReplicasSafe, InvImplies, PTL

LEMMA SnapshotsIndex == \A S \in Snapshots : IsIndex(S)
  <1> SUFFICES ASSUME NEW S \in Snapshots
               PROVE  IsIndex(S)
    OBVIOUS
  <1>1. PICK D \in SUBSET Deep : S \in [D -> {Older, Newer}]
    BY DEF Snapshots
  <1>2. DOMAIN S = D /\ S = [p \in DOMAIN S |-> S[p]]
    BY <1>1
  <1>3. \A p \in DOMAIN S : S[p] \in {Older, Newer}
    BY <1>1
  <1>4. IsFiniteSet(D)
    <2> DEFINE a == <<Name(1)>>
               b == <<Name(1), Name(1)>>
               e == <<Name(1), Name(1), Name(2)>>
               f == <<Name(2)>>
    <2>1. Deep = ((({} \cup {a}) \cup {b}) \cup {e}) \cup {f}
      BY DEF Deep
    <2> HIDE DEF a, b, e, f
    <2>2. IsFiniteSet({} \cup {a})
      BY FS_EmptySet, FS_AddElement
    <2>3. IsFiniteSet(({} \cup {a}) \cup {b})
      BY <2>2, FS_AddElement
    <2>4. IsFiniteSet((({} \cup {a}) \cup {b}) \cup {e})
      BY <2>3, FS_AddElement
    <2>5. IsFiniteSet(Deep)
      BY <2>1, <2>4, FS_AddElement
    <2> QED
      BY <2>5, FS_Subset
  <1>5. \A p \in Deep : IsPath(p)
    <2> DEFINE T == {Name(1), Name(2)}
    <2>1. \A p \in Deep : p \in Seq(T) /\ p # <<>>
      <3> DEFINE u == Name(1)
                 w == Name(2)
      <3>1. u \in T /\ w \in T
        OBVIOUS
      <3>2. Deep = {<<u>>, <<u, u>>, <<u, u, w>>, <<w>>}
        BY DEF Deep
      <3> HIDE DEF u, w, T
      <3>3. <<u>> \in Seq(T) /\ <<w>> \in Seq(T) /\ <<u, u>> \in Seq(T) /\ <<u, u, w>> \in Seq(T)
        BY <3>1
      <3>4. <<u>> # <<>> /\ <<w>> # <<>> /\ <<u, u>> # <<>> /\ <<u, u, w>> # <<>>
        OBVIOUS
      <3> QED
        BY <3>2, <3>3, <3>4
    <2> QED
      BY <2>1 DEF IsPath
  <1>6. Older \in Record /\ Newer \in Record
    <2>1. NoVersion \in VersionVector
      BY DEF NoVersion, VersionVector
    <2>2. Observe(NoVersion, Server, 1) \in VersionVector
      BY <2>1, ServerAndClients, ObserveFacts
    <2> QED
      BY <2>1, <2>2 DEF Older, Newer, Record
  <1> QED
    BY <1>1, <1>2, <1>3, <1>4, <1>5, <1>6 DEF IsIndex, IsSnapshot

\* SnapshotExact holds because FetchExact and FetchAccepted do, which speak of
\* every two indexes and not only of those the run takes.
THEOREM DescentExact == Spec => []SnapshotExact
  <1>1. SnapshotExact
    BY SnapshotsIndex, FetchExact, FetchAccepted DEF SnapshotExact
  <1> QED
    BY <1>1, PTL

-----------------------------------------------------------------------------
(* What a plan is made of, and that a client's index still is what the plan    *)
(* was made from at every path the plan has yet to change there, and is what   *)
(* the plan wants at every other path.                                         *)

PlanFits(s, i) ==
    /\ s.step = "fetch" => s.local = i
    /\ s.step \in {"stage", "apply"} => s.desired = MergeSnapshots(s.local, s.remote)
    /\ s.step = "stage" => s.here = ActionsToReach(s.local, s.desired)
    /\ s.step = "apply" =>
        /\ \A p \in s.here \cap DOMAIN i : p \in DOMAIN s.local /\ i[p] = s.local[p]
        /\ \A p \in DOMAIN s.desired \ s.here : p \in DOMAIN i /\ i[p] = s.desired[p]

PlansFit == \A c \in Client : PlanFits(session[c], index[c])

\* A step of client c, at its own root or at the server.
LEMMA PlansFitStep ==
    ASSUME ReplicasInv, PlansFit, NEW c \in Client, NEW s, Goto(c, s),
           PlanFits(s, index'[c]), \A d \in Client \ {c} : index'[d] = index[d]
    PROVE  PlansFit'
  <1>1. \A d \in Client : session'[d] = IF d = c THEN s ELSE session[d]
    BY DEF Goto, ReplicasInv
  <1> QED
    BY <1>1 DEF PlansFit

LEMMA OthersKept ==
    ASSUME ReplicasInv, NEW n \in Replica, NEW root, Becomes(n, root)
    PROVE  /\ index'[n] = root.index
           /\ \A m \in Replica \ {n} : index'[m] = index[m]
  BY DEF ReplicasInv, Becomes

LEMMA IdleFits ==
    ASSUME NEW i
    PROVE  PlanFits(Idle, i) /\ PlanFits([Idle EXCEPT !.step = "verify"], i)
  <1>1. Idle.step = "idle" /\ [Idle EXCEPT !.step = "verify"].step = "verify"
    BY DEF Idle
  <1> QED
    BY <1>1 DEF PlanFits

\* The fields of a pass that a step leaves alone.
LEMMA FieldsKept ==
    ASSUME NEW c, NEW s, IsPass(s, c), NEW y
    PROVE  /\ [s EXCEPT !.need = y].step = s.step
           /\ [s EXCEPT !.need = y].local = s.local
           /\ [s EXCEPT !.need = y].remote = s.remote
           /\ [s EXCEPT !.need = y].desired = s.desired
           /\ [s EXCEPT !.need = y].here = s.here
           /\ [s EXCEPT !.there = y].step = s.step
           /\ [s EXCEPT !.there = y].local = s.local
           /\ [s EXCEPT !.there = y].remote = s.remote
           /\ [s EXCEPT !.there = y].desired = s.desired
           /\ [s EXCEPT !.there = y].here = s.here
           /\ [s EXCEPT !.here = y].step = s.step
           /\ [s EXCEPT !.here = y].local = s.local
           /\ [s EXCEPT !.here = y].remote = s.remote
           /\ [s EXCEPT !.here = y].desired = s.desired
           /\ [s EXCEPT !.here = y].here = y
           /\ [s EXCEPT !.step = y].step = y
           /\ [s EXCEPT !.step = y].local = s.local
           /\ [s EXCEPT !.step = y].remote = s.remote
           /\ [s EXCEPT !.step = y].desired = s.desired
           /\ [s EXCEPT !.step = y].here = s.here
  <1>1. s = [step |-> s.step, local |-> s.local, remote |-> s.remote,
             desired |-> s.desired, need |-> s.need, here |-> s.here, there |-> s.there]
    BY DEF IsPass
  <1>2. DOMAIN s = {"step", "local", "remote", "desired", "need", "here", "there"}
    BY <1>1
  <1> QED
    BY <1>2

LEMMA PassFits ==
    ASSUME ReplicasInv, PlansFit, NEW c \in Client, Pass(c)
    PROVE  PlansFit'
  <1> DEFINE s == session[c]
  <1>1. IsPass(s, counter) /\ PlanFits(s, index[c])
    BY DEF ReplicasInv, PlansFit
  <1>2. /\ c \in Replica /\ Server \in Replica /\ c # Server
        /\ \A d \in Client : d \in Replica /\ d # Server
    BY ServerAndClients DEF Client
  <1>3. ASSUME UNCHANGED replicas
        PROVE  index' = index
    BY <1>3 DEF replicas
  <1> HIDE DEF s
  <1>4. CASE Begin(c)
    <2>1. PICK root \in Scan(c) :
              /\ Becomes(c, root)
              /\ Goto(c, [Idle EXCEPT !.step = "fetch", !.local = root.index])
      BY <1>4 DEF Begin
    <2>2. /\ [Idle EXCEPT !.step = "fetch", !.local = root.index].step = "fetch"
          /\ [Idle EXCEPT !.step = "fetch", !.local = root.index].local = root.index
      BY DEF Idle
    <2>3. index'[c] = root.index
      BY <1>2, <2>1, OthersKept
    <2>4. PlanFits([Idle EXCEPT !.step = "fetch", !.local = root.index], index'[c])
      BY <2>2, <2>3 DEF PlanFits
    <2> QED
      BY <1>2, <2>1, <2>4, OthersKept, PlansFitStep
  <1>5. CASE Fetch(c)
    <2>1. PICK root \in Scan(Server) :
              /\ Becomes(Server, root)
              /\ \E remote \in {FetchSnapshot(s.local, root.index)} :
                 \E desired \in {MergeSnapshots(s.local, remote)} :
                  \/ Goto(c, Plan(s.local, remote, desired))
                  \/ Goto(c, Idle)
      BY <1>5 DEF Fetch, s
    <2>2. \A remote : PlanFits(Plan(s.local, remote, MergeSnapshots(s.local, remote)), index'[c])
      BY DEF Plan, PlanFits
    <2>3. PICK t : Goto(c, t) /\ PlanFits(t, index'[c])
      BY <2>1, <2>2, IdleFits
    <2> QED
      BY <1>2, <2>1, <2>3, OthersKept, PlansFitStep
  <1>6. CASE StageLocal(c)
    <2>1. PICK h : \/ Goto(c, [s EXCEPT !.need = s.need \ {h}])
                   \/ Goto(c, Idle)
      BY <1>6 DEF StageLocal, s
    <2>2. index' = index
      BY <1>3, <1>6 DEF StageLocal
    <2>3. PlanFits([s EXCEPT !.need = s.need \ {h}], index[c])
      BY <1>1, FieldsKept DEF PlanFits
    <2> QED
      BY <2>1, <2>2, <2>3, IdleFits, PlansFitStep
  <1>7. CASE StageRemote(c)
    <2>1. PICK root \in Scan(Server) :
              /\ Becomes(Server, root)
              /\ \E h \in s.need :
                  \/ Goto(c, [s EXCEPT !.need = s.need \ {h}])
                  \/ Goto(c, Idle)
      BY <1>7 DEF StageRemote, s
    <2>2. index'[c] = index[c]
      BY <1>2, <2>1, OthersKept
    <2>3. \A h : PlanFits([s EXCEPT !.need = s.need \ {h}], index[c])
      BY <1>1, FieldsKept DEF PlanFits
    <2>4. PICK t : Goto(c, t) /\ PlanFits(t, index'[c])
      BY <2>1, <2>2, <2>3, IdleFits
    <2> QED
      BY <1>2, <2>1, <2>4, OthersKept, PlansFitStep
  <1>8. CASE Check(c)
    <2>1. PICK root \in Scan(c) :
              /\ Becomes(c, root)
              /\ \/ root.index = s.local /\ Goto(c, [s EXCEPT !.step = "apply"])
                 \/ Goto(c, Idle)
      BY <1>8 DEF Check, s
    <2>2. index'[c] = root.index
      BY <1>2, <2>1, OthersKept
    <2>3. s.step = "stage"
      BY <1>8 DEF Check, AtStep, s
    <2>4. root.index = s.local => PlanFits([s EXCEPT !.step = "apply"], index'[c])
      BY <1>1, <2>2, <2>3, FieldsKept DEF PlanFits, ActionsToReach
    <2>5. PICK t : Goto(c, t) /\ PlanFits(t, index'[c])
      BY <2>1, <2>4, IdleFits
    <2> QED
      BY <1>2, <2>1, <2>5, OthersKept, PlansFitStep
  <1>9. CASE Apply(c)
    <2> DEFINE root == Root(disk[c], index[c], counter[c])
    <2>1. PICK p \in s.here :
              \/ Goto(c, Idle) /\ UNCHANGED replicas
              \/ /\ Goto(c, [s EXCEPT !.here = s.here \ {p}])
                 /\ Becomes(c, Install(root, p, s.desired[p]))
      BY <1>9 DEF Apply, NextOf, s
    <2>2. CASE Goto(c, Idle) /\ UNCHANGED replicas
      BY <1>3, <2>2, IdleFits, PlansFitStep
    <2>3. CASE /\ Goto(c, [s EXCEPT !.here = s.here \ {p}])
               /\ Becomes(c, Install(root, p, s.desired[p]))
      <3>1. Install(root, p, s.desired[p]).index = Put(index[c], p, s.desired[p])
        BY DEF Install, Root
      <3>2. /\ index'[c] = Put(index[c], p, s.desired[p])
            /\ \A m \in Replica \ {c} : index'[m] = index[m]
        <4> HIDE DEF root
        <4> QED
          BY <1>2, <2>3, <3>1, OthersKept
      <3>3. \A q \in DOMAIN index'[c] \ {p} : q \in DOMAIN index[c] /\ index'[c][q] = index[c][q]
        BY <3>2 DEF Put
      <3>4. /\ DOMAIN index'[c] = DOMAIN index[c] \cup {p} /\ index'[c][p] = s.desired[p]
            /\ \A q \in DOMAIN index[c] \ {p} : index'[c][q] = index[c][q]
        BY <3>2 DEF Put
      <3>5. s.step = "apply"
        BY <1>9 DEF Apply, AtStep, s
      <3>6. PlanFits([s EXCEPT !.here = s.here \ {p}], index'[c])
        BY <1>1, <3>3, <3>4, <3>5, FieldsKept DEF PlanFits
      <3> QED
        BY <1>2, <2>3, <3>2, <3>6, PlansFitStep
    <2> QED
      BY <2>1, <2>2, <2>3
  <1>10. CASE Push(c)
    <2>1. \/ index' = index /\ Goto(c, Idle)
          \/ \E root : Becomes(Server, root) /\ Goto(c, Idle)
          \/ \E p, root : /\ Becomes(Server, root)
                          /\ Goto(c, [s EXCEPT !.there = s.there \ {p}])
      BY <1>3, <1>10 DEF Push, s
    <2>2. CASE index' = index /\ Goto(c, Idle)
      BY <2>2, IdleFits, PlansFitStep
    <2>3. ASSUME NEW root, Becomes(Server, root), Goto(c, Idle)
          PROVE  PlansFit'
      BY <1>2, <2>3, OthersKept, IdleFits, PlansFitStep
    <2>4. ASSUME NEW root, NEW p, Becomes(Server, root),
                 Goto(c, [s EXCEPT !.there = s.there \ {p}])
          PROVE  PlansFit'
      <3>1. \A d \in Client : index'[d] = index[d]
        BY <1>2, <2>4, OthersKept
      <3>2. PlanFits([s EXCEPT !.there = s.there \ {p}], index[c])
        BY <1>1, FieldsKept DEF PlanFits
      <3> QED
        BY <2>4, <3>1, <3>2, PlansFitStep
    <2> QED
      BY <2>1, <2>2, <2>3, <2>4
  <1>11. CASE VerifyLocal(c)
    <2>1. PICK root \in Scan(c) :
              /\ Becomes(c, root)
              /\ Goto(c, Idle) \/ Goto(c, [Idle EXCEPT !.step = "verify"])
      BY <1>11 DEF VerifyLocal
    <2> QED
      BY <1>2, <2>1, OthersKept, IdleFits, PlansFitStep
  <1>12. CASE VerifyRemote(c)
    <2>1. PICK root \in Scan(Server) : Becomes(Server, root) /\ Goto(c, Idle)
      BY <1>12 DEF VerifyRemote
    <2> QED
      BY <1>2, <2>1, OthersKept, IdleFits, PlansFitStep
  <1> QED
    BY <1>4, <1>5, <1>6, <1>7, <1>8, <1>9, <1>10, <1>11, <1>12 DEF Pass

LEMMA PlansFitAlways == Spec => []PlansFit
  <1>1. Init => PlansFit
    BY IdleFits DEF Init, PlansFit
  <1>2. ReplicasInv /\ PlansFit /\ [Next]_vars => PlansFit'
    <2> SUFFICES ASSUME ReplicasInv, PlansFit, [Next]_vars
                 PROVE  PlansFit'
      OBVIOUS
    <2>1. ASSUME NEW c \in Client, Fail(c)
          PROVE  PlansFit'
      BY <2>1, IdleFits, PlansFitStep DEF Fail, replicas
    <2>2. ASSUME NEW n \in Replica, User(n)
          PROVE  PlansFit'
      <3>1. session' = session /\ index' = index
        BY <2>2 DEF User, Write, MakeDirectory, Delete, Move, Edit
      <3> QED
        BY <3>1 DEF PlansFit
    <2>3. CASE UNCHANGED vars
      BY <2>3 DEF vars, PlansFit
    <2> QED
      BY <2>1, <2>2, <2>3, PassFits DEF Next
  <1> QED
    BY <1>1, <1>2, ReplicasSafe, PTL DEF Spec

-----------------------------------------------------------------------------
(* Knowledge. *)

\* v is known to whoever knows w.
Known(v, w) == Relation(v, w) \in {"Before", "Equal"}

LEMMA KnownMeaning ==
    ASSUME NEW v \in VersionVector, NEW w \in VersionVector
    PROVE  Known(v, w) <=> \A k \in Clock : v[k] <= w[k]
  <1>1. Known(v, w) <=> ~ \E k \in Clock : v[k] > w[k]
    BY RelationMeaning DEF Known
  <1> QED
    BY <1>1 DEF VersionVector

LEMMA KnownTransitive ==
    ASSUME NEW u \in VersionVector, NEW v \in VersionVector, NEW w \in VersionVector,
           Known(u, v), Known(v, w)
    PROVE  Known(u, w)
  <1>1. \A k \in Clock : /\ u[k] <= v[k] /\ v[k] <= w[k]
                         /\ u[k] \in Nat /\ v[k] \in Nat /\ w[k] \in Nat
    BY KnownMeaning DEF VersionVector
  <1>2. \A k \in Clock : u[k] <= w[k]
    BY <1>1
  <1> QED
    BY <1>2, KnownMeaning

\* Nothing the index i has is forgotten in j.
Remembers(i, j) ==
    \A p \in DOMAIN i : p \in DOMAIN j /\ Known(i[p].version, j[p].version)

LEMMA RemembersItself ==
    ASSUME NEW i, IsIndex(i)
    PROVE  Remembers(i, i)
  <1> SUFFICES ASSUME NEW p \in DOMAIN i
               PROVE  Known(i[p].version, i[p].version)
    BY DEF Remembers
  <1>1. i[p].version \in VersionVector
    BY DEF IsIndex, IsSnapshot, Record
  <1>2. \A k \in Clock : i[p].version[k] <= i[p].version[k]
    BY <1>1 DEF VersionVector
  <1> QED
    BY <1>1, <1>2, KnownMeaning

LEMMA RemembersTransitive ==
    ASSUME NEW i, NEW j, NEW k, IsIndex(i), IsIndex(j), IsIndex(k),
           Remembers(i, j), Remembers(j, k)
    PROVE  Remembers(i, k)
  <1> SUFFICES ASSUME NEW p \in DOMAIN i
               PROVE  p \in DOMAIN k /\ Known(i[p].version, k[p].version)
    BY DEF Remembers
  <1>1. p \in DOMAIN j /\ p \in DOMAIN k
    BY DEF Remembers
  <1>2. /\ i[p].version \in VersionVector /\ j[p].version \in VersionVector
        /\ k[p].version \in VersionVector
    BY <1>1 DEF IsIndex, IsSnapshot, Record
  <1>3. Known(i[p].version, j[p].version) /\ Known(j[p].version, k[p].version)
    BY <1>1 DEF Remembers
  <1> QED
    BY <1>1, <1>2, <1>3, KnownTransitive

\* A record that is admitted over a row is put in its place.
LEMMA PutRemembers ==
    ASSUME NEW i, IsIndex(i), NEW p, NEW r, p \in DOMAIN i => Admits(i[p], r)
    PROVE  Remembers(i, Put(i, p, r))
  <1>1. DOMAIN Put(i, p, r) = DOMAIN i \cup {p}
    BY DEF Put
  <1>2. \A q \in DOMAIN i : Put(i, p, r)[q] = IF q = p THEN r ELSE i[q]
    BY DEF Put
  <1>3. \A q \in DOMAIN i : Known(i[q].version, i[q].version)
    BY RemembersItself DEF Remembers
  <1>4. p \in DOMAIN i => Known(i[p].version, r.version)
    BY DEF Admits, Known
  <1> QED
    BY <1>1, <1>2, <1>3, <1>4 DEF Remembers

\* Every entry's row is its own path's: nobody has renamed anything.
OwnRows ==
    \A n \in Replica : \A p \in DOMAIN disk[n] : disk[n][p].row \in {p, <<>>}

\* What a scan without renames may make of n's index: each row it writes has
\* one new event over the row before it, if there was one.
Ticked(n, j) ==
    /\ DOMAIN j = DOMAIN index[n] \cup DOMAIN disk[n]
    /\ \A p \in DOMAIN j :
        \/ p \in DOMAIN index[n] /\ j[p] = index[n][p]
        \/ \E v \in VersionVector, t \in Nat :
            /\ t > counter[n] /\ j[p].version = Observe(v, n, t)
            /\ \/ p \in DOMAIN index[n] /\ v = index[n][p].version
               \/ p \notin DOMAIN index[n] /\ v = NoVersion

LEMMA ScanTicks ==
    ASSUME ReplicasInv, OwnRows, NEW n \in Replica, NEW root \in Scan(n)
    PROVE  Ticked(n, root.index)
  <1>1. Scanned(n, root)
    BY ScanShape
  <1>2. IsIndex(index[n]) /\ counter[n] \in Nat /\ root.counter \in Nat
    BY <1>1 DEF ReplicasInv, Scanned
  <1>3. \A p \in DOMAIN index[n] : index[n][p].version \in VersionVector /\ IsPath(p)
    BY <1>2 DEF IsIndex, IsSnapshot, Record
  <1>4. DOMAIN root.index = DOMAIN index[n] \cup DOMAIN disk[n]
    BY <1>1 DEF Scanned
  <1>5. \A t \in counter[n] + 1 .. root.counter : t \in Nat /\ t > counter[n]
    BY <1>2
  <1>6. ASSUME NEW p \in DOMAIN disk[n], NEW t \in counter[n] + 1 .. root.counter,
               Found(n, p, t, root.index[p])
        PROVE  \E v \in VersionVector :
                /\ root.index[p].version = Observe(v, n, t)
                /\ \/ p \in DOMAIN index[n] /\ v = index[n][p].version
                   \/ p \notin DOMAIN index[n] /\ v = NoVersion
    <2>1. PICK w \in VersionVector :
              /\ root.index[p] = [content |-> disk[n][p].content, tombstone |-> FALSE,
                                  version |-> Observe(w, n, t)]
              /\ \/ \E q \in LiveRows(index[n]) \ DOMAIN disk[n] : q = disk[n][p].row
                 \/ p \in DOMAIN index[n] /\ w = index[n][p].version
                 \/ p \notin DOMAIN index[n] /\ w = NoVersion
      BY <1>6 DEF Found
    <2>2. ~ \E q \in LiveRows(index[n]) \ DOMAIN disk[n] : q = disk[n][p].row
      <3> SUFFICES ASSUME NEW q \in LiveRows(index[n]) \ DOMAIN disk[n], q = disk[n][p].row
                   PROVE  FALSE
        OBVIOUS
      <3>1. disk[n][p].row \in {p, <<>>}
        BY DEF OwnRows
      <3>2. q = <<>> /\ IsPath(q)
        BY <1>3, <3>1 DEF LiveRows
      <3> QED
        BY <3>2 DEF IsPath
    <2> QED
      BY <2>1, <2>2
  <1>7. ASSUME NEW p \in DOMAIN index[n], NEW t, Gone(n, p, t, root.index[p])
        PROVE  root.index[p].version = Observe(index[n][p].version, n, t)
    BY <1>7 DEF Gone
  <1>8. ASSUME NEW p \in DOMAIN root.index
        PROVE  \/ p \in DOMAIN index[n] /\ root.index[p] = index[n][p]
               \/ \E v \in VersionVector, t \in Nat :
                    /\ t > counter[n] /\ root.index[p].version = Observe(v, n, t)
                    /\ \/ p \in DOMAIN index[n] /\ v = index[n][p].version
                       \/ p \notin DOMAIN index[n] /\ v = NoVersion
    <2>1. \/ p \in DOMAIN index[n] /\ root.index[p] = index[n][p]
          \/ /\ p \in DOMAIN disk[n]
             /\ \E t \in counter[n] + 1 .. root.counter : Found(n, p, t, root.index[p])
          \/ /\ p \in DOMAIN index[n]
             /\ \E t \in counter[n] + 1 .. root.counter : Gone(n, p, t, root.index[p])
      BY <1>1 DEF Scanned
    <2>2. CASE /\ p \in DOMAIN disk[n]
               /\ \E t \in counter[n] + 1 .. root.counter : Found(n, p, t, root.index[p])
      BY <1>5, <1>6, <2>2
    <2>3. CASE /\ p \in DOMAIN index[n]
               /\ \E t \in counter[n] + 1 .. root.counter : Gone(n, p, t, root.index[p])
      BY <1>3, <1>5, <1>7, <2>3
    <2> QED
      BY <2>1, <2>2, <2>3
  <1> QED
    BY <1>4, <1>8 DEF Ticked

\* So it only adds events to what a path's row has.
LEMMA ScanRemembers ==
    ASSUME ReplicasInv, OwnRows, NEW n \in Replica, NEW root \in Scan(n)
    PROVE  Remembers(index[n], root.index)
  <1>1. Ticked(n, root.index)
    BY ScanTicks
  <1>2. IsIndex(index[n])
    BY DEF ReplicasInv
  <1> SUFFICES ASSUME NEW p \in DOMAIN index[n]
               PROVE  /\ p \in DOMAIN root.index
                      /\ Known(index[n][p].version, root.index[p].version)
    BY DEF Remembers
  <1>3. index[n][p].version \in VersionVector
    BY <1>2 DEF IsIndex, IsSnapshot, Record
  <1>4. Known(index[n][p].version, index[n][p].version)
    BY <1>2, RemembersItself DEF Remembers
  <1>5. p \in DOMAIN root.index
    BY <1>1 DEF Ticked
  <1>6. \/ root.index[p] = index[n][p]
        \/ \E t \in Nat : root.index[p].version = Observe(index[n][p].version, n, t)
    BY <1>1, <1>5 DEF Ticked
  <1>7. \A t \in Nat : Known(index[n][p].version, Observe(index[n][p].version, n, t))
    BY <1>3, ObserveFacts, KnownMeaning
  <1> QED
    BY <1>4, <1>5, <1>6, <1>7

\* The record of a plan is admitted over the row the plan started from.
LEMMA PlannedAdmitted ==
    ASSUME NEW L, NEW R, IsIndex(L), IsIndex(R), NEW p \in DOMAIN L
    PROVE  Admits(L[p], MergeSnapshots(L, R)[p])
  <1>1. MergeSnapshots(L, R)[p] = MergedAt(L, R, p)
    <2>1. p \in DOMAIN L \cup DOMAIN R
      OBVIOUS
    <2> QED
      BY <2>1, MergeShape
  <1>2. L[p] \in Record
    BY DEF IsIndex, IsSnapshot
  <1>3. CASE p \notin DOMAIN R
    <2>1. MergedAt(L, R, p) = L[p]
      BY <1>3 DEF MergedAt
    <2>2. Relation(L[p].version, L[p].version) = "Equal"
      BY <1>2, RelationMeaning DEF Record, VersionVector
    <2> QED
      BY <1>1, <2>1, <2>2 DEF Admits, SameState
  <1>4. CASE p \in DOMAIN R
    <2>1. R[p] \in Record
      BY <1>4 DEF IsIndex, IsSnapshot
    <2>2. MergedAt(L, R, p) = MergeRecord(L[p], R[p])
      BY <1>4 DEF MergedAt
    <2> QED
      BY <1>1, <1>2, <2>1, <2>2, MergeAdmitted
  <1> QED
    BY <1>3, <1>4

\* What a client installs is admitted over what its index has, although
\* apply_local compares no version: the check on the snapshot stands for it.
LEMMA InstalledAdmitted ==
    ASSUME ReplicasInv, PlansFit, NEW c \in Client, AtStep(c, "apply"),
           NEW p \in session[c].here \cap DOMAIN index[c]
    PROVE  Admits(index[c][p], session[c].desired[p])
  <1> DEFINE s == session[c]
  <1>1. IsPass(s, counter) /\ PlanFits(s, index[c]) /\ s.step = "apply"
    BY DEF ReplicasInv, PlansFit, AtStep
  <1> HIDE DEF s
  <1>2. s.desired = MergeSnapshots(s.local, s.remote)
    BY <1>1 DEF PlanFits
  <1>3. p \in DOMAIN s.local /\ index[c][p] = s.local[p]
    BY <1>1 DEF PlanFits, s
  <1>4. Admits(s.local[p], s.desired[p])
    BY <1>1, <1>2, <1>3, PlannedAdmitted DEF IsPass
  <1> QED
    BY <1>3, <1>4 DEF s

LEMMA PassRemembers ==
    ASSUME ReplicasInv, PlansFit, OwnRows, NEW c \in Client, Pass(c)
    PROVE  \A n \in Replica : Remembers(index[n], index'[n])
  <1> DEFINE s == session[c]
  <1>1. c \in Replica /\ Server \in Replica
    BY ServerAndClients
  <1>2. \A n \in Replica : IsIndex(index[n]) /\ Remembers(index[n], index[n])
    BY RemembersItself DEF ReplicasInv
  <1>3. ASSUME NEW n \in Replica, NEW root, Becomes(n, root), Remembers(index[n], root.index)
        PROVE  \A m \in Replica : Remembers(index[m], index'[m])
    BY <1>2, <1>3, OthersKept
  <1>4. CASE UNCHANGED replicas
    <2>1. index' = index
      BY <1>4 DEF replicas
    <2> QED
      BY <1>2, <2>1
  <1>5. ASSUME NEW n \in Replica, NEW root \in Scan(n), Becomes(n, root)
        PROVE  \A m \in Replica : Remembers(index[m], index'[m])
    BY <1>3, <1>5, ScanRemembers
  <1> HIDE DEF s
  <1>6. CASE Apply(c)
    <2> DEFINE root == Root(disk[c], index[c], counter[c])
    <2>1. PICK p \in s.here :
              \/ UNCHANGED replicas
              \/ Becomes(c, Install(root, p, s.desired[p]))
      BY <1>6 DEF Apply, NextOf, s
    <2>2. CASE Becomes(c, Install(root, p, s.desired[p]))
      <3>1. Install(root, p, s.desired[p]).index = Put(index[c], p, s.desired[p])
        BY DEF Install, Root
      <3>2. AtStep(c, "apply")
        BY <1>6 DEF Apply
      <3>3. p \in DOMAIN index[c] => Admits(index[c][p], s.desired[p])
        BY <2>1, <3>2, InstalledAdmitted DEF s
      <3>4. Remembers(index[c], Put(index[c], p, s.desired[p]))
        BY <1>1, <1>2, <3>3, PutRemembers
      <3> HIDE DEF root
      <3> QED
        BY <1>1, <1>3, <2>2, <3>1, <3>4
    <2> QED
      BY <1>4, <2>1, <2>2
  <1>7. CASE Push(c)
    <2>1. PICK p \in SentNext(c), root \in Scan(Server) :
              \/ UNCHANGED replicas
              \/ Becomes(Server, root)
              \/ /\ Accepts(root, p, s.desired[p])
                 /\ Becomes(Server, Install(root, p, s.desired[p]))
      BY <1>7 DEF Push, s
    <2>2. CASE /\ Accepts(root, p, s.desired[p])
               /\ Becomes(Server, Install(root, p, s.desired[p]))
      <3>1. Install(root, p, s.desired[p]).index = Put(root.index, p, s.desired[p])
        BY DEF Install, Root
      <3>2. p \in DOMAIN root.index => Admits(root.index[p], s.desired[p])
        BY <2>2 DEF Accepts, CausallyApplicable
      <3>3. IsRoot(Server, root) /\ IsIndex(root.index)
        BY <1>1, ScanSafe DEF IsRoot
      <3>4. Remembers(root.index, Put(root.index, p, s.desired[p]))
        BY <3>2, <3>3, PutRemembers
      <3>5. IsIndex(Put(root.index, p, s.desired[p]))
        <4>1. p \in DOMAIN s.desired
          BY DEF SentNext, NextOf, ReplicasInv, IsPass, s
        <4> QED
          BY <1>1, <3>3, <4>1, DesiredRecord, InstallIndex DEF s
      <3>6. Remembers(index[Server], root.index)
        BY <1>1, ScanRemembers
      <3>7. Remembers(index[Server], Put(root.index, p, s.desired[p]))
        BY <1>1, <1>2, <3>3, <3>4, <3>5, <3>6, RemembersTransitive
      <3> QED
        BY <1>1, <1>3, <2>2, <3>1, <3>7
    <2> QED
      BY <1>1, <1>4, <1>5, <2>1, <2>2
  <1>8. CASE ~Apply(c) /\ ~Push(c)
    <2>1. \/ UNCHANGED replicas
          \/ \E root \in Scan(c) : Becomes(c, root)
          \/ \E root \in Scan(Server) : Becomes(Server, root)
      BY <1>8 DEF Pass, Begin, Fetch, StageLocal, StageRemote, Check, VerifyLocal, VerifyRemote
    <2> QED
      BY <1>1, <1>4, <1>5, <2>1
  <1> QED
    BY <1>6, <1>7, <1>8

-----------------------------------------------------------------------------
(* Without renames nothing is forgotten. *)

\* A user's rename, whatever else the step could be.
Rename == \E n \in Replica, p \in Path, q \in Path : Move(n, p, q)

RowsOf(f) == \A p \in DOMAIN f : f[p].row \in {p, <<>>}

\* What a pass makes of a disk has rows of its own paths.
LEMMA InstallRows ==
    ASSUME NEW root, RowsOf(root.disk), NEW p, NEW r
    PROVE  RowsOf(Install(root, p, r).disk)
  <1> DEFINE g == WithParents(root.disk, p)
  <1>1. RowsOf(g)
    BY DEF RowsOf, WithParents, NewEntry, Entry
  <1> HIDE DEF g
  <1>2. RowsOf(Without(g, {p}))
    BY <1>1 DEF RowsOf, Without
  <1>3. RowsOf(Put(g, p, Entry(r.content, p)))
    BY <1>1 DEF RowsOf, Put, Entry
  <1> QED
    BY <1>2, <1>3 DEF Install, Root, g

LEMMA ScanRows ==
    ASSUME ReplicasInv, NEW n \in Replica, NEW root \in Scan(n)
    PROVE  RowsOf(root.disk)
  <1>1. root.disk = [p \in DOMAIN disk[n] |-> Entry(disk[n][p].content, p)]
    BY ScanShape DEF Scanned
  <1> QED
    BY <1>1 DEF RowsOf, Entry

LEMMA PassRows ==
    ASSUME ReplicasInv, OwnRows, NEW c \in Client, Pass(c)
    PROVE  OwnRows'
  <1>1. c \in Replica /\ Server \in Replica
    BY ServerAndClients
  <1>2. \A n \in Replica : RowsOf(disk[n])
    BY DEF OwnRows, RowsOf
  <1>3. ASSUME NEW n \in Replica, NEW root, Becomes(n, root), RowsOf(root.disk)
        PROVE  OwnRows'
    <2>1. \A m \in Replica : disk'[m] = IF m = n THEN root.disk ELSE disk[m]
      BY <1>3 DEF Becomes, ReplicasInv
    <2> QED
      BY <1>2, <1>3, <2>1 DEF OwnRows, RowsOf
  <1>4. CASE UNCHANGED replicas
    BY <1>4 DEF replicas, OwnRows
  <1>5. ASSUME NEW n \in Replica, NEW root \in Scan(n), Becomes(n, root)
        PROVE  OwnRows'
    BY <1>3, <1>5, ScanRows
  <1>6. CASE Apply(c)
    <2> DEFINE root == Root(disk[c], index[c], counter[c])
    <2>1. root.disk = disk[c]
      BY DEF Root
    <2> HIDE DEF root
    <2>2. \/ UNCHANGED replicas
          \/ \E p, r : Becomes(c, Install(root, p, r))
      BY <1>6 DEF Apply, root
    <2> QED
      BY <1>1, <1>2, <1>3, <1>4, <2>1, <2>2, InstallRows
  <1>7. CASE Push(c)
    <2>1. \/ UNCHANGED replicas
          \/ \E root \in Scan(Server) :
                \/ Becomes(Server, root)
                \/ \E p, r : Becomes(Server, Install(root, p, r))
      BY <1>7 DEF Push
    <2> QED
      BY <1>1, <1>3, <1>4, <1>5, <2>1, ScanRows, InstallRows
  <1>8. CASE ~Apply(c) /\ ~Push(c)
    <2>1. \/ UNCHANGED replicas
          \/ \E root \in Scan(c) : Becomes(c, root)
          \/ \E root \in Scan(Server) : Becomes(Server, root)
      BY <1>8 DEF Pass, Begin, Fetch, StageLocal, StageRemote, Check, VerifyLocal, VerifyRemote
    <2> QED
      BY <1>1, <1>4, <1>5, <2>1
  <1> QED
    BY <1>6, <1>7, <1>8

LEMMA EditRows ==
    ASSUME ReplicasInv, OwnRows, NEW n \in Replica, User(n), ~Rename
    PROVE  OwnRows'
  <1>1. \E f : RowsOf(f) /\ disk' = [disk EXCEPT ![n] = f]
    <2> DEFINE f == disk[n]
    <2>1. RowsOf(f)
      BY DEF OwnRows, RowsOf
    <2> HIDE DEF f
    <2>2. \A p, v : RowsOf(Put(f, p, NewEntry(v)))
      BY <2>1 DEF RowsOf, Put, NewEntry, Entry
    <2>3. \A S : RowsOf(Without(f, S))
      BY <2>1 DEF RowsOf, Without
    <2>4. PICK p \in Path :
              \/ \E v \in Content : Write(n, p, v)
              \/ MakeDirectory(n, p)
              \/ Delete(n, p)
      BY DEF User, Rename
    <2> QED
      BY <2>2, <2>3, <2>4 DEF Write, MakeDirectory, Delete, Edit, f
  <1>2. PICK f : RowsOf(f) /\ disk' = [disk EXCEPT ![n] = f]
    BY <1>1
  <1>3. \A m \in Replica : disk'[m] = IF m = n THEN f ELSE disk[m]
    BY <1>2 DEF ReplicasInv
  <1> QED
    BY <1>2, <1>3 DEF OwnRows, RowsOf

LEMMA OwnRowsAlways == Spec /\ [][~Rename]_vars => []OwnRows
  <1>1. Init => OwnRows
    BY DEF Init, OwnRows, Empty
  <1>2. ReplicasInv /\ OwnRows /\ [Next]_vars /\ [~Rename]_vars => OwnRows'
    <2> SUFFICES ASSUME ReplicasInv, OwnRows, [Next]_vars, [~Rename]_vars
                 PROVE  OwnRows'
      OBVIOUS
    <2>1. CASE UNCHANGED vars
      BY <2>1 DEF vars, OwnRows
    <2>2. ASSUME NEW c \in Client, Fail(c)
          PROVE  OwnRows'
      BY <2>2 DEF Fail, replicas, OwnRows
    <2>3. CASE ~UNCHANGED vars
      BY <2>2, <2>3, PassRows, EditRows DEF Next
    <2> QED
      BY <2>1, <2>3
  <1> QED
    BY <1>1, <1>2, ReplicasSafe, PTL DEF Spec

\* As long as no user renames a file, a replica's index never goes back: every
\* path's row stays, and its version only grows, through scans, through records
\* a client applies without comparing versions and through pushes of clients
\* that work on outdated snapshots (apply_scan, apply_local, handle_push_record,
\* handle_metadata).
THEOREM KnowledgeKept == Spec /\ [][~Rename]_vars => KnowledgeGrows
  <1>1. ReplicasInv /\ PlansFit /\ OwnRows /\ [Next]_vars =>
            [\A n \in Replica : Remembers(index[n], index'[n])]_vars
    <2> SUFFICES ASSUME ReplicasInv, PlansFit, OwnRows, Next
                 PROVE  \A n \in Replica : Remembers(index[n], index'[n])
      OBVIOUS
    <2>1. CASE index' = index
      BY <2>1, RemembersItself DEF ReplicasInv
    <2>2. ASSUME NEW c \in Client, Fail(c)
          PROVE  index' = index
      BY <2>2 DEF Fail, replicas
    <2>3. ASSUME NEW n \in Replica, User(n)
          PROVE  index' = index
      BY <2>3 DEF User, Write, MakeDirectory, Delete, Move, Edit
    <2> QED
      BY <2>1, <2>2, <2>3, PassRemembers DEF Next
  <1>2. [\A n \in Replica : Remembers(index[n], index'[n])]_vars =>
            [\A n \in Replica : \A p \in DOMAIN index[n] :
                /\ p \in DOMAIN index'[n]
                /\ Relation(index[n][p].version, index'[n][p].version)
                        \in {"Before", "Equal"}]_vars
    BY DEF Remembers, Known
  <1> QED
    BY <1>1, <1>2, ReplicasSafe, PlansFitAlways, OwnRowsAlways, PTL DEF Spec, KnowledgeGrows

-----------------------------------------------------------------------------
(* Conflict copies.  The path of a copy names the path it was lost at and the  *)
(* record that lost.                                                           *)

IsCopy(p) == p[Len(p)].suffixes # <<>>
Lost(p) == Last(p[Len(p)].suffixes).of
Origin(p) == [p EXCEPT ![Len(p)].suffixes = Front(@)]

\* A name, and a path with names of which only the last may be a copy's.
IsName(x) ==
    /\ x = [stem |-> x.stem, suffixes |-> x.suffixes]
    /\ \E S : x.suffixes \in Seq(S)
Plain(p) ==
    \A k \in 1 .. Len(p) : IsName(p[k]) /\ (k # Len(p) => p[k].suffixes = <<>>)

LEMMA FrontAndLast ==
    ASSUME NEW S, NEW s \in Seq(S), NEW e
    PROVE  LET t == Append(s, e) IN t # <<>> /\ Last(t) = e /\ Front(t) = s
  <1> DEFINE T == S \cup {e}
             t == Append(s, e)
  <1>1. s \in Seq(T) /\ e \in T
    BY SeqMonotonic
  <1>2. /\ t \in Seq(T) /\ t # <<>> /\ Len(t) = Len(s) + 1 /\ t[Len(s) + 1] = e
        /\ \A i \in 1 .. Len(s) : t[i] = s[i]
    BY <1>1, AppendProperties
  <1>3. Len(s) \in Nat /\ \A i \in 1 .. Len(s) : s[i] \in T
    BY <1>1, LenProperties, ElementOfSeq
  <1> HIDE DEF t, T
  <1>4. Len(t) - 1 = Len(s) /\ 1 \in Int /\ Len(s) \in Int
    BY <1>2, <1>3
  <1>5. \A i \in 1 .. Len(s) : t[i] \in T
    BY <1>2, <1>3
  <1>6. /\ SubSeq(t, 1, Len(s)) \in Seq(T)
        /\ Len(SubSeq(t, 1, Len(s))) = IF 1 <= Len(s) THEN Len(s) - 1 + 1 ELSE 0
        /\ \A i \in 1 .. Len(s) - 1 + 1 : SubSeq(t, 1, Len(s))[i] = t[1 + i - 1]
    BY <1>4, <1>5, SubSeqProperties
  <1>7. Len(SubSeq(t, 1, Len(s))) = Len(s)
    BY <1>3, <1>6
  <1>8. \A i \in 1 .. Len(s) : SubSeq(t, 1, Len(s))[i] = s[i]
    BY <1>2, <1>3, <1>6
  <1>9. SubSeq(t, 1, Len(s)) = s
    BY <1>1, <1>6, <1>7, <1>8, SeqEqual
  <1> QED
    BY <1>2, <1>4, <1>9 DEF Front, Last, t

\* allocate_conflict_path
LEMMA CopyNamed ==
    ASSUME NEW p, IsPath(p), Plain(p), NEW loser, NEW occupied
    PROVE  LET q == ConflictPath(p, loser, occupied)
           IN  Plain(q) /\ IsCopy(q) /\ Lost(q) = loser /\ Origin(q) = p
  <1> DEFINE l == Len(p)
             x == p[l]
             q == ConflictPath(p, loser, occupied)
  <1>1. PICK n : q = [p EXCEPT ![l].suffixes = Append(x.suffixes, [of |-> loser, nth |-> n])]
    BY DEF ConflictPath
  <1> DEFINE e == [of |-> loser, nth |-> n]
             t == Append(x.suffixes, e)
             y == [stem |-> x.stem, suffixes |-> t]
  <1>2. l \in 1 .. l /\ l \in Nat /\ DOMAIN p = 1 .. l /\ p = [i \in 1 .. l |-> p[i]]
    BY PathFacts
  <1>3. x = [stem |-> x.stem, suffixes |-> x.suffixes] /\ \E S : x.suffixes \in Seq(S)
    BY <1>2 DEF Plain, IsName
  <1> HIDE DEF e, q
  <1>4. t # <<>> /\ Last(t) = e /\ Front(t) = x.suffixes
    BY <1>3, FrontAndLast
  <1>5. \E S : t \in Seq(S)
    <2>1. PICK S : x.suffixes \in Seq(S)
      BY <1>3
    <2> DEFINE T == S \cup {e}
    <2>2. x.suffixes \in Seq(T) /\ e \in T
      BY <2>1, SeqMonotonic
    <2> HIDE DEF T
    <2>3. t \in Seq(T)
      BY <2>2, AppendProperties
    <2> QED
      BY <2>3
  <1> HIDE DEF t, x
  <1>6. q = [p EXCEPT ![l] = y]
    <2>1. [x EXCEPT !.suffixes = t] = y
      BY <1>3
    <2>2. q = [p EXCEPT ![l] = [x EXCEPT !.suffixes = t]]
      BY <1>1 DEF x, t, e
    <2> QED
      BY <2>1, <2>2
  <1> HIDE DEF y
  <1>7. IsPath(q)
    BY ConflictPathIsPath DEF q
  <1> HIDE DEF l
  <1>8. /\ DOMAIN q = 1 .. l /\ q[l] = y /\ \A i \in 1 .. l : i # l => q[i] = p[i]
        /\ q = [i \in 1 .. l |-> q[i]]
    BY <1>2, <1>6
  <1>9. Len(q) = l
    <2>1. DOMAIN q = 1 .. Len(q) /\ Len(q) \in Nat
      BY <1>7, PathFacts
    <2> QED
      BY <1>2, <1>8, <2>1
  <1>10. y.suffixes = t /\ IsName(y) /\ y = [stem |-> x.stem, suffixes |-> t]
    BY <1>5 DEF y, IsName
  <1>11. Plain(q)
    BY <1>8, <1>9, <1>10 DEF Plain, l
  <1>12. IsCopy(q) /\ Lost(q) = loser
    <2>1. e.of = loser
      BY DEF e
    <2>2. q[Len(q)] = y /\ y.suffixes = t
      BY <1>8, <1>9, <1>10
    <2>3. Last(y.suffixes) = e /\ y.suffixes # <<>>
      BY <1>4, <2>2
    <2> QED
      BY <2>1, <2>2, <2>3 DEF IsCopy, Lost
  <1>13. Origin(q) = p
    <2>1. Origin(q) = [q EXCEPT ![l] = [q[l] EXCEPT !.suffixes = Front(q[l].suffixes)]]
      BY <1>9 DEF Origin
    <2>2. [q[l] EXCEPT !.suffixes = Front(q[l].suffixes)] = x
      BY <1>3, <1>4, <1>8, <1>10
    <2>3. Origin(q) = [q EXCEPT ![l] = x]
      BY <2>1, <2>2
    <2>4. [q EXCEPT ![l] = x] = [i \in 1 .. l |-> p[i]]
      BY <1>2, <1>8 DEF x
    <2> QED
      BY <1>2, <2>3, <2>4
  <1> QED
    BY <1>11, <1>12, <1>13 DEF q

\* No copy is a directory that something is in.
LEMMA AncestorPlain ==
    ASSUME NEW p, IsPath(p), Plain(p), NEW a \in Ancestors(p)
    PROVE  Plain(a) /\ ~IsCopy(a)
  <1>1. PICK S : p \in Seq(S) /\ p # <<>>
    BY DEF IsPath
  <1>2. PICK i \in 1 .. Len(p) - 1 : a = SubSeq(p, 1, i)
    BY DEF Ancestors
  <1>3. Len(p) \in Nat /\ \A j \in 1 .. Len(p) : p[j] \in S
    BY <1>1, LenProperties, ElementOfSeq
  <1>4. /\ i \in Nat /\ i > 0 /\ i < Len(p) /\ Len(a) = i
        /\ \A j \in 1 .. i - 1 + 1 : a[j] = p[1 + j - 1]
    BY <1>2, <1>3, SubSeqProperties
  <1>5. \A j \in 1 .. i : a[j] = p[j] /\ j \in 1 .. Len(p) /\ j # Len(p)
    BY <1>3, <1>4
  <1>6. i \in 1 .. i
    BY <1>4
  <1> QED
    BY <1>4, <1>5, <1>6 DEF Plain, IsCopy

-----------------------------------------------------------------------------
(* One version, one state.  Clients exchange records through the server only.  *)
(* So the versions the server has of a path grow along a chain, and a record   *)
(* of a client is either one of the chain or has an event of that client that  *)
(* the chain has not reached.  A conflict copy starts a chain of its own: it   *)
(* knows what the record that lost knew (Base), and more.                      *)

AtMost(v, w) == \A k \in Clock : v[k] <= w[k]

LEMMA AtMostFacts ==
    ASSUME NEW u \in VersionVector, NEW v \in VersionVector, NEW w \in VersionVector
    PROVE  /\ AtMost(u, u)
           /\ AtMost(u, v) /\ AtMost(v, w) => AtMost(u, w)
           /\ NoVersion \in VersionVector /\ AtMost(NoVersion, u)
           /\ Relation(u, v) = "Before" => AtMost(u, v) /\ \E k \in Clock : u[k] < v[k]
           /\ Relation(u, v) = "Equal" => u = v
           /\ Relation(u, v) = "Concurrent" => ~AtMost(u, v) /\ ~AtMost(v, u)
           /\ Relation(u, v) # "Concurrent" => AtMost(u, v) \/ AtMost(v, u)
           /\ AtMost(u, v) => Relation(u, v) \in {"Before", "Equal"}
  <1>1. \A k \in Clock : u[k] \in Nat /\ v[k] \in Nat /\ w[k] \in Nat
    BY DEF VersionVector
  <1>2. AtMost(u, u) /\ (AtMost(u, v) /\ AtMost(v, w) => AtMost(u, w))
    BY <1>1 DEF AtMost
  <1>3. NoVersion \in VersionVector /\ AtMost(NoVersion, u)
    BY <1>1 DEF AtMost, NoVersion, VersionVector
  <1>4. /\ Relation(u, v) = "Before" => AtMost(u, v) /\ \E k \in Clock : u[k] < v[k]
        /\ Relation(u, v) = "Concurrent" => ~AtMost(u, v) /\ ~AtMost(v, u)
        /\ Relation(u, v) # "Concurrent" => AtMost(u, v) \/ AtMost(v, u)
    BY <1>1, RelationMeaning DEF AtMost
  <1>5. Relation(u, v) = "Equal" => u = v
    BY EqualVectors
  <1>6. AtMost(u, v) => Relation(u, v) \in {"Before", "Equal"}
    BY KnownMeaning DEF AtMost, Known
  <1> QED
    BY <1>2, <1>3, <1>4, <1>5, <1>6

\* What a copy knows at least.
Base(p) == IF IsCopy(p) THEN Lost(p).version ELSE NoVersion

\* With indexes i and passes s: n has r at p, in its index or in its plan.
Holds(i, s, n, p, r) ==
    \/ p \in DOMAIN i[n] /\ r = i[n][p]
    \/ n \in Client /\ p \in DOMAIN s[n].desired /\ r = s[n].desired[p]

Seen(i, p) == IF p \in DOMAIN i[Server] THEN i[Server][p].version ELSE NoVersion
Public(i, p, v) == p \in DOMAIN i[Server] /\ AtMost(v, i[Server][p].version)
Sole(i, s, c, p) == \A n \in Replica \ {c} : \A r : ~Holds(i, s, n, p, r)

\* A copy of what client c itself lost, while the server had something newer.
OwnLoser(i, c, p) ==
    /\ ~AtMost(Seen(i, Origin(p)), Base(p))
    /\ \A d \in Replica \ {c} : Base(p)[d] <= Seen(i, Origin(p))[d]

\* A version v that client c has at p: it has nothing new of others, and is
\* public or has something new of c's own; or nobody else has the path.
InLine(i, c, p, v) ==
    /\ \A n \in Replica \ {c} : v[n] <= Seen(i, p)[n] \/ v[n] <= Base(p)[n]
    /\ Public(i, p, v) \/ (v[c] > Seen(i, p)[c] /\ v[c] > Base(p)[c])
Fits(i, s, c, p, v) ==
    \/ InLine(i, c, p, v)
    \/ IsCopy(p) /\ Sole(i, s, c, p) /\ OwnLoser(i, c, p)

Based(i, s) ==
    \A n \in Replica : \A p, r : Holds(i, s, n, p, r) =>
        /\ r \in Record /\ Base(p) \in VersionVector /\ AtMost(Base(p), r.version)
AllFit(i, s) ==
    \A c \in Client : \A p, r : Holds(i, s, c, p, r) => Fits(i, s, c, p, r.version)
CopiesKnown(i, s) ==
    \A c \in Client : \A p, r : Holds(i, s, c, p, r) =>
        \/ ~IsCopy(p) \/ p \in DOMAIN i[Server]
        \/ OwnLoser(i, c, p) \/ AtMost(Base(p), Seen(i, Origin(p)))
OneState(i, s) ==
    \A m, n \in Replica : \A p, x, y :
        /\ Holds(i, s, m, p, x) /\ Holds(i, s, n, p, y)
        /\ Public(i, p, x.version) /\ x.version = y.version
        => SameState(x, y)
Chained(i, s) == Based(i, s) /\ AllFit(i, s) /\ CopiesKnown(i, s) /\ OneState(i, s)

\* Records of two clients with the same version are on the chain.
LEMMA SameVersionPublic ==
    ASSUME NEW i, NEW s, Chained(i, s), NEW c \in Client, NEW d \in Client, c # d,
           NEW p, NEW x, NEW y, Holds(i, s, c, p, x), Holds(i, s, d, p, y),
           x.version = y.version
    PROVE  Public(i, p, x.version)
  <1>1. c \in Replica /\ d \in Replica
    BY ServerAndClients
  <1>2. InLine(i, c, p, x.version) /\ InLine(i, d, p, y.version)
    BY <1>1 DEF Chained, AllFit, Fits, Sole
  <1>3. x.version[c] <= Seen(i, p)[c] \/ x.version[c] <= Base(p)[c]
    BY <1>1, <1>2 DEF InLine
  <1>4. Base(p) \in VersionVector /\ x.version \in VersionVector
    BY <1>1 DEF Chained, Based, Record
  <1>5. Seen(i, p) \in VersionVector
    <2>1. ASSUME p \in DOMAIN i[Server]
          PROVE  i[Server][p] \in Record
      BY <2>1, ServerAndClients DEF Chained, Based, Holds
    <2> QED
      BY <1>4, <2>1, AtMostFacts DEF Seen, Record
  <1>6. /\ x.version[c] \in Nat /\ Seen(i, p)[c] \in Nat /\ Base(p)[c] \in Nat
    BY <1>1, <1>4, <1>5 DEF VersionVector, Clock
  <1>7. ~(x.version[c] > Seen(i, p)[c] /\ x.version[c] > Base(p)[c])
    BY <1>3, <1>6
  <1> QED
    BY <1>2, <1>7 DEF InLine

\* A client's record with the version of the server's is on it too.
LEMMA ChainedStates ==
    ASSUME NEW i, NEW s, Chained(i, s), NEW m \in Replica, NEW n \in Replica,
           NEW p \in DOMAIN i[m] \cap DOMAIN i[n], i[m][p].version = i[n][p].version
    PROVE  SameState(i[m][p], i[n][p])
  <1>1. Holds(i, s, m, p, i[m][p]) /\ Holds(i, s, n, p, i[n][p])
    BY DEF Holds
  <1>2. CASE m = n
    BY <1>2 DEF SameState
  <1>3. CASE m = Server \/ n = Server
    <2>1. p \in DOMAIN i[Server] /\ i[m][p].version = i[Server][p].version
      BY <1>3
    <2>2. i[m][p].version \in VersionVector
      BY <1>1 DEF Chained, Based, Record
    <2>3. Public(i, p, i[m][p].version)
      BY <2>1, <2>2, AtMostFacts DEF Public
    <2> QED
      BY <1>1, <2>3 DEF Chained, OneState
  <1>4. CASE m # n /\ m \in Client /\ n \in Client
    BY <1>1, <1>4, SameVersionPublic DEF Chained, OneState
  <1> QED
    BY <1>2, <1>3, <1>4 DEF Client

\* Nothing changes at the server, and nobody gets another record.
LEMMA FewerRecords ==
    ASSUME NEW i, NEW s, NEW j, NEW t, Chained(i, s), j[Server] = i[Server],
           \A n \in Replica : \A p, r : Holds(j, t, n, p, r) => Holds(i, s, n, p, r)
    PROVE  Chained(j, t)
  <1>1. \A p : Seen(j, p) = Seen(i, p)
    BY DEF Seen
  <1>2. \A p, v : Public(j, p, v) <=> Public(i, p, v)
    BY DEF Public
  <1>3. \A c, p : OwnLoser(i, c, p) => OwnLoser(j, c, p)
    BY <1>1 DEF OwnLoser
  <1>4. \A c, p : Sole(i, s, c, p) => Sole(j, t, c, p)
    BY DEF Sole
  <1>5. \A c, p, v : InLine(i, c, p, v) => InLine(j, c, p, v)
    BY <1>1, <1>2 DEF InLine
  <1>6. Based(j, t)
    BY DEF Chained, Based
  <1>7. AllFit(j, t)
    BY <1>3, <1>4, <1>5, ServerAndClients DEF Chained, AllFit, Fits
  <1>8. CopiesKnown(j, t)
    BY <1>1, <1>3, ServerAndClients DEF Chained, CopiesKnown
  <1>9. OneState(j, t)
    BY <1>2 DEF Chained, OneState
  <1> QED
    BY <1>6, <1>7, <1>8, <1>9 DEF Chained

LEMMA SeenVector ==
    ASSUME NEW i, NEW s, Based(i, s), NEW p
    PROVE  Seen(i, p) \in VersionVector
  <1>1. p \in DOMAIN i[Server] => i[Server][p].version \in VersionVector
    BY ServerAndClients DEF Based, Holds, Record
  <1>2. NoVersion \in VersionVector
    BY DEF NoVersion, VersionVector
  <1> QED
    BY <1>1, <1>2 DEF Seen

\* What the server has only grows.
LEMMA SeenGrows ==
    ASSUME NEW i, NEW s, Based(i, s), NEW j, NEW t, Based(j, t),
           \A p \in DOMAIN i[Server] :
              p \in DOMAIN j[Server] /\ AtMost(i[Server][p].version, j[Server][p].version)
    PROVE  /\ \A p : AtMost(Seen(i, p), Seen(j, p))
           /\ \A p : \A v \in VersionVector : Public(i, p, v) => Public(j, p, v)
           /\ \A c, p : Base(p) \in VersionVector /\ OwnLoser(i, c, p) => OwnLoser(j, c, p)
           /\ \A p : Base(p) \in VersionVector /\ AtMost(Base(p), Seen(i, Origin(p)))
                => AtMost(Base(p), Seen(j, Origin(p)))
  <1>1. \A p : Seen(i, p) \in VersionVector /\ Seen(j, p) \in VersionVector
    BY SeenVector
  <1>2. ASSUME NEW p
        PROVE  AtMost(Seen(i, p), Seen(j, p))
    <2>1. CASE p \in DOMAIN i[Server]
      BY <2>1 DEF Seen
    <2>2. CASE p \notin DOMAIN i[Server]
      BY <1>1, <2>2, AtMostFacts DEF Seen
    <2> QED
      BY <2>1, <2>2
  <1>3. ASSUME NEW p, NEW v \in VersionVector, Public(i, p, v)
        PROVE  Public(j, p, v)
    <2>1. /\ p \in DOMAIN i[Server] /\ p \in DOMAIN j[Server]
          /\ AtMost(v, Seen(i, p)) /\ Seen(j, p) = j[Server][p].version
      BY <1>3 DEF Public, Seen
    <2>2. AtMost(v, Seen(j, p))
      BY <1>1, <1>2, <2>1, AtMostFacts
    <2> QED
      BY <2>1, <2>2 DEF Public
  <1>4. ASSUME NEW c, NEW p, Base(p) \in VersionVector, OwnLoser(i, c, p)
        PROVE  OwnLoser(j, c, p)
    <2> DEFINE u == Seen(i, Origin(p))
               w == Seen(j, Origin(p))
               b == Base(p)
    <2>1. u \in VersionVector /\ w \in VersionVector /\ b \in VersionVector /\ AtMost(u, w)
      BY <1>1, <1>2, <1>4
    <2>2. ~AtMost(u, b) /\ \A d \in Replica \ {c} : b[d] <= u[d]
      BY <1>4 DEF OwnLoser
    <2> HIDE DEF u, w, b
    <2>3. ~AtMost(w, b)
      BY <2>1, <2>2, AtMostFacts
    <2>4. \A d \in Replica \ {c} : b[d] <= w[d]
      <3> SUFFICES ASSUME NEW d \in Replica \ {c}
                   PROVE  b[d] <= w[d]
        OBVIOUS
      <3>1. d \in Clock
        BY DEF Clock
      <3>2. b[d] <= u[d] /\ u[d] <= w[d]
        BY <2>1, <2>2, <3>1 DEF AtMost
      <3>3. b[d] \in Nat /\ u[d] \in Nat /\ w[d] \in Nat
        BY <2>1, <3>1 DEF VersionVector
      <3> QED
        BY <3>2, <3>3
    <2> QED
      BY <2>3, <2>4 DEF OwnLoser, w, b
  <1>5. ASSUME NEW p, Base(p) \in VersionVector, AtMost(Base(p), Seen(i, Origin(p)))
        PROVE  AtMost(Base(p), Seen(j, Origin(p)))
    BY <1>1, <1>2, <1>5, AtMostFacts
  <1> QED
    BY <1>2, <1>3, <1>4, <1>5

\* An event that a scan adds.
LEMMA Observed ==
    ASSUME NEW v \in VersionVector, NEW n \in Replica, NEW t \in Nat, v[n] < t
    PROVE  /\ Observe(v, n, t) \in VersionVector
           /\ Observe(v, n, t)[n] = t
           /\ \A k \in Clock : k # n => Observe(v, n, t)[k] = v[k]
           /\ AtMost(v, Observe(v, n, t))
  <1>1. n \in Clock
    BY DEF Clock
  <1>2. Observe(v, n, t) = [v EXCEPT ![n] = t]
    BY DEF Observe, Larger
  <1> QED
    BY <1>1, <1>2, ObserveFacts DEF AtMost, VersionVector

\* What anyone has counts no event beyond the counters.
LEMMA HoldsBelow ==
    ASSUME ReplicasInv, NEW n \in Replica, NEW p, NEW r, Holds(index, session, n, p, r)
    PROVE  IsPath(p) /\ r \in Record /\ r.version \in VersionVector /\ Below(r.version, counter)
  <1>1. IsIndex(index[n]) /\ AllBelow(index[n], counter)
    BY DEF ReplicasInv
  <1>2. CASE p \in DOMAIN index[n] /\ r = index[n][p]
    BY <1>1, <1>2 DEF IsIndex, IsSnapshot, AllBelow, Record
  <1>3. CASE n \in Client /\ p \in DOMAIN session[n].desired /\ r = session[n].desired[p]
    BY <1>3, DesiredRecord DEF Record
  <1> QED
    BY <1>2, <1>3 DEF Holds

\* A row that a scan writes has one event more than what the replica had, and
\* that event is new to everyone.
Fresh(n, p, r) ==
    /\ r.version \in VersionVector /\ r.version[n] > counter[n]
    /\ \/ \E x : /\ Holds(index, session, n, p, x) /\ AtMost(x.version, r.version)
                 /\ \A k \in Replica \ {n} : r.version[k] = x.version[k]
       \/ /\ p \in DOMAIN disk[n] \ DOMAIN index[n]
          /\ \A k \in Replica \ {n} : r.version[k] = 0

LEMMA TickedFresh ==
    ASSUME ReplicasInv, NEW n \in Replica, NEW j, Ticked(n, j), NEW p \in DOMAIN j
    PROVE  (p \in DOMAIN index[n] /\ j[p] = index[n][p]) \/ Fresh(n, p, j[p])
  <1>1. counter[n] \in Nat
    BY DEF ReplicasInv
  <1>2. SUFFICES ASSUME NEW v \in VersionVector, NEW t \in Nat,
                        t > counter[n], j[p].version = Observe(v, n, t),
                        \/ p \in DOMAIN index[n] /\ v = index[n][p].version
                        \/ p \notin DOMAIN index[n] /\ v = NoVersion
                 PROVE  Fresh(n, p, j[p])
    BY DEF Ticked
  <1>3. Replica \subseteq Clock
    BY DEF Clock
  <1>4. CASE p \in DOMAIN index[n] /\ v = index[n][p].version
    <2>1. Holds(index, session, n, p, index[n][p])
      BY <1>4 DEF Holds
    <2>2. v[n] <= counter[n] /\ v[n] \in Nat
      BY <1>3, <1>4, <2>1, HoldsBelow DEF Below, VersionVector
    <2>3. v[n] < t
      BY <1>1, <1>2, <2>2
    <2> QED
      BY <1>1, <1>2, <1>3, <1>4, <2>1, <2>3, Observed DEF Fresh
  <1>5. CASE p \notin DOMAIN index[n] /\ v = NoVersion
    <2>1. \A k \in Clock : v[k] = 0
      BY <1>5 DEF NoVersion
    <2>2. v[n] < t
      BY <1>1, <1>2, <1>3, <2>1
    <2>3. p \in DOMAIN disk[n]
      BY <1>5 DEF Ticked
    <2> QED
      BY <1>1, <1>2, <1>3, <1>5, <2>1, <2>2, <2>3, Observed DEF Fresh
  <1> QED
    BY <1>2, <1>4, <1>5

\* apply_scan at a client.
LEMMA ClientScanChained ==
    ASSUME ReplicasInv, Chained(index, session), NEW c \in Client,
           NEW j, IsIndex(j[c]), Ticked(c, j[c]),
           \A n \in Replica \ {c} : j[n] = index[n],
           \A p \in DOMAIN disk[c] \ DOMAIN index[c] : ~IsCopy(p)
    PROVE  Chained(j, session)
  <1>1. c \in Replica /\ Server \in Replica /\ c # Server /\ j[Server] = index[Server]
    BY ServerAndClients DEF Client
  <1>2. \A p : Seen(j, p) = Seen(index, p)
    BY <1>1 DEF Seen
  <1>3. \A p, v : Public(j, p, v) <=> Public(index, p, v)
    BY <1>1 DEF Public
  <1>4. \A d, p : OwnLoser(j, d, p) <=> OwnLoser(index, d, p)
    BY <1>2 DEF OwnLoser
  <1>5. \A n \in Replica \ {c} : \A p, r : Holds(j, session, n, p, r) <=> Holds(index, session, n, p, r)
    BY DEF Holds
  <1>6. \A p, r : Holds(j, session, c, p, r) => Holds(index, session, c, p, r) \/ Fresh(c, p, r)
    <2>1. \A p \in DOMAIN j[c] :
              (p \in DOMAIN index[c] /\ j[c][p] = index[c][p]) \/ Fresh(c, p, j[c][p])
      BY <1>1, TickedFresh
    <2> QED
      BY <2>1 DEF Holds
  <1>7. \A p, r : Holds(j, session, c, p, r) => r \in Record
    BY <1>1, HoldsBelow DEF Holds, IsIndex, IsSnapshot
  <1>8. \A p : Seen(index, p) \in VersionVector /\ Seen(index, p)[c] <= counter[c]
    <2> SUFFICES ASSUME NEW p
                 PROVE  Seen(index, p) \in VersionVector /\ Seen(index, p)[c] <= counter[c]
      OBVIOUS
    <2>1. Seen(index, p) \in VersionVector
      BY SeenVector DEF Chained
    <2>2. CASE p \in DOMAIN index[Server]
      <3>1. Holds(index, session, Server, p, index[Server][p])
        BY <2>2 DEF Holds
      <3> QED
        BY <1>1, <2>1, <2>2, <3>1, HoldsBelow DEF Below, Seen
    <2>3. CASE p \notin DOMAIN index[Server]
      <3>1. Seen(index, p)[c] = 0 /\ counter[c] \in Nat
        BY <1>1, <2>3 DEF Seen, NoVersion, ReplicasInv, Clock
      <3> QED
        BY <2>1, <3>1
    <2> QED
      BY <2>2, <2>3
  \* Base of a path that the client has.
  <1>9. ASSUME NEW p, NEW r, Fresh(c, p, r)
        PROVE  /\ Base(p) \in VersionVector /\ AtMost(Base(p), r.version)
               /\ Base(p)[c] < r.version[c] /\ Seen(index, p)[c] < r.version[c]
               /\ r.version \in VersionVector
    <2>1. r.version \in VersionVector /\ r.version[c] > counter[c] /\ counter[c] \in Nat
      BY <1>1, <1>9 DEF Fresh, ReplicasInv
    <2>2. r.version[c] \in Nat /\ Seen(index, p)[c] \in Nat
      BY <1>1, <1>8, <2>1 DEF VersionVector, Clock
    <2>3. Seen(index, p)[c] < r.version[c]
      BY <1>8, <2>1, <2>2
    <2>4. ASSUME NEW x, Holds(index, session, c, p, x), AtMost(x.version, r.version)
          PROVE  /\ Base(p) \in VersionVector /\ AtMost(Base(p), r.version)
                 /\ Base(p)[c] < r.version[c]
      <3>1. /\ Base(p) \in VersionVector /\ AtMost(Base(p), x.version)
            /\ x.version \in VersionVector /\ x.version[c] <= counter[c]
        BY <1>1, <2>4, HoldsBelow DEF Chained, Based, Below
      <3>2. Base(p)[c] \in Nat /\ x.version[c] \in Nat /\ Base(p)[c] <= x.version[c]
        BY <1>1, <3>1 DEF AtMost, VersionVector, Clock
      <3> QED
        BY <2>1, <2>2, <2>4, <3>1, <3>2, AtMostFacts
    <2>5. ASSUME p \in DOMAIN disk[c] \ DOMAIN index[c]
          PROVE  /\ Base(p) \in VersionVector /\ AtMost(Base(p), r.version)
                 /\ Base(p)[c] < r.version[c]
      <3>1. Base(p) = NoVersion
        BY <2>5 DEF Base
      <3>2. NoVersion[c] = 0
        BY <1>1 DEF NoVersion, Clock
      <3> QED
        BY <2>1, <2>2, <3>1, <3>2, AtMostFacts
    <2> QED
      BY <1>9, <2>1, <2>3, <2>4, <2>5 DEF Fresh
  <1>10. Based(j, session)
    <2> SUFFICES ASSUME NEW n \in Replica, NEW p, NEW r, Holds(j, session, n, p, r)
                 PROVE  r \in Record /\ Base(p) \in VersionVector /\ AtMost(Base(p), r.version)
      BY DEF Based
    <2>1. CASE Holds(index, session, n, p, r)
      BY <2>1 DEF Chained, Based
    <2>2. CASE ~Holds(index, session, n, p, r)
      <3>1. n = c /\ Fresh(c, p, r)
        BY <1>5, <1>6, <2>2
      <3> QED
        BY <1>7, <1>9, <3>1
    <2> QED
      BY <2>1, <2>2
  <1>11. AllFit(j, session)
    <2> SUFFICES ASSUME NEW d \in Client, NEW p, NEW r, Holds(j, session, d, p, r)
                 PROVE  Fits(j, session, d, p, r.version)
      BY DEF AllFit
    <2>1. \A v : InLine(index, d, p, v) => InLine(j, d, p, v)
      BY <1>2, <1>3 DEF InLine
    <2>2. CASE d # c
      <3>1. Holds(index, session, d, p, r)
        BY <1>5, <2>2, ServerAndClients
      <3>2. Fits(index, session, d, p, r.version)
        BY <3>1 DEF Chained, AllFit
      <3>3. ASSUME IsCopy(p), Sole(index, session, d, p)
            PROVE  Sole(j, session, d, p)
        <4>1. ASSUME NEW x, Holds(j, session, c, p, x)
              PROVE  FALSE
          <5>1. ~Holds(index, session, c, p, x)
            BY <1>1, <2>2, <3>3 DEF Sole
          <5>2. Fresh(c, p, x)
            BY <1>6, <4>1, <5>1
          <5>3. p \in DOMAIN disk[c] \ DOMAIN index[c]
            BY <1>1, <2>2, <3>3, <5>2 DEF Fresh, Sole
          <5> QED
            BY <3>3, <5>3
        <4> QED
          BY <1>5, <3>3, <4>1 DEF Sole
      <3> QED
        BY <1>4, <2>1, <3>2, <3>3 DEF Fits
    <2>3. CASE d = c /\ Holds(index, session, c, p, r)
      <3>1. Fits(index, session, c, p, r.version)
        BY <2>3 DEF Chained, AllFit
      <3>2. Sole(index, session, c, p) => Sole(j, session, c, p)
        BY <1>5 DEF Sole
      <3> QED
        BY <1>4, <2>1, <2>3, <3>1, <3>2 DEF Fits
    <2>4. CASE d = c /\ Fresh(c, p, r)
      <3>1. /\ Base(p)[c] < r.version[c] /\ Seen(index, p)[c] < r.version[c]
            /\ r.version \in VersionVector /\ Base(p) \in VersionVector
        BY <1>9, <2>4
      <3>2. r.version[c] > Seen(index, p)[c] /\ r.version[c] > Base(p)[c]
        BY <1>1, <1>8, <3>1 DEF VersionVector, Clock
      <3>3. CASE \E x : /\ Holds(index, session, c, p, x)
                        /\ \A k \in Replica \ {c} : r.version[k] = x.version[k]
        <4>1. PICK x : /\ Holds(index, session, c, p, x)
                       /\ \A k \in Replica \ {c} : r.version[k] = x.version[k]
          BY <3>3
        <4>2. Fits(index, session, c, p, x.version)
          BY <4>1 DEF Chained, AllFit
        <4>3. CASE InLine(index, c, p, x.version)
          <5>1. InLine(index, c, p, r.version)
            BY <3>2, <4>1, <4>3 DEF InLine
          <5> QED
            BY <2>1, <2>4, <5>1 DEF Fits
        <4>4. CASE IsCopy(p) /\ Sole(index, session, c, p) /\ OwnLoser(index, c, p)
          <5>1. Sole(j, session, c, p)
            BY <1>5, <4>4 DEF Sole
          <5> QED
            BY <1>4, <2>4, <4>4, <5>1 DEF Fits
        <4> QED
          BY <4>2, <4>3, <4>4 DEF Fits
      <3>4. CASE \A k \in Replica \ {c} : r.version[k] = 0
        <4>1. \A k \in Replica \ {c} : r.version[k] <= Seen(index, p)[k]
          <5> SUFFICES ASSUME NEW k \in Replica \ {c}
                       PROVE  r.version[k] <= Seen(index, p)[k]
            OBVIOUS
          <5>1. Seen(index, p)[k] \in Nat
            BY <1>8 DEF VersionVector, Clock
          <5>2. r.version[k] = 0
            BY <3>4
          <5> QED
            BY <5>1, <5>2
        <4>2. InLine(index, c, p, r.version)
          BY <3>2, <4>1 DEF InLine
        <4> QED
          BY <2>1, <2>4, <4>2 DEF Fits
      <3> QED
        BY <2>4, <3>3, <3>4 DEF Fresh
    <2> QED
      BY <1>6, <2>2, <2>3, <2>4
  <1>12. CopiesKnown(j, session)
    <2> SUFFICES ASSUME NEW d \in Client, NEW p, NEW r, Holds(j, session, d, p, r), IsCopy(p),
                        p \notin DOMAIN index[Server]
                 PROVE  OwnLoser(index, d, p) \/ AtMost(Base(p), Seen(index, Origin(p)))
      BY <1>1, <1>2, <1>4 DEF CopiesKnown
    <2>1. \E x : Holds(index, session, d, p, x)
      <3>1. CASE d = c
        BY <1>6, <3>1 DEF Fresh
      <3>2. CASE d # c
        BY <1>5, <3>2, ServerAndClients
      <3> QED
        BY <3>1, <3>2
    <2> QED
      BY <2>1 DEF Chained, CopiesKnown
  <1>13. OneState(j, session)
    <2> SUFFICES ASSUME NEW m \in Replica, NEW n \in Replica, NEW p, NEW x, NEW y,
                        Holds(j, session, m, p, x), Holds(j, session, n, p, y),
                        Public(index, p, x.version), x.version = y.version
                 PROVE  SameState(x, y)
      BY <1>3 DEF OneState
    <2>1. \A r : Fresh(c, p, r) => ~Public(index, p, r.version)
      <3> SUFFICES ASSUME NEW r, Fresh(c, p, r), Public(index, p, r.version)
                   PROVE  FALSE
        OBVIOUS
      <3>1. r.version[c] <= Seen(index, p)[c]
        BY <1>1 DEF Public, Seen, AtMost, Clock
      <3>2. Seen(index, p)[c] < r.version[c] /\ r.version \in VersionVector
        BY <1>9
      <3> QED
        BY <1>1, <1>8, <3>1, <3>2 DEF VersionVector, Clock
    <2>2. Holds(index, session, m, p, x) /\ Holds(index, session, n, p, y)
      BY <1>5, <1>6, <2>1
    <2> QED
      BY <2>2 DEF Chained, OneState
  <1> QED
    BY <1>10, <1>11, <1>12, <1>13 DEF Chained

\* apply_scan at the server.
LEMMA ServerScanChained ==
    ASSUME ReplicasInv, Chained(index, session),
           NEW j, IsIndex(j[Server]), Ticked(Server, j[Server]),
           \A n \in Client : j[n] = index[n],
           \A p \in DOMAIN disk[Server] \ DOMAIN index[Server] : ~IsCopy(p)
    PROVE  Chained(j, session)
  <1>1. /\ Server \in Replica /\ Server \notin Client /\ Replica \ {Server} = Client
        /\ \A d \in Client : d \in Replica /\ d # Server
    BY ServerAndClients DEF Client
  <1>2. \A d \in Client : \A p, r : Holds(j, session, d, p, r) <=> Holds(index, session, d, p, r)
    BY DEF Holds
  <1>3. \A i, p, r : Holds(i, session, Server, p, r) <=> p \in DOMAIN i[Server] /\ r = i[Server][p]
    BY <1>1 DEF Holds
  <1>4. \A p \in DOMAIN j[Server] :
            \/ p \in DOMAIN index[Server] /\ j[Server][p] = index[Server][p]
            \/ Fresh(Server, p, j[Server][p])
    BY <1>1, TickedFresh
  <1>5. \A p \in DOMAIN j[Server] : j[Server][p] \in Record
    BY DEF IsIndex, IsSnapshot
  <1>6. Based(j, session)
    <2> SUFFICES ASSUME NEW n \in Replica, NEW p, NEW r, Holds(j, session, n, p, r)
                 PROVE  r \in Record /\ Base(p) \in VersionVector /\ AtMost(Base(p), r.version)
      BY DEF Based
    <2>1. CASE Holds(index, session, n, p, r)
      BY <2>1 DEF Chained, Based
    <2>2. CASE ~Holds(index, session, n, p, r)
      <3>1. n = Server /\ p \in DOMAIN j[Server] /\ r = j[Server][p] /\ Fresh(Server, p, r)
        BY <1>1, <1>2, <1>3, <1>4, <2>2
      <3>2. r \in Record /\ r.version \in VersionVector
        BY <1>5, <3>1 DEF Record
      <3>3. ASSUME NEW x, Holds(index, session, Server, p, x), AtMost(x.version, r.version)
            PROVE  Base(p) \in VersionVector /\ AtMost(Base(p), r.version)
        <4>1. /\ Base(p) \in VersionVector /\ AtMost(Base(p), x.version)
              /\ x.version \in VersionVector
          BY <1>1, <3>3 DEF Chained, Based, Record
        <4> QED
          BY <3>2, <3>3, <4>1, AtMostFacts
      <3>4. ASSUME ~IsCopy(p)
            PROVE  Base(p) \in VersionVector /\ AtMost(Base(p), r.version)
        BY <3>2, <3>4, AtMostFacts DEF Base
      <3> QED
        BY <3>1, <3>2, <3>3, <3>4 DEF Fresh
    <2> QED
      BY <2>1, <2>2
  \* Rows grow, in the server's own component only.
  <1>7. ASSUME NEW p \in DOMAIN index[Server]
        PROVE  p \in DOMAIN j[Server] /\ AtMost(index[Server][p].version, j[Server][p].version)
    <2>1. p \in DOMAIN j[Server]
      BY DEF Ticked
    <2>2. index[Server][p].version \in VersionVector
      BY <1>1, <1>3, HoldsBelow
    <2> QED
      BY <1>3, <1>4, <2>1, <2>2, AtMostFacts DEF Fresh
  <1>8. Based(index, session)
    BY DEF Chained
  <1>9. /\ \A p : AtMost(Seen(index, p), Seen(j, p))
        /\ \A p : \A v \in VersionVector : Public(index, p, v) => Public(j, p, v)
        /\ \A d, p : Base(p) \in VersionVector /\ OwnLoser(index, d, p) => OwnLoser(j, d, p)
        /\ \A p : Base(p) \in VersionVector /\ AtMost(Base(p), Seen(index, Origin(p)))
                => AtMost(Base(p), Seen(j, Origin(p)))
    BY <1>6, <1>7, <1>8, SeenGrows
  <1>10. \A p : Seen(index, p) \in VersionVector /\ Seen(j, p) \in VersionVector
    BY <1>6, <1>8, SeenVector
  <1>11. \A p : \A d \in Client : Seen(j, p)[d] = Seen(index, p)[d]
    <2> SUFFICES ASSUME NEW p, NEW d \in Client
                 PROVE  Seen(j, p)[d] = Seen(index, p)[d]
      OBVIOUS
    <2>1. CASE p \notin DOMAIN j[Server]
      BY <1>7, <2>1 DEF Seen
    <2>2. CASE p \in DOMAIN j[Server] /\ p \in DOMAIN index[Server] /\ j[Server][p] = index[Server][p]
      BY <2>2 DEF Seen
    <2>3. CASE p \in DOMAIN j[Server] /\ Fresh(Server, p, j[Server][p])
      <3>1. CASE p \in DOMAIN index[Server]
        BY <1>1, <1>3, <2>3, <3>1 DEF Fresh, Seen
      <3>2. CASE p \notin DOMAIN index[Server]
        <4>1. \A k \in Replica \ {Server} : j[Server][p].version[k] = 0
          BY <1>3, <2>3, <3>2 DEF Fresh
        <4>2. Seen(index, p)[d] = 0
          BY <1>1, <3>2 DEF Seen, NoVersion, Clock
        <4> QED
          BY <1>1, <2>3, <4>1, <4>2 DEF Seen
      <3> QED
        BY <3>1, <3>2
    <2> QED
      BY <1>4, <2>1, <2>2, <2>3
  <1>12. AllFit(j, session)
    <2> SUFFICES ASSUME NEW d \in Client, NEW p, NEW r, Holds(j, session, d, p, r)
                 PROVE  Fits(j, session, d, p, r.version)
      BY DEF AllFit
    <2>1. Holds(index, session, d, p, r)
      BY <1>2
    <2>2. r.version \in VersionVector /\ Base(p) \in VersionVector
      BY <1>1, <2>1, HoldsBelow DEF Chained, Based
    <2>3. Fits(index, session, d, p, r.version)
      BY <2>1 DEF Chained, AllFit
    <2>4. CASE InLine(index, d, p, r.version)
      <3>1. \A n \in Replica \ {d} : r.version[n] <= Seen(j, p)[n] \/ r.version[n] <= Base(p)[n]
        <4> SUFFICES ASSUME NEW n \in Replica \ {d}, r.version[n] <= Seen(index, p)[n]
                     PROVE  r.version[n] <= Seen(j, p)[n]
          BY <2>4 DEF InLine
        <4>1. Seen(index, p)[n] <= Seen(j, p)[n]
          BY <1>9 DEF AtMost, Clock
        <4> QED
          BY <1>10, <2>2, <4>1 DEF VersionVector, Clock
      <3>2. Public(j, p, r.version) \/ (r.version[d] > Seen(j, p)[d] /\ r.version[d] > Base(p)[d])
        BY <1>9, <1>11, <2>2, <2>4 DEF InLine
      <3> QED
        BY <3>1, <3>2 DEF InLine, Fits
    <2>5. CASE IsCopy(p) /\ Sole(index, session, d, p) /\ OwnLoser(index, d, p)
      <3>1. OwnLoser(j, d, p)
        BY <1>9, <2>2, <2>5
      <3>2. p \notin DOMAIN index[Server]
        BY <1>1, <1>3, <2>5 DEF Sole
      <3>3. p \notin DOMAIN j[Server]
        BY <2>5, <3>2 DEF Ticked
      <3>4. Sole(j, session, d, p)
        BY <1>1, <1>2, <1>3, <2>5, <3>3 DEF Sole
      <3> QED
        BY <2>5, <3>1, <3>4 DEF Fits
    <2> QED
      BY <2>3, <2>4, <2>5 DEF Fits
  <1>13. CopiesKnown(j, session)
    <2> SUFFICES ASSUME NEW d \in Client, NEW p, NEW r, Holds(j, session, d, p, r), IsCopy(p),
                        p \notin DOMAIN j[Server]
                 PROVE  OwnLoser(j, d, p) \/ AtMost(Base(p), Seen(j, Origin(p)))
      BY DEF CopiesKnown
    <2>1. Holds(index, session, d, p, r) /\ p \notin DOMAIN index[Server]
      BY <1>2, <1>7
    <2>2. Base(p) \in VersionVector
      BY <1>1, <2>1 DEF Chained, Based
    <2>3. OwnLoser(index, d, p) \/ AtMost(Base(p), Seen(index, Origin(p)))
      BY <2>1 DEF Chained, CopiesKnown
    <2> QED
      BY <1>9, <2>2, <2>3
  <1>14. OneState(j, session)
    \* A row the scan wrote has an event that no record of a client has.
    <2>1. ASSUME NEW p \in DOMAIN j[Server], Fresh(Server, p, j[Server][p]),
                 NEW d \in Client, NEW y, Holds(index, session, d, p, y),
                 y.version = j[Server][p].version
          PROVE  FALSE
      <3>1. y.version[Server] <= counter[Server] /\ y.version \in VersionVector
        BY <1>1, <2>1, HoldsBelow DEF Below
      <3>2. y.version[Server] > counter[Server]
        BY <2>1 DEF Fresh
      <3> QED
        BY <1>1, <3>1, <3>2 DEF VersionVector, Clock, ReplicasInv
    \* What the server has now and a client's record does not go beyond.
    <2>2. ASSUME NEW d \in Client, NEW p, NEW x, Holds(index, session, d, p, x),
                 Public(j, p, x.version)
          PROVE  Public(index, p, x.version)
      <3>1. x.version \in VersionVector /\ Fits(index, session, d, p, x.version)
        BY <1>1, <2>2, HoldsBelow DEF Chained, AllFit
      <3>2. CASE InLine(index, d, p, x.version)
        <4>1. x.version[d] <= Seen(j, p)[d]
          BY <1>1, <2>2 DEF Public, Seen, AtMost, Clock
        <4>2. ~(x.version[d] > Seen(index, p)[d])
          BY <1>1, <1>10, <1>11, <3>1, <4>1 DEF VersionVector, Clock
        <4> QED
          BY <3>2, <4>2 DEF InLine
      <3>3. CASE IsCopy(p) /\ Sole(index, session, d, p)
        <4>1. p \notin DOMAIN index[Server]
          BY <1>1, <1>3, <3>3 DEF Sole
        <4>2. p \notin DOMAIN j[Server]
          BY <3>3, <4>1 DEF Ticked
        <4> QED
          BY <2>2, <4>2 DEF Public
      <3> QED
        BY <3>1, <3>2, <3>3 DEF Fits
    <2> SUFFICES ASSUME NEW m \in Replica, NEW n \in Replica, NEW p, NEW x, NEW y,
                        Holds(j, session, m, p, x), Holds(j, session, n, p, y),
                        Public(j, p, x.version), x.version = y.version
                 PROVE  SameState(x, y)
      BY DEF OneState
    <2>3. CASE m = Server /\ n = Server
      BY <1>3, <2>3 DEF SameState
    <2>4. CASE m \in Client /\ n \in Client
      <3>1. Holds(index, session, m, p, x) /\ Holds(index, session, n, p, y)
        BY <1>2, <2>4
      <3>2. Public(index, p, x.version)
        BY <2>2, <2>4, <3>1
      <3> QED
        BY <3>1, <3>2 DEF Chained, OneState
    <2>5. CASE m = Server /\ n \in Client
      <3>1. p \in DOMAIN j[Server] /\ x = j[Server][p] /\ Holds(index, session, n, p, y)
        BY <1>2, <1>3, <2>5
      <3>2. p \in DOMAIN index[Server] /\ x = index[Server][p]
        BY <1>4, <2>1, <2>5, <3>1
      <3>3. Holds(index, session, m, p, x)
        BY <2>5, <3>2 DEF Holds
      <3>4. Public(index, p, x.version)
        BY <2>2, <2>5, <3>1
      <3> QED
        BY <3>1, <3>3, <3>4 DEF Chained, OneState
    <2>6. CASE m \in Client /\ n = Server
      <3>1. p \in DOMAIN j[Server] /\ y = j[Server][p] /\ Holds(index, session, m, p, x)
        BY <1>2, <1>3, <2>6
      <3>2. p \in DOMAIN index[Server] /\ y = index[Server][p]
        BY <1>4, <2>1, <2>6, <3>1
      <3>3. Holds(index, session, n, p, y)
        BY <2>6, <3>2 DEF Holds
      <3>4. Public(index, p, x.version)
        BY <2>2, <2>6, <3>1
      <3> QED
        BY <3>1, <3>3, <3>4 DEF Chained, OneState
    <2> QED
      BY <1>1, <2>3, <2>4, <2>5, <2>6
  <1> QED
    BY <1>6, <1>12, <1>13, <1>14 DEF Chained

\* A client's only record at a path becomes the server's: the record was in line
\* behind what the server had, and what any other client has is so too, so none
\* of theirs is taken for an older version of the new one by mistake.
LEMMA PushChained ==
    ASSUME NEW i, NEW s, Chained(i, s), NEW c \in Client, NEW p, NEW z, Holds(i, s, c, p, z),
           \A r : Holds(i, s, c, p, r) => r = z,
           p \in DOMAIN i[Server] => Admits(i[Server][p], z),
           NEW j, j[Server] = Put(i[Server], p, z), \A n \in Client : j[n] = i[n]
    PROVE  Chained(j, s)
  <1>1. /\ Server \in Replica /\ Server \notin Client /\ Replica \ {Server} = Client
        /\ \A d \in Client : d \in Replica /\ d # Server
    BY ServerAndClients DEF Client
  <1>2. \A d \in Client : \A q, r : Holds(j, s, d, q, r) <=> Holds(i, s, d, q, r)
    BY DEF Holds
  <1>3. /\ DOMAIN j[Server] = DOMAIN i[Server] \cup {p} /\ j[Server][p] = z
        /\ \A q \in DOMAIN i[Server] \ {p} : j[Server][q] = i[Server][q]
    BY DEF Put
  <1>4. /\ \A q, r : Holds(j, s, Server, q, r) <=> q \in DOMAIN j[Server] /\ r = j[Server][q]
        /\ \A q, r : Holds(i, s, Server, q, r) <=> q \in DOMAIN i[Server] /\ r = i[Server][q]
    BY <1>1 DEF Holds
  <1>5. /\ z \in Record /\ z.version \in VersionVector /\ Base(p) \in VersionVector
        /\ AtMost(Base(p), z.version)
    BY <1>1 DEF Chained, Based, Record
  <1>6. Based(i, s)
    BY DEF Chained
  <1>7. Based(j, s)
    <2> SUFFICES ASSUME NEW n \in Replica, NEW q, NEW r, Holds(j, s, n, q, r)
                 PROVE  r \in Record /\ Base(q) \in VersionVector /\ AtMost(Base(q), r.version)
      BY DEF Based
    <2>1. (n = Server /\ q = p /\ r = z) \/ Holds(i, s, n, q, r)
      BY <1>1, <1>2, <1>3, <1>4
    <2> QED
      BY <1>5, <1>6, <2>1 DEF Based
  <1>8. ASSUME NEW q \in DOMAIN i[Server]
        PROVE  q \in DOMAIN j[Server] /\ AtMost(i[Server][q].version, j[Server][q].version)
    <2>1. i[Server][q].version \in VersionVector
      <3>1. Holds(i, s, Server, q, i[Server][q])
        BY <1>4
      <3> QED
        BY <1>1, <1>6, <3>1 DEF Based, Record
    <2>2. CASE q = p
      BY <1>3, <1>5, <2>1, <2>2, AtMostFacts DEF Admits
    <2>3. CASE q # p
      BY <1>3, <2>1, <2>3, AtMostFacts
    <2> QED
      BY <2>2, <2>3
  <1>9. /\ \A q : AtMost(Seen(i, q), Seen(j, q))
        /\ \A q : \A v \in VersionVector : Public(i, q, v) => Public(j, q, v)
        /\ \A d, q : Base(q) \in VersionVector /\ OwnLoser(i, d, q) => OwnLoser(j, d, q)
        /\ \A q : Base(q) \in VersionVector /\ AtMost(Base(q), Seen(i, Origin(q)))
                => AtMost(Base(q), Seen(j, Origin(q)))
    BY <1>6, <1>7, <1>8, SeenGrows
  <1>10. \A q : Seen(i, q) \in VersionVector /\ Seen(j, q) \in VersionVector
    BY <1>6, <1>7, SeenVector
  <1>11. Seen(j, p) = z.version /\ \A q : q # p => Seen(j, q) = Seen(i, q)
    BY <1>3 DEF Seen
  <1>12. \A q, v : q # p => (Public(j, q, v) <=> Public(i, q, v))
    BY <1>3 DEF Public
  \* A record of another client is in line, and z is not beyond its own events.
  <1>13. ASSUME NEW d \in Client, d # c, NEW x, Holds(i, s, d, p, x)
         PROVE  /\ x.version \in VersionVector
                /\ InLine(i, d, p, x.version)
                /\ Public(i, p, x.version)
                     \/ (x.version[d] > z.version[d] /\ x.version[d] > Base(p)[d])
    <2>1. x.version \in VersionVector
      BY <1>1, <1>6, <1>13 DEF Based, Record
    <2>2. ~Sole(i, s, c, p) /\ ~Sole(i, s, d, p)
      BY <1>1, <1>13 DEF Sole
    <2>3. InLine(i, c, p, z.version) /\ InLine(i, d, p, x.version)
      BY <1>13, <2>2 DEF Chained, AllFit, Fits
    <2>4. z.version[d] <= Seen(i, p)[d] \/ z.version[d] <= Base(p)[d]
      BY <1>1, <1>13, <2>3 DEF InLine
    <2>5. /\ z.version[d] \in Nat /\ Seen(i, p)[d] \in Nat /\ Base(p)[d] \in Nat
          /\ x.version[d] \in Nat
      BY <1>1, <1>5, <1>10, <2>1 DEF VersionVector, Clock
    <2>6. ASSUME x.version[d] > Seen(i, p)[d], x.version[d] > Base(p)[d]
          PROVE  x.version[d] > z.version[d]
      BY <2>4, <2>5, <2>6
    <2> QED
      BY <2>1, <2>3, <2>6 DEF InLine
  <1>14. AllFit(j, s)
    <2> SUFFICES ASSUME NEW d \in Client, NEW q, NEW r, Holds(j, s, d, q, r)
                 PROVE  Fits(j, s, d, q, r.version)
      BY DEF AllFit
    <2>1. Holds(i, s, d, q, r)
      BY <1>2
    <2>2. Fits(i, s, d, q, r.version) /\ Base(q) \in VersionVector
      BY <1>1, <1>6, <2>1 DEF Chained, AllFit, Based
    <2>3. CASE q = p /\ d = c
      <3>1. r = z
        BY <2>1, <2>3
      <3>2. Public(j, p, z.version)
        BY <1>3, <1>5, AtMostFacts DEF Public
      <3>3. \A n \in Replica \ {c} : z.version[n] <= Seen(j, p)[n]
        BY <1>5, <1>11 DEF VersionVector, Clock
      <3> QED
        BY <2>3, <3>1, <3>2, <3>3 DEF Fits, InLine
    <2>4. CASE q = p /\ d # c
      <3>1. /\ r.version \in VersionVector /\ InLine(i, d, p, r.version)
            /\ Public(i, p, r.version)
                 \/ (r.version[d] > z.version[d] /\ r.version[d] > Base(p)[d])
        BY <1>13, <2>1, <2>4
      <3>2. \A n \in Replica \ {d} : r.version[n] <= Seen(j, p)[n] \/ r.version[n] <= Base(p)[n]
        <4> SUFFICES ASSUME NEW n \in Replica \ {d}, r.version[n] <= Seen(i, p)[n]
                     PROVE  r.version[n] <= Seen(j, p)[n]
          BY <3>1 DEF InLine
        <4>1. Seen(i, p)[n] <= Seen(j, p)[n]
          BY <1>9 DEF AtMost, Clock
        <4> QED
          BY <1>10, <3>1, <4>1 DEF VersionVector, Clock
      <3> QED
        BY <1>9, <1>11, <2>4, <3>1, <3>2 DEF InLine, Fits
    <2>5. CASE q # p /\ InLine(i, d, q, r.version)
      BY <1>11, <1>12, <2>5 DEF InLine, Fits
    <2>6. CASE q # p /\ IsCopy(q) /\ Sole(i, s, d, q) /\ OwnLoser(i, d, q)
      <3>1. OwnLoser(j, d, q)
        BY <1>9, <2>2, <2>6
      <3>2. Sole(j, s, d, q)
        BY <1>1, <1>2, <1>3, <1>4, <2>6 DEF Sole
      <3> QED
        BY <2>6, <3>1, <3>2 DEF Fits
    <2> QED
      BY <2>2, <2>3, <2>4, <2>5, <2>6 DEF Fits
  <1>15. CopiesKnown(j, s)
    <2> SUFFICES ASSUME NEW d \in Client, NEW q, NEW r, Holds(j, s, d, q, r), IsCopy(q),
                        q \notin DOMAIN j[Server]
                 PROVE  OwnLoser(j, d, q) \/ AtMost(Base(q), Seen(j, Origin(q)))
      BY DEF CopiesKnown
    <2>1. Holds(i, s, d, q, r) /\ q \notin DOMAIN i[Server]
      BY <1>2, <1>8
    <2>2. Base(q) \in VersionVector
      BY <1>1, <1>6, <2>1 DEF Based
    <2>3. OwnLoser(i, d, q) \/ AtMost(Base(q), Seen(i, Origin(q)))
      BY <2>1 DEF Chained, CopiesKnown
    <2> QED
      BY <1>9, <2>2, <2>3
  <1>16. OneState(j, s)
    <2>1. ASSUME NEW m \in Client, NEW n \in Client, NEW x, NEW y,
                 Holds(i, s, m, p, x), Holds(i, s, n, p, y),
                 Public(j, p, x.version), x.version = y.version
          PROVE  SameState(x, y)
      <3>1. CASE Public(i, p, x.version)
        BY <1>1, <2>1, <3>1 DEF Chained, OneState
      <3>2. CASE m # n
        BY <1>1, <2>1, <3>2, SameVersionPublic DEF Chained, OneState
      <3>3. CASE m = n /\ m = c
        BY <2>1, <3>3 DEF SameState
      <3>4. CASE m # c /\ ~Public(i, p, x.version)
        <4>1. x.version[m] > z.version[m] /\ x.version \in VersionVector
          BY <1>13, <2>1, <3>4
        <4>2. x.version[m] <= z.version[m]
          BY <1>1, <1>3, <2>1 DEF Public, AtMost, Clock
        <4> QED
          BY <1>1, <1>5, <4>1, <4>2 DEF VersionVector, Clock
      <3> QED
        BY <3>1, <3>2, <3>3, <3>4
    <2> SUFFICES ASSUME NEW m \in Replica, NEW n \in Replica, NEW q, NEW x, NEW y,
                        Holds(j, s, m, q, x), Holds(j, s, n, q, y),
                        Public(j, q, x.version), x.version = y.version
                 PROVE  SameState(x, y)
      BY DEF OneState
    <2>2. CASE q = p
      <3>1. \E d \in Client : Holds(i, s, d, p, x)
        BY <1>1, <1>2, <1>3, <1>4, <2>2
      <3>2. \E d \in Client : Holds(i, s, d, p, y)
        BY <1>1, <1>2, <1>3, <1>4, <2>2
      <3> QED
        BY <2>1, <2>2, <3>1, <3>2
    <2>3. CASE q # p
      <3>1. Holds(i, s, m, q, x) /\ Holds(i, s, n, q, y)
        BY <1>1, <1>2, <1>3, <1>4, <2>3
      <3> QED
        BY <1>12, <2>3, <3>1 DEF Chained, OneState
    <2> QED
      BY <2>2, <2>3
  <1> QED
    BY <1>7, <1>14, <1>15, <1>16 DEF Chained

\* Merged versions, component by component; the resolver's is no replica's.
LEMMA MergedParts ==
    ASSUME NEW l \in Record, NEW r \in Record, NEW n \in Replica
    PROVE  /\ Merge(l.version, r.version)[n] = Larger(l.version[n], r.version[n])
           /\ Resolved(l, r)[n] = Larger(l.version[n], r.version[n])
  <1> DEFINE m == Merge(l.version, r.version)
  <1>1. l.version \in VersionVector /\ r.version \in VersionVector
    BY DEF Record
  <1>2. n \in Clock /\ n # Resolver
    BY ReconcileAssumption DEF Clock
  <1>3. m[n] = Larger(l.version[n], r.version[n])
    BY <1>2 DEF Merge
  <1>4. m \in VersionVector
    BY <1>1, MergeFacts
  <1>5. Resolved(l, r) = [m EXCEPT ![Resolver] = Larger(m[Resolver], m[Resolver] + 1)]
    BY DEF Resolved, Observe
  <1> HIDE DEF m
  <1>6. Resolved(l, r)[n] = m[n]
    BY <1>2, <1>4, <1>5 DEF VersionVector
  <1> QED
    BY <1>3, <1>6 DEF m

\* What merge_snapshots keeps where both sides have a record, and versions have
\* one state each: one of the two records, or one that joins concurrent versions.
Joins(l, r, z) ==
    /\ Relation(l.version, r.version) = "Concurrent"
    /\ z \in Record
    /\ AtMost(l.version, z.version) /\ AtMost(r.version, z.version)
    /\ \A n \in Replica : z.version[n] = Larger(l.version[n], r.version[n])

LEMMA MergedOrJoined ==
    ASSUME NEW l \in Record, NEW r \in Record, l.version = r.version => SameState(l, r)
    PROVE  MergeRecord(l, r) \in {l, r} \/ Joins(l, r, MergeRecord(l, r))
  <1> DEFINE z == MergeRecord(l, r)
             m == Merge(l.version, r.version)
  <1>1. l.version \in VersionVector /\ r.version \in VersionVector
    BY DEF Record
  <1>2. m \in VersionVector /\ AtMost(l.version, m) /\ AtMost(r.version, m)
    BY <1>1, MergeFacts DEF AtMost
  <1>3. /\ Resolved(l, r) \in VersionVector
        /\ AtMost(l.version, Resolved(l, r)) /\ AtMost(r.version, Resolved(l, r))
    BY <1>1, ResolvedFacts, AtMostFacts
  <1>4. CASE Relation(l.version, r.version) = "Before"
    BY <1>4 DEF MergeRecord, Conflicting
  <1>5. CASE Relation(l.version, r.version) = "After"
    BY <1>5 DEF MergeRecord, Conflicting
  <1>6. CASE Relation(l.version, r.version) = "Equal"
    <2>1. l.version = r.version /\ SameState(l, r)
      BY <1>1, <1>6, EqualVectors
    <2>2. z = [l EXCEPT !.version = m]
      BY <1>6, <2>1 DEF MergeRecord, Conflicting
    <2>3. m = l.version
      <3>1. \A k \in Clock : Larger(l.version[k], l.version[k]) = l.version[k]
        BY DEF Larger
      <3>2. m = [k \in Clock |-> l.version[k]]
        BY <2>1, <3>1 DEF Merge
      <3> QED
        BY <1>1, <3>2 DEF VersionVector
    <2> HIDE DEF z, m
    <2>4. z = l
      BY <2>2, <2>3 DEF Record
    <2> QED
      BY <2>4 DEF z
  <1>7. CASE Relation(l.version, r.version) = "Concurrent"
    <2>1. CASE SameState(l, r)
      <3>1. z = [l EXCEPT !.version = m]
        BY <1>7, <2>1 DEF MergeRecord, Conflicting
      <3> HIDE DEF z, m
      <3>2. z \in Record /\ z.version = m
        BY <1>2, <3>1 DEF Record
      <3>3. \A n \in Replica : z.version[n] = Larger(l.version[n], r.version[n])
        BY <3>2, MergedParts DEF m
      <3> QED
        BY <1>2, <1>7, <3>2, <3>3 DEF Joins, z
    <2>2. CASE ~SameState(l, r)
      <3>1. z = [Winner(l, r) EXCEPT !.version = Resolved(l, r)]
        BY <1>7, <2>2 DEF MergeRecord, Conflicting
      <3>2. Winner(l, r) \in Record
        BY DEF Winner
      <3> HIDE DEF z, m
      <3>3. z \in Record /\ z.version = Resolved(l, r)
        BY <1>3, <3>1, <3>2 DEF Record
      <3>4. \A n \in Replica : z.version[n] = Larger(l.version[n], r.version[n])
        BY <3>3, MergedParts
      <3> QED
        BY <1>3, <1>7, <3>3, <3>4 DEF Joins, z
    <2> QED
      BY <2>1, <2>2
  <1>8. Relation(l.version, r.version) \in {"Before", "After", "Equal", "Concurrent"}
    BY RelationMeaning
  <1> QED
    BY <1>4, <1>5, <1>6, <1>7, <1>8

\* A record z that client c may add at a path to what it and the server have.
Addable(i, s, c, p, z) ==
    /\ z \in Record /\ Base(p) \in VersionVector /\ AtMost(Base(p), z.version)
    /\ Fits(i, s, c, p, z.version)
    /\ ~IsCopy(p) \/ p \in DOMAIN i[Server]
         \/ OwnLoser(i, c, p) \/ AtMost(Base(p), Seen(i, Origin(p)))
    /\ Public(i, p, z.version) => \E n \in {c, Server} : Holds(i, s, n, p, z)
    /\ \A d \in Client \ {c} : ~Sole(i, s, d, p) \/ ~OwnLoser(i, d, p)
         \/ \A x : ~Holds(i, s, d, p, x)

LEMMA OldAddable ==
    ASSUME NEW i, NEW s, Chained(i, s), NEW c \in Client, NEW n \in {c, Server}, NEW p, NEW z,
           Holds(i, s, n, p, z)
    PROVE  Addable(i, s, c, p, z)
  <1>1. /\ c \in Replica /\ Server \in Replica /\ c # Server /\ Server \notin Client
        /\ n \in Replica
    BY ServerAndClients DEF Client
  <1>2. z \in Record /\ Base(p) \in VersionVector /\ AtMost(Base(p), z.version)
    BY <1>1 DEF Chained, Based
  <1>3. \A d \in Client \ {c} : ~Sole(i, s, d, p)
    BY <1>1 DEF Sole
  <1>4. CASE n = c
    BY <1>2, <1>3, <1>4 DEF Addable, Chained, AllFit, CopiesKnown
  <1>5. CASE n = Server
    <2>1. p \in DOMAIN i[Server] /\ z = i[Server][p]
      BY <1>1, <1>5 DEF Holds
    <2>2. Public(i, p, z.version) /\ Seen(i, p) = z.version
      BY <1>2, <2>1, AtMostFacts DEF Public, Seen, Record
    <2>3. \A k \in Replica \ {c} : z.version[k] <= Seen(i, p)[k]
      BY <1>2, <2>2 DEF Record, VersionVector, Clock
    <2>4. InLine(i, c, p, z.version)
      BY <2>2, <2>3 DEF InLine
    <2> QED
      BY <1>2, <1>3, <1>5, <2>1, <2>4 DEF Addable, Fits
  <1> QED
    BY <1>4, <1>5

\* Where both have a record, and the client's is not an older one: it has
\* something new of the client, and nothing else that is new.
LEMMA BothHave ==
    ASSUME NEW i, NEW s, Chained(i, s), NEW c \in Client, NEW p \in DOMAIN i[c] \cap DOMAIN i[Server],
           ~AtMost(i[c][p].version, i[Server][p].version)
    PROVE  LET l == i[c][p].version
               r == i[Server][p].version
           IN  /\ i[c][p] \in Record /\ i[Server][p] \in Record
               /\ Base(p) \in VersionVector /\ AtMost(Base(p), l) /\ AtMost(Base(p), r)
               /\ Seen(i, p) = r
               /\ l[c] > r[c] /\ l[c] > Base(p)[c]
               /\ \A n \in Replica \ {c} : l[n] <= r[n]
  <1> DEFINE l == i[c][p].version
             r == i[Server][p].version
  <1>1. c \in Replica /\ Server \in Replica /\ c # Server
    BY ServerAndClients DEF Client
  <1>2. Holds(i, s, c, p, i[c][p]) /\ Holds(i, s, Server, p, i[Server][p])
    BY DEF Holds
  <1>3. /\ i[c][p] \in Record /\ i[Server][p] \in Record
        /\ Base(p) \in VersionVector /\ AtMost(Base(p), l) /\ AtMost(Base(p), r)
    BY <1>1, <1>2 DEF Chained, Based
  <1>4. Seen(i, p) = r
    BY DEF Seen
  <1>5. ~Public(i, p, l)
    BY DEF Public
  <1>6. InLine(i, c, p, l)
    <2>1. ~Sole(i, s, c, p)
      BY <1>1, <1>2 DEF Sole
    <2>2. Fits(i, s, c, p, l)
      BY <1>2 DEF Chained, AllFit
    <2> QED
      BY <2>1, <2>2 DEF Fits
  <1>7. l[c] > r[c] /\ l[c] > Base(p)[c]
    BY <1>4, <1>5, <1>6 DEF InLine
  <1>8. ASSUME NEW n \in Replica \ {c}
        PROVE  l[n] <= r[n]
    <2>1. l[n] <= r[n] \/ l[n] <= Base(p)[n]
      BY <1>4, <1>6 DEF InLine
    <2>2. Base(p)[n] <= r[n]
      BY <1>3 DEF AtMost, Clock
    <2>3. l[n] \in Nat /\ r[n] \in Nat /\ Base(p)[n] \in Nat
      BY <1>3 DEF Record, VersionVector, Clock
    <2> HIDE DEF l, r
    <2> QED
      BY <2>1, <2>2, <2>3
  <1> QED
    BY <1>3, <1>4, <1>7, <1>8

LEMMA JoinAddable ==
    ASSUME NEW i, NEW s, Chained(i, s), NEW c \in Client, NEW p \in DOMAIN i[c] \cap DOMAIN i[Server],
           NEW z, Joins(i[c][p], i[Server][p], z)
    PROVE  Addable(i, s, c, p, z)
  <1> DEFINE l == i[c][p].version
             r == i[Server][p].version
             w == z.version
             b == Base(p)
  <1>1. c \in Replica /\ Server \in Replica /\ c # Server /\ Replica \subseteq Clock
    BY ServerAndClients DEF Client, Clock
  <1>2. Holds(i, s, c, p, i[c][p]) /\ Holds(i, s, Server, p, i[Server][p])
    BY DEF Holds
  <1>3. l \in VersionVector /\ r \in VersionVector /\ w \in VersionVector
    BY <1>1, <1>2 DEF Chained, Based, Record, Joins
  <1>4. ~AtMost(l, r)
    BY <1>3, AtMostFacts DEF Joins
  <1>5. /\ b \in VersionVector /\ AtMost(b, l) /\ Seen(i, p) = r
        /\ l[c] > r[c] /\ l[c] > b[c]
        /\ \A n \in Replica \ {c} : l[n] <= r[n]
    BY <1>4, BothHave
  <1>6. AtMost(l, w) /\ \A n \in Replica : w[n] = Larger(l[n], r[n])
    BY DEF Joins
  <1>7. p \in DOMAIN i[Server] /\ ~Public(i, p, w) <=> ~AtMost(w, r)
    BY DEF Public
  <1>8. \A d \in Client \ {c} : ~Sole(i, s, d, p)
    BY <1>1, <1>2 DEF Sole
  <1>9. z \in Record
    BY DEF Joins
  <1> HIDE DEF l, r, w, b
  <1>10. w[c] > r[c] /\ w[c] > b[c] /\ \A n \in Replica \ {c} : w[n] <= r[n]
    <2>1. \A n \in Replica : l[n] \in Nat /\ r[n] \in Nat /\ w[n] \in Nat /\ b[n] \in Nat
      BY <1>1, <1>3, <1>5 DEF VersionVector
    <2> QED
      BY <1>1, <1>5, <1>6, <2>1 DEF Larger
  <1>11. ~AtMost(w, r)
    BY <1>1, <1>3, <1>10 DEF AtMost, VersionVector
  <1>12. AtMost(b, w)
    BY <1>3, <1>5, <1>6, AtMostFacts
  <1>13. InLine(i, c, p, w)
    BY <1>5, <1>10 DEF InLine, b
  <1>14. ~Public(i, p, w)
    BY <1>11 DEF Public, r
  <1> QED
    BY <1>5, <1>8, <1>9, <1>12, <1>13, <1>14 DEF Addable, Fits, w, b

\* A copy that the merge of the client's and the server's snapshots makes.
LEMMA CopyAddable ==
    ASSUME NEW i, NEW s, Chained(i, s), NEW c \in Client, IsIndex(i[c]), IsIndex(i[Server]),
           NEW p \in Losing(i[c], i[Server]), Plain(p),
           NEW q, q = CopyAt(i[c], i[Server])[p], q \notin DOMAIN i[c] \cup DOMAIN i[Server],
           NEW z, z = CopyOf(i[c], i[Server], p)
    PROVE  Addable(i, s, c, q, z)
  <1> DEFINE x == i[c][p]
             y == i[Server][p]
             l == x.version
             r == y.version
             w == Resolved(x, y)
             b == Base(q)
  <1>1. c \in Replica /\ Server \in Replica /\ c # Server /\ Replica \subseteq Clock
    BY ServerAndClients DEF Client, Clock
  <1>2. /\ p \in DOMAIN i[c] \cap DOMAIN i[Server] /\ Conflicting(x, y)
        /\ z \in Record /\ z.version = w /\ IsPath(p)
    BY CopyFacts DEF Losing, IsIndex
  <1>3. x \in Record /\ y \in Record /\ l \in VersionVector /\ r \in VersionVector
    BY <1>2 DEF IsIndex, IsSnapshot, Record
  <1>4. Relation(l, r) = "Concurrent"
    <2>1. l # r
      <3>1. l = r => SameState(x, y)
        BY <1>1, <1>2, ChainedStates
      <3> QED
        BY <1>2, <3>1 DEF Conflicting
    <2> QED
      BY <1>2, <1>3, <2>1, EqualVectors DEF Conflicting
  <1>5. ~AtMost(l, r) /\ ~AtMost(r, l)
    BY <1>3, <1>4, AtMostFacts
  <1>6. /\ Seen(i, p) = r /\ l[c] > r[c]
        /\ \A n \in Replica \ {c} : l[n] <= r[n]
    BY <1>2, <1>5, BothHave
  <1>7. IsCopy(q) /\ Lost(q) = Loser(x, y) /\ Origin(q) = p
    <2>1. q = ConflictPath(p, Loser(x, y), DOMAIN i[c] \cup DOMAIN i[Server])
      BY DEF CopyAt
    <2> QED
      BY <1>2, <2>1, CopyNamed
  <1>8. b \in {l, r}
    BY <1>7 DEF Base, Loser
  <1>9. /\ w \in VersionVector /\ AtMost(l, w) /\ AtMost(r, w)
        /\ \A n \in Replica : w[n] = Larger(l[n], r[n])
    BY <1>3, ResolvedFacts, AtMostFacts, MergedParts
  <1>10. Seen(i, q) = NoVersion /\ q \notin DOMAIN i[Server]
    BY DEF Seen
  <1>11. \A v : ~Public(i, q, v)
    BY <1>10 DEF Public
  <1>12. Seen(i, Origin(q)) = r
    BY <1>6, <1>7
  <1> HIDE DEF x, y, l, r, w, b
  <1>13. /\ \A n \in Replica : l[n] \in Nat /\ r[n] \in Nat /\ w[n] \in Nat
         /\ NoVersion[c] = 0
    BY <1>1, <1>3, <1>9 DEF VersionVector, NoVersion
  <1>14. CASE b = r
    <2>1. AtMost(b, Seen(i, Origin(q)))
      BY <1>3, <1>12, <1>14, AtMostFacts
    <2>2. InLine(i, c, q, w)
      <3>1. \A n \in Replica \ {c} : w[n] <= b[n]
        <4> SUFFICES ASSUME NEW n \in Replica \ {c}
                     PROVE  w[n] <= r[n]
          BY <1>14
        <4>1. /\ l[n] <= r[n] /\ w[n] = Larger(l[n], r[n])
              /\ l[n] \in Nat /\ r[n] \in Nat
          BY <1>6, <1>9, <1>13
        <4> QED
          BY <4>1 DEF Larger
      <3>2. w[c] > Seen(i, q)[c] /\ w[c] > b[c]
        BY <1>1, <1>6, <1>9, <1>10, <1>13, <1>14 DEF Larger
      <3> QED
        BY <3>1, <3>2 DEF InLine, b
    <2>3. \A d : ~OwnLoser(i, d, q)
      BY <2>1, <1>3, <1>12, <1>14, AtMostFacts DEF OwnLoser, b
    <2> QED
      BY <1>2, <1>3, <1>9, <1>11, <1>14, <2>1, <2>2, <2>3 DEF Addable, Fits, b
  <1>15. CASE b = l
    <2>1. OwnLoser(i, c, q)
      BY <1>5, <1>6, <1>12, <1>15 DEF OwnLoser, b
    <2>2. ASSUME NEW d \in Client \ {c}, NEW o, Holds(i, s, d, q, o)
          PROVE  FALSE
      <3>1. OwnLoser(i, d, q) \/ AtMost(b, Seen(i, Origin(q)))
        BY <1>7, <1>10, <2>2 DEF Chained, CopiesKnown, b
      <3>2. ~AtMost(b, Seen(i, Origin(q)))
        BY <1>5, <1>12, <1>15
      <3>3. b[c] <= Seen(i, Origin(q))[c]
        BY <1>1, <3>1, <3>2 DEF OwnLoser, b
      <3>4. l[c] <= r[c]
        BY <1>12, <1>15, <3>3
      <3> QED
        BY <1>1, <1>6, <1>13, <3>4
    <2>3. \A o : ~Holds(i, s, Server, q, o)
      BY <1>10 DEF Holds, Client
    <2>4. Sole(i, s, c, q)
      BY <2>2, <2>3 DEF Sole, Client
    <2> QED
      BY <1>2, <1>3, <1>7, <1>9, <1>11, <1>15, <2>1, <2>2, <2>4 DEF Addable, Fits, b
  <1> QED
    BY <1>8, <1>14, <1>15

\* The plan of a client: merge_snapshots over its own and the server's snapshot.
LEMMA PlanChained ==
    ASSUME NEW i, NEW s, Chained(i, s), NEW c \in Client, IsIndex(i[c]), IsIndex(i[Server]),
           \A p \in DOMAIN i[c] : Plain(p),
           NEW t, t[c].desired = MergeSnapshots(i[c], i[Server]),
           \A d \in Client \ {c} : t[d].desired = s[d].desired
    PROVE  Chained(i, t)
  <1> DEFINE L == i[c]
             R == i[Server]
             M == MergeSnapshots(L, R)
  <1>1. /\ Server \in Replica /\ Server \notin Client /\ Replica \ {Server} = Client
        /\ c \in Replica /\ \A d \in Client : d \in Replica /\ d # Server
    BY ServerAndClients DEF Client
  <1>0. \A p \in DOMAIN M \ (DOMAIN L \cup DOMAIN R) :
            \E o \in Losing(L, R) : p = CopyAt(L, R)[o] /\ M[p] = CopyOf(L, R, o)
    BY MergeShape
  <1>2. ASSUME NEW p \in DOMAIN M
        PROVE  Addable(i, s, c, p, M[p])
    <2>1. CASE p \in DOMAIN L \cup DOMAIN R
      <3>1. M[p] = MergedAt(L, R, p)
        BY <2>1, MergeShape
      <3>2. CASE p \notin DOMAIN R
        <4>1. Holds(i, s, c, p, M[p])
          BY <2>1, <3>1, <3>2 DEF MergedAt, Holds
        <4> QED
          BY <4>1, OldAddable
      <3>3. CASE p \notin DOMAIN L
        <4>1. Holds(i, s, Server, p, M[p])
          BY <2>1, <3>1, <3>3 DEF MergedAt, Holds
        <4> QED
          BY <4>1, OldAddable
      <3>4. CASE p \in DOMAIN L /\ p \in DOMAIN R
        <4>1. M[p] = MergeRecord(L[p], R[p])
          BY <3>1, <3>4 DEF MergedAt
        <4>2. L[p] \in Record /\ R[p] \in Record
          BY <3>4 DEF IsIndex, IsSnapshot
        <4>3. L[p].version = R[p].version => SameState(L[p], R[p])
          BY <1>1, <3>4, ChainedStates
        <4>4. M[p] \in {L[p], R[p]} \/ Joins(L[p], R[p], M[p])
          BY <4>1, <4>2, <4>3, MergedOrJoined
        <4>5. Holds(i, s, c, p, L[p]) /\ Holds(i, s, Server, p, R[p])
          BY <3>4 DEF Holds
        <4> QED
          BY <3>4, <4>4, <4>5, OldAddable, JoinAddable
      <3> QED
        BY <3>2, <3>3, <3>4
    <2>2. CASE p \notin DOMAIN L \cup DOMAIN R
      <3>1. PICK o \in Losing(L, R) : p = CopyAt(L, R)[o] /\ M[p] = CopyOf(L, R, o)
        BY <1>0, <2>2
      <3>2. Plain(o)
        BY DEF Losing
      <3> QED
        BY <2>2, <3>1, <3>2, CopyAddable
    <2> QED
      BY <2>1, <2>2
  <1> HIDE DEF L, R, M
  <1>3. \A n \in Replica \ {c} : \A p, r : Holds(i, t, n, p, r) <=> Holds(i, s, n, p, r)
    BY DEF Holds
  <1>4. ASSUME NEW p, NEW r, Holds(i, t, c, p, r)
        PROVE  Addable(i, s, c, p, r)
    <2>1. CASE p \in DOMAIN i[c] /\ r = i[c][p]
      <3>1. Holds(i, s, c, p, r)
        BY <2>1 DEF Holds
      <3> QED
        BY <3>1, OldAddable
    <2>2. CASE p \in DOMAIN M /\ r = M[p]
      BY <1>2, <2>2
    <2> QED
      BY <1>4, <2>1, <2>2 DEF Holds, M, L, R
  <1>5. Based(i, t)
    BY <1>3, <1>4 DEF Chained, Based, Addable
  <1>6. AllFit(i, t)
    <2> SUFFICES ASSUME NEW d \in Client, NEW p, NEW r, Holds(i, t, d, p, r)
                 PROVE  Fits(i, t, d, p, r.version)
      BY DEF AllFit
    <2>1. CASE d = c
      <3>1. Fits(i, s, c, p, r.version)
        BY <1>4, <2>1 DEF Addable
      <3>2. Sole(i, s, c, p) => Sole(i, t, c, p)
        BY <1>3 DEF Sole
      <3> QED
        BY <2>1, <3>1, <3>2 DEF Fits
    <2>2. CASE d # c
      <3>1. Holds(i, s, d, p, r) /\ Fits(i, s, d, p, r.version)
        BY <1>1, <1>3, <2>2 DEF Chained, AllFit
      <3>2. ASSUME Sole(i, s, d, p), OwnLoser(i, d, p)
            PROVE  Sole(i, t, d, p)
        <4>1. \A x : ~Holds(i, t, c, p, x)
          BY <1>4, <2>2, <3>1, <3>2 DEF Addable
        <4> QED
          BY <1>3, <3>2, <4>1 DEF Sole
      <3> QED
        BY <3>1, <3>2 DEF Fits
    <2> QED
      BY <2>1, <2>2
  <1>7. CopiesKnown(i, t)
    <2> SUFFICES ASSUME NEW d \in Client, NEW p, NEW r, Holds(i, t, d, p, r)
                 PROVE  \/ ~IsCopy(p) \/ p \in DOMAIN i[Server]
                        \/ OwnLoser(i, d, p) \/ AtMost(Base(p), Seen(i, Origin(p)))
      BY DEF CopiesKnown
    <2>1. CASE d = c
      BY <1>4, <2>1 DEF Addable
    <2>2. CASE d # c
      BY <1>1, <1>3, <2>2 DEF Chained, CopiesKnown
    <2> QED
      BY <2>1, <2>2
  <1>8. OneState(i, t)
    <2>1. ASSUME NEW n \in Replica, NEW p, NEW r, Holds(i, t, n, p, r), Public(i, p, r.version)
          PROVE  \E m \in Replica : Holds(i, s, m, p, r)
      <3>1. CASE n = c
        BY <1>1, <1>4, <2>1, <3>1 DEF Addable
      <3>2. CASE n # c
        BY <1>3, <2>1, <3>2
      <3> QED
        BY <3>1, <3>2
    <2> SUFFICES ASSUME NEW m \in Replica, NEW n \in Replica, NEW p, NEW x, NEW y,
                        Holds(i, t, m, p, x), Holds(i, t, n, p, y),
                        Public(i, p, x.version), x.version = y.version
                 PROVE  SameState(x, y)
      BY DEF OneState
    <2>2. PICK k \in Replica : Holds(i, s, k, p, x)
      BY <2>1
    <2>3. PICK o \in Replica : Holds(i, s, o, p, y)
      BY <2>1
    <2> QED
      BY <2>2, <2>3 DEF Chained, OneState
  <1> QED
    BY <1>5, <1>6, <1>7, <1>8 DEF Chained

-----------------------------------------------------------------------------
(* The steps of a pass, by what they do to roots and plans. *)

Keeps(c, s) == s.desired \in {Empty, session[c].desired}

Looks(c, s) == UNCHANGED replicas /\ Keeps(c, s)
Scans(c, s) == \E n \in {c, Server} : \E root \in Scan(n) : Becomes(n, root) /\ Keeps(c, s)
Plans(c, s) ==
    \E root \in Scan(Server) :
        /\ Becomes(Server, root)
        /\ s.desired = MergeSnapshots(index[c], root.index)
Installs(c, s) ==
    /\ s.desired = session[c].desired
    /\ \E p \in DOMAIN s.desired :
        Becomes(c, Install(Root(disk[c], index[c], counter[c]), p, s.desired[p]))
\* Everything is installed at the client when something is sent.
Sends(c, s) ==
    /\ s.desired = session[c].desired
    /\ \A p \in DOMAIN s.desired : p \in DOMAIN index[c] /\ index[c][p] = s.desired[p]
    /\ \E p \in DOMAIN s.desired : \E root \in Scan(Server) :
        /\ Accepts(root, p, s.desired[p])
        /\ Becomes(Server, Install(root, p, s.desired[p]))
Effect(c, s) == \/ Looks(c, s) \/ Scans(c, s) \/ Plans(c, s)
                \/ Installs(c, s) \/ Sends(c, s)

LEMMA PassEffect ==
    ASSUME ReplicasInv, PlansFit, NEW c \in Client, Pass(c)
    PROVE  \E s : Goto(c, s) /\ Effect(c, s)
  <1> DEFINE o == session[c]
  <1>1. IsPass(o, counter) /\ PlanFits(o, index[c])
    BY DEF ReplicasInv, PlansFit
  <1>2. /\ Idle.desired = Empty /\ [Idle EXCEPT !.step = "verify"].desired = Empty
        /\ \A S : [Idle EXCEPT !.step = "fetch", !.local = S].desired = Empty
    BY DEF Idle
  <1>3. /\ Keeps(c, Idle) /\ Keeps(c, [Idle EXCEPT !.step = "verify"])
        /\ \A S : Keeps(c, [Idle EXCEPT !.step = "fetch", !.local = S])
    BY <1>2 DEF Keeps
  <1> HIDE DEF o
  <1>4. /\ \A y : [o EXCEPT !.need = y].desired = o.desired
        /\ \A y : [o EXCEPT !.here = y].desired = o.desired
        /\ \A y : [o EXCEPT !.there = y].desired = o.desired
        /\ \A y : [o EXCEPT !.step = y].desired = o.desired
    BY <1>1, FieldsKept
  <1>5. /\ \A y : Keeps(c, [o EXCEPT !.need = y])
        /\ \A y : Keeps(c, [o EXCEPT !.step = y])
    BY <1>4 DEF Keeps, o
  <1>6. CASE StageLocal(c)
    <2>1. PICK h : \/ Goto(c, [o EXCEPT !.need = o.need \ {h}])
                   \/ Goto(c, Idle)
      BY <1>6 DEF StageLocal, o
    <2>2. UNCHANGED replicas
      BY <1>6 DEF StageLocal
    <2> QED
      BY <1>3, <1>5, <2>1, <2>2 DEF Effect, Looks
  <1>7. CASE Begin(c)
    <2>1. PICK root \in Scan(c) :
              /\ Becomes(c, root)
              /\ Goto(c, [Idle EXCEPT !.step = "fetch", !.local = root.index])
      BY <1>7 DEF Begin
    <2>2. Scans(c, [Idle EXCEPT !.step = "fetch", !.local = root.index])
      BY <1>3, <2>1 DEF Scans
    <2> QED
      BY <2>1, <2>2 DEF Effect
  <1>8. CASE StageRemote(c)
    <2>1. PICK root \in Scan(Server) :
              /\ Becomes(Server, root)
              /\ \E h \in o.need :
                  \/ Goto(c, [o EXCEPT !.need = o.need \ {h}])
                  \/ Goto(c, Idle)
      BY <1>8 DEF StageRemote, o
    <2>2. PICK s : Goto(c, s) /\ Keeps(c, s)
      BY <1>3, <1>5, <2>1
    <2> QED
      BY <2>1, <2>2 DEF Effect, Scans
  <1>9. CASE Check(c)
    <2>1. PICK root \in Scan(c) :
              /\ Becomes(c, root)
              /\ \/ Goto(c, [o EXCEPT !.step = "apply"])
                 \/ Goto(c, Idle)
      BY <1>9 DEF Check, o
    <2>2. PICK s : Goto(c, s) /\ Keeps(c, s)
      BY <1>3, <1>5, <2>1
    <2> QED
      BY <2>1, <2>2 DEF Effect, Scans
  <1>10. CASE VerifyLocal(c)
    <2>1. PICK root \in Scan(c) :
              /\ Becomes(c, root)
              /\ Goto(c, Idle) \/ Goto(c, [Idle EXCEPT !.step = "verify"])
      BY <1>10 DEF VerifyLocal
    <2>2. PICK s : Goto(c, s) /\ Keeps(c, s)
      BY <1>3, <2>1
    <2> QED
      BY <2>1, <2>2 DEF Effect, Scans
  <1>11. CASE VerifyRemote(c)
    <2>1. PICK root \in Scan(Server) : Becomes(Server, root) /\ Goto(c, Idle)
      BY <1>11 DEF VerifyRemote
    <2>2. Scans(c, Idle)
      BY <1>3, <2>1 DEF Scans
    <2> QED
      BY <2>1, <2>2 DEF Effect
  <1>12. CASE Fetch(c)
    <2>1. PICK root \in Scan(Server) :
              /\ Becomes(Server, root)
              /\ \E remote \in {FetchSnapshot(o.local, root.index)} :
                 \E desired \in {MergeSnapshots(o.local, remote)} :
                  \/ Goto(c, Plan(o.local, remote, desired))
                  \/ Goto(c, Idle)
      BY <1>12 DEF Fetch, o
    <2>2. o.local = index[c] /\ IsIndex(o.local) /\ IsIndex(root.index)
      <3>1. o.step = "fetch"
        BY <1>12 DEF Fetch, AtStep, o
      <3>2. IsRoot(Server, root)
        BY ServerAndClients, ScanSafe
      <3> QED
        BY <1>1, <3>1, <3>2 DEF PlanFits, IsPass, IsRoot
    <2>3. FetchSnapshot(o.local, root.index) = root.index
      BY <2>2, FetchExact
    <2>4. \A R, M : Plan(o.local, R, M).desired = M
      BY DEF Plan
    <2>5. CASE Goto(c, Plan(o.local, root.index, MergeSnapshots(o.local, root.index)))
      <3>1. Plans(c, Plan(o.local, root.index, MergeSnapshots(o.local, root.index)))
        BY <2>1, <2>2, <2>4 DEF Plans
      <3> QED
        BY <2>5, <3>1 DEF Effect
    <2>6. CASE Goto(c, Idle)
      <3>1. Scans(c, Idle)
        BY <1>3, <2>1 DEF Scans
      <3> QED
        BY <2>6, <3>1 DEF Effect
    <2> QED
      BY <2>1, <2>3, <2>5, <2>6
  <1>13. CASE Apply(c)
    <2> DEFINE root == Root(disk[c], index[c], counter[c])
    <2>1. PICK p \in o.here :
              \/ Goto(c, Idle) /\ UNCHANGED replicas
              \/ /\ Goto(c, [o EXCEPT !.here = o.here \ {p}])
                 /\ Becomes(c, Install(root, p, o.desired[p]))
      BY <1>13 DEF Apply, NextOf, o
    <2>2. CASE Goto(c, Idle) /\ UNCHANGED replicas
      BY <1>3, <2>2 DEF Effect, Looks
    <2>3. CASE /\ Goto(c, [o EXCEPT !.here = o.here \ {p}])
               /\ Becomes(c, Install(root, p, o.desired[p]))
      <3> DEFINE s == [o EXCEPT !.here = o.here \ {p}]
      <3>1. s.desired = o.desired /\ p \in DOMAIN o.desired
        BY <1>1, <1>4 DEF IsPass
      <3> HIDE DEF s
      <3>2. Installs(c, s)
        BY <2>3, <3>1 DEF Installs, o
      <3> QED
        BY <2>3, <3>2 DEF Effect, s
    <2> QED
      BY <2>1, <2>2, <2>3
  <1>14. CASE Push(c)
    <2>1. PICK p \in SentNext(c), root \in Scan(Server) :
              \/ Goto(c, Idle) /\ UNCHANGED replicas
              \/ Goto(c, Idle) /\ Becomes(Server, root)
              \/ /\ Accepts(root, p, o.desired[p])
                 /\ Goto(c, [o EXCEPT !.there = o.there \ {p}])
                 /\ Becomes(Server, Install(root, p, o.desired[p]))
      BY <1>14 DEF Push, o
    <2>2. CASE Goto(c, Idle) /\ UNCHANGED replicas
      BY <1>3, <2>2 DEF Effect, Looks
    <2>3. CASE Goto(c, Idle) /\ Becomes(Server, root)
      <3>1. Scans(c, Idle)
        BY <1>3, <2>3 DEF Scans
      <3> QED
        BY <2>3, <3>1 DEF Effect
    <2>4. CASE /\ Accepts(root, p, o.desired[p])
               /\ Goto(c, [o EXCEPT !.there = o.there \ {p}])
               /\ Becomes(Server, Install(root, p, o.desired[p]))
      <3> DEFINE s == [o EXCEPT !.there = o.there \ {p}]
      <3>1. o.step = "apply" /\ o.here = {} /\ p \in o.there
        BY DEF SentNext, NextOf, AtStep, o
      <3>2. s.desired = o.desired /\ p \in DOMAIN o.desired
        BY <1>1, <1>4, <3>1 DEF IsPass
      <3>3. \A q \in DOMAIN o.desired : q \in DOMAIN index[c] /\ index[c][q] = o.desired[q]
        BY <1>1, <3>1 DEF PlanFits
      <3> HIDE DEF s
      <3>4. Sends(c, s)
        BY <2>4, <3>2, <3>3 DEF Sends, o
      <3> QED
        BY <2>4, <3>4 DEF Effect, s
    <2> QED
      BY <2>1, <2>2, <2>3, <2>4
  <1> QED
    BY <1>6, <1>7, <1>8, <1>9, <1>10, <1>11, <1>12, <1>13, <1>14 DEF Pass

-----------------------------------------------------------------------------
(* Names.  Users name no file like a conflict copy, so a copy is on a disk only *)
(* where a merge has put it, with a row.                                        *)

Names(f, i) ==
    /\ \A p \in DOMAIN f \cup DOMAIN i : Plain(p)
    /\ \A p \in DOMAIN f \ DOMAIN i : ~IsCopy(p)
AllPlain(S) == \A p \in DOMAIN S : Plain(p)

NamesKnown ==
    /\ \A n \in Replica : Names(disk[n], index[n])
    /\ \A c \in Client : AllPlain(session[c].desired)

LEMMA ScanNames ==
    ASSUME ReplicasInv, NamesKnown, NEW n \in Replica, NEW root \in Scan(n)
    PROVE  Names(root.disk, root.index)
  <1>1. /\ root.disk = [p \in DOMAIN disk[n] |-> Entry(disk[n][p].content, p)]
        /\ DOMAIN root.index = DOMAIN index[n] \cup DOMAIN disk[n]
    BY ScanShape DEF Scanned
  <1> QED
    BY <1>1 DEF Names, NamesKnown

LEMMA InstallNames ==
    ASSUME NEW root, Names(root.disk, root.index), NEW p, IsPath(p), Plain(p), NEW r
    PROVE  Names(Install(root, p, r).disk, Install(root, p, r).index)
  <1> DEFINE f == root.disk
             g == WithParents(f, p)
             h == Install(root, p, r).disk
             j == Install(root, p, r).index
  <1>1. \A a \in Ancestors(p) : Plain(a) /\ ~IsCopy(a)
    BY AncestorPlain
  <1>2. DOMAIN g = DOMAIN f \cup Ancestors(p)
    BY DEF WithParents
  <1>3. DOMAIN h \subseteq DOMAIN g \cup {p}
    BY DEF Install, Root, Without, Put
  <1>4. DOMAIN j = DOMAIN root.index \cup {p}
    BY DEF Install, Root, Put
  <1> HIDE DEF h, j, g, f
  <1>5. Names(f, root.index)
    BY DEF f
  <1>6. Names(h, j)
    BY <1>1, <1>2, <1>3, <1>4, <1>5 DEF Names
  <1> QED
    BY <1>6 DEF h, j

LEMMA MergeNames ==
    ASSUME NEW L, NEW R, IsIndex(L), AllPlain(L), AllPlain(R)
    PROVE  AllPlain(MergeSnapshots(L, R))
  <1>1. \A p \in Losing(L, R) : p \in DOMAIN L /\ IsPath(p) /\ Plain(p)
    BY DEF Losing, IsIndex, AllPlain
  <1>2. \A p \in Losing(L, R) : Plain(CopyAt(L, R)[p])
    <2> SUFFICES ASSUME NEW p \in Losing(L, R)
                 PROVE  Plain(CopyAt(L, R)[p])
      OBVIOUS
    <2>1. CopyAt(L, R)[p] = ConflictPath(p, Loser(L[p], R[p]), DOMAIN L \cup DOMAIN R)
      BY DEF CopyAt
    <2> QED
      BY <1>1, <2>1, CopyNamed
  <1>3. DOMAIN MergeSnapshots(L, R) =
            DOMAIN L \cup DOMAIN R \cup {CopyAt(L, R)[p] : p \in Losing(L, R)}
    BY MergeShape
  <1> QED
    BY <1>2, <1>3 DEF AllPlain

LEMMA UserNames == \A p \in Path : Plain(p) /\ ~IsCopy(p)
  <1> SUFFICES ASSUME NEW p \in Path
               PROVE  Plain(p) /\ ~IsCopy(p)
    OBVIOUS
  <1> DEFINE S == [stem: Nat, suffixes: {<<>>}]
  <1>1. p \in Seq(S) /\ IsPath(p)
    BY ReplicasAssumption, UserPaths
  <1>2. \A x \in S : x = [stem |-> x.stem, suffixes |-> x.suffixes] /\ x.suffixes = <<>>
    OBVIOUS
  <1>3. <<>> \in Seq({})
    BY EmptySeq
  <1> HIDE DEF S
  <1>4. Len(p) \in 1 .. Len(p) /\ \A k \in 1 .. Len(p) : p[k] \in S
    BY <1>1, PathFacts, ElementOfSeq
  <1>5. \A k \in 1 .. Len(p) : IsName(p[k]) /\ p[k].suffixes = <<>>
    BY <1>2, <1>3, <1>4 DEF IsName
  <1> QED
    BY <1>4, <1>5 DEF Plain, IsCopy

\* A root and a plan of a step.
LEMMA NamesStep ==
    ASSUME ReplicasInv, NamesKnown, NEW n \in Replica, NEW root, Becomes(n, root),
           Names(root.disk, root.index),
           NEW c \in Client, NEW s, Goto(c, s), AllPlain(s.desired)
    PROVE  NamesKnown'
  <1>1. \A m \in Replica : /\ disk'[m] = IF m = n THEN root.disk ELSE disk[m]
                           /\ index'[m] = IF m = n THEN root.index ELSE index[m]
    BY DEF Becomes, ReplicasInv
  <1>2. \A d \in Client : session'[d] = IF d = c THEN s ELSE session[d]
    BY DEF Goto, ReplicasInv
  <1> QED
    BY <1>1, <1>2 DEF NamesKnown

LEMMA PassNames ==
    ASSUME ReplicasInv, PlansFit, NamesKnown, NEW c \in Client, Pass(c)
    PROVE  NamesKnown'
  <1>1. PICK s : Goto(c, s) /\ Effect(c, s)
    BY PassEffect
  <1>2. c \in Replica /\ Server \in Replica
    BY ServerAndClients
  <1>3. \A n \in Replica : Names(disk[n], index[n])
    BY DEF NamesKnown
  <1>4. AllPlain(session[c].desired) /\ AllPlain(Empty)
    BY DEF NamesKnown, AllPlain, Empty
  <1>5. \A p \in DOMAIN session[c].desired : IsPath(p) /\ Plain(p)
    BY <1>4, DesiredRecord DEF AllPlain
  <1>6. CASE Looks(c, s)
    <2>1. \A d \in Client : session'[d] = IF d = c THEN s ELSE session[d]
      BY <1>1 DEF Goto, ReplicasInv
    <2>2. AllPlain(s.desired) /\ disk' = disk /\ index' = index
      BY <1>4, <1>6 DEF Looks, Keeps, replicas
    <2> QED
      BY <2>1, <2>2 DEF NamesKnown
  <1>7. CASE Scans(c, s)
    <2>1. PICK n \in {c, Server} : \E root \in Scan(n) : Becomes(n, root) /\ Keeps(c, s)
      BY <1>7 DEF Scans
    <2>2. PICK root \in Scan(n) : Becomes(n, root) /\ Keeps(c, s)
      BY <2>1
    <2>3. AllPlain(s.desired) /\ n \in Replica
      BY <1>2, <1>4, <2>2 DEF Keeps
    <2> QED
      BY <1>1, <2>2, <2>3, ScanNames, NamesStep
  <1>8. CASE Plans(c, s)
    <2>1. PICK root \in Scan(Server) :
              Becomes(Server, root) /\ s.desired = MergeSnapshots(index[c], root.index)
      BY <1>8 DEF Plans
    <2>2. Names(root.disk, root.index)
      BY <1>2, ScanNames
    <2>3. IsIndex(index[c]) /\ AllPlain(index[c]) /\ AllPlain(root.index)
      BY <1>2, <1>3, <2>2 DEF Names, AllPlain, ReplicasInv
    <2> QED
      BY <1>1, <1>2, <2>1, <2>2, <2>3, MergeNames, NamesStep
  <1>9. CASE Installs(c, s)
    <2> DEFINE root == Root(disk[c], index[c], counter[c])
    <2>1. Names(root.disk, root.index)
      BY <1>2, <1>3 DEF Root
    <2>2. PICK p \in DOMAIN s.desired : Becomes(c, Install(root, p, s.desired[p]))
      BY <1>9 DEF Installs
    <2>3. AllPlain(s.desired) /\ IsPath(p) /\ Plain(p)
      BY <1>4, <1>5, <1>9 DEF Installs
    <2> HIDE DEF root
    <2> QED
      BY <1>1, <1>2, <2>1, <2>2, <2>3, InstallNames, NamesStep
  <1>10. CASE Sends(c, s)
    <2>1. PICK p \in DOMAIN s.desired : \E root \in Scan(Server) :
              Becomes(Server, Install(root, p, s.desired[p]))
      BY <1>10 DEF Sends
    <2>2. PICK root \in Scan(Server) : Becomes(Server, Install(root, p, s.desired[p]))
      BY <2>1
    <2>3. AllPlain(s.desired) /\ IsPath(p) /\ Plain(p)
      BY <1>4, <1>5, <1>10 DEF Sends
    <2>4. Names(root.disk, root.index)
      BY <1>2, ScanNames
    <2> QED
      BY <1>1, <1>2, <2>2, <2>3, <2>4, InstallNames, NamesStep
  <1> QED
    BY <1>1, <1>6, <1>7, <1>8, <1>9, <1>10 DEF Effect

LEMMA EditNames ==
    ASSUME ReplicasInv, NamesKnown, NEW n \in Replica, User(n)
    PROVE  NamesKnown'
  <1> DEFINE f == disk[n]
  <1>1. PICK p \in Path :
            \/ \E v \in Content : Write(n, p, v)
            \/ MakeDirectory(n, p)
            \/ Delete(n, p)
            \/ \E q \in Path : Move(n, p, q)
    BY DEF User
  <1>2. \E g : disk' = [disk EXCEPT ![n] = g] /\ DOMAIN g \subseteq DOMAIN f \cup Path
    <2>1. /\ \A q \in Path : \A e : DOMAIN Put(f, q, e) \subseteq DOMAIN f \cup Path
          /\ \A S : DOMAIN Without(f, S) \subseteq DOMAIN f \cup Path
          /\ \A S, e : \A q \in Path : DOMAIN Put(Without(f, S), q, e) \subseteq DOMAIN f \cup Path
      BY DEF Put, Without
    <2>2. \E g : /\ disk' = [disk EXCEPT ![n] = g]
                 /\ \/ \E e : g = Put(f, p, e)
                    \/ \E S : g = Without(f, S)
                    \/ \E q \in Path : \E S, e : g = Put(Without(f, S), q, e)
      <3>1. ASSUME NEW v \in Content, Write(n, p, v)
            PROVE  disk' = [disk EXCEPT ![n] = Put(f, p, NewEntry(v))]
        BY <3>1 DEF Write, Edit
      <3>2. CASE MakeDirectory(n, p)
        BY <3>2 DEF MakeDirectory, Edit
      <3>3. CASE Delete(n, p)
        BY <3>3 DEF Delete, Edit
      <3>4. ASSUME NEW q \in Path, Move(n, p, q)
            PROVE  disk' = [disk EXCEPT ![n] = Put(Without(f, {p}), q, f[p])]
        BY <3>4 DEF Move, Edit
      <3> QED
        BY <1>1, <3>1, <3>2, <3>3, <3>4
    <2> HIDE DEF f
    <2> QED
      BY <2>1, <2>2
  <1>3. PICK g : disk' = [disk EXCEPT ![n] = g] /\ DOMAIN g \subseteq DOMAIN f \cup Path
    BY <1>2
  <1>4. index' = index /\ session' = session
    BY <1>1 DEF Write, MakeDirectory, Delete, Move, Edit
  <1>5. \A m \in Replica : disk'[m] = IF m = n THEN g ELSE disk[m]
    BY <1>3 DEF ReplicasInv
  <1>6. Names(g, index[n])
    BY <1>3, UserNames DEF NamesKnown, Names
  <1> QED
    BY <1>4, <1>5, <1>6 DEF NamesKnown

LEMMA NamesAlways == Spec => []NamesKnown
  <1>1. Init => NamesKnown
    <2>1. DOMAIN Empty = {} /\ Idle.desired = Empty
      BY DEF Empty, Idle
    <2> QED
      BY <2>1 DEF Init, NamesKnown, Names, AllPlain
  <1>2. ReplicasInv /\ PlansFit /\ NamesKnown /\ [Next]_vars => NamesKnown'
    <2> SUFFICES ASSUME ReplicasInv, PlansFit, NamesKnown, [Next]_vars
                 PROVE  NamesKnown'
      OBVIOUS
    <2>1. ASSUME NEW c \in Client, Fail(c)
          PROVE  NamesKnown'
      <3>1. \A d \in Client : session'[d] = IF d = c THEN Idle ELSE session[d]
        BY <2>1 DEF Fail, Goto, ReplicasInv
      <3>2. disk' = disk /\ index' = index
        BY <2>1 DEF Fail, replicas
      <3>3. AllPlain(Idle.desired)
        BY DEF Idle, Empty, AllPlain
      <3> QED
        BY <3>1, <3>2, <3>3 DEF NamesKnown
    <2>2. CASE UNCHANGED vars
      BY <2>2 DEF vars, NamesKnown
    <2> QED
      BY <2>1, <2>2, PassNames, EditNames DEF Next
  <1> QED
    BY <1>1, <1>2, ReplicasSafe, PlansFitAlways, PTL DEF Spec

-----------------------------------------------------------------------------
(* The steps keep to the chain. *)

ChainKept == Chained(index, session)

LEMMA ScanChained ==
    ASSUME ReplicasInv, OwnRows, NamesKnown, ChainKept, NEW n \in Replica, NEW root \in Scan(n),
           NEW j, j[n] = root.index, \A m \in Replica \ {n} : j[m] = index[m]
    PROVE  Chained(j, session)
  <1>1. Ticked(n, root.index) /\ IsIndex(root.index)
    BY ScanTicks, ScanSafe DEF IsRoot
  <1>2. \A p \in DOMAIN disk[n] \ DOMAIN index[n] : ~IsCopy(p)
    BY DEF NamesKnown, Names
  <1>3. CASE n = Server
    <2>1. \A d \in Client : j[d] = index[d]
      BY <1>3 DEF Client
    <2> QED
      BY <1>1, <1>2, <1>3, <2>1, ServerScanChained DEF ChainKept
  <1>4. CASE n \in Client
    BY <1>1, <1>2, <1>4, ClientScanChained DEF ChainKept
  <1> QED
    BY <1>3, <1>4 DEF Client

LEMMA PassChained ==
    ASSUME ReplicasInv, PlansFit, OwnRows, NamesKnown, ChainKept, NEW c \in Client, Pass(c)
    PROVE  ChainKept'
  <1>1. PICK s : Goto(c, s) /\ Effect(c, s)
    BY PassEffect
  <1>2. c \in Replica /\ Server \in Replica /\ c # Server
    BY ServerAndClients DEF Client
  <1>3. \A d \in Client : session'[d] = IF d = c THEN s ELSE session[d]
    BY <1>1 DEF Goto, ReplicasInv
  <1>4. DOMAIN Empty = {}
    BY DEF Empty
  <1>5. ASSUME Keeps(c, s) \/ s.desired = session[c].desired
        PROVE  \A i : \A n \in Replica : \A p, r :
                    Holds(i, session', n, p, r) => Holds(i, session, n, p, r)
    BY <1>3, <1>4, <1>5 DEF Holds, Keeps
  <1>6. CASE Looks(c, s)
    <2>1. index' = index
      BY <1>6 DEF Looks, replicas
    <2>2. \A n \in Replica : \A p, r : Holds(index, session', n, p, r) => Holds(index, session, n, p, r)
      BY <1>5, <1>6 DEF Looks
    <2>3. Chained(index, session')
      BY <2>2, FewerRecords DEF ChainKept
    <2> QED
      BY <2>1, <2>3 DEF ChainKept
  <1>7. CASE Scans(c, s)
    <2>1. PICK n \in {c, Server} : \E root \in Scan(n) : Becomes(n, root) /\ Keeps(c, s)
      BY <1>7 DEF Scans
    <2>2. PICK root \in Scan(n) : Becomes(n, root) /\ Keeps(c, s)
      BY <2>1
    <2>3. Chained(index', session)
      BY <1>2, <2>2, OthersKept, ScanChained
    <2>4. \A m \in Replica : \A p, r :
              Holds(index', session', m, p, r) => Holds(index', session, m, p, r)
      BY <1>5, <2>2
    <2> QED
      BY <2>3, <2>4, FewerRecords DEF ChainKept
  <1>8. CASE Plans(c, s)
    <2>1. PICK root \in Scan(Server) :
              Becomes(Server, root) /\ s.desired = MergeSnapshots(index[c], root.index)
      BY <1>8 DEF Plans
    <2>2. index'[Server] = root.index /\ index'[c] = index[c]
      BY <1>2, <2>1, OthersKept
    <2>3. Chained(index', session)
      BY <1>2, <2>1, OthersKept, ScanChained
    <2>4. IsIndex(index'[c]) /\ IsIndex(index'[Server])
      BY <1>2, <2>2, ScanSafe DEF ReplicasInv, IsRoot
    <2>5. \A p \in DOMAIN index'[c] : Plain(p)
      BY <1>2, <2>2 DEF NamesKnown, Names
    <2>6. session'[c].desired = MergeSnapshots(index'[c], index'[Server])
      BY <1>3, <2>1, <2>2
    <2>7. \A d \in Client \ {c} : session'[d].desired = session[d].desired
      BY <1>3
    <2> QED
      BY <2>3, <2>4, <2>5, <2>6, <2>7, PlanChained DEF ChainKept
  <1>9. CASE Installs(c, s)
    <2> DEFINE root == Root(disk[c], index[c], counter[c])
    <2>1. s.desired = session[c].desired
      BY <1>9 DEF Installs
    <2>2. PICK p \in DOMAIN s.desired : Becomes(c, Install(root, p, s.desired[p]))
      BY <1>9 DEF Installs
    <2>3. Install(root, p, s.desired[p]).index = Put(index[c], p, s.desired[p])
      BY DEF Install, Root
    <2> HIDE DEF root
    <2>4. /\ index'[c] = Put(index[c], p, s.desired[p])
          /\ \A m \in Replica \ {c} : index'[m] = index[m]
      BY <1>2, <2>2, <2>3, OthersKept
    <2>5. ASSUME NEW n \in Replica, NEW q, NEW r, Holds(index', session', n, q, r)
          PROVE  Holds(index, session, n, q, r)
      <3>1. Holds(index', session, n, q, r)
        BY <1>5, <2>1, <2>5
      <3>2. CASE n = c
        <4>1. \/ q \in DOMAIN index[c] /\ r = index[c][q]
              \/ q = p /\ r = s.desired[p]
              \/ q \in DOMAIN session[c].desired /\ r = session[c].desired[q]
          BY <2>4, <3>1, <3>2 DEF Holds, Put
        <4> QED
          BY <2>1, <3>2, <4>1 DEF Holds
      <3>3. CASE n # c
        BY <2>4, <3>1, <3>3 DEF Holds
      <3> QED
        BY <3>2, <3>3
    <2>6. index'[Server] = index[Server]
      BY <1>2, <2>4
    <2> QED
      BY <2>5, <2>6, FewerRecords DEF ChainKept
  <1>10. CASE Sends(c, s)
    <2>1. /\ s.desired = session[c].desired
          /\ \A q \in DOMAIN s.desired : q \in DOMAIN index[c] /\ index[c][q] = s.desired[q]
      BY <1>10 DEF Sends
    <2>2. PICK p \in DOMAIN s.desired : \E root \in Scan(Server) :
              /\ Accepts(root, p, s.desired[p])
              /\ Becomes(Server, Install(root, p, s.desired[p]))
      BY <1>10 DEF Sends
    <2>3. PICK root \in Scan(Server) :
              /\ Accepts(root, p, s.desired[p])
              /\ Becomes(Server, Install(root, p, s.desired[p]))
      BY <2>2
    <2> DEFINE z == s.desired[p]
               j == [n \in Replica |-> IF n = Server THEN root.index ELSE index[n]]
    <2>4. j[Server] = root.index /\ \A m \in Replica \ {Server} : j[m] = index[m]
      BY <1>2
    <2>5. Install(root, p, z).index = Put(root.index, p, z)
      BY DEF Install, Root
    <2>6. p \in DOMAIN root.index => Admits(root.index[p], z)
      BY <2>3 DEF Accepts, CausallyApplicable
    <2> HIDE DEF j, z
    <2>7. Chained(j, session)
      BY <1>2, <2>4, ScanChained
    <2>8. Becomes(Server, Install(root, p, z))
      BY <2>3 DEF z
    <2>9. /\ index'[Server] = Put(j[Server], p, z)
          /\ \A m \in Client : index'[m] = j[m]
      BY <1>2, <2>4, <2>5, <2>8, OthersKept, ServerAndClients DEF Client
    <2>10. p \in DOMAIN index[c] /\ index[c][p] = z /\ session[c].desired[p] = z
      BY <2>1 DEF z
    <2>11. Holds(j, session, c, p, z) /\ \A r : Holds(j, session, c, p, r) => r = z
      BY <1>2, <2>4, <2>10 DEF Holds
    <2>12. p \in DOMAIN j[Server] => Admits(j[Server][p], z)
      BY <2>4, <2>6
    <2>13. Chained(index', session)
      BY <2>7, <2>9, <2>11, <2>12, PushChained
    <2>14. \A m \in Replica : \A q, r :
              Holds(index', session', m, q, r) => Holds(index', session, m, q, r)
      BY <1>5, <2>1
    <2> QED
      BY <2>13, <2>14, FewerRecords DEF ChainKept
  <1> QED
    BY <1>1, <1>6, <1>7, <1>8, <1>9, <1>10 DEF Effect

LEMMA ChainAlways == Spec /\ [][~Rename]_vars => []ChainKept
  <1>1. Init => ChainKept
    <2> SUFFICES ASSUME Init
                 PROVE  ChainKept
      OBVIOUS
    <2>1. DOMAIN Empty = {} /\ Idle.desired = Empty
      BY DEF Empty, Idle
    <2>2. \A n \in Replica : \A p, r : ~Holds(index, session, n, p, r)
      BY <2>1 DEF Init, Holds
    <2> QED
      BY <2>2, ServerAndClients DEF ChainKept, Chained, Based, AllFit, CopiesKnown, OneState
  <1>2. ReplicasInv /\ PlansFit /\ OwnRows /\ NamesKnown /\ ChainKept /\ [Next]_vars => ChainKept'
    <2> SUFFICES ASSUME ReplicasInv, PlansFit, OwnRows, NamesKnown, ChainKept, [Next]_vars
                 PROVE  ChainKept'
      OBVIOUS
    <2>1. ASSUME NEW c \in Client, Fail(c)
          PROVE  ChainKept'
      <3>1. \A d \in Client : session'[d] = IF d = c THEN Idle ELSE session[d]
        BY <2>1 DEF Fail, Goto, ReplicasInv
      <3>2. index' = index
        BY <2>1 DEF Fail, replicas
      <3>3. DOMAIN Idle.desired = {}
        BY DEF Idle, Empty
      <3>4. \A n \in Replica : \A p, r :
                Holds(index', session', n, p, r) => Holds(index, session, n, p, r)
        BY <3>1, <3>2, <3>3 DEF Holds
      <3> QED
        BY <3>2, <3>4, FewerRecords DEF ChainKept
    <2>2. ASSUME NEW n \in Replica, User(n)
          PROVE  ChainKept'
      <3>1. session' = session /\ index' = index
        BY <2>2 DEF User, Write, MakeDirectory, Delete, Move, Edit
      <3> QED
        BY <3>1 DEF ChainKept
    <2>3. CASE UNCHANGED vars
      BY <2>3 DEF vars, ChainKept
    <2> QED
      BY <2>1, <2>2, <2>3, PassChained DEF Next
  <1> QED
    BY <1>1, <1>2, ReplicasSafe, PlansFitAlways, OwnRowsAlways, NamesAlways, PTL DEF Spec

\* As long as no user renames a file, one version of a path has one state on
\* every replica: whatever snapshots the clients merged (merge_snapshots), in
\* whatever order their conflicts were resolved with the one clock component of
\* conflict_resolver_replica, and whatever they pushed to the server
\* (ensure_index_causally_applicable).
THEOREM SameVersionSameState == Spec /\ [][~Rename]_vars => []EqualClockSameState
  <1>1. ChainKept => EqualClockSameState
    BY ChainedStates DEF ChainKept, EqualClockSameState
  <1> QED
    BY <1>1, ChainAlways, PTL

-----------------------------------------------------------------------------
(* Conflict copies are kept.  Where names are flat and nothing disturbs a      *)
(* client that applies a plan, a user's content is one of three things: an     *)
(* entry no scan has read, the content of every record that knows a certain    *)
(* event, or the content a conflict copy is named after.                       *)

\* An entry that has a row has the content of the row.
RowsMatch(f, i) ==
    \A p \in DOMAIN f : f[p].row = p /\ p \in LiveRows(i) => i[p].content = f[p].content

\* After a scan the live rows are the entries, and an entry that had no row has
\* one with a new event.
Read(n, root) ==
    /\ root.disk = [p \in DOMAIN disk[n] |-> Entry(disk[n][p].content, p)]
    /\ LiveRows(root.index) = DOMAIN disk[n]
    /\ \A p \in DOMAIN disk[n] :
        /\ root.index[p].content = disk[n][p].content
        /\ disk[n][p].row # p => root.index[p].version[n] > counter[n]

LEMMA ScanReads ==
    ASSUME ReplicasInv, OwnRows, NEW n \in Replica, RowsMatch(disk[n], index[n])
    PROVE  \A root \in Scan(n) : Read(n, root)
  <1> DEFINE f == disk[n]
             i == index[n]
             changed == {p \in DOMAIN f : p \notin LiveRows(i) \/ f[p].row # p}
             missing == LiveRows(i) \ DOMAIN f
             renames == {p \in changed \ LiveRows(i) : f[p].row \in missing}
             source(p) == f[p].row
             sources == {source(p) : p \in renames}
             target(p) == CHOOSE q \in renames : source(q) = p
             past(p) == IF p \in renames THEN i[source(p)].version
                        ELSE IF p \in DOMAIN i THEN i[p].version ELSE NoVersion
             found(p, t) == [content |-> f[p].content, tombstone |-> FALSE,
                             version |-> Observe(past(p), n, t)]
             buried(p, t) == [i[p] EXCEPT !.tombstone = TRUE, !.version = Observe(@, n, t)]
             last == counter[n] + Cardinality(changed)
             rows(new, old) == [p \in DOMAIN i \cup DOMAIN f |->
                                  CASE p \in changed -> found(p, new[p])
                                    [] p \in sources -> buried(p, new[target(p)])
                                    [] p \in missing \ sources -> buried(p, old[p])
                                    [] OTHER -> i[p]]
             result(new, old) == Root([p \in DOMAIN f |-> Entry(f[p].content, p)],
                                      rows(new, old), last + Cardinality(missing \ sources))
  <1>0. Scan(n) = {result(new, old) : new \in Ticks(changed, counter[n]),
                                      old \in Ticks(missing \ sources, last)}
    BY DEF Scan
  <1> HIDE DEF rows, changed, missing, buried, found, past, renames, sources, target, last
  <1> SUFFICES ASSUME NEW root \in Scan(n)
               PROVE  Read(n, root)
    OBVIOUS
  <1>1. PICK new \in Ticks(changed, counter[n]), old \in Ticks(missing \ sources, last) :
            root = result(new, old)
    <2> HIDE DEF result
    <2> QED
      BY <1>0
  <1>2. /\ root.disk = [p \in DOMAIN f |-> Entry(f[p].content, p)]
        /\ root.index = rows(new, old)
    BY <1>1 DEF Root
  <1>3. /\ IsFiniteSet(DOMAIN f) /\ counter[n] \in Nat
        /\ \A p \in DOMAIN i : IsPath(p) /\ i[p] \in Record
    BY DEF ReplicasInv, IsDisk, IsIndex, IsSnapshot
  <1>4. changed \subseteq DOMAIN f /\ missing \cap DOMAIN f = {} /\ missing \subseteq DOMAIN i
    BY DEF changed, missing, LiveRows
  <1>5. renames = {}
    <2> SUFFICES ASSUME NEW p \in renames
                 PROVE  FALSE
      OBVIOUS
    <2>1. p \in DOMAIN f /\ f[p].row \in missing
      BY <1>4 DEF renames
    <2>2. f[p].row = <<>>
      BY <1>4, <2>1 DEF OwnRows
    <2> QED
      BY <1>3, <1>4, <2>1, <2>2 DEF IsPath
  <1>6. sources = {}
    BY <1>5 DEF sources
  <1>7. ASSUME NEW p \in changed
        PROVE  rows(new, old)[p] = found(p, new[p])
    BY <1>4, <1>6 DEF rows
  <1>8. ASSUME NEW p \in missing
        PROVE  rows(new, old)[p].tombstone = TRUE
    <2>1. rows(new, old)[p] = buried(p, old[p])
      BY <1>4, <1>6 DEF rows
    <2> DEFINE v == Observe(i[p].version, n, old[p])
    <2> HIDE DEF v
    <2>2. buried(p, old[p]) = [i[p] EXCEPT !.tombstone = TRUE, !.version = v]
      BY DEF v, buried
    <2>3. i[p] \in Record
      BY <1>3, <1>4
    <2>4. [i[p] EXCEPT !.tombstone = TRUE, !.version = v]
            = [content |-> i[p].content, tombstone |-> TRUE, version |-> v]
      BY <2>3, Buried
    <2> QED
      BY <2>1, <2>2, <2>4
  <1>9. ASSUME NEW p \in DOMAIN i \cup DOMAIN f, p \notin changed, p \notin missing
        PROVE  rows(new, old)[p] = i[p]
    BY <1>6, <1>9 DEF rows
  <1>10. DOMAIN rows(new, old) = DOMAIN i \cup DOMAIN f
    BY DEF rows
  <1>11. ASSUME NEW p \in changed
         PROVE  /\ root.index[p].tombstone = FALSE
                /\ root.index[p].content = f[p].content
                /\ root.index[p].version = Observe(past(p), n, new[p])
    <2>1. root.index[p] = [content |-> f[p].content, tombstone |-> FALSE,
                           version |-> Observe(past(p), n, new[p])]
      BY <1>2, <1>7 DEF found
    <2> QED
      BY <2>1
  <1>12. ASSUME NEW p \in DOMAIN f, p \notin changed
         PROVE  /\ p \in DOMAIN i /\ root.index[p] = i[p]
                /\ i[p].tombstone = FALSE /\ i[p].content = f[p].content
                /\ f[p].row = p
    <2>1. p \in LiveRows(i) /\ f[p].row = p
      BY <1>12 DEF changed
    <2>2. i[p].content = f[p].content
      BY <2>1 DEF RowsMatch
    <2>3. p \in DOMAIN i /\ i[p].tombstone = FALSE
      BY <1>3, <2>1 DEF LiveRows, Record
    <2>4. p \notin missing
      BY <1>4
    <2> QED
      BY <1>2, <1>9, <1>12, <2>1, <2>2, <2>3, <2>4
  <1>13. ASSUME NEW p \in DOMAIN i \ DOMAIN f
         PROVE  root.index[p].tombstone = TRUE
    <2>1. CASE p \in missing
      BY <1>2, <1>8, <2>1
    <2>2. CASE p \notin missing
      <3>1. p \notin LiveRows(i)
        BY <2>2 DEF missing
      <3>2. i[p].tombstone = TRUE
        BY <1>3, <3>1 DEF LiveRows, Record
      <3> QED
        BY <1>2, <1>4, <1>9, <2>2, <3>2
    <2> QED
      BY <2>1, <2>2
  <1>14. \A p \in DOMAIN f : root.index[p].content = f[p].content /\ ~root.index[p].tombstone
    BY <1>11, <1>12
  <1>15. LiveRows(root.index) = DOMAIN f
    <2>1. DOMAIN root.index = DOMAIN i \cup DOMAIN f
      BY <1>2, <1>10
    <2> QED
      BY <1>13, <1>14, <2>1 DEF LiveRows
  <1>16. ASSUME NEW p \in DOMAIN f, f[p].row # p
         PROVE  root.index[p].version[n] > counter[n]
    <2>1. p \in changed
      BY <1>16 DEF changed
    <2>2. new[p] \in counter[n] + 1 .. counter[n] + Cardinality(changed)
      BY <2>1 DEF Ticks
    <2>3. Cardinality(changed) \in Nat
      BY <1>3, <1>4, FS_Subset, FS_CardinalityType
    <2> DEFINE k == Cardinality(changed)
    <2>4. new[p] \in Nat /\ new[p] > counter[n]
      <3> HIDE DEF k
      <3>1. k \in Nat /\ new[p] \in counter[n] + 1 .. counter[n] + k
        BY <2>2, <2>3 DEF k
      <3> QED
        BY <1>3, <3>1
    <2>5. past(p) \in VersionVector
      <3>1. NoVersion \in VersionVector
        BY DEF NoVersion, VersionVector
      <3> QED
        BY <1>3, <1>5, <3>1 DEF past, Record
    <2>6. n \in Clock
      BY DEF Clock
    <2> DEFINE w == past(p)
    <2> HIDE DEF w
    <2>7. w \in VersionVector /\ root.index[p].version = Observe(w, n, new[p])
      BY <1>11, <2>1, <2>5 DEF w
    <2>8. Observe(w, n, new[p])[n] = IF w[n] < new[p] THEN new[p] ELSE w[n]
      BY <2>6, <2>7 DEF Observe, Larger, VersionVector
    <2>9. w[n] \in Nat
      BY <2>6, <2>7 DEF VersionVector
    <2> QED
      BY <1>3, <2>4, <2>7, <2>8, <2>9
  <1> QED
    BY <1>2, <1>14, <1>15, <1>16 DEF Read

-----------------------------------------------------------------------------
(* Flat names. *)

Flat(S) == \A p \in S : Len(p) = 1

LEMMA NoAncestors ==
    ASSUME NEW p, Len(p) = 1
    PROVE  Ancestors(p) = {}
  BY DEF Ancestors

\* Where nothing is recreated above p, only p changes.
OnlyAt(root, p, r, new) ==
    /\ r.tombstone => DOMAIN new.disk = DOMAIN root.disk \ {p}
    /\ ~r.tombstone => DOMAIN new.disk = DOMAIN root.disk \cup {p}
    /\ ~r.tombstone => new.disk[p] = Entry(r.content, p)
    /\ \A q \in DOMAIN new.disk \ {p} : new.disk[q] = root.disk[q]
    /\ DOMAIN new.index = DOMAIN root.index \cup {p}
    /\ new.index[p] = r
    /\ \A q \in DOMAIN root.index \ {p} : new.index[q] = root.index[q]

LEMMA InstallFlat ==
    ASSUME NEW root, NEW p, Len(p) = 1, NEW r
    PROVE  OnlyAt(root, p, r, Install(root, p, r))
  <1> DEFINE f == root.disk
             g == WithParents(f, p)
             h == IF r.tombstone THEN Without(g, {p}) ELSE Put(g, p, Entry(r.content, p))
             j == Put(root.index, p, r)
             new == Install(root, p, r)
  <1>1. new.disk = h /\ new.index = j
    BY DEF Install, Root
  <1>2. DOMAIN g = DOMAIN f /\ \A q \in DOMAIN f : g[q] = f[q]
    BY NoAncestors DEF WithParents
  <1>3. /\ DOMAIN j = DOMAIN root.index \cup {p} /\ j[p] = r
        /\ \A q \in DOMAIN root.index \ {p} : j[q] = root.index[q]
    BY DEF Put
  <1> HIDE DEF g, j
  <1>4. CASE r.tombstone
    <2>1. h = Without(g, {p})
      BY <1>4
    <2>2. DOMAIN h = DOMAIN f \ {p} /\ \A q \in DOMAIN h : h[q] = f[q]
      BY <1>2, <2>1 DEF Without
    <2> HIDE DEF h, new
    <2>3. OnlyAt(root, p, r, new)
      BY <1>1, <1>3, <1>4, <2>2 DEF OnlyAt
    <2> QED
      BY <2>3 DEF new
  <1>5. CASE ~r.tombstone
    <2>1. h = Put(g, p, Entry(r.content, p))
      BY <1>5
    <2>2. /\ DOMAIN h = DOMAIN f \cup {p} /\ h[p] = Entry(r.content, p)
          /\ \A q \in DOMAIN h \ {p} : h[q] = f[q]
      BY <1>2, <2>1 DEF Put
    <2> HIDE DEF h, new
    <2>3. OnlyAt(root, p, r, new)
      BY <1>1, <1>3, <1>5, <2>2 DEF OnlyAt
    <2> QED
      BY <2>3 DEF new
  <1> QED
    BY <1>4, <1>5

LEMMA InsideFlat ==
    ASSUME NEW f, Flat(DOMAIN f), NEW p
    PROVE  Inside(p, f) = {}
  BY NoAncestors DEF Flat, Inside, Tree

LEMMA MergeFlat ==
    ASSUME NEW L, NEW R, IsIndex(L), Flat(DOMAIN L), Flat(DOMAIN R)
    PROVE  Flat(DOMAIN MergeSnapshots(L, R))
  <1>1. \A p \in Losing(L, R) : p \in DOMAIN L /\ IsPath(p) /\ Len(p) = 1
    BY DEF Losing, IsIndex, Flat
  <1>2. \A p \in Losing(L, R) : Len(CopyAt(L, R)[p]) = 1
    <2> SUFFICES ASSUME NEW p \in Losing(L, R)
                 PROVE  Len(CopyAt(L, R)[p]) = 1
      OBVIOUS
    <2>1. CopyAt(L, R)[p] = ConflictPath(p, Loser(L[p], R[p]), DOMAIN L \cup DOMAIN R)
      BY DEF CopyAt
    <2>2. \A loser, occupied : Len(ConflictPath(p, loser, occupied)) = Len(p)
      <3> SUFFICES ASSUME NEW loser, NEW occupied
                   PROVE  Len(ConflictPath(p, loser, occupied)) = Len(p)
        OBVIOUS
      <3> DEFINE named(k) == [p EXCEPT ![Len(p)].suffixes = Append(@, [of |-> loser, nth |-> k])]
      <3>1. \E k : ConflictPath(p, loser, occupied) = named(k)
        BY DEF ConflictPath
      <3>2. \A k : Len(named(k)) = Len(p)
        BY <1>1, PathFacts, ExceptSeq
      <3> QED
        BY <3>1, <3>2
    <2> QED
      BY <1>1, <2>1, <2>2
  <1>3. DOMAIN MergeSnapshots(L, R) =
            DOMAIN L \cup DOMAIN R \cup {CopyAt(L, R)[p] : p \in Losing(L, R)}
    BY MergeShape
  <1> QED
    BY <1>2, <1>3 DEF Flat

-----------------------------------------------------------------------------
(* What a merge does with copies and with contents. *)

\* The copies in a snapshot are the files they were made for.
LiveCopies(S) ==
    \A q \in DOMAIN S : IsCopy(q) => LiveFile(S[q]) /\ S[q].content = Lost(q).content

LEMMA MergedState ==
    ASSUME NEW l \in Record, NEW r \in Record
    PROVE  \E x \in {l, r} : SameState(MergeRecord(l, r), x)
  <1> DEFINE M == MergeRecord(l, r)
  <1>1. \A x \in Record : \A v : LET y == [x EXCEPT !.version = v]
                                 IN  y.content = x.content /\ y.tombstone = x.tombstone
    BY DEF Record
  <1>2. Winner(l, r) \in {l, r} /\ Winner(l, r) \in Record
    BY DEF Winner
  <1>3. \/ M = r \/ M = l
        \/ M = [Winner(l, r) EXCEPT !.version = Resolved(l, r)]
        \/ M = [l EXCEPT !.version = Merge(l.version, r.version)]
    BY DEF MergeRecord
  <1> HIDE DEF M
  <1>4. \E x \in {l, r} : M.content = x.content /\ M.tombstone = x.tombstone
    <2> DEFINE w == Winner(l, r)
    <2>1. CASE M = [w EXCEPT !.version = Resolved(l, r)]
      <3>1. w \in {l, r} /\ w \in Record
        BY <1>2
      <3> HIDE DEF w
      <3>2. M.content = w.content /\ M.tombstone = w.tombstone
        BY <1>1, <2>1, <3>1
      <3> QED
        BY <3>1, <3>2
    <2>2. CASE M = [l EXCEPT !.version = Merge(l.version, r.version)]
      BY <1>1, <2>2
    <2> QED
      BY <1>3, <2>1, <2>2
  <1> QED
    BY <1>4 DEF SameState, StateOf, M

LEMMA MergeCopiesLive ==
    ASSUME NEW L, NEW R, IsIndex(L), IsIndex(R), AllPlain(L), LiveCopies(L), LiveCopies(R)
    PROVE  LiveCopies(MergeSnapshots(L, R))
  <1> DEFINE M == MergeSnapshots(L, R)
  <1> SUFFICES ASSUME NEW q \in DOMAIN M, IsCopy(q)
               PROVE  LiveFile(M[q]) /\ M[q].content = Lost(q).content
    BY DEF LiveCopies
  <1>1. CASE q \in DOMAIN L \cup DOMAIN R
    <2>1. M[q] = MergedAt(L, R, q)
      BY <1>1, MergeShape
    <2>2. CASE q \notin DOMAIN R
      BY <1>1, <2>1, <2>2 DEF MergedAt, LiveCopies
    <2>3. CASE q \notin DOMAIN L
      BY <1>1, <2>1, <2>3 DEF MergedAt, LiveCopies
    <2>4. CASE q \in DOMAIN L \cap DOMAIN R
      <3>1. M[q] = MergeRecord(L[q], R[q])
        BY <2>1, <2>4 DEF MergedAt
      <3>2. L[q] \in Record /\ R[q] \in Record
        BY <2>4 DEF IsIndex, IsSnapshot
      <3>3. PICK x \in {L[q], R[q]} : SameState(M[q], x)
        BY <3>1, <3>2, MergedState
      <3>4. LiveFile(x) /\ x.content = Lost(q).content
        BY <2>4 DEF LiveCopies
      <3>5. M[q].content = x.content /\ M[q].tombstone = x.tombstone
        BY <3>3 DEF SameState, StateOf
      <3> QED
        BY <3>4, <3>5 DEF LiveFile
    <2> QED
      BY <1>1, <2>2, <2>3, <2>4
  <1>2. CASE q \notin DOMAIN L \cup DOMAIN R
    <2>1. PICK p \in Losing(L, R) : q = CopyAt(L, R)[p] /\ M[q] = CopyOf(L, R, p)
      <3>1. \A x \in DOMAIN M \ (DOMAIN L \cup DOMAIN R) :
                \E p \in Losing(L, R) : x = CopyAt(L, R)[p] /\ M[x] = CopyOf(L, R, p)
        BY MergeShape
      <3> HIDE DEF M
      <3> QED
        BY <1>2, <3>1
    <2> DEFINE x == Loser(L[p], R[p])
    <2>2. p \in DOMAIN L /\ p \in DOMAIN R /\ LiveFile(x)
      BY DEF Losing, PreservesLoser
    <2>3. x \in Record /\ IsPath(p) /\ Plain(p)
      BY <2>2 DEF Loser, IsIndex, IsSnapshot, AllPlain
    <2>4. q = ConflictPath(p, x, DOMAIN L \cup DOMAIN R)
      BY <2>1 DEF CopyAt
    <2> HIDE DEF x
    <2>5. Lost(q) = x
      BY <2>3, <2>4, CopyNamed
    <2>6. M[q] = [x EXCEPT !.version = Resolved(L[p], R[p]), !.tombstone = FALSE]
      BY <2>1 DEF CopyOf, x
    <2>7. M[q].content = x.content /\ ~M[q].tombstone
      BY <2>3, <2>6 DEF Record
    <2> QED
      BY <2>2, <2>5, <2>7 DEF LiveFile
  <1> QED
    BY <1>1, <1>2

\* The records of a snapshot at p that know the event t of n are files with
\* content v.
Carries(S, n, t, p, v) ==
    p \in DOMAIN S /\ S[p].version[n] >= t => LiveFile(S[p]) /\ S[p].content = v

\* In a merge a content stays where it was, or is lost to a copy.
LEMMA MergeCarries ==
    ASSUME NEW L, NEW R, IsIndex(L), IsIndex(R), NEW n \in Replica, NEW t \in Nat, NEW v,
           NEW p \in DOMAIN L \cup DOMAIN R, Carries(L, n, t, p, v), Carries(R, n, t, p, v)
    PROVE  \/ Carries(MergeSnapshots(L, R), n, t, p, v)
           \/ p \in Losing(L, R) /\ Loser(L[p], R[p]).content = v
  <1> DEFINE M == MergeSnapshots(L, R)
             l == L[p]
             r == R[p]
  <1>1. M[p] = MergedAt(L, R, p)
    BY MergeShape
  <1>2. CASE p \notin DOMAIN R
    BY <1>1, <1>2 DEF MergedAt, Carries
  <1>3. CASE p \notin DOMAIN L
    BY <1>1, <1>3 DEF MergedAt, Carries
  <1>4. CASE p \in DOMAIN L \cap DOMAIN R
    <2>1. M[p] = MergeRecord(l, r)
      BY <1>1, <1>4 DEF MergedAt
    <2>2. l \in Record /\ r \in Record
      BY <1>4 DEF IsIndex, IsSnapshot
    <2>3. /\ l.version[n] >= t => LiveFile(l) /\ l.content = v
          /\ r.version[n] >= t => LiveFile(r) /\ r.content = v
      BY <1>4 DEF Carries
    <2>4. l.version[n] \in Nat /\ r.version[n] \in Nat
      BY <2>2 DEF Record, VersionVector, Clock
    <2>5. p \in Losing(L, R) <=> Conflicting(l, r) /\ PreservesLoser(Winner(l, r), Loser(l, r))
      BY <1>4 DEF Losing
    <2> HIDE DEF M, l, r
    <2> SUFFICES ASSUME M[p].version[n] >= t, ~(p \in Losing(L, R) /\ Loser(l, r).content = v)
                 PROVE  LiveFile(M[p]) /\ M[p].content = v
      BY DEF Carries, M, l, r
    <2>6. CASE Relation(l.version, r.version) = "Before"
      <3>1. M[p] = r
        BY <2>1, <2>6 DEF MergeRecord, Conflicting
      <3> QED
        BY <2>3, <3>1
    <2>7. CASE Relation(l.version, r.version) = "After"
      <3>1. M[p] = l
        BY <2>1, <2>7 DEF MergeRecord, Conflicting
      <3> QED
        BY <2>3, <3>1
    <2>8. CASE Conflicting(l, r)
      <3>1. M[p] = [Winner(l, r) EXCEPT !.version = Resolved(l, r)]
        BY <2>1, <2>8 DEF MergeRecord, Conflicting
      <3>2. M[p].version = Resolved(l, r)
        BY <2>2, <3>1 DEF Winner, Record
      <3>3. M[p].version[n] = Larger(l.version[n], r.version[n])
        BY <2>2, <3>2, MergedParts
      <3>4. PICK k \in {l, r} : k.version[n] >= t
        BY <2>4, <3>3 DEF Larger
      <3>5. LiveFile(k) /\ k.content = v
        BY <2>3, <3>4
      <3> QED
        BY <2>1, <2>2, <2>5, <2>8, <3>5, ConflictKeepsBytes
    <2>9. CASE Relation(l.version, r.version) \in {"Equal", "Concurrent"} /\ SameState(l, r)
      <3>1. M[p] = [l EXCEPT !.version = Merge(l.version, r.version)]
        BY <2>1, <2>9 DEF MergeRecord, Conflicting
      <3>2. /\ M[p].version = Merge(l.version, r.version)
            /\ M[p].content = l.content /\ M[p].tombstone = l.tombstone
        BY <2>2, <3>1 DEF Record
      <3>3. M[p].version[n] = Larger(l.version[n], r.version[n])
        BY <2>2, <3>2, MergedParts
      <3>4. r.content = l.content /\ r.tombstone = l.tombstone
        BY <2>9 DEF SameState, StateOf
      <3>5. LiveFile(l) /\ l.content = v
        BY <2>3, <2>4, <3>3, <3>4 DEF Larger, LiveFile
      <3> QED
        BY <3>2, <3>5 DEF LiveFile
    <2>10. Relation(l.version, r.version) \in {"Before", "After", "Equal", "Concurrent"}
      BY RelationMeaning
    <2> QED
      BY <2>6, <2>7, <2>8, <2>9, <2>10 DEF Conflicting
  <1> QED
    BY <1>2, <1>3, <1>4

-----------------------------------------------------------------------------
(* Tidy roots and plans. *)

CopiesThere(f, i) ==
    /\ LiveCopies(i)
    /\ \A q \in DOMAIN i : IsCopy(q) => q \in DOMAIN f /\ f[q].content = Lost(q).content

\* Names are flat, entries match their rows, and every copy is still the file it
\* was made for.
Tidy(f, i) == Flat(DOMAIN f \cup DOMAIN i) /\ RowsMatch(f, i) /\ CopiesThere(f, i)
TidyPlan(S) == Flat(DOMAIN S) /\ LiveCopies(S)
TidyState ==
    /\ \A n \in Replica : Tidy(disk[n], index[n])
    /\ \A c \in Client : TidyPlan(session[c].desired)

LEMMA ScanTidy ==
    ASSUME ReplicasInv, OwnRows, NamesKnown, TidyState, NEW n \in Replica, NEW root \in Scan(n)
    PROVE  Tidy(root.disk, root.index)
  <1>1. /\ Flat(DOMAIN disk[n] \cup DOMAIN index[n]) /\ RowsMatch(disk[n], index[n])
        /\ LiveCopies(index[n])
        /\ \A q \in DOMAIN index[n] : IsCopy(q) =>
             q \in DOMAIN disk[n] /\ disk[n][q].content = Lost(q).content
    BY DEF TidyState, Tidy, CopiesThere
  <1>2. /\ root.disk = [p \in DOMAIN disk[n] |-> Entry(disk[n][p].content, p)]
        /\ LiveRows(root.index) = DOMAIN disk[n]
        /\ \A p \in DOMAIN disk[n] : root.index[p].content = disk[n][p].content
    BY <1>1, ScanReads DEF Read
  <1>3. DOMAIN root.index = DOMAIN index[n] \cup DOMAIN disk[n]
    BY ScanShape DEF Scanned
  <1>4. \A p \in DOMAIN disk[n] : p \in DOMAIN index[n] \/ ~IsCopy(p)
    BY DEF NamesKnown, Names
  <1>5. /\ DOMAIN root.disk = DOMAIN disk[n]
        /\ \A p \in DOMAIN disk[n] : root.disk[p].content = disk[n][p].content
    BY <1>2 DEF Entry
  <1>6. Flat(DOMAIN root.disk \cup DOMAIN root.index)
    BY <1>1, <1>3, <1>5 DEF Flat
  <1>7. RowsMatch(root.disk, root.index)
    BY <1>2, <1>5 DEF RowsMatch
  <1>8. ASSUME NEW q \in DOMAIN root.index, IsCopy(q)
        PROVE  /\ LiveFile(root.index[q]) /\ root.index[q].content = Lost(q).content
               /\ q \in DOMAIN root.disk /\ root.disk[q].content = Lost(q).content
    <2>1. q \in DOMAIN index[n]
      BY <1>3, <1>4, <1>8
    <2>2. /\ LiveFile(index[n][q]) /\ index[n][q].content = Lost(q).content
          /\ q \in DOMAIN disk[n] /\ disk[n][q].content = Lost(q).content
      BY <1>1, <1>8, <2>1 DEF LiveCopies
    <2>3. ~root.index[q].tombstone
      BY <1>2, <2>2 DEF LiveRows
    <2> QED
      BY <1>2, <1>5, <2>2, <2>3 DEF LiveFile
  <1> QED
    BY <1>6, <1>7, <1>8 DEF Tidy, CopiesThere, LiveCopies

LEMMA InstallTidy ==
    ASSUME NEW root, Tidy(root.disk, root.index), NEW p, Len(p) = 1,
           NEW r, IsCopy(p) => LiveFile(r) /\ r.content = Lost(p).content
    PROVE  Tidy(Install(root, p, r).disk, Install(root, p, r).index)
  <1> DEFINE h == Install(root, p, r).disk
             j == Install(root, p, r).index
             f == root.disk
             i == root.index
  <1>1. /\ Flat(DOMAIN f \cup DOMAIN i) /\ RowsMatch(f, i) /\ LiveCopies(i)
        /\ \A q \in DOMAIN i : IsCopy(q) => q \in DOMAIN f /\ f[q].content = Lost(q).content
    BY DEF Tidy, CopiesThere
  <1>2. /\ r.tombstone => DOMAIN h = DOMAIN f \ {p}
        /\ ~r.tombstone => DOMAIN h = DOMAIN f \cup {p}
        /\ \A q \in DOMAIN h \ {p} : h[q] = f[q]
        /\ ~r.tombstone => h[p] = Entry(r.content, p)
        /\ DOMAIN j = DOMAIN i \cup {p}
        /\ j[p] = r
        /\ \A q \in DOMAIN i \ {p} : j[q] = i[q]
    <2>1. OnlyAt(root, p, r, Install(root, p, r))
      BY InstallFlat
    <2> QED
      BY <2>1 DEF OnlyAt
  <1>3. ~r.tombstone => h[p].content = r.content
    BY <1>2 DEF Entry
  <1> HIDE DEF h, j, f, i
  <1>4. Flat(DOMAIN h \cup DOMAIN j)
    BY <1>1, <1>2 DEF Flat
  <1>5. RowsMatch(h, j)
    <2> SUFFICES ASSUME NEW q \in DOMAIN h, h[q].row = q, q \in LiveRows(j)
                 PROVE  j[q].content = h[q].content
      BY DEF RowsMatch
    <2>1. CASE q = p
      BY <1>2, <1>3, <2>1 DEF LiveRows
    <2>2. CASE q # p
      BY <1>1, <1>2, <2>2 DEF LiveRows, RowsMatch
    <2> QED
      BY <2>1, <2>2
  <1>6. ASSUME NEW q \in DOMAIN j, IsCopy(q)
        PROVE  /\ LiveFile(j[q]) /\ j[q].content = Lost(q).content
               /\ q \in DOMAIN h /\ h[q].content = Lost(q).content
    <2>1. CASE q = p
      BY <1>2, <1>3, <1>6, <2>1 DEF LiveFile
    <2>2. CASE q # p
      BY <1>1, <1>2, <1>6, <2>2 DEF LiveCopies
    <2> QED
      BY <2>1, <2>2
  <1>7. Tidy(h, j)
    BY <1>4, <1>5, <1>6 DEF Tidy, CopiesThere, LiveCopies
  <1> QED
    BY <1>7 DEF h, j

\* A root and a plan of a step.
LEMMA TidyStep ==
    ASSUME ReplicasInv, TidyState, NEW n \in Replica, NEW root, Becomes(n, root),
           Tidy(root.disk, root.index),
           NEW c \in Client, NEW s, Goto(c, s), TidyPlan(s.desired)
    PROVE  TidyState'
  <1>1. \A m \in Replica : /\ disk'[m] = IF m = n THEN root.disk ELSE disk[m]
                           /\ index'[m] = IF m = n THEN root.index ELSE index[m]
    BY DEF Becomes, ReplicasInv
  <1>2. \A d \in Client : session'[d] = IF d = c THEN s ELSE session[d]
    BY DEF Goto, ReplicasInv
  <1> QED
    BY <1>1, <1>2 DEF TidyState

LEMMA PassTidy ==
    ASSUME ReplicasInv, PlansFit, OwnRows, NamesKnown, TidyState, NEW c \in Client, Pass(c)
    PROVE  TidyState'
  <1>1. PICK s : Goto(c, s) /\ Effect(c, s)
    BY PassEffect
  <1>2. c \in Replica /\ Server \in Replica
    BY ServerAndClients
  <1>3. \A n \in Replica : Tidy(disk[n], index[n])
    BY DEF TidyState
  <1>4. TidyPlan(session[c].desired) /\ TidyPlan(Empty)
    BY DEF TidyState, TidyPlan, Flat, LiveCopies, Empty
  <1>5. \A p \in DOMAIN session[c].desired :
            /\ Len(p) = 1
            /\ IsCopy(p) => /\ LiveFile(session[c].desired[p])
                            /\ session[c].desired[p].content = Lost(p).content
    BY <1>4 DEF TidyPlan, Flat, LiveCopies
  <1>6. CASE Looks(c, s)
    <2>1. \A d \in Client : session'[d] = IF d = c THEN s ELSE session[d]
      BY <1>1 DEF Goto, ReplicasInv
    <2>2. TidyPlan(s.desired) /\ disk' = disk /\ index' = index
      BY <1>4, <1>6 DEF Looks, Keeps, replicas
    <2> QED
      BY <2>1, <2>2 DEF TidyState
  <1>7. CASE Scans(c, s)
    <2>1. PICK n \in {c, Server} : \E root \in Scan(n) : Becomes(n, root) /\ Keeps(c, s)
      BY <1>7 DEF Scans
    <2>2. PICK root \in Scan(n) : Becomes(n, root) /\ Keeps(c, s)
      BY <2>1
    <2>3. TidyPlan(s.desired) /\ n \in Replica
      BY <1>2, <1>4, <2>2 DEF Keeps
    <2> QED
      BY <1>1, <2>2, <2>3, ScanTidy, TidyStep
  <1>8. CASE Plans(c, s)
    <2>1. PICK root \in Scan(Server) :
              Becomes(Server, root) /\ s.desired = MergeSnapshots(index[c], root.index)
      BY <1>8 DEF Plans
    <2>2. Tidy(root.disk, root.index)
      BY <1>2, ScanTidy
    <2>3. /\ IsIndex(index[c]) /\ IsIndex(root.index) /\ AllPlain(index[c])
          /\ LiveCopies(index[c]) /\ LiveCopies(root.index)
          /\ Flat(DOMAIN index[c]) /\ Flat(DOMAIN root.index)
      <3>1. IsRoot(Server, root) /\ IsIndex(index[c]) /\ AllPlain(index[c])
        BY <1>2, ScanSafe DEF ReplicasInv, NamesKnown, Names, AllPlain
      <3> QED
        BY <1>2, <1>3, <2>2, <3>1 DEF IsRoot, Tidy, CopiesThere, Flat
    <2>4. TidyPlan(s.desired)
      BY <2>1, <2>3, MergeFlat, MergeCopiesLive DEF TidyPlan
    <2> QED
      BY <1>1, <1>2, <2>1, <2>2, <2>4, TidyStep
  <1>9. CASE Installs(c, s)
    <2> DEFINE root == Root(disk[c], index[c], counter[c])
    <2>1. Tidy(root.disk, root.index)
      BY <1>2, <1>3 DEF Root
    <2>2. PICK p \in DOMAIN s.desired : Becomes(c, Install(root, p, s.desired[p]))
      BY <1>9 DEF Installs
    <2>3. /\ TidyPlan(s.desired) /\ Len(p) = 1
          /\ IsCopy(p) => LiveFile(s.desired[p]) /\ s.desired[p].content = Lost(p).content
      BY <1>4, <1>5, <1>9 DEF Installs
    <2> HIDE DEF root
    <2> QED
      BY <1>1, <1>2, <2>1, <2>2, <2>3, InstallTidy, TidyStep
  <1>10. CASE Sends(c, s)
    <2>1. PICK p \in DOMAIN s.desired : \E root \in Scan(Server) :
              Becomes(Server, Install(root, p, s.desired[p]))
      BY <1>10 DEF Sends
    <2>2. PICK root \in Scan(Server) : Becomes(Server, Install(root, p, s.desired[p]))
      BY <2>1
    <2>3. /\ TidyPlan(s.desired) /\ Len(p) = 1
          /\ IsCopy(p) => LiveFile(s.desired[p]) /\ s.desired[p].content = Lost(p).content
      BY <1>4, <1>5, <1>10 DEF Sends
    <2>4. Tidy(root.disk, root.index)
      BY <1>2, ScanTidy
    <2> QED
      BY <1>1, <1>2, <2>2, <2>3, <2>4, InstallTidy, TidyStep
  <1> QED
    BY <1>1, <1>6, <1>7, <1>8, <1>9, <1>10 DEF Effect

-----------------------------------------------------------------------------
(* The steps of a pass where nothing disturbs a client that applies a plan.    *)

\* The root of a client that applies a plan is what its index says.
AsIndexed(f, i) ==
    DOMAIN f = LiveRows(i) /\ \A p \in DOMAIN f : f[p] = Entry(i[p].content, p)
Undisturbed == \A c \in Client : Applying(c) => AsIndexed(disk[c], index[c])

Agrees(s, o) ==
    /\ s.step = o.step /\ s.local = o.local /\ s.remote = o.remote
    /\ s.desired = o.desired /\ s.here = o.here
Ended(c, s) ==
    /\ s.step \in {"idle", "verify"} /\ ~Applying(c)
    /\ s.local = Empty /\ s.remote = Empty /\ s.desired = Empty
Rests(c, s) == Agrees(s, session[c]) \/ Ended(c, s)

Waits(c, s) == UNCHANGED replicas /\ Rests(c, s)
Rescans(c, s) == \E n \in {c, Server} : \E root \in Scan(n) : Becomes(n, root) /\ Rests(c, s)
Starts(c, s) ==
    /\ AtStep(c, "idle")
    /\ \E root \in Scan(c) :
        Becomes(c, root) /\ s = [Idle EXCEPT !.step = "fetch", !.local = root.index]
Draws(c, s) ==
    /\ AtStep(c, "fetch")
    /\ \E root \in Scan(Server) :
        /\ Becomes(Server, root)
        /\ s = Plan(index[c], root.index, MergeSnapshots(index[c], root.index))
Checks(c, s) ==
    /\ AtStep(c, "stage")
    /\ \E root \in Scan(c) :
        Becomes(c, root) /\ root.index = session[c].local
    /\ s = [session[c] EXCEPT !.step = "apply"]
Takes(c, s) ==
    /\ AtStep(c, "apply")
    /\ \E p \in session[c].here :
        /\ Becomes(c, Install(Root(disk[c], index[c], counter[c]), p, session[c].desired[p]))
        /\ s = [session[c] EXCEPT !.here = session[c].here \ {p}]
Gives(c, s) ==
    /\ AtStep(c, "apply") /\ session[c].here = {} /\ Agrees(s, session[c])
    /\ \E p \in session[c].there : \E root \in Scan(Server) :
        /\ Accepts(root, p, session[c].desired[p])
        /\ Becomes(Server, Install(root, p, session[c].desired[p]))
Moves(c, s) == \/ Waits(c, s) \/ Rescans(c, s) \/ Starts(c, s) \/ Draws(c, s)
               \/ Checks(c, s) \/ Takes(c, s) \/ Gives(c, s)

\* Whatever an undisturbed client applies next finds the root as it must be.
LEMMA AlwaysInstallable ==
    ASSUME ReplicasInv, TidyState, Undisturbed,
           NEW c \in Client, AtStep(c, "apply"), NEW p \in session[c].here
    PROVE  Installable(Root(disk[c], index[c], counter[c]), p, session[c].desired[p])
  <1> DEFINE root == Root(disk[c], index[c], counter[c])
  <1>1. c \in Replica
    BY ServerAndClients
  <1>2. root.disk = disk[c] /\ root.index = index[c]
    BY DEF Root
  <1>3. p \in DOMAIN session[c].desired
    BY DEF ReplicasInv, IsPass
  <1>4. Len(p) = 1 /\ Flat(DOMAIN disk[c])
    BY <1>1, <1>3 DEF TidyState, Tidy, TidyPlan, Flat
  <1>5. Ancestors(p) = {} /\ Inside(p, disk[c]) = {}
    BY <1>4, NoAncestors, InsideFlat
  <1>6. Applying(c)
    BY DEF Applying
  <1>7. /\ DOMAIN disk[c] = LiveRows(index[c])
        /\ p \in DOMAIN disk[c] => disk[c][p].content = index[c][p].content
    <2>1. \A x, q : Entry(x, q).content = x
      BY DEF Entry
    <2> QED
      BY <1>6, <2>1 DEF Undisturbed, AsIndexed
  <1> QED
    BY <1>2, <1>5, <1>7 DEF Installable

LEMMA PassMoves ==
    ASSUME ReplicasInv, PlansFit, TidyState, Undisturbed, NEW c \in Client, Pass(c)
    PROVE  \E s : Goto(c, s) /\ Moves(c, s)
  <1> DEFINE o == session[c]
  <1>1. IsPass(o, counter) /\ PlanFits(o, index[c])
    BY DEF ReplicasInv, PlansFit
  <1>2. o.here = {} \/ o.step # "apply" => /\ Ended(c, Idle)
                                           /\ Ended(c, [Idle EXCEPT !.step = "verify"])
    BY DEF Idle, Ended, Applying, AtStep
  <1> HIDE DEF o
  <1>3. /\ \A y : Agrees([o EXCEPT !.need = y], o)
        /\ \A y : Agrees([o EXCEPT !.there = y], o)
    BY <1>1, FieldsKept DEF Agrees
  <1>4. o.here = {} \/ o.step # "apply" => /\ Rests(c, Idle)
                                           /\ Rests(c, [Idle EXCEPT !.step = "verify"])
    BY <1>2 DEF Rests
  <1>5. /\ \A y : Rests(c, [o EXCEPT !.need = y])
        /\ \A y : Rests(c, [o EXCEPT !.there = y])
    BY <1>3 DEF Rests, o
  <1>6. CASE StageLocal(c)
    <2>1. PICK h : \/ Goto(c, [o EXCEPT !.need = o.need \ {h}])
                   \/ Goto(c, Idle)
      BY <1>6 DEF StageLocal, o
    <2>2. UNCHANGED replicas /\ o.step # "apply"
      BY <1>6 DEF StageLocal, AtStep, o
    <2> QED
      BY <1>4, <1>5, <2>1, <2>2 DEF Moves, Waits
  <1>7. CASE Begin(c)
    <2>1. PICK root \in Scan(c) :
              /\ Becomes(c, root)
              /\ Goto(c, [Idle EXCEPT !.step = "fetch", !.local = root.index])
      BY <1>7 DEF Begin
    <2>2. Starts(c, [Idle EXCEPT !.step = "fetch", !.local = root.index])
      BY <1>7, <2>1 DEF Starts, Begin
    <2> QED
      BY <2>1, <2>2 DEF Moves
  <1>8. CASE StageRemote(c)
    <2>1. PICK root \in Scan(Server) :
              /\ Becomes(Server, root)
              /\ \E h \in o.need :
                  \/ Goto(c, [o EXCEPT !.need = o.need \ {h}])
                  \/ Goto(c, Idle)
      BY <1>8 DEF StageRemote, o
    <2>2. o.step # "apply"
      BY <1>8 DEF StageRemote, AtStep, o
    <2>3. PICK s : Goto(c, s) /\ Rests(c, s)
      BY <1>4, <1>5, <2>1, <2>2
    <2> QED
      BY <2>1, <2>3 DEF Moves, Rescans
  <1>9. CASE Check(c)
    <2>1. PICK root \in Scan(c) :
              /\ Becomes(c, root)
              /\ \/ Goto(c, [o EXCEPT !.step = "apply"]) /\ root.index = o.local
                 \/ Goto(c, Idle)
      BY <1>9 DEF Check, o
    <2>2. AtStep(c, "stage") /\ o.step # "apply"
      BY <1>9 DEF Check, AtStep, o
    <2>3. CASE Goto(c, [o EXCEPT !.step = "apply"]) /\ root.index = o.local
      <3>1. Checks(c, [o EXCEPT !.step = "apply"])
        BY <2>1, <2>2, <2>3 DEF Checks, o
      <3> QED
        BY <2>3, <3>1 DEF Moves
    <2>4. CASE Goto(c, Idle)
      <3>1. Rescans(c, Idle)
        BY <1>4, <2>1, <2>2 DEF Rescans
      <3> QED
        BY <2>4, <3>1 DEF Moves
    <2> QED
      BY <2>1, <2>3, <2>4
  <1>10. CASE VerifyLocal(c)
    <2>1. PICK root \in Scan(c) :
              /\ Becomes(c, root)
              /\ Goto(c, Idle) \/ Goto(c, [Idle EXCEPT !.step = "verify"])
      BY <1>10 DEF VerifyLocal
    <2>2. o.here = {}
      BY <1>10 DEF VerifyLocal, o
    <2>3. PICK s : Goto(c, s) /\ Rests(c, s)
      BY <1>4, <2>1, <2>2
    <2> QED
      BY <2>1, <2>3 DEF Moves, Rescans
  <1>11. CASE VerifyRemote(c)
    <2>1. PICK root \in Scan(Server) : Becomes(Server, root) /\ Goto(c, Idle)
      BY <1>11 DEF VerifyRemote
    <2>2. o.step # "apply"
      BY <1>11 DEF VerifyRemote, AtStep, o
    <2>3. Rescans(c, Idle)
      BY <1>4, <2>1, <2>2 DEF Rescans
    <2> QED
      BY <2>1, <2>3 DEF Moves
  <1>12. CASE Fetch(c)
    <2>1. PICK root \in Scan(Server) :
              /\ Becomes(Server, root)
              /\ \E remote \in {FetchSnapshot(o.local, root.index)} :
                 \E desired \in {MergeSnapshots(o.local, remote)} :
                  \/ Goto(c, Plan(o.local, remote, desired))
                  \/ Goto(c, Idle)
      BY <1>12 DEF Fetch, o
    <2>2. o.step = "fetch"
      BY <1>12 DEF Fetch, AtStep, o
    <2>3. o.local = index[c] /\ IsIndex(o.local) /\ IsIndex(root.index)
      <3>1. IsRoot(Server, root)
        BY ServerAndClients, ScanSafe
      <3> QED
        BY <1>1, <2>2, <3>1 DEF PlanFits, IsPass, IsRoot
    <2>4. FetchSnapshot(o.local, root.index) = root.index
      BY <2>3, FetchExact
    <2>5. CASE Goto(c, Plan(o.local, root.index, MergeSnapshots(o.local, root.index)))
      <3>1. Draws(c, Plan(o.local, root.index, MergeSnapshots(o.local, root.index)))
        BY <2>1, <2>2, <2>3 DEF Draws, AtStep, o
      <3> QED
        BY <2>5, <3>1 DEF Moves
    <2>6. CASE Goto(c, Idle)
      <3>1. Rescans(c, Idle)
        BY <1>4, <2>1, <2>2 DEF Rescans
      <3> QED
        BY <2>6, <3>1 DEF Moves
    <2> QED
      BY <2>1, <2>4, <2>5, <2>6
  <1>13. CASE Apply(c)
    <2> DEFINE root == Root(disk[c], index[c], counter[c])
    <2>1. AtStep(c, "apply")
      BY <1>13 DEF Apply
    <2>2. PICK p \in o.here :
              \/ ~Installable(root, p, o.desired[p])
              \/ /\ Goto(c, [o EXCEPT !.here = o.here \ {p}])
                 /\ Becomes(c, Install(root, p, o.desired[p]))
      BY <1>13 DEF Apply, NextOf, o
    <2>3. Installable(root, p, o.desired[p])
      BY <2>1, AlwaysInstallable DEF o
    <2>4. Takes(c, [o EXCEPT !.here = o.here \ {p}])
      BY <2>1, <2>2, <2>3 DEF Takes, o
    <2> QED
      BY <2>2, <2>3, <2>4 DEF Moves
  <1>14. CASE Push(c)
    <2>1. PICK p \in SentNext(c), root \in Scan(Server) :
              \/ Goto(c, Idle) /\ UNCHANGED replicas
              \/ Goto(c, Idle) /\ Becomes(Server, root)
              \/ /\ Accepts(root, p, o.desired[p])
                 /\ Goto(c, [o EXCEPT !.there = o.there \ {p}])
                 /\ Becomes(Server, Install(root, p, o.desired[p]))
      BY <1>14 DEF Push, o
    <2>2. AtStep(c, "apply") /\ o.here = {} /\ p \in o.there
      BY DEF SentNext, NextOf, AtStep, o
    <2>3. CASE Goto(c, Idle) /\ UNCHANGED replicas
      BY <1>4, <2>2, <2>3 DEF Moves, Waits
    <2>4. CASE Goto(c, Idle) /\ Becomes(Server, root)
      <3>1. Rescans(c, Idle)
        BY <1>4, <2>2, <2>4 DEF Rescans
      <3> QED
        BY <2>4, <3>1 DEF Moves
    <2>5. CASE /\ Accepts(root, p, o.desired[p])
               /\ Goto(c, [o EXCEPT !.there = o.there \ {p}])
               /\ Becomes(Server, Install(root, p, o.desired[p]))
      <3> DEFINE s == [o EXCEPT !.there = o.there \ {p}]
      <3>1. Agrees(s, o)
        BY <1>3
      <3> HIDE DEF s
      <3>2. Gives(c, s)
        BY <2>2, <2>5, <3>1 DEF Gives, o
      <3> QED
        BY <2>5, <3>2 DEF Moves, s
    <2> QED
      BY <2>1, <2>3, <2>4, <2>5
  <1> QED
    BY <1>6, <1>7, <1>8, <1>9, <1>10, <1>11, <1>12, <1>13, <1>14 DEF Pass

\* What a user does in a flat namespace without renaming anything.
Edited(n, f) ==
    /\ disk' = [disk EXCEPT ![n] = f]
    /\ \A q \in DOMAIN f : \/ q \in DOMAIN disk[n] /\ f[q] = disk[n][q]
                           \/ q \in Path /\ f[q].row = <<>>
    /\ DOMAIN disk[n] \ Path \subseteq DOMAIN f
    /\ \A q \in DOMAIN disk[n] :
        disk[n][q].content \in owed' => q \in DOMAIN f /\ f[q].content = disk[n][q].content
    /\ \A v \in owed' \ owed :
        \E q \in Path \cap DOMAIN f : f[q].row = <<>> /\ f[q].content = v
    /\ UNCHANGED <<index, counter, session>>
    /\ Applying(n) => Disturb

LEMMA UserEdits ==
    ASSUME ReplicasInv, TidyState, NEW n \in Replica, User(n), ~Rename
    PROVE  \E f : Edited(n, f)
  <1> DEFINE f == disk[n]
  <1>1. PICK p \in Path :
            (\E v \in Content : Write(n, p, v)) \/ MakeDirectory(n, p) \/ Delete(n, p)
    BY DEF User, Rename
  <1>2. /\ UNCHANGED <<index, counter, session>> /\ (Applying(n) => Disturb)
    BY <1>1 DEF Write, MakeDirectory, Delete, Edit
  <1>3. \A x : NewEntry(x).row = <<>> /\ NewEntry(x).content = x
    BY DEF NewEntry, Entry
  <1>4. ASSUME NEW v \in Content, Write(n, p, v)
        PROVE  Edited(n, Put(f, p, NewEntry(v)))
    <2> DEFINE g == Put(f, p, NewEntry(v))
    <2>1. /\ disk' = [disk EXCEPT ![n] = g]
          /\ owed' = (owed \ Overwritten(f, p)) \cup {v}
      BY <1>4 DEF Write, Edit
    <2>2. /\ DOMAIN g = DOMAIN f \cup {p} /\ g[p] = NewEntry(v)
          /\ \A q \in DOMAIN f \ {p} : g[q] = f[q]
      BY DEF Put
    <2>3. p \in DOMAIN f => f[p].content \in Overwritten(f, p)
      BY DEF Overwritten, Entries
    <2> HIDE DEF g, f
    <2>4. \A q \in DOMAIN f : f[q].content \in owed' => q \in DOMAIN g /\ g[q].content = f[q].content
      BY <1>3, <2>1, <2>2, <2>3
    <2>5. \A w \in owed' \ owed :
            \E q \in Path \cap DOMAIN g : g[q].row = <<>> /\ g[q].content = w
      BY <1>3, <2>1, <2>2
    <2>6. \A q \in DOMAIN g : \/ q \in DOMAIN f /\ g[q] = f[q]
                              \/ q \in Path /\ g[q].row = <<>>
      BY <1>3, <2>2
    <2> QED
      BY <1>2, <2>1, <2>2, <2>4, <2>5, <2>6 DEF Edited, f, g
  <1>5. ASSUME MakeDirectory(n, p)
        PROVE  Edited(n, Put(f, p, NewEntry(Directory)))
    <2> DEFINE g == Put(f, p, NewEntry(Directory))
    <2>1. disk' = [disk EXCEPT ![n] = g] /\ owed' = owed /\ p \notin DOMAIN f
      BY <1>5 DEF MakeDirectory, Edit
    <2>2. /\ DOMAIN g = DOMAIN f \cup {p} /\ g[p] = NewEntry(Directory)
          /\ \A q \in DOMAIN f \ {p} : g[q] = f[q]
      BY DEF Put
    <2> HIDE DEF g, f
    <2>3. \A q \in DOMAIN g : \/ q \in DOMAIN f /\ g[q] = f[q]
                              \/ q \in Path /\ g[q].row = <<>>
      BY <1>3, <2>2
    <2> QED
      BY <1>2, <2>1, <2>2, <2>3 DEF Edited, f, g
  <1>6. ASSUME Delete(n, p)
        PROVE  Edited(n, Without(f, Tree(p, f)))
    <2> DEFINE g == Without(f, Tree(p, f))
    <2>1. /\ disk' = [disk EXCEPT ![n] = g]
          /\ owed' = owed \ {f[q].content : q \in Tree(p, f)}
      BY <1>6 DEF Delete, Edit
    <2>2. DOMAIN g = DOMAIN f \ Tree(p, f) /\ \A q \in DOMAIN g : g[q] = f[q]
      BY DEF Without
    <2>3. Tree(p, f) \subseteq {p}
      <3>1. Flat(DOMAIN f)
        BY DEF TidyState, Tidy, Flat
      <3>2. Inside(p, f) = {}
        BY <3>1, InsideFlat
      <3> QED
        BY <3>2 DEF Inside
    <2> HIDE DEF g, f
    <2> QED
      BY <1>2, <2>1, <2>2, <2>3 DEF Edited, f, g
  <1> QED
    BY <1>1, <1>4, <1>5, <1>6

LEMMA EditTidy ==
    ASSUME ReplicasInv, NamesKnown, TidyState, \A p \in Path : Len(p) = 1,
           NEW n \in Replica, NEW f, Edited(n, f)
    PROVE  TidyState'
  <1>1. \A m \in Replica : disk'[m] = IF m = n THEN f ELSE disk[m]
    BY DEF ReplicasInv, Edited
  <1>2. index' = index /\ session' = session
    BY DEF Edited
  <1>3. \A q \in DOMAIN f : \/ q \in DOMAIN disk[n] /\ f[q] = disk[n][q]
                            \/ q \in Path /\ f[q].row = <<>> /\ Len(q) = 1 /\ q # <<>>
    BY UserPaths DEF Edited, IsPath
  <1>4. Tidy(disk[n], index[n])
    BY DEF TidyState
  <1>5. Flat(DOMAIN f \cup DOMAIN index[n])
    BY <1>3, <1>4 DEF Tidy, Flat
  <1>6. RowsMatch(f, index[n])
    <2> SUFFICES ASSUME NEW q \in DOMAIN f, f[q].row = q, q \in LiveRows(index[n])
                 PROVE  index[n][q].content = f[q].content
      BY DEF RowsMatch
    <2>1. q \in DOMAIN disk[n] /\ f[q] = disk[n][q]
      BY <1>3
    <2> QED
      BY <1>4, <2>1 DEF Tidy, RowsMatch
  <1>7. CopiesThere(f, index[n])
    <2>1. ASSUME NEW q \in DOMAIN index[n], IsCopy(q)
          PROVE  q \in DOMAIN f /\ f[q].content = Lost(q).content
      <3>1. q \in DOMAIN disk[n] /\ disk[n][q].content = Lost(q).content
        BY <1>4, <2>1 DEF Tidy, CopiesThere
      <3>2. q \notin Path
        BY <2>1, UserNames
      <3>3. q \in DOMAIN f
        BY <3>1, <3>2 DEF Edited
      <3> QED
        BY <1>3, <3>1, <3>2, <3>3
    <2> QED
      BY <1>4, <2>1 DEF Tidy, CopiesThere
  <1> QED
    BY <1>1, <1>2, <1>4, <1>5, <1>6, <1>7 DEF TidyState, Tidy

\* Roots and passes after a step.
LEMMA RootsAfter ==
    ASSUME ReplicasInv, NEW n \in Replica, NEW root, Becomes(n, root)
    PROVE  \A m \in Replica : /\ disk'[m] = IF m = n THEN root.disk ELSE disk[m]
                              /\ index'[m] = IF m = n THEN root.index ELSE index[m]
  BY DEF Becomes, ReplicasInv

LEMMA PassesAfter ==
    ASSUME ReplicasInv, NEW c \in Client, NEW s, Goto(c, s)
    PROVE  \A d \in Client : session'[d] = IF d = c THEN s ELSE session[d]
  BY DEF Goto, ReplicasInv

LEMMA ScanAsIndexed ==
    ASSUME ReplicasInv, OwnRows, TidyState, NEW n \in Replica, NEW root \in Scan(n)
    PROVE  AsIndexed(root.disk, root.index)
  <1>1. RowsMatch(disk[n], index[n])
    BY DEF TidyState, Tidy
  <1>2. Read(n, root)
    BY <1>1, ScanReads
  <1> QED
    BY <1>2 DEF Read, AsIndexed

LEMMA InstallAsIndexed ==
    ASSUME NEW root, AsIndexed(root.disk, root.index), NEW p, Len(p) = 1, NEW r \in Record
    PROVE  AsIndexed(Install(root, p, r).disk, Install(root, p, r).index)
  <1> DEFINE new == Install(root, p, r)
             f == root.disk
             i == root.index
             h == new.disk
             j == new.index
  <1>1. OnlyAt(root, p, r, new)
    BY InstallFlat
  <1>2. /\ r.tombstone => DOMAIN h = DOMAIN f \ {p}
        /\ ~r.tombstone => DOMAIN h = DOMAIN f \cup {p} /\ h[p] = Entry(r.content, p)
        /\ \A q \in DOMAIN h \ {p} : h[q] = f[q]
        /\ DOMAIN j = DOMAIN i \cup {p}
        /\ j[p] = r
        /\ \A q \in DOMAIN i \ {p} : j[q] = i[q]
    BY <1>1 DEF OnlyAt
  <1>3. DOMAIN f = LiveRows(i) /\ \A q \in DOMAIN f : f[q] = Entry(i[q].content, q)
    BY DEF AsIndexed
  <1> HIDE DEF new, f, i, h, j
  <1>4. r.tombstone \in BOOLEAN
    BY DEF Record
  <1>5. DOMAIN h = LiveRows(j)
    BY <1>2, <1>3, <1>4 DEF LiveRows
  <1>6. \A q \in DOMAIN h : h[q] = Entry(j[q].content, q)
    <2> SUFFICES ASSUME NEW q \in DOMAIN h
                 PROVE  h[q] = Entry(j[q].content, q)
      OBVIOUS
    <2>1. CASE q = p
      BY <1>2, <1>4, <2>1
    <2>2. CASE q # p
      <3>1. q \in DOMAIN f /\ q \in DOMAIN i
        BY <1>2, <1>3, <1>4, <2>2 DEF LiveRows
      <3> QED
        BY <1>2, <1>3, <2>2, <3>1
    <2> QED
      BY <2>1, <2>2
  <1>7. AsIndexed(h, j)
    BY <1>5, <1>6 DEF AsIndexed
  <1> QED
    BY <1>7 DEF h, j, new

LEMMA PassUndisturbed ==
    ASSUME ReplicasInv, PlansFit, OwnRows, TidyState, Undisturbed, NEW c \in Client, Pass(c)
    PROVE  Undisturbed'
  <1>1. PICK s : Goto(c, s) /\ Moves(c, s)
    BY PassMoves
  <1>2. \A d \in Client : session'[d] = IF d = c THEN s ELSE session[d]
    BY <1>1, PassesAfter
  <1>3. Client \subseteq Replica \ {Server} /\ Server \in Replica
    BY ServerAndClients DEF Client
  <1> SUFFICES ASSUME NEW d \in Client, session'[d].step = "apply", session'[d].here # {}
               PROVE  AsIndexed(disk'[d], index'[d])
    BY DEF Undisturbed, Applying, AtStep
  <1>4. session[d].step = "apply" /\ session[d].here # {} => AsIndexed(disk[d], index[d])
    BY DEF Undisturbed, Applying, AtStep
  <1>5. Rests(c, s) => session[d].step = "apply" /\ session[d].here # {}
    BY <1>2 DEF Rests, Agrees, Ended
  <1>6. CASE Waits(c, s)
    BY <1>4, <1>5, <1>6 DEF Waits, replicas
  <1>7. CASE Rescans(c, s)
    <2>1. PICK n \in {c, Server} : \E root \in Scan(n) : Becomes(n, root) /\ Rests(c, s)
      BY <1>7 DEF Rescans
    <2>2. PICK root \in Scan(n) : Becomes(n, root) /\ Rests(c, s)
      BY <2>1
    <2>3. /\ disk'[d] = IF d = n THEN root.disk ELSE disk[d]
          /\ index'[d] = IF d = n THEN root.index ELSE index[d]
      BY <1>3, <2>2, RootsAfter
    <2>4. AsIndexed(root.disk, root.index)
      BY <1>3, <2>2, ScanAsIndexed
    <2> QED
      BY <1>4, <1>5, <2>2, <2>3, <2>4
  <1>8. CASE Starts(c, s)
    <2>1. PICK root \in Scan(c) :
              Becomes(c, root) /\ s = [Idle EXCEPT !.step = "fetch", !.local = root.index]
      BY <1>8 DEF Starts
    <2>2. s.step = "fetch"
      BY <2>1 DEF Idle
    <2>3. d # c /\ session[d].step = "apply" /\ session[d].here # {}
      BY <1>2, <2>2
    <2>4. disk'[d] = disk[d] /\ index'[d] = index[d]
      BY <1>3, <2>1, <2>3, RootsAfter
    <2> QED
      BY <1>4, <2>3, <2>4
  <1>9. CASE Draws(c, s)
    <2>1. PICK root \in Scan(Server) :
              /\ Becomes(Server, root)
              /\ s = Plan(index[c], root.index, MergeSnapshots(index[c], root.index))
      BY <1>9 DEF Draws
    <2>2. s.step = "stage"
      BY <2>1 DEF Plan
    <2>3. d # c /\ session[d].step = "apply" /\ session[d].here # {}
      BY <1>2, <2>2
    <2>4. disk'[d] = disk[d] /\ index'[d] = index[d]
      BY <1>3, <2>1, <2>3, RootsAfter
    <2> QED
      BY <1>4, <2>3, <2>4
  <1>10. CASE Checks(c, s)
    <2>1. PICK root \in Scan(c) : Becomes(c, root)
      BY <1>10 DEF Checks
    <2>2. /\ disk'[d] = IF d = c THEN root.disk ELSE disk[d]
          /\ index'[d] = IF d = c THEN root.index ELSE index[d]
      BY <1>3, <2>1, RootsAfter
    <2>3. AsIndexed(root.disk, root.index)
      BY <1>3, <2>1, ScanAsIndexed
    <2> QED
      BY <1>2, <1>4, <2>2, <2>3
  <1>11. CASE Takes(c, s)
    <2> DEFINE root == Root(disk[c], index[c], counter[c])
    <2>1. PICK p \in session[c].here : Becomes(c, Install(root, p, session[c].desired[p]))
      BY <1>11 DEF Takes
    <2> DEFINE new == Install(root, p, session[c].desired[p])
    <2>2. /\ disk'[d] = IF d = c THEN new.disk ELSE disk[d]
          /\ index'[d] = IF d = c THEN new.index ELSE index[d]
      BY <1>3, <2>1, RootsAfter
    <2>3. root.disk = disk[c] /\ root.index = index[c]
      BY DEF Root
    <2>4. session[c].step = "apply" /\ session[c].here # {}
      BY <1>11, <2>1 DEF Takes, AtStep
    <2>5. AsIndexed(root.disk, root.index)
      BY <2>3, <2>4 DEF Undisturbed, Applying, AtStep
    <2>6. p \in DOMAIN session[c].desired
      BY DEF ReplicasInv, IsPass
    <2>7. session[c].desired[p] \in Record /\ Len(p) = 1
      BY <2>6, DesiredRecord DEF TidyState, TidyPlan, Flat
    <2> HIDE DEF root
    <2>8. AsIndexed(new.disk, new.index)
      BY <2>5, <2>7, InstallAsIndexed
    <2> HIDE DEF new
    <2> QED
      BY <1>2, <1>4, <2>2, <2>8
  <1>12. CASE Gives(c, s)
    <2>1. PICK p \in session[c].there : \E root \in Scan(Server) :
              Becomes(Server, Install(root, p, session[c].desired[p]))
      BY <1>12 DEF Gives
    <2>2. PICK root \in Scan(Server) : Becomes(Server, Install(root, p, session[c].desired[p]))
      BY <2>1
    <2>3. disk'[d] = disk[d] /\ index'[d] = index[d]
      BY <1>3, <2>2, RootsAfter
    <2>4. Agrees(s, session[c])
      BY <1>12 DEF Gives
    <2> QED
      BY <1>2, <1>4, <2>3, <2>4 DEF Agrees
  <1> QED
    BY <1>1, <1>6, <1>7, <1>8, <1>9, <1>10, <1>11, <1>12 DEF Moves

-----------------------------------------------------------------------------
(* Where a content is. *)

\* The event t of n at p is a user's writing of v: whatever knows it is a file
\* with v, in every index, in every snapshot of a pass and in every plan that is
\* applied; and where the index knows it the file is on the disk.
RootCarries(f, i, n, t, p, v) ==
    /\ Carries(i, n, t, p, v)
    /\ p \in DOMAIN i /\ i[p].version[n] >= t => p \in DOMAIN f /\ f[p].content = v
PassCarries(s, n, t, p, v) ==
    /\ Carries(s.local, n, t, p, v) /\ Carries(s.remote, n, t, p, v)
    /\ s.step = "apply" => Carries(s.desired, n, t, p, v)
Carried(n, t, p, v) ==
    /\ ~IsCopy(p) /\ p \in DOMAIN index[n] /\ index[n][p].version[n] >= t
    /\ \A m \in Replica : RootCarries(disk[m], index[m], n, t, p, v)
    /\ \A c \in Client : PassCarries(session[c], n, t, p, v)

\* An entry that no scan has read.
Unread(n, p, v) ==
    p \in DOMAIN disk[n] /\ ~IsCopy(p) /\ disk[n][p].content = v /\ disk[n][p].row # p

\* A copy that an index has, or that a client is about to install.
CopyOn(n, q, v) == q \in DOMAIN index[n] /\ IsCopy(q) /\ Lost(q).content = v
CopyDue(c, q, v) ==
    AtStep(c, "apply") /\ q \in session[c].here /\ IsCopy(q) /\ Lost(q).content = v
Copied(v) == \/ \E n \in Replica : \E q : CopyOn(n, q, v)
             \/ \E c \in Client : \E q : CopyDue(c, q, v)

Kept(v) == \/ \E n \in Replica : \E p : Unread(n, p, v)
           \/ \E n \in Replica : \E t \in Nat \ {0} : \E p : Carried(n, t, p, v)
           \/ Copied(v)

LEMMA ScanCarries ==
    ASSUME ReplicasInv, OwnRows, TidyState,
           NEW n \in Replica, NEW t \in Nat \ {0}, NEW p, NEW v \in Content, Carried(n, t, p, v),
           NEW m \in Replica, NEW root \in Scan(m)
    PROVE  RootCarries(root.disk, root.index, n, t, p, v)
  <1> DEFINE i == index[m]
             j == root.index
  <1>1. Ticked(m, j)
    BY ScanTicks
  <1>2. Read(m, root)
    BY ScanReads DEF TidyState, Tidy
  <1>3. IsIndex(i) /\ AllBelow(i, counter) /\ counter[m] \in Nat
    BY DEF ReplicasInv
  <1>4. RootCarries(disk[m], i, n, t, p, v)
    BY DEF Carried
  <1> SUFFICES ASSUME p \in DOMAIN j, j[p].version[n] >= t
               PROVE  /\ LiveFile(j[p]) /\ j[p].content = v
                      /\ p \in DOMAIN root.disk /\ root.disk[p].content = v
    BY DEF RootCarries, Carries
  <1>5. p \in DOMAIN i /\ i[p].version[n] >= t
    <2>1. CASE m = n
      BY <2>1 DEF Carried
    <2>2. CASE p \in DOMAIN i /\ j[p] = i[p]
      BY <2>2
    <2>3. CASE m # n /\ ~(p \in DOMAIN i /\ j[p] = i[p])
      <3>1. PICK x \in VersionVector, u \in Nat :
                /\ u > counter[m] /\ j[p].version = Observe(x, m, u)
                /\ \/ p \in DOMAIN i /\ x = i[p].version
                   \/ p \notin DOMAIN i /\ x = NoVersion
        BY <1>1, <2>3 DEF Ticked
      <3>2. m \in Clock /\ n \in Clock
        BY DEF Clock
      <3>3. x[m] < u
        <4>1. CASE p \in DOMAIN i
          <5>1. x[m] <= counter[m]
            BY <1>3, <3>1, <4>1 DEF AllBelow, Below
          <5>2. x[m] \in Nat
            BY <3>1, <3>2 DEF VersionVector
          <5> QED
            BY <1>3, <3>1, <5>1, <5>2
        <4>2. CASE p \notin DOMAIN i
          <5>1. x[m] = 0
            BY <3>1, <3>2, <4>2 DEF NoVersion
          <5> QED
            BY <1>3, <3>1, <5>1
        <4> QED
          BY <4>1, <4>2
      <3>4. j[p].version[n] = x[n]
        BY <2>3, <3>1, <3>2, <3>3, Observed
      <3>5. p \in DOMAIN i
        <4> SUFFICES ASSUME p \notin DOMAIN i
                     PROVE  FALSE
          OBVIOUS
        <4>1. x[n] = 0
          BY <3>1, <3>2 DEF NoVersion
        <4>2. 0 >= t
          BY <3>4, <4>1
        <4> QED
          BY <4>2
      <3> QED
        BY <3>1, <3>4, <3>5
    <2> QED
      BY <2>1, <2>2, <2>3
  <1>6. p \in DOMAIN disk[m] /\ disk[m][p].content = v
    BY <1>4, <1>5 DEF RootCarries
  <1>7. /\ ~j[p].tombstone /\ j[p].content = v
        /\ p \in DOMAIN root.disk /\ root.disk[p].content = v
    BY <1>2, <1>6 DEF Read, LiveRows, Entry
  <1>8. v # Directory
    BY ReconcileAssumption
  <1> QED
    BY <1>7, <1>8 DEF LiveFile

LEMMA InstallCarries ==
    ASSUME NEW n, NEW t, NEW p, NEW v,
           NEW root, RootCarries(root.disk, root.index, n, t, p, v),
           NEW q, Len(q) = 1, NEW r, q = p /\ r.version[n] >= t => LiveFile(r) /\ r.content = v
    PROVE  RootCarries(Install(root, q, r).disk, Install(root, q, r).index, n, t, p, v)
  <1> DEFINE new == Install(root, q, r)
             h == new.disk
             j == new.index
             f == root.disk
             i == root.index
  <1>1. OnlyAt(root, q, r, new)
    BY InstallFlat
  <1>2. /\ ~r.tombstone => DOMAIN h = DOMAIN f \cup {q} /\ h[q] = Entry(r.content, q)
        /\ r.tombstone => DOMAIN h = DOMAIN f \ {q}
        /\ \A x \in DOMAIN h \ {q} : h[x] = f[x]
        /\ DOMAIN j = DOMAIN i \cup {q} /\ j[q] = r
        /\ \A x \in DOMAIN i \ {q} : j[x] = i[x]
    BY <1>1 DEF OnlyAt
  <1>3. ~r.tombstone => h[q].content = r.content
    BY <1>2 DEF Entry
  <1> HIDE DEF new, h, j, f, i
  <1> SUFFICES ASSUME p \in DOMAIN j, j[p].version[n] >= t
               PROVE  LiveFile(j[p]) /\ j[p].content = v /\ p \in DOMAIN h /\ h[p].content = v
    BY DEF RootCarries, Carries, h, j, new
  <1>4. CASE p = q
    <2>1. LiveFile(r) /\ r.content = v
      BY <1>2, <1>4
    <2> QED
      BY <1>2, <1>3, <1>4, <2>1 DEF LiveFile
  <1>5. CASE p # q
    <2>1. p \in DOMAIN i /\ j[p] = i[p]
      BY <1>2, <1>5
    <2>2. LiveFile(i[p]) /\ i[p].content = v /\ p \in DOMAIN f /\ f[p].content = v
      BY <2>1 DEF RootCarries, Carries, f, i
    <2>3. p \in DOMAIN h /\ h[p] = f[p]
      BY <1>2, <1>5, <2>2
    <2> QED
      BY <2>1, <2>2, <2>3
  <1> QED
    BY <1>4, <1>5

LEMMA CarriedAfter ==
    ASSUME ReplicasInv, ReplicasInv', NEW n \in Replica, NEW t \in Nat, NEW p, NEW v,
           Carried(n, t, p, v), Remembers(index[n], index'[n]),
           \A m \in Replica : RootCarries(disk'[m], index'[m], n, t, p, v),
           \A c \in Client : PassCarries(session'[c], n, t, p, v)
    PROVE  Carried(n, t, p, v)'
  <1>1. ~IsCopy(p) /\ p \in DOMAIN index[n] /\ index[n][p].version[n] >= t
    BY DEF Carried
  <1>2. p \in DOMAIN index'[n] /\ Known(index[n][p].version, index'[n][p].version)
    BY <1>1 DEF Remembers
  <1>3. index[n][p].version \in VersionVector /\ index'[n][p].version \in VersionVector
    BY <1>1, <1>2 DEF ReplicasInv, IsIndex, IsSnapshot, Record
  <1>4. n \in Clock
    BY DEF Clock
  <1> DEFINE a == index[n][p].version
             b == index'[n][p].version
  <1> HIDE DEF a, b
  <1>5. a[n] <= b[n] /\ a[n] \in Nat /\ b[n] \in Nat /\ a[n] >= t
    BY <1>1, <1>2, <1>3, <1>4, KnownMeaning DEF VersionVector, a, b
  <1>6. b[n] >= t
    BY <1>5
  <1> QED
    BY <1>1, <1>2, <1>6 DEF Carried, b

LEMMA RestCarries ==
    ASSUME NEW c, NEW s, Rests(c, s), NEW n, NEW t, NEW p, NEW v,
           PassCarries(session[c], n, t, p, v)
    PROVE  PassCarries(s, n, t, p, v)
  <1>1. CASE Agrees(s, session[c])
    BY <1>1 DEF Agrees, PassCarries
  <1>2. CASE Ended(c, s)
    BY <1>2 DEF Ended, PassCarries, Carries, Empty
  <1> QED
    BY <1>1, <1>2 DEF Rests

\* A plan that is about to be applied keeps a content in place, or has a copy.
LEMMA CheckCarries ==
    ASSUME ReplicasInv, PlansFit, NamesKnown,
           NEW n \in Replica, NEW t \in Nat, NEW p, NEW v, Carried(n, t, p, v),
           NEW c \in Client, AtStep(c, "stage"), AllPlain(session[c].local)
    PROVE  \/ Carries(session[c].desired, n, t, p, v)
           \/ \E q \in DOMAIN session[c].desired : IsCopy(q) /\ Lost(q).content = v
  <1> DEFINE L == session[c].local
             R == session[c].remote
             M == MergeSnapshots(L, R)
  <1>1. session[c].desired = M
    BY DEF PlansFit, PlanFits, AtStep
  <1>2. IsIndex(L) /\ IsIndex(R)
    BY DEF ReplicasInv, IsPass
  <1>3. ~IsCopy(p) /\ Carries(L, n, t, p, v) /\ Carries(R, n, t, p, v)
    BY DEF Carried, PassCarries
  <1>4. DOMAIN M = DOMAIN L \cup DOMAIN R \cup {CopyAt(L, R)[x] : x \in Losing(L, R)}
    BY MergeShape
  <1> HIDE DEF L, R
  <1>5. ASSUME NEW x \in Losing(L, R)
        PROVE  LET q == CopyAt(L, R)[x]
               IN  q \in DOMAIN M /\ IsCopy(q) /\ Lost(q) = Loser(L[x], R[x])
    <2> DEFINE q == CopyAt(L, R)[x]
    <2>1. x \in DOMAIN L /\ IsPath(x) /\ Plain(x)
      BY <1>2 DEF Losing, IsIndex, AllPlain, L
    <2>2. q = ConflictPath(x, Loser(L[x], R[x]), DOMAIN L \cup DOMAIN R)
      BY DEF CopyAt
    <2> HIDE DEF M
    <2>3. q \in DOMAIN M
      BY <1>4
    <2> HIDE DEF q
    <2> QED
      BY <2>1, <2>2, <2>3, CopyNamed DEF q
  <1>6. CASE p \in DOMAIN L \cup DOMAIN R
    <2>1. Carries(M, n, t, p, v) \/ (p \in Losing(L, R) /\ Loser(L[p], R[p]).content = v)
      BY <1>2, <1>3, <1>6, MergeCarries
    <2> HIDE DEF M
    <2> QED
      BY <1>1, <1>5, <2>1
  <1>7. CASE p \notin DOMAIN L \cup DOMAIN R
    <2>1. p \notin DOMAIN M
      <3> SUFFICES ASSUME p \in DOMAIN M
                   PROVE  FALSE
        OBVIOUS
      <3> HIDE DEF M
      <3>1. PICK x \in Losing(L, R) : p = CopyAt(L, R)[x]
        BY <1>7, <1>4
      <3> QED
        BY <1>3, <1>5, <3>1
    <2> QED
      BY <1>1, <2>1 DEF Carries
  <1> QED
    BY <1>6, <1>7

Orderly == ReplicasInv /\ PlansFit /\ OwnRows /\ NamesKnown /\ TidyState /\ Undisturbed

\* No step of a pass loses a content that an event carries: it stays in place,
\* or a plan is about to be applied that has it as a copy.
LEMMA PassCarried ==
    ASSUME Orderly, ReplicasInv', NEW n \in Replica, NEW t \in Nat \ {0}, NEW p,
           NEW v \in Content, Carried(n, t, p, v), NEW c \in Client, Pass(c)
    PROVE  Carried(n, t, p, v)' \/ Copied(v)'
  <1>0. ReplicasInv /\ PlansFit /\ OwnRows /\ NamesKnown /\ TidyState /\ Undisturbed
    BY DEF Orderly
  <1>1. PICK s : Goto(c, s) /\ Moves(c, s)
    BY <1>0, PassMoves
  <1>2. \A d \in Client : session'[d] = IF d = c THEN s ELSE session[d]
    BY <1>0, <1>1, PassesAfter
  <1>3. c \in Replica /\ Server \in Replica /\ c # Server
    BY ServerAndClients DEF Client
  <1>4. /\ \A m \in Replica : RootCarries(disk[m], index[m], n, t, p, v)
        /\ \A d \in Client : PassCarries(session[d], n, t, p, v)
    BY DEF Carried
  <1>5. Remembers(index[n], index'[n])
    BY <1>0, PassRemembers
  <1>6. ASSUME PassCarries(s, n, t, p, v),
               \A m \in Replica : RootCarries(disk'[m], index'[m], n, t, p, v)
        PROVE  Carried(n, t, p, v)'
    <2>1. \A d \in Client : PassCarries(session'[d], n, t, p, v)
      BY <1>2, <1>4, <1>6
    <2> QED
      BY <1>0, <1>5, <1>6, <2>1, CarriedAfter
  <1>7. ASSUME PassCarries(s, n, t, p, v), NEW m \in Replica, NEW root, Becomes(m, root),
               RootCarries(root.disk, root.index, n, t, p, v)
        PROVE  Carried(n, t, p, v)'
    <2>1. \A k \in Replica : RootCarries(disk'[k], index'[k], n, t, p, v)
      BY <1>0, <1>4, <1>7, RootsAfter
    <2> QED
      BY <1>6, <1>7, <2>1
  <1>8. \A m \in Replica : \A root \in Scan(m) : RootCarries(root.disk, root.index, n, t, p, v)
    BY <1>0, ScanCarries
  <1>9. Rests(c, s) => PassCarries(s, n, t, p, v)
    BY <1>4, RestCarries
  <1>10. Carries(Empty, n, t, p, v)
    BY DEF Carries, Empty
  <1>11. CASE Waits(c, s)
    <2>1. disk' = disk /\ index' = index
      BY <1>11 DEF Waits, replicas
    <2> QED
      BY <1>4, <1>6, <1>9, <1>11, <2>1 DEF Waits
  <1>12. CASE Rescans(c, s)
    <2>1. PICK m \in {c, Server} : \E root \in Scan(m) : Becomes(m, root) /\ Rests(c, s)
      BY <1>12 DEF Rescans
    <2> QED
      BY <1>3, <1>7, <1>8, <1>9, <2>1
  <1>13. CASE Starts(c, s)
    <2>1. PICK root \in Scan(c) :
              Becomes(c, root) /\ s = [Idle EXCEPT !.step = "fetch", !.local = root.index]
      BY <1>13 DEF Starts
    <2>2. s.step = "fetch" /\ s.local = root.index /\ s.remote = Empty
      BY <2>1 DEF Idle
    <2>3. RootCarries(root.disk, root.index, n, t, p, v)
      BY <1>3, <1>8
    <2>4. PassCarries(s, n, t, p, v)
      BY <1>10, <2>2, <2>3 DEF PassCarries, RootCarries
    <2> QED
      BY <1>3, <1>7, <2>1, <2>3, <2>4
  <1>14. CASE Draws(c, s)
    <2>1. PICK root \in Scan(Server) :
              /\ Becomes(Server, root)
              /\ s = Plan(index[c], root.index, MergeSnapshots(index[c], root.index))
      BY <1>14 DEF Draws
    <2>2. s.step = "stage" /\ s.local = index[c] /\ s.remote = root.index
      BY <2>1 DEF Plan
    <2>3. RootCarries(root.disk, root.index, n, t, p, v)
      BY <1>3, <1>8
    <2>4. PassCarries(s, n, t, p, v)
      BY <1>3, <1>4, <2>2, <2>3 DEF PassCarries, RootCarries
    <2> QED
      BY <1>3, <1>7, <2>1, <2>3, <2>4
  <1>15. CASE Checks(c, s)
    <2>1. PICK root \in Scan(c) : Becomes(c, root) /\ root.index = session[c].local
      BY <1>15 DEF Checks
    <2>2. AtStep(c, "stage") /\ s = [session[c] EXCEPT !.step = "apply"]
      BY <1>15 DEF Checks
    <2>3. IsPass(session[c], counter)
      BY <1>0 DEF ReplicasInv
    <2>4. /\ s.step = "apply" /\ s.local = session[c].local /\ s.remote = session[c].remote
          /\ s.desired = session[c].desired /\ s.here = session[c].here
      BY <2>2, <2>3, FieldsKept
    <2>5. AllPlain(session[c].local)
      <3>1. Names(root.disk, root.index)
        BY <1>0, <1>3, ScanNames
      <3> QED
        BY <2>1, <3>1 DEF Names, AllPlain
    <2>6. CASE Carries(session[c].desired, n, t, p, v)
      <3>1. PassCarries(s, n, t, p, v)
        BY <1>4, <2>4, <2>6 DEF PassCarries
      <3> QED
        BY <1>3, <1>7, <1>8, <2>1, <3>1
    <2>7. ASSUME NEW q \in DOMAIN session[c].desired, IsCopy(q), Lost(q).content = v
          PROVE  Copied(v)'
      <3>1. session[c].here = ActionsToReach(session[c].local, session[c].desired)
        BY <1>0, <2>2 DEF PlansFit, PlanFits, AtStep
      <3>2. index'[c] = session[c].local
        BY <1>0, <1>3, <2>1, RootsAfter
      <3>3. session'[c].step = "apply" /\ session'[c].here = session[c].here
        BY <1>2, <2>4
      <3>4. q \in session[c].here \/ q \in DOMAIN session[c].local
        BY <3>1 DEF ActionsToReach
      <3>5. CopyDue(c, q, v)' \/ CopyOn(c, q, v)'
        BY <2>7, <3>2, <3>3, <3>4 DEF CopyDue, CopyOn, AtStep
      <3> QED
        BY <1>3, <3>5 DEF Copied
    <2>8. \/ Carries(session[c].desired, n, t, p, v)
          \/ \E q \in DOMAIN session[c].desired : IsCopy(q) /\ Lost(q).content = v
      BY <1>0, <2>2, <2>5, CheckCarries
    <2> QED
      BY <2>6, <2>7, <2>8
  <1>16. CASE Takes(c, s)
    <2> DEFINE root == Root(disk[c], index[c], counter[c])
    <2>1. PICK q \in session[c].here :
              /\ Becomes(c, Install(root, q, session[c].desired[q]))
              /\ s = [session[c] EXCEPT !.here = session[c].here \ {q}]
      BY <1>16 DEF Takes
    <2>2. root.disk = disk[c] /\ root.index = index[c]
      BY DEF Root
    <2>3. IsPass(session[c], counter) /\ session[c].step = "apply"
      BY <1>0, <1>16 DEF ReplicasInv, Takes, AtStep
    <2>4. /\ s.step = "apply" /\ s.local = session[c].local /\ s.remote = session[c].remote
          /\ s.desired = session[c].desired
      BY <2>1, <2>3, FieldsKept
    <2>5. PassCarries(s, n, t, p, v) /\ Carries(session[c].desired, n, t, p, v)
      BY <1>4, <2>3, <2>4 DEF PassCarries
    <2>6. q \in DOMAIN session[c].desired /\ Len(q) = 1
      BY <1>0, <2>3 DEF IsPass, TidyState, TidyPlan, Flat
    <2> HIDE DEF root
    <2> DEFINE r == session[c].desired[q]
    <2>7. q = p /\ r.version[n] >= t => LiveFile(r) /\ r.content = v
      BY <2>5, <2>6 DEF Carries
    <2>8. RootCarries(root.disk, root.index, n, t, p, v)
      BY <1>3, <1>4, <2>2
    <2>9. RootCarries(Install(root, q, r).disk, Install(root, q, r).index, n, t, p, v)
      <3> HIDE DEF r
      <3> QED
        BY <2>6, <2>7, <2>8, InstallCarries
    <2> QED
      BY <1>3, <1>7, <2>1, <2>5, <2>9
  <1>17. CASE Gives(c, s)
    <2>1. PICK q \in session[c].there : \E root \in Scan(Server) :
              Becomes(Server, Install(root, q, session[c].desired[q]))
      BY <1>17 DEF Gives
    <2>2. PICK root \in Scan(Server) : Becomes(Server, Install(root, q, session[c].desired[q]))
      BY <2>1
    <2>3. IsPass(session[c], counter) /\ session[c].step = "apply" /\ Rests(c, s)
      BY <1>0, <1>17 DEF ReplicasInv, Gives, AtStep, Rests
    <2>4. Carries(session[c].desired, n, t, p, v)
      BY <1>4, <2>3 DEF PassCarries
    <2>5. q \in DOMAIN session[c].desired /\ Len(q) = 1
      BY <1>0, <2>3 DEF IsPass, TidyState, TidyPlan, Flat
    <2> DEFINE r == session[c].desired[q]
    <2>6. q = p /\ r.version[n] >= t => LiveFile(r) /\ r.content = v
      BY <2>4, <2>5 DEF Carries
    <2>7. RootCarries(root.disk, root.index, n, t, p, v)
      BY <1>3, <1>8
    <2>8. RootCarries(Install(root, q, r).disk, Install(root, q, r).index, n, t, p, v)
      <3> HIDE DEF r
      <3> QED
        BY <2>5, <2>6, <2>7, InstallCarries
    <2> QED
      BY <1>3, <1>7, <1>9, <2>2, <2>3, <2>8
  <1> QED
    BY <1>1, <1>11, <1>12, <1>13, <1>14, <1>15, <1>16, <1>17 DEF Moves

\* Where a copy is installed or due, it stays.
LEMMA PassCopied ==
    ASSUME Orderly, NEW v, Copied(v), NEW c \in Client, Pass(c)
    PROVE  Copied(v)'
  <1>0. ReplicasInv /\ PlansFit /\ OwnRows /\ NamesKnown /\ TidyState /\ Undisturbed
    BY DEF Orderly
  <1>1. PICK s : Goto(c, s) /\ Moves(c, s)
    BY <1>0, PassMoves
  <1>2. \A d \in Client : session'[d] = IF d = c THEN s ELSE session[d]
    BY <1>0, <1>1, PassesAfter
  <1>3. c \in Replica
    BY ServerAndClients
  <1>4. ASSUME NEW n \in Replica, NEW q, CopyOn(n, q, v)
        PROVE  Copied(v)'
    <2>1. Remembers(index[n], index'[n])
      BY <1>0, PassRemembers
    <2>2. CopyOn(n, q, v)'
      BY <1>4, <2>1 DEF CopyOn, Remembers
    <2> QED
      BY <2>2 DEF Copied
  <1>5. ASSUME NEW d \in Client, NEW q, CopyDue(d, q, v)
        PROVE  Copied(v)'
    <2>1. /\ session[d].step = "apply" /\ q \in session[d].here
          /\ IsCopy(q) /\ Lost(q).content = v
      BY <1>5 DEF CopyDue, AtStep
    <2>2. ASSUME session'[d].step = "apply", q \in session'[d].here
          PROVE  Copied(v)'
      <3>1. CopyDue(d, q, v)'
        BY <2>1, <2>2 DEF CopyDue, AtStep
      <3> QED
        BY <3>1 DEF Copied
    <2>3. CASE d # c
      BY <1>2, <2>1, <2>2, <2>3
    <2>4. CASE d = c
      <3>1. CASE Rests(c, s)
        <4>1. Agrees(s, session[c])
          BY <2>1, <2>4, <3>1 DEF Rests, Ended, Applying, AtStep
        <4> QED
          BY <1>2, <2>1, <2>2, <2>4, <4>1 DEF Agrees
      <3>2. CASE Takes(c, s)
        <4> DEFINE root == Root(disk[c], index[c], counter[c])
        <4>1. PICK p \in session[c].here :
                  /\ Becomes(c, Install(root, p, session[c].desired[p]))
                  /\ s = [session[c] EXCEPT !.here = session[c].here \ {p}]
          BY <3>2 DEF Takes
        <4>2. IsPass(session[c], counter)
          BY <1>0 DEF ReplicasInv
        <4>3. s.step = "apply" /\ s.here = session[c].here \ {p}
          BY <2>1, <2>4, <4>1, <4>2, FieldsKept
        <4>4. CASE q # p
          BY <1>2, <2>1, <2>2, <2>4, <4>3, <4>4
        <4>5. CASE q = p
          <5> DEFINE new == Install(root, p, session[c].desired[p])
          <5>1. index'[c] = new.index
            BY <1>0, <1>3, <4>1, RootsAfter
          <5>2. p \in DOMAIN new.index
            BY DEF Install, Root, Put
          <5> HIDE DEF new
          <5>3. CopyOn(c, q, v)'
            BY <2>1, <4>5, <5>1, <5>2 DEF CopyOn
          <5> QED
            BY <1>3, <5>3 DEF Copied
        <4> QED
          BY <4>4, <4>5
      <3> QED
        BY <1>1, <2>1, <2>4, <3>1, <3>2
           DEF Moves, Waits, Rescans, Starts, Draws, Checks, Gives, AtStep
    <2> QED
      BY <2>3, <2>4
  <1> QED
    BY <1>4, <1>5 DEF Copied

\* A root where n has just written down v at p, as its event t.
Shows(root, n, t, p, v) ==
    /\ p \in DOMAIN root.index /\ root.index[p].version[n] >= t
    /\ LiveFile(root.index[p]) /\ root.index[p].content = v
    /\ p \in DOMAIN root.disk /\ root.disk[p].content = v

LEMMA ScanShows ==
    ASSUME ReplicasInv, OwnRows, TidyState, NEW n \in Replica, NEW p, NEW v \in Content,
           Unread(n, p, v), NEW root \in Scan(n), NEW t, t = counter[n] + 1
    PROVE  Shows(root, n, t, p, v)
  <1>1. Read(n, root)
    BY ScanReads DEF TidyState, Tidy
  <1>2. p \in DOMAIN disk[n] /\ disk[n][p].content = v /\ disk[n][p].row # p
    BY DEF Unread
  <1>3. /\ p \in DOMAIN root.disk /\ root.disk[p].content = v
        /\ p \in DOMAIN root.index /\ ~root.index[p].tombstone /\ root.index[p].content = v
        /\ root.index[p].version[n] > counter[n]
    BY <1>1, <1>2 DEF Read, LiveRows, Entry
  <1>4. v # Directory
    BY ReconcileAssumption
  <1>5. IsIndex(root.index) /\ counter[n] \in Nat /\ n \in Clock
    BY ScanSafe DEF IsRoot, ReplicasInv, Clock
  <1> DEFINE a == root.index[p].version[n]
  <1>6. a \in Nat
    BY <1>3, <1>5 DEF IsIndex, IsSnapshot, Record, VersionVector
  <1>7. a > counter[n]
    BY <1>3
  <1> HIDE DEF a
  <1>8. a >= t
    BY <1>5, <1>6, <1>7
  <1> QED
    BY <1>3, <1>4, <1>8 DEF Shows, LiveFile, a

\* What counts no event beyond the counters does not know the next one.
LEMMA BelowCarries ==
    ASSUME ReplicasInv, NEW n \in Replica, NEW t, t = counter[n] + 1,
           NEW S, IsIndex(S), AllBelow(S, counter)
    PROVE  \A p : /\ p \in DOMAIN S => ~(S[p].version[n] >= t)
                  /\ \A v : Carries(S, n, t, p, v)
  <1> SUFFICES ASSUME NEW p \in DOMAIN S
               PROVE  ~(S[p].version[n] >= t)
    BY DEF Carries
  <1> DEFINE a == S[p].version[n]
  <1>1. a <= counter[n]
    BY DEF AllBelow, Below
  <1>2. a \in Nat /\ counter[n] \in Nat
    BY DEF IsIndex, IsSnapshot, Record, VersionVector, Clock, ReplicasInv
  <1> HIDE DEF a
  <1>3. ~(a >= t)
    BY <1>1, <1>2
  <1> QED
    BY <1>3 DEF a

LEMMA NewlyCarried ==
    ASSUME ReplicasInv, NEW n \in Replica, NEW t, t = counter[n] + 1, NEW p, ~IsCopy(p), NEW v,
           NEW root, Becomes(n, root), Shows(root, n, t, p, v),
           NEW c \in Client, NEW s, Goto(c, s), PassCarries(s, n, t, p, v)
    PROVE  Carried(n, t, p, v)'
  <1>1. \A m \in Replica : /\ disk'[m] = IF m = n THEN root.disk ELSE disk[m]
                           /\ index'[m] = IF m = n THEN root.index ELSE index[m]
    BY RootsAfter
  <1>2. \A d \in Client : session'[d] = IF d = c THEN s ELSE session[d]
    BY PassesAfter
  <1>3. \A m \in Replica : RootCarries(disk[m], index[m], n, t, p, v)
    <2> SUFFICES ASSUME NEW m \in Replica
                 PROVE  RootCarries(disk[m], index[m], n, t, p, v)
      OBVIOUS
    <2>1. IsIndex(index[m]) /\ AllBelow(index[m], counter)
      BY DEF ReplicasInv
    <2> QED
      BY <2>1, BelowCarries DEF RootCarries
  <1>4. \A d \in Client : PassCarries(session[d], n, t, p, v)
    <2> SUFFICES ASSUME NEW d \in Client
                 PROVE  PassCarries(session[d], n, t, p, v)
      OBVIOUS
    <2> DEFINE o == session[d]
    <2>1. /\ IsIndex(o.local) /\ IsIndex(o.remote) /\ IsIndex(o.desired)
          /\ AllBelow(o.local, counter) /\ AllBelow(o.remote, counter)
          /\ AllBelow(o.desired, counter)
      BY DEF ReplicasInv, IsPass
    <2> HIDE DEF o
    <2>2. PassCarries(o, n, t, p, v)
      BY <2>1, BelowCarries DEF PassCarries
    <2> QED
      BY <2>2 DEF o
  <1>5. RootCarries(root.disk, root.index, n, t, p, v)
    BY DEF Shows, RootCarries, Carries
  <1>6. p \in DOMAIN index'[n] /\ index'[n][p].version[n] >= t
    BY <1>1 DEF Shows
  <1>7. \A m \in Replica : RootCarries(disk'[m], index'[m], n, t, p, v)
    BY <1>1, <1>3, <1>5
  <1>8. \A d \in Client : PassCarries(session'[d], n, t, p, v)
    BY <1>2, <1>4
  <1> QED
    BY <1>6, <1>7, <1>8 DEF Carried


\* A record that does not know an event is not admitted over one that does.
LEMMA NotAdmitted ==
    ASSUME ReplicasInv, NEW n \in Replica, NEW t, t = counter[n] + 1,
           NEW a \in Record, a.version[n] >= t,
           NEW S, IsIndex(S), AllBelow(S, counter), NEW q \in DOMAIN S
    PROVE  ~Admits(a, S[q])
  <1> SUFFICES ASSUME Admits(a, S[q])
               PROVE  FALSE
    OBVIOUS
  <1>1. ~(S[q].version[n] >= t)
    BY BelowCarries
  <1>2. a.version \in VersionVector /\ S[q].version \in VersionVector /\ n \in Clock
    BY DEF Record, IsIndex, IsSnapshot, Clock
  <1>3. Known(a.version, S[q].version)
    BY DEF Admits, Known
  <1>4. a.version[n] <= S[q].version[n]
    BY <1>2, <1>3, KnownMeaning
  <1>5. counter[n] \in Nat
    BY DEF ReplicasInv
  <1> DEFINE x == a.version[n]
             y == S[q].version[n]
  <1>6. x \in Nat /\ y \in Nat
    BY <1>2 DEF VersionVector
  <1>7. x >= t /\ x <= y /\ ~(y >= t)
    BY <1>1, <1>4
  <1> HIDE DEF x, y
  <1> QED
    BY <1>5, <1>6, <1>7

\* What a user has just written stays unread, or the scan that reads it makes an
\* event of it.
LEMMA PassUnread ==
    ASSUME Orderly, NEW n \in Replica, NEW p, NEW v \in Content, Unread(n, p, v),
           NEW c \in Client, Pass(c)
    PROVE  Unread(n, p, v)' \/ \E t \in Nat \ {0} : Carried(n, t, p, v)'
  <1>0. ReplicasInv /\ PlansFit /\ OwnRows /\ NamesKnown /\ TidyState /\ Undisturbed
    BY DEF Orderly
  <1>1. PICK s : Goto(c, s) /\ Moves(c, s)
    BY <1>0, PassMoves
  <1>2. PICK t : t = counter[n] + 1
    OBVIOUS
  <1>3. counter[n] \in Nat
    BY <1>0 DEF ReplicasInv
  <1>4. t \in Nat \ {0}
    BY <1>2, <1>3
  <1>5. c \in Replica /\ Server \in Replica /\ c # Server
    BY ServerAndClients DEF Client
  <1>6. ~IsCopy(p) /\ p \in DOMAIN disk[n] /\ disk[n][p].row # p
    BY DEF Unread
  <1>7. disk'[n] = disk[n] => Unread(n, p, v)'
    BY DEF Unread
  <1>8. ASSUME NEW m \in Replica, NEW root, Becomes(m, root), m # n
        PROVE  Unread(n, p, v)'
    <2>1. disk'[n] = disk[n]
      BY <1>0, <1>8, RootsAfter
    <2> QED
      BY <1>7, <2>1
  <1>9. \A root \in Scan(n) : Shows(root, n, t, p, v)
    BY <1>0, <1>2, ScanShows
  <1>10. ASSUME NEW root, Becomes(n, root), Shows(root, n, t, p, v), PassCarries(s, n, t, p, v)
         PROVE  \E u \in Nat \ {0} : Carried(n, u, p, v)'
    <2>1. Carried(n, t, p, v)'
      BY <1>0, <1>1, <1>2, <1>6, <1>10, NewlyCarried
    <2> QED
      BY <1>4, <2>1
  <1>11. \A root : Shows(root, n, t, p, v) => Carries(root.index, n, t, p, v)
    BY DEF Shows, Carries
  <1>12. \A m \in Replica : Carries(index[m], n, t, p, v)
    BY <1>0, <1>2, BelowCarries DEF ReplicasInv
  <1>13. PassCarries(session[c], n, t, p, v)
    <2> DEFINE o == session[c]
    <2>1. /\ IsIndex(o.local) /\ IsIndex(o.remote) /\ IsIndex(o.desired)
          /\ AllBelow(o.local, counter) /\ AllBelow(o.remote, counter)
          /\ AllBelow(o.desired, counter)
      BY <1>0 DEF ReplicasInv, IsPass
    <2> HIDE DEF o
    <2>2. PassCarries(o, n, t, p, v)
      BY <1>0, <1>2, <2>1, BelowCarries DEF PassCarries
    <2> QED
      BY <2>2 DEF o
  <1>14. Rests(c, s) => PassCarries(s, n, t, p, v)
    BY <1>13, RestCarries
  <1>15. CASE Waits(c, s)
    BY <1>7, <1>15 DEF Waits, replicas
  <1>16. CASE Rescans(c, s)
    <2>1. PICK m \in {c, Server} : \E root \in Scan(m) : Becomes(m, root) /\ Rests(c, s)
      BY <1>16 DEF Rescans
    <2>2. PICK root \in Scan(m) : Becomes(m, root) /\ Rests(c, s)
      BY <2>1
    <2> QED
      BY <1>5, <1>8, <1>9, <1>10, <1>14, <2>2
  <1>17. CASE Starts(c, s)
    <2>1. PICK root \in Scan(c) :
              Becomes(c, root) /\ s = [Idle EXCEPT !.step = "fetch", !.local = root.index]
      BY <1>17 DEF Starts
    <2>2. s.step = "fetch" /\ s.local = root.index /\ s.remote = Empty
      BY <2>1 DEF Idle
    <2>3. CASE c = n
      <3>1. Shows(root, n, t, p, v)
        BY <1>9, <2>3
      <3>2. PassCarries(s, n, t, p, v)
        BY <1>11, <2>2, <3>1 DEF PassCarries, Carries, Empty
      <3> QED
        BY <1>10, <2>1, <2>3, <3>1, <3>2
    <2> QED
      BY <1>5, <1>8, <2>1, <2>3
  <1>18. CASE Draws(c, s)
    <2>1. PICK root \in Scan(Server) :
              /\ Becomes(Server, root)
              /\ s = Plan(index[c], root.index, MergeSnapshots(index[c], root.index))
      BY <1>18 DEF Draws
    <2>2. s.step = "stage" /\ s.local = index[c] /\ s.remote = root.index
      BY <2>1 DEF Plan
    <2>3. CASE Server = n
      <3>1. Shows(root, n, t, p, v)
        BY <1>9, <2>3
      <3>2. PassCarries(s, n, t, p, v)
        BY <1>5, <1>11, <1>12, <2>2, <3>1 DEF PassCarries
      <3> QED
        BY <1>10, <2>1, <2>3, <3>1, <3>2
    <2> QED
      BY <1>5, <1>8, <2>1, <2>3
  <1>19. CASE Checks(c, s)
    <2>1. PICK root \in Scan(c) : Becomes(c, root) /\ root.index = session[c].local
      BY <1>19 DEF Checks
    <2>2. CASE c = n
      <3>1. Shows(root, n, t, p, v)
        BY <1>9, <2>2
      <3>2. IsIndex(session[c].local) /\ AllBelow(session[c].local, counter)
        BY <1>0 DEF ReplicasInv, IsPass
      <3>3. ~(session[c].local[p].version[n] >= t)
        BY <1>0, <1>2, <2>1, <3>1, <3>2, BelowCarries DEF Shows
      <3> QED
        BY <2>1, <3>1, <3>3 DEF Shows
    <2> QED
      BY <1>5, <1>8, <2>1, <2>2
  <1>20. CASE Takes(c, s)
    <2> DEFINE root == Root(disk[c], index[c], counter[c])
    <2>1. PICK q \in session[c].here : Becomes(c, Install(root, q, session[c].desired[q]))
      BY <1>20 DEF Takes
    <2>2. c # n
      <3> SUFFICES ASSUME c = n
                   PROVE  FALSE
        OBVIOUS
      <3>1. AsIndexed(disk[c], index[c])
        BY <1>0, <1>20, <2>1 DEF Undisturbed, Applying, Takes
      <3>2. disk[n][p] = Entry(index[n][p].content, p)
        BY <1>6, <3>1 DEF AsIndexed
      <3> QED
        BY <1>6, <3>2 DEF Entry
    <2> HIDE DEF root
    <2> QED
      BY <1>5, <1>8, <2>1, <2>2
  <1>21. CASE Gives(c, s)
    <2>1. PICK q \in session[c].there : \E root \in Scan(Server) :
              /\ Accepts(root, q, session[c].desired[q])
              /\ Becomes(Server, Install(root, q, session[c].desired[q]))
      BY <1>21 DEF Gives
    <2>2. PICK root \in Scan(Server) :
              /\ Accepts(root, q, session[c].desired[q])
              /\ Becomes(Server, Install(root, q, session[c].desired[q]))
      BY <2>1
    <2> DEFINE r == session[c].desired[q]
               new == Install(root, q, r)
    <2>3. CASE Server = n
      <3>1. Shows(root, n, t, p, v)
        BY <1>9, <2>3
      <3>2. /\ IsIndex(session[c].desired) /\ AllBelow(session[c].desired, counter)
            /\ q \in DOMAIN session[c].desired /\ Len(q) = 1
        BY <1>0 DEF ReplicasInv, IsPass, TidyState, TidyPlan, Flat
      <3>3. q # p
        <4> SUFFICES ASSUME q = p
                     PROVE  FALSE
          OBVIOUS
        <4>1. Admits(root.index[p], session[c].desired[q])
          BY <2>2, <3>1 DEF Accepts, CausallyApplicable, Shows
        <4>2. root.index[p] \in Record /\ root.index[p].version[n] >= t
          BY <1>0, <2>3, <3>1, ScanSafe DEF IsRoot, IsIndex, IsSnapshot, Shows
        <4> QED
          BY <1>0, <1>2, <3>2, <4>1, <4>2, NotAdmitted
      <3>4. OnlyAt(root, q, r, new)
        BY <3>2, InstallFlat
      <3> HIDE DEF new, r
      <3>5. Shows(new, n, t, p, v)
        <4>1. /\ p \in DOMAIN new.index /\ new.index[p] = root.index[p]
              /\ p \in DOMAIN new.disk /\ new.disk[p] = root.disk[p]
          BY <3>1, <3>3, <3>4 DEF OnlyAt, Shows
        <4> QED
          BY <3>1, <4>1 DEF Shows
      <3>6. Becomes(n, new) /\ Rests(c, s)
        BY <1>21, <2>2, <2>3 DEF Gives, Rests, new, r
      <3> QED
        BY <1>10, <1>14, <3>5, <3>6
    <2> HIDE DEF new
    <2> QED
      BY <1>5, <1>8, <2>2, <2>3 DEF new
  <1> QED
    BY <1>1, <1>15, <1>16, <1>17, <1>18, <1>19, <1>20, <1>21 DEF Moves

-----------------------------------------------------------------------------
(* Users and failures. *)

LEMMA EditUndisturbed ==
    ASSUME ReplicasInv, Undisturbed, ~Disturb, NEW n \in Replica, NEW f, Edited(n, f)
    PROVE  Undisturbed'
  <1>1. index' = index /\ session' = session /\ ~Applying(n)
    BY DEF Edited
  <1>2. \A d \in Client : d # n => disk'[d] = disk[d]
    BY DEF Edited, ReplicasInv
  <1>3. \A d \in Client : Applying(d)' <=> Applying(d)
    BY <1>1 DEF Applying, AtStep
  <1> QED
    BY <1>1, <1>2, <1>3 DEF Undisturbed

\* What a user writes is unread, and what no user takes away stays where it was.
LEMMA EditKept ==
    ASSUME ReplicasInv, NEW n \in Replica, NEW f, Edited(n, f), NEW v \in owed',
           v \in owed => Kept(v)
    PROVE  Kept(v)'
  <1>1. \A m \in Replica : disk'[m] = IF m = n THEN f ELSE disk[m]
    BY DEF ReplicasInv, Edited
  <1>2. index' = index /\ session' = session
    BY DEF Edited
  <1>3. \A q \in Path : q # <<>> /\ ~IsCopy(q)
    BY UserPaths, UserNames DEF IsPath
  <1>4. ASSUME NEW m \in Replica, NEW p, Unread(m, p, v)'
        PROVE  Kept(v)'
    BY <1>4 DEF Kept
  <1>5. CASE v \notin owed
    <2>1. PICK q \in Path \cap DOMAIN f : f[q].row = <<>> /\ f[q].content = v
      BY <1>5 DEF Edited
    <2>2. Unread(n, q, v)'
      BY <1>1, <1>3, <2>1 DEF Unread
    <2> QED
      BY <1>4, <2>2
  <1>6. ASSUME NEW m \in Replica, NEW p \in DOMAIN disk[m],
               v \in owed, disk[m][p].content = v
        PROVE  /\ p \in DOMAIN disk'[m] /\ disk'[m][p].content = v
               /\ disk'[m][p].row \in {disk[m][p].row, <<>>}
               /\ disk'[m][p].row = disk[m][p].row \/ p \in Path
    BY <1>1, <1>6 DEF Edited
  <1>7. ASSUME v \in owed, NEW m \in Replica, NEW p, Unread(m, p, v)
        PROVE  Kept(v)'
    <2>1. Unread(m, p, v)'
      BY <1>3, <1>6, <1>7 DEF Unread
    <2> QED
      BY <1>4, <2>1
  <1>8. ASSUME v \in owed, NEW m \in Replica, NEW t \in Nat \ {0}, NEW p, Carried(m, t, p, v)
        PROVE  Kept(v)'
    <2>1. \A k \in Replica : RootCarries(disk'[k], index'[k], m, t, p, v)
      BY <1>2, <1>6, <1>8 DEF Carried, RootCarries
    <2>2. Carried(m, t, p, v)'
      BY <1>2, <1>8, <2>1 DEF Carried
    <2> QED
      BY <2>2 DEF Kept
  <1>9. Copied(v) => Kept(v)'
    BY <1>2 DEF Copied, CopyOn, CopyDue, AtStep, Kept
  <1> QED
    BY <1>5, <1>7, <1>8, <1>9 DEF Kept

\* A pass that fails before it applies anything leaves nothing half done.
LEMMA FailKept ==
    ASSUME ReplicasInv, TidyState, Undisturbed, ~Disturb, NEW c \in Client, Fail(c)
    PROVE  TidyState' /\ Undisturbed' /\ \A v : Kept(v) => Kept(v)'
  <1>1. \A d \in Client : session'[d] = IF d = c THEN Idle ELSE session[d]
    BY DEF Fail, Goto, ReplicasInv
  <1>2. disk' = disk /\ index' = index /\ ~Applying(c)
    BY DEF Fail, replicas
  <1>3. /\ Idle.step = "idle" /\ DOMAIN Idle.desired = {}
        /\ \A n, t, p, v : PassCarries(Idle, n, t, p, v)
    BY DEF Idle, Empty, PassCarries, Carries
  <1>4. TidyState'
    BY <1>1, <1>2, <1>3 DEF TidyState, TidyPlan, Flat, LiveCopies
  <1>5. Undisturbed'
    BY <1>1, <1>2, <1>3 DEF Undisturbed, Applying, AtStep
  <1>6. ASSUME NEW v, Kept(v)
        PROVE  Kept(v)'
    <2>1. ASSUME NEW n \in Replica, NEW p, Unread(n, p, v)
          PROVE  Kept(v)'
      BY <1>2, <2>1 DEF Kept, Unread
    <2>2. ASSUME NEW n \in Replica, NEW t \in Nat \ {0}, NEW p, Carried(n, t, p, v)
          PROVE  Kept(v)'
      <3>1. Carried(n, t, p, v)'
        BY <1>1, <1>2, <1>3, <2>2 DEF Carried
      <3> QED
        BY <3>1 DEF Kept
    <2>3. ASSUME NEW n \in Replica, NEW q, CopyOn(n, q, v)
          PROVE  Kept(v)'
      BY <1>2, <2>3 DEF Kept, Copied, CopyOn
    <2>4. ASSUME NEW d \in Client, NEW q, CopyDue(d, q, v)
          PROVE  Kept(v)'
      <3>1. d # c
        BY <1>2, <2>4 DEF CopyDue, Applying
      <3>2. CopyDue(d, q, v)'
        BY <1>1, <2>4, <3>1 DEF CopyDue, AtStep
      <3> QED
        BY <3>2 DEF Kept, Copied
    <2> QED
      BY <1>6, <2>1, <2>2, <2>3, <2>4 DEF Kept, Copied
  <1> QED
    BY <1>4, <1>5, <1>6

KeptInv == TidyState /\ Undisturbed /\ \A v \in owed : Kept(v)

LEMMA KeptAlways ==
    ASSUME ~Disturb, \A p \in Path : Len(p) = 1
    PROVE  Spec /\ [][~Rename]_vars => []KeptInv
  <1>1. Init => KeptInv
    <2> SUFFICES ASSUME Init
                 PROVE  KeptInv
      OBVIOUS
    <2>1. DOMAIN Empty = {} /\ Idle.desired = Empty /\ Idle.step = "idle"
      BY DEF Empty, Idle
    <2>2. TidyState
      BY <2>1 DEF Init, TidyState, Tidy, TidyPlan, Flat, RowsMatch, CopiesThere, LiveCopies
    <2>3. Undisturbed
      BY <2>1 DEF Init, Undisturbed, Applying, AtStep
    <2> QED
      BY <2>2, <2>3 DEF Init, KeptInv
  <1>2. /\ ReplicasInv /\ ReplicasInv' /\ PlansFit /\ OwnRows /\ NamesKnown /\ KeptInv
        /\ [Next]_vars /\ [~Rename]_vars
        => KeptInv'
    <2> SUFFICES ASSUME ReplicasInv, ReplicasInv', PlansFit, OwnRows, NamesKnown, KeptInv,
                        [Next]_vars, [~Rename]_vars
                 PROVE  KeptInv'
      OBVIOUS
    <2>1. Orderly /\ TidyState /\ Undisturbed /\ \A v \in owed : Kept(v)
      BY DEF Orderly, KeptInv
    <2>2. ASSUME NEW c \in Client, Pass(c)
          PROVE  KeptInv'
      <3>1. TidyState' /\ Undisturbed'
        BY <2>1, <2>2, PassTidy, PassUndisturbed
      <3>2. owed' = owed /\ owed \subseteq Content
        BY <2>2 DEF Pass, Begin, Fetch, StageLocal, StageRemote, Check, Apply, Push,
                    VerifyLocal, VerifyRemote, PassOnly, ReplicasInv
      <3>3. ASSUME NEW v \in Content, Kept(v)
            PROVE  Kept(v)'
        <4>1. ASSUME NEW n \in Replica, NEW p, Unread(n, p, v)
              PROVE  Kept(v)'
          <5>1. Unread(n, p, v)' \/ \E t \in Nat \ {0} : Carried(n, t, p, v)'
            BY <2>1, <2>2, <4>1, PassUnread
          <5> QED
            BY <5>1 DEF Kept
        <4>2. ASSUME NEW n \in Replica, NEW t \in Nat \ {0}, NEW p, Carried(n, t, p, v)
              PROVE  Kept(v)'
          <5>1. Carried(n, t, p, v)' \/ Copied(v)'
            BY <2>1, <2>2, <4>2, PassCarried
          <5> QED
            BY <5>1 DEF Kept
        <4>3. Copied(v) => Kept(v)'
          BY <2>1, <2>2, PassCopied DEF Kept
        <4> QED
          BY <3>3, <4>1, <4>2, <4>3 DEF Kept
      <3> QED
        BY <2>1, <3>1, <3>2, <3>3 DEF KeptInv
    <2>3. ASSUME NEW c \in Client, Fail(c)
          PROVE  KeptInv'
      <3>1. owed' = owed
        BY <2>3 DEF Fail
      <3> QED
        BY <2>1, <2>3, <3>1, FailKept DEF KeptInv
    <2>4. CASE UNCHANGED vars
      <3>1. /\ disk' = disk /\ index' = index /\ session' = session /\ owed' = owed
        BY <2>4 DEF vars, replicas
      <3>2. TidyState' /\ Undisturbed'
        BY <2>1, <3>1 DEF TidyState, Undisturbed, Applying, AtStep
      <3>3. ASSUME NEW v, Kept(v)
            PROVE  Kept(v)'
        BY <3>1, <3>3 DEF Kept, Unread, Carried, Copied, CopyOn, CopyDue, AtStep
      <3> QED
        BY <2>1, <3>1, <3>2, <3>3 DEF KeptInv
    <2>5. ASSUME NEW n \in Replica, User(n), ~UNCHANGED vars
          PROVE  KeptInv'
      <3>1. PICK f : Edited(n, f)
        BY <2>1, <2>5, UserEdits
      <3>2. TidyState' /\ Undisturbed'
        BY <2>1, <3>1, EditTidy, EditUndisturbed
      <3>3. \A v \in owed' : Kept(v)'
        BY <2>1, <3>1, EditKept
      <3> QED
        BY <3>2, <3>3 DEF KeptInv
    <2> QED
      BY <2>2, <2>3, <2>4, <2>5 DEF Next
  <1> QED
    BY <1>1, <1>2, ReplicasSafe, PlansFitAlways, OwnRowsAlways, NamesAlways, PTL DEF Spec

\* In a flat namespace, where nobody renames a file and neither a user nor a
\* failure gets in between the steps of a client that applies a plan, no content
\* a user has written and no user has taken away is ever lost: whichever record
\* wins (merge_snapshots), the loser's bytes are installed as a conflict copy
\* (should_preserve_loser, conflict_copy_path) before the winner replaces them
\* anywhere, by apply_local here and by handle_push_record at the server.
THEOREM LosersKept ==
    ASSUME ~Disturb, \A p \in Path : Len(p) = 1
    PROVE  Spec /\ [][~Rename]_vars => []ConflictCopyKept
  <1>1. ReplicasInv /\ KeptInv => ConflictCopyKept
    <2> SUFFICES ASSUME ReplicasInv, KeptInv, \A c \in Client : ~Applying(c), NEW v \in owed
                 PROVE  \E n \in Replica : v \in Contents(disk[n])
      BY DEF ConflictCopyKept
    <2>1. Kept(v) /\ TidyState /\ v \in Content
      BY DEF KeptInv, ReplicasInv
    <2>2. v # Directory
      BY <2>1, ReconcileAssumption
    <2>3. ASSUME NEW n \in Replica, NEW p \in DOMAIN disk[n], disk[n][p].content = v
          PROVE  \E m \in Replica : v \in Contents(disk[m])
      BY <2>2, <2>3 DEF Contents
    <2>4. ASSUME NEW n \in Replica, NEW p, Unread(n, p, v)
          PROVE  \E m \in Replica : v \in Contents(disk[m])
      BY <2>3, <2>4 DEF Unread
    <2>5. ASSUME NEW n \in Replica, NEW t \in Nat \ {0}, NEW p, Carried(n, t, p, v)
          PROVE  \E m \in Replica : v \in Contents(disk[m])
      BY <2>3, <2>5 DEF Carried, RootCarries
    <2>6. ASSUME NEW n \in Replica, NEW q, CopyOn(n, q, v)
          PROVE  \E m \in Replica : v \in Contents(disk[m])
      BY <2>1, <2>3, <2>6 DEF CopyOn, TidyState, Tidy, CopiesThere
    <2>7. ASSUME NEW c \in Client, NEW q, CopyDue(c, q, v)
          PROVE  FALSE
      BY <2>7 DEF CopyDue, Applying
    <2> QED
      BY <2>1, <2>4, <2>5, <2>6, <2>7 DEF Kept, Copied
  <1> QED
    BY <1>1, KeptAlways, ReplicasSafe, PTL

=============================================================================
