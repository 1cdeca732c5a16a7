--------------------------- MODULE ReadOnlyProofs ---------------------------
(* Theorems about ReadOnly, for any set of paths and any number of edits at *)
(* the owner, edits by users and stops.                                     *)
EXTENDS ReadOnly, TLAPS

-----------------------------------------------------------------------------
(* Types *)

\* The counters bound the contents and the versions that exist.
Counted ==
    /\ made \in 0 .. MaxUser /\ owned \in 0 .. MaxOwner
    /\ \A p \in Path : owner[p].ver <= owned /\ backup[p].ver <= owned

TypeInv == TypeOK /\ Counted

\* The record of a path the owner never had is a snapshot's, and Idle is a pass.
LEMMA EmptyType == Empty \in Snapshot /\ Idle \in Pass
<1>1. Empty \in Snapshot
    BY ReadOnlyAssumption DEF Empty, Snapshot, Content
<1>2. [p \in Path |-> None] \in [Path -> Content]
    BY DEF Content
<1> QED BY <1>1, <1>2 DEF Idle, Pass

\* The initial state is well typed.
LEMMA TypeInit == Init => TypeInv
<1> SUFFICES ASSUME Init PROVE TypeInv
    OBVIOUS
<1>1. /\ owner \in Snapshot /\ backup \in Snapshot /\ checkpoint \in Snapshot
      /\ pass \in Pass
    BY EmptyType DEF Init
<1>2. /\ disk \in [Path -> Content] /\ pending \in Snapshot \cup {None}
      /\ journal \in [Path -> Attempt \cup {None}] /\ vault \subseteq Content
      /\ open \in BOOLEAN /\ mine \subseteq Content /\ shown \in [Path -> 0 .. MaxOwner]
    <2>1. None \in Content /\ 0 \in 0 .. MaxOwner
        BY ReadOnlyAssumption DEF Content
    <2> QED BY <2>1 DEF Init
<1>3. Counted
    BY ReadOnlyAssumption DEF Init, Counted, Empty
<1> QED BY <1>1, <1>2, <1>3 DEF TypeInv, TypeOK

\* What is written next is a content.
LEMMA FreshType ==
    ASSUME Counted, made < MaxUser \/ owned < MaxOwner
    PROVE  Fresh \in Content /\ None \in Content
BY ReadOnlyAssumption DEF Counted, Fresh, Content

\* A path change under way is a record of its fields.
LEMMA AttemptFields ==
    ASSUME TypeOK, NEW p \in Path, journal[p] # None
    PROVE  /\ journal[p] \in Attempt
           /\ journal[p].expected \in Content /\ journal[p].target \in Content
           /\ journal[p].artifact \in Content /\ journal[p].ver \in 0 .. MaxOwner
           /\ journal[p].state \in {"prepared", "preserved", "materialized"}
           /\ journal[p].staged \in BOOLEAN
BY DEF TypeOK, Attempt

\* Recording a state or using the staged content leaves the rest of a change.
LEMMA AttemptChanges ==
    ASSUME NEW c \in Attempt
    PROVE  /\ \A s \in {"preserved", "materialized"} :
                 LET d == [c EXCEPT !.state = s] IN
                 d \in Attempt /\ d.state = s /\ d.artifact = c.artifact /\ d.ver = c.ver
           /\ LET d == [c EXCEPT !.staged = FALSE] IN
              d \in Attempt /\ d.state = c.state /\ d.artifact = c.artifact /\ d.ver = c.ver
BY DEF Attempt

\* The journal with another entry for one path.
Entry(p, e) == journal'[p] = e /\ \A q \in Path \ {p} : journal'[q] = journal[q]

\* Recording a state, moving an object to or from the vault, using the staged
\* content or forgetting a change replaces one entry.
LEMMA Entries ==
    ASSUME TypeOK, NEW p \in Path, NEW e \in Attempt \cup {None},
           journal' = [journal EXCEPT ![p] = e]
    PROVE  Entry(p, e) /\ journal' \in [Path -> Attempt \cup {None}]
BY DEF TypeOK, Entry

\* The artifact of one change is another.
LEMMA ArtifactEntry ==
    ASSUME TypeOK, NEW p \in Path, journal[p] \in Attempt, NEW a \in Content,
           journal' = [journal EXCEPT ![p].artifact = a]
    PROVE  /\ journal' \in [Path -> Attempt \cup {None}]
           /\ \E e \in Attempt : /\ Entry(p, e) /\ e.artifact = a
                                 /\ e.ver = journal[p].ver /\ e.state = journal[p].state
<1> DEFINE e == [journal[p] EXCEPT !.artifact = a]
<1>1. e \in Attempt /\ e.artifact = a /\ e.ver = journal[p].ver /\ e.state = journal[p].state
    BY DEF Attempt
<1>2. journal' = [journal EXCEPT ![p] = e]
    OBVIOUS
<1> HIDE DEF e
<1> QED BY <1>1, <1>2, Entries

\* What a pass does to a change it captures: the object leaves the folder.
Taken(p) ==
    /\ journal[p].artifact = None
    /\ disk' = [disk EXCEPT ![p] = None]
    /\ journal' = [journal EXCEPT ![p].artifact = disk[p]] /\ Moved("captured")
    /\ UNCHANGED <<vault, shown>>

\* A captured object is recorded.
Noted(p) ==
    /\ Recorded(p, "preserved") /\ UNCHANGED <<disk, vault, shown>>
    /\ pass' = pass \/ Moved("nothing")

\* Every way a pass goes on with a change.
Move(p) ==
    \/ Fail /\ UNCHANGED <<disk, journal, vault, shown>>
    \/ Taken(p) \/ Noted(p) \/ Restored(p) \/ Aborted(p) \/ Installs(p) \/ Marked(p)

\* Nothing else happens to a change.
LEMMA ChangeMoves ==
    ASSUME NEW p \in Path,
           Captured(p) \/ Materialized(p) \/ Continued(p) \/ Sealed(p) \/ Marked(p) \/ Aborted(p)
    PROVE  Move(p)
<1>1. CASE Captured(p)
    BY <1>1 DEF Captured, Move, Taken, Noted
<1>2. CASE Materialized(p)
    BY <1>2 DEF Materialized, Move
<1>3. CASE Continued(p)
    BY <1>1, <1>2, <1>3 DEF Continued, Move, Noted
<1>4. CASE Sealed(p)
    BY <1>4 DEF Sealed, Move, Noted
<1> QED BY <1>1, <1>2, <1>3, <1>4 DEF Move

\* The steps of a pass that go on with a change, or find none and go on.
LEMMA PassMoves ==
    ASSUME Resume \/ \E p \in Path : Capture(p) \/ Materialize(p) \/ Record(p)
    PROVE  /\ UNCHANGED <<checkpoint, pending, outside>>
           /\ \/ \E p \in Unfinished : Move(p)
              \/ pass.pc = "resume" /\ Step("plan") /\ UNCHANGED <<disk, journal, vault, shown>>
<1>1. Unfinished \subseteq Path
    BY DEF Unfinished
<1>2. CASE Resume
    BY <1>1, <1>2, ChangeMoves DEF Resume
<1>3. CASE \E p \in Path : Capture(p) \/ Materialize(p) \/ Record(p)
    BY <1>3, ChangeMoves DEF Capture, Materialize, Record
<1> QED BY <1>2, <1>3

\* A pass that records or moves something is still a pass.
LEMMA MovedType ==
    ASSUME TypeOK, Fail \/ pass' = pass
                   \/ \E w \in {"nothing", "captured", "installed", "restored"} : Moved(w)
    PROVE  pass' \in Pass
BY EmptyType DEF TypeOK, Pass, Moved, Fail

\* Going on with a change keeps the types.
LEMMA MoveType ==
    ASSUME TypeOK, NEW p \in Unfinished, Move(p)
    PROVE  /\ disk' \in [Path -> Content] /\ journal' \in [Path -> Attempt \cup {None}]
           /\ vault' \subseteq Content /\ shown' \in [Path -> 0 .. MaxOwner] /\ pass' \in Pass
<1>0. /\ p \in Path /\ journal[p] \in Attempt /\ journal[p].artifact \in Content
      /\ journal[p].target \in Content /\ journal[p].ver \in 0 .. MaxOwner
    BY AttemptFields DEF Unfinished
<1>1. /\ disk \in [Path -> Content] /\ disk[p] \in Content /\ None \in Content
      /\ journal \in [Path -> Attempt \cup {None}] /\ vault \subseteq Content
      /\ shown \in [Path -> 0 .. MaxOwner]
    BY <1>0 DEF TypeOK, Content
<1>2. CASE Fail /\ UNCHANGED <<disk, journal, vault, shown>>
    BY <1>1, <1>2, MovedType
<1>3. CASE Taken(p)
    <2>1. journal' \in [Path -> Attempt \cup {None}]
        BY <1>0, <1>1, <1>3, ArtifactEntry DEF Taken
    <2> QED BY <1>0, <1>1, <1>3, <2>1, MovedType DEF Taken
<1>4. CASE Noted(p)
    <2>1. journal' \in [Path -> Attempt \cup {None}]
        BY <1>0, <1>4, Entries, AttemptChanges DEF Noted, Recorded
    <2> QED BY <1>1, <1>4, <2>1, MovedType DEF Noted
<1>5. CASE Restored(p)
    <2>1. journal' \in [Path -> Attempt \cup {None}]
        BY <1>0, <1>1, <1>5, ArtifactEntry DEF Restored
    <2>2. disk' \in [Path -> Content]
        BY <1>0, <1>1, <1>5 DEF Restored
    <2>3. vault' = vault /\ shown' = shown /\ Moved("restored")
        BY <1>5 DEF Restored
    <2> QED BY <1>1, <2>1, <2>2, <2>3, MovedType
<1>6. CASE Aborted(p)
    <2>1. journal' \in [Path -> Attempt \cup {None}]
        BY <1>0, <1>6, Entries DEF Aborted
    <2> QED BY <1>0, <1>1, <1>6, <2>1, MovedType DEF Aborted
<1>7. CASE Installs(p)
    <2>1. journal' \in [Path -> Attempt \cup {None}]
        BY <1>0, <1>7, Entries, AttemptChanges DEF Installs, Installed
    <2> QED BY <1>0, <1>1, <1>7, <2>1, MovedType DEF Installs, Installed
<1>8. CASE Marked(p)
    <2>1. journal' \in [Path -> Attempt \cup {None}]
        BY <1>0, <1>8, Entries, AttemptChanges DEF Marked, Recorded
    <2> QED BY <1>0, <1>1, <1>8, <2>1, MovedType DEF Marked
<1> QED BY <1>2, <1>3, <1>4, <1>5, <1>6, <1>7, <1>8 DEF Move

\* The change a round prepares for a path.
Prepared(p) ==
    [expected |-> disk[p], target |-> pass.remote[p].data, ver |-> pass.remote[p].ver,
     state |-> "prepared", artifact |-> None, staged |-> TRUE]

\* What the pass itself leaves alone.
LEMMA OutsideType ==
    ASSUME TypeInv, UNCHANGED outside
    PROVE  /\ owner' \in Snapshot /\ backup' \in Snapshot /\ open' \in BOOLEAN
           /\ mine' \subseteq Content /\ Counted'
BY DEF TypeInv, TypeOK, Counted, outside, counts

\* Every step keeps the types.
LEMMA TypeStep == TypeInv /\ [Next]_vars => TypeInv'
<1> SUFFICES ASSUME TypeInv, [Next]_vars PROVE TypeInv'
    OBVIOUS
<1>0. /\ disk \in [Path -> Content] /\ owner \in Snapshot /\ backup \in Snapshot
      /\ checkpoint \in Snapshot /\ pending \in Snapshot \cup {None}
      /\ journal \in [Path -> Attempt \cup {None}] /\ vault \subseteq Content
      /\ open \in BOOLEAN /\ pass \in Pass
      /\ mine \subseteq Content /\ shown \in [Path -> 0 .. MaxOwner]
    BY DEF TypeInv, TypeOK
<1>1. /\ TypeOK /\ Counted /\ made \in Nat /\ owned \in Nat
      /\ made <= MaxUser /\ owned <= MaxOwner
    BY ReadOnlyAssumption DEF TypeInv, Counted
<1>2. CASE UNCHANGED vars
    BY <1>0, <1>1, <1>2 DEF TypeInv, TypeOK, Counted, vars, store, counts
<1>3. CASE \E p \in Path : OwnerEdit(p)
    <2>1. PICK p \in Path, c \in {Fresh, None} :
              /\ owned < MaxOwner /\ owned' = owned + 1
              /\ owner' = [owner EXCEPT ![p] = [ver |-> owner[p].ver + 1, data |-> c]]
              /\ UNCHANGED <<backup, member>>
        BY <1>3 DEF OwnerEdit, Owner
    <2>2. c \in Content /\ owner[p].ver \in Nat /\ owner[p].ver <= owned
        BY <1>0, <1>1, <2>1, FreshType, ReadOnlyAssumption DEF Counted, Snapshot
    <2>3. [ver |-> owner[p].ver + 1, data |-> c] \in [ver: 0 .. MaxOwner, data: Content]
        BY <1>1, <2>1, <2>2, ReadOnlyAssumption
    <2>4. owner' \in Snapshot
        BY <1>0, <2>1, <2>3 DEF Snapshot
    <2>5. \A q \in Path : owner'[q].ver <= owned' /\ backup'[q].ver <= owned'
        <3> SUFFICES ASSUME NEW q \in Path
                     PROVE  owner'[q].ver <= owned' /\ backup'[q].ver <= owned'
            OBVIOUS
        <3>1. /\ owner[q].ver \in Nat /\ backup[q].ver \in Nat
              /\ owner[q].ver <= owned /\ backup[q].ver <= owned
            BY <1>0, <1>1, ReadOnlyAssumption DEF Counted, Snapshot
        <3>2. backup'[q].ver <= owned'
            BY <1>1, <2>1, <3>1
        <3>3. CASE q = p
            BY <1>0, <1>1, <2>1, <2>2, <3>3, <3>2 DEF Snapshot
        <3>4. CASE q # p
            BY <1>0, <1>1, <2>1, <3>1, <3>4, <3>2 DEF Snapshot
        <3> QED BY <3>3, <3>4
    <2>6. Counted'
        BY <1>1, <2>1, <2>5, ReadOnlyAssumption DEF Counted, member
    <2> QED BY <1>0, <2>1, <2>4, <2>6 DEF TypeInv, TypeOK, member, store
<1>4. CASE OwnerBackup \/ OwnerRestore
    <2>1. /\ owned' = owned + 1 /\ owned < MaxOwner /\ UNCHANGED member
          /\ (backup' = owner /\ owner' = owner) \/ (owner' = backup /\ backup' = backup)
        BY <1>4 DEF OwnerBackup, OwnerRestore, Owner
    <2>2. \A q \in Path : /\ owner[q].ver \in Nat /\ backup[q].ver \in Nat
                          /\ owner[q].ver <= owned /\ backup[q].ver <= owned
        BY <1>0, <1>1, ReadOnlyAssumption DEF Counted, Snapshot
    <2>3. \A q \in Path : owner'[q].ver <= owned' /\ backup'[q].ver <= owned'
        BY <1>1, <2>1, <2>2
    <2>4. Counted'
        BY <1>1, <2>1, <2>3, ReadOnlyAssumption DEF Counted, member
    <2> QED BY <1>0, <2>1, <2>4 DEF TypeInv, TypeOK, member, store
<1>5. CASE \E p \in Path : UserEdit(p)
    <2>1. PICK p \in Path : UserEdit(p)
        BY <1>5
    <2>2. disk' \in [Path -> Content] /\ mine' \subseteq Content
        BY <1>0, <1>1, <2>1, FreshType DEF UserEdit
    <2>3. Counted'
        BY <1>1, <2>1, ReadOnlyAssumption DEF UserEdit, Counted
    <2> QED BY <1>0, <2>1, <2>2, <2>3 DEF UserEdit, TypeInv, TypeOK, store
<1>6. CASE \E p \in Path : LateWrite(p)
    <2>1. PICK p \in Path : LateWrite(p)
        BY <1>6
    <2>2. Fresh \in Content
        BY <1>1, <2>1, FreshType DEF LateWrite
    <2>3. journal' \in [Path -> Attempt \cup {None}] /\ mine' \subseteq Content
        BY <1>0, <1>1, <2>1, <2>2, AttemptFields, ArtifactEntry DEF LateWrite
    <2>4. Counted'
        BY <1>1, <2>1, ReadOnlyAssumption DEF LateWrite, Counted
    <2> QED BY <1>0, <2>1, <2>3, <2>4 DEF LateWrite, TypeInv, TypeOK
<1>7. CASE Shutdown \/ Crash
    BY <1>0, <1>1, <1>7, EmptyType DEF Shutdown, Crash, Stop, TypeInv, TypeOK, Counted, store
<1>8. CASE Open
    BY <1>0, <1>1, <1>8 DEF Open, TypeInv, TypeOK, Counted, store, counts
<1>9. CASE Fetch
    <2>1. [Idle EXCEPT !.pc = "resume", !.remote = owner] \in Pass
        BY <1>0, EmptyType DEF Pass
    <2>2. pass' \in Pass /\ UNCHANGED <<disk, checkpoint, pending, journal, vault, shown>>
        BY <1>9, <2>1, EmptyType DEF Fetch, Fail, store
    <2> QED BY <1>0, <1>9, <2>2, OutsideType DEF Fetch, TypeInv, TypeOK
<1>10. CASE Resume \/ \E p \in Path : Capture(p) \/ Materialize(p) \/ Record(p)
    <2>1. UNCHANGED <<checkpoint, pending, outside>>
        BY <1>10, PassMoves
    <2>2. CASE \E p \in Unfinished : Move(p)
        BY <1>0, <1>1, <2>1, <2>2, MoveType, OutsideType DEF TypeInv, TypeOK
    <2>3. CASE Step("plan") /\ UNCHANGED <<disk, journal, vault, shown>>
        <3>1. pass' \in Pass
            BY <1>0, <2>3 DEF Step, Pass
        <3> QED BY <1>0, <2>1, <2>3, <3>1, OutsideType DEF TypeInv, TypeOK
    <2> QED BY <1>10, <2>2, <2>3, PassMoves
<1>11. CASE Plan
    <2>1. pass' \in Pass
        BY <1>0, <1>11 DEF Plan, Pass
    <2> QED BY <1>0, <1>11, <2>1, OutsideType DEF Plan, TypeInv, TypeOK, store
<1>12. CASE Stage
    <2>1. pass' \in Pass /\ pending' \in Snapshot \cup {None}
        BY <1>0, <1>12, EmptyType DEF Stage, Step, Fail, Pass
    <2> QED BY <1>0, <1>12, <2>1, OutsideType DEF Stage, TypeInv, TypeOK
<1>13. CASE \E p \in Path : Prepare(p)
    <2>1. PICK p \in Path : Prepare(p)
        BY <1>13
    <2>2. CASE Fail /\ UNCHANGED <<journal, vault>>
        BY <1>0, <2>1, <2>2, EmptyType, OutsideType DEF Prepare, Fail, TypeInv, TypeOK
    <2>3. CASE ~(Fail /\ UNCHANGED <<journal, vault>>)
        <3>1. /\ journal' = [journal EXCEPT ![p] = Prepared(p)]
              /\ vault' = (vault \cup IF journal[p] = None THEN {} ELSE {journal[p].artifact}) \ {None}
              /\ pass' = [pass EXCEPT !.todo = @ \ {p}]
            BY <2>1, <2>3 DEF Prepare, Prepared
        <3>2. /\ disk[p] \in Content /\ pass.remote[p].data \in Content
              /\ pass.remote[p].ver \in 0 .. MaxOwner /\ None \in Content
            BY <1>0 DEF Pass, Snapshot, Content
        <3>3. Prepared(p) \in Attempt
            BY <3>2 DEF Attempt, Prepared
        <3>4. vault' \subseteq Content
            BY <1>0, <1>1, <3>1, AttemptFields
        <3>5. journal' \in [Path -> Attempt \cup {None}]
            BY <1>0, <3>1, <3>3
        <3>6. pass' \in Pass
            BY <1>0, <3>1 DEF Pass
        <3> QED BY <1>0, <2>1, <3>4, <3>5, <3>6, OutsideType DEF Prepare, TypeInv, TypeOK
    <2> QED BY <2>2, <2>3
<1>16. CASE Applied
    <2>1. pass' \in Pass
        BY <1>0, <1>16, EmptyType DEF Applied, Pass
    <2> QED BY <1>0, <1>16, <2>1, OutsideType DEF Applied, TypeInv, TypeOK, store
<1>17. CASE Adopt
    <2>1. pass' \in Pass /\ checkpoint' \in Snapshot
        BY <1>0, <1>17, EmptyType DEF Adopt, Fail, Pass
    <2> QED BY <1>0, <1>17, <2>1, OutsideType DEF Adopt, TypeInv, TypeOK
<1>18. CASE Finish
    <2>1. Preserved \subseteq Content
        BY <1>0, <1>1, AttemptFields DEF Preserved
    <2> QED BY <1>0, <1>18, <2>1, EmptyType, OutsideType DEF Finish, TypeInv, TypeOK
<1> QED
    BY <1>2, <1>3, <1>4, <1>5, <1>6, <1>7, <1>8, <1>9, <1>10, <1>11, <1>12, <1>13, <1>16,
       <1>17, <1>18 DEF Next, PassStep

\* TypeCorrect: every variable of the read-only pass keeps its type: contents
\* and versions stay within what the owner and the users have made.
THEOREM TypeCorrect == Spec => []TypeOK
<1>1. Spec => []TypeInv
    BY TypeInit, TypeStep, PTL DEF Spec
<1> QED BY <1>1, PTL DEF TypeInv

-----------------------------------------------------------------------------
(* Local work *)

\* A content is in the vault, in the artifact of a change, or in the folder.
Kept(c) ==
    \/ c \in vault
    \/ \E p \in Path : journal[p] # None /\ journal[p].artifact = c
    \/ \E p \in Path : disk[p] = c

KeptInv == \A c \in mine : c # None /\ Kept(c)

\* KeptInv says what the property asks.
LEMMA KeptImplies == KeptInv => LocalWorkKept
BY DEF KeptInv, Kept, LocalWorkKept, Preserved

\* A step that loses nothing of what is kept.
LEMMA NothingLost ==
    ASSUME KeptInv, mine' = mine, \A c \in mine : Kept(c) => Kept(c)'
    PROVE  KeptInv'
BY DEF KeptInv

\* A step that takes nothing from the vault, from an artifact or from the folder.
LEMMA NothingTaken ==
    ASSUME KeptInv, mine' = mine, vault' = vault,
           \A q \in Path : journal[q] # None =>
               journal'[q] # None /\ journal'[q].artifact = journal[q].artifact,
           \A q \in Path : disk[q] # None => disk'[q] = disk[q]
    PROVE  KeptInv'
BY DEF KeptInv, Kept

\* Going on with a change moves what a user wrote, and never drops it.
LEMMA MoveKeeps ==
    ASSUME TypeOK, KeptInv, NEW p \in Unfinished, Move(p), mine' = mine
    PROVE  KeptInv'
<1>0. /\ p \in Path /\ journal[p] # None /\ journal[p] \in Attempt
      /\ disk \in [Path -> Content] /\ journal \in [Path -> Attempt \cup {None}]
      /\ disk[p] \in Content /\ None \in Content
    BY AttemptFields DEF Unfinished, TypeOK, Content
<1>1. None \notin Attempt
    BY ReadOnlyAssumption
<1>2. CASE Fail /\ UNCHANGED <<disk, journal, vault, shown>>
    BY <1>2, NothingTaken
<1>3. CASE Taken(p)
    <2>0. journal' = [journal EXCEPT ![p].artifact = disk[p]]
        BY <1>3 DEF Taken
    <2>1. PICK e \in Attempt : Entry(p, e) /\ e.artifact = disk[p]
        BY <1>0, <2>0, ArtifactEntry, ZenonT(30)
    <2>2. \A q \in Path : disk'[q] = IF q = p THEN None ELSE disk[q]
        BY <1>0, <1>3 DEF Taken
    <2>3. journal[p].artifact = None /\ vault' = vault
        BY <1>3 DEF Taken
    <2>4. ASSUME NEW c \in mine, Kept(c) PROVE Kept(c)'
        <3>1. c # None
            BY DEF KeptInv
        <3> QED BY <1>0, <1>1, <2>1, <2>2, <2>3, <2>4, <3>1 DEF Kept, Entry
    <2> QED BY <2>4, NothingLost
<1>4. CASE Noted(p)
    <2>1. PICK e \in Attempt : Entry(p, e) /\ e.artifact = journal[p].artifact
        BY <1>0, <1>4, AttemptChanges, Entries DEF Noted, Recorded
    <2> QED BY <1>1, <1>4, <2>1, NothingTaken DEF Noted, Entry
<1>5. CASE Restored(p)
    <2>1. CASE disk[p] = None
        <3>1. PICK e \in Attempt : Entry(p, e) /\ e.artifact = None
            BY <1>0, <1>5, <2>1, ArtifactEntry DEF Restored
        <3>2. \A q \in Path : disk'[q] = IF q = p THEN journal[p].artifact ELSE disk[q]
            BY <1>0, <1>5, <2>1 DEF Restored
        <3>3. vault' = vault
            BY <1>5 DEF Restored
        <3>4. ASSUME NEW c \in mine, Kept(c) PROVE Kept(c)'
            <4>1. c # None
                BY DEF KeptInv
            <4> QED BY <1>0, <2>1, <3>1, <3>2, <3>3, <3>4, <4>1 DEF Kept, Entry
        <3> QED BY <3>4, NothingLost
    <2>2. CASE disk[p] # None
        BY <1>5, <2>2, NothingTaken DEF Restored
    <2> QED BY <2>1, <2>2
<1>6. CASE Aborted(p)
    <2>1. Entry(p, None)
        BY <1>0, <1>6, Entries DEF Aborted
    <2>2. disk' = disk /\ vault' = (vault \cup {journal[p].artifact}) \ {None}
        BY <1>6 DEF Aborted
    <2>3. ASSUME NEW c \in mine, Kept(c) PROVE Kept(c)'
        <3>1. c # None
            BY DEF KeptInv
        <3> QED BY <1>0, <2>1, <2>2, <2>3, <3>1 DEF Kept, Entry
    <2> QED BY <2>3, NothingLost
<1>7. CASE Installs(p)
    <2>1. PICK e \in Attempt : Entry(p, e) /\ e.artifact = journal[p].artifact
        BY <1>0, <1>7, AttemptChanges, Entries DEF Installs, Installed
    <2>2. vault' = vault /\ \A q \in Path : disk[q] # None => disk'[q] = disk[q]
        BY <1>0, <1>7 DEF Installs, Installed
    <2> QED BY <1>1, <2>1, <2>2, NothingTaken DEF Entry
<1>8. CASE Marked(p)
    <2>1. PICK e \in Attempt : Entry(p, e) /\ e.artifact = journal[p].artifact
        BY <1>0, <1>8, AttemptChanges, Entries DEF Marked, Recorded
    <2> QED BY <1>1, <1>8, <2>1, NothingTaken DEF Marked, Entry
<1> QED BY <1>2, <1>3, <1>4, <1>5, <1>6, <1>7, <1>8 DEF Move

\* No step gives up what a user wrote.
LEMMA KeptStep == TypeInv /\ KeptInv /\ [Next]_vars => KeptInv'
<1> SUFFICES ASSUME TypeInv, KeptInv, [Next]_vars PROVE KeptInv'
    OBVIOUS
<1>0. /\ TypeOK /\ Counted /\ disk \in [Path -> Content]
      /\ journal \in [Path -> Attempt \cup {None}]
    BY DEF TypeInv, TypeOK
<1>1. ASSUME UNCHANGED <<disk, journal, vault, mine>> PROVE KeptInv'
    BY <1>1 DEF KeptInv, Kept
<1>2. CASE \E p \in Path : UserEdit(p)
    <2>1. PICK p \in Path, c \in {Fresh, None} :
              /\ disk' = [disk EXCEPT ![p] = c]
              /\ mine' = (mine \ {disk[p]}) \cup ({c} \ {None})
              /\ journal' = journal /\ vault' = vault
        BY <1>2 DEF UserEdit, store
    <2>2. disk'[p] = c /\ \A q \in Path \ {p} : disk'[q] = disk[q]
        BY <1>0, <2>1
    <2>3. ASSUME NEW d \in mine' PROVE d # None /\ Kept(d)'
        <3>1. CASE d = c
            BY <2>1, <2>2, <2>3, <3>1 DEF Kept, KeptInv
        <3>2. CASE d # c
            <4>1. d \in mine /\ d # disk[p]
                BY <2>1, <2>3, <3>2
            <4> QED BY <2>1, <2>2, <4>1 DEF Kept, KeptInv
        <3> QED BY <3>1, <3>2
    <2> QED BY <2>3 DEF KeptInv
<1>3. CASE \E p \in Path : LateWrite(p)
    <2>1. PICK p \in Path : LateWrite(p)
        BY <1>3
    <2>2. journal[p] \in Attempt /\ journal[p].artifact # None
        BY <1>0, <2>1, AttemptFields DEF LateWrite
    <2>3. Fresh \in Content /\ Fresh # None
        BY <1>0, <2>1, FreshType, ReadOnlyAssumption DEF LateWrite, Fresh, Counted
    <2>4. PICK e \in Attempt : Entry(p, e) /\ e.artifact = Fresh
        BY <1>0, <2>1, <2>2, <2>3, ArtifactEntry DEF LateWrite
    <2>5. e # None /\ disk' = disk /\ vault' = vault
          /\ mine' = (mine \ {journal[p].artifact}) \cup {Fresh}
        BY <2>1, ReadOnlyAssumption DEF LateWrite
    <2>6. ASSUME NEW d \in mine' PROVE d # None /\ Kept(d)'
        <3>1. CASE d = Fresh
            BY <2>3, <2>4, <2>5, <3>1 DEF Kept, Entry
        <3>2. CASE d # Fresh
            <4>1. d \in mine /\ d # journal[p].artifact
                BY <2>5, <2>6, <3>2
            <4> QED BY <2>4, <2>5, <4>1 DEF Kept, KeptInv, Entry
        <3> QED BY <3>1, <3>2
    <2> QED BY <2>6 DEF KeptInv
<1>4. CASE Resume \/ \E p \in Path : Capture(p) \/ Materialize(p) \/ Record(p)
    <2>1. mine' = mine
        BY <1>4, PassMoves DEF outside
    <2>2. CASE UNCHANGED <<disk, journal, vault, shown>>
        BY <1>1, <2>1, <2>2
    <2>3. CASE \E p \in Unfinished : Move(p)
        BY <1>0, <2>1, <2>3, MoveKeeps
    <2> QED BY <1>4, <2>2, <2>3, PassMoves
<1>5. CASE \E p \in Path : Prepare(p)
    <2>1. PICK p \in Path : Prepare(p)
        BY <1>5
    <2>2. mine' = mine /\ disk' = disk
        BY <2>1 DEF Prepare, outside
    <2>3. CASE UNCHANGED <<journal, vault>>
        BY <1>1, <2>2, <2>3
    <2>4. CASE ~UNCHANGED <<journal, vault>>
        <3>1. /\ journal' = [journal EXCEPT ![p] = Prepared(p)]
              /\ vault' = (vault \cup IF journal[p] = None THEN {} ELSE {journal[p].artifact}) \ {None}
            BY <2>1, <2>4 DEF Prepare, Prepared
        <3>2. journal'[p] = Prepared(p) /\ \A q \in Path \ {p} : journal'[q] = journal[q]
            BY <1>0, <3>1
        <3>3. ASSUME NEW c \in mine' PROVE c # None /\ Kept(c)'
            <4>1. c # None /\ Kept(c)
                BY <2>2, <3>3 DEF KeptInv
            <4> QED BY <2>2, <3>1, <3>2, <4>1 DEF Kept
        <3> QED BY <3>3 DEF KeptInv
    <2> QED BY <2>3, <2>4
<1>8. CASE Finish
    <2>1. /\ mine' = mine /\ disk' = disk /\ vault' = Preserved
          /\ \A p \in Path : journal'[p] = None
        BY <1>8 DEF Finish, outside
    <2>2. ASSUME NEW c \in mine' PROVE c # None /\ Kept(c)'
        BY <2>1, <2>2 DEF KeptInv, Kept, Preserved
    <2> QED BY <2>2 DEF KeptInv
<1>9. CASE Open \/ Fetch \/ Plan \/ Stage \/ Applied \/ Adopt
    BY <1>1, <1>9 DEF Open, Fetch, Plan, Stage, Applied, Adopt, store, outside
<1>10. CASE OwnerBackup \/ OwnerRestore \/ Shutdown \/ Crash \/ \E p \in Path : OwnerEdit(p)
    BY <1>1, <1>10 DEF OwnerBackup, OwnerRestore, Shutdown, Crash, Stop, OwnerEdit, member, store
<1>11. CASE UNCHANGED vars
    BY <1>1, <1>11 DEF vars, store
<1> QED
    BY <1>2, <1>3, <1>4, <1>5, <1>8, <1>9, <1>10, <1>11 DEF Next, PassStep

\* LocalWork: whatever a user wrote into a read-only folder and did not replace
\* or remove is in the folder or preserved, whatever the owner does and wherever
\* rounds are interrupted.
THEOREM LocalWork == Spec => []LocalWorkKept
<1>1. Init => KeptInv
    BY DEF Init, KeptInv
<1>2. Spec => [](TypeInv /\ KeptInv)
    BY <1>1, TypeInit, TypeStep, KeptStep, PTL DEF Spec
<1> QED BY <1>2, KeptImplies, PTL

-----------------------------------------------------------------------------
(* Versions *)

\* The newest version of a path that the durable state accounts for: the
\* pending round's, and without one the checkpoint's.
Reached(p) == IF pending = None THEN checkpoint[p].ver ELSE pending[p].ver

\* What was installed is accounted for.
ShownReached == \A p \in Path : shown[p] <= Reached(p)

\* A change belongs to the pending round or to one before it, and installs
\* nothing older than what its path has.
ChangeOfRound ==
    \A p \in Path : journal[p] # None =>
        /\ pending # None /\ journal[p].ver <= pending[p].ver
        /\ journal[p].state # "materialized" => shown[p] <= journal[p].ver

\* What the pass holds against what is stored, at each of its points.
RoundOfPass ==
    /\ pass.pc \in {"resume", "plan", "stage"} =>
          \A p \in Path : Reached(p) <= pass.remote[p].ver
    /\ pass.pc \in {"apply", "adopt"} => pending = pass.remote
    /\ pass.pc = "finish" => pending = checkpoint

RoundInv == ShownReached /\ ChangeOfRound /\ RoundOfPass

\* Versions are numbers.
LEMMA Versions ==
    ASSUME TypeOK, NEW p \in Path
    PROVE  /\ shown[p] \in Nat /\ checkpoint[p].ver \in Nat /\ pass.remote[p].ver \in Nat
           /\ owner[p].ver \in Nat /\ (pending # None => pending[p].ver \in Nat)
           /\ Reached(p) \in Nat /\ (journal[p] # None => journal[p].ver \in Nat)
<1>1. /\ shown[p] \in Nat /\ checkpoint[p].ver \in Nat /\ pass.remote[p].ver \in Nat
      /\ owner[p].ver \in Nat /\ (pending # None => pending[p].ver \in Nat)
    BY DEF TypeOK, Snapshot, Pass
<1>2. journal[p] # None => journal[p].ver \in Nat
    BY AttemptFields
<1> QED BY <1>1, <1>2 DEF Reached

\* Initially nothing is installed and no pass runs.
LEMMA RoundInit == Init => RoundInv
BY ReadOnlyAssumption DEF Init, RoundInv, ShownReached, ChangeOfRound, RoundOfPass, Reached, Empty, Idle

\* Once the pass has ended only what is stored matters.
LEMMA EndedRound ==
    ASSUME RoundInv, UNCHANGED <<checkpoint, pending, journal, shown>>, Fail
    PROVE  RoundInv'
BY DEF RoundInv, ShownReached, ChangeOfRound, RoundOfPass, Reached, Fail, Idle

\* Rounds do not depend on where the objects of the changes are.
LEMMA SameRound ==
    ASSUME RoundInv, UNCHANGED <<checkpoint, pending, shown>>,
           Fail \/ (pass'.pc = pass.pc /\ pass'.remote = pass.remote),
           \A q \in Path : journal'[q] # None =>
               /\ journal[q] # None /\ journal'[q].ver = journal[q].ver
               /\ journal'[q].state # "materialized" => journal[q].state # "materialized"
    PROVE  RoundInv'
<1>1. ShownReached' /\ ChangeOfRound'
    BY DEF RoundInv, ShownReached, ChangeOfRound, Reached
<1>2. RoundOfPass'
    BY DEF RoundInv, RoundOfPass, Reached, Fail, Idle
<1> QED BY <1>1, <1>2 DEF RoundInv

\* An installed change raises what its path shows to its own version.
LEMMA InstalledRound ==
    ASSUME TypeOK, RoundInv, NEW p \in Unfinished, NEW e \in Attempt,
           Entry(p, e), e.ver = journal[p].ver,
           shown' = [shown EXCEPT ![p] = journal[p].ver],
           UNCHANGED <<checkpoint, pending>>, pass'.pc = pass.pc, pass'.remote = pass.remote
    PROVE  RoundInv' /\ \A q \in Path : shown'[q] >= shown[q]
<1>0. p \in Path /\ journal[p] # None /\ journal[p].state # "materialized"
    BY DEF Unfinished
<1>1. /\ shown'[p] = journal[p].ver /\ \A q \in Path \ {p} : shown'[q] = shown[q]
    BY <1>0 DEF TypeOK
<1>2. /\ pending # None /\ journal[p].ver <= pending[p].ver /\ shown[p] <= journal[p].ver
    BY <1>0 DEF RoundInv, ChangeOfRound
<1>3. \A q \in Path : shown'[q] >= shown[q]
    BY <1>1, <1>2, Versions
<1>4. ShownReached'
    BY <1>1, <1>2 DEF RoundInv, ShownReached, Reached
<1>5. ChangeOfRound'
    <2>1. e.ver <= pending[p].ver /\ shown'[p] <= e.ver
        BY <1>0, <1>1, <1>2, Versions
    <2> QED BY <1>1, <1>2, <2>1 DEF RoundInv, ChangeOfRound, Entry
<1>6. RoundOfPass'
    BY DEF RoundInv, RoundOfPass, Reached
<1> QED BY <1>3, <1>4, <1>5, <1>6 DEF RoundInv

\* Going on with a change installs nothing older and keeps the rounds in order.
LEMMA MoveRound ==
    ASSUME TypeOK, RoundInv, NEW p \in Unfinished, Move(p), UNCHANGED <<checkpoint, pending>>
    PROVE  RoundInv' /\ \A q \in Path : shown'[q] >= shown[q]
<1>0. /\ p \in Path /\ journal[p] # None /\ journal[p] \in Attempt
      /\ journal[p].state # "materialized" /\ None \in Content
      /\ disk[p] \in Content
    BY AttemptFields DEF Unfinished, TypeOK, Content
<1>1. ASSUME RoundInv', shown' = shown
      PROVE  RoundInv' /\ \A q \in Path : shown'[q] >= shown[q]
    BY <1>1, Versions
<1>2. (\/ pass' = pass
       \/ \E w \in {"nothing", "captured", "installed", "restored"} : Moved(w))
          => pass'.pc = pass.pc /\ pass'.remote = pass.remote
    BY DEF Moved, TypeOK, Pass
<1>3. CASE Fail /\ UNCHANGED <<disk, journal, vault, shown>>
    BY <1>1, <1>3, EndedRound
<1>4. CASE Taken(p)
    <2>1. PICK e \in Attempt : Entry(p, e) /\ e.ver = journal[p].ver /\ e.state = journal[p].state
        BY <1>0, <1>4, ArtifactEntry DEF Taken
    <2> QED BY <1>0, <1>1, <1>2, <1>4, <2>1, SameRound DEF Taken, Entry
<1>5. CASE Noted(p)
    <2>1. PICK e \in Attempt : Entry(p, e) /\ e.ver = journal[p].ver
        BY <1>0, <1>5, AttemptChanges, Entries DEF Noted, Recorded
    <2> QED BY <1>0, <1>1, <1>2, <1>5, <2>1, SameRound DEF Noted, Entry
<1>6. CASE Restored(p)
    <2>1. PICK e \in Attempt : Entry(p, e) /\ e.ver = journal[p].ver /\ e.state = journal[p].state
        <3>1. CASE disk[p] = None
            BY <1>0, <1>6, <3>1, ArtifactEntry DEF Restored
        <3>2. CASE disk[p] # None
            BY <1>0, <1>6, <3>2 DEF Restored, Entry
        <3> QED BY <3>1, <3>2
    <2> QED BY <1>0, <1>1, <1>2, <1>6, <2>1, SameRound DEF Restored, Entry
<1>7. CASE Aborted(p)
    <2>1. Entry(p, None)
        BY <1>0, <1>7, Entries DEF Aborted
    <2> QED BY <1>1, <1>7, <2>1, SameRound DEF Aborted, Entry
<1>8. CASE Installs(p)
    <2>1. PICK e \in Attempt : Entry(p, e) /\ e.ver = journal[p].ver
        BY <1>0, <1>8, AttemptChanges, Entries DEF Installs, Installed
    <2> QED BY <1>2, <1>8, <2>1, InstalledRound DEF Installs, Installed
<1>9. CASE Marked(p)
    <2>1. PICK e \in Attempt : Entry(p, e) /\ e.ver = journal[p].ver
        BY <1>0, <1>9, AttemptChanges, Entries DEF Marked, Recorded
    <2> QED BY <1>2, <1>9, <2>1, InstalledRound DEF Marked
<1> QED BY <1>3, <1>4, <1>5, <1>6, <1>7, <1>8, <1>9 DEF Move

\* No step installs an older version, and every step keeps the rounds in order.
LEMMA RoundStep ==
    TypeInv /\ RoundInv /\ [Next]_vars => RoundInv' /\ \A p \in Path : shown'[p] >= shown[p]
<1> SUFFICES ASSUME TypeInv, RoundInv, [Next]_vars
             PROVE  RoundInv' /\ \A p \in Path : shown'[p] >= shown[p]
    OBVIOUS
<1>0. TypeOK
    BY DEF TypeInv
<1>1. ASSUME UNCHANGED <<checkpoint, pending, journal, shown, pass>>
      PROVE  RoundInv' /\ \A p \in Path : shown'[p] >= shown[p]
    <2>1. RoundInv'
        BY <1>1 DEF RoundInv, ShownReached, ChangeOfRound, RoundOfPass, Reached
    <2> QED BY <1>0, <1>1, <2>1, Versions
<1>2. ASSUME UNCHANGED <<checkpoint, pending, journal, shown>>, Fail
      PROVE  RoundInv' /\ \A p \in Path : shown'[p] >= shown[p]
    BY <1>0, <1>2, EndedRound, Versions
<1>3. ASSUME RoundInv', shown' = shown
      PROVE  RoundInv' /\ \A p \in Path : shown'[p] >= shown[p]
    BY <1>0, <1>3, Versions
<1>4. CASE Fetch
    <2>1. CASE Fail
        BY <1>2, <1>4, <2>1 DEF Fetch, store
    <2>2. CASE ~Fail
        <3>1. /\ Continues(checkpoint, owner) /\ (pending # None => Continues(pending, owner))
              /\ pass' = [Idle EXCEPT !.pc = "resume", !.remote = owner]
              /\ UNCHANGED <<checkpoint, pending, journal, shown>>
            BY <1>4, <2>2 DEF Fetch, store
        <3>2. pass'.pc = "resume" /\ pass'.remote = owner
            BY <3>1 DEF Idle
        <3>3. \A p \in Path : Reached(p) <= owner[p].ver
            BY <1>0, <3>1, Versions DEF Continues, Reached
        <3>4. RoundOfPass'
            BY <3>1, <3>2, <3>3 DEF RoundOfPass, Reached
        <3>5. RoundInv'
            BY <3>1, <3>4 DEF RoundInv, ShownReached, ChangeOfRound, Reached
        <3> QED BY <1>3, <3>1, <3>5
    <2> QED BY <2>1, <2>2
<1>5. CASE Resume \/ \E p \in Path : Capture(p) \/ Materialize(p) \/ Record(p)
    <2>1. UNCHANGED <<checkpoint, pending>>
        BY <1>5, PassMoves
    <2>2. CASE \E p \in Unfinished : Move(p)
        BY <1>0, <2>1, <2>2, MoveRound
    <2>3. CASE /\ pass.pc = "resume" /\ Step("plan")
               /\ UNCHANGED <<disk, journal, vault, shown>>
        <3>1. pass'.pc = "plan" /\ pass'.remote = pass.remote
            BY <1>0, <2>3 DEF Step, TypeOK, Pass
        <3>2. RoundInv'
            BY <2>1, <2>3, <3>1 DEF RoundInv, ShownReached, ChangeOfRound, RoundOfPass, Reached
        <3> QED BY <1>3, <2>3, <3>2
    <2> QED BY <1>5, <2>2, <2>3, PassMoves
<1>6. CASE Plan
    <2>1. /\ pass'.pc = "stage" /\ pass'.remote = pass.remote /\ pass.pc = "plan"
          /\ UNCHANGED <<checkpoint, pending, journal, shown>>
        BY <1>0, <1>6 DEF Plan, TypeOK, Pass, store
    <2>2. RoundInv'
        BY <2>1 DEF RoundInv, ShownReached, ChangeOfRound, RoundOfPass, Reached
    <2> QED BY <1>3, <2>1, <2>2
<1>7. CASE Stage
    <2>1. CASE Fail /\ UNCHANGED pending
        BY <1>2, <1>7, <2>1 DEF Stage
    <2>2. CASE pending' = pass.remote /\ Step("apply")
        <3>1. /\ pass'.pc = "apply" /\ pass'.remote = pass.remote /\ pass.pc = "stage"
              /\ UNCHANGED <<checkpoint, journal, shown>>
            BY <1>0, <1>7, <2>2 DEF Stage, Step, TypeOK, Pass
        <3>2. pending' # None
            BY <1>0, <2>2, ReadOnlyAssumption DEF TypeOK, Pass
        <3>3. \A p \in Path : Reached(p) <= pending'[p].ver
            BY <2>2, <3>1 DEF RoundInv, RoundOfPass
        <3>4. ShownReached'
            BY <1>0, <2>2, <3>1, <3>2, <3>3, Versions DEF RoundInv, ShownReached, Reached
        <3>5. ChangeOfRound'
            <4> SUFFICES ASSUME NEW p \in Path, journal[p] # None
                         PROVE  /\ pending' # None /\ journal[p].ver <= pending'[p].ver
                                /\ journal[p].state # "materialized" => shown[p] <= journal[p].ver
                BY <3>1 DEF ChangeOfRound
            <4>1. /\ pending # None /\ journal[p].ver <= pending[p].ver
                  /\ journal[p].state # "materialized" => shown[p] <= journal[p].ver
                BY DEF RoundInv, ChangeOfRound
            <4>2. pending[p].ver <= pending'[p].ver
                BY <3>3, <4>1 DEF Reached
            <4>3. journal[p].ver \in Nat /\ pending[p].ver \in Nat /\ pending'[p].ver \in Nat
                BY <1>0, <2>2, <4>1, Versions
            <4> QED BY <3>2, <4>1, <4>2, <4>3
        <3>6. RoundOfPass'
            BY <2>2, <3>1 DEF RoundOfPass
        <3> QED BY <1>3, <3>1, <3>4, <3>5, <3>6 DEF RoundInv
    <2> QED BY <1>7, <2>1, <2>2 DEF Stage
<1>8. CASE \E p \in Path : Prepare(p)
    <2>1. PICK p \in Path : Prepare(p)
        BY <1>8
    <2>2. UNCHANGED <<checkpoint, pending, shown>> /\ pass.pc = "apply"
        BY <2>1 DEF Prepare
    <2>3. CASE Fail /\ UNCHANGED <<journal, vault>>
        BY <1>2, <2>2, <2>3
    <2>4. CASE ~(Fail /\ UNCHANGED <<journal, vault>>)
        <3>1. /\ journal' = [journal EXCEPT ![p] = Prepared(p)]
              /\ pass' = [pass EXCEPT !.todo = @ \ {p}]
            BY <2>1, <2>4 DEF Prepare, Prepared
        <3>2. pass'.pc = "apply" /\ pass'.remote = pass.remote
            BY <1>0, <2>2, <3>1 DEF TypeOK, Pass
        <3>3. journal'[p] = Prepared(p) /\ \A q \in Path \ {p} : journal'[q] = journal[q]
            BY <1>0, <3>1 DEF TypeOK
        <3>4. pending = pass.remote /\ pending # None
            BY <1>0, <2>2, ReadOnlyAssumption DEF RoundInv, RoundOfPass, TypeOK, Pass
        <3>5. Prepared(p).ver = pending[p].ver /\ shown[p] <= pending[p].ver
            BY <3>4 DEF Prepared, RoundInv, ShownReached, Reached
        <3>6. ChangeOfRound'
            BY <1>0, <2>2, <3>3, <3>4, <3>5, Versions DEF RoundInv, ChangeOfRound
        <3>7. RoundInv'
            BY <2>2, <3>2, <3>4, <3>6 DEF RoundInv, ShownReached, RoundOfPass, Reached
        <3> QED BY <1>3, <2>2, <3>7
    <2> QED BY <2>3, <2>4
<1>11. CASE Applied
    <2>1. /\ pass'.pc = "adopt" /\ pass'.remote = pass.remote /\ pass.pc = "apply"
          /\ UNCHANGED <<checkpoint, pending, journal, shown>>
        BY <1>0, <1>11 DEF Applied, TypeOK, Pass, store
    <2>2. RoundInv'
        BY <2>1 DEF RoundInv, ShownReached, ChangeOfRound, RoundOfPass, Reached
    <2> QED BY <1>3, <2>1, <2>2
<1>12. CASE Adopt
    <2>1. UNCHANGED <<pending, journal, shown>> /\ pass.pc = "adopt" /\ pending = pass.remote
        BY <1>12 DEF Adopt, RoundInv, RoundOfPass
    <2>2. CASE Fail /\ UNCHANGED checkpoint
        BY <1>2, <2>1, <2>2
    <2>3. CASE checkpoint' = pass.remote /\ pass' = [Idle EXCEPT !.pc = "finish"]
        <3>1. pass'.pc = "finish" /\ pending' # None
            BY <1>0, <2>1, <2>3, ReadOnlyAssumption DEF Idle, TypeOK, Pass
        <3>2. RoundInv'
            BY <2>1, <2>3, <3>1 DEF RoundInv, ShownReached, ChangeOfRound, RoundOfPass, Reached
        <3> QED BY <1>3, <2>1, <3>2
    <2> QED BY <1>12, <2>2, <2>3 DEF Adopt
<1>13. CASE Finish
    <2>1. /\ pass.pc = "finish" /\ pass' = Idle /\ pending' = None /\ pending = checkpoint
          /\ UNCHANGED <<checkpoint, shown>> /\ \A p \in Path : journal'[p] = None
        BY <1>13 DEF Finish, RoundInv, RoundOfPass
    <2>2. RoundInv'
        BY <2>1 DEF RoundInv, ShownReached, ChangeOfRound, RoundOfPass, Reached, Idle
    <2> QED BY <1>3, <2>1, <2>2
<1>14. CASE \E p \in Path : LateWrite(p)
    <2>1. PICK p \in Path : LateWrite(p)
        BY <1>14
    <2>2. /\ journal[p] # None /\ journal[p] \in Attempt /\ Fresh \in Content
          /\ UNCHANGED <<checkpoint, pending, shown, pass>>
        BY <1>0, <2>1, AttemptFields, FreshType DEF TypeInv, LateWrite
    <2>3. PICK e \in Attempt : Entry(p, e) /\ e.ver = journal[p].ver /\ e.state = journal[p].state
        BY <1>0, <2>1, <2>2, ArtifactEntry DEF LateWrite
    <2>4. RoundInv'
        BY <2>2, <2>3, SameRound DEF Entry
    <2> QED BY <1>3, <2>2, <2>4
<1>15. CASE Crash
    BY <1>2, <1>15 DEF Crash, Stop, Fail, store
<1>16. CASE Open \/ Shutdown \/ OwnerBackup \/ OwnerRestore
    BY <1>1, <1>16 DEF Open, Shutdown, Stop, OwnerBackup, OwnerRestore, member, store
<1>17. CASE \E p \in Path : OwnerEdit(p) \/ UserEdit(p)
    BY <1>1, <1>17 DEF OwnerEdit, UserEdit, member, store
<1>18. CASE UNCHANGED vars
    BY <1>1, <1>18 DEF vars, store
<1> QED
    BY <1>4, <1>5, <1>6, <1>7, <1>8, <1>11, <1>12, <1>13, <1>14, <1>15, <1>16, <1>17, <1>18
    DEF Next, PassStep

\* VersionsAdvance: a read-only member never installs an older version of a path
\* than one it has had, although the owner may be restored from a backup at any
\* moment of an interrupted round.
THEOREM VersionsAdvance == Spec => NeverOlder
<1>1. Spec => [](TypeInv /\ RoundInv)
    BY TypeInit, TypeStep, RoundInit, RoundStep, PTL DEF Spec
<1>2. TypeInv /\ RoundInv /\ [Next]_vars => [\A p \in Path : shown'[p] >= shown[p]]_vars
    BY RoundStep
<1> QED BY <1>1, <1>2, PTL DEF Spec, NeverOlder
=============================================================================
