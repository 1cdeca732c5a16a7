------------------------- MODULE PathJournalProofs -------------------------
(* Theorems about PathJournal, for every number of attempts, contents, edits, *)
(* crashes and faults.                                                        *)
EXTENDS PathJournal, TLAPS

-----------------------------------------------------------------------------
(* Types *)

Resting == {"down", "idle", "recover", "recovered", "ready", "marking"}

\* A step that works on an attempt has one.
Working ==
    /\ pc \notin Resting => cur \in Attempt
    /\ (pc = "marking" /\ task = "resume") => cur \in Attempt

TypeInv == TypeOK /\ Working

\* The row of a path never indexed is a row.
LEMMA NoRowType == NoRow \in Row
BY DEF NoRow, Row, NoData, Data

\* An unused journal slot is a PathChange.
LEMMA UnusedType == UnusedChange \in PathChange
BY NoRowType DEF UnusedChange, PathChange, PathChangeState

\* The initial state is well typed and works on no attempt.
LEMMA TypeInit == Init => TypeInv
<1> SUFFICES ASSUME Init PROVE TypeInv
    OBVIOUS
<1>1. journal \in [Attempt -> PathChange]
    BY UnusedType DEF Init
<1>2. idx \in Row
    BY NoRowType DEF Init
<1>3. /\ dest = {} /\ seen = {}
      /\ \A i \in Attempt : artifact[i] = {} /\ staging[i] = {} /\ rollback[i] = {}
      /\ artifact \in [Attempt -> Location] /\ staging \in [Attempt -> Location]
      /\ rollback \in [Attempt -> Location]
    BY DEF Init, Location
<1>4. pc = "down" /\ cur = NoAttempt /\ task = "apply"
    BY DEF Init
<1>5. /\ history \subseteq Row /\ adopted \subseteq Attempt /\ owed \subseteq Data
      /\ revoked \in BOOLEAN /\ gone \in BOOLEAN
      /\ clock \in Nat /\ writes \in Nat /\ crashes \in Nat /\ faults \in Nat
    BY DEF Init
<1> QED
    BY <1>1, <1>2, <1>3, <1>4, <1>5
    DEF TypeInv, TypeOK, Working, Resting, Location, AtMostOne, Steps

\* Writing a state to one journal entry (put_change) keeps the journal well typed.
LEMMA SetStateType ==
    ASSUME NEW i \in Attempt, NEW s \in PathChangeState,
           journal \in [Attempt -> PathChange], SetState(i, s)
    PROVE  journal' \in [Attempt -> PathChange]
BY DEF SetState, PathChange

\* A write of the user is an object with fresh content.
LEMMA FreshType ==
    ASSUME clock \in Nat
    PROVE  /\ Fresh \in Data /\ clock + 1 \in Nat
           /\ [ino |-> clock, kind |-> "file", data |-> Fresh] \in Obj
           /\ [ino |-> clock, kind |-> "dir", data |-> NoData] \in Obj
BY DEF Fresh, Data, Obj, NoData

\* A rewrite in place keeps the location well formed.
LEMMA RewriteType ==
    ASSUME NEW l \in Location, AtMostOne(l), clock \in Nat
    PROVE  /\ {[o EXCEPT !.data = Fresh] : o \in l} \in Location
           /\ AtMostOne({[o EXCEPT !.data = Fresh] : o \in l})
<1>1. \A o \in l : [o EXCEPT !.data = Fresh] \in Obj
    BY FreshType DEF Location, Obj
<1> QED BY <1>1 DEF Location, AtMostOne

\* Records that a peer may send are rows.
LEMMA IncomingType == ASSUME TypeOK PROVE Incoming \subseteq Row
<1>1. /\ \A d \in RemoteData : [by |-> "remote", n |-> d] \in Data
      /\ NoData \in Data /\ idx.ver + 1 \in Nat /\ idx \in Row
    BY ConstantsAssumption DEF TypeOK, Data, NoData, Row
<1> QED BY <1>1 DEF Incoming, Row

\* The record a v1 push authors is a row.
LEMMA PushedType ==
    ASSUME TypeOK, NEW d \in RemoteData
    PROVE  [kind |-> "file", data |-> [by |-> "remote", n |-> d],
            ver |-> idx.ver + 1, by |-> "push"] \in Row
<1>1. [by |-> "remote", n |-> d] \in Data /\ idx.ver + 1 \in Nat
    BY ConstantsAssumption DEF TypeOK, Data, Row
<1> QED BY <1>1 DEF Row

\* prepare_path_change journals a well-typed attempt.
LEMMA PrepareType ==
    ASSUME TypeOK, NEW i \in Attempt, NEW r \in Row, Prepare(i, r)
    PROVE  journal' \in [Attempt -> PathChange]
<1>1. [state |-> "Prepared", expected |-> dest, record |-> r,
       pre |-> idx, bound |-> FALSE, metaOnly |-> FALSE] \in PathChange
    BY DEF TypeOK, PathChange, PathChangeState, Location
<1> QED BY <1>1 DEF Prepare, TypeOK

\* No step of the program or its environment breaks the types.
LEMMA TypeStep == TypeInv /\ [Next]_vars => TypeInv'
<1> SUFFICES ASSUME TypeInv, [Next]_vars PROVE TypeInv'
    OBVIOUS
<1> USE ConstantsAssumption
    DEF TypeInv, TypeOK, Working, Resting, Location, AtMostOne, Steps, At, Goto,
        Return, Fail, store, proc, env, index
<1>1. CASE Restart
    BY <1>1, SetStateType DEF Restart, PathChangeState
<1>2. CASE StartPass
    BY <1>2, SetStateType DEF StartPass, PathChangeState
<1>3. CASE RecoverRefuse
    BY <1>3, SetStateType DEF RecoverRefuse, PathChangeState
<1>4. CASE RecoverDone
    BY <1>4, SetStateType DEF RecoverDone, PathChangeState
<1>5. CASE \E i \in Attempt : SweepUnbound(i)
    BY <1>5, SetStateType DEF SweepUnbound, PathChangeState
<1>6. CASE \E i \in Attempt : SweepIndexed(i)
    BY <1>6, SetStateType DEF SweepIndexed, PathChangeState
<1>7. CASE \E i \in Attempt : RecoverMark(i)
    BY <1>7, SetStateType DEF RecoverMark, PathChangeState, Recoverable
<1>8. CASE \E i \in Attempt : RecoverDecide(i)
    BY <1>8, SetStateType DEF RecoverDecide, PathChangeState, Recoverable
<1>9. CASE ResumePrepared
    BY <1>9, SetStateType DEF ResumePrepared, PathChangeState
<1>10. CASE ResumePreserved
    BY <1>10, SetStateType DEF ResumePreserved, PathChangeState
<1>11. CASE ResumeMaterialized
    BY <1>11, SetStateType DEF ResumeMaterialized, PathChangeState
<1>12. CASE WriteStaging
    <2>1. journal[cur].record.data \in Data /\ clock + 1 \in Nat /\ cur \in Attempt
        BY <1>12 DEF WriteStaging, PathChange, Row
    <2>2. [ino |-> clock, kind |-> "file", data |-> journal[cur].record.data] \in Obj
        BY <2>1 DEF Obj
    <2> QED BY <1>12, <2>1, <2>2 DEF WriteStaging
<1>13. CASE Bind
    <2> DEFINE c == journal[cur]
               m == c.record.kind = "dir" /\ IsDir(c.expected)
               b == [c EXCEPT !.bound = TRUE, !.metaOnly = m]
    <2>1. m \in BOOLEAN /\ c \in PathChange
        BY <1>13 DEF Bind, IsDir
    <2>2. b \in PathChange
        <3> HIDE DEF m, c
        <3> QED BY <2>1 DEF PathChange
    <2>3. journal' = [journal EXCEPT ![cur] = b]
        BY <1>13 DEF Bind
    <2> HIDE DEF b
    <2> QED BY <1>13, <2>2, <2>3 DEF Bind
<1>14. CASE CaptureCheck
    BY <1>14, SetStateType DEF CaptureCheck, AfterCapture, PathChangeState
<1>15. CASE CaptureMove
    BY <1>15, SetStateType DEF CaptureMove, PathChangeState
<1>16. CASE CaptureVerify
    BY <1>16, SetStateType DEF CaptureVerify, AfterCapture, PathChangeState
<1>17. CASE InstallCheck
    BY <1>17, SetStateType DEF InstallCheck, PathChangeState
<1>18. CASE PlaceFile
    BY <1>18, SetStateType DEF PlaceFile, PathChangeState
<1>19. CASE PlaceDirectory
    <2>1. [ino |-> clock, kind |-> "dir", data |-> NoData] \in Obj /\ clock + 1 \in Nat
        BY DEF Obj, NoData, Data
    <2> QED BY <1>19, <2>1 DEF PlaceDirectory
<1>20. CASE PlaceNothing
    BY <1>20, SetStateType DEF PlaceNothing, PathChangeState
<1>21. CASE PlaceRefused
    BY <1>21, SetStateType DEF PlaceRefused, PathChangeState
<1>22. CASE RecordMaterialized
    BY <1>22, SetStateType DEF RecordMaterialized, PathChangeState
<1>23. CASE Restore
    BY <1>23, SetStateType DEF Restore, PathChangeState
<1>24. CASE Abandon
    BY <1>24, SetStateType DEF Abandon, PathChangeState
<1>25. CASE Observe
    BY <1>25, SetStateType DEF Observe, PathChangeState
<1>26. CASE Adopt
    <2>1. journal[cur].record \in Row /\ cur \in Attempt
        BY <1>26 DEF Adopt, PathChange
    <2> QED BY <1>26, <2>1 DEF Adopt
<1>27. CASE \E i \in Attempt : MarkIndexed(i)
    BY <1>27, SetStateType DEF MarkIndexed, PathChangeState
<1>28. CASE MarkCommitted
    BY <1>28, SetStateType DEF MarkCommitted, PathChangeState
<1>29. CASE MarkDone
    BY <1>29, SetStateType DEF MarkDone, PathChangeState
<1>30. CASE RollbackSkip
    BY <1>30, SetStateType DEF RollbackSkip, PathChangeState
<1>31. CASE RollbackStart
    BY <1>31, SetStateType DEF RollbackStart, PathChangeState
<1>32. CASE RollbackRefuse
    BY <1>32, SetStateType DEF RollbackRefuse, PathChangeState
<1>33. CASE Withdraw
    BY <1>33, SetStateType DEF Withdraw, PathChangeState
<1>34. CASE Withdrawn
    BY <1>34, SetStateType DEF Withdrawn, PathChangeState
<1>35. CASE Reinstate
    BY <1>35, SetStateType DEF Reinstate, PathChangeState
<1>36. CASE Rolled
    BY <1>36, SetStateType DEF Rolled, PathChangeState
<1>37. CASE Scan
    <2>1. ScannedRow \in Row
        <3>1. \A o \in dest : o.data \in Data
            BY DEF Obj
        <3>2. dest = {} \/ (CHOOSE o \in dest : TRUE) \in dest
            OBVIOUS
        <3>3. NoData \in Data /\ idx.ver + 1 \in Nat
            BY DEF NoData, Data, Row
        <3> QED BY <3>1, <3>2, <3>3 DEF ScannedRow, Row
    <2> QED BY <1>37, <2>1 DEF Scan
<1>38. CASE EndPass
    BY <1>38, SetStateType DEF EndPass, PathChangeState
<1>39. CASE PushRejected
    BY <1>39, SetStateType DEF PushRejected, PathChangeState
<1>40. CASE \E i \in Attempt, r \in Incoming : BeginCausal(i, r)
    <2>1. PICK i \in Attempt, r \in Incoming : BeginCausal(i, r)
        BY <1>40
    <2>2. r \in Row
        BY IncomingType
    <2>3. journal' \in [Attempt -> PathChange]
        BY <2>1, <2>2, PrepareType DEF BeginCausal
    <2> QED BY <2>1, <2>3 DEF BeginCausal, Prepare
<1>41. CASE \E i \in Attempt, d \in RemoteData : BeginPush(i, d)
    <2>1. PICK i \in Attempt, d \in RemoteData : BeginPush(i, d)
        BY <1>41
    <2>2. PICK r \in Row : r.kind = "file" /\ Prepare(i, r)
        BY <2>1, PushedType DEF BeginPush
    <2>3. journal' \in [Attempt -> PathChange]
        BY <2>2, PrepareType
    <2> QED BY <2>2, <2>3 DEF Prepare
<1>42. CASE \E d \in RemoteData : PushCurrent(d)
    BY <1>42, PushedType DEF PushCurrent
<1>43. CASE UserSave
    BY <1>43, FreshType DEF UserSave, UserStep
<1>44. CASE UserMkdir
    BY <1>44, FreshType DEF UserMkdir, UserStep
<1>45. CASE UserEdit
    <2>1. dest' \in Location /\ AtMostOne(dest')
        BY <1>45, RewriteType DEF UserEdit
    <2> QED BY <1>45, <2>1, FreshType DEF UserEdit, UserStep
<1>46. CASE UserDelete
    BY <1>46 DEF UserDelete, UserStep
<1>47. CASE \E i \in Attempt : UserEditHeld(i)
    <2>1. PICK i \in Attempt : UserEditHeld(i)
        BY <1>47
    <2> DEFINE l == {[o EXCEPT !.data = Fresh] : o \in artifact[i]}
    <2>2. l \in Location /\ AtMostOne(l)
        BY RewriteType
    <2>3. artifact' = [artifact EXCEPT ![i] = l]
        BY <2>1 DEF UserEditHeld
    <2> HIDE DEF l
    <2> QED BY <2>1, <2>2, <2>3, FreshType DEF UserEditHeld, UserStep
<1>48. CASE PlaceFault
    BY <1>48, SetStateType DEF PlaceFault, PathChangeState
<1>49. CASE Crash
    BY <1>49, SetStateType DEF Crash, PathChangeState
<1>50. CASE Revoke
    BY <1>50, SetStateType DEF Revoke, PathChangeState
<1>51. CASE RevokeReturns
    BY <1>51, SetStateType DEF RevokeReturns, PathChangeState
<1>52. CASE UNCHANGED vars
    BY <1>52 DEF vars
<1> QED
    BY <1>1, <1>2, <1>3, <1>4, <1>5, <1>6, <1>7, <1>8, <1>9, <1>10, <1>11, <1>12,
       <1>13, <1>14, <1>15, <1>16, <1>17, <1>18, <1>19, <1>20, <1>21, <1>22, <1>23,
       <1>24, <1>25, <1>26, <1>27, <1>28, <1>29, <1>30, <1>31, <1>32, <1>33, <1>34,
       <1>35, <1>36, <1>37, <1>38, <1>39, <1>40, <1>41, <1>42, <1>43, <1>44, <1>45,
       <1>46, <1>47, <1>48, <1>49, <1>50, <1>51, <1>52
    DEF Next, Recovery, Application, Undo, Choice, Environment

(* Every variable keeps its type, and no location ever holds two objects: no  *)
(* rename of capture, install, restore or rollback meets an occupant.         *)
THEOREM TypeCorrect == Spec => []TypeOK
<1>1. Spec => []TypeInv
    BY TypeInit, TypeStep, PTL DEF Spec
<1>2. TypeInv => TypeOK
    BY DEF TypeInv
<1> QED BY <1>1, <1>2, PTL

-----------------------------------------------------------------------------
(* User data *)

\* The content is at the path, or in the vault.
Located(d) == \/ \E o \in dest : o.data = d
              \/ \E i \in Attempt : \E o \in artifact[i] \cup rollback[i] : o.data = d

\* NoUserWriteLost, content by content: each has a location.
LEMMA LostLocated == NoUserWriteLost <=> \A d \in owed : Located(d)
BY DEF NoUserWriteLost, Everywhere, Located

\* Steps that neither move nor change an object that user content may be in.
Still == UNCHANGED <<dest, artifact, rollback, owed>>

\* Every step either moves no object or is one of the few that do.
LEMMA StillOrMoving ==
    ASSUME [Next]_vars
    PROVE  \/ Still
           \/ CaptureMove \/ PlaceFile \/ PlaceDirectory \/ Restore \/ Withdraw \/ Reinstate
           \/ UserSave \/ UserMkdir \/ UserEdit \/ UserDelete
           \/ \E i \in Attempt : UserEditHeld(i)
<1> USE DEF Still, store, env, Prepare
<1>1. CASE Recovery
    BY <1>1 DEF Recovery, Restart, StartPass, RecoverRefuse, RecoverDone, SweepUnbound,
       SweepIndexed, RecoverMark, RecoverDecide, ResumePrepared, ResumePreserved,
       ResumeMaterialized
<1>2. CASE Application
    BY <1>2 DEF Application, WriteStaging, Bind, CaptureCheck, CaptureVerify, InstallCheck,
       PlaceNothing, PlaceRefused, RecordMaterialized, Abandon, Observe, Adopt,
       MarkCommitted, MarkDone, MarkIndexed
<1>3. CASE Undo
    BY <1>3 DEF Undo, RollbackSkip, RollbackStart, RollbackRefuse, Withdrawn, Rolled
<1>4. CASE Choice
    BY <1>4 DEF Choice, Scan, EndPass, PushRejected, BeginCausal, BeginPush, PushCurrent
<1>5. CASE Environment
    BY <1>5 DEF Environment, PlaceFault, Crash, Revoke, RevokeReturns
<1>6. CASE UNCHANGED vars
    BY <1>6 DEF vars
<1> QED BY <1>1, <1>2, <1>3, <1>4, <1>5, <1>6 DEF Next

\* No step loses a content the user is owed.
LEMMA LostStep == TypeInv /\ NoUserWriteLost /\ [Next]_vars => NoUserWriteLost'
<1> SUFFICES ASSUME TypeInv, \A d \in owed : Located(d), [Next]_vars, NEW d \in owed'
             PROVE  Located(d)'
    BY LostLocated DEF NoUserWriteLost, Everywhere, Located
<1> USE DEF TypeInv, TypeOK, Working, Resting, Location, At
<1>1. CASE Still
    BY <1>1 DEF Still, Located
<1>2. CASE CaptureMove
    <2>1. d \in owed
        BY <1>2 DEF CaptureMove, env
    <2> QED BY <1>2, <2>1 DEF CaptureMove, Located
<1>3. CASE PlaceFile
    BY <1>3 DEF PlaceFile, env, Located
<1>4. CASE PlaceDirectory
    BY <1>4 DEF PlaceDirectory, env, store, Located
<1>5. CASE Restore
    BY <1>5 DEF Restore, env, Located
<1>6. CASE Withdraw
    BY <1>6 DEF Withdraw, env, Located
<1>7. CASE Reinstate
    BY <1>7 DEF Reinstate, env, Located
<1>8. CASE UserSave
    BY <1>8 DEF UserSave, UserStep, DataIn, Located
<1>9. CASE UserMkdir
    BY <1>9 DEF UserMkdir, UserStep, Located
<1>10. CASE UserEdit
    <2>1. PICK o \in dest : o \in Obj
        BY <1>10 DEF UserEdit
    <2>2. [o EXCEPT !.data = Fresh] \in dest' /\ [o EXCEPT !.data = Fresh].data = Fresh
        BY <1>10, <2>1 DEF UserEdit, Obj
    <2>3. CASE d = Fresh
        BY <2>2, <2>3 DEF Located
    <2>4. CASE d # Fresh
        BY <1>10, <2>4 DEF UserEdit, UserStep, DataIn, Located
    <2> QED BY <2>3, <2>4
<1>11. CASE UserDelete
    BY <1>11 DEF UserDelete, UserStep, DataIn, Located
<1>12. CASE \E i \in Attempt : UserEditHeld(i)
    <2>1. PICK i \in Attempt : UserEditHeld(i)
        BY <1>12
    <2>2. PICK o \in artifact[i] : o \in Obj
        BY <2>1 DEF UserEditHeld
    <2>3. [o EXCEPT !.data = Fresh] \in artifact'[i] /\ [o EXCEPT !.data = Fresh].data = Fresh
        BY <2>1, <2>2 DEF UserEditHeld, Obj
    <2>4. CASE d = Fresh
        BY <2>3, <2>4 DEF Located
    <2>5. CASE d # Fresh
        BY <2>1, <2>5 DEF UserEditHeld, UserStep, DataIn, Located
    <2> QED BY <2>4, <2>5
<1> QED BY StillOrMoving, <1>1, <1>2, <1>3, <1>4, <1>5, <1>6, <1>7, <1>8, <1>9, <1>10,
           <1>11, <1>12

(* Whatever the user wrote at the path and has not removed is never lost: it   *)
(* is at the path or in the vault after every capture, installation, restore,  *)
(* rollback, fault and crash of preservation.rs.                               *)
THEOREM UserDataSafe == Spec => []NoUserWriteLost
<1>1. Init => NoUserWriteLost
    BY DEF Init, NoUserWriteLost
<1>2. Spec => []TypeInv
    BY TypeInit, TypeStep, PTL DEF Spec
<1> QED BY <1>1, <1>2, LostStep, PTL DEF Spec

-----------------------------------------------------------------------------
(* The journal *)

\* Steps that lead an attempt towards adoption.
Applying == {"stage", "bind", "check", "capture", "verify", "install", "place",
             "record", "observe", "adopt", "resume"}

\* What the journal says of the attempt in hand at each step.
StepState ==
    /\ pc \in {"stage", "bind", "check", "capture", "verify"} =>
          journal[cur].state = "Prepared"
    /\ pc \in {"install", "place", "record"} => journal[cur].state = "Preserved"
    /\ pc \in {"observe", "adopt"} => journal[cur].state = "Materialized"
    /\ pc = "commit" => journal[cur].state = "Indexed"
    /\ pc \in {"restore", "abandon"} => journal[cur].state \in {"Prepared", "Preserved"}
    /\ pc = "resume" => journal[cur].state \in {"Prepared", "Preserved", "Materialized"}
    /\ pc = "rollback" =>
          journal[cur].state \in {"Prepared", "Preserved", "Materialized", "RollingBack"}
    /\ pc \in {"withdraw", "withdrawn", "reinstate", "rolled"} =>
          journal[cur].state = "RollingBack"

\* At most one bound attempt is unsettled, and while one is being applied it
\* is that one: recovery runs before every other operation.
OnePending ==
    /\ \A i, j \in Attempt : Pending(i) /\ Pending(j) => i = j
    /\ pc \in {"recovered", "ready"} => \A i \in Attempt : ~Pending(i)
    /\ pc \in Applying => \A i \in Attempt : Pending(i) => i = cur

\* Between adoption and completion the index still holds the attempt's record,
\* and an attempt about to be rolled back is not in the index.
AdoptedIsIndexed ==
    /\ \A i \in adopted :
          journal[i].state = "Materialized" /\ journal[i].bound => idx = journal[i].record
    /\ pc = "rollback" => journal[cur].bound /\ idx # journal[cur].record

\* The index row is in the history, and no target is "never indexed".
IndexKnown ==
    /\ idx.kind # "none" => idx \in history
    /\ \A i \in Attempt : journal[i].state # "Unused" => journal[i].record.kind # "none"

\* The vault holds the original while an installation is under way, and holds
\* nothing for an attempt that detaches nothing or is rolled back.
VaultKnown ==
    /\ pc \in {"install", "place", "record", "resume"} => Valid(cur)
    /\ \A i \in Attempt : ~Detaches(journal[i]) => artifact[i] = {}
    /\ \A i \in Attempt : journal[i].state = "Unused" => artifact[i] = {}
    /\ pc \in {"stage", "bind", "rolled"} => artifact[cur] = {}
    /\ pc = "capture" => Detaches(journal[cur])

\* After revoke_member has returned nothing of the peer is being applied.
RevokedQuiet ==
    /\ gone => revoked
    /\ revoked => Shared
    /\ gone => pc \notin Applying

JournalInv ==
    /\ StepState /\ OnePending /\ AdoptedIsIndexed /\ IndexKnown /\ VaultKnown /\ RevokedQuiet
    /\ AdoptedNeverUndone /\ CommittedWasIndexed /\ OriginalRetained /\ RolledBackRestored

\* put_change of a state leaves every other field and attempt alone.
LEMMA SetStateOnly ==
    ASSUME NEW i \in Attempt, NEW s, journal \in [Attempt -> PathChange], SetState(i, s)
    PROVE  /\ \A j \in Attempt : j # i => journal'[j] = journal[j]
           /\ journal'[i].state = s
           /\ journal'[i].expected = journal[i].expected
           /\ journal'[i].record = journal[i].record
           /\ journal'[i].pre = journal[i].pre
           /\ journal'[i].bound = journal[i].bound
           /\ journal'[i].metaOnly = journal[i].metaOnly
BY DEF SetState, PathChange

\* Writing through an old handle keeps the identity of the captured object.
LEMMA HeldKeepsIno ==
    ASSUME TypeInv, NEW i \in Attempt, UserEditHeld(i), NEW j \in Attempt
    PROVE  /\ artifact[j] = {} <=> artifact'[j] = {}
           /\ \A o \in artifact[j] : \E p \in artifact'[j] : p.ino = o.ino
<1>1. artifact' = [artifact EXCEPT ![i] = {[o EXCEPT !.data = Fresh] : o \in artifact[i]}]
    BY DEF UserEditHeld
<1>2. artifact \in [Attempt -> SUBSET Obj]
    BY DEF TypeInv, TypeOK, Location
<1>3. \A o \in artifact[i] : [o EXCEPT !.data = Fresh].ino = o.ino
    BY <1>2 DEF Obj
<1>4. CASE j # i
    BY <1>1, <1>2, <1>4
<1>5. CASE j = i
    <2>1. artifact'[i] = {[o EXCEPT !.data = Fresh] : o \in artifact[i]}
        BY <1>1, <1>2
    <2> QED BY <1>3, <1>5, <2>1
<1> QED BY <1>4, <1>5

\* The journal invariant is inductive: one step below per action of Next.
LEMMA JournalStep == TypeInv /\ TypeInv' /\ JournalInv /\ [Next]_vars => JournalInv'
<1> SUFFICES ASSUME TypeInv, TypeInv', JournalInv, [Next]_vars PROVE JournalInv'
    OBVIOUS
<1> USE ConstantsAssumption
    DEF TypeInv, TypeOK, Working, Resting, Steps, PathChange,
        At, Goto, Return, Fail, SetState, store, proc, env, index,
        Pending, Terminal, Detaches, Valid, SameIno, Applying,
        JournalInv, StepState, OnePending, AdoptedIsIndexed, IndexKnown, VaultKnown,
        RevokedQuiet, AdoptedNeverUndone, CommittedWasIndexed, OriginalRetained,
        RolledBackRestored
<1>1. CASE Restart
    BY <1>1 DEF Restart
<1>2. CASE StartPass
    BY <1>2 DEF StartPass
<1>3. CASE RecoverRefuse
    BY <1>3 DEF RecoverRefuse
<1>4. CASE RecoverDone
    BY <1>4 DEF RecoverDone, SweepDone
<1>5. CASE \E i \in Attempt : SweepUnbound(i)
    BY <1>5 DEF SweepUnbound, SweepDone, Unbound
<1>6. CASE \E i \in Attempt : SweepIndexed(i)
    <2>1. /\ StepState' /\ IndexKnown' /\ RevokedQuiet'
          /\ AdoptedNeverUndone' /\ RolledBackRestored'
        BY <1>6 DEF SweepIndexed
    <2>2. OnePending'
        BY <1>6 DEF SweepIndexed
    <2>3. AdoptedIsIndexed'
        BY <1>6 DEF SweepIndexed
    <2>4. VaultKnown'
        BY <1>6 DEF SweepIndexed
    <2>5. CommittedWasIndexed'
        BY <1>6 DEF SweepIndexed
    <2>6. OriginalRetained'
        BY <1>6 DEF SweepIndexed
    <2> QED BY <2>1, <2>2, <2>3, <2>4, <2>5, <2>6
<1>7. CASE \E i \in Attempt : RecoverMark(i)
    BY <1>7 DEF RecoverMark, Recoverable, SweepDone, Completes
<1>8. CASE \E i \in Attempt : RecoverDecide(i)
    <2>1. PICK i \in Attempt : RecoverDecide(i)
        BY <1>8
    <2>2. journal[i].state \in {"Prepared", "Preserved", "Materialized", "RollingBack"}
        BY <2>1 DEF RecoverDecide, Recoverable, SweepDone, PathChangeState
    <2> QED BY <2>1, <2>2 DEF RecoverDecide, Recoverable, SweepDone
<1>9. CASE ResumePrepared
    <2>1. CASE /\ artifact[cur] # {} /\ artifact[cur] = journal[cur].expected
               /\ SetState(cur, "Preserved") /\ UNCHANGED proc
        <3> HIDE DEF SetState
        <3>1. Valid(cur)'
            BY <1>9, <2>1, SetStateOnly DEF ResumePrepared
        <3>2. StepState'
            BY <1>9, <2>1, <3>1, SetStateOnly DEF ResumePrepared
        <3>3. OnePending'
            <4>1. /\ pc = "resume" /\ pc' = "resume" /\ cur' = cur
                  /\ \A i \in Attempt : Pending(i)' => Pending(i)
                BY <1>9, <2>1, SetStateOnly DEF ResumePrepared
            <4> HIDE DEF Pending
            <4> QED BY <4>1
        <3>4. AdoptedIsIndexed'
            BY <1>9, <2>1, <3>1, SetStateOnly DEF ResumePrepared
        <3>5. IndexKnown'
            BY <1>9, <2>1, <3>1, SetStateOnly DEF ResumePrepared
        <3>6. VaultKnown'
            <4>1. /\ pc' = "resume" /\ cur' = cur /\ artifact' = artifact
                  /\ \A i \in Attempt :
                        /\ Detaches(journal[i])' <=> Detaches(journal[i])
                        /\ journal'[i].state = "Unused" => journal[i].state = "Unused"
                BY <1>9, <2>1, SetStateOnly DEF ResumePrepared
            <4> HIDE DEF Detaches, Valid
            <4> QED BY <3>1, <4>1
        <3>7. RevokedQuiet'
            BY <1>9, <2>1, <3>1, SetStateOnly DEF ResumePrepared
        <3>8. AdoptedNeverUndone'
            BY <1>9, <2>1, <3>1, SetStateOnly DEF ResumePrepared
        <3>9. CommittedWasIndexed'
            BY <1>9, <2>1, <3>1, SetStateOnly DEF ResumePrepared
        <3>10. OriginalRetained'
            BY <1>9, <2>1, <3>1, SetStateOnly DEF ResumePrepared
        <3>11. RolledBackRestored'
            BY <1>9, <2>1, <3>1, SetStateOnly DEF ResumePrepared
        <3> QED BY <3>2, <3>3, <3>4, <3>5, <3>6, <3>7, <3>8, <3>9, <3>10, <3>11
    <2>2. CASE pc' = "idle" /\ UNCHANGED journal
        BY <1>9, <2>2 DEF ResumePrepared
    <2>3. CASE Goto("check") /\ UNCHANGED journal
        BY <1>9, <2>3, SMTT(30) DEF ResumePrepared
    <2> QED BY <1>9, <2>1, <2>2, <2>3 DEF ResumePrepared
<1>10. CASE ResumePreserved
    <2>1. CASE SetState(cur, "Materialized") /\ Goto("observe")
        <3> HIDE DEF SetState
        <3>1. Valid(cur)'
            BY <1>10, <2>1, SetStateOnly DEF ResumePreserved
        <3>2. StepState'
            BY <1>10, <2>1, <3>1, SetStateOnly DEF ResumePreserved
        <3>3. OnePending'
            <4>1. /\ pc = "resume" /\ pc' = "observe" /\ cur' = cur
                  /\ \A i \in Attempt : Pending(i)' => Pending(i)
                BY <1>10, <2>1, SetStateOnly DEF ResumePreserved
            <4> HIDE DEF Pending
            <4> QED BY <4>1
        <3>4. AdoptedIsIndexed'
            BY <1>10, <2>1, <3>1, SetStateOnly DEF ResumePreserved
        <3>5. IndexKnown'
            BY <1>10, <2>1, <3>1, SetStateOnly DEF ResumePreserved
        <3>6. VaultKnown'
            <4>1. /\ pc' = "observe" /\ cur' = cur /\ artifact' = artifact
                  /\ \A i \in Attempt :
                        /\ Detaches(journal[i])' <=> Detaches(journal[i])
                        /\ journal'[i].state = "Unused" => journal[i].state = "Unused"
                BY <1>10, <2>1, SetStateOnly DEF ResumePreserved
            <4> HIDE DEF Detaches, Valid
            <4> QED BY <3>1, <4>1
        <3>7. RevokedQuiet'
            BY <1>10, <2>1, <3>1, SetStateOnly DEF ResumePreserved
        <3>8. AdoptedNeverUndone'
            BY <1>10, <2>1, <3>1, SetStateOnly DEF ResumePreserved
        <3>9. CommittedWasIndexed'
            BY <1>10, <2>1, <3>1, SetStateOnly DEF ResumePreserved
        <3>10. OriginalRetained'
            BY <1>10, <2>1, <3>1, SetStateOnly DEF ResumePreserved
        <3>11. RolledBackRestored'
            BY <1>10, <2>1, <3>1, SetStateOnly DEF ResumePreserved
        <3> QED BY <3>2, <3>3, <3>4, <3>5, <3>6, <3>7, <3>8, <3>9, <3>10, <3>11
    <2>2. CASE Goto("install") /\ UNCHANGED journal
        BY <1>10, <2>2 DEF ResumePreserved
    <2> QED BY <1>10, <2>1, <2>2 DEF ResumePreserved
<1>11. CASE ResumeMaterialized
    BY <1>11 DEF ResumeMaterialized
<1>12. CASE WriteStaging
    BY <1>12 DEF WriteStaging
<1>13. CASE Bind
    BY <1>13 DEF Bind
<1>14. CASE CaptureCheck
    <2>1. CASE pc' = "idle" /\ UNCHANGED journal
        BY <1>14, <2>1 DEF CaptureCheck
    <2>2. CASE pc' = "capture" /\ UNCHANGED journal
        BY <1>14, <2>2 DEF CaptureCheck
    <2>3. CASE ~Detaches(journal[cur]) /\ SetState(cur, "Preserved") /\ Goto(AfterCapture)
        <3> HIDE DEF SetState
        <3>1. Valid(cur)'
            BY <1>14, <2>3, SetStateOnly DEF CaptureCheck
        <3>2. StepState'
            BY <1>14, <2>3, <3>1, SetStateOnly DEF CaptureCheck, AfterCapture
        <3>3. OnePending'
            BY <1>14, <2>3, <3>1, SetStateOnly DEF CaptureCheck, AfterCapture
        <3>4. AdoptedIsIndexed'
            BY <1>14, <2>3, <3>1, SetStateOnly DEF CaptureCheck, AfterCapture
        <3>5. IndexKnown'
            BY <1>14, <2>3, <3>1, SetStateOnly DEF CaptureCheck, AfterCapture
        <3>6. VaultKnown'
            <4>1. /\ pc' \in {"install", "resume"} /\ cur' = cur /\ artifact' = artifact
                  /\ \A i \in Attempt :
                        /\ Detaches(journal[i])' <=> Detaches(journal[i])
                        /\ journal'[i].state = "Unused" => journal[i].state = "Unused"
                BY <1>14, <2>3, SetStateOnly DEF CaptureCheck, AfterCapture
            <4> HIDE DEF Detaches, Valid
            <4> QED BY <3>1, <4>1
        <3>7. RevokedQuiet'
            BY <1>14, <2>3, <3>1, SetStateOnly DEF CaptureCheck, AfterCapture
        <3>8. AdoptedNeverUndone'
            BY <1>14, <2>3, <3>1, SetStateOnly DEF CaptureCheck, AfterCapture
        <3>9. CommittedWasIndexed'
            BY <1>14, <2>3, <3>1, SetStateOnly, SMTT(30) DEF CaptureCheck, AfterCapture
        <3>10. OriginalRetained'
            BY <1>14, <2>3, <3>1, SetStateOnly DEF CaptureCheck, AfterCapture
        <3>11. RolledBackRestored'
            BY <1>14, <2>3, <3>1, SetStateOnly DEF CaptureCheck, AfterCapture
        <3> QED BY <3>2, <3>3, <3>4, <3>5, <3>6, <3>7, <3>8, <3>9, <3>10, <3>11
    <2> QED BY <1>14, <2>1, <2>2, <2>3 DEF CaptureCheck
<1>15. CASE CaptureMove
    <2>1. /\ StepState' /\ IndexKnown' /\ RevokedQuiet'
          /\ AdoptedNeverUndone' /\ RolledBackRestored'
        BY <1>15 DEF CaptureMove
    <2>2. OnePending'
        BY <1>15 DEF CaptureMove
    <2>3. AdoptedIsIndexed'
        BY <1>15 DEF CaptureMove
    <2>4. VaultKnown'
        BY <1>15, SMTT(30) DEF CaptureMove
    <2>5. CommittedWasIndexed'
        BY <1>15 DEF CaptureMove
    <2>6. OriginalRetained'
        BY <1>15 DEF CaptureMove
    <2> QED BY <2>1, <2>2, <2>3, <2>4, <2>5, <2>6
<1>16. CASE CaptureVerify
    <2>1. CASE pc' = "restore" /\ UNCHANGED journal
        BY <1>16, <2>1 DEF CaptureVerify
    <2>2. CASE /\ artifact[cur] = journal[cur].expected
               /\ SetState(cur, "Preserved") /\ Goto(AfterCapture)
        <3> HIDE DEF SetState
        <3>1. Valid(cur)'
            BY <1>16, <2>2, SetStateOnly DEF CaptureVerify
        <3>2. StepState'
            BY <1>16, <2>2, <3>1, SetStateOnly DEF CaptureVerify, AfterCapture
        <3>3. OnePending'
            BY <1>16, <2>2, <3>1, SetStateOnly DEF CaptureVerify, AfterCapture
        <3>4. AdoptedIsIndexed'
            BY <1>16, <2>2, <3>1, SetStateOnly DEF CaptureVerify, AfterCapture
        <3>5. IndexKnown'
            BY <1>16, <2>2, <3>1, SetStateOnly DEF CaptureVerify, AfterCapture
        <3>6. VaultKnown'
            <4>1. pc' \in {"resume", "install"} /\ cur' = cur /\ artifact' = artifact
                BY <1>16, <2>2 DEF CaptureVerify, AfterCapture
            <4>2. \A i \in Attempt :
                     /\ Detaches(journal[i])' <=> Detaches(journal[i])
                     /\ journal'[i].state = "Unused" => journal[i].state = "Unused"
                BY <1>16, <2>2, SetStateOnly DEF CaptureVerify
            <4> HIDE DEF Valid, Detaches
            <4> QED BY <3>1, <4>1, <4>2
        <3>7. RevokedQuiet'
            BY <1>16, <2>2, <3>1, SetStateOnly DEF CaptureVerify, AfterCapture
        <3>8. AdoptedNeverUndone'
            BY <1>16, <2>2, <3>1, SetStateOnly DEF CaptureVerify, AfterCapture
        <3>9. CommittedWasIndexed'
            BY <1>16, <2>2, <3>1, SetStateOnly DEF CaptureVerify, AfterCapture
        <3>10. OriginalRetained'
            BY <1>16, <2>2, <3>1, SetStateOnly DEF CaptureVerify, AfterCapture
        <3>11. RolledBackRestored'
            BY <1>16, <2>2, <3>1, SetStateOnly DEF CaptureVerify, AfterCapture
        <3> QED BY <3>2, <3>3, <3>4, <3>5, <3>6, <3>7, <3>8, <3>9, <3>10, <3>11
    <2> QED BY <1>16, <2>1, <2>2 DEF CaptureVerify
<1>17. CASE InstallCheck
    BY <1>17 DEF InstallCheck
<1>18. CASE PlaceFile
    BY <1>18 DEF PlaceFile
<1>19. CASE PlaceDirectory
    BY <1>19 DEF PlaceDirectory
<1>20. CASE PlaceNothing
    BY <1>20 DEF PlaceNothing
<1>21. CASE PlaceRefused
    BY <1>21 DEF PlaceRefused
<1>22. CASE RecordMaterialized
    BY <1>22, SMTT(30) DEF RecordMaterialized
<1>23. CASE Restore
    <2>1. /\ StepState' /\ IndexKnown' /\ RevokedQuiet'
          /\ AdoptedNeverUndone' /\ RolledBackRestored'
        BY <1>23 DEF Restore
    <2>2. OnePending'
        BY <1>23 DEF Restore
    <2>3. AdoptedIsIndexed'
        BY <1>23 DEF Restore
    <2>4. VaultKnown'
        BY <1>23 DEF Restore
    <2>5. CommittedWasIndexed'
        BY <1>23 DEF Restore
    <2>6. OriginalRetained'
        BY <1>23, SMTT(30) DEF Restore
    <2> QED BY <2>1, <2>2, <2>3, <2>4, <2>5, <2>6
<1>24. CASE Abandon
    BY <1>24 DEF Abandon
<1>25. CASE Observe
    BY <1>25 DEF Observe
<1>26. CASE Adopt
    BY <1>26 DEF Adopt
<1>27. CASE \E i \in Attempt : MarkIndexed(i)
    BY <1>27 DEF MarkIndexed, ToMark, Completes
<1>28. CASE MarkCommitted
    <2>1. /\ StepState' /\ IndexKnown' /\ RevokedQuiet'
          /\ AdoptedNeverUndone' /\ RolledBackRestored'
        BY <1>28 DEF MarkCommitted
    <2>2. OnePending'
        BY <1>28 DEF MarkCommitted
    <2>3. AdoptedIsIndexed'
        BY <1>28 DEF MarkCommitted
    <2>4. VaultKnown'
        BY <1>28 DEF MarkCommitted
    <2>5. CommittedWasIndexed'
        BY <1>28 DEF MarkCommitted
    <2>6. OriginalRetained'
        BY <1>28 DEF MarkCommitted
    <2> QED BY <2>1, <2>2, <2>3, <2>4, <2>5, <2>6
<1>29. CASE MarkDone
    BY <1>29 DEF MarkDone
<1>30. CASE RollbackSkip
    BY <1>30 DEF RollbackSkip, NothingToUndo
<1>31. CASE RollbackStart
    BY <1>31 DEF RollbackStart, CanUndo
<1>32. CASE RollbackRefuse
    BY <1>32 DEF RollbackRefuse
<1>33. CASE Withdraw
    BY <1>33 DEF Withdraw
<1>34. CASE Withdrawn
    BY <1>34 DEF Withdrawn
<1>35. CASE Reinstate
    <2>1. CASE journal[cur].expected = {}
        BY <1>35, <2>1 DEF Reinstate
    <2>2. CASE journal[cur].expected # {} /\ dest = {}
        <3>2. StepState'
            BY <1>35, <2>2 DEF Reinstate
        <3>3. OnePending'
            BY <1>35, <2>2 DEF Reinstate
        <3>4. AdoptedIsIndexed'
            BY <1>35, <2>2 DEF Reinstate
        <3>5. IndexKnown'
            BY <1>35, <2>2 DEF Reinstate
        <3>6. VaultKnown'
            <4>1. /\ pc' = "rolled" /\ cur' = cur /\ journal' = journal
                  /\ artifact'[cur] = {}
                  /\ \A i \in Attempt : artifact'[i] = artifact[i] \/ artifact'[i] = {}
                BY <1>35, <2>2 DEF Reinstate
            <4> HIDE DEF Detaches, Valid
            <4> QED BY <4>1
        <3>7. RevokedQuiet'
            BY <1>35, <2>2 DEF Reinstate
        <3>8. AdoptedNeverUndone'
            BY <1>35, <2>2 DEF Reinstate
        <3>9. CommittedWasIndexed'
            BY <1>35, <2>2 DEF Reinstate
        <3>10. OriginalRetained'
            BY <1>35, <2>2 DEF Reinstate
        <3>11. RolledBackRestored'
            BY <1>35, <2>2 DEF Reinstate
        <3> QED BY <3>2, <3>3, <3>4, <3>5, <3>6, <3>7, <3>8, <3>9, <3>10, <3>11
    <2>3. CASE journal[cur].expected # {} /\ dest # {}
        BY <1>35, <2>3 DEF Reinstate
    <2> QED BY <2>1, <2>2, <2>3
<1>36. CASE Rolled
    BY <1>36 DEF Rolled
<1>37. CASE Scan
    BY <1>37 DEF Scan, ScannedRow, Shows
<1>38. CASE EndPass
    BY <1>38 DEF EndPass
<1>39. CASE PushRejected
    BY <1>39 DEF PushRejected
<1>40. CASE \E i \in Attempt, r \in Incoming : BeginCausal(i, r)
    BY <1>40 DEF BeginCausal, Prepare, Incoming
<1>41. CASE \E i \in Attempt, d \in RemoteData : BeginPush(i, d)
    BY <1>41 DEF BeginPush, Prepare
<1>42. CASE \E d \in RemoteData : PushCurrent(d)
    BY <1>42 DEF PushCurrent
<1>43. CASE UserSave
    BY <1>43 DEF UserSave, UserStep
<1>44. CASE UserMkdir
    BY <1>44 DEF UserMkdir, UserStep
<1>45. CASE UserEdit
    BY <1>45 DEF UserEdit, UserStep
<1>46. CASE UserDelete
    BY <1>46 DEF UserDelete, UserStep
<1>47. CASE \E i \in Attempt : UserEditHeld(i)
    <2>1. PICK i \in Attempt : UserEditHeld(i)
        BY <1>47
    <2>2. UNCHANGED <<journal, idx, history, adopted, pc, cur, task, revoked, gone>>
        BY <2>1 DEF UserEditHeld, UserStep
    <2>3. \A j \in Attempt :
             /\ artifact[j] = {} <=> artifact'[j] = {}
             /\ \A o \in artifact[j] : \E p \in artifact'[j] : p.ino = o.ino
        BY <2>1, HeldKeepsIno
    <2>4. /\ StepState' /\ IndexKnown' /\ RevokedQuiet'
          /\ AdoptedNeverUndone' /\ RolledBackRestored'
        BY <2>2, <2>3
    <2>5. OnePending'
        BY <2>2, <2>3
    <2>6. AdoptedIsIndexed'
        BY <2>2, <2>3
    <2>7. VaultKnown'
        <3>1. \A j \in Attempt : Valid(j) => Valid(j)'
            BY <2>2, <2>3
        <3> HIDE DEF Valid
        <3> QED BY <2>2, <2>3, <3>1
    <2>8. CommittedWasIndexed'
        BY <2>2, <2>3
    <2>9. OriginalRetained'
        BY <2>2, <2>3
    <2> QED BY <2>4, <2>5, <2>6, <2>7, <2>8, <2>9
<1>48. CASE PlaceFault
    BY <1>48 DEF PlaceFault
<1>49. CASE Crash
    BY <1>49 DEF Crash
<1>50. CASE Revoke
    BY <1>50 DEF Revoke
<1>51. CASE RevokeReturns
    BY <1>51 DEF RevokeReturns
<1>52. CASE UNCHANGED vars
    BY <1>52 DEF vars
<1> HIDE DEF JournalInv, TypeInv
<1> QED
    BY <1>1, <1>2, <1>3, <1>4, <1>5, <1>6, <1>7, <1>8, <1>9, <1>10, <1>11, <1>12,
       <1>13, <1>14, <1>15, <1>16, <1>17, <1>18, <1>19, <1>20, <1>21, <1>22, <1>23,
       <1>24, <1>25, <1>26, <1>27, <1>28, <1>29, <1>30, <1>31, <1>32, <1>33, <1>34,
       <1>35, <1>36, <1>37, <1>38, <1>39, <1>40, <1>41, <1>42, <1>43, <1>44, <1>45,
       <1>46, <1>47, <1>48, <1>49, <1>50, <1>51, <1>52
    DEF Next, Recovery, Application, Undo, Choice, Environment

\* The journal invariant holds of an empty journal.
LEMMA JournalInit == Init => JournalInv
BY DEF Init, JournalInv, StepState, OnePending, AdoptedIsIndexed, IndexKnown, VaultKnown,
   RevokedQuiet, AdoptedNeverUndone, CommittedWasIndexed, OriginalRetained,
   RolledBackRestored, UnusedChange, NoRow, Pending, Terminal, Detaches, Valid, Applying

\* So both invariants hold in every reachable state.
LEMMA JournalAlways == Spec => [](TypeInv /\ JournalInv)
BY TypeInit, TypeStep, JournalInit, JournalStep, PTL DEF Spec

(* An attempt whose record reached the index database is never aborted or     *)
(* rolled back, whatever crash separated adoption from mark_record_indexed.   *)
THEOREM AdoptionIsFinal == Spec => []AdoptedNeverUndone
<1>1. JournalInv => AdoptedNeverUndone
    BY DEF JournalInv
<1> QED BY <1>1, JournalAlways, PTL

(* An attempt is Indexed or Committed in the journal only after the index     *)
(* held its record.                                                           *)
THEOREM CompletionIsTrue == Spec => []CommittedWasIndexed
<1>1. JournalInv => CommittedWasIndexed
    BY DEF JournalInv
<1> QED BY <1>1, JournalAlways, PTL

(* The original that an installed target displaced stays in the vault under   *)
(* its own identity.                                                          *)
THEOREM OriginalKept == Spec => []OriginalRetained
<1>1. JournalInv => OriginalRetained
    BY DEF JournalInv
<1> QED BY <1>1, JournalAlways, PTL

(* rollback_causal_change leaves nothing of the user in the vault once it     *)
(* reports RolledBack.                                                        *)
THEOREM RollbackRestores == Spec => []RolledBackRestored
<1>1. JournalInv => RolledBackRestored
    BY DEF JournalInv
<1> QED BY <1>1, JournalAlways, PTL

(* Once revoke_member has returned, neither a handler nor recovery adopts a   *)
(* record of the revoked peer.                                                *)
THEOREM RevocationIsFinal == Spec => NoAdoptionAfterRevoke
<1>1. TypeInv /\ JournalInv /\ [Next]_vars => [gone => adopted' = adopted]_vars
    <2> SUFFICES ASSUME TypeInv, JournalInv, Next, gone PROVE adopted' = adopted
        OBVIOUS
    <2>1. pc \notin Applying
        BY DEF JournalInv, RevokedQuiet
    <2>2. ~Adopt
        BY <2>1 DEF Adopt, At, Applying
    <2>3. CASE Recovery
        BY <2>3 DEF Recovery, index, Restart, StartPass, RecoverRefuse, RecoverDone,
           SweepUnbound, SweepIndexed, RecoverMark, RecoverDecide, ResumePrepared,
           ResumePreserved, ResumeMaterialized
    <2>4. CASE Application
        BY <2>2, <2>4 DEF Application, index, WriteStaging, Bind, CaptureCheck, CaptureMove,
           CaptureVerify, InstallCheck, PlaceFile, PlaceDirectory, PlaceNothing, PlaceRefused,
           RecordMaterialized, Restore, Abandon, Observe, MarkCommitted, MarkDone, MarkIndexed
    <2>5. CASE Undo
        BY <2>5 DEF Undo, index, RollbackSkip, RollbackStart, RollbackRefuse, Withdraw,
           Withdrawn, Reinstate, Rolled
    <2>6. CASE Choice
        BY <2>6 DEF Choice, index, Scan, EndPass, PushRejected, BeginCausal, BeginPush,
           PushCurrent, Prepare
    <2>7. CASE Environment
        BY <2>7 DEF Environment, index, UserStep, UserSave, UserMkdir, UserEdit, UserDelete,
           UserEditHeld, PlaceFault, Crash, Revoke, RevokeReturns
    <2> QED BY <2>3, <2>4, <2>5, <2>6, <2>7 DEF Next
<1> QED BY <1>1, JournalAlways, PTL DEF Spec, NoAdoptionAfterRevoke

-----------------------------------------------------------------------------
(* What recovery finds *)

\* Steps that move nothing and write to neither database.
Quiet == UNCHANGED <<dest, artifact, staging, journal, idx, history, clock>>

\* Quiet steps that go on with an attempt.
Onward ==
    \/ \E i \in Attempt : SweepUnbound(i) \/ RecoverMark(i) \/ RecoverDecide(i)
    \/ ResumeMaterialized \/ InstallCheck \/ PlaceNothing \/ PlaceRefused \/ PlaceFault
    \/ Observe \/ Withdrawn

\* Every step is quiet, writes one database, moves one object or is the user's.
LEMMA QuietOrNot ==
    ASSUME [Next]_vars
    PROVE  \/ /\ Quiet
              /\ pc' \notin {"stage", "bind"} \/ (pc' = pc /\ cur' = cur)
              /\ \/ pc' \in {"down", "idle", "recover", "recovered"}
                 \/ pc' = pc /\ cur' = cur
                 \/ Onward
           \/ \E i \in Attempt : SweepIndexed(i) \/ MarkIndexed(i)
           \/ ResumePrepared \/ ResumePreserved \/ Bind \/ CaptureCheck \/ CaptureVerify
           \/ RecordMaterialized \/ Abandon \/ MarkCommitted
           \/ RollbackSkip \/ RollbackStart \/ Rolled
           \/ \E i \in Attempt, r \in Incoming : BeginCausal(i, r)
           \/ \E i \in Attempt, d \in RemoteData : BeginPush(i, d)
           \/ WriteStaging \/ CaptureMove \/ PlaceFile \/ PlaceDirectory \/ Restore
           \/ Withdraw \/ Reinstate
           \/ Scan \/ Adopt \/ \E d \in RemoteData : PushCurrent(d)
           \/ UserSave \/ UserMkdir \/ UserEdit \/ UserDelete
           \/ \E i \in Attempt : UserEditHeld(i)
<1> USE DEF Quiet, Onward, store, env, index, proc, Goto, Return, Fail
<1>1. CASE Recovery
    BY <1>1 DEF Recovery, Restart, StartPass, RecoverRefuse, RecoverDone, SweepUnbound,
       RecoverMark, RecoverDecide, ResumeMaterialized
<1>2. CASE Application
    BY <1>2 DEF Application, InstallCheck, PlaceNothing, PlaceRefused, Observe, MarkDone
<1>3. CASE Undo
    BY <1>3 DEF Undo, RollbackRefuse, Withdrawn
<1>4. CASE Choice
    BY <1>4 DEF Choice, EndPass, PushRejected
<1>5. CASE Environment
    BY <1>5 DEF Environment, PlaceFault, Crash, Revoke, RevokeReturns
<1>6. CASE UNCHANGED vars
    BY <1>6 DEF vars
<1> QED BY <1>1, <1>2, <1>3, <1>4, <1>5, <1>6 DEF Next

\* While a bound attempt is unsettled the index row is the one it was prepared
\* against, or the target once the object is installed.
IndexBetween ==
    /\ \A i \in Attempt : Pending(i) =>
          \/ idx = journal[i].pre /\ journal[i].state # "Indexed"
          \/ idx = journal[i].record /\ journal[i].state \in {"Materialized", "Indexed"}
    /\ pc \in {"stage", "bind"} => idx = journal[cur].pre

\* A captured original is in the vault until abort_path_change has restored it.
VaultIntact ==
    \A i \in Attempt : (journal[i].state = "Preserved" /\ Detaches(journal[i])) =>
        artifact[i] = {} \/ SameIno(artifact[i], journal[i].expected)

BetweenInv == IndexBetween /\ VaultIntact

\* What the two parts ask of an attempt, its new state s included.
Fits(i, s) ==
    /\ (journal[i].bound /\ s \notin Terminal) =>
          \/ idx = journal[i].pre /\ s # "Indexed"
          \/ idx = journal[i].record /\ s \in {"Materialized", "Indexed"}
    /\ (s = "Preserved" /\ Detaches(journal[i])) =>
          artifact[i] = {} \/ SameIno(artifact[i], journal[i].expected)

\* The invariant is that every attempt fits its own state.
LEMMA BetweenByAttempt ==
    BetweenInv <=> /\ \A i \in Attempt : Fits(i, journal[i].state)
                   /\ pc \in {"stage", "bind"} => idx = journal[cur].pre
BY DEF BetweenInv, IndexBetween, VaultIntact, Fits, Pending

\* A put_change of a state that fits keeps the invariant.
LEMMA BetweenSetState ==
    ASSUME TypeInv, BetweenInv, NEW i \in Attempt, NEW s, SetState(i, s), Fits(i, s),
           UNCHANGED <<idx, artifact>>, pc' \notin {"stage", "bind"}
    PROVE  BetweenInv'
<1>1. journal \in [Attempt -> PathChange]
    BY DEF TypeInv, TypeOK
<1>2. \A j \in Attempt : Fits(j, journal[j].state)
    BY BetweenByAttempt
<1>3. ASSUME NEW j \in Attempt, j # i
      PROVE  Fits(j, journal[j].state)'
    <2>1. journal'[j] = journal[j]
        BY <1>1, <1>3, SetStateOnly
    <2>2. Fits(j, journal[j].state)
        BY <1>2
    <2> QED BY <2>1, <2>2 DEF Fits, Detaches, SameIno
<1>4. Fits(i, journal[i].state)'
    BY <1>1, SetStateOnly DEF Fits, Detaches, SameIno
<1>5. \A j \in Attempt : Fits(j, journal[j].state)'
    BY <1>3, <1>4
<1> QED BY <1>5 DEF BetweenInv, IndexBetween, VaultIntact, Fits, Pending

\* No step takes the index row away from an unsettled attempt.
LEMMA BetweenStep ==
    TypeInv /\ JournalInv /\ BetweenInv /\ [Next]_vars => BetweenInv'
<1> SUFFICES ASSUME TypeInv, JournalInv, BetweenInv, [Next]_vars PROVE BetweenInv'
    OBVIOUS
<1> USE DEF TypeInv, TypeOK, Working, Resting, PathChange, At, Goto, Return, Fail, proc,
        Pending, Terminal, JournalInv, StepState, OnePending, AdoptedIsIndexed, Applying,
        BetweenInv, IndexBetween, VaultIntact
<1>1. CASE Quiet /\ (pc' \notin {"stage", "bind"} \/ (pc' = pc /\ cur' = cur))
    BY <1>1 DEF Quiet, Detaches, SameIno
<1>2. CASE \E i \in Attempt : SweepIndexed(i)
    <2>1. PICK i \in Attempt : SweepIndexed(i)
        BY <1>2
    <2>2. Fits(i, "Committed") /\ pc' = "recover"
        BY <2>1 DEF SweepIndexed, Fits
    <2> QED BY <2>1, <2>2, BetweenSetState DEF SweepIndexed, index
<1>3. CASE \E i \in Attempt : MarkIndexed(i)
    <2>1. PICK i \in Attempt : MarkIndexed(i)
        BY <1>3
    <2>2. SetState(i, "Indexed") /\ Fits(i, "Indexed")
        BY <2>1 DEF MarkIndexed, ToMark, Completes, Fits
    <2> QED BY <2>1, <2>2, BetweenSetState DEF MarkIndexed, index
<1>4. CASE ResumePrepared
    <2>1. CASE UNCHANGED journal
        BY <1>4, <2>1 DEF ResumePrepared, index, Detaches, SameIno
    <2>2. CASE artifact[cur] # {} /\ artifact[cur] = journal[cur].expected
               /\ SetState(cur, "Preserved")
        <3>1. cur \in Attempt /\ Fits(cur, "Preserved")
            BY <1>4, <2>2 DEF ResumePrepared, Fits, SameIno, BetweenInv
        <3> QED BY <1>4, <2>2, <3>1, BetweenSetState DEF ResumePrepared, index
    <2> QED BY <1>4, <2>1, <2>2 DEF ResumePrepared
<1>5. CASE ResumePreserved
    <2>1. CASE UNCHANGED journal
        BY <1>5, <2>1 DEF ResumePreserved, index, Detaches, SameIno
    <2>2. CASE SetState(cur, "Materialized") /\ Goto("observe")
        <3>1. cur \in Attempt /\ Fits(cur, "Materialized")
            BY <1>5, <2>2 DEF ResumePreserved, Fits
        <3> QED BY <1>5, <2>2, <3>1, BetweenSetState DEF ResumePreserved, index
    <2> QED BY <1>5, <2>1, <2>2 DEF ResumePreserved
<1>6. CASE Bind
    <2>1. /\ cur \in Attempt /\ journal[cur].state = "Prepared" /\ idx = journal[cur].pre
          /\ UNCHANGED <<idx, artifact>> /\ pc' = "check"
          /\ journal'[cur].state = "Prepared" /\ journal'[cur].pre = journal[cur].pre
          /\ \A j \in Attempt : j # cur => journal'[j] = journal[j]
        BY <1>6 DEF Bind, index
    <2> QED BY <2>1 DEF Detaches, SameIno
<1>7. CASE CaptureCheck
    <2>1. CASE UNCHANGED journal
        BY <1>7, <2>1 DEF CaptureCheck, AfterCapture, index, Detaches, SameIno
    <2>2. CASE ~Detaches(journal[cur]) /\ SetState(cur, "Preserved") /\ Goto(AfterCapture)
        <3>1. cur \in Attempt /\ Fits(cur, "Preserved")
            BY <1>7, <2>2 DEF CaptureCheck, Fits
        <3> QED BY <1>7, <2>2, <3>1, BetweenSetState DEF CaptureCheck, AfterCapture, index
    <2> QED BY <1>7, <2>1, <2>2 DEF CaptureCheck
<1>8. CASE CaptureVerify
    <2>1. CASE UNCHANGED journal
        BY <1>8, <2>1 DEF CaptureVerify, AfterCapture, index, Detaches, SameIno
    <2>2. CASE artifact[cur] = journal[cur].expected /\ SetState(cur, "Preserved")
               /\ Goto(AfterCapture)
        <3>1. cur \in Attempt /\ Fits(cur, "Preserved")
            BY <1>8, <2>2 DEF CaptureVerify, Fits, SameIno
        <3> QED BY <1>8, <2>2, <3>1, BetweenSetState DEF CaptureVerify, AfterCapture, index
    <2> QED BY <1>8, <2>1, <2>2 DEF CaptureVerify
<1>9. CASE RecordMaterialized
    <2>1. cur \in Attempt /\ SetState(cur, "Materialized") /\ Fits(cur, "Materialized")
        BY <1>9 DEF RecordMaterialized, Fits
    <2> QED BY <1>9, <2>1, BetweenSetState DEF RecordMaterialized, index
<1>10. CASE Abandon
    <2>1. cur \in Attempt /\ SetState(cur, "Aborted") /\ Fits(cur, "Aborted")
        BY <1>10 DEF Abandon, Fits
    <2> QED BY <1>10, <2>1, BetweenSetState DEF Abandon, index
<1>11. CASE MarkCommitted
    <2>1. cur \in Attempt /\ SetState(cur, "Committed") /\ Fits(cur, "Committed")
        BY <1>11 DEF MarkCommitted, Fits
    <2> QED BY <1>11, <2>1, BetweenSetState DEF MarkCommitted, index
<1>12. CASE RollbackSkip
    <2>1. cur \in Attempt /\ SetState(cur, "RolledBack") /\ Fits(cur, "RolledBack")
        BY <1>12 DEF RollbackSkip, Fits
    <2> QED BY <1>12, <2>1, BetweenSetState DEF RollbackSkip, index
<1>13. CASE RollbackStart
    <2>1. cur \in Attempt /\ SetState(cur, "RollingBack") /\ Fits(cur, "RollingBack")
        BY <1>13 DEF RollbackStart, Fits
    <2> QED BY <1>13, <2>1, BetweenSetState DEF RollbackStart, index
<1>14. CASE Rolled
    <2>1. cur \in Attempt /\ SetState(cur, "RolledBack") /\ Fits(cur, "RolledBack")
        BY <1>14 DEF Rolled, Fits
    <2> QED BY <1>14, <2>1, BetweenSetState DEF Rolled, index
<1>15. CASE \E i \in Attempt, r \in Incoming : BeginCausal(i, r)
    <2>1. PICK i \in Attempt, r \in Row : Prepare(i, r)
        BY <1>15, IncomingType DEF BeginCausal
    <2>2. /\ journal'[i].state = "Prepared" /\ journal'[i].pre = idx /\ ~journal'[i].bound
          /\ \A j \in Attempt : j # i => journal'[j] = journal[j]
          /\ UNCHANGED <<idx, artifact>> /\ cur' = i
        BY <2>1 DEF Prepare, index
    <2>3. ASSUME NEW j \in Attempt PROVE Fits(j, journal[j].state)'
        <3>1. Fits(j, journal[j].state)
            BY BetweenByAttempt
        <3> QED BY <2>2, <3>1 DEF Fits, Detaches, SameIno
    <2> QED BY <2>2, <2>3, BetweenByAttempt DEF Fits
<1>16. CASE \E i \in Attempt, d \in RemoteData : BeginPush(i, d)
    <2>1. PICK i \in Attempt, r \in Row : Prepare(i, r)
        BY <1>16, PushedType DEF BeginPush
    <2>2. /\ journal'[i].state = "Prepared" /\ journal'[i].pre = idx /\ ~journal'[i].bound
          /\ \A j \in Attempt : j # i => journal'[j] = journal[j]
          /\ UNCHANGED <<idx, artifact>> /\ cur' = i
        BY <2>1 DEF Prepare, index
    <2>3. ASSUME NEW j \in Attempt PROVE Fits(j, journal[j].state)'
        <3>1. Fits(j, journal[j].state)
            BY BetweenByAttempt
        <3> QED BY <2>2, <3>1 DEF Fits, Detaches, SameIno
    <2> QED BY <2>2, <2>3, BetweenByAttempt DEF Fits
<1>17. CASE WriteStaging
    BY <1>17 DEF WriteStaging, index, Detaches, SameIno
<1>18. CASE CaptureMove
    <2>1. CASE UNCHANGED artifact
        BY <1>18, <2>1 DEF CaptureMove, index, Detaches, SameIno
    <2>2. CASE artifact' = [artifact EXCEPT ![cur] = dest] /\ Goto("verify")
        <3>1. /\ journal[cur].state = "Prepared" /\ UNCHANGED <<journal, idx>> /\ pc' = "verify"
              /\ \A j \in Attempt : j # cur => artifact'[j] = artifact[j]
            BY <1>18, <2>2 DEF CaptureMove, index
        <3> QED BY <3>1 DEF Detaches, SameIno
    <2> QED BY <1>18, <2>1, <2>2 DEF CaptureMove
<1>19. CASE PlaceFile
    BY <1>19 DEF PlaceFile, index, Detaches, SameIno
<1>20. CASE PlaceDirectory
    BY <1>20 DEF PlaceDirectory, store, index, Detaches, SameIno
<1>21. CASE Restore
    BY <1>21 DEF Restore, index, Detaches, SameIno
<1>22. CASE Withdraw
    BY <1>22 DEF Withdraw, index, Detaches, SameIno
<1>23. CASE Reinstate
    BY <1>23 DEF Reinstate, index, Detaches, SameIno
<1>24. CASE Scan
    BY <1>24 DEF Scan, store, Detaches, SameIno
<1>25. CASE Adopt
    BY <1>25 DEF Adopt, store, Detaches, SameIno
<1>26. CASE \E d \in RemoteData : PushCurrent(d)
    BY <1>26 DEF PushCurrent, store, Detaches, SameIno
<1>27. CASE UserSave \/ UserMkdir \/ UserEdit \/ UserDelete
    BY <1>27 DEF UserSave, UserMkdir, UserEdit, UserDelete, UserStep, index, Detaches, SameIno
<1>28. CASE \E i \in Attempt : UserEditHeld(i)
    <2>1. PICK i \in Attempt : UserEditHeld(i)
        BY <1>28
    <2>2. UNCHANGED <<journal, idx, pc, cur>>
        BY <2>1 DEF UserEditHeld, UserStep, index
    <2>3. \A j \in Attempt :
             /\ artifact[j] = {} <=> artifact'[j] = {}
             /\ \A o \in artifact[j] : \E p \in artifact'[j] : p.ino = o.ino
        BY <2>1, HeldKeepsIno
    <2> QED BY <2>2, <2>3 DEF Detaches, SameIno
<1> QED
    BY QuietOrNot, <1>1, <1>2, <1>3, <1>4, <1>5, <1>6, <1>7, <1>8, <1>9, <1>10, <1>11,
       <1>12, <1>13, <1>14, <1>15, <1>16, <1>17, <1>18, <1>19, <1>20, <1>21, <1>22,
       <1>23, <1>24, <1>25, <1>26, <1>27, <1>28

\* So it holds together with the journal invariant in every reachable state.
LEMMA BetweenAlways == Spec => [](TypeInv /\ JournalInv /\ BetweenInv)
<1>1. Init => BetweenInv
    BY DEF Init, BetweenInv, IndexBetween, VaultIntact, Pending, UnusedChange
<1> QED BY <1>1, TypeInit, TypeStep, JournalInit, JournalStep, BetweenStep, PTL DEF Spec

\* The two ways a journal gets into a state that recovery refuses: the process
\* stopped after abort_path_change had restored a captured original and before
\* the attempt was recorded as Aborted; or a record equal to the index row was
\* being applied again.
RefusalCauses ==
    At("recover") => \A i \in Attempt : Refuses(i) =>
        \/ journal[i].state = "Preserved" /\ Detaches(journal[i]) /\ artifact[i] = {}
        \/ Pending(i) /\ journal[i].record = journal[i].pre

\* Whatever interrupts the program, recovery (recover_causal_index_with) can
\* go on with every journal it finds but those two, for every protocol, user,
\* fault and crash.
THEOREM RefusalsKnown == Spec => []RefusalCauses
<1>1. TypeInv /\ JournalInv /\ BetweenInv => RefusalCauses
    <2> SUFFICES ASSUME TypeInv, JournalInv, BetweenInv, NEW i \in Attempt, Refuses(i)
                 PROVE  \/ /\ journal[i].state = "Preserved" /\ Detaches(journal[i])
                           /\ artifact[i] = {}
                        \/ Pending(i) /\ journal[i].record = journal[i].pre
        BY DEF RefusalCauses
    <2>1. CASE ~Valid(i)
        BY <2>1 DEF Valid, SameIno, JournalInv, OriginalRetained, BetweenInv, VaultIntact
    <2>2. CASE Valid(i)
        BY <2>2 DEF Refuses, SweepDone, BetweenInv, IndexBetween
    <2> QED BY <2>1, <2>2
<1> QED BY <1>1, BetweenAlways, PTL

-----------------------------------------------------------------------------
(* Identities of objects *)

\* The objects existed before the clock's next identity is given out.
Older(l) == \A o \in l : o.ino < clock

\* The object is the one attempt i brings, not the one it displaces.
Brought(i, o) ==
    /\ o.kind = "file" /\ journal[i].record.kind = "file" /\ o.data = journal[i].record.data
    /\ \A e \in journal[i].expected : e.ino # o.ino

\* What is known of the objects attempt i has moved, staged or looked at.
Aged(i) ==
    /\ Older(artifact[i]) /\ Older(staging[i]) /\ Older(journal[i].expected)
    /\ \A o \in staging[i] : Brought(i, o)
    /\ journal[i].state = "Unused" => staging[i] = {}

IdentityInv ==
    /\ Older(dest)
    /\ \A i \in Attempt : Aged(i)
    /\ pc = "stage" => journal[cur].record.kind = "file"

\* An attempt whose objects stay where they are stays aged.
LEMMA AgedFrame ==
    ASSUME TypeInv, NEW i \in Attempt, Aged(i), clock' \in {clock, clock + 1},
           artifact'[i] = artifact[i], staging'[i] = staging[i],
           journal'[i].expected = journal[i].expected, journal'[i].record = journal[i].record,
           journal'[i].state = "Unused" => journal[i].state = "Unused"
    PROVE  Aged(i)'
<1>1. /\ artifact[i] \subseteq Obj /\ staging[i] \subseteq Obj
      /\ journal[i].expected \subseteq Obj /\ clock \in Nat
    BY DEF TypeInv, TypeOK, Location, PathChange
<1>2. \A o \in Obj : o.ino \in Nat
    BY DEF Obj
<1> QED BY <1>1, <1>2 DEF Aged, Older, Brought

\* Objects do not grow younger.
LEMMA OlderStays ==
    ASSUME TypeInv, NEW l \in Location, Older(l), clock' \in {clock, clock + 1}
    PROVE  \A o \in l : o.ino < clock'
BY DEF TypeInv, TypeOK, Location, Older, Obj

\* put_change of a state keeps the identities.
LEMMA IdentitySetState ==
    ASSUME TypeInv, IdentityInv, NEW i \in Attempt, NEW s, s # "Unused", SetState(i, s),
           UNCHANGED <<dest, artifact, staging, clock>>, pc' # "stage"
    PROVE  IdentityInv'
<1>1. \A j \in Attempt : Aged(j)'
    BY AgedFrame, SetStateOnly DEF IdentityInv, TypeInv, TypeOK
<1>2. Older(dest)'
    BY DEF IdentityInv, Older
<1> QED BY <1>1, <1>2 DEF IdentityInv

\* An attempt that is prepared looks at what is there, and has staged nothing.
LEMMA IdentityPrepare ==
    ASSUME TypeInv, IdentityInv, NEW i \in Attempt, NEW r \in Row, Prepare(i, r)
    PROVE  IdentityInv'
<1>1. /\ journal'[i].expected = dest /\ journal'[i].state = "Prepared" /\ journal'[i].record = r
      /\ \A j \in Attempt : j # i => journal'[j] = journal[j]
      /\ UNCHANGED <<dest, artifact, staging, clock>> /\ cur' = i
      /\ pc' = "stage" => r.kind = "file"
      /\ journal[i].state = "Unused"
    BY DEF Prepare, TypeInv, TypeOK
<1>2. \A j \in Attempt : j # i => Aged(j)'
    BY <1>1, AgedFrame DEF IdentityInv
<1>3. Aged(i)'
    BY <1>1 DEF IdentityInv, Aged, Older, Brought
<1> QED BY <1>1, <1>2, <1>3 DEF IdentityInv, Older

\* Renames keep identities, and every new object gets a new one.
LEMMA IdentityStep ==
    TypeInv /\ JournalInv /\ IdentityInv /\ [Next]_vars => IdentityInv'
<1> SUFFICES ASSUME TypeInv, JournalInv, IdentityInv, [Next]_vars PROVE IdentityInv'
    OBVIOUS
<1> USE DEF TypeInv, TypeOK, Working, Resting, At, Goto, Return, Fail, proc, index, env
<1>1. CASE Quiet /\ (pc' # "stage" \/ (pc' = pc /\ cur' = cur))
    BY <1>1 DEF Quiet, IdentityInv, Aged, Older, Brought
<1>2. CASE \E i \in Attempt : SweepIndexed(i)
    BY <1>2, IdentitySetState DEF SweepIndexed
<1>3. CASE \E i \in Attempt : MarkIndexed(i)
    BY <1>3, IdentitySetState DEF MarkIndexed
<1>4. CASE ResumePrepared
    <2>1. CASE UNCHANGED journal
        BY <1>4, <2>1 DEF ResumePrepared, IdentityInv, Aged, Older, Brought
    <2>2. CASE SetState(cur, "Preserved") /\ UNCHANGED proc
        BY <1>4, <2>2, IdentitySetState DEF ResumePrepared
    <2> QED BY <1>4, <2>1, <2>2 DEF ResumePrepared
<1>5. CASE ResumePreserved
    <2>1. CASE UNCHANGED journal
        BY <1>5, <2>1 DEF ResumePreserved, IdentityInv, Aged, Older, Brought
    <2>2. CASE SetState(cur, "Materialized") /\ Goto("observe")
        BY <1>5, <2>2, IdentitySetState DEF ResumePreserved
    <2> QED BY <1>5, <2>1, <2>2 DEF ResumePreserved
<1>6. CASE Bind
    <2>1. /\ cur \in Attempt /\ pc' = "check" /\ UNCHANGED <<dest, artifact, staging, clock>>
          /\ \A j \in Attempt : /\ journal'[j].expected = journal[j].expected
                                /\ journal'[j].record = journal[j].record
                                /\ journal'[j].state = journal[j].state
        BY <1>6 DEF Bind, PathChange
    <2> QED BY <2>1, AgedFrame DEF IdentityInv, Older
<1>7. CASE CaptureCheck
    <2>1. CASE UNCHANGED journal
        BY <1>7, <2>1 DEF CaptureCheck, AfterCapture, IdentityInv, Aged, Older, Brought
    <2>2. CASE SetState(cur, "Preserved") /\ Goto(AfterCapture)
        BY <1>7, <2>2, IdentitySetState DEF CaptureCheck, AfterCapture
    <2> QED BY <1>7, <2>1, <2>2 DEF CaptureCheck
<1>8. CASE CaptureVerify
    <2>1. CASE UNCHANGED journal
        BY <1>8, <2>1 DEF CaptureVerify, AfterCapture, IdentityInv, Aged, Older, Brought
    <2>2. CASE SetState(cur, "Preserved") /\ Goto(AfterCapture)
        BY <1>8, <2>2, IdentitySetState DEF CaptureVerify, AfterCapture
    <2> QED BY <1>8, <2>1, <2>2 DEF CaptureVerify
<1>9. CASE RecordMaterialized
    BY <1>9, IdentitySetState DEF RecordMaterialized
<1>10. CASE Abandon
    BY <1>10, IdentitySetState DEF Abandon
<1>11. CASE MarkCommitted
    BY <1>11, IdentitySetState DEF MarkCommitted
<1>12. CASE RollbackSkip
    BY <1>12, IdentitySetState DEF RollbackSkip
<1>13. CASE RollbackStart
    BY <1>13, IdentitySetState DEF RollbackStart
<1>14. CASE Rolled
    BY <1>14, IdentitySetState DEF Rolled
<1>15. CASE \E i \in Attempt, r \in Incoming : BeginCausal(i, r)
    BY <1>15, IdentityPrepare, IncomingType DEF BeginCausal
<1>16. CASE \E i \in Attempt, d \in RemoteData : BeginPush(i, d)
    BY <1>16, IdentityPrepare, PushedType DEF BeginPush
<1>17. CASE WriteStaging
    <2>1. /\ cur \in Attempt /\ clock \in Nat /\ clock' = clock + 1 /\ pc' # "stage" /\ cur' = cur
          /\ UNCHANGED <<dest, artifact, journal>> /\ journal[cur].record.kind = "file"
          /\ \A j \in Attempt : j # cur => staging'[j] = staging[j]
          /\ staging'[cur] =
                {[ino |-> clock, kind |-> "file", data |-> journal[cur].record.data]}
          /\ journal[cur].state = "Prepared"
        BY <1>17 DEF WriteStaging, IdentityInv, JournalInv, StepState
    <2>2. \A j \in Attempt : j # cur => Aged(j)'
        BY <2>1, AgedFrame DEF IdentityInv
    <2>3. /\ \A o \in artifact[cur] : o.ino < clock'
          /\ \A o \in journal[cur].expected : o.ino < clock'
          /\ \A o \in dest : o.ino < clock'
        BY <2>1, OlderStays DEF IdentityInv, Aged, PathChange, Location
    <2>4. Aged(cur)'
        <3>1. \A e \in journal[cur].expected : e.ino # clock
            BY <2>1 DEF IdentityInv, Aged, Older
        <3>2. /\ Older(artifact[cur])' /\ Older(journal[cur].expected)'
              /\ Older(staging[cur])'
            BY <2>1, <2>3 DEF Older
        <3>3. \A o \in staging'[cur] : Brought(cur, o)'
            BY <2>1, <3>1 DEF Brought
        <3> QED BY <2>1, <3>2, <3>3 DEF Aged
    <2> QED BY <2>1, <2>2, <2>3, <2>4 DEF IdentityInv, Older
<1>18. CASE CaptureMove
    <2>1. /\ \A j \in Attempt : artifact'[j] = artifact[j] \/ (j = cur /\ artifact'[j] = dest)
          /\ (dest' = dest \/ dest' = {})
          /\ UNCHANGED <<staging, journal, clock>> /\ pc' # "stage"
        BY <1>18 DEF CaptureMove
    <2> QED BY <2>1 DEF IdentityInv, Aged, Older, Brought
<1>19. CASE PlaceFile
    <2>1. /\ \A j \in Attempt : staging'[j] = staging[j] \/ staging'[j] = {}
          /\ dest' = staging[cur] /\ cur \in Attempt
          /\ UNCHANGED <<artifact, journal, clock>> /\ pc' # "stage"
        BY <1>19 DEF PlaceFile
    <2> QED BY <2>1 DEF IdentityInv, Aged, Older, Brought
<1>20. CASE PlaceDirectory
    <2>1. /\ clock' = clock + 1 /\ UNCHANGED <<artifact, staging, journal>> /\ pc' # "stage"
          /\ dest' = {[ino |-> clock, kind |-> "dir", data |-> NoData]}
        BY <1>20 DEF PlaceDirectory, store
    <2>2. \A j \in Attempt : Aged(j)'
        BY <2>1, AgedFrame DEF IdentityInv
    <2> QED BY <2>1, <2>2 DEF IdentityInv, Older
<1>21. CASE Restore
    <2>1. /\ \A j \in Attempt : artifact'[j] = artifact[j] \/ artifact'[j] = {}
          /\ (dest' = dest \/ dest' = artifact[cur]) /\ cur \in Attempt
          /\ UNCHANGED <<staging, journal, clock>> /\ pc' # "stage"
        BY <1>21 DEF Restore
    <2> QED BY <2>1 DEF IdentityInv, Aged, Older, Brought
<1>22. CASE Withdraw
    <2>1. /\ UNCHANGED <<artifact, staging, journal, clock>> /\ pc' # "stage"
          /\ (dest' = dest \/ dest' = {})
        BY <1>22 DEF Withdraw
    <2> QED BY <2>1 DEF IdentityInv, Aged, Older, Brought
<1>23. CASE Reinstate
    <2>1. /\ \A j \in Attempt : artifact'[j] = artifact[j] \/ artifact'[j] = {}
          /\ (dest' = dest \/ dest' = artifact[cur]) /\ cur \in Attempt
          /\ UNCHANGED <<staging, journal, clock>> /\ pc' # "stage"
        BY <1>23 DEF Reinstate
    <2> QED BY <2>1 DEF IdentityInv, Aged, Older, Brought
<1>24. CASE Scan
    BY <1>24 DEF Scan, store, IdentityInv, Aged, Older, Brought
<1>25. CASE Adopt
    BY <1>25 DEF Adopt, store, IdentityInv, Aged, Older, Brought
<1>26. CASE \E d \in RemoteData : PushCurrent(d)
    BY <1>26 DEF PushCurrent, store, IdentityInv, Aged, Older, Brought
<1>27. CASE UserSave \/ UserMkdir \/ UserEdit \/ UserDelete
    <2>1. /\ clock' = clock + 1 /\ UNCHANGED <<artifact, staging, journal, pc, cur>>
        BY <1>27 DEF UserSave, UserMkdir, UserEdit, UserDelete, UserStep
    <2>2. \A j \in Attempt : Aged(j)'
        BY <2>1, AgedFrame DEF IdentityInv
    <2>3. \A o \in dest' : o.ino = clock \/ \E p \in dest : p.ino = o.ino
        BY <1>27 DEF UserSave, UserMkdir, UserEdit, UserDelete, Location, Obj
    <2> QED BY <2>1, <2>2, <2>3, OlderStays DEF IdentityInv, Older
<1>28. CASE \E i \in Attempt : UserEditHeld(i)
    <2>1. PICK i \in Attempt : UserEditHeld(i)
        BY <1>28
    <2>2. /\ clock' = clock + 1 /\ UNCHANGED <<dest, staging, journal, pc, cur>>
          /\ \A j \in Attempt : j # i => artifact'[j] = artifact[j]
          /\ artifact'[i] = {[o EXCEPT !.data = Fresh] : o \in artifact[i]}
        BY <2>1 DEF UserEditHeld, UserStep
    <2>3. \A j \in Attempt : j # i => Aged(j)'
        BY <2>2, AgedFrame DEF IdentityInv
    <2>4. /\ \A o \in artifact[i] : o.ino < clock'
          /\ \A o \in staging[i] : o.ino < clock'
          /\ \A o \in journal[i].expected : o.ino < clock'
          /\ \A o \in dest : o.ino < clock'
        BY <2>2, OlderStays DEF IdentityInv, Aged, PathChange, Location
    <2>5. \A o \in artifact'[i] : \E p \in artifact[i] : p.ino = o.ino
        BY <2>2 DEF Location, Obj
    <2>6. Aged(i)'
        BY <2>2, <2>4, <2>5 DEF IdentityInv, Aged, Older, Brought
    <2> QED BY <2>2, <2>3, <2>4, <2>6 DEF IdentityInv, Older
<1> QED
    BY QuietOrNot, <1>1, <1>2, <1>3, <1>4, <1>5, <1>6, <1>7, <1>8, <1>9, <1>10, <1>11,
       <1>12, <1>13, <1>14, <1>15, <1>16, <1>17, <1>18, <1>19, <1>20, <1>21, <1>22,
       <1>23, <1>24, <1>25, <1>26, <1>27, <1>28

\* So identities are sound in every reachable state.
LEMMA IdentityAlways == Spec => [](TypeInv /\ JournalInv /\ BetweenInv /\ IdentityInv)
<1>1. Init => IdentityInv
    BY DEF Init, IdentityInv, Aged, Older, UnusedChange
<1> QED BY <1>1, TypeInit, TypeStep, JournalInit, JournalStep, IdentityStep, BetweenAlways,
           PTL DEF Spec

-----------------------------------------------------------------------------
(* Attempts of the v2 protocol *)

\* Content that came from a peer is in files only.
Files(l) == \A o \in l : o.data.by = "remote" => o.kind = "file"

\* Every attempt is prepared on a path that shows its index row, is bound
\* before it captures anything, and is metadata-only for directories alone.
Causal(i) ==
    LET c == journal[i] IN
    /\ c.record.by # "push"
    /\ ~c.bound => c.state \in {"Unused", "Prepared", "Aborted"} /\ artifact[i] = {}
    /\ c.metaOnly => IsDir(c.expected) /\ c.record.kind = "dir"
    /\ c.state # "Unused" => Shows(c.expected, c.pre)
    /\ Files(artifact[i]) /\ Files(c.expected)

\* Steps at which the attempt in hand may have no binding.
MaybeUnbound == Resting \cup {"stage", "bind", "restore", "abandon"}

CausalInv ==
    /\ idx.by # "push" /\ Files(dest)
    /\ \A i \in Attempt : Causal(i)
    /\ pc \notin MaybeUnbound => journal[cur].bound
    /\ pc \in {"stage", "bind"} => ~journal[cur].bound

\* put_change of a state keeps a causal attempt causal.
LEMMA CausalSetState ==
    ASSUME TypeInv, CausalInv, NEW i \in Attempt, NEW s, SetState(i, s),
           UNCHANGED <<dest, artifact, idx>>, s # "Unused", journal[i].state # "Unused",
           journal[i].bound \/ s = "Aborted",
           pc' \in MaybeUnbound \ {"stage", "bind"} \/ (cur' = i /\ journal[i].bound
                                     /\ pc' \notin {"stage", "bind"})
    PROVE  CausalInv'
<1>1. journal \in [Attempt -> PathChange]
    BY DEF TypeInv, TypeOK
<1>2. ASSUME NEW j \in Attempt, j # i PROVE Causal(j)'
    <2>1. journal'[j] = journal[j]
        BY <1>1, <1>2, SetStateOnly
    <2>2. Causal(j)
        BY DEF CausalInv
    <2> QED BY <2>1, <2>2 DEF Causal, Files, IsDir, Shows, Matches
<1>3. Causal(i)'
    <2>1. Causal(i)
        BY DEF CausalInv
    <2>2. /\ journal'[i].state = s /\ journal'[i].expected = journal[i].expected
          /\ journal'[i].record = journal[i].record /\ journal'[i].pre = journal[i].pre
          /\ journal'[i].bound = journal[i].bound /\ journal'[i].metaOnly = journal[i].metaOnly
        BY <1>1, SetStateOnly
    <2> QED BY <2>1, <2>2 DEF Causal, Files, IsDir, Shows, Matches
<1>4. \A j \in Attempt : Causal(j)'
    BY <1>2, <1>3
<1>5. journal'[i].bound = journal[i].bound
    BY <1>1, SetStateOnly
<1> QED BY <1>4, <1>5 DEF CausalInv, Files, MaybeUnbound

\* Steps that do not touch journal or index keep it, if the files they move
\* are files.
LEMMA CausalFrame ==
    ASSUME CausalInv, UNCHANGED <<journal, idx>>, Files(dest)',
           \A i \in Attempt : Files(artifact[i])' /\ (~journal[i].bound => artifact'[i] = {}),
           pc' \in MaybeUnbound \ {"stage", "bind"} \/ (cur' = cur /\ journal[cur].bound
                                     /\ pc' \notin {"stage", "bind"})
             \/ (cur' = cur /\ pc' = pc)
    PROVE  CausalInv'
<1>1. ASSUME NEW i \in Attempt PROVE Causal(i)'
    <2>1. Causal(i)
        BY DEF CausalInv
    <2> QED BY <2>1 DEF Causal, Files, IsDir, Shows, Matches
<1> QED BY <1>1 DEF CausalInv, MaybeUnbound

\* Without the v1 protocol every step keeps attempts causal.
LEMMA CausalStep ==
    ASSUME ~PushV1
    PROVE  TypeInv /\ TypeInv' /\ JournalInv /\ IdentityInv /\ CausalInv /\ [Next]_vars => CausalInv'
<1> SUFFICES ASSUME TypeInv, TypeInv', JournalInv, IdentityInv, CausalInv, [Next]_vars
             PROVE  CausalInv'
    OBVIOUS
<1>a. /\ journal \in [Attempt -> PathChange] /\ artifact \in [Attempt -> Location]
      /\ pc \notin Resting => cur \in Attempt
    BY DEF TypeInv, TypeOK, Working
<1>b. /\ Files(dest)
      /\ \A i \in Attempt : /\ Causal(i) /\ Files(artifact[i])
                            /\ ~journal[i].bound => artifact[i] = {}
    BY DEF CausalInv, Causal
<1>c. /\ pc \notin MaybeUnbound => journal[cur].bound
      /\ pc \in {"stage", "bind"} => ~journal[cur].bound
    BY DEF CausalInv
<1> USE DEF At, Goto, Return, Fail, proc, index, env, Resting, MaybeUnbound
<1>1. CASE Quiet /\ (pc' \in {"down", "idle", "recover", "recovered"} \/ (pc' = pc /\ cur' = cur))
    BY <1>1, <1>b, CausalFrame DEF Quiet, Files
<1>2. CASE Quiet /\ Onward
    <2>1. /\ pc' \notin {"stage", "bind"}
          /\ pc' \in MaybeUnbound \/ journal[cur'].bound
        BY <1>2, <1>c DEF Onward, SweepUnbound, RecoverMark, RecoverDecide, Recoverable, Pending,
           ResumeMaterialized, InstallCheck, PlaceNothing, PlaceRefused, PlaceFault, Observe,
           Withdrawn
    <2>2. UNCHANGED <<dest, artifact, journal, idx>>
        BY <1>2 DEF Quiet
    <2>3. \A i \in Attempt : Causal(i)'
        BY <2>2, <1>b DEF Causal, Files, IsDir, Shows, Matches
    <2> QED BY <2>1, <2>2, <2>3 DEF CausalInv, Files
<1>3. CASE \E i \in Attempt : SweepIndexed(i)
    <2>1. PICK i \in Attempt : SweepIndexed(i)
        BY <1>3
    <2>2. journal[i].bound
        BY <2>1, <1>b DEF SweepIndexed, Causal
    <2> QED BY <2>1, <2>2, CausalSetState DEF SweepIndexed
<1>4. CASE \E i \in Attempt : MarkIndexed(i)
    <2>1. PICK i \in Attempt : MarkIndexed(i)
        BY <1>4
    <2>2. journal[i].bound /\ journal[i].state = "Materialized"
        BY <2>1, <1>b DEF MarkIndexed, ToMark, Completes, Causal
    <2> QED BY <2>1, <2>2, CausalSetState DEF MarkIndexed
<1>5. CASE ResumePrepared
    <2>1. CASE UNCHANGED journal
        BY <1>5, <2>1, <1>b, <1>c, CausalFrame DEF ResumePrepared, Files
    <2>2. CASE SetState(cur, "Preserved") /\ UNCHANGED proc
        BY <1>5, <2>2, <1>a, <1>c, CausalSetState DEF ResumePrepared
    <2> QED BY <1>5, <2>1, <2>2 DEF ResumePrepared
<1>6. CASE ResumePreserved
    <2>1. CASE UNCHANGED journal
        BY <1>6, <2>1, <1>b, <1>c, CausalFrame DEF ResumePreserved, Files
    <2>2. CASE SetState(cur, "Materialized") /\ Goto("observe")
        BY <1>6, <2>2, <1>a, <1>c, CausalSetState DEF ResumePreserved
    <2> QED BY <1>6, <2>1, <2>2 DEF ResumePreserved
<1>7. CASE Bind
    <2>1. /\ cur \in Attempt /\ pc' = "check" /\ UNCHANGED <<dest, artifact, idx>> /\ cur' = cur
          /\ \A j \in Attempt : j # cur => journal'[j] = journal[j]
          /\ journal'[cur].expected = journal[cur].expected
          /\ journal'[cur].record = journal[cur].record
          /\ journal'[cur].state = journal[cur].state
          /\ journal'[cur].pre = journal[cur].pre
          /\ journal'[cur].bound
          /\ journal'[cur].metaOnly <=> (journal[cur].record.kind = "dir" /\ IsDir(journal[cur].expected))
        BY <1>7, <1>a DEF Bind, PathChange
    <2>2. \A j \in Attempt : j # cur => Causal(j)'
        BY <2>1, <1>b DEF Causal, Files, IsDir, Shows, Matches
    <2>3. Causal(cur)'
        BY <2>1, <1>b DEF Causal, Files, IsDir, Shows, Matches
    <2> QED BY <2>1, <2>2, <2>3 DEF CausalInv, Files
<1>8. CASE CaptureCheck
    <2>1. CASE UNCHANGED journal
        BY <1>8, <2>1, <1>b, <1>c, CausalFrame DEF CaptureCheck, AfterCapture, Files
    <2>2. CASE SetState(cur, "Preserved") /\ Goto(AfterCapture)
        BY <1>8, <2>2, <1>a, <1>c, CausalSetState DEF CaptureCheck, AfterCapture, JournalInv, StepState
    <2> QED BY <1>8, <2>1, <2>2 DEF CaptureCheck
<1>9. CASE CaptureVerify
    <2>1. CASE UNCHANGED journal
        BY <1>9, <2>1, <1>b, <1>c, CausalFrame DEF CaptureVerify, AfterCapture, Files
    <2>2. CASE SetState(cur, "Preserved") /\ Goto(AfterCapture)
        BY <1>9, <2>2, <1>a, <1>c, CausalSetState DEF CaptureVerify, AfterCapture, JournalInv, StepState
    <2> QED BY <1>9, <2>1, <2>2 DEF CaptureVerify
<1>10. CASE RecordMaterialized
    BY <1>10, <1>a, <1>c, CausalSetState DEF RecordMaterialized, JournalInv, StepState
<1>11. CASE Abandon
    BY <1>11, <1>a, <1>c, CausalSetState DEF Abandon, JournalInv, StepState
<1>12. CASE MarkCommitted
    BY <1>12, <1>a, <1>c, CausalSetState DEF MarkCommitted, JournalInv, StepState
<1>13. CASE RollbackSkip
    BY <1>13, <1>a, <1>c, CausalSetState DEF RollbackSkip, JournalInv, StepState
<1>14. CASE RollbackStart
    BY <1>14, <1>a, <1>c, CausalSetState DEF RollbackStart, JournalInv, StepState
<1>15. CASE Rolled
    BY <1>15, <1>a, <1>c, CausalSetState DEF Rolled, JournalInv, StepState
<1>16. CASE \E i \in Attempt, r \in Incoming : BeginCausal(i, r)
    <2>1. PICK i \in Attempt, r \in Incoming : BeginCausal(i, r)
        BY <1>16
    <2>2. r.by # "push" /\ Shows(dest, idx) /\ Prepare(i, r)
        BY <2>1 DEF BeginCausal, Incoming, CausalInv
    <2>3. /\ journal'[i] = [state |-> "Prepared", expected |-> dest, record |-> r,
                            pre |-> idx, bound |-> FALSE, metaOnly |-> FALSE]
          /\ \A j \in Attempt : j # i => journal'[j] = journal[j]
          /\ UNCHANGED <<dest, artifact, idx>> /\ cur' = i /\ pc' \in {"stage", "bind"}
          /\ artifact[i] = {}
        BY <2>2, <1>a DEF Prepare, JournalInv, VaultKnown
    <2>4. \A j \in Attempt : j # i => Causal(j)'
        BY <2>3, <1>b DEF Causal, Files, IsDir, Shows, Matches
    <2>5. Causal(i)'
        BY <2>2, <2>3, <1>b DEF Causal, Files, IsDir, Shows, Matches
    <2>6. ~journal'[i].bound
        BY <2>3
    <2> QED BY <2>3, <2>4, <2>5, <2>6 DEF CausalInv, Files
<1>17. CASE WriteStaging
    <2>1. /\ UNCHANGED <<dest, artifact, journal, idx>> /\ cur' = cur /\ cur \in Attempt
          /\ pc = "stage" /\ pc' = "bind"
        BY <1>17, <1>a, <1>b DEF WriteStaging, Causal
    <2>2. \A j \in Attempt : Causal(j)'
        BY <2>1, <1>b DEF Causal, Files, IsDir, Shows, Matches
    <2> QED BY <2>1, <2>2 DEF CausalInv, Files
<1>18. CASE CaptureMove
    <2>1. /\ UNCHANGED <<journal, idx>> /\ (dest' = dest \/ dest' = {})
          /\ pc' \in {"idle", "verify"} /\ (pc' = "verify" => cur' = cur)
          /\ \A j \in Attempt : artifact'[j] = artifact[j] \/ (j = cur /\ artifact'[j] = dest)
          /\ journal[cur].bound
        BY <1>18, <1>a, <1>c DEF CaptureMove
    <2> QED BY <2>1, <1>b, CausalFrame DEF Files
<1>19. CASE PlaceFile
    <2>1. /\ UNCHANGED <<artifact, journal, idx>> /\ dest' = staging[cur] /\ cur' = cur
          /\ pc' = "record" /\ journal[cur].bound /\ cur \in Attempt
        BY <1>19, <1>a, <1>c DEF PlaceFile
    <2>2. Files(dest)'
        BY <2>1 DEF IdentityInv, Aged, Brought, Files
    <2> QED BY <2>1, <2>2, <1>b, CausalFrame DEF Files
<1>20. CASE PlaceDirectory
    <2>1. /\ UNCHANGED <<artifact, journal, idx>> /\ cur' = cur
          /\ dest' = {[ino |-> clock, kind |-> "dir", data |-> NoData]}
          /\ pc' = "record" /\ journal[cur].bound
        BY <1>20, <1>c DEF PlaceDirectory, store
    <2>2. Files(dest)'
        BY <2>1 DEF Files, NoData
    <2> QED BY <2>1, <2>2, <1>b, CausalFrame DEF Files
<1>21. CASE Restore
    <2>1. /\ UNCHANGED <<journal, idx>> /\ (dest' = dest \/ dest' = artifact[cur])
          /\ cur \in Attempt /\ pc' = "abandon"
          /\ \A j \in Attempt : artifact'[j] = artifact[j] \/ artifact'[j] = {}
        BY <1>21, <1>a DEF Restore
    <2> QED BY <2>1, <1>b, CausalFrame DEF Files
<1>22. CASE Withdraw
    <2>1. /\ UNCHANGED <<artifact, journal, idx>> /\ (dest' = dest \/ dest' = {})
          /\ pc' \in {"idle", "withdrawn"} /\ (pc' = "withdrawn" => cur' = cur)
          /\ journal[cur].bound
        BY <1>22, <1>c DEF Withdraw
    <2> QED BY <2>1, <1>b, CausalFrame DEF Files
<1>23. CASE Reinstate
    <2>1. /\ UNCHANGED <<journal, idx>> /\ (dest' = dest \/ dest' = artifact[cur])
          /\ cur \in Attempt /\ pc' \in {"idle", "rolled"} /\ (pc' = "rolled" => cur' = cur)
          /\ \A j \in Attempt : artifact'[j] = artifact[j] \/ artifact'[j] = {}
          /\ journal[cur].bound
        BY <1>23, <1>a, <1>c DEF Reinstate
    <2> QED BY <2>1, <1>b, CausalFrame DEF Files
<1>24. CASE Scan
    <2>1. /\ UNCHANGED <<dest, artifact, journal>> /\ pc' = "ready" /\ idx'.by # "push"
        BY <1>24 DEF Scan, store, ScannedRow, CausalInv
    <2>2. \A j \in Attempt : Causal(j)'
        BY <2>1, <1>b DEF Causal, Files, IsDir, Shows, Matches
    <2> QED BY <2>1, <2>2 DEF CausalInv, Files
<1>25. CASE Adopt
    <2>1. /\ UNCHANGED <<dest, artifact, journal>> /\ pc' = "marking" /\ idx'.by # "push"
        BY <1>25, <1>a, <1>b DEF Adopt, store, Causal
    <2>2. \A j \in Attempt : Causal(j)'
        BY <2>1, <1>b DEF Causal, Files, IsDir, Shows, Matches
    <2> QED BY <2>1, <2>2 DEF CausalInv, Files
<1>26. CASE UserSave \/ UserMkdir \/ UserEdit \/ UserDelete
    <2>1. UNCHANGED <<artifact, journal, idx, pc, cur>>
        BY <1>26 DEF UserSave, UserMkdir, UserEdit, UserDelete, UserStep
    <2>2. \A o \in dest' : o.data.by # "remote"
        BY <1>26 DEF UserSave, UserMkdir, UserEdit, UserDelete, Fresh, NoData,
           TypeInv, TypeOK, Location, Obj
    <2> QED BY <2>1, <2>2, <1>b, CausalFrame DEF Files
<1>27. CASE \E i \in Attempt : UserEditHeld(i)
    <2>1. PICK i \in Attempt : UserEditHeld(i)
        BY <1>27
    <2>2. /\ UNCHANGED <<dest, journal, idx, pc, cur>>
          /\ \A j \in Attempt : j # i => artifact'[j] = artifact[j]
          /\ artifact'[i] = {[o EXCEPT !.data = Fresh] : o \in artifact[i]}
        BY <2>1, <1>a DEF UserEditHeld, UserStep
    <2>3. \A o \in artifact'[i] : o.data.by # "remote"
        BY <2>2, <1>a DEF Fresh, Location, Obj
    <2>4. \A j \in Attempt : Files(artifact[j])' /\ (~journal[j].bound => artifact'[j] = {})
        BY <2>2, <2>3, <1>b DEF Files
    <2> QED BY <2>2, <2>4, <1>b, CausalFrame DEF Files
<1> QED
    BY QuietOrNot, <1>1, <1>2, <1>3, <1>4, <1>5, <1>6, <1>7, <1>8, <1>9, <1>10, <1>11,
       <1>12, <1>13, <1>14, <1>15, <1>16, <1>17, <1>18, <1>19, <1>20, <1>21, <1>22,
       <1>23, <1>24, <1>25, <1>26, <1>27
    DEF BeginPush, PushCurrent

-----------------------------------------------------------------------------
(* Where a peer's bytes can be *)

Remote(l) == \E o \in l : o.data.by = "remote"
Authored(row) == row.by = "scan" => row.data.by # "remote"

\* The path holds what attempt i brings.
Holds(i) == \A o \in dest : Brought(i, o)

\* What a peer's bytes at the path are, when attempt i, unsettled and in state
\* s, is the one that recovery will find: the original it was prepared against
\* or the object it brings.
Explained(i, s) ==
    /\ Remote(artifact[i]) => artifact[i] = journal[i].expected
    /\ Remote(dest) =>
          /\ s = "Prepared" => dest = journal[i].expected /\ artifact[i] = {}
          /\ s = "Preserved" =>
                \/ Holds(i)
                \/ dest = journal[i].expected /\ artifact[i] = {} /\ Detaches(journal[i])
          /\ s \in {"Materialized", "Indexed"} => Holds(i)
          /\ s = "RollingBack" => Holds(i) \/ dest = journal[i].expected

\* The same seen from the step the program is at.
StepClear ==
    /\ pc \in {"verify", "install", "place", "withdrawn", "reinstate"} => ~Remote(dest)
    /\ (pc = "restore" /\ journal[cur].bound) => ~Remote(dest)
    /\ ((pc = "abandon" /\ journal[cur].bound) \/ pc \in {"rolled", "stage", "bind"}) =>
          (Remote(dest) => dest = journal[cur].expected)

\* When no attempt is unsettled, a peer's bytes at the path are the indexed ones.
NoneForeign == Remote(dest) => Shows(dest, idx) \/ \E i \in Attempt : Pending(i)

RowsAuthored ==
    /\ RemoteNeverAuthored /\ Authored(idx)
    /\ \A i \in Attempt : Authored(journal[i].record)

AllExplained == \A i \in Attempt : Pending(i) => Explained(i, journal[i].state)

RemoteInv == AllExplained /\ NoneForeign /\ StepClear /\ RowsAuthored

\* Everything proved so far.
BaseInv == TypeInv /\ JournalInv /\ BetweenInv /\ IdentityInv /\ CausalInv

\* An attempt is explained as before when its objects and the path stay.
LEMMA ExplainedFrame ==
    ASSUME NEW i \in Attempt, NEW s, Explained(i, s), UNCHANGED dest,
           artifact'[i] = artifact[i], journal'[i].expected = journal[i].expected,
           journal'[i].record = journal[i].record, journal'[i].metaOnly = journal[i].metaOnly
    PROVE  Explained(i, s)'
BY DEF Explained, Remote, Holds, Brought, Detaches

\* put_change of a state that explains what is at the path.
LEMMA RemoteSetState ==
    ASSUME TypeInv, RemoteInv, NEW i \in Attempt, NEW s, SetState(i, s),
           UNCHANGED <<dest, artifact, idx, history>>, StepClear',
           (journal[i].bound /\ s \notin Terminal) => Explained(i, s),
           (Pending(i) /\ s \in Terminal) => (Remote(dest) => Shows(dest, idx))
    PROVE  RemoteInv'
<1>1. /\ \A j \in Attempt : j # i => journal'[j] = journal[j]
      /\ journal'[i].state = s /\ journal'[i].expected = journal[i].expected
      /\ journal'[i].record = journal[i].record /\ journal'[i].bound = journal[i].bound
      /\ journal'[i].metaOnly = journal[i].metaOnly
    BY SetStateOnly DEF TypeInv, TypeOK
<1>2. ASSUME NEW j \in Attempt, j # i PROVE /\ Pending(j)' <=> Pending(j)
                                            /\ Pending(j)' => Explained(j, journal[j].state)'
    <2>1. journal'[j] = journal[j]
        BY <1>1, <1>2
    <2>2. Pending(j) => Explained(j, journal[j].state)
        BY DEF RemoteInv, AllExplained
    <2> QED BY <2>1, <2>2, ExplainedFrame DEF Pending
<1>3. Pending(i)' => Explained(i, journal[i].state)'
    BY <1>1, ExplainedFrame DEF Pending
<1>4. AllExplained'
    BY <1>2, <1>3 DEF AllExplained
<1>5. NoneForeign'
    <2> SUFFICES ASSUME Remote(dest) PROVE Shows(dest, idx) \/ \E j \in Attempt : Pending(j)'
        BY DEF NoneForeign, Remote, Shows, Matches
    <2>1. CASE Pending(i)
        BY <1>1, <2>1 DEF Pending
    <2>2. CASE ~Pending(i)
        BY <1>2, <2>2 DEF RemoteInv, NoneForeign
    <2> QED BY <2>1, <2>2
<1>6. RowsAuthored'
    BY <1>1 DEF RemoteInv, RowsAuthored, RemoteNeverAuthored, Authored
<1> QED BY <1>4, <1>5, <1>6 DEF RemoteInv

\* Steps that leave both databases alone.
LEMMA RemoteMove ==
    ASSUME RemoteInv, UNCHANGED <<journal, idx, history>>, StepClear', AllExplained',
           NoneForeign'
    PROVE  RemoteInv'
BY DEF RemoteInv, RowsAuthored, RemoteNeverAuthored, Authored

\* A path without a peer's bytes needs no explanation.
LEMMA RemoteClean ==
    ASSUME RemoteInv, UNCHANGED <<journal, idx, history>>, ~Remote(dest)',
           \A i \in Attempt : artifact'[i] = artifact[i] \/ ~Remote(artifact[i])'
    PROVE  RemoteInv'
<1>1. AllExplained' /\ NoneForeign' /\ StepClear'
    BY DEF RemoteInv, AllExplained, NoneForeign, StepClear, Explained, Pending, Remote
<1> QED BY <1>1, RemoteMove

\* The bytes an indexed attempt brought are the index row's.
LEMMA IndexedShows ==
    ASSUME NEW i \in Attempt, BaseInv, RemoteInv, Pending(i), journal[i].state = "Indexed",
           Remote(dest)
    PROVE  Shows(dest, idx)
<1>1. idx = journal[i].record /\ Holds(i)
    BY DEF BaseInv, BetweenInv, IndexBetween, RemoteInv, AllExplained, Explained
<1> QED BY <1>1 DEF Holds, Brought, Shows, Matches, Remote

\* The original an attempt was prepared against is the index row's.
LEMMA OriginalShows ==
    ASSUME NEW i \in Attempt, BaseInv, Pending(i), dest = journal[i].expected,
           journal[i].state \in {"Prepared", "Preserved", "RollingBack"} \/ idx # journal[i].record
    PROVE  Shows(dest, idx)
<1>1. idx = journal[i].pre
    BY DEF BaseInv, BetweenInv, IndexBetween
<1>2. journal[i].state # "Unused"
    BY DEF Pending, Terminal
<1> QED BY <1>1, <1>2 DEF BaseInv, CausalInv, Causal

\* Before the first failed commit, no step of a v2 root leaves a peer's bytes
\* where a scan would take them for the user's.
LEMMA RemoteStep ==
    ASSUME ~PushV1
    PROVE  BaseInv /\ RemoteInv /\ [Next]_vars /\ faults = 0 /\ faults' = 0 => RemoteInv'
<1> SUFFICES ASSUME BaseInv, RemoteInv, [Next]_vars, faults = 0, faults' = 0
             PROVE  RemoteInv'
    OBVIOUS
<1>a. /\ journal \in [Attempt -> PathChange] /\ artifact \in [Attempt -> Location]
      /\ pc \notin Resting => cur \in Attempt
      /\ dest \in Location /\ AtMostOne(dest)
    BY DEF BaseInv, TypeInv, TypeOK, Working
<1>b. /\ Files(dest) /\ \A i \in Attempt : Causal(i)
      /\ pc \notin MaybeUnbound => journal[cur].bound
    BY DEF BaseInv, CausalInv
<1>c. AllExplained /\ NoneForeign /\ StepClear /\ RowsAuthored /\ TypeInv
    BY DEF RemoteInv, BaseInv
<1>d. StepState /\ OnePending /\ AdoptedIsIndexed /\ VaultKnown
    BY DEF BaseInv, JournalInv
<1> USE DEF At, Goto, Return, Fail, proc, index, env, Resting, MaybeUnbound
<1>1. CASE /\ Quiet
           /\ \/ pc' \in {"down", "idle", "recover", "recovered"}
              \/ pc' = pc /\ cur' = cur
              \/ Onward
    <2>1. UNCHANGED <<dest, artifact, journal, idx, history>>
        BY <1>1 DEF Quiet
    <2>2. AllExplained' /\ NoneForeign'
        BY <2>1, <1>c DEF AllExplained, NoneForeign, Explained, Pending, Remote, Holds,
           Brought, Detaches, Shows, Matches
    <2>3. CASE pc' \in {"down", "idle", "recover", "recovered"}
        BY <2>1, <2>2, <2>3, RemoteMove DEF StepClear
    <2>4. CASE pc' = pc /\ cur' = cur
        BY <2>1, <2>2, <2>4, <1>c, RemoteMove DEF StepClear, Remote
    <2>5. CASE Onward
        <3>1. ~PlaceFault
            BY DEF PlaceFault
        <3>2. StepClear'
            BY <2>1, <2>5, <3>1, <1>c DEF Onward, SweepUnbound, Unbound, RecoverMark,
               RecoverDecide, ResumeMaterialized, InstallCheck, PlaceNothing, PlaceRefused,
               Observe, Withdrawn, StepClear, Remote
        <3> QED BY <2>1, <2>2, <3>2, RemoteMove
    <2> QED BY <1>1, <2>3, <2>4, <2>5
<1>2. CASE \E i \in Attempt : SweepIndexed(i)
    <2>1. PICK i \in Attempt : SweepIndexed(i)
        BY <1>2
    <2>2. StepClear' /\ UNCHANGED <<dest, artifact, idx, history>>
        BY <2>1 DEF SweepIndexed, StepClear
    <2> QED BY <2>1, <2>2, <1>c, RemoteSetState, IndexedShows DEF SweepIndexed, Terminal
<1>3. CASE \E i \in Attempt : MarkIndexed(i)
    <2>1. PICK i \in Attempt : MarkIndexed(i)
        BY <1>3
    <2>2. /\ journal[i].state = "Materialized" /\ SetState(i, "Indexed")
          /\ StepClear' /\ UNCHANGED <<dest, artifact, idx, history>>
        BY <2>1 DEF MarkIndexed, ToMark, Completes, StepClear
    <2>3. journal[i].bound => Explained(i, "Indexed")
        BY <2>2, <1>c DEF AllExplained, Pending, Terminal, Explained
    <2> QED BY <2>2, <2>3, <1>c, RemoteSetState DEF Terminal
<1>4. CASE ResumePrepared
    <2>1. CASE UNCHANGED journal
        <3>1. UNCHANGED <<dest, artifact, idx, history>> /\ pc' \in {"idle", "check", "resume"}
            BY <1>4, <2>1 DEF ResumePrepared
        <3>2. AllExplained' /\ NoneForeign' /\ StepClear'
            BY <2>1, <3>1, <1>c DEF AllExplained, NoneForeign, Explained, Pending, Remote, Holds,
               Brought, Detaches, Shows, Matches, StepClear
        <3> QED BY <2>1, <3>1, <3>2, RemoteMove
    <2>2. CASE /\ artifact[cur] # {} /\ artifact[cur] = journal[cur].expected
               /\ SetState(cur, "Preserved") /\ UNCHANGED proc
        <3>1. /\ cur \in Attempt /\ journal[cur].bound /\ journal[cur].state = "Prepared"
              /\ UNCHANGED <<dest, artifact, idx, history>> /\ pc' = "resume"
            BY <1>4, <2>2, <1>a, <1>b DEF ResumePrepared
        <3>2. ~Remote(dest)
            BY <2>2, <3>1, <1>c DEF AllExplained, Explained, Pending, Terminal
        <3>3. Explained(cur, "Preserved") /\ StepClear'
            BY <2>2, <3>1, <3>2 DEF Explained, StepClear
        <3> QED BY <2>2, <3>1, <3>3, <1>c, RemoteSetState DEF Terminal
    <2> QED BY <1>4, <2>1, <2>2 DEF ResumePrepared
<1>5. CASE ResumePreserved
    <2>1. /\ cur \in Attempt /\ journal[cur].bound /\ journal[cur].state = "Preserved"
          /\ Valid(cur) /\ UNCHANGED <<dest, artifact, idx, history>>
        BY <1>5, <1>a, <1>b, <1>d DEF ResumePreserved, VaultKnown
    <2>2. Remote(dest) => Holds(cur)
        BY <2>1, <1>c DEF AllExplained, Explained, Pending, Terminal, Valid
    <2>3. Remote(dest) => Shows(dest, journal[cur].record)
        BY <2>2 DEF Holds, Brought, Shows, Matches, Remote
    <2>4. CASE SetState(cur, "Materialized") /\ Goto("observe")
        <3>1. Explained(cur, "Materialized") /\ StepClear'
            BY <2>1, <2>2, <2>4, <1>c DEF AllExplained, Explained, Pending, Terminal, StepClear
        <3> QED BY <2>1, <2>4, <3>1, <1>c, RemoteSetState DEF Terminal
    <2>5. CASE ~Shows(dest, journal[cur].record) /\ Goto("install") /\ UNCHANGED journal
        BY <2>1, <2>3, <2>5, RemoteClean DEF Remote
    <2> QED BY <1>5, <2>4, <2>5 DEF ResumePreserved
<1>6. CASE Bind
    <2>1. /\ cur \in Attempt /\ pc' = "check" /\ UNCHANGED <<dest, artifact, idx, history>>
          /\ cur' = cur /\ \A j \in Attempt : j # cur => journal'[j] = journal[j]
          /\ journal'[cur].expected = journal[cur].expected
          /\ journal'[cur].record = journal[cur].record
          /\ journal'[cur].state = "Prepared" /\ journal'[cur].bound
          /\ artifact[cur] = {} /\ (Remote(dest) => dest = journal[cur].expected)
        BY <1>6, <1>a, <1>c, <1>d DEF Bind, PathChange, StepState, VaultKnown, StepClear
    <2>2. Explained(cur, journal[cur].state)'
        BY <2>1 DEF Explained, Remote
    <2>3. \A j \in Attempt : j # cur /\ Pending(j)' => Explained(j, journal[j].state)'
        BY <2>1, <1>c, ExplainedFrame DEF AllExplained, Pending
    <2>4. AllExplained'
        BY <2>1, <2>2, <2>3 DEF AllExplained
    <2>5. NoneForeign' /\ StepClear' /\ RowsAuthored'
        BY <2>1, <1>c DEF NoneForeign, StepClear, RowsAuthored, RemoteNeverAuthored, Authored,
           Pending, Terminal
    <2> QED BY <2>4, <2>5 DEF RemoteInv
<1>7. CASE CaptureCheck
    <2>1. CASE UNCHANGED journal
        <3>1. /\ UNCHANGED <<dest, artifact, idx, history>>
              /\ pc' \in {"idle", "capture"} \/ (pc' = AfterCapture /\ SetState(cur, "Preserved"))
            BY <1>7, <2>1 DEF CaptureCheck
        <3>2. journal[cur].state = "Prepared" /\ cur \in Attempt
            BY <1>7, <1>a, <1>d DEF CaptureCheck, StepState
        <3>3. pc' \in {"idle", "capture"}
            BY <2>1, <3>1, <3>2, <1>a, SetStateOnly
        <3>4. AllExplained' /\ NoneForeign' /\ StepClear'
            BY <2>1, <3>1, <3>3, <1>c DEF AllExplained, NoneForeign, Explained, Pending, Remote,
               Holds, Brought, Detaches, Shows, Matches, StepClear
        <3> QED BY <2>1, <3>1, <3>4, RemoteMove
    <2>2. CASE /\ dest = journal[cur].expected /\ ~Detaches(journal[cur])
               /\ SetState(cur, "Preserved") /\ Goto(AfterCapture)
        <3>1. /\ cur \in Attempt /\ journal[cur].bound /\ journal[cur].state = "Prepared"
              /\ UNCHANGED <<dest, artifact, idx, history>>
              /\ pc' \in {"install", "resume"} /\ cur' = cur
            BY <1>7, <2>2, <1>a, <1>b, <1>d DEF CaptureCheck, StepState, AfterCapture
        <3>2. ~Remote(dest)
            BY <2>2, <3>1, <1>a, <1>b DEF Detaches, Causal, IsDir, AtMostOne, Files, Remote
        <3>3. Explained(cur, "Preserved") /\ StepClear'
            BY <3>1, <3>2, <1>c DEF AllExplained, Explained, Pending, Terminal, StepClear, Remote
        <3> QED BY <2>2, <3>1, <3>3, <1>c, RemoteSetState DEF Terminal
    <2> QED BY <1>7, <2>1, <2>2 DEF CaptureCheck
<1>8. CASE CaptureVerify
    <2>1. /\ cur \in Attempt /\ journal[cur].bound /\ journal[cur].state = "Prepared"
          /\ UNCHANGED <<dest, artifact, idx, history>> /\ ~Remote(dest)
          /\ pc' \in {"install", "resume", "restore"} /\ cur' = cur
        BY <1>8, <1>a, <1>b, <1>c, <1>d DEF CaptureVerify, StepState, AfterCapture, StepClear
    <2>2. CASE UNCHANGED journal
        BY <2>1, <2>2, RemoteClean DEF Remote
    <2>3. CASE artifact[cur] = journal[cur].expected /\ SetState(cur, "Preserved")
               /\ Goto(AfterCapture)
        <3>1. Explained(cur, "Preserved") /\ StepClear'
            BY <2>1, <2>3 DEF Explained, StepClear, Remote, AfterCapture
        <3> QED BY <2>1, <2>3, <3>1, <1>c, RemoteSetState DEF Terminal
    <2> QED BY <1>8, <2>2, <2>3 DEF CaptureVerify
<1>9. CASE RecordMaterialized
    <2>1. /\ cur \in Attempt /\ journal[cur].bound /\ journal[cur].state = "Preserved"
          /\ Valid(cur) /\ UNCHANGED <<dest, artifact, idx, history>>
          /\ pc' = "observe" /\ SetState(cur, "Materialized")
        BY <1>9, <1>a, <1>b, <1>d DEF RecordMaterialized, VaultKnown, StepState
    <2>2. Explained(cur, "Materialized") /\ StepClear'
        BY <2>1, <1>c DEF AllExplained, Explained, Pending, Terminal, Valid, StepClear
    <2> QED BY <2>1, <2>2, <1>c, RemoteSetState DEF Terminal
<1>10. CASE Abandon
    <2>1. /\ cur \in Attempt /\ journal[cur].state \in {"Prepared", "Preserved"}
          /\ UNCHANGED <<dest, artifact, idx, history>> /\ SetState(cur, "Aborted")
          /\ pc' \in {"recover", "idle"}
          /\ (journal[cur].bound /\ Remote(dest)) => dest = journal[cur].expected
        BY <1>10, <1>a, <1>c, <1>d DEF Abandon, StepState, StepClear
    <2>2. Pending(cur) => (Remote(dest) => Shows(dest, idx))
        BY <2>1, OriginalShows DEF Pending
    <2>3. StepClear'
        BY <2>1 DEF StepClear
    <2> QED BY <2>1, <2>2, <2>3, <1>c, RemoteSetState DEF Terminal
<1>11. CASE MarkCommitted
    <2>1. /\ cur \in Attempt /\ journal[cur].state = "Indexed"
          /\ UNCHANGED <<dest, artifact, idx, history>> /\ SetState(cur, "Committed")
          /\ pc' = "marking"
        BY <1>11, <1>a, <1>d DEF MarkCommitted, StepState
    <2>2. StepClear'
        BY <2>1 DEF StepClear
    <2> QED BY <2>1, <2>2, <1>c, RemoteSetState, IndexedShows DEF Terminal
<1>12. CASE RollbackSkip
    <2>1. /\ cur \in Attempt /\ idx # journal[cur].record /\ NothingToUndo(cur)
          /\ UNCHANGED <<dest, artifact, idx, history>> /\ SetState(cur, "RolledBack")
          /\ pc' = "recover"
        BY <1>12, <1>a, <1>d DEF RollbackSkip, AdoptedIsIndexed
    <2>2. (Pending(cur) /\ Remote(dest)) => dest = journal[cur].expected
        BY <2>1, <1>c DEF NothingToUndo, AllExplained, Explained, SameIno, Holds, Brought
    <2>3. Pending(cur) => (Remote(dest) => Shows(dest, idx))
        BY <2>1, <2>2, OriginalShows
    <2>4. StepClear'
        BY <2>1 DEF StepClear
    <2> QED BY <2>1, <2>3, <2>4, <1>c, RemoteSetState DEF Terminal
<1>13. CASE RollbackStart
    <2>1. /\ cur \in Attempt /\ journal[cur].bound /\ cur' = cur
          /\ journal[cur].state \in {"Prepared", "Preserved", "Materialized", "RollingBack"}
          /\ UNCHANGED <<dest, artifact, idx, history>> /\ SetState(cur, "RollingBack")
          /\ pc' = "withdraw" \/ (pc' = "reinstate" /\ dest = {})
        BY <1>13, <1>a, <1>b, <1>d DEF RollbackStart, StepState
    <2>2. Explained(cur, "RollingBack") /\ StepClear'
        BY <2>1, <1>c DEF AllExplained, Explained, Pending, Terminal, StepClear, Remote
    <2> QED BY <2>1, <2>2, <1>c, RemoteSetState DEF Terminal
<1>14. CASE Rolled
    <2>1. /\ cur \in Attempt /\ journal[cur].state = "RollingBack"
          /\ UNCHANGED <<dest, artifact, idx, history>> /\ SetState(cur, "RolledBack")
          /\ pc' = "recover" /\ (Remote(dest) => dest = journal[cur].expected)
        BY <1>14, <1>a, <1>c, <1>d DEF Rolled, StepState, StepClear
    <2>2. Pending(cur) => (Remote(dest) => Shows(dest, idx))
        BY <2>1, OriginalShows
    <2>3. StepClear'
        BY <2>1 DEF StepClear
    <2> QED BY <2>1, <2>2, <2>3, <1>c, RemoteSetState DEF Terminal
<1>15. CASE \E i \in Attempt, r \in Incoming : BeginCausal(i, r)
    <2>1. PICK i \in Attempt, r \in Incoming : BeginCausal(i, r)
        BY <1>15
    <2>2. Authored(r) /\ Shows(dest, idx) /\ Prepare(i, r)
        BY <2>1, <1>c DEF BeginCausal, Incoming, RowsAuthored, Authored
    <2>3. /\ journal'[i].expected = dest /\ journal'[i].record = r /\ ~journal'[i].bound
          /\ \A j \in Attempt : j # i => journal'[j] = journal[j]
          /\ UNCHANGED <<dest, artifact, idx, history>> /\ cur' = i /\ pc' \in {"stage", "bind"}
        BY <2>2, <1>a DEF Prepare
    <2>4. AllExplained'
        BY <2>3, <1>c, ExplainedFrame DEF AllExplained, Pending
    <2>5. NoneForeign' /\ StepClear' /\ RowsAuthored'
        BY <2>2, <2>3, <1>c DEF NoneForeign, StepClear, RowsAuthored, RemoteNeverAuthored,
           Authored, Shows, Matches
    <2> QED BY <2>4, <2>5 DEF RemoteInv
<1>16. CASE WriteStaging
    <2>1. /\ UNCHANGED <<dest, artifact, journal, idx, history>> /\ cur' = cur
          /\ pc = "stage" /\ pc' \in {"bind", "check"}
        BY <1>16 DEF WriteStaging
    <2>2. AllExplained' /\ NoneForeign' /\ StepClear'
        BY <2>1, <1>c DEF AllExplained, NoneForeign, Explained, Pending, Remote, Holds, Brought,
           Detaches, Shows, Matches, StepClear
    <2> QED BY <2>1, <2>2, RemoteMove
<1>17. CASE CaptureMove
    <2>1. /\ cur \in Attempt /\ journal[cur].bound /\ journal[cur].state = "Prepared"
          /\ UNCHANGED <<journal, idx, history>>
          /\ \A j \in Attempt : Pending(j) => j = cur
        BY <1>17, <1>a, <1>b, <1>d DEF CaptureMove, StepState, OnePending, Applying
    <2>2. CASE UNCHANGED <<dest, artifact>> /\ pc' = "idle"
        <3>1. AllExplained' /\ NoneForeign' /\ StepClear'
            BY <2>1, <2>2, <1>c DEF AllExplained, NoneForeign, Explained, Pending, Remote, Holds,
               Brought, Detaches, Shows, Matches, StepClear
        <3> QED BY <2>1, <3>1, RemoteMove
    <2>3. CASE artifact' = [artifact EXCEPT ![cur] = dest] /\ dest' = {} /\ Goto("verify")
        <3>1. /\ artifact'[cur] = dest /\ ~Remote(dest)'
              /\ Remote(dest) => dest = journal[cur].expected
            BY <2>1, <2>3, <1>a, <1>c DEF AllExplained, Explained, Pending, Terminal, Remote
        <3>2. AllExplained'
            BY <2>1, <3>1 DEF AllExplained, Pending, Explained, Remote
        <3>3. NoneForeign' /\ StepClear'
            BY <3>1 DEF NoneForeign, StepClear
        <3> QED BY <2>1, <3>2, <3>3, RemoteMove
    <2> QED BY <1>17, <2>2, <2>3 DEF CaptureMove
<1>18. CASE PlaceFile
    <2>1. /\ cur \in Attempt /\ journal[cur].bound /\ journal[cur].state = "Preserved"
          /\ UNCHANGED <<artifact, journal, idx, history>> /\ dest' = staging[cur]
          /\ \A j \in Attempt : Pending(j) => j = cur
          /\ pc' = "record" /\ Pending(cur)
        BY <1>18, <1>a, <1>b, <1>d
        DEF PlaceFile, StepState, OnePending, Applying, Pending, Terminal
    <2>2. \A o \in dest' : Brought(cur, o)
        BY <2>1 DEF BaseInv, IdentityInv, Aged
    <2>3. Holds(cur)'
        BY <1>18, <2>1, <2>2 DEF PlaceFile, Holds, Brought
    <2>4. AllExplained'
        BY <1>18, <2>1, <2>3, <1>c DEF PlaceFile, AllExplained, Pending, Explained, Remote
    <2>5. NoneForeign' /\ StepClear'
        BY <2>1 DEF NoneForeign, StepClear, Pending
    <2> QED BY <2>1, <2>4, <2>5, RemoteMove
<1>19. CASE PlaceDirectory
    <2>1. UNCHANGED <<artifact, journal, idx, history>> /\ ~Remote(dest)'
        BY <1>19 DEF PlaceDirectory, store, Remote, NoData
    <2> QED BY <2>1, RemoteClean
<1>20. CASE Restore
    <2>1. /\ cur \in Attempt /\ UNCHANGED <<journal, idx, history>> /\ cur' = cur
          /\ pc' = "abandon" /\ journal[cur].state \in {"Prepared", "Preserved"}
          /\ journal[cur].bound => ~Remote(dest)
          /\ ~journal[cur].bound => artifact[cur] = {}
        BY <1>20, <1>a, <1>b, <1>c, <1>d DEF Restore, StepState, StepClear, Causal
    <2>2. CASE UNCHANGED <<dest, artifact>>
        <3>1. AllExplained' /\ NoneForeign' /\ StepClear'
            BY <2>1, <2>2, <1>c DEF AllExplained, NoneForeign, Explained, Pending, Remote, Holds,
               Brought, Detaches, Shows, Matches, StepClear
        <3> QED BY <2>1, <3>1, RemoteMove
    <2>3. CASE /\ artifact[cur] # {} /\ dest' = artifact[cur]
               /\ artifact' = [artifact EXCEPT ![cur] = {}]
        <3>1. /\ journal[cur].bound /\ Pending(cur) /\ artifact'[cur] = {}
              /\ \A j \in Attempt : Pending(j) => j = cur
              /\ Detaches(journal[cur])
            BY <2>1, <2>3, <1>a, <1>d DEF Pending, Terminal, OnePending, VaultKnown
        <3>2. Remote(dest)' => dest' = journal[cur].expected
            BY <2>1, <2>3, <3>1, <1>c DEF AllExplained, Explained, Remote
        <3>3. AllExplained'
            BY <2>1, <3>1, <3>2 DEF AllExplained, Pending, Explained, Remote, Detaches
        <3>4. NoneForeign' /\ StepClear'
            BY <2>1, <3>1, <3>2 DEF NoneForeign, StepClear, Pending
        <3> QED BY <2>1, <3>3, <3>4, RemoteMove
    <2> QED BY <1>20, <2>2, <2>3 DEF Restore
<1>21. CASE Withdraw
    <2>1. UNCHANGED <<artifact, journal, idx, history>>
        BY <1>21 DEF Withdraw
    <2>2. CASE UNCHANGED dest /\ pc' = "idle"
        <3>1. AllExplained' /\ NoneForeign' /\ StepClear'
            BY <2>1, <2>2, <1>c DEF AllExplained, NoneForeign, Explained, Pending, Remote, Holds,
               Brought, Detaches, Shows, Matches, StepClear
        <3> QED BY <2>1, <3>1, RemoteMove
    <2>3. CASE dest' = {}
        BY <2>1, <2>3, RemoteClean DEF Remote
    <2> QED BY <1>21, <2>2, <2>3 DEF Withdraw
<1>22. CASE Reinstate
    <2>1. /\ cur \in Attempt /\ UNCHANGED <<journal, idx, history>>
          /\ journal[cur].state = "RollingBack" /\ journal[cur].bound
          /\ ~Remote(dest) /\ Pending(cur)
          /\ \A j \in Attempt : Pending(j) => j = cur
        BY <1>22, <1>a, <1>b, <1>c, <1>d
        DEF Reinstate, StepState, StepClear, Pending, Terminal, OnePending
    <2>2. CASE UNCHANGED <<dest, artifact>>
        BY <2>1, <2>2, RemoteClean DEF Remote
    <2>3. CASE /\ dest' = artifact[cur] /\ artifact' = [artifact EXCEPT ![cur] = {}]
               /\ Goto("rolled")
        <3>1. artifact'[cur] = {} /\ (Remote(dest)' => dest' = journal[cur].expected)
            BY <2>1, <2>3, <1>a, <1>c DEF AllExplained, Explained, Remote
        <3>2. AllExplained'
            BY <2>1, <3>1 DEF AllExplained, Pending, Explained, Remote
        <3>3. NoneForeign' /\ StepClear'
            BY <2>1, <2>3, <3>1 DEF NoneForeign, StepClear, Pending
        <3> QED BY <2>1, <3>2, <3>3, RemoteMove
    <2> QED BY <1>22, <2>2, <2>3 DEF Reinstate
<1>23. CASE Scan
    <2>1. /\ UNCHANGED <<dest, artifact, journal>> /\ pc' = "ready"
          /\ \A i \in Attempt : ~Pending(i)
        BY <1>23, <1>d DEF Scan, store, OnePending
    <2>2. AllExplained' /\ StepClear'
        BY <2>1 DEF AllExplained, Pending, StepClear
    <2>3. CASE UNCHANGED <<idx, history>>
        BY <2>1, <2>2, <2>3, <1>c, RemoteMove DEF NoneForeign, Remote, Shows, Matches
    <2>4. CASE ~Shows(dest, idx) /\ idx' = ScannedRow /\ history' = history \cup {idx'}
        <3>1. ~Remote(dest)
            BY <2>1, <2>4, <1>c DEF NoneForeign
        <3>2. ScannedRow.data.by # "remote"
            <4>1. dest = {} \/ (CHOOSE o \in dest : TRUE) \in dest
                OBVIOUS
            <4> QED BY <3>1, <4>1 DEF ScannedRow, NoData, Remote
        <3>3. NoneForeign' /\ RowsAuthored'
            BY <2>1, <2>4, <3>1, <3>2, <1>c DEF NoneForeign, RowsAuthored, RemoteNeverAuthored,
               Authored, Remote
        <3> QED BY <2>2, <3>3 DEF RemoteInv
    <2> QED BY <1>23, <2>3, <2>4 DEF Scan
<1>24. CASE Adopt
    <2>1. /\ UNCHANGED <<dest, artifact, journal>> /\ pc' = "marking" /\ Pending(cur)
          /\ cur \in Attempt /\ idx' = journal[cur].record /\ history' = history \cup {idx'}
        BY <1>24, <1>a, <1>b, <1>d DEF Adopt, store, StepState, Pending, Terminal
    <2>2. AllExplained' /\ StepClear' /\ NoneForeign'
        BY <2>1, <1>c DEF AllExplained, NoneForeign, Explained, Pending, Remote, Holds, Brought,
           Detaches, StepClear
    <2>3. RowsAuthored'
        BY <2>1, <1>c DEF RowsAuthored, RemoteNeverAuthored, Authored
    <2> QED BY <2>2, <2>3 DEF RemoteInv
<1>25. CASE UserSave \/ UserMkdir \/ UserEdit \/ UserDelete
    <2>1. UNCHANGED <<artifact, journal, idx, history>>
        BY <1>25 DEF UserSave, UserMkdir, UserEdit, UserDelete, UserStep
    <2>2. ~Remote(dest)'
        BY <1>25, <1>a DEF UserSave, UserMkdir, UserEdit, UserDelete, Fresh, NoData,
           Location, Obj, Remote
    <2> QED BY <2>1, <2>2, RemoteClean
<1>26. CASE \E i \in Attempt : UserEditHeld(i)
    <2>1. PICK i \in Attempt : UserEditHeld(i)
        BY <1>26
    <2>2. /\ UNCHANGED <<dest, journal, idx, history, pc, cur>>
          /\ \A j \in Attempt : j # i => artifact'[j] = artifact[j]
          /\ artifact'[i] = {[o EXCEPT !.data = Fresh] : o \in artifact[i]}
        BY <2>1, <1>a DEF UserEditHeld, UserStep
    <2>3. \A o \in artifact'[i] : o.data.by # "remote"
        BY <2>2, <1>a DEF Fresh, Location, Obj
    <2>a. artifact[i] = {} <=> artifact'[i] = {}
        BY <2>1, <1>c, HeldKeepsIno
    <2>4. AllExplained'
        BY <2>2, <2>3, <2>a, <1>c
        DEF AllExplained, Explained, Pending, Remote, Holds, Brought, Detaches
    <2>5. NoneForeign' /\ StepClear'
        BY <2>2, <1>c DEF NoneForeign, StepClear, Remote, Shows, Matches, Pending
    <2> QED BY <2>2, <2>4, <2>5, RemoteMove
<1> QED
    BY QuietOrNot, <1>1, <1>2, <1>3, <1>4, <1>5, <1>6, <1>7, <1>8, <1>9, <1>10, <1>11,
       <1>12, <1>13, <1>14, <1>15, <1>16, <1>17, <1>18, <1>19, <1>20, <1>21, <1>22,
       <1>23, <1>24, <1>25, <1>26
    DEF BeginPush, PushCurrent

\* The process counts its failed commits.
LEMMA FaultsGrow == TypeInv /\ [Next]_vars => (faults' = 0 => faults = 0)
<1> SUFFICES ASSUME TypeInv, [Next]_vars, faults # 0 PROVE faults' # 0
    OBVIOUS
<1>1. faults \in Nat
    BY DEF TypeInv, TypeOK
<1>2. PlaceFault => faults' # 0
    BY <1>1 DEF PlaceFault
<1> USE DEF env, Prepare, UserStep
<1>3. CASE Recovery
    BY <1>3 DEF Recovery, Restart, StartPass, RecoverRefuse, RecoverDone, SweepUnbound,
       SweepIndexed, RecoverMark, RecoverDecide, ResumePrepared, ResumePreserved,
       ResumeMaterialized
<1>4. CASE Application
    BY <1>4 DEF Application, WriteStaging, Bind, CaptureCheck, CaptureMove, CaptureVerify,
       InstallCheck, PlaceFile, PlaceDirectory, PlaceNothing, PlaceRefused,
       RecordMaterialized, Restore, Abandon, Observe, Adopt, MarkCommitted, MarkDone,
       MarkIndexed
<1>5. CASE Undo
    BY <1>5 DEF Undo, RollbackSkip, RollbackStart, RollbackRefuse, Withdraw, Withdrawn,
       Reinstate, Rolled
<1>6. CASE Choice
    BY <1>6 DEF Choice, Scan, EndPass, PushRejected, BeginCausal, BeginPush, PushCurrent
<1>7. CASE Environment
    BY <1>2, <1>7 DEF Environment, UserSave, UserMkdir, UserEdit, UserDelete, UserEditHeld,
       Crash, Revoke, RevokeReturns
<1>8. CASE UNCHANGED vars
    BY <1>8 DEF vars
<1> QED BY <1>3, <1>4, <1>5, <1>6, <1>7, <1>8 DEF Next

\* The layers together, for a root that does not serve the v1 protocol.
LEMMA RemoteAlways ==
    ASSUME ~PushV1 PROVE Spec => [](BaseInv /\ (faults = 0 => RemoteInv))
<1>1. Init => CausalInv
    BY DEF Init, CausalInv, Causal, Files, UnusedChange, NoRow, Resting, MaybeUnbound
<1>2. Init => RemoteInv
    BY DEF Init, RemoteInv, AllExplained, NoneForeign, StepClear, RowsAuthored, Remote,
       RemoteNeverAuthored, Authored, Pending, UnusedChange, NoRow
<1>3. Spec => []BaseInv
    <2>1. BaseInv <=> TypeInv /\ JournalInv /\ BetweenInv /\ IdentityInv /\ CausalInv
        BY DEF BaseInv
    <2> QED BY <1>1, <2>1, IdentityAlways, CausalStep, PTL DEF Spec
<1>4. BaseInv /\ (faults = 0 => RemoteInv) /\ [Next]_vars => (faults = 0 => RemoteInv)'
    <2>1. BaseInv => TypeInv
        BY DEF BaseInv
    <2> QED BY <2>1, FaultsGrow, RemoteStep
<1> QED BY <1>2, <1>3, <1>4, PTL DEF Spec

\* On a root that serves the v2 protocol, as every share does, a scan never
\* takes bytes installed for a causal record for a local edit, whatever edits,
\* crashes, recoveries, repeated pushes and revocations come between; this holds
\* until a commit fails after the installation (put_change or an fsync in
\* materialize_path_change), when abort_path_change leaves the object at the path.
THEOREM RemoteBytesNotAuthored ==
    ASSUME ~PushV1 PROVE Spec => [](faults = 0 => RemoteNeverAuthored)
<1>1. RemoteInv => RemoteNeverAuthored
    BY DEF RemoteInv, RowsAuthored
<1> QED BY <1>1, RemoteAlways, PTL

-----------------------------------------------------------------------------
(* Interrupted attempts can be resumed *)

Staged(i) == journal[i].record.kind = "file" => staging[i] # {}

\* What resume_path_change finds of an attempt in state s that only the
\* program itself has touched: the original is at the path or in the vault, and
\* the incoming file is staged or installed.
Resumable(i, s) ==
    LET c == journal[i] IN
    /\ c.record # c.pre
    /\ s = "Prepared" =>
          /\ Staged(i)
          /\ \/ dest = c.expected /\ artifact[i] = {}
             \/ dest = {} /\ artifact[i] = c.expected
    /\ (s = "Preserved" /\ c.metaOnly) => dest = c.expected
    /\ (s = "Preserved" /\ ~c.metaOnly) =>
          /\ artifact[i] = c.expected
          /\ ((dest = {} /\ Staged(i)) \/ Shows(dest, c.record))

AllResumable == \A i \in Attempt : Pending(i) => Resumable(i, journal[i].state)

\* What the program relies on between two of its steps; no bound attempt is
\* ever given up.
StepExact ==
    /\ pc \in {"stage", "bind"} =>
          dest = journal[cur].expected /\ journal[cur].record # journal[cur].pre
    /\ pc = "bind" => Staged(cur)
    /\ pc = "verify" => artifact[cur] = journal[cur].expected
    /\ (pc \in {"install", "place"} /\ ~journal[cur].metaOnly) => dest = {} /\ Staged(cur)
    /\ pc \in {"restore", "abandon"} => ~journal[cur].bound

ExactInv == AllResumable /\ StepExact

\* The user has not acted and no commit has failed.
Undisturbed == writes = 0 /\ faults = 0

\* put_change of a state the attempt can be resumed from.
LEMMA ExactSetState ==
    ASSUME TypeInv, ExactInv, NEW i \in Attempt, NEW s, SetState(i, s),
           UNCHANGED <<dest, artifact, staging>>, StepExact',
           (journal[i].bound /\ s \notin Terminal) => Resumable(i, s)
    PROVE  ExactInv'
<1>1. /\ \A j \in Attempt : j # i => journal'[j] = journal[j]
      /\ journal'[i].state = s /\ journal'[i].expected = journal[i].expected
      /\ journal'[i].record = journal[i].record /\ journal'[i].bound = journal[i].bound
      /\ journal'[i].metaOnly = journal[i].metaOnly /\ journal'[i].pre = journal[i].pre
    BY SetStateOnly DEF TypeInv, TypeOK
<1>2. ASSUME NEW j \in Attempt, j # i, Pending(j)' PROVE Resumable(j, journal[j].state)'
    <2>1. journal'[j] = journal[j]
        BY <1>1, <1>2
    <2>2. Resumable(j, journal[j].state)
        BY <1>2, <2>1 DEF ExactInv, AllResumable, Pending
    <2> QED BY <2>1, <2>2 DEF Resumable, Staged, Shows, Matches
<1>3. Pending(i)' => Resumable(i, journal[i].state)'
    BY <1>1 DEF Pending, Resumable, Staged, Shows, Matches
<1> QED BY <1>2, <1>3 DEF ExactInv, AllResumable

\* While the user is away and no commit fails, every attempt stays resumable.
LEMMA ExactStep ==
    ASSUME ~PushV1, ~Repush
    PROVE  BaseInv /\ ExactInv /\ [Next]_vars /\ Undisturbed /\ Undisturbed' => ExactInv'
<1> SUFFICES ASSUME BaseInv, ExactInv, [Next]_vars, Undisturbed, Undisturbed'
             PROVE  ExactInv'
    OBVIOUS
<1>a. /\ journal \in [Attempt -> PathChange] /\ artifact \in [Attempt -> Location]
      /\ staging \in [Attempt -> Location]
      /\ pc \notin Resting => cur \in Attempt
    BY DEF BaseInv, TypeInv, TypeOK, Working
<1>b. /\ \A i \in Attempt : Causal(i)
      /\ pc \notin MaybeUnbound => journal[cur].bound
    BY DEF BaseInv, CausalInv
<1>c. AllResumable /\ StepExact /\ TypeInv
    BY DEF ExactInv, BaseInv
<1>d. StepState /\ OnePending /\ VaultKnown
    BY DEF BaseInv, JournalInv
<1> USE DEF At, Goto, Return, Fail, proc, index, env, Resting, MaybeUnbound
<1>1. CASE /\ Quiet
           /\ \/ pc' \in {"down", "idle", "recover", "recovered"}
              \/ pc' = pc /\ cur' = cur
              \/ Onward
    <2>1. UNCHANGED <<dest, artifact, staging, journal>>
        BY <1>1 DEF Quiet
    <2>2. AllResumable'
        BY <2>1, <1>c DEF AllResumable, Resumable, Pending, Staged, Shows, Matches
    <2>3. CASE pc' \in {"down", "idle", "recover", "recovered"}
        BY <2>2, <2>3 DEF ExactInv, StepExact
    <2>4. CASE pc' = pc /\ cur' = cur
        BY <2>1, <2>2, <2>4, <1>c DEF ExactInv, StepExact, Staged
    <2>5. CASE Onward
        <3>1. ~PlaceFault
            BY DEF PlaceFault, Undisturbed, BaseInv, TypeInv, TypeOK
        <3>2. CASE InstallCheck
            <4>1. /\ Resumable(cur, "Preserved") /\ cur' = cur /\ cur \in Attempt
                BY <3>2, <1>a, <1>b, <1>c, <1>d
                DEF InstallCheck, StepState, AllResumable, Pending, Terminal
            <4>2. pc' = "place"
                BY <3>2, <4>1 DEF InstallCheck, Resumable, Detaches
            <4> QED BY <2>1, <2>2, <3>2, <4>1, <4>2, <1>c DEF InstallCheck, ExactInv, StepExact, Staged
        <3>3. ~PlaceRefused
            <4> SUFFICES ASSUME PlaceRefused PROVE FALSE
                OBVIOUS
            <4>1. Resumable(cur, "Preserved") /\ Causal(cur)
                BY <1>a, <1>b, <1>c, <1>d
                DEF PlaceRefused, StepState, AllResumable, Pending, Terminal
            <4> QED BY <4>1, <1>c DEF PlaceRefused, Resumable, StepExact, Causal, Staged
        <3>4. CASE Onward /\ ~InstallCheck
            BY <2>1, <2>2, <3>1, <3>3, <3>4, <1>c DEF Onward, SweepUnbound, Unbound, RecoverMark,
               RecoverDecide, ResumeMaterialized, PlaceNothing, Observe, Withdrawn, ExactInv, StepExact
        <3> QED BY <2>5, <3>2, <3>4
    <2> QED BY <1>1, <2>3, <2>4, <2>5
<1>2. CASE \E i \in Attempt : SweepIndexed(i)
    <2>1. PICK i \in Attempt : SweepIndexed(i)
        BY <1>2
    <2>2. StepExact' /\ UNCHANGED <<dest, artifact, staging>>
        BY <2>1 DEF SweepIndexed, StepExact
    <2> QED BY <2>1, <2>2, <1>c, ExactSetState DEF SweepIndexed, Terminal
<1>3. CASE \E i \in Attempt : MarkIndexed(i)
    <2>1. PICK i \in Attempt : MarkIndexed(i)
        BY <1>3
    <2>2. /\ journal[i].state = "Materialized" /\ SetState(i, "Indexed")
          /\ StepExact' /\ UNCHANGED <<dest, artifact, staging>>
        BY <2>1 DEF MarkIndexed, ToMark, Completes, StepExact
    <2>3. journal[i].bound => Resumable(i, "Indexed")
        BY <2>2, <1>c DEF AllResumable, Pending, Terminal, Resumable
    <2> QED BY <2>2, <2>3, <1>c, ExactSetState DEF Terminal
<1>4. CASE ResumePrepared
    <2>1. /\ cur \in Attempt /\ journal[cur].bound /\ journal[cur].state = "Prepared"
          /\ UNCHANGED <<dest, artifact, staging>> /\ pc' \in {"resume", "idle", "check"}
        BY <1>4, <1>a, <1>b DEF ResumePrepared
    <2>2. StepExact'
        BY <2>1 DEF StepExact
    <2>3. CASE UNCHANGED journal
        BY <2>1, <2>2, <2>3, <1>c
        DEF ExactInv, AllResumable, Resumable, Pending, Staged, Shows, Matches
    <2>4. CASE /\ artifact[cur] # {} /\ artifact[cur] = journal[cur].expected
               /\ SetState(cur, "Preserved")
        <3>1. Resumable(cur, "Prepared") /\ ~journal[cur].metaOnly
            BY <2>1, <2>4, <1>c, <1>d DEF AllResumable, Pending, Terminal, VaultKnown, Detaches
        <3>2. Resumable(cur, "Preserved")
            BY <2>4, <3>1 DEF Resumable
        <3> QED BY <2>1, <2>2, <2>4, <3>2, <1>c, ExactSetState DEF Terminal
    <2> QED BY <1>4, <2>3, <2>4 DEF ResumePrepared
<1>5. CASE ResumePreserved
    <2>1. /\ cur \in Attempt /\ journal[cur].bound /\ journal[cur].state = "Preserved"
          /\ UNCHANGED <<dest, artifact, staging>> /\ Resumable(cur, "Preserved") /\ Causal(cur)
        BY <1>5, <1>a, <1>b, <1>c DEF ResumePreserved, AllResumable, Pending, Terminal
    <2>2. CASE SetState(cur, "Materialized") /\ Goto("observe")
        <3>1. StepExact' /\ Resumable(cur, "Materialized")
            BY <2>1, <2>2 DEF StepExact, Resumable
        <3> QED BY <2>1, <2>2, <3>1, <1>c, ExactSetState DEF Terminal
    <2>3. CASE ~Shows(dest, journal[cur].record) /\ Goto("install") /\ UNCHANGED journal
        <3>1. ~journal[cur].metaOnly => dest = {} /\ Staged(cur)
            BY <2>1, <2>3 DEF Resumable
        <3>2. StepExact'
            BY <2>1, <2>3, <3>1 DEF StepExact, Staged
        <3> QED BY <2>1, <2>3, <3>2, <1>c
            DEF ExactInv, AllResumable, Resumable, Pending, Staged, Shows, Matches
    <2> QED BY <1>5, <2>2, <2>3 DEF ResumePreserved
<1>6. CASE Bind
    <2>1. /\ cur \in Attempt /\ pc' = "check" /\ UNCHANGED <<dest, artifact, staging>>
          /\ cur' = cur /\ \A j \in Attempt : j # cur => journal'[j] = journal[j]
          /\ journal'[cur].expected = journal[cur].expected
          /\ journal'[cur].record = journal[cur].record
          /\ journal'[cur].pre = journal[cur].pre
          /\ journal'[cur].state = "Prepared"
          /\ artifact[cur] = {}
        BY <1>6, <1>a, <1>d DEF Bind, PathChange, StepState, VaultKnown
    <2>2. /\ dest = journal[cur].expected /\ journal[cur].record # journal[cur].pre
          /\ Staged(cur)
        BY <1>6, <1>c DEF Bind, StepExact
    <2>3. Resumable(cur, "Prepared")'
        BY <2>1, <2>2 DEF Resumable, Staged
    <2>4. \A j \in Attempt : j # cur /\ Pending(j)' => Resumable(j, journal[j].state)'
        BY <2>1, <1>c DEF AllResumable, Pending, Resumable, Staged, Shows, Matches
    <2> QED BY <2>1, <2>3, <2>4 DEF ExactInv, AllResumable, StepExact
<1>7. CASE CaptureCheck
    <2>1. /\ cur \in Attempt /\ journal[cur].bound /\ journal[cur].state = "Prepared"
          /\ UNCHANGED <<dest, artifact, staging>> /\ Resumable(cur, "Prepared")
        BY <1>7, <1>a, <1>b, <1>c, <1>d
        DEF CaptureCheck, StepState, AllResumable, Pending, Terminal
    <2>2. CASE UNCHANGED journal /\ pc' \in {"idle", "capture"}
        BY <2>1, <2>2, <1>c
        DEF ExactInv, AllResumable, Resumable, Pending, Staged, Shows, Matches, StepExact
    <2>3. CASE /\ dest = journal[cur].expected /\ ~Detaches(journal[cur])
               /\ SetState(cur, "Preserved") /\ Goto(AfterCapture)
        <3>1. artifact[cur] = {} /\ (~journal[cur].metaOnly => dest = {}) /\ Staged(cur)
            BY <2>1, <2>3, <1>d DEF VaultKnown, Detaches, Resumable
        <3>2. Resumable(cur, "Preserved")
            BY <2>1, <2>3, <3>1 DEF Resumable
        <3>3. StepExact'
            BY <2>1, <2>3, <3>1, <1>a, SetStateOnly DEF StepExact, AfterCapture, Staged
        <3> QED BY <2>1, <2>3, <3>2, <3>3, <1>c, ExactSetState DEF Terminal
    <2> QED BY <1>7, <2>2, <2>3 DEF CaptureCheck
<1>8. CASE CaptureVerify
    <2>1. /\ cur \in Attempt /\ journal[cur].bound /\ journal[cur].state = "Prepared"
          /\ UNCHANGED <<dest, artifact, staging>> /\ Resumable(cur, "Prepared")
          /\ artifact[cur] = journal[cur].expected
        BY <1>8, <1>a, <1>b, <1>c, <1>d
        DEF CaptureVerify, StepState, AllResumable, Pending, Terminal, StepExact
    <2>2. SetState(cur, "Preserved") /\ Goto(AfterCapture)
        BY <1>8, <2>1 DEF CaptureVerify
    <2>3. ~journal[cur].metaOnly /\ dest = {} /\ Staged(cur)
        BY <2>1, <1>b, <1>d DEF VaultKnown, Detaches, Resumable, Causal, IsDir
    <2>4. Resumable(cur, "Preserved")
        BY <2>1, <2>3 DEF Resumable
    <2>5. StepExact'
        BY <2>1, <2>2, <2>3, <1>a, SetStateOnly DEF StepExact, AfterCapture, Staged
    <2> QED BY <2>1, <2>2, <2>4, <2>5, <1>c, ExactSetState DEF Terminal
<1>9. CASE RecordMaterialized
    <2>1. /\ cur \in Attempt /\ SetState(cur, "Materialized") /\ Resumable(cur, "Preserved")
          /\ UNCHANGED <<dest, artifact, staging>> /\ pc' = "observe"
        BY <1>9, <1>a, <1>b, <1>c, <1>d
        DEF RecordMaterialized, StepState, AllResumable, Pending, Terminal
    <2>2. StepExact' /\ Resumable(cur, "Materialized")
        BY <2>1 DEF StepExact, Resumable
    <2> QED BY <2>1, <2>2, <1>c, ExactSetState
<1>10. CASE Abandon
    <2>1. /\ cur \in Attempt /\ SetState(cur, "Aborted")
          /\ UNCHANGED <<dest, artifact, staging>> /\ StepExact'
        BY <1>10, <1>a DEF Abandon, StepExact
    <2> QED BY <2>1, <1>c, ExactSetState DEF Terminal
<1>11. CASE MarkCommitted
    <2>1. /\ cur \in Attempt /\ SetState(cur, "Committed")
          /\ UNCHANGED <<dest, artifact, staging>> /\ StepExact'
        BY <1>11, <1>a DEF MarkCommitted, StepExact
    <2> QED BY <2>1, <1>c, ExactSetState DEF Terminal
<1>12. CASE RollbackSkip
    <2>1. /\ cur \in Attempt /\ SetState(cur, "RolledBack")
          /\ UNCHANGED <<dest, artifact, staging>> /\ StepExact'
        BY <1>12, <1>a DEF RollbackSkip, StepExact
    <2> QED BY <2>1, <1>c, ExactSetState DEF Terminal
<1>13. CASE RollbackStart
    <2>1. /\ cur \in Attempt /\ SetState(cur, "RollingBack") /\ Pending(cur)
          /\ UNCHANGED <<dest, artifact, staging>> /\ StepExact'
        BY <1>13, <1>a, <1>b, <1>d DEF RollbackStart, StepExact, StepState, Pending, Terminal
    <2>2. Resumable(cur, "RollingBack")
        BY <2>1, <1>c DEF AllResumable, Resumable
    <2> QED BY <2>1, <2>2, <1>c, ExactSetState
<1>14. CASE Rolled
    <2>1. /\ cur \in Attempt /\ SetState(cur, "RolledBack")
          /\ UNCHANGED <<dest, artifact, staging>> /\ StepExact'
        BY <1>14, <1>a DEF Rolled, StepExact
    <2> QED BY <2>1, <1>c, ExactSetState DEF Terminal
<1>15. CASE \E i \in Attempt, r \in Incoming : BeginCausal(i, r)
    <2>1. PICK i \in Attempt, r \in Incoming : BeginCausal(i, r)
        BY <1>15
    <2>2. r # idx /\ Prepare(i, r)
        BY <2>1, <1>c DEF BeginCausal, Incoming, TypeInv, TypeOK, Row
    <2>3. /\ journal'[i].expected = dest /\ journal'[i].record = r /\ ~journal'[i].bound
          /\ journal'[i].pre = idx
          /\ \A j \in Attempt : j # i => journal'[j] = journal[j]
          /\ UNCHANGED <<dest, artifact, staging>> /\ cur' = i
          /\ pc' = "stage" \/ (pc' = "bind" /\ r.kind # "file")
        BY <2>2, <1>a DEF Prepare
    <2>4. AllResumable'
        BY <2>3, <1>c DEF AllResumable, Pending, Resumable, Staged, Shows, Matches
    <2>5. StepExact'
        BY <2>2, <2>3 DEF StepExact, Staged
    <2> QED BY <2>4, <2>5 DEF ExactInv
<1>16. CASE WriteStaging
    <2>1. /\ cur \in Attempt /\ UNCHANGED <<dest, artifact, journal>> /\ cur' = cur
          /\ pc = "stage" /\ pc' = "bind" /\ staging'[cur] # {}
          /\ \A j \in Attempt : j # cur => staging'[j] = staging[j]
        BY <1>16, <1>a, <1>b DEF WriteStaging, Causal
    <2>2. \A j \in Attempt : Staged(j) => Staged(j)'
        BY <2>1 DEF Staged
    <2>3. AllResumable'
        BY <2>1, <2>2, <1>c DEF AllResumable, Resumable, Pending, Shows, Matches
    <2>4. StepExact'
        BY <2>1, <1>c DEF StepExact, Staged
    <2> QED BY <2>3, <2>4 DEF ExactInv
<1>17. CASE CaptureMove
    <2>1. /\ cur \in Attempt /\ journal[cur].state = "Prepared" /\ UNCHANGED <<journal, staging>>
          /\ Resumable(cur, "Prepared")
          /\ \A j \in Attempt : Pending(j) => j = cur
        BY <1>17, <1>a, <1>b, <1>c, <1>d
        DEF CaptureMove, StepState, OnePending, Applying, AllResumable, Pending, Terminal
    <2>2. CASE UNCHANGED <<dest, artifact>> /\ pc' = "idle"
        BY <2>1, <2>2, <1>c
        DEF ExactInv, AllResumable, Resumable, Pending, Staged, Shows, Matches, StepExact
    <2>3. CASE dest # {} /\ artifact' = [artifact EXCEPT ![cur] = dest] /\ dest' = {}
               /\ Goto("verify")
        <3>1. artifact'[cur] = dest /\ dest = journal[cur].expected
            BY <2>1, <2>3, <1>a DEF Resumable
        <3>2. Resumable(cur, "Prepared")'
            BY <2>1, <2>3, <3>1 DEF Resumable, Staged
        <3>3. AllResumable'
            BY <2>1, <2>3, <3>2 DEF AllResumable, Pending
        <3> QED BY <2>1, <2>3, <3>1, <3>3 DEF ExactInv, StepExact
    <2> QED BY <1>17, <2>2, <2>3 DEF CaptureMove
<1>18. CASE PlaceFile \/ PlaceDirectory
    <2>1. /\ cur \in Attempt /\ journal[cur].state = "Preserved" /\ UNCHANGED <<artifact, journal>>
          /\ Resumable(cur, "Preserved") /\ Causal(cur) /\ pc' = "record" /\ cur' = cur
          /\ \A j \in Attempt : Pending(j) => j = cur
        BY <1>18, <1>a, <1>b, <1>c, <1>d DEF PlaceFile, PlaceDirectory, store, StepState,
           OnePending, Applying, AllResumable, Pending, Terminal
    <2>2. ~journal[cur].metaOnly
        BY <1>18, <2>1 DEF PlaceFile, PlaceDirectory, Causal
    <2>3. \E o \in dest' : /\ o.kind = journal[cur].record.kind
                           /\ (o.kind = "file" => o.data = journal[cur].record.data)
        <3>1. CASE PlaceFile
            <4>1. /\ journal[cur].record.kind = "file" /\ staging[cur] # {}
                  /\ dest' = staging[cur]
                BY <3>1 DEF PlaceFile
            <4>2. PICK o \in staging[cur] : TRUE
                BY <4>1
            <4>3. o.kind = "file" /\ o.data = journal[cur].record.data
                BY <2>1, <4>2 DEF BaseInv, IdentityInv, Aged, Brought
            <4> QED BY <4>1, <4>2, <4>3
        <3>2. CASE PlaceDirectory
            <4>1. /\ journal[cur].record.kind = "dir"
                  /\ dest' = {[ino |-> clock, kind |-> "dir", data |-> NoData]}
                BY <3>2 DEF PlaceDirectory
            <4> QED BY <4>1
        <3> QED BY <1>18, <3>1, <3>2
    <2>4. Shows(dest, journal[cur].record)'
        BY <1>18, <2>1, <2>3 DEF PlaceFile, PlaceDirectory, Shows, Matches
    <2>5. Resumable(cur, "Preserved")'
        BY <2>1, <2>2, <2>4 DEF Resumable
    <2> QED BY <2>1, <2>5 DEF ExactInv, AllResumable, Pending, StepExact
<1>19. CASE Restore
    <2>1. /\ cur \in Attempt /\ ~journal[cur].bound /\ artifact[cur] = {}
        BY <1>19, <1>a, <1>b, <1>c DEF Restore, StepExact, Causal
    <2>2. UNCHANGED <<dest, artifact, staging, journal>> /\ pc' = "abandon" /\ cur' = cur
        BY <1>19, <2>1 DEF Restore
    <2> QED BY <2>1, <2>2, <1>c
        DEF ExactInv, AllResumable, Resumable, Pending, Staged, Shows, Matches, StepExact
<1>20. CASE Withdraw \/ Reinstate
    <2>1. /\ cur \in Attempt /\ UNCHANGED <<journal, staging>>
          /\ journal[cur].state = "RollingBack" /\ Pending(cur)
          /\ pc' \in {"idle", "withdrawn", "rolled"}
          /\ \A j \in Attempt : Pending(j) => j = cur
        BY <1>20, <1>a, <1>b, <1>d
        DEF Withdraw, Reinstate, StepState, Pending, Terminal, OnePending
    <2>2. AllResumable' /\ StepExact'
        BY <2>1, <1>c DEF AllResumable, Resumable, Pending, StepExact
    <2> QED BY <2>2 DEF ExactInv
<1>21. CASE Scan \/ Adopt
    <2>1. UNCHANGED <<dest, artifact, staging, journal>> /\ pc' \in {"ready", "marking"}
        BY <1>21 DEF Scan, Adopt, store
    <2> QED BY <2>1, <1>c
        DEF ExactInv, AllResumable, Resumable, Pending, Staged, Shows, Matches, StepExact
<1>22. ~(UserSave \/ UserMkdir \/ UserEdit \/ UserDelete \/ \E i \in Attempt : UserEditHeld(i))
    BY DEF UserSave, UserMkdir, UserEdit, UserDelete, UserEditHeld, UserStep, Undisturbed
<1> QED
    BY QuietOrNot, <1>1, <1>2, <1>3, <1>4, <1>5, <1>6, <1>7, <1>8, <1>9, <1>10, <1>11,
       <1>12, <1>13, <1>14, <1>15, <1>16, <1>17, <1>18, <1>19, <1>20, <1>21, <1>22
    DEF BeginPush, PushCurrent

\* The user counts too.
LEMMA WritesGrow == TypeInv /\ [Next]_vars => (writes' = 0 => writes = 0)
<1> SUFFICES ASSUME TypeInv, [Next]_vars, writes # 0 PROVE writes' # 0
    OBVIOUS
<1>1. UserStep => writes' # 0
    BY DEF UserStep, TypeInv, TypeOK
<1> USE DEF env, Prepare
<1>3. CASE Recovery
    BY <1>3 DEF Recovery, Restart, StartPass, RecoverRefuse, RecoverDone, SweepUnbound,
       SweepIndexed, RecoverMark, RecoverDecide, ResumePrepared, ResumePreserved,
       ResumeMaterialized
<1>4. CASE Application
    BY <1>4 DEF Application, WriteStaging, Bind, CaptureCheck, CaptureMove, CaptureVerify,
       InstallCheck, PlaceFile, PlaceDirectory, PlaceNothing, PlaceRefused,
       RecordMaterialized, Restore, Abandon, Observe, Adopt, MarkCommitted, MarkDone,
       MarkIndexed
<1>5. CASE Undo
    BY <1>5 DEF Undo, RollbackSkip, RollbackStart, RollbackRefuse, Withdraw, Withdrawn,
       Reinstate, Rolled
<1>6. CASE Choice
    BY <1>6 DEF Choice, Scan, EndPass, PushRejected, BeginCausal, BeginPush, PushCurrent
<1>7. CASE Environment
    BY <1>1, <1>7 DEF Environment, UserSave, UserMkdir, UserEdit, UserDelete, UserEditHeld,
       PlaceFault, Crash, Revoke, RevokeReturns
<1>8. CASE UNCHANGED vars
    BY <1>8 DEF vars
<1> QED BY <1>3, <1>4, <1>5, <1>6, <1>7, <1>8 DEF Next

\* Recovery never refuses a journal that only the program itself has written:
\* on a root that serves the v2 protocol and is not sent a record it already
\* holds, every crash of every attempt, and every crash of the recovery from it,
\* leaves a journal that the next recovery goes on with; this holds until the
\* user edits the path or a commit fails.
THEOREM RecoveryGoesOn ==
    ASSUME ~PushV1, ~Repush
    PROVE  Spec => [](writes = 0 /\ faults = 0 => RecoveryIdempotent)
<1>1. Init => ExactInv
    BY DEF Init, ExactInv, AllResumable, StepExact, Pending, UnusedChange
<1>2. Spec => []BaseInv
    BY RemoteAlways, PTL
<1>3. BaseInv /\ (Undisturbed => ExactInv) /\ [Next]_vars => (Undisturbed => ExactInv)'
    <2>1. BaseInv => TypeInv
        BY DEF BaseInv
    <2> QED BY <2>1, FaultsGrow, WritesGrow, ExactStep DEF Undisturbed
<1>4. BaseInv /\ RefusalCauses /\ (Undisturbed => ExactInv)
         => (writes = 0 /\ faults = 0 => RecoveryIdempotent)
    <2> SUFFICES ASSUME BaseInv, RefusalCauses, ExactInv, At("recover"),
                        NEW i \in Attempt, Refuses(i)
                 PROVE  FALSE
        BY DEF Undisturbed, RecoveryIdempotent
    <2>1. Causal(i)
        BY DEF BaseInv, CausalInv
    <2>2. Pending(i) => Resumable(i, journal[i].state)
        BY DEF ExactInv, AllResumable
    <2>3. CASE journal[i].state = "Preserved" /\ Detaches(journal[i]) /\ artifact[i] = {}
        BY <2>1, <2>2, <2>3 DEF Pending, Terminal, Resumable, Causal, Detaches
    <2>4. CASE Pending(i) /\ journal[i].record = journal[i].pre
        BY <2>2, <2>4 DEF Resumable
    <2> QED BY <2>3, <2>4 DEF RefusalCauses
<1> QED BY <1>1, <1>2, <1>3, <1>4, RefusalsKnown, PTL DEF Spec
=============================================================================
