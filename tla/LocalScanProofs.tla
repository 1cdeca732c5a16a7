-------------------------- MODULE LocalScanProofs --------------------------
(***************************************************************************)
(* The safety properties of LocalScan for every tree, every order of the   *)
(* walk and every number of changes: what a scan buries was really absent, *)
(* a row never mixes two states of a file, and no commit goes back.        *)
(***************************************************************************)
EXTENDS LocalScan, TLAPS

-----------------------------------------------------------------------------
(* The invariant. *)

\* Every variable a scan or a row depends on keeps its type; only the root is
\* ever listed without having been looked at first.
Types ==
    /\ disk \in [Path -> Object \cup {None}] /\ edits \in Number
    /\ mtimeOf \in [Number -> Number] /\ rows \in [Path -> Row \cup {None}]
    /\ ignored \subseteq Path /\ scan \in Scan /\ gone \subseteq Path
    /\ \A v \in scan.todo : v.at = Root => v.list

\* The tree is one: what exists lies in a directory that exists.
Rooted ==
    \A p \in Path : disk[p] # None => /\ disk[p].dir <=> p \in Dir
                                      /\ Exists(Parent[p])

\* A content and a modification time that belong together.
Pair(data, mtime) == data <= edits /\ mtimeOf[data] = mtime
Stamped(o) == ~o.dir => Pair(o.data, o.mtime) /\ o.ctime <= edits

Stamps ==
    /\ \A p \in Path : disk[p] # None => Stamped(disk[p])
    /\ \A p \in Path : scan.found[p] # None => Stamped(scan.found[p])
    /\ \A p \in Live(rows) : rows[p].dir \/ Pair(rows[p].data, rows[p].mtime)

Scanning == scan.pc # "idle"

\* What was absent at some moment of the scan takes everything below it along.
Absences ==
    Scanning =>
       /\ \A p \in Path : disk[p] = None => p \in gone
       /\ \A p \in Path : Parent[p] \in gone => p \in gone

\* A path that was always there has been found, or will be, or the scan knows
\* that it does not know, unless its directory has not been found yet.
Met(q) ==
    \/ q \in scan.unsure \/ scan.found[q] # None \/ [list |-> FALSE, at |-> q] \in scan.todo
    \/ Parent[q] \in scan.unsure \/ [list |-> TRUE, at |-> Parent[q]] \in scan.todo
    \/ Parent[q] # Root /\ scan.found[Parent[q]] = None

Reached ==
    Scanning =>
       /\ scan.prev = rows /\ ignored \subseteq scan.unsure
       /\ \A q \in Path \ gone : Met(q)

\* What is known of a file while it is hashed.
Hashed(p) ==
    /\ scan.stage[p] # "none" => scan.found[p] # None /\ ~scan.found[p].dir
    /\ scan.stage[p] = "none" =>
          scan.found[p] = None \/ scan.found[p].dir \/ p \in scan.keep
    /\ scan.stage[p] = "read" /\ disk[p] = scan.found[p] => scan.data[p] = scan.found[p].data
    /\ scan.stage[p] = "done" => Pair(scan.data[p], scan.found[p].mtime)

Hashing ==
    scan.pc = "hash" => scan.todo = {} /\ \A p \in Path : Hashed(p)

ScanInv == Types /\ Rooted /\ Stamps /\ Absences /\ Reached /\ Hashing
-----------------------------------------------------------------------------
(* Directories. *)

LEMMA AboveSelf == \A p \in Path : p \in Above[p]
BY DEF Above

\* What lies above a directory lies above everything in it.
LEMMA AboveParent ==
    ASSUME NEW p \in Path, Parent[p] # Root
    PROVE  Parent[p] \in Path /\ Above[Parent[p]] \subseteq Above[p]
<1>1. Parent[p] \in Path
    BY LocalScanAssumption
<1>2. SUFFICES ASSUME NEW q \in Above[Parent[p]], NEW S \in SUBSET Path, p \in S, Upward(S)
               PROVE  q \in S
    BY <1>1 DEF Above
<1>3. Parent[p] \in S
    BY <1>2 DEF Upward
<1> QED BY <1>1, <1>2, <1>3 DEF Above

\* When a walk is over, every path that was always there has been found, or lies
\* under something the scan is unsure about: otherwise neither would its parent,
\* nor the parent of that, and so on for ever.
LEMMA WalkComplete ==
    ASSUME ScanInv, Scanning, scan.todo = {}, NEW p \in Path \ gone
    PROVE  scan.found[p] # None \/ Under(p, scan.unsure)
<1> DEFINE S == {q \in Path \ gone : scan.found[q] = None /\ ~Under(q, scan.unsure)}
<1>1. ASSUME NEW q \in S PROVE Parent[q] \in S
    <2>1. Met(q)
        BY DEF ScanInv, Reached
    <2>2. q \notin scan.unsure /\ Above[q] \cap scan.unsure = {}
        BY AboveSelf DEF Under
    <2>3. CASE Parent[q] = Root
        <3>1. scan.unsure \subseteq Path
            BY DEF ScanInv, Types, Scan
        <3> QED BY <2>1, <2>2, <2>3, <3>1, LocalScanAssumption DEF Met
    <2>4. CASE Parent[q] # Root
        <3>1. Parent[q] \in Path /\ Above[Parent[q]] \subseteq Above[q]
            BY <2>4, AboveParent
        <3>2. Parent[q] \notin scan.unsure /\ ~Under(Parent[q], scan.unsure)
            BY <2>2, <3>1, AboveSelf DEF Under
        <3>3. Parent[q] \notin gone
            BY DEF ScanInv, Absences
        <3> QED BY <2>1, <2>2, <2>4, <3>1, <3>2, <3>3 DEF Met
    <2> QED BY <2>3, <2>4
<1>2. S = {}
    <2> SUFFICES ASSUME S # {} PROVE FALSE
        OBVIOUS
    <2>1. S \in (SUBSET Path) \ {{}}
        OBVIOUS
    <2> QED BY <1>1, <2>1, LocalScanAssumption
<1> QED BY <1>2

-----------------------------------------------------------------------------
(* Users. *)

\* What stays true of stamps when contents are added.
Later == /\ edits' \in Number /\ edits <= edits'
         /\ \A n \in Number : n <= edits => mtimeOf'[n] = mtimeOf[n]

LEMMA Numbers == MaxEdits \in Nat /\ \A n \in Number : n \in Nat /\ n <= MaxEdits
<1>1. MaxEdits \in Nat
    BY LocalScanAssumption
<1> QED BY <1>1 DEF Number

LEMMA PairStays ==
    ASSUME Types, Later, NEW d \in Number, NEW m, Pair(d, m)
    PROVE  Pair(d, m)'
BY Numbers DEF Pair, Later, Types

LEMMA StampStays ==
    ASSUME Types, Later, NEW o \in Object, Stamped(o)
    PROVE  Stamped(o)'
<1>1. o.data \in Number /\ o.ctime \in Nat /\ edits \in Nat /\ edits' \in Nat
    BY Numbers DEF Later, Types, Object
<1>2. ~o.dir => Pair(o.data, o.mtime)'
    BY <1>1, PairStays DEF Stamped
<1>3. ~o.dir => o.ctime <= edits'
    BY <1>1 DEF Later, Stamped
<1> QED BY <1>2, <1>3 DEF Stamped

\* A step of the users: whatever they put somewhere while a scan goes on is not
\* what the scan found there.
LEMMA EditStep ==
    ASSUME ScanInv, Later, mtimeOf' \in [Number -> Number],
           disk' \in [Path -> Object \cup {None}], Rooted',
           \A p \in Path : (disk[p] # None => Stamped(disk[p]))',
           \A p \in Path : \/ disk'[p] = disk[p] \/ disk'[p] = None \/ disk'[p].dir
                           \/ disk'[p].ctime > edits,
           UNCHANGED <<rows, ignored, scan>>,
           gone' = IF scan = Idle THEN {} ELSE gone \cup {p \in Path : disk'[p] = None}
    PROVE  ScanInv'
<1> USE DEF Scanning
<1>0. Types /\ scan \in Scan
    BY DEF ScanInv, Types
<1>1. Types'
    BY DEF ScanInv, Types, Later
<1>2. Stamps'
    <2>1. \A p \in Path : scan.found[p] # None => Stamped(scan.found[p])'
        <3> SUFFICES ASSUME NEW p \in Path, scan.found[p] # None PROVE Stamped(scan.found[p])'
            OBVIOUS
        <3>1. scan.found[p] \in Object /\ Stamped(scan.found[p])
            BY <1>0 DEF ScanInv, Stamps, Scan
        <3> QED BY <1>0, <3>1, StampStays
    <2>2. \A p \in Live(rows) : rows[p].dir \/ Pair(rows[p].data, rows[p].mtime)'
        <3> SUFFICES ASSUME NEW p \in Live(rows), ~rows[p].dir
                     PROVE  Pair(rows[p].data, rows[p].mtime)'
            OBVIOUS
        <3>1. rows[p].data \in Number /\ Pair(rows[p].data, rows[p].mtime)
            BY <1>0 DEF ScanInv, Stamps, Types, Live, Row
        <3> QED BY <1>0, <3>1, PairStays
    <2> QED BY <2>1, <2>2 DEF Stamps
<1>3. Absences'
    <2> SUFFICES ASSUME scan.pc # "idle" PROVE /\ \A p \in Path : disk'[p] = None => p \in gone'
                                            /\ \A p \in Path : Parent[p] \in gone' => p \in gone'
        BY DEF Absences
    <2>1. gone' = gone \cup {p \in Path : disk'[p] = None}
        BY DEF Idle
    <2>2. ASSUME NEW p \in Path, Parent[p] \in gone' PROVE p \in gone'
        <3>1. CASE Parent[p] \in gone
            BY <2>1, <3>1 DEF ScanInv, Absences
        <3>2. CASE Parent[p] \in Path /\ disk'[Parent[p]] = None
            <4>1. disk'[p] = None
                BY <3>2, LocalScanAssumption DEF Rooted, Exists
            <4> QED BY <2>1, <4>1
        <3> QED BY <2>1, <2>2, <3>1, <3>2
    <2> QED BY <2>1, <2>2
<1>4. Reached'
    <2> SUFFICES ASSUME scan.pc # "idle" PROVE Reached'
        BY DEF Reached
    <2>1. gone \subseteq gone'
        BY DEF Idle
    <2> QED BY <2>1 DEF ScanInv, Reached, Met
<1>5. Hashing'
    <2> SUFFICES ASSUME scan.pc = "hash", NEW p \in Path PROVE Hashed(p)'
        BY DEF Hashing, ScanInv
    <2>1. Hashed(p) /\ scan.data[p] \in Number
        BY <1>0 DEF ScanInv, Hashing, Scan
    <2>2. ASSUME scan.stage[p] = "read", disk'[p] = scan.found[p]
          PROVE  scan.data[p] = scan.found[p].data
        <3>1. scan.found[p] \in Object /\ ~scan.found[p].dir /\ scan.found[p] # None
            BY <1>0, <2>1, <2>2 DEF Hashed, Scan
        <3>2. scan.found[p].ctime <= edits
            BY <3>1 DEF ScanInv, Stamps, Stamped
        <3>4. scan.found[p].ctime \in Nat /\ edits \in Nat
            BY <1>0, <3>1, Numbers DEF Object, Types
        <3>3. disk[p] = scan.found[p]
            BY <2>2, <3>1, <3>2, <3>4
        <3> QED BY <2>1, <2>2, <3>3 DEF Hashed
    <2>3. ASSUME scan.stage[p] = "done" PROVE Pair(scan.data[p], scan.found[p].mtime)'
        BY <1>0, <2>1, <2>3, PairStays DEF Hashed
    <2> QED BY <2>1, <2>2, <2>3 DEF Hashed
<1> QED BY <1>1, <1>2, <1>3, <1>4, <1>5 DEF ScanInv

\* The actions of the users, and what they have in common.
LEMMA UserStep ==
    ASSUME ScanInv, NEW p \in Path,
           Write(p) \/ Mkdir(p) \/ Remove(p) \/ \E q \in Path : Rename(p, q)
    PROVE  ScanInv'
<1> DEFINE n == edits + 1
<1>0. /\ disk \in [Path -> Object \cup {None}] /\ mtimeOf \in [Number -> Number]
      /\ edits \in Number /\ edits \in Nat
    BY Numbers DEF ScanInv, Types
<1>1. /\ edits' = n /\ n \in Number /\ n \in Nat /\ UNCHANGED <<rows, ignored, scan>>
      /\ gone' = IF scan = Idle THEN {} ELSE gone \cup {r \in Path : disk'[r] = None}
    <2>1. edits < MaxEdits /\ edits' = n /\ UNCHANGED <<rows, ignored, scan>>
          /\ gone' = IF scan = Idle THEN {} ELSE gone \cup {r \in Path : disk'[r] = None}
        BY DEF Write, Mkdir, Remove, Rename, Edit, base
    <2> QED BY <1>0, <2>1, Numbers DEF Number
<1>2. \A r \in Path : Parent[r] \in Path => Parent[r] \in Dir
    BY LocalScanAssumption
<1>3. ASSUME Write(p) PROVE ScanInv'
    <2>1. PICK m \in {n} \cup {disk[q].mtime : q \in {p} \ {r \in Path : disk[r] = None}} :
             /\ disk' = [disk EXCEPT ![p] =
                   [dir |-> FALSE, ino |-> IF disk[p] = None THEN n ELSE disk[p].ino,
                    mtime |-> m, ctime |-> n, data |-> n]]
             /\ mtimeOf' = [mtimeOf EXCEPT ![n] = m]
        BY <1>3 DEF Write
    <2>2. m \in Number /\ (disk[p] # None => disk[p] \in Object /\ disk[p].ino \in Number)
        BY <1>0, <1>1 DEF Object
    <2>3. p \notin Dir /\ Exists(Parent[p])
        BY <1>3 DEF Write
    <2>4. disk' \in [Path -> Object \cup {None}] /\ mtimeOf' \in [Number -> Number]
        BY <1>0, <1>1, <2>1, <2>2 DEF Object
    <2>5. Later
        BY <1>0, <1>1, <2>1, Numbers DEF Later
    <2>6. Rooted'
        BY <1>0, <1>2, <2>1, <2>3, LocalScanAssumption DEF ScanInv, Rooted, Exists
    <2>7. \A r \in Path : (disk[r] # None => Stamped(disk[r]))'
        BY <1>0, <1>1, <2>1, <2>5, StampStays DEF ScanInv, Stamps, Stamped, Pair
    <2>8. \A r \in Path : disk'[r] = disk[r] \/ disk'[r] = None \/ disk'[r].dir
                           \/ disk'[r].ctime > edits
        BY <1>0, <2>1
    <2> QED BY <1>1, <2>4, <2>5, <2>6, <2>7, <2>8, EditStep
<1>4. ASSUME Mkdir(p) PROVE ScanInv'
    <2>1. /\ disk' = [disk EXCEPT ![p] = [dir |-> TRUE, ino |-> n, mtime |-> 0, ctime |-> 0,
                                          data |-> 0]]
          /\ mtimeOf' = mtimeOf /\ p \in Dir /\ disk[p] = None /\ Exists(Parent[p])
        BY <1>4 DEF Mkdir
    <2>2. 0 \in Number
        BY Numbers DEF Number
    <2>4. disk' \in [Path -> Object \cup {None}]
        BY <1>0, <1>1, <2>1, <2>2 DEF Object
    <2>5. Later
        BY <1>0, <1>1, <2>1, Numbers DEF Later
    <2>6. Rooted'
        BY <1>0, <1>2, <2>1, LocalScanAssumption DEF ScanInv, Rooted, Exists
    <2>7. \A r \in Path : (disk[r] # None => Stamped(disk[r]))'
        BY <1>0, <1>1, <2>1, <2>5, StampStays DEF ScanInv, Stamps, Stamped
    <2>8. \A r \in Path : disk'[r] = disk[r] \/ disk'[r] = None \/ disk'[r].dir
                           \/ disk'[r].ctime > edits
        BY <1>0, <2>1
    <2> QED BY <1>0, <1>1, <2>1, <2>4, <2>5, <2>6, <2>7, <2>8, EditStep
<1>5. ASSUME Remove(p) PROVE ScanInv'
    <2>1. /\ disk' = [disk EXCEPT ![p] = None] /\ mtimeOf' = mtimeOf
          /\ \A q \in Path : Parent[q] = p => disk[q] = None
        BY <1>5 DEF Remove
    <2>4. disk' \in [Path -> Object \cup {None}]
        BY <1>0, <2>1
    <2>5. Later
        BY <1>0, <1>1, <2>1, Numbers DEF Later
    <2>6. Rooted'
        BY <1>0, <1>2, <2>1, LocalScanAssumption DEF ScanInv, Rooted, Exists
    <2>7. \A r \in Path : (disk[r] # None => Stamped(disk[r]))'
        BY <1>0, <1>1, <2>1, <2>5, StampStays DEF ScanInv, Stamps
    <2>8. \A r \in Path : disk'[r] = disk[r] \/ disk'[r] = None \/ disk'[r].dir
                           \/ disk'[r].ctime > edits
        BY <1>0, <2>1
    <2> QED BY <1>0, <1>1, <2>1, <2>4, <2>5, <2>6, <2>7, <2>8, EditStep
<1>6. ASSUME NEW q \in Path, Rename(p, q) PROVE ScanInv'
    <2>1. /\ disk' = [disk EXCEPT ![q] = [disk[p] EXCEPT !.ctime = n], ![p] = None]
          /\ mtimeOf' = mtimeOf /\ p # q /\ p \notin Dir /\ q \notin Dir /\ disk[p] # None
          /\ Exists(Parent[q])
        BY <1>6 DEF Rename
    <2>2. disk[p] \in Object /\ ~disk[p].dir /\ Stamped(disk[p])
        BY <1>0, <2>1 DEF ScanInv, Rooted, Stamps
    <2> DEFINE o == [disk[p] EXCEPT !.ctime = n]
    <2>3. /\ o \in Object /\ o.dir = disk[p].dir /\ o.ctime = n /\ o.data = disk[p].data
          /\ o.mtime = disk[p].mtime
        BY <1>1, <2>2 DEF Object
    <2>9. disk' \in [Path -> Object \cup {None}] /\ disk'[q] = o /\ disk'[p] = None
          /\ \A r \in Path \ {p, q} : disk'[r] = disk[r]
        BY <1>0, <2>1, <2>3
    <2> HIDE DEF o
    <2>5. Later
        BY <1>0, <1>1, <2>1, Numbers DEF Later
    <2>6. Rooted'
        <3>1. \A d \in Dir \cup {Root} : Exists(d) => Exists(d)'
            BY <2>1, <2>9, LocalScanAssumption DEF Exists
        <3>2. \A r \in Path : Parent[r] \in Dir \cup {Root}
            BY LocalScanAssumption
        <3>3. disk'[q].dir <=> q \in Dir
            BY <2>1, <2>2, <2>3, <2>9
        <3>4. \A r \in Path \ {p, q} : disk'[r] # None => (disk'[r].dir <=> r \in Dir)
                                                         /\ Exists(Parent[r])
            BY <2>9 DEF ScanInv, Rooted
        <3> QED BY <2>1, <2>9, <3>1, <3>2, <3>3, <3>4 DEF Rooted
    <2>7. \A r \in Path : (disk[r] # None => Stamped(disk[r]))'
        <3>1. disk[p].data \in Number /\ Pair(disk[p].data, disk[p].mtime)
            BY <2>2 DEF Stamped, Object
        <3>2. ScanInv => Types
            BY DEF ScanInv
        <3>3. \A d \in Number, m \in Number : Pair(d, m) => Pair(d, m)'
            BY <2>5, <3>2, PairStays
        <3>4. mtimeOf'[o.data] = o.mtime /\ o.data <= edits'
            BY <2>3, <3>1, <3>3, <2>2, <2>5, <1>0 DEF Pair, Later, Object
        <3>5. (Stamped(disk[q]))'
            BY <1>1, <2>3, <2>9, <3>4 DEF Stamped, Pair
        <3>6. \A r \in Path \ {p, q} : (disk[r] # None => Stamped(disk[r]))'
            BY <1>0, <2>9, <2>5, StampStays DEF ScanInv, Stamps
        <3> QED BY <2>9, <3>5, <3>6
    <2>8. \A r \in Path : disk'[r] = disk[r] \/ disk'[r] = None \/ disk'[r].dir
                           \/ disk'[r].ctime > edits
        BY <1>0, <2>3, <2>9
    <2> QED BY <1>0, <1>1, <2>1, <2>9, <2>5, <2>6, <2>7, <2>8, EditStep
<1> QED BY <1>3, <1>4, <1>5, <1>6

\* Permissions, odd names, reports of the watcher and the clock touch nothing of it.
LEMMA QuietStep ==
    ASSUME ScanInv, UNCHANGED <<disk, mtimeOf, rows, ignored, scan>>,
           \/ UNCHANGED <<edits, gone>>
           \/ /\ edits < MaxEdits /\ edits' = edits + 1
              /\ gone' = IF scan = Idle THEN {} ELSE gone \cup {p \in Path : disk'[p] = None}
    PROVE  ScanInv'
<1>0. edits \in Nat /\ edits \in Number /\ Types
    BY Numbers DEF ScanInv, Types
<1>1. CASE UNCHANGED <<edits, gone>>
    <2>1. Types'
        BY <1>1 DEF ScanInv, Types
    <2>2. Rooted' /\ Stamps'
        BY <1>1 DEF ScanInv, Rooted, Exists, Stamps, Stamped, Pair, Live
    <2>3. Absences' /\ Reached' /\ Hashing'
        BY <1>1 DEF ScanInv, Absences, Reached, Met, Hashing, Hashed, Pair, Scanning
    <2> QED BY <2>1, <2>2, <2>3 DEF ScanInv
<1>2. CASE /\ edits < MaxEdits /\ edits' = edits + 1
           /\ gone' = IF scan = Idle THEN {} ELSE gone \cup {p \in Path : disk'[p] = None}
    <2>1. Later
        BY <1>0, <1>2, Numbers DEF Later, Number
    <2>2. disk' \in [Path -> Object \cup {None}] /\ mtimeOf' \in [Number -> Number] /\ Rooted'
        BY DEF ScanInv, Types, Rooted, Exists
    <2>3. \A p \in Path : (disk[p] # None => Stamped(disk[p]))'
        BY <1>0, <2>1, StampStays DEF ScanInv, Stamps, Types
    <2> QED BY <1>2, <2>1, <2>2, <2>3, EditStep
<1> QED BY <1>1, <1>2

\* A file is materialized and adopted between two scans.
LEMMA AdoptStep ==
    ASSUME ScanInv, NEW p \in Path, Adopt(p)
    PROVE  ScanInv'
<1> DEFINE n == edits + 1
           o == [dir |-> FALSE, ino |-> n, mtime |-> n, ctime |-> n, data |-> n]
           row == [dir |-> FALSE, ino |-> n, mtime |-> n, data |-> n,
                   dead |-> FALSE, ver |-> Ver(rows[p]) + 1]
<1>0. /\ disk \in [Path -> Object \cup {None}] /\ mtimeOf \in [Number -> Number]
      /\ rows \in [Path -> Row \cup {None}] /\ edits \in Number /\ edits \in Nat /\ Types
    BY Numbers DEF ScanInv, Types
<1>1. /\ edits' = n /\ n \in Number /\ disk' = [disk EXCEPT ![p] = o]
      /\ mtimeOf' = [mtimeOf EXCEPT ![n] = n] /\ rows' = [rows EXCEPT ![p] = row]
      /\ scan = Idle /\ UNCHANGED <<ignored, scan, gone>>
      /\ p \notin Dir /\ Exists(Parent[p])
    BY <1>0, Numbers DEF Adopt, Adopting, Number
<1>2. o \in Object /\ row \in Row
    <2>1. Ver(rows[p]) \in Nat
        BY <1>0 DEF Ver, Row
    <2> QED BY <1>1, <2>1 DEF Object, Row
<1>3. Types'
    BY <1>0, <1>1, <1>2 DEF Types
<1>4. Later
    BY <1>0, <1>1, Numbers DEF Later
<1>5. Rooted'
    <2>1. \A r \in Path : Parent[r] \in Path => Parent[r] \in Dir
        BY LocalScanAssumption
    <2> QED BY <1>0, <1>1, <2>1, LocalScanAssumption DEF ScanInv, Rooted, Exists
<1>6. Stamps'
    <2>1. \A r \in Path : (disk[r] # None => Stamped(disk[r]))'
        BY <1>0, <1>1, <1>4, StampStays DEF ScanInv, Stamps, Stamped, Pair
    <2>2. \A r \in Path : scan'.found[r] = None
        BY <1>1 DEF Idle, Nowhere
    <2>3. ASSUME NEW r \in Path, r \in Live(rows)'
          PROVE  rows'[r].dir \/ Pair(rows[r].data, rows[r].mtime)'
        <3>1. CASE r = p
            BY <1>0, <1>1, <3>1 DEF Pair
        <3>2. CASE r # p
            <4>1. r \in Live(rows) /\ rows'[r] = rows[r] /\ rows[r].data \in Number
                BY <1>0, <1>1, <2>3, <3>2 DEF Live, Row
            <4> QED BY <1>0, <1>4, <4>1, PairStays DEF ScanInv, Stamps
        <3> QED BY <3>1, <3>2
    <2> QED BY <2>1, <2>2, <2>3 DEF Stamps, Live
<1>7. Absences' /\ Reached' /\ Hashing'
    BY <1>1 DEF Absences, Reached, Hashing, Scanning, Idle
<1> QED BY <1>3, <1>5, <1>6, <1>7 DEF ScanInv

-----------------------------------------------------------------------------
(* The walk. *)

LEMMA IdleTyped == Idle \in Scan /\ Idle.pc = "idle" /\ Idle.found = Nowhere /\ Idle.todo = {}
<1>1. 0 \in Number
    BY Numbers DEF Number
<1> QED BY <1>1 DEF Idle, Scan, Nowhere, Stage

\* The scan ends without a trace, or the process stops.
LEMMA EndStep ==
    ASSUME ScanInv, scan' = Idle, UNCHANGED <<disk, mtimeOf>>, Later,
           rows' \in [Path -> Row \cup {None}],
           \A p \in Live(rows)' : rows'[p].dir \/ Pair(rows[p].data, rows[p].mtime)',
           ignored' \subseteq Path, gone' = {}
    PROVE  ScanInv'
<1>1. Types' /\ Types
    BY IdleTyped DEF ScanInv, Types, Later
<1>2. Rooted'
    BY DEF ScanInv, Rooted, Exists
<1>3. Stamps'
    <2>1. \A r \in Path : (disk[r] # None => Stamped(disk[r]))'
        BY <1>1, StampStays DEF ScanInv, Stamps, Types
    <2> QED BY <2>1, IdleTyped DEF Stamps, Nowhere
<1>4. Absences' /\ Reached' /\ Hashing'
    BY IdleTyped DEF Absences, Reached, Hashing, Scanning
<1> QED BY <1>1, <1>2, <1>3, <1>4 DEF ScanInv

\* A scan that starts has everything before it.
LEMMA BeginStep ==
    ASSUME ScanInv, NEW full \in BOOLEAN, NEW touched \in SUBSET Path, Begin(full, touched)
    PROVE  ScanInv'
<1> DEFINE v == [list |-> TRUE, at |-> Root]
<1>0. Idle \in Scan /\ Types
    BY IdleTyped DEF ScanInv, Types
<1>1. UNCHANGED <<disk, edits, mtimeOf, rows, ignored>> /\ gone' = {p \in Path : disk[p] = None}
    BY DEF Begin, tree, base
<1>2. /\ scan' \in Scan /\ scan'.pc = "walk" /\ scan'.todo = {v} /\ scan'.prev = rows
      /\ scan'.unsure = ignored /\ scan'.found = Nowhere
    <2> DEFINE late == {p \in Path : retry[p] # None /\ retry[p].wait > 0}
    <2>1. /\ scan' = [Idle EXCEPT !.pc = "walk", !.full = full, !.touched = touched,
                                  !.prev = rows, !.todo = {v}, !.unsure = ignored,
                                  !.later = late]
          /\ late \in SUBSET Path /\ rows \in [Path -> Row \cup {None}]
          /\ ignored \in SUBSET Path /\ v \in [list: BOOLEAN, at: Path \cup {Root}]
        BY <1>0 DEF Begin, Types
    <2> HIDE DEF late, v
    <2> QED BY <1>0, <2>1, IdleTyped DEF Scan
<1>3. Types'
    BY <1>0, <1>1, <1>2 DEF Types
<1>4. Rooted' /\ Stamps'
    BY <1>1, <1>2 DEF ScanInv, Rooted, Exists, Stamps, Stamped, Pair, Live, Nowhere
<1>5. Absences'
    <2>1. ASSUME NEW p \in Path, Parent[p] \in gone' PROVE p \in gone'
        BY <1>1, <2>1, LocalScanAssumption DEF ScanInv, Rooted, Exists
    <2> QED BY <1>1, <2>1 DEF Absences
<1>6. Reached'
    <2>1. ASSUME NEW q \in Path PROVE Met(q)'
        <3>1. CASE Parent[q] = Root
            BY <1>2, <3>1 DEF Met
        <3>2. CASE Parent[q] # Root
            <4>1. Parent[q] \in Path
                BY <3>2, LocalScanAssumption
            <4> QED BY <1>2, <3>2, <4>1 DEF Met, Nowhere
        <3> QED BY <3>1, <3>2
    <2> QED BY <1>1, <1>2, <2>1 DEF Reached
<1>7. Hashing'
    BY <1>2 DEF Hashing
<1> QED BY <1>3, <1>4, <1>5, <1>6, <1>7 DEF ScanInv

\* A step of the walk: what it takes off its list is found, listed or uncertain.
LEMMA WalkOn ==
    ASSUME ScanInv, scan.pc = "walk", UNCHANGED <<disk, edits, mtimeOf, rows, ignored, gone>>,
           scan' \in Scan, scan'.pc = "walk", scan'.prev = scan.prev,
           scan.unsure \subseteq scan'.unsure,
           \A w \in scan'.todo : w.at = Root => w.list,
           \A p \in Path : scan'.found[p] = scan.found[p] \/ scan'.found[p] = disk[p],
           \A q \in Path \ gone : Met(q)'
    PROVE  ScanInv'
<1>1. Types'
    BY DEF ScanInv, Types
<1>2. Rooted' /\ Stamps'
    BY DEF ScanInv, Rooted, Exists, Stamps, Stamped, Pair, Live
<1>3. Absences' /\ Reached' /\ Hashing'
    BY DEF ScanInv, Absences, Reached, Hashing, Scanning
<1> QED BY <1>1, <1>2, <1>3 DEF ScanInv

LEMMA ListStep ==
    ASSUME ScanInv, scan.pc = "walk", NEW v \in scan.todo, v.list, List(v),
           UNCHANGED <<disk, edits, mtimeOf, rows, ignored>>
    PROVE  ScanInv'
<1> DEFINE d == v.at
           entries == {p \in Path : Parent[p] = d /\ disk[p] # None /\ p \notin ignored}
           visits == {[list |-> FALSE, at |-> p] : p \in entries}
<1>0. /\ scan \in Scan /\ v = [list |-> TRUE, at |-> d] /\ d \in Path \cup {Root}
      /\ \A q \in Path \ gone : Met(q)
    BY DEF ScanInv, Types, Scan, Reached, Scanning
<1>1. CASE Exists(d) /\ d \notin locked
    <2>1. /\ scan' = [scan EXCEPT
                   !.todo = (@ \ {v}) \cup visits,
                   !.keepAll = @ \/ (d = Root /\ d \in odd),
                   !.unsure = IF d # Root /\ d \in odd THEN @ \cup {d} ELSE @]
          /\ UNCHANGED gone
        BY <1>1 DEF List
    <2>2. /\ scan' \in Scan /\ scan'.pc = "walk" /\ scan'.prev = scan.prev
          /\ scan'.found = scan.found /\ scan.unsure \subseteq scan'.unsure
          /\ scan'.todo = (scan.todo \ {v}) \cup visits
        <3>1. (scan.todo \ {v}) \cup visits \in SUBSET [list: BOOLEAN, at: Path \cup {Root}]
            <4>1. scan.todo \in SUBSET [list: BOOLEAN, at: Path \cup {Root}]
                BY <1>0 DEF Scan
            <4>2. \A p \in Path : [list |-> FALSE, at |-> p] \in [list: BOOLEAN, at: Path \cup {Root}]
                OBVIOUS
            <4>3. visits \subseteq [list: BOOLEAN, at: Path \cup {Root}]
                BY <4>2
            <4> HIDE DEF visits
            <4> QED BY <4>1, <4>3
        <3> HIDE DEF visits
        <3>2. PICK ka \in BOOLEAN, un \in SUBSET Path :
                 /\ scan.unsure \subseteq un
                 /\ scan' = [scan EXCEPT !.todo = (scan.todo \ {v}) \cup visits,
                                         !.keepAll = ka, !.unsure = un]
            BY <1>0, <2>1 DEF Scan
        <3> QED BY <1>0, <3>1, <3>2 DEF Scan
    <2>3. \A w \in scan'.todo : w.at = Root => w.list
        BY <2>2, LocalScanAssumption DEF ScanInv, Types
    <2>4. ASSUME NEW q \in Path \ gone PROVE Met(q)'
        <3>1. CASE Parent[q] = d
            <4>1. disk[q] # None /\ ignored \subseteq scan'.unsure
                BY <2>2 DEF ScanInv, Absences, Reached, Scanning
            <4>2. CASE q \in ignored
                BY <4>1, <4>2 DEF Met
            <4>3. CASE q \notin ignored
                <5>1. [list |-> FALSE, at |-> q] \in scan'.todo
                    BY <2>2, <3>1, <4>1, <4>3
                <5> QED BY <5>1 DEF Met
            <4> QED BY <4>2, <4>3
        <3>2. CASE Parent[q] # d
            <4>1. Met(q) /\ [list |-> TRUE, at |-> Parent[q]] # v /\ [list |-> FALSE, at |-> q] # v
                BY <1>0, <3>2
            <4> QED BY <2>2, <4>1 DEF Met
        <3> QED BY <3>1, <3>2
    <2> QED BY <2>1, <2>2, <2>3, <2>4, WalkOn
<1>2. CASE ~(Exists(d) /\ d \notin locked) /\ d = Root
    <2>1. scan' = Idle /\ gone' = {}
        BY <1>2 DEF List
    <2>2. Later
        BY Numbers DEF ScanInv, Types, Later
    <2> QED BY <2>1, <2>2, EndStep DEF ScanInv, Types, Stamps, Live, Pair
<1>3. CASE ~(Exists(d) /\ d \notin locked) /\ d # Root
    <2>1. scan' = [scan EXCEPT !.todo = @ \ {v}, !.unsure = @ \cup {d}] /\ UNCHANGED gone
        BY <1>3 DEF List
    <2>2. /\ scan' \in Scan /\ scan'.pc = "walk" /\ scan'.prev = scan.prev
          /\ scan'.found = scan.found /\ scan'.unsure = scan.unsure \cup {d}
          /\ scan'.todo = scan.todo \ {v}
        BY <1>0, <1>3, <2>1 DEF Scan
    <2>3. \A w \in scan'.todo : w.at = Root => w.list
        BY <2>2 DEF ScanInv, Types
    <2>4. ASSUME NEW q \in Path \ gone PROVE Met(q)'
        <3>1. Met(q) /\ [list |-> FALSE, at |-> q] # v
              /\ ([list |-> TRUE, at |-> Parent[q]] = v => Parent[q] = d)
            BY <1>0
        <3> QED BY <2>2, <3>1 DEF Met
    <2> QED BY <2>1, <2>2, <2>3, <2>4, WalkOn
<1> QED BY <1>1, <1>2, <1>3

LEMMA StatStep ==
    ASSUME ScanInv, scan.pc = "walk", NEW v \in scan.todo, ~v.list, Stat(v),
           UNCHANGED <<disk, edits, mtimeOf, rows, ignored>>
    PROVE  ScanInv'
<1> DEFINE p == v.at
<1>0. /\ scan \in Scan /\ v = [list |-> FALSE, at |-> p] /\ p \in Path
      /\ disk \in [Path -> Object \cup {None}] /\ \A q \in Path \ gone : Met(q)
    BY DEF ScanInv, Types, Scan, Reached, Scanning
<1>1. CASE disk[p] = None
    <2>1. scan' = [scan EXCEPT !.todo = @ \ {v}, !.unsure = @ \cup {p}, !.keep = @ \cup {p}]
          /\ UNCHANGED gone
        BY <1>1 DEF Stat
    <2>2. /\ scan' \in Scan /\ scan'.pc = "walk" /\ scan'.prev = scan.prev
          /\ scan'.found = scan.found /\ scan'.unsure = scan.unsure \cup {p}
          /\ scan'.todo = scan.todo \ {v}
        BY <1>0, <2>1 DEF Scan
    <2>3. \A w \in scan'.todo : w.at = Root => w.list
        BY <2>2 DEF ScanInv, Types
    <2>4. ASSUME NEW q \in Path \ gone PROVE Met(q)'
        <3>1. Met(q) /\ [list |-> TRUE, at |-> Parent[q]] # v
              /\ ([list |-> FALSE, at |-> q] = v => q = p)
            BY <1>0
        <3> QED BY <2>2, <3>1 DEF Met
    <2> QED BY <2>1, <2>2, <2>3, <2>4, WalkOn
<1>2. CASE disk[p] # None
    <2> DEFINE more == IF disk[p].dir THEN {[list |-> TRUE, at |-> p]} ELSE {}
    <2>1. scan' = [scan EXCEPT !.found[p] = disk[p], !.todo = (@ \ {v}) \cup more]
          /\ UNCHANGED gone
        BY <1>2 DEF Stat
    <2>2. /\ scan' \in Scan /\ scan'.pc = "walk" /\ scan'.prev = scan.prev
          /\ scan'.found = [scan.found EXCEPT ![p] = disk[p]] /\ scan'.unsure = scan.unsure
          /\ scan'.todo = (scan.todo \ {v}) \cup more
        <3>1. [scan.found EXCEPT ![p] = disk[p]] \in [Path -> Object \cup {None}]
            BY <1>0 DEF Scan
        <3>2. (scan.todo \ {v}) \cup more \in SUBSET [list: BOOLEAN, at: Path \cup {Root}]
            <4>1. scan.todo \in SUBSET [list: BOOLEAN, at: Path \cup {Root}]
                BY <1>0 DEF Scan
            <4>2. [list |-> TRUE, at |-> p] \in [list: BOOLEAN, at: Path \cup {Root}]
                BY <1>0
            <4> QED BY <4>1, <4>2
        <3>3. scan' = [[scan EXCEPT !.found = [scan.found EXCEPT ![p] = disk[p]]]
                          EXCEPT !.todo = (scan.todo \ {v}) \cup more]
            BY <1>0, <2>1 DEF Scan
        <3> HIDE DEF more
        <3> QED BY <1>0, <3>1, <3>2, <3>3 DEF Scan
    <2>3. \A w \in scan'.todo : w.at = Root => w.list
        BY <2>2 DEF ScanInv, Types
    <2>5. \A q \in Path : /\ scan'.found[q] = IF q = p THEN disk[p] ELSE scan.found[q]
        BY <1>0, <2>2 DEF Scan
    <2>4. ASSUME NEW q \in Path \ gone PROVE Met(q)'
        <3>1. Met(q) /\ [list |-> TRUE, at |-> Parent[q]] # v
              /\ ([list |-> FALSE, at |-> q] = v => q = p)
            BY <1>0
        <3>2. CASE q = p
            BY <1>2, <2>5, <3>2 DEF Met
        <3>3. CASE q # p /\ Parent[q] = p
            <4>1. p \in Dir
                BY <1>0, <3>3, LocalScanAssumption
            <4>2. [list |-> TRUE, at |-> p] \in scan'.todo
                BY <1>0, <1>2, <2>2, <4>1 DEF ScanInv, Rooted
            <4> QED BY <3>3, <4>2 DEF Met
        <3>4. CASE q # p /\ Parent[q] # p
            <4>1. Parent[q] # Root => Parent[q] \in Path
                BY LocalScanAssumption
            <4> QED BY <2>2, <2>5, <3>1, <3>4, <4>1 DEF Met
        <3> QED BY <3>2, <3>3, <3>4
    <2> QED BY <2>1, <2>2, <2>3, <2>4, <2>5, WalkOn
<1> QED BY <1>1, <1>2

-----------------------------------------------------------------------------
(* Hashing and the commit. *)

\* From now on only the stages of the files change.
LEMMA HashOn ==
    ASSUME ScanInv, Scanning, scan.todo = {}, UNCHANGED <<disk, edits, mtimeOf, rows, ignored, gone>>,
           scan' \in Scan, scan'.pc = "hash", scan'.prev = scan.prev, scan'.found = scan.found,
           scan'.unsure = scan.unsure, scan'.todo = scan.todo,
           \A p \in Path : Hashed(p)'
    PROVE  ScanInv'
<1>1. Types'
    BY DEF ScanInv, Types
<1>2. Rooted' /\ Stamps'
    BY DEF ScanInv, Rooted, Exists, Stamps, Stamped, Pair, Live
<1>3. Absences' /\ Reached' /\ Hashing'
    BY DEF ScanInv, Absences, Reached, Met, Hashing, Scanning
<1> QED BY <1>1, <1>2, <1>3 DEF ScanInv

\* A hash is only taken over from a row that has the file's modification time.
LEMMA ClassifyStep ==
    ASSUME ScanInv, Classify
    PROVE  ScanInv'
<1> DEFINE file == {p \in Path : scan.found[p] # None /\ ~scan.found[p].dir}
           reuse == {p \in file : /\ ~scan.full /\ ~Under(p, scan.touched)
                                  /\ p \in Live(scan.prev)
                                  /\ SameFingerprint(scan.prev[p], scan.found[p])}
           defer == (file \ reuse) \cap scan.later
           kept == scan.keep \cup defer
           stages == [p \in Path |-> CASE p \in reuse -> "done"
                                      [] p \in file \ (reuse \cup defer) -> "queued"
                                      [] OTHER -> "none"]
           hashes == [p \in Path |-> IF p \in reuse THEN scan.prev[p].data ELSE 0]
<1>0. /\ scan \in Scan /\ scan.pc = "walk" /\ scan.todo = {}
      /\ UNCHANGED <<disk, edits, mtimeOf, rows, ignored, gone>>
      /\ scan.prev = rows /\ rows \in [Path -> Row \cup {None}]
    BY DEF ScanInv, Types, Classify, Reached, Scanning, tree, base
<1>1. scan' = [scan EXCEPT !.pc = "hash", !.keep = kept, !.stage = stages, !.data = hashes]
    BY DEF Classify
<1>2. kept \in SUBSET Path /\ stages \in [Path -> Stage] /\ hashes \in [Path -> Number]
    <2>1. kept \in SUBSET Path
        BY <1>0 DEF Scan
    <2>2. stages \in [Path -> Stage]
        BY DEF Stage
    <2>3. \A p \in reuse : rows[p] \in Row /\ rows[p].data \in Number
        BY <1>0 DEF Live, Row
    <2>4. 0 \in Number
        BY Numbers DEF Number
    <2> QED BY <1>0, <2>1, <2>2, <2>3, <2>4
<1>3. /\ scan' \in Scan /\ scan'.pc = "hash" /\ scan'.prev = scan.prev
      /\ scan'.found = scan.found /\ scan'.unsure = scan.unsure /\ scan'.todo = scan.todo
      /\ scan'.keep = kept /\ scan'.stage = stages /\ scan'.data = hashes
    <2> HIDE DEF kept, stages, hashes
    <2> QED BY <1>0, <1>1, <1>2 DEF Scan
<1>4. ASSUME NEW p \in Path PROVE Hashed(p)'
    <2>1. CASE p \in reuse
        <3>1. /\ scan'.stage[p] = "done" /\ scan'.data[p] = rows[p].data
              /\ scan.found[p] # None /\ ~scan.found[p].dir
            BY <1>0, <1>3, <2>1
        <3>2. rows[p].mtime = scan.found[p].mtime /\ rows[p].dir = scan.found[p].dir
              /\ p \in Live(rows)
            BY <1>0, <2>1 DEF SameFingerprint
        <3>3. Pair(rows[p].data, rows[p].mtime)
            BY <3>1, <3>2 DEF ScanInv, Stamps
        <3>4. Pair(scan.data[p], scan.found[p].mtime)'
            BY <1>0, <1>3, <3>1, <3>2, <3>3 DEF Pair
        <3> QED BY <1>3, <3>1, <3>4 DEF Hashed
    <2>2. CASE p \in file \ (reuse \cup defer)
        <3>1. scan'.stage[p] = "queued"
            BY <1>3, <2>2
        <3> QED BY <1>3, <2>2, <3>1 DEF Hashed
    <2>3. CASE p \notin reuse /\ p \notin file \ (reuse \cup defer)
        <3>1. scan'.stage[p] = "none"
            BY <1>3, <2>3
        <3>2. p \in file => p \in scan'.keep
            BY <1>3, <2>3
        <3> QED BY <1>3, <3>1, <3>2 DEF Hashed
    <2> QED BY <2>1, <2>2, <2>3
<1> QED BY <1>0, <1>3, <1>4, HashOn DEF Scanning

\* What was read is the file's content if the file is then as it was found.
LEMMA HashStep ==
    ASSUME ScanInv, NEW p \in Path, HashRead(p) \/ HashCheck(p)
    PROVE  ScanInv'
<1>0. /\ scan \in Scan /\ scan.pc = "hash" /\ scan.todo = {}
      /\ disk \in [Path -> Object \cup {None}]
      /\ UNCHANGED <<disk, edits, mtimeOf, rows, ignored, gone>>
      /\ \A q \in Path : Hashed(q)
    BY DEF ScanInv, Types, Hashing, HashRead, HashCheck, tree, base
<1>1. PICK st \in Stage, h \in Number :
         /\ scan' = [scan EXCEPT !.stage[p] = st, !.data[p] = h]
         /\ \/ st = "failed"
            \/ st = "read" /\ disk[p] # None /\ h = disk[p].data
            \/ st = "done" /\ disk[p] = scan.found[p] /\ scan.stage[p] = "read"
               /\ h = scan.data[p]
         /\ scan.stage[p] \in {"queued", "read"}
    <2>1. scan.data[p] \in Number /\ scan.stage[p] \in Stage
        BY <1>0 DEF Scan
    <2>2. ASSUME NEW st \in Stage PROVE [scan EXCEPT !.stage[p] = st] =
                    [scan EXCEPT !.stage[p] = st, !.data[p] = scan.data[p]]
        BY <1>0 DEF Scan
    <2>3. CASE HashRead(p) /\ (disk[p] = None \/ p \in locked)
        <3>1. "failed" \in Stage /\ scan' = [scan EXCEPT !.stage[p] = "failed"]
              /\ scan.stage[p] = "queued"
            BY <2>3 DEF HashRead, Stage
        <3> QED BY <2>1, <2>2, <3>1
    <2>4. CASE HashRead(p) /\ ~(disk[p] = None \/ p \in locked)
        <3>1. "read" \in Stage /\ disk[p].data \in Number
            BY <1>0, <2>4 DEF Stage, Object
        <3>2. scan' = [scan EXCEPT !.stage[p] = "read", !.data[p] = disk[p].data]
              /\ scan.stage[p] = "queued"
            BY <2>4 DEF HashRead
        <3> QED BY <2>4, <3>1, <3>2
    <2>5. CASE HashCheck(p)
        <3>1. "failed" \in Stage /\ "done" \in Stage /\ scan.stage[p] = "read"
              /\ scan' = [scan EXCEPT !.stage[p] = IF disk[p] = scan.found[p] THEN "done"
                                                  ELSE "failed"]
            BY <2>5 DEF HashCheck, Stage
        <3> QED BY <2>1, <2>2, <3>1
    <2> QED BY <2>3, <2>4, <2>5
<1> DEFINE stages == [scan.stage EXCEPT ![p] = st]
           hashes == [scan.data EXCEPT ![p] = h]
<1>2. stages \in [Path -> Stage] /\ hashes \in [Path -> Number]
    BY <1>0 DEF Scan
<1>3. scan' = [scan EXCEPT !.stage = stages, !.data = hashes]
    BY <1>0, <1>1 DEF Scan
<1>4. /\ scan' \in Scan /\ scan'.pc = "hash" /\ scan'.prev = scan.prev
      /\ scan'.found = scan.found /\ scan'.unsure = scan.unsure /\ scan'.todo = scan.todo
      /\ scan'.keep = scan.keep /\ scan'.stage = stages /\ scan'.data = hashes
    <2> HIDE DEF stages, hashes
    <2> QED BY <1>0, <1>2, <1>3 DEF Scan
<1>5. ASSUME NEW q \in Path PROVE Hashed(q)'
    <2>1. CASE q # p
        <3>1. scan'.stage[q] = scan.stage[q] /\ scan'.data[q] = scan.data[q]
            BY <1>0, <1>4, <2>1 DEF Scan
        <3> QED BY <1>0, <1>4, <3>1 DEF Hashed, Pair
    <2>2. CASE q = p
        <3>1. scan'.stage[q] = st /\ scan'.data[q] = h
            BY <1>0, <1>4, <2>2 DEF Scan
        <3>2. scan.found[q] # None /\ ~scan.found[q].dir
            BY <1>0, <1>1, <2>2 DEF Hashed
        <3>3. Pair(scan.found[q].data, scan.found[q].mtime)
            BY <3>2 DEF ScanInv, Stamps, Stamped
        <3>4. st = "done" => Pair(h, scan.found[q].mtime)
            BY <1>0, <1>1, <2>2, <3>3 DEF Hashed
        <3>5. st = "read" => (disk[q] = scan.found[q] => h = scan.found[q].data)
            BY <1>1, <2>2
        <3>6. st # "none"
            BY <1>1
        <3> QED BY <1>0, <1>4, <3>1, <3>2, <3>4, <3>5, <3>6 DEF Hashed, Pair
    <2> QED BY <2>1, <2>2
<1> QED BY <1>0, <1>4, <1>5, HashOn DEF Scanning

\* What a commit does to one row: nothing, a new version of what was found, or a
\* tombstone of what is missing.
Unaltered(p) == rows'[p] = rows[p]
Rewritten(p) ==
    /\ p \in Current
    /\ \E v \in Nat : rows'[p] = NewRow(p, v) /\ (p \in Live(rows) => v > rows[p].ver)
Buried(p) == p \in Missing /\ rows'[p] = [rows[p] EXCEPT !.dead = TRUE, !.ver = @ + 1]

LEMMA NewRowTyped ==
    ASSUME ScanInv, NEW p \in Path, scan.found[p] # None, NEW v \in Nat
    PROVE  /\ NewRow(p, v) \in Row
           /\ NewRow(p, v) = [dir |-> scan.found[p].dir, ino |-> scan.found[p].ino,
                              mtime |-> scan.found[p].mtime, data |-> scan.data[p],
                              dead |-> FALSE, ver |-> v]
<1>1. scan.found[p] \in Object /\ scan.data[p] \in Number
    BY DEF ScanInv, Types, Scan
<1>2. /\ Entry(p).dir = scan.found[p].dir /\ Entry(p).ino = scan.found[p].ino
      /\ Entry(p).mtime = scan.found[p].mtime /\ Entry(p).data = scan.data[p]
    BY <1>1 DEF Entry, Object
<1> QED BY <1>1, <1>2 DEF NewRow, Row, Object

LEMMA CommitRows ==
    ASSUME ScanInv, Commit, NEW p \in Path
    PROVE  Unaltered(p) \/ Rewritten(p) \/ Buried(p)
<1>0. /\ scan \in Scan /\ scan.pc = "hash" /\ scan.prev = rows
      /\ rows \in [Path -> Row \cup {None}]
      /\ rows'[p] = IF NextRows[p] = None THEN rows[p] ELSE NextRows[p]
    BY DEF ScanInv, Types, Reached, Scanning, Commit
<1>1. \A q \in Path : Ver(rows[q]) \in Nat /\ (q \in Live(rows) => Ver(rows[q]) = rows[q].ver)
    BY <1>0 DEF Ver, Row, Live
<1>2. CASE NextRows[p] = None
    BY <1>0, <1>2 DEF Unaltered
<1>3. CASE NextRows[p] # None /\ p \in Renamed
    <2>1. p \in Current /\ p \notin Live(rows) /\ Source(p) # {}
        BY <1>0, <1>3 DEF Renamed, Fresh
    <2>2. PICK s \in Path : s = CHOOSE r \in Source(p) : TRUE
        <3>1. (CHOOSE r \in Source(p) : TRUE) \in Source(p)
            BY <2>1
        <3>2. Source(p) \subseteq Path
            BY DEF Source, Missing, Live
        <3> QED BY <3>1, <3>2
    <2>4. p \notin Missing
        BY <2>1 DEF Missing
    <2>3. NextRows[p] = NewRow(p, Ver(rows[s]) + 1) /\ Ver(rows[s]) + 1 \in Nat
        BY <1>0, <1>1, <1>3, <2>1, <2>2, <2>4 DEF NextRows
    <2> QED BY <1>0, <1>3, <2>1, <2>3 DEF Rewritten
<1>4. CASE NextRows[p] # None /\ p \in Current \ Renamed
    <2>1. \/ NextRows[p] = rows[p]
          \/ NextRows[p] = NewRow(p, Ver(rows[p]) + 1)
        <3>1. p \notin Missing
            BY <1>4 DEF Missing
        <3> QED BY <1>0, <1>4, <3>1 DEF NextRows
    <2>2. Ver(rows[p]) + 1 \in Nat /\ (p \in Live(rows) => Ver(rows[p]) + 1 > rows[p].ver)
        BY <1>1
    <2> QED BY <1>0, <1>4, <2>1, <2>2 DEF Rewritten, Unaltered
<1>5. CASE NextRows[p] # None /\ p \notin Renamed /\ p \notin Current /\ p \in Missing
    <2>1. NextRows[p] = [rows[p] EXCEPT !.dead = TRUE, !.ver = @ + 1]
        BY <1>0, <1>5 DEF NextRows
    <2> QED BY <1>0, <1>5, <2>1 DEF Buried
<1>6. CASE NextRows[p] # None /\ p \notin Renamed /\ p \notin Current /\ p \notin Missing
    <2>1. NextRows[p] = rows[p]
        BY <1>0, <1>6 DEF NextRows
    <2> QED BY <1>0, <1>6, <2>1 DEF Unaltered
<1> QED BY <1>2, <1>3, <1>4, <1>5, <1>6

LEMMA CommitStep ==
    ASSUME ScanInv, Commit
    PROVE  ScanInv'
<1>0. /\ scan \in Scan /\ scan.pc = "hash" /\ rows \in [Path -> Row \cup {None}]
      /\ rows' = [p \in Path |-> IF NextRows[p] = None THEN rows[p] ELSE NextRows[p]]
      /\ scan' = Idle /\ gone' = {} /\ UNCHANGED <<disk, mtimeOf, edits, ignored>>
      /\ ignored \subseteq Path
    BY DEF ScanInv, Types, Commit, tree
<1>1. ASSUME NEW p \in Path
      PROVE  /\ rows'[p] \in Row \cup {None}
             /\ p \in Live(rows)' => rows'[p].dir \/ Pair(rows[p].data, rows[p].mtime)'
    <2>1. CASE Unaltered(p)
        BY <1>0, <2>1 DEF Unaltered, ScanInv, Stamps, Live, Pair
    <2>2. CASE Rewritten(p)
        <3>1. scan.found[p] # None /\ (scan.found[p].dir \/ scan.stage[p] = "done")
            BY <2>2 DEF Rewritten, Current
        <3>2. PICK v \in Nat : rows'[p] = NewRow(p, v)
            BY <2>2 DEF Rewritten
        <3>3. /\ rows'[p] \in Row /\ rows'[p].dir = scan.found[p].dir
              /\ rows'[p].mtime = scan.found[p].mtime /\ rows'[p].data = scan.data[p]
            BY <3>1, <3>2, NewRowTyped
        <3>4. scan.stage[p] = "done" => Pair(scan.data[p], scan.found[p].mtime)
            BY <1>0 DEF ScanInv, Hashing, Hashed
        <3> QED BY <1>0, <3>1, <3>3, <3>4 DEF Pair
    <2>3. CASE Buried(p)
        <3>1. scan.prev = rows
            BY <1>0 DEF ScanInv, Reached, Scanning
        <3>2. rows[p] \in Row
            BY <1>0, <2>3, <3>1 DEF Buried, Missing, Live
        <3>4. rows'[p] = [rows[p] EXCEPT !.dead = TRUE, !.ver = @ + 1]
            BY <2>3 DEF Buried
        <3>5. rows[p].ver \in Nat /\ rows[p].ver + 1 \in Nat
            BY <3>2 DEF Row
        <3>6. rows'[p] = [dir |-> rows[p].dir, ino |-> rows[p].ino, mtime |-> rows[p].mtime,
                          data |-> rows[p].data, dead |-> TRUE, ver |-> rows[p].ver + 1]
            BY <3>2, <3>4 DEF Row
        <3>3. rows'[p] \in Row /\ rows'[p].dead
            BY <3>2, <3>5, <3>6 DEF Row
        <3> QED BY <3>3 DEF Live
    <2> QED BY <2>1, <2>2, <2>3, CommitRows
<1>2. rows' \in [Path -> Row \cup {None}]
    BY <1>0, <1>1
<1>3. Later
    BY <1>0, Numbers DEF Later, ScanInv, Types
<1>4. \A p \in Live(rows)' : rows'[p].dir \/ Pair(rows[p].data, rows[p].mtime)'
    BY <1>1 DEF Live
<1> QED BY <1>0, <1>2, <1>3, <1>4, EndStep

-----------------------------------------------------------------------------
(* Every step. *)

LEMMA ScanInit == Init => ScanInv
<1> SUFFICES ASSUME Init PROVE ScanInv
    OBVIOUS
<1>0. Len(Order) \in Nat /\ Len(Order) <= MaxEdits /\ DOMAIN Order = 1 .. Len(Order)
    BY LocalScanAssumption
<1>1. \A p \in Path : Place[p] \in DOMAIN Order /\ Place[p] \in Number /\ Place[p] <= Len(Order)
    <2> SUFFICES ASSUME NEW p \in Path
                 PROVE  Place[p] \in DOMAIN Order /\ Place[p] \in Number /\ Place[p] <= Len(Order)
        OBVIOUS
    <2>1. Place[p] = CHOOSE i \in DOMAIN Order : Order[i] = p
        BY LocalScanAssumption DEF Place
    <2>2. \E i \in DOMAIN Order : Order[i] = p
        BY LocalScanAssumption
    <2>3. Place[p] \in DOMAIN Order
        BY <2>1, <2>2
    <2> QED BY <1>0, <2>3, Numbers DEF Number
<1>2. PICK with \in BOOLEAN : disk =
          [p \in Path |-> LET n == Place[p] IN
                 IF ~with /\ Above[p] \cap Dir # {} THEN None
                 ELSE IF p \in Dir THEN [dir |-> TRUE, ino |-> n, mtime |-> 0, ctime |-> 0, data |-> 0]
                 ELSE [dir |-> FALSE, ino |-> n, mtime |-> n, ctime |-> n, data |-> n]]
    BY DEF Init
<1>3. /\ edits = Len(Order) /\ mtimeOf = [n \in Number |-> IF n <= Len(Order) THEN n ELSE 0]
      /\ rows = Nowhere /\ ignored = {} /\ scan = Idle /\ gone = {}
    BY DEF Init
<1>4. 0 \in Number /\ Len(Order) \in Number
    BY <1>0, Numbers DEF Number
<1>5. \A p \in Path :
         \/ disk[p] = None /\ ~with /\ Above[p] \cap Dir # {}
         \/ /\ disk[p] \in Object /\ (disk[p].dir <=> p \in Dir)
            /\ (~disk[p].dir => disk[p].data = Place[p] /\ disk[p].mtime = Place[p]
                                /\ disk[p].ctime = Place[p])
    BY <1>1, <1>2, <1>4 DEF Object
<1>6. Types
    <2>1. disk \in [Path -> Object \cup {None}]
        BY <1>2, <1>5
    <2>2. mtimeOf \in [Number -> Number]
        BY <1>3, <1>4
    <2>3. rows \in [Path -> Row \cup {None}]
        BY <1>3 DEF Nowhere
    <2> QED BY <1>3, <1>4, <2>1, <2>2, <2>3, IdleTyped DEF Types
<1>7. Rooted
    <2> SUFFICES ASSUME NEW p \in Path, disk[p] # None, Parent[p] # Root
                 PROVE  disk[Parent[p]] # None
        BY <1>5, LocalScanAssumption DEF Rooted, Exists
    <2>1. Parent[p] \in Path /\ Above[Parent[p]] \subseteq Above[p]
        BY AboveParent
    <2>2. CASE with
        BY <1>5, <2>1, <2>2, NoneAssumption
    <2>3. CASE Above[p] \cap Dir = {}
        <3>1. Parent[p] \in Dir /\ Parent[p] \in Above[Parent[p]]
            BY <2>1, AboveSelf, LocalScanAssumption
        <3> QED BY <2>1, <2>3, <3>1
    <2>4. with \/ Above[p] \cap Dir = {}
        BY <1>2
    <2> QED BY <2>2, <2>3, <2>4
<1>8. Stamps
    <2>1. ASSUME NEW p \in Path, disk[p] # None PROVE Stamped(disk[p])
        BY <1>1, <1>3, <1>5, <2>1 DEF Stamped, Pair
    <2> QED BY <1>3, <2>1, IdleTyped DEF Stamps, Live, Nowhere
<1>9. Absences /\ Reached /\ Hashing
    BY <1>3, IdleTyped DEF Absences, Reached, Hashing, Scanning
<1> QED BY <1>6, <1>7, <1>8, <1>9 DEF ScanInv

\* The watcher reports paths of the tree.
Reports == events \subseteq Path /\ rescan \in BOOLEAN

LEMMA ReportsStep == Reports /\ [Next]_vars => Reports'
<1> SUFFICES ASSUME Reports, [Next]_vars PROVE Reports'
    OBVIOUS
<1> USE DEF Reports
<1>1. CASE UNCHANGED watch \/ WatcherError \/ Reopen
    BY <1>1 DEF WatcherError, Reopen, watch
<1>2. ASSUME NEW ps \in SUBSET Path, Edit(ps) PROVE Reports'
    BY <1>2 DEF Edit, Reported
<1>3. ASSUME NEW p \in Path, Write(p) \/ Mkdir(p) \/ Remove(p) \/ \E q \in Path : Rename(p, q)
      PROVE  Reports'
    <2>1. \E ps \in SUBSET Path : Edit(ps)
        BY <1>3 DEF Write, Mkdir, Remove, Rename
    <2> QED BY <1>2, <2>1
<1>4. CASE Disturb
    BY <1>2, <1>4 DEF Disturb
<1>5. ASSUME NEW p \in Path, Adopt(p) PROVE Reports'
    BY <1>5 DEF Adopt, Adopting
<1>6. CASE Trigger
    BY <1>6 DEF Trigger, Poll
<1>7. CASE Tick \/ Periodic \/ ScanStep \/ UNCHANGED vars
    BY <1>1, <1>7 DEF Tick, Periodic, ScanStep, Walk, Classify, Commit, HashRead, HashCheck, vars
<1> QED BY <1>1, <1>3, <1>4, <1>5, <1>6, <1>7 DEF Next

LEMMA ScanStepKeeps == Reports /\ ScanInv /\ [Next]_vars => ScanInv'
<1> SUFFICES ASSUME Reports, ScanInv, [Next]_vars PROVE ScanInv'
    OBVIOUS
<1>1. ASSUME NEW p \in Path, Write(p) \/ Mkdir(p) \/ Remove(p) \/ \E q \in Path : Rename(p, q)
      PROVE  ScanInv'
    BY <1>1, UserStep
<1>2. ASSUME NEW p \in Path, Adopt(p) PROVE ScanInv'
    BY <1>2, AdoptStep
<1>3. CASE WatcherError \/ Disturb \/ Tick \/ UNCHANGED vars
    BY <1>3, QuietStep DEF WatcherError, Disturb, Tick, Edit, tree, base, watch, vars
<1>4. CASE Reopen
    <2>1. /\ scan' = Idle /\ gone' = {} /\ UNCHANGED <<disk, mtimeOf, rows>>
          /\ edits < MaxEdits /\ edits' = edits + 1 /\ ignored' \subseteq Path
        BY <1>4, LocalScanAssumption DEF Reopen, base
    <2>2. Types /\ edits \in Nat /\ rows \in [Path -> Row \cup {None}]
        BY Numbers DEF ScanInv, Types
    <2>3. Later
        BY <2>1, <2>2, Numbers DEF Later, Number
    <2>4. ASSUME NEW p \in Live(rows)' PROVE rows'[p].dir \/ Pair(rows[p].data, rows[p].mtime)'
        <3>1. p \in Live(rows) /\ rows[p].data \in Number
            BY <2>1, <2>2 DEF Live, Row
        <3> QED BY <2>1, <2>2, <2>3, <3>1, PairStays DEF ScanInv, Stamps
    <2> QED BY <2>1, <2>2, <2>3, <2>4, EndStep
<1>5. CASE Periodic \/ Trigger
    <2>1. PICK full \in BOOLEAN, touched \in SUBSET Path : Begin(full, touched)
        <3>1. CASE Periodic
            BY <3>1 DEF Periodic
        <3>2. CASE Trigger
            BY <3>2 DEF Trigger, Reports
        <3> QED BY <1>5, <3>1, <3>2
    <2> QED BY <2>1, BeginStep
<1>6. CASE Walk
    <2>1. PICK v \in scan.todo : IF v.list THEN List(v) ELSE Stat(v)
        BY <1>6 DEF Walk
    <2>2. scan.pc = "walk" /\ UNCHANGED <<disk, edits, mtimeOf, rows, ignored>>
        BY <1>6 DEF Walk, tree, base
    <2> QED BY <2>1, <2>2, ListStep, StatStep
<1>7. CASE Classify \/ Commit \/ \E p \in Path : HashRead(p) \/ HashCheck(p)
    BY <1>7, ClassifyStep, CommitStep, HashStep
<1> QED BY <1>1, <1>2, <1>3, <1>4, <1>5, <1>6, <1>7 DEF Next, ScanStep

\* The whole invariant, of every behaviour.
THEOREM ScanSafe == Spec => [](ScanInv /\ Reports)
<1>1. Init => ScanInv /\ Reports
    BY ScanInit DEF Init, Reports
<1>2. ScanInv /\ Reports /\ [Next]_vars => (ScanInv /\ Reports)'
    BY ScanStepKeeps, ReportsStep
<1> QED BY <1>1, <1>2, PTL DEF Spec

\* The content hash and the modification time of a live row were once those of
\* the same file, for every tree and however many changes fall into a scan
\* (hash_stable_file, and the reuse of hashes by scan_incremental).
THEOREM RowsAreObserved == Spec => []RowsObserved
<1>1. ScanInv => RowsObserved
    BY DEF ScanInv, Stamps, RowsObserved, Pair
<1> QED BY <1>1, ScanSafe, PTL

\* A commit buries a row only if its path was really absent at some moment of
\* that scan, however deep it lies and whatever above it could not be listed,
\* was ignored or changed meanwhile (apply_scan, should_preserve).
THEOREM DeletionsAreReal == Spec => NoFalseDeletion
<1>1. ASSUME ScanInv, [Next]_vars, NEW p \in Live(rows), rows'[p].dead PROVE p \in gone
    <2>0. p \in Path /\ ~rows[p].dead /\ rows[p] # None /\ rows \in [Path -> Row \cup {None}]
        BY <1>1 DEF Live, ScanInv, Types
    <2>1. CASE Commit
        <3>0. scan.pc = "hash" /\ scan.prev = rows /\ Scanning /\ scan.todo = {} /\ Hashed(p)
              /\ scan.stage[p] \notin {"queued", "read"} /\ scan.stage[p] \in Stage
            BY <1>1, <2>0, <2>1 DEF Commit, ScanInv, Types, Scan, Reached, Scanning, Hashing
        <3>1. ~Unaltered(p)
            BY <1>1, <2>0 DEF Unaltered
        <3>2. ~Rewritten(p)
            <4> SUFFICES ASSUME Rewritten(p) PROVE FALSE
                OBVIOUS
            <4>1. PICK v \in Nat : rows'[p] = NewRow(p, v)
                BY DEF Rewritten
            <4>2. scan.found[p] # None
                BY DEF Rewritten, Current
            <4> QED BY <1>1, <2>0, <4>1, <4>2, NewRowTyped
        <3>3. p \notin Current /\ ~Preserve(p)
            BY <1>1, <2>0, <2>1, <3>1, <3>2, CommitRows DEF Buried, Missing
        <3>4. scan.stage[p] \notin {"done", "failed"} \/ scan.found[p] = None
            BY <2>0, <3>3 DEF Current, Preserve, Failed
        <3>5. scan.found[p] = None
            BY <2>0, <3>0, <3>3, <3>4 DEF Hashed, Preserve, Current, Stage
        <3>6. ~Under(p, scan.unsure)
            BY <3>3 DEF Preserve
        <3> QED BY <1>1, <2>0, <3>0, <3>5, <3>6, WalkComplete
    <2>2. ASSUME NEW q \in Path, Adopt(q) PROVE FALSE
        <3>1. rows'[p] = rows[p] \/ ~rows'[p].dead
            BY <2>0, <2>2 DEF Adopt, Adopting
        <3> QED BY <1>1, <2>0, <3>1
    <2>3. rows' = rows => FALSE
        BY <1>1, <2>0
    <2> QED BY <1>1, <2>1, <2>2, <2>3 DEF Next, ScanStep, Write, Mkdir, Remove, Rename, Edit,
               WatcherError, Disturb, Tick, Reopen, Periodic, Trigger, Begin, Walk, Classify,
               HashRead, HashCheck, base, vars
<1>2. ScanInv /\ [Next]_vars => [\A p \in Live(rows) : rows'[p].dead => p \in gone]_vars
    BY <1>1
<1> QED BY <1>2, ScanSafe, PTL DEF Spec, NoFalseDeletion

\* A row that is live never goes back to an older version: what was adopted since
\* the scan read the rows is not overwritten, because scans and adoptions exclude
\* each other (scan_internal, commit_state).
THEOREM VersionsGrow == Spec => HistoryGrows
<1>1. ASSUME ScanInv, [Next]_vars, NEW p \in Live(rows) PROVE rows'[p].ver >= rows[p].ver
    <2>0. p \in Path /\ rows[p] \in Row /\ rows[p].ver \in Nat /\ rows \in [Path -> Row \cup {None}]
        BY <1>1 DEF Live, ScanInv, Types, Row
    <2>1. CASE Commit
        <3>1. CASE Unaltered(p)
            BY <2>0, <3>1 DEF Unaltered
        <3>2. CASE Rewritten(p)
            <4>1. PICK v \in Nat : rows'[p] = NewRow(p, v) /\ v > rows[p].ver
                BY <1>1, <3>2 DEF Rewritten
            <4>2. scan.found[p] # None
                BY <3>2 DEF Rewritten, Current
            <4>3. rows'[p].ver = v
                BY <1>1, <2>0, <4>1, <4>2, NewRowTyped
            <4> QED BY <2>0, <4>1, <4>3
        <3>3. CASE Buried(p)
            <4>1. rows'[p] = [rows[p] EXCEPT !.dead = TRUE, !.ver = @ + 1]
                BY <3>3 DEF Buried
            <4> QED BY <2>0, <4>1 DEF Row
        <3> QED BY <1>1, <2>0, <2>1, <3>1, <3>2, <3>3, CommitRows
    <2>2. ASSUME NEW q \in Path, Adopt(q) PROVE rows'[p].ver >= rows[p].ver
        <3>1. rows'[p] = rows[p] \/ rows'[p].ver = rows[p].ver + 1
            <4>1. rows' = [rows EXCEPT ![q] = [dir |-> FALSE, ino |-> edits + 1,
                      mtime |-> edits + 1, data |-> edits + 1, dead |-> FALSE,
                      ver |-> Ver(rows[q]) + 1]]
                BY <2>2 DEF Adopt, Adopting
            <4>2. Ver(rows[p]) = rows[p].ver
                BY <1>1 DEF Ver, Live
            <4> QED BY <2>0, <4>1, <4>2
        <3> QED BY <2>0, <3>1
    <2>3. rows' = rows => rows'[p].ver >= rows[p].ver
        BY <2>0
    <2> QED BY <1>1, <2>1, <2>2, <2>3 DEF Next, ScanStep, Write, Mkdir, Remove, Rename, Edit,
               WatcherError, Disturb, Tick, Reopen, Periodic, Trigger, Begin, Walk, Classify,
               HashRead, HashCheck, base, vars
<1>2. ScanInv /\ [Next]_vars => [\A p \in Live(rows) : rows'[p].ver >= rows[p].ver]_vars
    BY <1>1
<1> QED BY <1>2, ScanSafe, PTL DEF Spec, HistoryGrows
=============================================================================
