---------------------------- MODULE ControlProofs ----------------------------
(* Theorems about Control: any number of folders, paths, devices and callers, *)
(* and any bounds on the operations and the faults.                           *)
EXTENDS Control, FiniteSetTheorems, TLAPS

Edits == {"add", "update"}
Switches == {"pause", "resume"}

\* A new worker is in the slot, and not yet saved.
Renewed(c) == op[c].kind \in Edits /\ op[c].step \in {"persist", "undo"}

\* Past its lock an operation owns the slot of its folder; an add owns it from
\* its reservation on.
Holding(c) ==
    op[c].step \notin {"idle", "lock"} /\ ~(op[c].kind = "add" /\ op[c].step = "reserve")

\* The new view is in place.
Placed(c) == op[c].kind \in Edits /\ op[c].step \in {"stop", "start", "persist", "undo"}

\* The steps an operation of each kind goes through, and what it carries.
OpShape(c) ==
    /\ \/ op[c] = Idle
       \/ op[c].kind = "add" /\ op[c].step \in {"reserve", "start", "persist", "undo"}
       \/ /\ op[c].kind = "update"
          /\ op[c].step \in {"lock", "reserve", "stop", "start", "persist", "undo", "restart"}
       \/ op[c].kind = "remove" /\ op[c].step \in {"lock", "stop", "persist", "restart"}
       \/ op[c].kind \in Switches /\ op[c].step \in {"lock", "command", "persist", "revert"}
       \/ op[c].kind = "sync" /\ op[c].step \in {"lock", "command", "cycle"}
    /\ op[c] # Idle => op[c].id \in Id
    /\ op[c].kind \in Edits => op[c].new \in Folder
    /\ op[c].kind = "add" => op[c].old = None
    /\ op[c].kind # "add" /\ Holding(c) => op[c].old \in Folder

\* An add that has not reserved yet is alone with its id.
FreshAdd(c) ==
    op[c].kind = "add" /\ op[c].step = "reserve" =>
        /\ folders[It(c)] = None /\ config.folders[It(c)] = None
        /\ slot[It(c)] = None /\ worker[It(c)] = None
        /\ \A d \in Caller \ {c} : op[d].id # It(c)

\* The worker w of a folder f.
Runs(w, f) == w.root = f.root /\ w.paused = ~f.enabled

\* The worker, if any, that the operation of c has in its slot at each step.
WorkerAt(c, w) ==
    IF op[c].kind \in Edits /\ op[c].step \in {"persist", "undo"} THEN Runs(w, op[c].new)
    ELSE IF op[c].kind \in Switches /\ op[c].step = "persist"
         THEN w.root = op[c].old.root /\ w.paused = (op[c].kind = "pause")
    ELSE IF op[c].step = "revert" THEN w.root = op[c].old.root
    ELSE Runs(w, op[c].old)

\* No worker is left here.
Vacated(c) ==
    op[c].step \in {"start", "restart"} \/ (op[c].kind = "remove" /\ op[c].step = "persist")

\* The view is the operation's; what is saved is what it found, until it saves;
\* the worker is the one of its step.  A torn folder only keeps its view.
Holder(c) ==
    Holding(c) =>
        /\ slot[It(c)] = c
        /\ folders[It(c)] = IF Placed(c) THEN op[c].new ELSE op[c].old
        /\ Vacated(c) => worker[It(c)] = None
        /\ op[c].kind = "add" \/ It(c) \notin torn => config.folders[It(c)] = op[c].old
        /\ It(c) \notin torn /\ worker[It(c)] # None => WorkerAt(c, worker[It(c)])
        /\ Renewed(c) /\ worker[It(c)] # None =>
              Runs(worker[It(c)], op[c].new) /\ worker[It(c)].mail = <<>>

\* A folder whose slot is free is as it is saved; a slot is only held by an
\* operation on its folder; no cycle runs while the worker is paused; orders
\* that nobody waits for pause or resume torn folders only.
Settled(i) ==
    /\ slot[i] # None => Holding(slot[i]) /\ It(slot[i]) = i
    /\ worker[i] # None => folders[i] # None /\ (worker[i].syncing => ~worker[i].paused)
    /\ worker[i] # None /\ i \notin torn => worker[i].mail \in Seq({"sync"})
    /\ slot[i] = None /\ i \notin torn =>
          /\ folders[i] = config.folders[i]
          /\ worker[i] # None => Runs(worker[i], folders[i])

\* New paths that are in place are saved, or in place, nowhere else.
Reserved ==
    \A c \in Caller : Placed(c) =>
        /\ \A j \in Id \ {It(c)} : config.folders[j] # None => config.folders[j].root # op[c].new.root
        /\ \A d \in Caller \ {c} : Placed(d) => op[d].new.root # op[c].new.root

\* What may be saved: Reopens, of any configuration.
Savable(cfg) ==
    /\ Opens(cfg)
    /\ \A i \in Id : cfg.folders[i] # None => cfg.folders[i].device \in cfg.devices \cup {None}

\* So are the configuration, the file, and what may still replace the file.
Sound ==
    /\ Savable(config) /\ Savable(disk)
    /\ \A n \in 1..MaxDrops : late[n] # None => Savable(late[n])

\* The paths of an untorn folder, viewed or saved, are no other untorn folder's.
Apart ==
    \A i, j \in Id \ torn : i # j =>
        /\ folders[i] # None /\ folders[j] # None => folders[i].root # folders[j].root
        /\ folders[i] # None /\ config.folders[j] # None => folders[i].root # config.folders[j].root

\* Once the manager stops its workers nothing is under way, and once it is
\* closed no folder is torn.
Stilled ==
    /\ manager \in {"stopping", "closed"} => \A c \in Caller : op[c] = Idle
    /\ manager = "closed" => torn = {}

ControlInv ==
    /\ TypeOK
    /\ \A c \in Caller : OpShape(c) /\ FreshAdd(c) /\ Holder(c)
    /\ \A i \in Id : Settled(i)
    /\ Reserved /\ Sound /\ Apart /\ Stilled

-----------------------------------------------------------------------------
(* What one step of an operation leaves alone *)

\* Only c and its folder i have moved.
Frame(c, i) ==
    /\ \A d \in Caller \ {c} : op'[d] = op[d]
    /\ \A j \in Id \ {i} :
          /\ folders'[j] = folders[j] /\ worker'[j] = worker[j] /\ slot'[j] = slot[j]
          /\ config'.folders[j] = config.folders[j]
    /\ torn \subseteq torn' \cup {i} /\ torn' \subseteq torn \cup {i}

\* A step of the operation that holds the slot, or takes it, disturbs neither
\* another operation nor another folder.
LEMMA LocalStep ==
    ASSUME ControlInv, NEW c \in Caller, NEW i \in Id, op[c].id = i, slot[i] \in {None, c},
           Frame(c, i), op'[c].id \in {i, None}
    PROVE  /\ \A d \in Caller \ {c} : OpShape(d)' /\ FreshAdd(d)' /\ Holder(d)'
           /\ \A j \in Id \ {i} : Settled(j)'
<1>1. ASSUME NEW d \in Caller \ {c}
      PROVE  OpShape(d)' /\ FreshAdd(d)' /\ Holder(d)'
    <2>1. op'[d] = op[d] /\ OpShape(d) /\ FreshAdd(d) /\ Holder(d)
        BY DEF ControlInv, Frame
    <2>2. OpShape(d)'
        BY <2>1 DEF OpShape, Holding
    <2>3. Holding(d) => It(d) # i
        BY <2>1, ControlAssumption DEF Holder
    <2>4. Holder(d)'
        <3>1. Holding(d)' => It(d) \in Id \ {i}
            BY <2>1, <2>3, ControlAssumption DEF OpShape, Holding, It, Idle
        <3> QED BY <2>1, <3>1 DEF Holder, Holding, It, Frame, Placed, Vacated, WorkerAt, Runs, Renewed
    <2>5. FreshAdd(d)'
        <3> SUFFICES ASSUME op[d].kind = "add", op[d].step = "reserve"
                     PROVE  FreshAdd(d)'
            BY <2>1 DEF FreshAdd
        <3>1. It(d) \in Id \ {i}
            BY <2>1, ControlAssumption DEF OpShape, FreshAdd, It, Idle
        <3> QED BY <2>1, <3>1, ControlAssumption DEF FreshAdd, It, Frame
    <2> QED BY <2>2, <2>4, <2>5
<1>2. ASSUME NEW j \in Id \ {i}
      PROVE  Settled(j)'
    <2>1. Settled(j) /\ slot[j] # c
        BY ControlAssumption DEF ControlInv, Settled, It
    <2>2. slot[j] # None => slot[j] \in Caller \ {c}
        BY <2>1 DEF ControlInv, TypeOK
    <2> QED BY <2>1, <2>2 DEF Settled, Frame, Holding, It, Runs
<1> QED BY <1>1, <1>2

\* Placed made earlier stand when nothing is saved and c makes none.
LEMMA ReservedKept ==
    ASSUME ControlInv, NEW c \in Caller, \A d \in Caller \ {c} : op'[d] = op[d], UNCHANGED config,
           Placed(c)' => Placed(c) /\ op'[c].new = op[c].new /\ op'[c].id = op[c].id
    PROVE  Reserved'
BY DEF ControlInv, Reserved, Placed, It

\* A folder that stays on its own paths stays apart from the others.
LEMMA ApartKept ==
    ASSUME ControlInv, NEW i \in Id, torn \subseteq torn',
           \A j \in Id \ {i} : folders'[j] = folders[j] /\ config'.folders[j] = config.folders[j],
           i \notin torn' => \A f \in {folders'[i], config'.folders[i]} : f # None =>
               \/ folders[i] # None /\ f.root = folders[i].root
               \/ config.folders[i] # None /\ f.root = config.folders[i].root
    PROVE  Apart'
<1> SUFFICES ASSUME NEW j \in Id \ torn', NEW k \in Id \ torn', j # k
             PROVE  /\ folders'[j] # None /\ folders'[k] # None => folders'[j].root # folders'[k].root
                    /\ folders'[j] # None /\ config'.folders[k] # None
                          => folders'[j].root # config'.folders[k].root
    BY DEF Apart
<1>1. /\ folders[j] # None /\ folders[k] # None => folders[j].root # folders[k].root
      /\ folders[j] # None /\ config.folders[k] # None => folders[j].root # config.folders[k].root
      /\ folders[k] # None /\ config.folders[j] # None => folders[k].root # config.folders[j].root
      /\ config.folders[j] # None /\ config.folders[k] # None
            => config.folders[j].root # config.folders[k].root
    BY DEF ControlInv, Sound, Apart, Savable, Opens
<1> QED BY <1>1

\* The parts that a step of c, at its folder i, has to keep.
LEMMA StepByParts ==
    ASSUME ControlInv, NEW c \in Caller, NEW i \in Id, op[c].id = i, slot[i] \in {None, c},
           Frame(c, i), op'[c].id \in {i, None}, UNCHANGED manager,
           TypeOK', OpShape(c)', FreshAdd(c)', Holder(c)', Settled(i)',
           Reserved', Sound', Apart'
    PROVE  ControlInv'
<1>1. op[c] # Idle
    BY ControlAssumption DEF Idle
<1>2. Stilled'
    BY <1>1 DEF ControlInv, Stilled
<1>3. /\ \A d \in Caller : OpShape(d)' /\ FreshAdd(d)' /\ Holder(d)'
      /\ \A j \in Id : Settled(j)'
    BY LocalStep
<1> QED BY <1>2, <1>3 DEF ControlInv

\* Another step of the same operation.
LEMMA GotoFacts ==
    ASSUME TypeOK, NEW c \in Caller, NEW s, Goto(c, s)
    PROVE  /\ \A d \in Caller \ {c} : op'[d] = op[d]
           /\ op'[c].step = s /\ op'[c].kind = op[c].kind /\ op'[c].id = op[c].id
           /\ op'[c].new = op[c].new /\ op'[c].old = op[c].old
           /\ s \in {"idle", "lock", "reserve", "stop", "start", "command", "cycle", "persist",
                     "undo", "restart", "revert"} => op' \in [Caller -> Op]
<1>1. op \in [Caller -> Op] /\ op[c] \in Op
    BY DEF TypeOK
<1>2. op' = [op EXCEPT ![c] = [op[c] EXCEPT !.step = s]]
    BY DEF Goto
<1> QED BY <1>1, <1>2 DEF Op

\* The operation is over, and its slot free.
LEMMA ReturnFacts ==
    ASSUME TypeOK, NEW c \in Caller, Return(c)
    PROVE  /\ \A d \in Caller \ {c} : op'[d] = op[d]
           /\ op'[c] = Idle /\ op' \in [Caller -> Op]
           /\ slot' \in [Id -> Caller \cup {None}]
           /\ \A i \in Id : slot'[i] = IF slot[i] = c THEN None ELSE slot[i]
BY DEF TypeOK, Return, Idle, Op

\* The folder of an operation that is under way, and nobody else's slot.
LEMMA HoldingFacts ==
    ASSUME ControlInv, NEW c \in Caller, Holding(c)
    PROVE  \E i \in Id : /\ i = It(c) /\ op[c].id = i /\ slot[i] = c /\ op[c] # Idle
                         /\ \A j \in Id \ {i} : slot[j] # c
<1>1. op[c] # Idle
    BY DEF Holding, Idle
<1> QED BY <1>1, ControlAssumption DEF ControlInv, OpShape, Holder, Settled, It

\* An idle operation has nothing to keep; one that returns leaves its slot.
LEMMA ReturnParts ==
    ASSUME ControlInv, NEW c \in Caller, NEW i \in Id, slot[i] = c, Return(c),
           \A j \in Id \ {i} : slot[j] # c
    PROVE  /\ \A d \in Caller \ {c} : op'[d] = op[d]
           /\ op' \in [Caller -> Op] /\ op'[c].id = None
           /\ slot' \in [Id -> Caller \cup {None}] /\ slot'[i] = None
           /\ \A j \in Id \ {i} : slot'[j] = slot[j]
           /\ OpShape(c)' /\ FreshAdd(c)' /\ Holder(c)' /\ ~Placed(c)'
<1>1. /\ \A d \in Caller \ {c} : op'[d] = op[d]
      /\ op'[c] = Idle /\ op' \in [Caller -> Op]
      /\ slot' \in [Id -> Caller \cup {None}]
      /\ \A j \in Id : slot'[j] = IF slot[j] = c THEN None ELSE slot[j]
    BY ReturnFacts DEF ControlInv
<1>2. OpShape(c)' /\ FreshAdd(c)' /\ Holder(c)' /\ ~Placed(c)'
    BY <1>1, ControlAssumption
    DEF Idle, OpShape, FreshAdd, Holder, Placed, Holding, Edits, Kind
<1> QED BY <1>1, <1>2 DEF Idle

\* What is saved stays fit to be saved.
LEMMA SavableKept ==
    ASSUME ControlInv, UNCHANGED <<disk, config, late>>
    PROVE  Sound'
BY DEF ControlInv, Sound, Savable, Opens

-----------------------------------------------------------------------------
(* The steps of an operation *)

LEMMA StopStep == ASSUME ControlInv, NEW c \in Caller, Stop(c) PROVE ControlInv'
<1>1. Holding(c) /\ op[c].kind \in {"update", "remove"} /\ op[c].step = "stop"
    BY DEF ControlInv, OpShape, Stop, Holding, Idle
<1>2. PICK i \in Id : /\ i = It(c) /\ op[c].id = i /\ slot[i] = c /\ op[c] # Idle
                     /\ \A j \in Id \ {i} : slot[j] # c
    BY <1>1, HoldingFacts
<1>3. /\ OpShape(c) /\ Holder(c) /\ Settled(i) /\ TypeOK
    BY <1>2 DEF ControlInv
<1>4. worker' = [worker EXCEPT ![i] = None] /\ UNCHANGED <<manager, disk, config, late, leaving, made, drops, folders>>
    BY <1>2 DEF Stop, Stopping, rest
<1>5. /\ worker' \in [Id -> Worker \cup {None}] /\ worker'[i] = None
      /\ \A j \in Id \ {i} : worker'[j] = worker[j]
    BY <1>2, <1>3, <1>4 DEF TypeOK
<1>6. Sound'
    BY <1>4, SavableKept
<1>7. CASE /\ Goto(c, IF op[c].kind = "update" THEN "start" ELSE "persist")
           /\ UNCHANGED <<slot, torn, faults>>
    <2>1. /\ \A d \in Caller \ {c} : op'[d] = op[d]
          /\ op'[c].step = IF op[c].kind = "update" THEN "start" ELSE "persist"
          /\ op'[c].kind = op[c].kind /\ op'[c].id = op[c].id
          /\ op'[c].new = op[c].new /\ op'[c].old = op[c].old /\ op' \in [Caller -> Op]
        BY <1>3, <1>7, GotoFacts
    <2>2. TypeOK'
        BY <1>3, <1>4, <1>5, <1>7, <2>1 DEF TypeOK
    <2>3. Frame(c, i)
        BY <1>4, <1>5, <1>7, <2>1 DEF Frame
    <2>4. OpShape(c)' /\ FreshAdd(c)'
        BY <1>1, <1>3, <2>1, ControlAssumption DEF OpShape, FreshAdd, Holding, Idle, Edits, Switches
    <2>5. Holder(c)' /\ Settled(i)'
        BY <1>1, <1>2, <1>3, <1>4, <1>5, <1>7, <2>1, ControlAssumption
        DEF Holder, Settled, Holding, It, Placed, Edits
    <2>6. Reserved'
        BY <1>1, <1>4, <2>1, ReservedKept DEF Placed, Edits
    <2>7. Apart'
        BY <1>2, <1>4, <1>7, ApartKept
    <2> QED BY <1>2, <1>4, <1>6, <2>1, <2>2, <2>3, <2>4, <2>5, <2>6, <2>7, StepByParts
<1>8. CASE Fault /\ Return(c) /\ torn' = torn \cup {i}
    <2>1. /\ \A d \in Caller \ {c} : op'[d] = op[d]
          /\ op' \in [Caller -> Op] /\ op'[c].id = None
          /\ slot' \in [Id -> Caller \cup {None}] /\ slot'[i] = None
          /\ \A j \in Id \ {i} : slot'[j] = slot[j]
          /\ OpShape(c)' /\ FreshAdd(c)' /\ Holder(c)' /\ ~Placed(c)'
        BY <1>2, <1>8, ReturnParts
    <2>2. TypeOK'
        BY <1>2, <1>3, <1>4, <1>5, <1>8, <2>1, ControlAssumption DEF TypeOK, Fault
    <2>3. Frame(c, i)
        BY <1>2, <1>4, <1>5, <1>8, <2>1 DEF Frame
    <2>4. Settled(i)'
        BY <1>2, <1>5, <1>8, <2>1 DEF Settled
    <2>5. Reserved'
        BY <1>4, <2>1, ReservedKept
    <2>6. Apart'
        BY <1>2, <1>4, <1>8, ApartKept
    <2> QED BY <1>2, <1>4, <1>6, <2>1, <2>2, <2>3, <2>4, <2>5, <2>6, StepByParts
<1> QED BY <1>2, <1>7, <1>8 DEF Stop, Stopping

LEMMA StartStep == ASSUME ControlInv, NEW c \in Caller, Start(c) PROVE ControlInv'
<1>1. Holding(c) /\ op[c].kind \in Edits /\ op[c].step = "start"
    BY DEF ControlInv, OpShape, Start, Holding, Idle, Edits
<1>2. PICK i \in Id : /\ i = It(c) /\ op[c].id = i /\ slot[i] = c /\ op[c] # Idle
                     /\ \A j \in Id \ {i} : slot[j] # c
    BY <1>1, HoldingFacts
<1>3. OpShape(c) /\ Holder(c) /\ Settled(i) /\ TypeOK
    BY <1>2 DEF ControlInv
<1>4. /\ worker[i] = None /\ folders[i] = op[c].new /\ op[c].new \in Folder
      /\ op[c].kind = "add" \/ i \notin torn => config.folders[i] = op[c].old
      /\ op[c].kind = "add" => op[c].old = None
      /\ op[c].kind # "add" => op[c].old \in Folder
    BY <1>1, <1>2, <1>3 DEF OpShape, Holder, Vacated, Placed
<1>5. UNCHANGED <<manager, disk, config, late, leaving, made, drops, torn>>
    BY DEF Start, rest
<1>6. Sound'
    BY <1>5, SavableKept
<1>7. CASE /\ worker' = [worker EXCEPT ![i] = Started(op[c].new)] /\ Goto(c, "persist")
           /\ UNCHANGED <<folders, slot, faults>>
    <2>1. /\ \A d \in Caller \ {c} : op'[d] = op[d]
          /\ op'[c].step = "persist" /\ op'[c].kind = op[c].kind /\ op'[c].id = op[c].id
          /\ op'[c].new = op[c].new /\ op'[c].old = op[c].old /\ op' \in [Caller -> Op]
        BY <1>3, <1>7, GotoFacts
    <2>2. /\ worker' \in [Id -> Worker \cup {None}] /\ worker'[i] = Started(op[c].new)
          /\ \A j \in Id \ {i} : worker'[j] = worker[j]
        BY <1>2, <1>3, <1>4, <1>7 DEF TypeOK, Started, Worker, Folder
    <2>3. TypeOK'
        BY <1>3, <1>5, <1>7, <2>1, <2>2 DEF TypeOK
    <2>4. Frame(c, i)
        BY <1>5, <1>7, <2>1, <2>2 DEF Frame
    <2>5. OpShape(c)' /\ FreshAdd(c)'
        BY <1>1, <1>3, <2>1, ControlAssumption DEF OpShape, FreshAdd, Holding, Idle, Edits, Switches
    <2>6. Holder(c)' /\ Settled(i)'
        BY <1>1, <1>2, <1>3, <1>4, <1>5, <1>7, <2>1, <2>2, ControlAssumption
        DEF Holder, Settled, Holding, It, Placed, Vacated, WorkerAt, Runs, Renewed, Started, Edits
    <2>7. Reserved'
        BY <1>1, <1>5, <2>1, ReservedKept DEF Placed, Edits
    <2>8. Apart'
        BY <1>2, <1>5, <1>7, ApartKept
    <2> QED BY <1>2, <1>5, <1>6, <2>1, <2>3, <2>4, <2>5, <2>6, <2>7, <2>8, StepByParts
<1>8. ASSUME StartFails(op[c].new), UNCHANGED worker, folders' = [folders EXCEPT ![i] = op[c].old]
      PROVE  /\ folders' \in [Id -> Folder \cup {None}] /\ folders'[i] = op[c].old
             /\ \A j \in Id \ {i} : folders'[j] = folders[j]
             /\ faults' \in 0..MaxFaults /\ Apart'
    <2>1. /\ folders' \in [Id -> Folder \cup {None}] /\ folders'[i] = op[c].old
          /\ \A j \in Id \ {i} : folders'[j] = folders[j]
        BY <1>3, <1>4, <1>8 DEF TypeOK
    <2>2. Apart'
        BY <1>4, <1>5, <2>1, ApartKept
    <2> QED BY <1>3, <1>8, <2>1, <2>2, ControlAssumption DEF TypeOK, Fault, StartFails
<1>9. CASE /\ StartFails(op[c].new) /\ UNCHANGED worker /\ folders' = [folders EXCEPT ![i] = op[c].old]
           /\ op[c].kind = "add" /\ Return(c)
    <2>1. /\ \A d \in Caller \ {c} : op'[d] = op[d]
          /\ op' \in [Caller -> Op] /\ op'[c].id = None
          /\ slot' \in [Id -> Caller \cup {None}] /\ slot'[i] = None
          /\ \A j \in Id \ {i} : slot'[j] = slot[j]
          /\ OpShape(c)' /\ FreshAdd(c)' /\ Holder(c)' /\ ~Placed(c)'
        BY <1>2, <1>9, ReturnParts
    <2>2. TypeOK'
        BY <1>3, <1>5, <1>8, <1>9, <2>1 DEF TypeOK
    <2>3. Frame(c, i)
        BY <1>5, <1>8, <1>9, <2>1 DEF Frame
    <2>4. Settled(i)'
        BY <1>4, <1>5, <1>8, <1>9, <2>1 DEF Settled
    <2>5. Reserved'
        BY <1>5, <2>1, ReservedKept
    <2> QED BY <1>2, <1>5, <1>6, <1>8, <1>9, <2>1, <2>2, <2>3, <2>4, <2>5, StepByParts
<1>10. CASE /\ StartFails(op[c].new) /\ UNCHANGED <<worker, slot>> /\ folders' = [folders EXCEPT ![i] = op[c].old]
            /\ op[c].kind = "update" /\ Goto(c, "restart")
    <2>1. /\ \A d \in Caller \ {c} : op'[d] = op[d]
          /\ op'[c].step = "restart" /\ op'[c].kind = op[c].kind /\ op'[c].id = op[c].id
          /\ op'[c].new = op[c].new /\ op'[c].old = op[c].old /\ op' \in [Caller -> Op]
        BY <1>3, <1>10, GotoFacts
    <2>2. TypeOK'
        BY <1>3, <1>5, <1>8, <1>10, <2>1 DEF TypeOK
    <2>3. Frame(c, i)
        BY <1>5, <1>8, <1>10, <2>1 DEF Frame
    <2>4. OpShape(c)' /\ FreshAdd(c)'
        BY <1>1, <1>3, <1>10, <2>1, ControlAssumption
        DEF OpShape, FreshAdd, Holding, Idle, Edits, Switches
    <2>5. Holder(c)' /\ Settled(i)'
        BY <1>1, <1>2, <1>3, <1>4, <1>5, <1>8, <1>10, <2>1, ControlAssumption
        DEF Holder, Settled, Holding, It, Placed, Vacated, Edits
    <2>6. Reserved'
        BY <1>5, <2>1, ReservedKept DEF Placed
    <2> QED BY <1>2, <1>5, <1>6, <1>8, <1>10, <2>1, <2>2, <2>3, <2>4, <2>5, <2>6, StepByParts
<1> QED BY <1>1, <1>2, <1>7, <1>9, <1>10 DEF Start, Edits

LEMMA RestartStep == ASSUME ControlInv, NEW c \in Caller, Restart(c) PROVE ControlInv'
<1>1. Holding(c) /\ op[c].kind \in {"update", "remove"} /\ op[c].step = "restart"
    BY DEF ControlInv, OpShape, Restart, Holding, Idle, Switches
<1>2. PICK i \in Id : /\ i = It(c) /\ op[c].id = i /\ slot[i] = c /\ op[c] # Idle
                     /\ \A j \in Id \ {i} : slot[j] # c
    BY <1>1, HoldingFacts
<1>3. OpShape(c) /\ Holder(c) /\ Settled(i) /\ TypeOK
    BY <1>2 DEF ControlInv
<1>4. /\ worker[i] = None /\ folders[i] = op[c].old /\ op[c].old \in Folder
      /\ i \notin torn => config.folders[i] = op[c].old
    BY <1>1, <1>2, <1>3 DEF OpShape, Holder, Vacated, Placed
<1>5. UNCHANGED <<manager, disk, config, late, leaving, made, drops, folders, torn>> /\ Return(c)
    BY DEF Restart, rest
<1>6. Sound'
    BY <1>5, SavableKept
<1>7. /\ \A d \in Caller \ {c} : op'[d] = op[d]
      /\ op' \in [Caller -> Op] /\ op'[c].id = None
      /\ slot' \in [Id -> Caller \cup {None}] /\ slot'[i] = None
      /\ \A j \in Id \ {i} : slot'[j] = slot[j]
      /\ OpShape(c)' /\ FreshAdd(c)' /\ Holder(c)' /\ ~Placed(c)'
    BY <1>2, <1>5, ReturnParts
<1>8. /\ worker' \in [Id -> Worker \cup {None}] /\ worker'[i] \in {None, Started(op[c].old)}
      /\ \A j \in Id \ {i} : worker'[j] = worker[j]
      /\ faults' \in 0..MaxFaults
    <2>1. CASE worker' = [worker EXCEPT ![i] = Started(op[c].old)] /\ UNCHANGED faults
        BY <1>3, <1>4, <2>1 DEF TypeOK, Started, Worker, Folder
    <2>2. CASE StartFails(op[c].old) /\ UNCHANGED worker
        BY <1>3, <1>4, <2>2, ControlAssumption DEF TypeOK, Fault, StartFails
    <2> QED BY <1>2, <2>1, <2>2 DEF Restart
<1>9. TypeOK'
    BY <1>3, <1>5, <1>7, <1>8 DEF TypeOK
<1>10. Frame(c, i)
    BY <1>5, <1>7, <1>8 DEF Frame
<1>14. /\ Started(op[c].old).mail \in Seq({"sync"}) /\ ~Started(op[c].old).syncing
       /\ Runs(Started(op[c].old), op[c].old)
    BY DEF Started, Runs
<1>11. Settled(i)'
    <2>1. slot'[i] = None /\ folders'[i] = op[c].old /\ folders'[i] # None
        BY <1>4, <1>5, <1>7, ControlAssumption
    <2>2. i \notin torn' => folders'[i] = config'.folders[i]
        BY <1>4, <1>5
    <2>3. worker'[i] # None => /\ worker'[i].mail \in Seq({"sync"}) /\ ~worker'[i].syncing
                               /\ Runs(worker'[i], folders'[i])
        BY <1>8, <1>14, <2>1
    <2> QED BY <2>1, <2>2, <2>3 DEF Settled, Runs
<1>12. Reserved'
    BY <1>5, <1>7, ReservedKept
<1>13. Apart'
    BY <1>5, ApartKept
<1> QED BY <1>2, <1>5, <1>6, <1>7, <1>9, <1>10, <1>11, <1>12, <1>13, StepByParts

\* What an operation may save is a configuration that differs at its folder
\* only, and is fit to be saved.
LEMMA TargetFacts ==
    ASSUME ControlInv, NEW c \in Caller, NEW i \in Id, i = It(c), op[c].step = "persist",
           op[c].kind \in Edits \cup {"remove"} \cup Switches, ~Refused(c)
    PROVE  /\ Target(c) \in Config /\ Target(c).devices = config.devices
           /\ \A j \in Id \ {i} : Target(c).folders[j] = config.folders[j]
           /\ op[c].kind \in Edits => Target(c).folders[i] = op[c].new
           /\ op[c].kind = "remove" => Target(c).folders[i] = None
           /\ op[c].kind \in Switches =>
                 /\ config.folders[i] \in Folder
                 /\ Target(c).folders[i] = [config.folders[i] EXCEPT !.enabled = (op[c].kind = "resume")]
           /\ Savable(Target(c))
<1>1. OpShape(c) /\ TypeOK /\ Savable(config)
    BY DEF ControlInv, Sound
<1>2. config \in Config /\ config.folders \in [Id -> Folder \cup {None}] /\ config.devices \in SUBSET Device
    BY <1>1 DEF TypeOK, Config
<1>3. CASE op[c].kind \in Edits
    <2>1. Target(c) = [config EXCEPT !.folders[i] = op[c].new] /\ op[c].new \in Folder
        BY <1>1, <1>3 DEF Target, OpShape, Edits
    <2>2. DeviceKnown(op[c].new)
        BY <1>3 DEF Refused, Edits
    <2>3. \A j \in Id \ {i} : config.folders[j] # None => config.folders[j].root # op[c].new.root
        BY <1>3 DEF ControlInv, Reserved, Placed
    <2>4. Target(c) \in Config
        BY <1>2, <2>1 DEF Config
    <2>5. /\ \A j \in Id \ {i} : Target(c).folders[j] = config.folders[j]
          /\ Target(c).folders[i] = op[c].new /\ Target(c).devices = config.devices
        BY <1>2, <2>1 DEF Config
    <2>6. Savable(Target(c))
        BY <1>1, <2>2, <2>3, <2>5 DEF Savable, Opens, DeviceKnown
    <2> QED BY <1>3, <2>4, <2>5, <2>6 DEF Edits, Switches
<1>4. CASE op[c].kind = "remove"
    <2>1. Target(c) = [config EXCEPT !.folders[i] = None]
        BY <1>4 DEF Target
    <2>2. Target(c) \in Config
        BY <1>2, <2>1 DEF Config
    <2>3. /\ \A j \in Id \ {i} : Target(c).folders[j] = config.folders[j]
          /\ Target(c).folders[i] = None /\ Target(c).devices = config.devices
        BY <1>2, <2>1 DEF Config
    <2>4. Savable(Target(c))
        BY <1>1, <2>3 DEF Savable, Opens
    <2> QED BY <1>4, <2>2, <2>3, <2>4 DEF Edits, Switches
<1>5. CASE op[c].kind \in Switches
    <2>1. Target(c) = [config EXCEPT !.folders[i].enabled = (op[c].kind = "resume")]
        BY <1>5 DEF Target, Switches
    <2>2. config.folders[i] \in Folder
        BY <1>2, <1>5 DEF Refused, Switches
    <2>3. Target(c) \in Config
        <3>1. [config.folders[i] EXCEPT !.enabled = (op[c].kind = "resume")] \in Folder
            BY <2>2 DEF Folder
        <3>2. Target(c) = [config EXCEPT !.folders = [config.folders EXCEPT ![i] =
                              [config.folders[i] EXCEPT !.enabled = (op[c].kind = "resume")]]]
            BY <2>1
        <3> QED BY <1>2, <3>1, <3>2 DEF Config
    <2>4. /\ \A j \in Id \ {i} : Target(c).folders[j] = config.folders[j]
          /\ Target(c).folders[i] = [config.folders[i] EXCEPT !.enabled = (op[c].kind = "resume")]
          /\ Target(c).devices = config.devices
        BY <1>2, <2>1 DEF Config
    <2>5. \A j \in Id : Target(c).folders[j] # None =>
              /\ config.folders[j] # None
              /\ Target(c).folders[j].root = config.folders[j].root
              /\ Target(c).folders[j].device = config.folders[j].device
        <3>1. /\ Target(c).folders[i].root = config.folders[i].root
              /\ Target(c).folders[i].device = config.folders[i].device
            BY <2>2, <2>4 DEF Folder
        <3> QED BY <2>2, <2>4, <3>1, ControlAssumption
    <2>6. Savable(Target(c))
        BY <1>1, <2>4, <2>5 DEF Savable, Opens
    <2> QED BY <1>5, <2>2, <2>3, <2>4, <2>6 DEF Edits, Switches
<1> QED BY <1>3, <1>4, <1>5

\* The paths that an operation has put in place are in no other view.
LEMMA ViewsApart ==
    ASSUME ControlInv, NEW c \in Caller, Placed(c), NEW j \in Id, j \notin torn, j # It(c)
    PROVE  folders[j] # None => folders[j].root # op[c].new.root
<1>1. Settled(j) /\ (config.folders[j] # None => config.folders[j].root # op[c].new.root)
    BY DEF ControlInv, Reserved
<1>2. CASE slot[j] = None
    BY <1>1, <1>2 DEF Settled
<1>3. CASE slot[j] # None
    <2>1. PICK d \in Caller : slot[j] = d /\ Holding(d) /\ It(d) = j
        BY <1>1, <1>3 DEF ControlInv, TypeOK, Settled
    <2>2. folders[j] = (IF Placed(d) THEN op[d].new ELSE op[d].old) /\ config.folders[j] = op[d].old
        BY <2>1 DEF ControlInv, Holder
    <2>3. Placed(d) => op[d].new.root # op[c].new.root
        BY <2>1 DEF ControlInv, Reserved
    <2> QED BY <1>1, <2>2, <2>3
<1> QED BY <1>2, <1>3

\* A folder that is saved on the paths it has put in place, or removed, is apart
\* from the others, even if it was torn.
LEMMA ApartMended ==
    ASSUME ControlInv, NEW c \in Caller, NEW i \in Id, i = It(c), torn' = torn \ {i},
           \A j \in Id \ {i} : folders'[j] = folders[j] /\ config'.folders[j] = config.folders[j],
           \/ Placed(c) /\ folders'[i] = op[c].new /\ config'.folders[i] = op[c].new
           \/ folders'[i] = None /\ config'.folders[i] = None
    PROVE  Apart'
<1> SUFFICES ASSUME NEW j \in Id \ torn', NEW k \in Id \ torn', j # k
             PROVE  /\ folders'[j] # None /\ folders'[k] # None => folders'[j].root # folders'[k].root
                    /\ folders'[j] # None /\ config'.folders[k] # None
                          => folders'[j].root # config'.folders[k].root
    BY DEF Apart
<1>1. CASE j # i /\ k # i
    BY <1>1 DEF ControlInv, Apart
<1>2. ASSUME NEW l \in Id \ torn', l # i, Placed(c)
      PROVE  /\ folders[l] # None => folders[l].root # op[c].new.root
             /\ config.folders[l] # None => config.folders[l].root # op[c].new.root
    <2>1. l \notin torn
        BY <1>2
    <2> QED BY <1>2, <2>1, ViewsApart DEF ControlInv, Reserved
<1>3. CASE j = i
    BY <1>2, <1>3
<1>4. CASE k = i
    BY <1>2, <1>4
<1> QED BY <1>1, <1>3, <1>4

LEMMA PersistStep == ASSUME ControlInv, NEW c \in Caller, Persist(c) PROVE ControlInv'
<1>1. /\ Holding(c) /\ op[c].kind \in Edits \cup {"remove"} \cup Switches /\ op[c].step = "persist"
      /\ UNCHANGED <<worker, manager, late, leaving, made, drops>>
    BY DEF ControlInv, OpShape, Persist, Holding, Idle, Edits
<1>2. PICK i \in Id : /\ i = It(c) /\ op[c].id = i /\ slot[i] = c /\ op[c] # Idle
                     /\ \A j \in Id \ {i} : slot[j] # c
    BY <1>1, HoldingFacts
<1>3. OpShape(c) /\ Holder(c) /\ Settled(i) /\ TypeOK
    BY <1>2 DEF ControlInv
<1>4. /\ folders[i] = IF op[c].kind \in Edits THEN op[c].new ELSE op[c].old
      /\ op[c].kind \in Edits => op[c].new \in Folder
      /\ op[c].kind \notin Edits => op[c].old \in Folder
      /\ op[c].kind = "add" => op[c].old = None /\ config.folders[i] = None
      /\ i \notin torn => config.folders[i] = op[c].old
    BY <1>1, <1>2, <1>3 DEF OpShape, Holder, Placed, Edits
<1>5. /\ op[c].kind = "remove" => worker[i] = None
      /\ i \notin torn /\ worker[i] # None => WorkerAt(c, worker[i])
    BY <1>1, <1>2, <1>3 DEF Holder, Vacated
<1>6. CASE /\ ~Refused(c) /\ Saved(Target(c)) /\ Return(c) /\ Mended(c)
           /\ folders' = CASE op[c].kind = "remove" -> [folders EXCEPT ![i] = None]
                           [] op[c].kind \in {"pause", "resume"} ->
                                [folders EXCEPT ![i].enabled = (op[c].kind = "resume")]
                           [] OTHER -> folders
    <2>1. /\ \A d \in Caller \ {c} : op'[d] = op[d]
          /\ op' \in [Caller -> Op] /\ op'[c].id = None
          /\ slot' \in [Id -> Caller \cup {None}] /\ slot'[i] = None
          /\ \A j \in Id \ {i} : slot'[j] = slot[j]
          /\ OpShape(c)' /\ FreshAdd(c)' /\ Holder(c)' /\ ~Placed(c)'
        BY <1>2, <1>6, ReturnParts
    <2>2. /\ config' \in Config /\ disk' = config' /\ UNCHANGED faults
          /\ config'.devices = config.devices
          /\ \A j \in Id \ {i} : config'.folders[j] = config.folders[j]
          /\ op[c].kind \in Edits => config'.folders[i] = op[c].new
          /\ op[c].kind = "remove" => config'.folders[i] = None
          /\ op[c].kind \in Switches =>
                /\ config.folders[i] \in Folder
                /\ config'.folders[i] = [config.folders[i] EXCEPT !.enabled = (op[c].kind = "resume")]
        BY <1>1, <1>2, <1>6, TargetFacts DEF Saved
    <2>3. Sound'
        <3>1. Savable(Target(c)) /\ config' = Target(c) /\ disk' = Target(c)
            BY <1>1, <1>2, <1>6, TargetFacts DEF Saved
        <3> QED BY <1>1, <3>1 DEF ControlInv, Sound, Savable, Opens
    <2>4. /\ folders' \in [Id -> Folder \cup {None}]
          /\ \A j \in Id \ {i} : folders'[j] = folders[j]
          /\ op[c].kind \in Edits => folders'[i] = op[c].new
          /\ op[c].kind = "remove" => folders'[i] = None
          /\ op[c].kind \in Switches =>
                folders'[i] = [op[c].old EXCEPT !.enabled = (op[c].kind = "resume")]
        <3>1. CASE op[c].kind \in Edits
            BY <1>2, <1>3, <1>4, <1>6, <3>1 DEF TypeOK, Edits, Switches
        <3>2. CASE op[c].kind = "remove"
            BY <1>2, <1>3, <1>6, <3>2 DEF TypeOK, Edits, Switches
        <3>3. CASE op[c].kind \in Switches
            <4>1. folders' = [folders EXCEPT ![i].enabled = (op[c].kind = "resume")]
                BY <1>6, <3>3 DEF Switches
            <4>2. folders[i] = op[c].old /\ op[c].old \in Folder
                BY <1>4, <3>3 DEF Edits, Switches
            <4> QED BY <1>3, <3>3, <4>1, <4>2 DEF TypeOK, Folder, Edits, Switches
        <3> QED BY <1>1, <3>1, <3>2, <3>3
    <2>10. torn' = IF op[c].kind \in Switches THEN torn ELSE torn \ {i}
        BY <1>2, <1>6 DEF Mended, Switches
    <2>5. TypeOK'
        BY <1>1, <1>3, <2>1, <2>2, <2>4, <2>10 DEF TypeOK
    <2>6. Frame(c, i)
        BY <1>1, <2>1, <2>2, <2>4, <2>10 DEF Frame
    <2>7. Settled(i)'
        <3>1. i \notin torn' => folders'[i] = config'.folders[i]
            BY <1>1, <1>4, <2>2, <2>4, <2>10
        <3>2. worker[i] # None => folders'[i] # None
            <4>1. op[c].kind \in Switches => folders'[i] \in Folder
                BY <1>4, <2>4 DEF Folder, Edits, Switches
            <4> QED BY <1>1, <1>4, <1>5, <2>4, <4>1, ControlAssumption
        <3>3. i \notin torn' /\ worker[i] # None =>
                 Runs(worker[i], folders'[i]) /\ worker[i].mail \in Seq({"sync"})
            <4>1. CASE op[c].kind \in Edits
                <5>1. worker[i] # None => Runs(worker[i], op[c].new) /\ worker[i].mail = <<>>
                    BY <1>1, <1>2, <1>3, <4>1 DEF Holder, Renewed
                <5>2. <<>> \in Seq({"sync"})
                    OBVIOUS
                <5> QED BY <2>4, <4>1, <5>1, <5>2
            <4>2. CASE op[c].kind = "remove"
                BY <1>5, <4>2
            <4>3. CASE op[c].kind \in Switches
                <5>1. folders'[i].root = op[c].old.root /\ folders'[i].enabled = (op[c].kind = "resume")
                    BY <1>4, <2>4, <4>3 DEF Folder, Edits, Switches
                <5>2. i \notin torn /\ worker[i] # None => worker[i].mail \in Seq({"sync"})
                    BY <1>3 DEF Settled
                <5> QED BY <1>1, <1>5, <2>10, <4>3, <5>1, <5>2 DEF WorkerAt, Runs, Edits, Switches
            <4> QED BY <1>1, <4>1, <4>2, <4>3
        <3> QED BY <1>1, <1>3, <2>1, <3>1, <3>2, <3>3 DEF Settled, Runs
    <2>8. Reserved'
        <3> SUFFICES ASSUME NEW d \in Caller, Placed(d)'
                     PROVE  /\ \A j \in Id \ {It(d)'} : config'.folders[j] # None =>
                                  config'.folders[j].root # op'[d].new.root
                            /\ \A e \in Caller \ {d} : Placed(e)' => op'[e].new.root # op'[d].new.root
            BY DEF Reserved
        <3>1. d # c /\ op'[d] = op[d] /\ Placed(d)
            BY <2>1 DEF Placed
        <3>2. \A e \in Caller \ {d} : Placed(e)' => op'[e].new.root # op'[d].new.root
            BY <2>1, <3>1 DEF ControlInv, Reserved, Placed
        <3>3. /\ \A j \in Id \ {It(d)} : config.folders[j] # None => config.folders[j].root # op[d].new.root
              /\ Placed(c) => op[c].new.root # op[d].new.root
            BY <3>1 DEF ControlInv, Reserved
        <3>4. config'.folders[i] # None => config'.folders[i].root =
                 IF op[c].kind \in Edits THEN op[c].new.root ELSE config.folders[i].root
            BY <1>1, <2>2, ControlAssumption DEF Folder, Edits, Switches
        <3>5. op[c].kind \in Edits => Placed(c)
            BY <1>1 DEF Placed
        <3>6. op[c].kind \notin Edits /\ config'.folders[i] # None => config.folders[i] # None
            BY <1>1, <2>2, ControlAssumption
        <3> QED BY <2>2, <3>1, <3>2, <3>3, <3>4, <3>5, <3>6 DEF It
    <2>9. Apart'
        <3>1. CASE op[c].kind \in Edits
            <4>1. Placed(c) /\ folders'[i] = op[c].new /\ config'.folders[i] = op[c].new
                BY <1>1, <2>2, <2>4, <3>1 DEF Placed
            <4> QED BY <1>2, <2>2, <2>4, <2>10, <3>1, <4>1, ApartMended DEF Edits, Switches
        <3>2. CASE op[c].kind = "remove"
            BY <1>2, <2>2, <2>4, <2>10, <3>2, ApartMended DEF Switches
        <3>3. CASE op[c].kind \in Switches
            <4>1. /\ folders[i] = op[c].old /\ op[c].old \in Folder
                  /\ i \notin torn => config.folders[i] = op[c].old
                BY <1>4, <3>3 DEF Edits, Switches
            <4>2. i \notin torn => \A f \in {folders'[i], config'.folders[i]} : f # None =>
                     folders[i] # None /\ f.root = folders[i].root
                BY <2>2, <2>4, <3>3, <4>1, ControlAssumption DEF Folder
            <4> QED BY <2>2, <2>4, <2>10, <3>3, <4>2, ApartKept
        <3> QED BY <1>1, <3>1, <3>2, <3>3
    <2> QED BY <1>1, <1>2, <2>1, <2>3, <2>5, <2>6, <2>7, <2>8, <2>9, StepByParts
<1>7. CASE /\ UNCHANGED <<folders, slot, config, torn>> /\ disk' \in Config /\ Savable(disk')
           /\ faults' \in 0..MaxFaults
           /\ \E s \in {"undo", "restart", "revert"} :
                 /\ Goto(c, s)
                 /\ s = "undo" <=> op[c].kind \in Edits
                 /\ s = "restart" <=> op[c].kind = "remove"
    <2>1. PICK s \in {"undo", "restart", "revert"} :
              /\ Goto(c, s)
              /\ s = "undo" <=> op[c].kind \in Edits
              /\ s = "restart" <=> op[c].kind = "remove"
        BY <1>7
    <2>2. /\ \A d \in Caller \ {c} : op'[d] = op[d]
          /\ op'[c].step = s /\ op'[c].kind = op[c].kind /\ op'[c].id = op[c].id
          /\ op'[c].new = op[c].new /\ op'[c].old = op[c].old /\ op' \in [Caller -> Op]
        BY <1>3, <2>1, GotoFacts
    <2>3. TypeOK'
        BY <1>1, <1>3, <1>7, <2>2 DEF TypeOK
    <2>4. Frame(c, i)
        BY <1>1, <1>7, <2>2 DEF Frame
    <2>5. OpShape(c)' /\ FreshAdd(c)'
        BY <1>1, <1>3, <2>1, <2>2, ControlAssumption
        DEF OpShape, FreshAdd, Holding, Idle, Edits, Switches
    <2>6. Settled(i)'
        BY <1>1, <1>2, <1>3, <1>7, <2>1, <2>2, ControlAssumption DEF Settled, Holding, It
    <2>7. Holder(c)'
        BY <1>1, <1>2, <1>3, <1>4, <1>5, <1>7, <2>1, <2>2
        DEF Holder, Holding, It, Placed, Vacated, WorkerAt, Runs, Renewed, Edits, Switches
    <2>8. Reserved'
        BY <1>1, <1>7, <2>1, <2>2, ReservedKept DEF Placed
    <2>9. Apart' /\ Sound'
        BY <1>1, <1>7, ApartKept DEF ControlInv, Sound, Savable, Opens
    <2> QED BY <1>1, <1>2, <1>7, <2>2, <2>3, <2>4, <2>5, <2>6, <2>7, <2>8, <2>9, StepByParts
<1>8. CASE Unsaved(c)
    <2>1. UNCHANGED config /\ disk' \in Config /\ Savable(disk') /\ faults' \in 0..MaxFaults
        <3>1. disk \in Config /\ Savable(disk) /\ faults \in 0..MaxFaults
            BY DEF ControlInv, Sound, TypeOK
        <3>2. CASE ~Refused(c) /\ NotSaved(Target(c))
            <4>1. Target(c) \in Config /\ Savable(Target(c))
                BY <1>1, <1>2, <3>2, TargetFacts
            <4> QED BY <3>1, <3>2, <4>1, ControlAssumption DEF NotSaved, Fault
        <3>3. CASE Refused(c) /\ UNCHANGED <<disk, config, faults>>
            BY <3>1, <3>3
        <3> QED BY <1>8, <3>2, <3>3 DEF Unsaved
    <2> QED BY <1>1, <1>7, <1>8, <2>1 DEF Unsaved, Edits, Switches
<1> QED BY <1>2, <1>6, <1>8 DEF Persist

LEMMA UndoStep == ASSUME ControlInv, NEW c \in Caller, Undo(c) PROVE ControlInv'
<1>1. Holding(c) /\ op[c].kind \in Edits /\ op[c].step = "undo"
    BY DEF ControlInv, OpShape, Undo, Holding, Idle, Edits
<1>2. PICK i \in Id : /\ i = It(c) /\ op[c].id = i /\ slot[i] = c /\ op[c] # Idle
                     /\ \A j \in Id \ {i} : slot[j] # c
    BY <1>1, HoldingFacts
<1>3. OpShape(c) /\ Holder(c) /\ Settled(i) /\ TypeOK
    BY <1>2 DEF ControlInv
<1>4. /\ folders[i] = op[c].new /\ op[c].new \in Folder
      /\ op[c].kind = "add" \/ i \notin torn => config.folders[i] = op[c].old
      /\ op[c].kind = "add" => op[c].old = None
      /\ op[c].kind # "add" => op[c].old \in Folder
    BY <1>1, <1>2, <1>3 DEF OpShape, Holder, Placed
<1>5. UNCHANGED <<manager, disk, config, late, leaving, made, drops>> /\ worker' = [worker EXCEPT ![i] = None]
    BY <1>2 DEF Undo, rest
<1>6. Sound'
    BY <1>5, SavableKept
<1>7. /\ worker' \in [Id -> Worker \cup {None}] /\ worker'[i] = None
      /\ \A j \in Id \ {i} : worker'[j] = worker[j]
    BY <1>3, <1>5 DEF TypeOK
<1>8. ASSUME UNCHANGED torn, folders' = [folders EXCEPT ![i] = op[c].old]
      PROVE  /\ folders' \in [Id -> Folder \cup {None}] /\ folders'[i] = op[c].old
             /\ \A j \in Id \ {i} : folders'[j] = folders[j]
             /\ Apart'
    <2>1. /\ folders' \in [Id -> Folder \cup {None}] /\ folders'[i] = op[c].old
          /\ \A j \in Id \ {i} : folders'[j] = folders[j]
        BY <1>3, <1>4, <1>8 DEF TypeOK
    <2>2. Apart'
        BY <1>4, <1>5, <1>8, <2>1, ApartKept
    <2> QED BY <2>1, <2>2
<1>9. CASE /\ folders' = [folders EXCEPT ![i] = op[c].old] /\ UNCHANGED <<torn, faults>>
           /\ op[c].kind = "add" /\ Return(c)
    <2>1. /\ \A d \in Caller \ {c} : op'[d] = op[d]
          /\ op' \in [Caller -> Op] /\ op'[c].id = None
          /\ slot' \in [Id -> Caller \cup {None}] /\ slot'[i] = None
          /\ \A j \in Id \ {i} : slot'[j] = slot[j]
          /\ OpShape(c)' /\ FreshAdd(c)' /\ Holder(c)' /\ ~Placed(c)'
        BY <1>2, <1>9, ReturnParts
    <2>2. TypeOK'
        BY <1>3, <1>5, <1>7, <1>8, <1>9, <2>1 DEF TypeOK
    <2>3. Frame(c, i)
        BY <1>5, <1>7, <1>8, <1>9, <2>1 DEF Frame
    <2>4. Settled(i)'
        BY <1>4, <1>5, <1>7, <1>8, <1>9, <2>1 DEF Settled
    <2>5. Reserved'
        BY <1>5, <2>1, ReservedKept
    <2> QED BY <1>2, <1>5, <1>6, <1>8, <1>9, <2>1, <2>2, <2>3, <2>4, <2>5, StepByParts
<1>10. CASE /\ folders' = [folders EXCEPT ![i] = op[c].old] /\ UNCHANGED <<torn, faults, slot>>
            /\ op[c].kind = "update" /\ Goto(c, "restart")
    <2>1. /\ \A d \in Caller \ {c} : op'[d] = op[d]
          /\ op'[c].step = "restart" /\ op'[c].kind = op[c].kind /\ op'[c].id = op[c].id
          /\ op'[c].new = op[c].new /\ op'[c].old = op[c].old /\ op' \in [Caller -> Op]
        BY <1>3, <1>10, GotoFacts
    <2>2. TypeOK'
        BY <1>3, <1>5, <1>7, <1>8, <1>10, <2>1 DEF TypeOK
    <2>3. Frame(c, i)
        BY <1>5, <1>7, <1>8, <1>10, <2>1 DEF Frame
    <2>4. OpShape(c)' /\ FreshAdd(c)'
        BY <1>1, <1>3, <1>10, <2>1, ControlAssumption
        DEF OpShape, FreshAdd, Holding, Idle, Edits, Switches
    <2>5. Holder(c)' /\ Settled(i)'
        BY <1>1, <1>2, <1>3, <1>4, <1>5, <1>7, <1>8, <1>10, <2>1, ControlAssumption
        DEF Holder, Settled, Holding, It, Placed, Vacated, Edits
    <2>6. Reserved'
        BY <1>5, <2>1, ReservedKept DEF Placed
    <2> QED BY <1>2, <1>5, <1>6, <1>8, <1>10, <2>1, <2>2, <2>3, <2>4, <2>5, <2>6, StepByParts
<1>11. CASE Fault /\ Return(c) /\ torn' = torn \cup {i} /\ UNCHANGED folders
    <2>1. /\ \A d \in Caller \ {c} : op'[d] = op[d]
          /\ op' \in [Caller -> Op] /\ op'[c].id = None
          /\ slot' \in [Id -> Caller \cup {None}] /\ slot'[i] = None
          /\ \A j \in Id \ {i} : slot'[j] = slot[j]
          /\ OpShape(c)' /\ FreshAdd(c)' /\ Holder(c)' /\ ~Placed(c)'
        BY <1>2, <1>11, ReturnParts
    <2>2. TypeOK'
        BY <1>2, <1>3, <1>5, <1>7, <1>11, <2>1, ControlAssumption DEF TypeOK, Fault
    <2>3. Frame(c, i)
        BY <1>2, <1>5, <1>7, <1>11, <2>1 DEF Frame
    <2>4. Settled(i)'
        BY <1>7, <1>11, <2>1 DEF Settled
    <2>5. Reserved'
        BY <1>5, <2>1, ReservedKept
    <2>6. Apart'
        BY <1>5, <1>11, ApartKept
    <2> QED BY <1>2, <1>5, <1>6, <2>1, <2>2, <2>3, <2>4, <2>5, <2>6, StepByParts
<1> QED BY <1>1, <1>2, <1>9, <1>10, <1>11 DEF Undo, Edits

LEMMA CommandStep == ASSUME ControlInv, NEW c \in Caller, Command(c) PROVE ControlInv'
<1>1. /\ Holding(c) /\ op[c].kind \in Switches \cup {"sync"} /\ op[c].step = "command"
      /\ UNCHANGED <<manager, disk, config, late, leaving, made, drops, folders, torn>>
    BY DEF ControlInv, OpShape, Command, Holding, Idle, Switches, rest
<1>2. PICK i \in Id : /\ i = It(c) /\ op[c].id = i /\ slot[i] = c /\ op[c] # Idle
                     /\ \A j \in Id \ {i} : slot[j] # c
    BY <1>1, HoldingFacts
<1>3. OpShape(c) /\ Holder(c) /\ Settled(i) /\ TypeOK
    BY <1>2 DEF ControlInv
<1>4. /\ folders[i] = op[c].old /\ op[c].old \in Folder
      /\ i \notin torn => config.folders[i] = op[c].old
      /\ i \notin torn => Runs(worker[i], op[c].old)
      /\ worker[i] \in Worker /\ ~worker[i].syncing
    <2>1. Ready(i)
        BY <1>2 DEF Command
    <2>2. worker[i] \in Worker /\ ~worker[i].syncing /\ worker[i] # None
        BY <1>2, <1>3, <2>1 DEF Ready, Waiting, TypeOK
    <2> QED BY <1>1, <1>2, <1>3, <2>2 DEF OpShape, Holder, Placed, WorkerAt, Edits, Switches
<1>5. Sound' /\ Apart'
    BY <1>1, SavableKept, ApartKept
<1>6. CASE Return(c) /\ UNCHANGED worker /\ faults' \in 0..MaxFaults
    <2>1. /\ \A d \in Caller \ {c} : op'[d] = op[d]
          /\ op' \in [Caller -> Op] /\ op'[c].id = None
          /\ slot' \in [Id -> Caller \cup {None}] /\ slot'[i] = None
          /\ \A j \in Id \ {i} : slot'[j] = slot[j]
          /\ OpShape(c)' /\ FreshAdd(c)' /\ Holder(c)' /\ ~Placed(c)'
        BY <1>2, <1>6, ReturnParts
    <2>2. TypeOK'
        BY <1>1, <1>3, <1>6, <2>1 DEF TypeOK
    <2>3. Frame(c, i)
        BY <1>1, <1>6, <2>1 DEF Frame
    <2>4. Settled(i)'
        BY <1>1, <1>3, <1>4, <1>6, <2>1 DEF Settled, Runs
    <2>5. Reserved'
        BY <1>1, <2>1, ReservedKept
    <2> QED BY <1>1, <1>2, <1>5, <2>1, <2>2, <2>3, <2>4, <2>5, StepByParts
<1>7. CASE /\ op[c].kind = "sync" /\ ~worker[i].paused /\ UNCHANGED <<slot, faults>>
           /\ worker' = [worker EXCEPT ![i].syncing = TRUE] /\ Goto(c, "cycle")
    <2>1. /\ \A d \in Caller \ {c} : op'[d] = op[d]
          /\ op'[c].step = "cycle" /\ op'[c].kind = op[c].kind /\ op'[c].id = op[c].id
          /\ op'[c].new = op[c].new /\ op'[c].old = op[c].old /\ op' \in [Caller -> Op]
        BY <1>3, <1>7, GotoFacts
    <2>2. /\ worker' \in [Id -> Worker \cup {None}] /\ \A j \in Id \ {i} : worker'[j] = worker[j]
          /\ worker'[i].root = worker[i].root /\ worker'[i].paused = worker[i].paused
          /\ worker'[i].mail = worker[i].mail
        BY <1>3, <1>4, <1>7 DEF TypeOK, Worker
    <2>3. TypeOK'
        BY <1>1, <1>3, <1>7, <2>1, <2>2 DEF TypeOK
    <2>4. Frame(c, i)
        BY <1>1, <1>7, <2>1, <2>2 DEF Frame
    <2>5. OpShape(c)' /\ FreshAdd(c)'
        BY <1>1, <1>3, <1>7, <2>1, ControlAssumption
        DEF OpShape, FreshAdd, Holding, Idle, Edits, Switches
    <2>6. Holder(c)' /\ Settled(i)'
        BY <1>1, <1>2, <1>3, <1>4, <1>7, <2>1, <2>2, ControlAssumption
        DEF Holder, Settled, Holding, It, Placed, Vacated, WorkerAt, Runs, Renewed, Edits, Switches
    <2>7. Reserved'
        BY <1>1, <2>1, ReservedKept DEF Placed
    <2> QED BY <1>1, <1>2, <1>5, <2>1, <2>3, <2>4, <2>5, <2>6, <2>7, StepByParts
<1>8. CASE /\ op[c].kind # "sync" /\ Goto(c, "persist") /\ UNCHANGED <<slot, faults>>
           /\ worker' = [worker EXCEPT ![i].paused = (op[c].kind = "pause")]
    <2>1. /\ \A d \in Caller \ {c} : op'[d] = op[d]
          /\ op'[c].step = "persist" /\ op'[c].kind = op[c].kind /\ op'[c].id = op[c].id
          /\ op'[c].new = op[c].new /\ op'[c].old = op[c].old /\ op' \in [Caller -> Op]
        BY <1>3, <1>8, GotoFacts
    <2>2. /\ worker' \in [Id -> Worker \cup {None}] /\ \A j \in Id \ {i} : worker'[j] = worker[j]
          /\ worker'[i].root = worker[i].root /\ worker'[i].paused = (op[c].kind = "pause")
          /\ ~worker'[i].syncing /\ worker'[i].mail = worker[i].mail
        BY <1>3, <1>4, <1>8 DEF TypeOK, Worker
    <2>3. TypeOK'
        BY <1>1, <1>3, <1>8, <2>1, <2>2 DEF TypeOK
    <2>4. Frame(c, i)
        BY <1>1, <1>8, <2>1, <2>2 DEF Frame
    <2>5. OpShape(c)' /\ FreshAdd(c)'
        BY <1>1, <1>3, <1>8, <2>1, ControlAssumption
        DEF OpShape, FreshAdd, Holding, Idle, Edits, Switches
    <2>6. Holder(c)' /\ Settled(i)'
        BY <1>1, <1>2, <1>3, <1>4, <1>8, <2>1, <2>2, ControlAssumption
        DEF Holder, Settled, Holding, It, Placed, Vacated, WorkerAt, Runs, Renewed, Edits, Switches
    <2>7. Reserved'
        BY <1>1, <1>8, <2>1, ReservedKept DEF Placed, Edits, Switches
    <2> QED BY <1>1, <1>2, <1>5, <2>1, <2>3, <2>4, <2>5, <2>6, <2>7, StepByParts
<1>9. \/ /\ op[c].kind = "sync" /\ UNCHANGED faults
         /\ IF worker[i].paused THEN Return(c) /\ UNCHANGED worker
            ELSE worker' = [worker EXCEPT ![i].syncing = TRUE] /\ Goto(c, "cycle") /\ UNCHANGED slot
      \/ /\ op[c].kind # "sync" /\ Goto(c, "persist") /\ UNCHANGED <<slot, faults>>
         /\ worker' = [worker EXCEPT ![i].paused = (op[c].kind = "pause")]
      \/ op[c].kind # "sync" /\ Fault /\ Return(c) /\ UNCHANGED worker
    BY <1>2 DEF Command
<1>10. faults \in 0..MaxFaults /\ (Fault => faults' \in 0..MaxFaults)
    BY <1>3, ControlAssumption DEF TypeOK, Fault
<1> QED BY <1>6, <1>7, <1>8, <1>9, <1>10

LEMMA SyncReturnsStep == ASSUME ControlInv, NEW c \in Caller, SyncReturns(c) PROVE ControlInv'
<1>1. /\ Holding(c) /\ op[c].kind = "sync" /\ op[c].step = "cycle" /\ Return(c)
      /\ UNCHANGED <<disk, config, worker, manager, late, leaving, torn, faults, drops, folders, made>>
    BY DEF ControlInv, OpShape, SyncReturns, Holding, Idle, Switches, settled
<1>2. PICK i \in Id : /\ i = It(c) /\ op[c].id = i /\ slot[i] = c /\ op[c] # Idle
                     /\ \A j \in Id \ {i} : slot[j] # c
    BY <1>1, HoldingFacts
<1>3. OpShape(c) /\ Holder(c) /\ Settled(i) /\ TypeOK
    BY <1>2 DEF ControlInv
<1>4. /\ \A d \in Caller \ {c} : op'[d] = op[d]
      /\ op' \in [Caller -> Op] /\ op'[c].id = None
      /\ slot' \in [Id -> Caller \cup {None}] /\ slot'[i] = None
      /\ \A j \in Id \ {i} : slot'[j] = slot[j]
      /\ OpShape(c)' /\ FreshAdd(c)' /\ Holder(c)' /\ ~Placed(c)'
    BY <1>1, <1>2, ReturnParts
<1>5. TypeOK'
    BY <1>1, <1>3, <1>4 DEF TypeOK
<1>6. Frame(c, i)
    BY <1>1, <1>4 DEF Frame
<1>7. Settled(i)'
    BY <1>1, <1>2, <1>3, <1>4 DEF Settled, Holder, Placed, WorkerAt, Runs, Renewed, Edits, Switches
<1>8. Reserved' /\ Sound' /\ Apart'
    BY <1>1, <1>4, ReservedKept, SavableKept, ApartKept
<1> QED BY <1>1, <1>2, <1>4, <1>5, <1>6, <1>7, <1>8, StepByParts

LEMMA RevertStep == ASSUME ControlInv, NEW c \in Caller, Revert(c) PROVE ControlInv'
<1>1. /\ Holding(c) /\ op[c].kind \in Switches /\ op[c].step = "revert" /\ Return(c)
      /\ UNCHANGED <<manager, disk, config, late, leaving, made, drops, folders>>
    BY DEF ControlInv, OpShape, Revert, Holding, Idle, Switches, rest
<1>2. PICK i \in Id : /\ i = It(c) /\ op[c].id = i /\ slot[i] = c /\ op[c] # Idle
                     /\ \A j \in Id \ {i} : slot[j] # c
    BY <1>1, HoldingFacts
<1>3. OpShape(c) /\ Holder(c) /\ Settled(i) /\ TypeOK
    BY <1>2 DEF ControlInv
<1>4. /\ folders[i] = op[c].old /\ op[c].old \in Folder
      /\ i \notin torn => config.folders[i] = op[c].old
      /\ i \notin torn => worker[i].root = op[c].old.root
      /\ worker[i] \in Worker /\ ~worker[i].syncing
    <2>1. Ready(i)
        BY <1>2 DEF Revert
    <2>2. worker[i] \in Worker /\ ~worker[i].syncing /\ worker[i] # None
        BY <1>2, <1>3, <2>1 DEF Ready, Waiting, TypeOK
    <2> QED BY <1>1, <1>2, <1>3, <2>2 DEF OpShape, Holder, Placed, WorkerAt, Edits, Switches
<1>5. /\ \A d \in Caller \ {c} : op'[d] = op[d]
      /\ op' \in [Caller -> Op] /\ op'[c].id = None
      /\ slot' \in [Id -> Caller \cup {None}] /\ slot'[i] = None
      /\ \A j \in Id \ {i} : slot'[j] = slot[j]
      /\ OpShape(c)' /\ FreshAdd(c)' /\ Holder(c)' /\ ~Placed(c)'
    BY <1>1, <1>2, ReturnParts
<1>6. /\ worker' \in [Id -> Worker \cup {None}] /\ \A j \in Id \ {i} : worker'[j] = worker[j]
      /\ torn \subseteq torn' /\ torn' \subseteq torn \cup {i} /\ faults' \in 0..MaxFaults
      /\ i \notin torn' => /\ worker'[i].root = worker[i].root
                           /\ worker'[i].paused = (op[c].kind # "pause")
                           /\ op[c].old.enabled # (op[c].kind = "resume")
      /\ worker'[i].syncing = worker[i].syncing /\ worker'[i].mail = worker[i].mail
    <2>1. CASE /\ worker' = [worker EXCEPT ![i].paused = (op[c].kind # "pause")]
               /\ torn' = IF op[c].old.enabled = (op[c].kind = "resume") THEN torn \cup {i} ELSE torn
               /\ UNCHANGED faults
        BY <1>3, <1>4, <2>1 DEF TypeOK, Worker
    <2>2. CASE Fault /\ torn' = torn \cup {i} /\ UNCHANGED worker
        BY <1>3, <2>2, ControlAssumption DEF TypeOK, Fault
    <2> QED BY <1>2, <2>1, <2>2 DEF Revert
<1>7. TypeOK'
    BY <1>1, <1>3, <1>5, <1>6 DEF TypeOK
<1>8. Frame(c, i)
    BY <1>1, <1>5, <1>6 DEF Frame
<1>11. i \notin torn' => i \notin torn /\ worker'[i].mail \in Seq({"sync"})
    BY <1>3, <1>4, <1>6, ControlAssumption DEF Settled
<1>9. Settled(i)'
    BY <1>1, <1>4, <1>5, <1>6, <1>11, ControlAssumption DEF Settled, Runs, Folder, Switches
<1>10. Reserved' /\ Sound' /\ Apart'
    BY <1>1, <1>5, <1>6, ReservedKept, SavableKept, ApartKept
<1> QED BY <1>1, <1>2, <1>5, <1>7, <1>8, <1>9, <1>10, StepByParts

-----------------------------------------------------------------------------
(* The beginning of an operation *)

\* An operation that holds no slot before and after only has its own shape to
\* keep, and must stay off the ids of new folders.
LEMMA UnheldStep ==
    ASSUME ControlInv, NEW c \in Caller, UNCHANGED <<disk, config, late, folders, worker, slot, torn>>,
           \A d \in Caller \ {c} : op'[d] = op[d], ~Holding(c), ~Holding(c)',
           TypeOK', OpShape(c)', FreshAdd(c)', Stilled',
           \/ op'[c].id \in {op[c].id, None}
           \/ folders[op'[c].id] # None
           \/ \A d \in Caller : op[d].id # op'[c].id
    PROVE  ControlInv'
<1>1. ASSUME NEW d \in Caller \ {c}
      PROVE  OpShape(d)' /\ FreshAdd(d)' /\ Holder(d)'
    <2>1. op'[d] = op[d] /\ OpShape(d) /\ FreshAdd(d) /\ Holder(d)
        BY DEF ControlInv
    <2>2. OpShape(d)' /\ Holder(d)'
        BY <2>1 DEF OpShape, Holder, Holding, It, Placed, Vacated, WorkerAt, Runs, Renewed
    <2>3. FreshAdd(d)'
        <3> SUFFICES ASSUME op[d].kind = "add", op[d].step = "reserve"
                     PROVE  FreshAdd(d)'
            BY <2>1 DEF FreshAdd
        <3>1. It(d) \in Id
            BY <2>1, ControlAssumption DEF OpShape, It, Idle
        <3> QED BY <2>1, <3>1, ControlAssumption DEF FreshAdd, It
    <2> QED BY <2>2, <2>3
<1>2. Holder(c)'
    BY DEF Holder
<1>3. \A j \in Id : Settled(j)'
    <2> SUFFICES ASSUME NEW j \in Id
                 PROVE  Settled(j)'
        OBVIOUS
    <2>1. Settled(j) /\ slot[j] # c
        BY ControlAssumption DEF ControlInv, Settled
    <2>2. slot[j] # None => slot[j] \in Caller \ {c}
        BY <2>1 DEF ControlInv, TypeOK
    <2> QED BY <2>1, <2>2 DEF Settled, Holding, It, Runs
<1>4. Sound' /\ Apart'
    BY DEF ControlInv, Sound, Savable, Opens, Apart
<1>5. Reserved'
    <2>1. ~Placed(c)'
        BY ControlAssumption DEF Placed, Holding
    <2> QED BY <2>1, ReservedKept
<1> QED BY <1>1, <1>2, <1>3, <1>4, <1>5 DEF ControlInv

LEMMA AddFolderStep == ASSUME ControlInv, NEW c \in Caller, AddFolder(c) PROVE ControlInv'
<1>1. /\ manager = "open" /\ op[c] = Idle /\ made' \in 0..MaxCalls
      /\ UNCHANGED <<disk, config, worker, manager, late, leaving, torn, faults, drops, folders, slot>>
    BY ControlAssumption DEF ControlInv, TypeOK, AddFolder, Call, settled
<1>2. PICK i \in Id, f \in Folder :
          /\ folders[i] = None /\ config.folders[i] = None /\ \A d \in Caller : op[d].id # i
          /\ op' = [op EXCEPT ![c] = [kind |-> "add", step |-> "reserve", id |-> i,
                                      new |-> f, old |-> None]]
    BY DEF AddFolder
<1>3. /\ op' \in [Caller -> Op] /\ \A d \in Caller \ {c} : op'[d] = op[d]
      /\ op'[c] = [kind |-> "add", step |-> "reserve", id |-> i, new |-> f, old |-> None]
    BY <1>2 DEF ControlInv, TypeOK, Op, Kind
<1>4. TypeOK'
    BY <1>1, <1>3 DEF ControlInv, TypeOK
<1>5. slot[i] = None /\ worker[i] = None
    <2>1. Settled(i) /\ (slot[i] # None => slot[i] \in Caller)
        BY DEF ControlInv, TypeOK
    <2> QED BY <1>2, <2>1 DEF Settled, It
<1>6. OpShape(c)' /\ FreshAdd(c)'
    BY <1>1, <1>2, <1>3, <1>5, ControlAssumption DEF OpShape, FreshAdd, Holding, It, Idle
<1>7. ~Holding(c) /\ ~Holding(c)' /\ Stilled'
    BY <1>1, <1>3 DEF Holding, Idle, Stilled
<1> QED BY <1>1, <1>2, <1>3, <1>4, <1>6, <1>7, UnheldStep

LEMMA CallFolderStep == ASSUME ControlInv, NEW c \in Caller, CallFolder(c) PROVE ControlInv'
<1>1. /\ manager = "open" /\ op[c] = Idle /\ made' \in 0..MaxCalls
      /\ UNCHANGED <<disk, config, worker, manager, late, leaving, torn, faults, drops, folders, slot>>
    BY ControlAssumption DEF ControlInv, TypeOK, CallFolder, Call, settled
<1>2. PICK i \in Id, k \in Kind \ {"add"}, f \in Folder \cup {None} :
          /\ folders[i] # None /\ (k = "update" => f \in Folder)
          /\ op' = [op EXCEPT ![c] = [kind |-> k, step |-> "lock", id |-> i, old |-> None, new |-> f]]
    <2>1. PICK i \in Id, k \in Kind \ {"add"}, f \in Folder :
              /\ folders[i] # None
              /\ op' = [op EXCEPT ![c] = [kind |-> k, step |-> "lock", id |-> i, old |-> None,
                                          new |-> IF k = "update" THEN f ELSE None]]
        BY DEF CallFolder
    <2> QED BY <2>1
<1>3. /\ op' \in [Caller -> Op] /\ \A d \in Caller \ {c} : op'[d] = op[d]
      /\ op'[c] = [kind |-> k, step |-> "lock", id |-> i, old |-> None, new |-> f]
    BY <1>2 DEF ControlInv, TypeOK, Op
<1>4. TypeOK'
    BY <1>1, <1>3 DEF ControlInv, TypeOK
<1>5. OpShape(c)' /\ FreshAdd(c)'
    BY <1>2, <1>3, ControlAssumption
    DEF OpShape, FreshAdd, Holding, Idle, Kind, Order, Edits, Switches
<1>6. ~Holding(c) /\ ~Holding(c)' /\ Stilled'
    BY <1>1, <1>3 DEF Holding, Idle, Stilled
<1> QED BY <1>1, <1>2, <1>3, <1>4, <1>5, <1>6, UnheldStep

\* An operation that holds nothing and returns leaves everything as it is.
LEMMA UnheldReturn ==
    ASSUME ControlInv, NEW c \in Caller, ~Holding(c), Return(c),
           UNCHANGED <<disk, config, folders, worker, manager, late, leaving, torn, made, faults>>,
           drops' \in 0..MaxDrops
    PROVE  ControlInv'
<1>1. /\ \A d \in Caller \ {c} : op'[d] = op[d]
      /\ op'[c] = Idle /\ op' \in [Caller -> Op]
      /\ slot' \in [Id -> Caller \cup {None}]
      /\ \A j \in Id : slot'[j] = IF slot[j] = c THEN None ELSE slot[j]
    BY ReturnFacts DEF ControlInv
<1>2. slot' = slot
    <2>1. \A j \in Id : slot[j] # c
        BY ControlAssumption DEF ControlInv, Settled
    <2> QED BY <1>1, <2>1 DEF ControlInv, TypeOK
<1>3. TypeOK' /\ Stilled'
    BY <1>1, <1>2 DEF ControlInv, TypeOK, Stilled
<1>4. OpShape(c)' /\ FreshAdd(c)' /\ ~Holding(c)' /\ op'[c].id = None
    BY <1>1, ControlAssumption DEF Idle, OpShape, FreshAdd, Holding, Edits, Kind
<1> QED BY <1>1, <1>2, <1>3, <1>4, UnheldStep

LEMMA LockStep == ASSUME ControlInv, NEW c \in Caller, Lock(c) PROVE ControlInv'
<1>1. /\ op[c].step = "lock" /\ op[c] # Idle /\ op[c].kind # "add" /\ It(c) \in Id /\ ~Holding(c)
      /\ UNCHANGED <<disk, config, worker, manager, late, leaving, torn, faults, drops, folders, made>>
      /\ drops' \in 0..MaxDrops
    BY DEF ControlInv, TypeOK, OpShape, Lock, Holding, Idle, It, Switches, settled
<1>2. CASE Return(c)
    BY <1>1, <1>2, UnheldReturn
<1>3. CASE /\ slot[It(c)] = None /\ folders[It(c)] # None /\ slot' = [slot EXCEPT ![It(c)] = c]
           /\ op' = [op EXCEPT ![c].old = folders[It(c)],
                               ![c].step = CASE op[c].kind = "update" -> "reserve"
                                             [] op[c].kind = "remove" -> "stop"
                                             [] OTHER -> "command"]
    <2>1. PICK i \in Id : i = It(c) /\ op[c].id = i
        BY <1>1 DEF It
    <2>2. OpShape(c) /\ Settled(i) /\ TypeOK
        BY DEF ControlInv
    <2>3. folders[i] \in Folder
        BY <1>3, <2>1, <2>2 DEF TypeOK
    <2>4. /\ \A d \in Caller \ {c} : op'[d] = op[d]
          /\ op'[c].step = CASE op[c].kind = "update" -> "reserve"
                             [] op[c].kind = "remove" -> "stop"
                             [] OTHER -> "command"
          /\ op'[c].kind = op[c].kind /\ op'[c].id = i /\ op'[c].new = op[c].new
          /\ op'[c].old = folders[i] /\ op' \in [Caller -> Op]
        <3>1. op[c] \in Op /\ op \in [Caller -> Op]
            BY <2>2 DEF TypeOK
        <3> DEFINE s == CASE op[c].kind = "update" -> "reserve"
                          [] op[c].kind = "remove" -> "stop"
                          [] OTHER -> "command"
        <3>2. s \in {"reserve", "stop", "command"}
            OBVIOUS
        <3>3. op' = [op EXCEPT ![c] = [[op[c] EXCEPT !.old = folders[i]] EXCEPT !.step = s]]
            BY <1>3, <2>1, <3>1
        <3> HIDE DEF s
        <3>4. [[op[c] EXCEPT !.old = folders[i]] EXCEPT !.step = s] \in Op
            BY <2>3, <3>1, <3>2 DEF Op
        <3>5. /\ op' \in [Caller -> Op] /\ \A d \in Caller \ {c} : op'[d] = op[d]
              /\ op'[c] = [[op[c] EXCEPT !.old = folders[i]] EXCEPT !.step = s]
            BY <3>1, <3>3, <3>4
        <3>6. /\ op'[c].step = s /\ op'[c].kind = op[c].kind /\ op'[c].id = op[c].id
              /\ op'[c].new = op[c].new /\ op'[c].old = folders[i]
            BY <3>1, <3>5 DEF Op
        <3> QED BY <2>1, <3>5, <3>6 DEF s
    <2>5. /\ slot' \in [Id -> Caller \cup {None}] /\ slot'[i] = c
          /\ \A j \in Id \ {i} : slot'[j] = slot[j]
        BY <1>3, <2>1, <2>2 DEF TypeOK
    <2>6. TypeOK'
        BY <1>1, <2>2, <2>4, <2>5 DEF TypeOK
    <2>7. Frame(c, i)
        BY <1>1, <2>4, <2>5 DEF Frame
    <2>8. OpShape(c)' /\ FreshAdd(c)' /\ Holding(c)' /\ ~Placed(c)' /\ ~Vacated(c)'
        BY <1>1, <2>2, <2>3, <2>4, ControlAssumption
        DEF OpShape, FreshAdd, Holding, Placed, Vacated, Idle, Edits, Switches
    <2>9. Holder(c)'
        BY <1>1, <1>3, <2>1, <2>2, <2>4, <2>5, <2>8
        DEF Holder, It, Settled, WorkerAt, Runs, Renewed, Edits, Switches
    <2>10. Settled(i)'
        BY <1>1, <2>1, <2>2, <2>4, <2>5, <2>8, ControlAssumption DEF Settled, It
    <2>11. Reserved' /\ Sound' /\ Apart'
        BY <1>1, <2>4, <2>8, ReservedKept, SavableKept, ApartKept DEF Placed
    <2> QED BY <1>1, <1>3, <2>1, <2>4, <2>6, <2>7, <2>8, <2>9, <2>10, <2>11, StepByParts
<1> QED BY <1>1, <1>2, <1>3 DEF Lock

LEMMA ReserveStep == ASSUME ControlInv, NEW c \in Caller, Reserve(c) PROVE ControlInv'
<1>1. /\ op[c].step = "reserve" /\ op[c] # Idle /\ op[c].kind \in Edits
      /\ UNCHANGED <<disk, config, worker, manager, late, leaving, torn, faults, drops, made>>
      /\ drops' \in 0..MaxDrops
    BY DEF ControlInv, TypeOK, OpShape, Reserve, Idle, Edits, Switches, settled
<1>2. PICK i \in Id : i = It(c) /\ op[c].id = i
    BY <1>1 DEF ControlInv, OpShape, It
<1>3. OpShape(c) /\ FreshAdd(c) /\ Holder(c) /\ Settled(i) /\ TypeOK
    BY DEF ControlInv
<1>4. Holding(c) <=> op[c].kind # "add"
    BY <1>1 DEF Holding
<1>5. CASE Return(c) /\ UNCHANGED folders /\ op[c].kind = "add"
    BY <1>1, <1>4, <1>5, UnheldReturn
<1>6. CASE Return(c) /\ UNCHANGED folders /\ op[c].kind # "add"
    <2>1. slot[i] = c /\ \A j \in Id \ {i} : slot[j] # c
        BY <1>2, <1>4, <1>6, HoldingFacts
    <2>2. /\ \A d \in Caller \ {c} : op'[d] = op[d]
          /\ op' \in [Caller -> Op] /\ op'[c].id = None
          /\ slot' \in [Id -> Caller \cup {None}] /\ slot'[i] = None
          /\ \A j \in Id \ {i} : slot'[j] = slot[j]
          /\ OpShape(c)' /\ FreshAdd(c)' /\ Holder(c)' /\ ~Placed(c)'
        BY <1>6, <2>1, ReturnParts
    <2>3. TypeOK' /\ Frame(c, i)
        BY <1>1, <1>3, <1>6, <2>2 DEF TypeOK, Frame
    <2>4. Settled(i)'
        BY <1>1, <1>2, <1>3, <1>4, <1>6, <2>2 DEF Settled, Holder, Placed, WorkerAt, Runs, Renewed, Switches
    <2>5. Reserved' /\ Sound' /\ Apart'
        BY <1>1, <1>6, <2>2, ReservedKept, SavableKept, ApartKept
    <2> QED BY <1>1, <1>2, <2>1, <2>2, <2>3, <2>4, <2>5, StepByParts
<1>7. CASE /\ Unreserved(i, op[c].new.root)
           /\ folders' = [folders EXCEPT ![i] = op[c].new] /\ slot' = [slot EXCEPT ![i] = c]
           /\ Goto(c, IF op[c].kind = "add" THEN "start" ELSE "stop")
    <2>1. /\ \A d \in Caller \ {c} : op'[d] = op[d]
          /\ op'[c].step = IF op[c].kind = "add" THEN "start" ELSE "stop"
          /\ op'[c].kind = op[c].kind /\ op'[c].id = i
          /\ op'[c].new = op[c].new /\ op'[c].old = op[c].old /\ op' \in [Caller -> Op]
        BY <1>2, <1>3, <1>7, GotoFacts
    <2>2. op[c].new \in Folder /\ slot[i] \in {None, c}
        BY <1>1, <1>2, <1>3, <1>4 DEF OpShape, FreshAdd, Holder
    <2>3. /\ folders' \in [Id -> Folder \cup {None}] /\ folders'[i] = op[c].new
          /\ \A j \in Id \ {i} : folders'[j] = folders[j]
          /\ slot' \in [Id -> Caller \cup {None}] /\ slot'[i] = c
          /\ \A j \in Id \ {i} : slot'[j] = slot[j]
        BY <1>3, <1>7, <2>2 DEF TypeOK
    <2>4. TypeOK' /\ Frame(c, i)
        BY <1>1, <1>3, <2>1, <2>3 DEF TypeOK, Frame
    <2>5. /\ OpShape(c)' /\ FreshAdd(c)' /\ Holding(c)' /\ Placed(c)' /\ Placed(c)'
          /\ Vacated(c)' <=> op[c].kind = "add"
        BY <1>1, <1>2, <1>3, <2>1, ControlAssumption
        DEF OpShape, FreshAdd, Holding, Placed, Vacated, Idle, Edits, Switches
    <2>6. Holder(c)'
        <3>1. op[c].kind = "add" => config.folders[i] = None /\ op[c].old = None /\ worker[i] = None
            BY <1>1, <1>2, <1>3 DEF OpShape, FreshAdd, Edits
        <3>2. op[c].kind # "add" => /\ i \notin torn => config.folders[i] = op[c].old
                                    /\ i \notin torn /\ worker[i] # None => Runs(worker[i], op[c].old)
            BY <1>1, <1>2, <1>3, <1>4 DEF Holder, WorkerAt, Switches
        <3> QED BY <1>1, <1>2, <2>1, <2>3, <2>5, <3>1, <3>2
                DEF Holder, It, WorkerAt, Runs, Renewed, Edits, Switches
    <2>7. Settled(i)'
        BY <1>1, <1>2, <1>3, <2>1, <2>2, <2>3, <2>5, ControlAssumption DEF Settled, It
    <2>8. \A j \in Id \ {i} :
              /\ folders[j] # None => folders[j].root # op[c].new.root
              /\ config.folders[j] # None => config.folders[j].root # op[c].new.root
        BY <1>7 DEF Unreserved
    <2>9. \A d \in Caller \ {c} : Placed(d) =>
              /\ op[d].new.root # op[c].new.root
              /\ Placed(d)' /\ It(d)' = It(d)
        <3> SUFFICES ASSUME NEW d \in Caller \ {c}, Placed(d)
                     PROVE  op[d].new.root # op[c].new.root
            BY <2>1 DEF Placed, It
        <3>1. Holder(d) /\ OpShape(d) /\ op[d] # Idle
            BY ControlAssumption DEF ControlInv, Placed, Idle
        <3>2. Holding(d) /\ op[d].new \in Folder
            BY <3>1 DEF Placed, Holding, OpShape
        <3>3. folders[It(d)] = op[d].new /\ slot[It(d)] = d /\ It(d) \in Id
            BY <3>1, <3>2 DEF Holder, Placed, OpShape, It
        <3>4. It(d) # i
            BY <2>2, <3>3, ControlAssumption
        <3> QED BY <2>8, <3>2, <3>3, <3>4, ControlAssumption
    <2>10. Reserved'
        <3>1. ASSUME NEW d \in Caller \ {c}, Placed(d)'
              PROVE  Placed(d) /\ op'[d] = op[d] /\ It(d)' = It(d)
            BY <2>1, <3>1 DEF Placed, It
        <3>2. op'[c].new = op[c].new /\ It(c)' = i
            BY <2>1 DEF It
        <3> QED BY <1>1, <2>8, <2>9, <3>1, <3>2 DEF ControlInv, Reserved
    <2>11. Apart'
        <3> SUFFICES ASSUME NEW j \in Id \ torn, NEW k \in Id \ torn, j # k
                     PROVE  /\ folders'[j] # None /\ folders'[k] # None =>
                                  folders'[j].root # folders'[k].root
                            /\ folders'[j] # None /\ config.folders[k] # None =>
                                  folders'[j].root # config.folders[k].root
            BY <1>1 DEF Apart
        <3>1. CASE j = i
            BY <2>3, <2>8, <3>1
        <3>2. CASE k = i
            <4>1. config.folders[i] # None /\ folders[j] # None => folders[j].root # config.folders[i].root
                BY <3>2 DEF ControlInv, Apart
            <4> QED BY <2>3, <2>8, <3>2, <4>1
        <3>3. CASE j # i /\ k # i
            BY <2>3, <3>3 DEF ControlInv, Apart
        <3> QED BY <3>1, <3>2, <3>3
    <2> QED BY <1>1, <1>2, <2>1, <2>2, <2>4, <2>5, <2>6, <2>7, <2>10, <2>11, SavableKept, StepByParts
<1> QED BY <1>1, <1>2, <1>5, <1>6, <1>7 DEF Reserve

-----------------------------------------------------------------------------
(* A caller goes away *)

\* A save that goes on without its caller is one of the saves that may still land.
LEMMA AbandonedFacts ==
    ASSUME ControlInv, NEW new \in Config, Savable(new), drops < MaxDrops, drops' = drops + 1,
           Abandoned(new)
    PROVE  /\ late' \in [1..MaxDrops -> Config \cup {None}] /\ drops' \in 0..MaxDrops
           /\ \A n \in 1..MaxDrops : late'[n] \in {late[n], new}
           /\ \A n \in 1..MaxDrops : late'[n] # None => Savable(late'[n])
<1>1. drops \in 0..MaxDrops /\ late \in [1..MaxDrops -> Config \cup {None}]
    BY DEF ControlInv, TypeOK
<1>2. drops + 1 \in 1..MaxDrops /\ drops' \in 0..MaxDrops
    BY <1>1, ControlAssumption
<1>3. /\ late' \in [1..MaxDrops -> Config \cup {None}]
      /\ \A n \in 1..MaxDrops : late'[n] = IF n = drops + 1 THEN new ELSE late[n]
    BY <1>1, <1>2 DEF Abandoned
<1>4. \A n \in 1..MaxDrops : late[n] # None => Savable(late[n])
    BY DEF ControlInv, Sound
<1> QED BY <1>2, <1>3, <1>4

\* What an operation that holds the slot of i has to have kept when it is dropped.
LEMMA HeldDrop ==
    ASSUME ControlInv, NEW c \in Caller, NEW i \in Id, i = It(c), op[c].id = i, op[c] # Idle,
           slot[i] = c, \A j \in Id \ {i} : slot[j] # c, Leaves(c),
           UNCHANGED <<disk, config, folders, manager, made, faults>>,
           \A j \in Id \ {i} : worker'[j] = worker[j],
           worker' \in [Id -> Worker \cup {None}], leaving' \in SUBSET Root,
           late' \in [1..MaxDrops -> Config \cup {None}],
           \A n \in 1..MaxDrops : late'[n] # None => Savable(late'[n]),
           torn' \in {torn, torn \cup {i}},
           worker'[i] # None => folders[i] # None /\ (worker'[i].syncing => ~worker'[i].paused),
           i \notin torn' =>
              /\ folders[i] = config.folders[i]
              /\ worker'[i] # None => /\ Runs(worker'[i], folders[i])
                                      /\ worker'[i].mail \in Seq({"sync"})
    PROVE  ControlInv'
<1>1. Return(c) /\ drops' = drops + 1 /\ drops < MaxDrops
    BY DEF Leaves
<1>2. /\ \A d \in Caller \ {c} : op'[d] = op[d]
      /\ op' \in [Caller -> Op] /\ op'[c].id = None
      /\ slot' \in [Id -> Caller \cup {None}] /\ slot'[i] = None
      /\ \A j \in Id \ {i} : slot'[j] = slot[j]
      /\ OpShape(c)' /\ FreshAdd(c)' /\ Holder(c)' /\ ~Placed(c)'
    BY <1>1, ReturnParts
<1>3. TypeOK'
    BY <1>1, <1>2, ControlAssumption DEF ControlInv, TypeOK
<1>4. Frame(c, i)
    BY <1>2 DEF Frame
<1>5. Settled(i)'
    BY <1>2 DEF Settled, Runs
<1>6. Reserved'
    BY <1>2, ReservedKept
<1>7. Sound'
    BY DEF ControlInv, Sound, Savable, Opens
<1>8. Apart'
    BY ApartKept
<1> QED BY <1>2, <1>3, <1>4, <1>5, <1>6, <1>7, <1>8, StepByParts

\* What is kept of the saves, the leases and the workers when they do not move.
LEMMA DropKeeps ==
    ASSUME ControlInv
    PROVE  /\ worker \in [Id -> Worker \cup {None}] /\ leaving \in SUBSET Root
           /\ late \in [1..MaxDrops -> Config \cup {None}]
           /\ \A n \in 1..MaxDrops : late[n] # None => Savable(late[n])
           /\ drops \in Nat /\ MaxDrops \in Nat
BY ControlAssumption DEF ControlInv, TypeOK, Sound

LEMMA LeavesIdleStep == ASSUME ControlInv, NEW c \in Caller, LeavesIdle(c) PROVE ControlInv'
<1>1. /\ op[c].step \in {"lock", "reserve", "cycle"} /\ Leaves(c) /\ Return(c)
      /\ drops' \in 0..MaxDrops /\ op[c] # Idle
      /\ UNCHANGED <<disk, config, folders, worker, manager, late, leaving, torn, made, faults>>
    BY DropKeeps DEF LeavesIdle, Leaves, Idle
<1>2. CASE ~Holding(c)
    BY <1>1, <1>2, UnheldReturn
<1>3. CASE Holding(c)
    <2>1. PICK i \in Id : /\ i = It(c) /\ op[c].id = i /\ slot[i] = c /\ op[c] # Idle
                         /\ \A j \in Id \ {i} : slot[j] # c
        BY <1>3, HoldingFacts
    <2>2. OpShape(c) /\ Holder(c) /\ Settled(i)
        BY DEF ControlInv
    <2>3. op[c].kind # "add" /\ op[c].kind \notin Switches /\ ~Placed(c)
        BY <1>1, <1>3, <2>2 DEF OpShape, Holding, Placed, Switches, Idle
    <2>4. i \notin torn => /\ folders[i] = config.folders[i]
                           /\ worker[i] # None => Runs(worker[i], folders[i])
        BY <1>1, <1>3, <2>1, <2>2, <2>3 DEF Holder, WorkerAt
    <2> QED BY <1>1, <2>1, <2>2, <2>4, DropKeeps, HeldDrop DEF Settled
<1> QED BY <1>2, <1>3

LEMMA LeavesWorkerStep == ASSUME ControlInv, NEW c \in Caller, LeavesWorker(c) PROVE ControlInv'
<1>1. /\ op[c].step \in {"stop", "start", "undo", "restart"} /\ Leaves(c)
      /\ UNCHANGED <<disk, config, folders, manager, late, made, faults>>
    BY DEF LeavesWorker
<1>2. Holding(c)
    BY <1>1 DEF ControlInv, OpShape, Holding, Idle
<1>3. PICK i \in Id : /\ i = It(c) /\ op[c].id = i /\ slot[i] = c /\ op[c] # Idle
                     /\ \A j \in Id \ {i} : slot[j] # c
    BY <1>2, HoldingFacts
<1>4. OpShape(c) /\ Holder(c) /\ Settled(i) /\ TypeOK
    BY DEF ControlInv
<1>5. /\ worker' = [worker EXCEPT ![i] = None]
      /\ torn' = IF op[c].kind = "remove" \/ op[c].step = "restart" THEN torn ELSE torn \cup {i}
    BY <1>3 DEF LeavesWorker
<1>6. /\ worker' \in [Id -> Worker \cup {None}] /\ worker'[i] = None
      /\ \A j \in Id \ {i} : worker'[j] = worker[j]
    BY <1>4, <1>5 DEF TypeOK
<1>7. leaving' \in SUBSET Root
    <2>1. CASE op[c].step = "start"
        <3>1. leaving' = leaving \cup {op[c].new.root}
            BY <2>1 DEF LeavesWorker
        <3>2. op[c].new \in Folder
            BY <1>3, <1>4, <2>1 DEF OpShape, Edits, Switches
        <3> QED BY <1>4, <3>1, <3>2 DEF TypeOK, Folder
    <2>2. CASE op[c].step = "restart"
        <3>1. leaving' = leaving \cup {op[c].old.root}
            BY <2>2 DEF LeavesWorker
        <3>2. op[c].old \in Folder
            BY <1>2, <1>3, <1>4, <2>2 DEF OpShape, Edits, Switches
        <3> QED BY <1>4, <3>1, <3>2 DEF TypeOK, Folder
    <2>3. CASE op[c].step \in {"stop", "undo"}
        <3>1. leaving' = leaving \cup {worker[j].root : j \in {k \in {i} : worker[k] # None}}
            BY <1>3, <2>3 DEF LeavesWorker
        <3>2. worker[i] # None => worker[i].root \in Root
            BY <1>4 DEF TypeOK, Worker
        <3> QED BY <1>4, <3>1, <3>2 DEF TypeOK
    <2> QED BY <1>1, <2>1, <2>2, <2>3
<1>8. i \notin torn' => folders[i] = config.folders[i]
    <2> SUFFICES ASSUME i \notin torn'
                 PROVE  folders[i] = config.folders[i]
        OBVIOUS
    <2>1. ~Placed(c) /\ i \notin torn
        BY <1>1, <1>5 DEF Placed, Edits
    <2> QED BY <1>2, <1>3, <1>4, <2>1 DEF Holder
<1> QED BY <1>1, <1>3, <1>5, <1>6, <1>7, <1>8, DropKeeps, HeldDrop

LEMMA LeavesOrderStep == ASSUME ControlInv, NEW c \in Caller, LeavesOrder(c) PROVE ControlInv'
<1>1. /\ op[c].step \in {"command", "revert"} /\ worker[It(c)] # None /\ Leaves(c)
      /\ UNCHANGED <<disk, config, folders, manager, late, leaving, made, faults>>
    BY DEF LeavesOrder
<1>2. Holding(c) /\ op[c].kind \in Order /\ ~Placed(c)
    BY <1>1 DEF ControlInv, OpShape, Holding, Idle, Switches, Order, Placed, Edits
<1>3. PICK i \in Id : /\ i = It(c) /\ op[c].id = i /\ slot[i] = c /\ op[c] # Idle
                     /\ \A j \in Id \ {i} : slot[j] # c
    BY <1>2, HoldingFacts
<1>4. OpShape(c) /\ Holder(c) /\ Settled(i) /\ TypeOK
    BY DEF ControlInv
<1>5. PICK order \in Order :
          /\ worker' = [worker EXCEPT ![i].mail = Append(@, order)]
          /\ torn' = IF order = "sync" THEN torn ELSE torn \cup {i}
          /\ order = "sync" => op[c].step = "command"
    BY <1>1, <1>2, <1>3 DEF LeavesOrder, Order
<1>6. worker[i] \in Worker /\ worker[i] # None /\ worker[i].mail \in Seq(Order)
    BY <1>1, <1>3, <1>4 DEF TypeOK, Worker
<1>7. Append(worker[i].mail, order) \in Seq(Order)
    BY <1>6
<1>8. /\ worker' \in [Id -> Worker \cup {None}] /\ \A j \in Id \ {i} : worker'[j] = worker[j]
      /\ worker'[i].root = worker[i].root /\ worker'[i].paused = worker[i].paused
      /\ worker'[i].syncing = worker[i].syncing
      /\ worker'[i].mail = Append(worker[i].mail, order)
    <2> DEFINE w == [worker[i] EXCEPT !.mail = Append(worker[i].mail, order)]
    <2>1. /\ w \in Worker /\ w.root = worker[i].root /\ w.paused = worker[i].paused
          /\ w.syncing = worker[i].syncing /\ w.mail = Append(worker[i].mail, order)
        BY <1>6, <1>7 DEF Worker
    <2>2. worker' = [worker EXCEPT ![i] = w]
        BY <1>5
    <2> HIDE DEF w
    <2> QED BY <1>4, <2>1, <2>2 DEF TypeOK
<1>9. i \notin torn' => /\ folders[i] = config.folders[i]
                        /\ Runs(worker[i], folders[i])
                        /\ Append(worker[i].mail, order) \in Seq({"sync"})
    <2> SUFFICES ASSUME i \notin torn'
                 PROVE  /\ folders[i] = config.folders[i]
                        /\ Runs(worker[i], folders[i])
                        /\ Append(worker[i].mail, order) \in Seq({"sync"})
        OBVIOUS
    <2>1. i \notin torn /\ order = "sync" /\ op[c].step = "command"
        BY <1>5
    <2>2. worker[i].mail \in Seq({"sync"})
        BY <1>4, <1>6, <2>1 DEF Settled
    <2>3. Append(worker[i].mail, order) \in Seq({"sync"})
        BY <2>1, <2>2
    <2>4. folders[i] = op[c].old /\ config.folders[i] = op[c].old /\ WorkerAt(c, worker[i])
        BY <1>2, <1>3, <1>4, <1>6, <2>1 DEF Holder
    <2> QED BY <1>2, <2>1, <2>3, <2>4 DEF WorkerAt
<1>10. /\ folders[i] # None /\ (worker'[i].syncing => ~worker'[i].paused)
       /\ i \notin torn' => Runs(worker'[i], folders[i])
    BY <1>4, <1>6, <1>8, <1>9 DEF Settled, Runs
<1>11. torn' \in {torn, torn \cup {i}} /\ (i \notin torn' => worker'[i].mail \in Seq({"sync"}))
    BY <1>5, <1>8, <1>9
<1> QED BY <1>1, <1>3, <1>8, <1>9, <1>10, <1>11, DropKeeps, HeldDrop

LEMMA LeavesSaveStep == ASSUME ControlInv, NEW c \in Caller, LeavesSave(c) PROVE ControlInv'
<1>1. /\ op[c].step = "persist" /\ Leaves(c) /\ drops < MaxDrops /\ drops' = drops + 1
      /\ UNCHANGED <<disk, config, folders, worker, manager, leaving, made, faults>>
      /\ torn' = IF op[c].kind = "remove" THEN torn ELSE torn \cup {It(c)}
    BY DEF LeavesSave, Leaves
<1>2. Holding(c) /\ op[c].kind \in Edits \cup {"remove"} \cup Switches
    BY <1>1 DEF ControlInv, OpShape, Holding, Idle, Edits
<1>3. PICK i \in Id : /\ i = It(c) /\ op[c].id = i /\ slot[i] = c /\ op[c] # Idle
                     /\ \A j \in Id \ {i} : slot[j] # c
    BY <1>2, HoldingFacts
<1>4. OpShape(c) /\ Holder(c) /\ Settled(i)
    BY DEF ControlInv
<1>5. /\ late' \in [1..MaxDrops -> Config \cup {None}]
      /\ \A n \in 1..MaxDrops : late'[n] # None => Savable(late'[n])
    <2>1. CASE UNCHANGED late
        BY <2>1, DropKeeps
    <2>2. CASE ~Refused(c) /\ Abandoned(Target(c))
        <3>1. Target(c) \in Config /\ Savable(Target(c))
            BY <1>1, <1>2, <1>3, <2>2, TargetFacts
        <3> QED BY <1>1, <2>2, <3>1, AbandonedFacts
    <2> QED BY <2>1, <2>2 DEF LeavesSave
<1>6. i \notin torn' => worker[i] = None /\ folders[i] = config.folders[i]
    <2> SUFFICES ASSUME i \notin torn'
                 PROVE  worker[i] = None /\ folders[i] = config.folders[i]
        OBVIOUS
    <2>1. op[c].kind = "remove" /\ i \notin torn
        BY <1>1, <1>3
    <2>2. ~Placed(c) /\ Vacated(c)
        BY <1>1, <2>1 DEF Placed, Edits, Vacated
    <2> QED BY <1>2, <1>3, <1>4, <2>1, <2>2 DEF Holder
<1>7. /\ worker[i] # None => folders[i] # None /\ (worker[i].syncing => ~worker[i].paused)
      /\ torn' \in {torn, torn \cup {i}}
    BY <1>1, <1>3, <1>4 DEF Settled
<1> QED BY <1>1, <1>3, <1>5, <1>6, <1>7, DropKeeps, HeldDrop

-----------------------------------------------------------------------------
(* The workers' own steps, the devices, and the life of the manager *)

\* A cycle begins or ends, an order without a caller is taken, or the worker of
\* a closing manager stops.
LEMMA WorkerStep ==
    ASSUME ControlInv, NEW i \in Id, UNCHANGED <<disk, config, late, folders, slot, op, torn>>,
           TypeOK', Stilled', \A j \in Id \ {i} : worker'[j] = worker[j],
           worker'[i] # None => /\ worker[i] # None /\ worker'[i].root = worker[i].root
                                /\ worker'[i].syncing => ~worker'[i].paused
                                /\ i \notin torn => /\ worker'[i].paused = worker[i].paused
                                                    /\ worker'[i].mail \in Seq({"sync"})
                                /\ worker[i].mail = <<>> => /\ worker'[i].paused = worker[i].paused
                                                            /\ worker'[i].mail = <<>>
    PROVE  ControlInv'
<1>1. \A c \in Caller : OpShape(c)' /\ FreshAdd(c)' /\ Holder(c)'
    <2> SUFFICES ASSUME NEW c \in Caller
                 PROVE  OpShape(c)' /\ FreshAdd(c)' /\ Holder(c)'
        OBVIOUS
    <2>1. OpShape(c) /\ FreshAdd(c) /\ Holder(c)
        BY DEF ControlInv
    <2>2. CASE op[c] = Idle
        BY <2>2, ControlAssumption
        DEF Idle, OpShape, FreshAdd, Holder, Placed, Holding, Edits, Kind
    <2>3. CASE op[c] # Idle
        <3>1. It(c) \in Id
            BY <2>1, <2>3 DEF OpShape, It
        <3> QED BY <2>1, <3>1 DEF OpShape, FreshAdd, Holder, Holding, It, Placed, Vacated, WorkerAt, Runs, Renewed
    <2> QED BY <2>2, <2>3
<1>2. \A j \in Id : Settled(j)'
    BY DEF ControlInv, Settled, Holding, It, Runs
<1>3. Reserved' /\ Sound' /\ Apart'
    BY DEF ControlInv, Reserved, Placed, It, Sound, Savable, Opens, Apart
<1> QED BY <1>1, <1>2, <1>3 DEF ControlInv

LEMMA TickStep == ASSUME ControlInv, NEW i \in Id, Tick(i) PROVE ControlInv'
<1>1. worker[i] \in Worker /\ worker[i] # None /\ ~worker[i].paused
    BY DEF ControlInv, TypeOK, Tick, Waiting
<1>2. /\ UNCHANGED <<manager, disk, config, late, leaving, made, drops, folders, slot, op, torn, faults>>
      /\ worker' \in [Id -> Worker \cup {None}] /\ \A j \in Id \ {i} : worker'[j] = worker[j]
      /\ worker'[i].root = worker[i].root /\ worker'[i].paused = worker[i].paused
      /\ worker'[i].mail = worker[i].mail
    BY <1>1 DEF ControlInv, TypeOK, Tick, Worker, rest
<1>3. TypeOK' /\ Stilled'
    BY <1>2 DEF ControlInv, TypeOK, Stilled
<1>4. i \notin torn => worker[i].mail \in Seq({"sync"})
    BY <1>1 DEF ControlInv, Settled
<1> QED BY <1>1, <1>2, <1>3, <1>4, WorkerStep

LEMMA DeliverStep == ASSUME ControlInv, NEW i \in Id, Deliver(i) PROVE ControlInv'
<1> DEFINE order == Head(worker[i].mail)
           taken == [worker[i] EXCEPT !.mail = Tail(@)]
<1>1. /\ worker[i] \in Worker /\ worker[i] # None /\ ~worker[i].syncing /\ worker[i].mail # <<>>
      /\ UNCHANGED <<manager, disk, config, late, leaving, made, drops, folders, slot, op, torn>>
    BY DEF ControlInv, TypeOK, Deliver, Waiting, rest
<1>2. worker[i].mail \in Seq(Order) /\ Tail(worker[i].mail) \in Seq(Order)
    BY <1>1 DEF Worker
<1>3. i \notin torn => order = "sync" /\ Tail(worker[i].mail) \in Seq({"sync"})
    <2>1. i \notin torn => worker[i].mail \in Seq({"sync"})
        BY <1>1 DEF ControlInv, Settled
    <2> QED BY <1>1, <2>1
<1>4. /\ taken \in Worker /\ taken.root = worker[i].root /\ taken.paused = worker[i].paused
      /\ taken.syncing = FALSE /\ taken.mail = Tail(worker[i].mail)
    BY <1>1, <1>2 DEF Worker
<1>5. \E w \in Worker :
          /\ worker' = [worker EXCEPT ![i] = w] /\ w.root = worker[i].root
          /\ w.mail = Tail(worker[i].mail) /\ (w.syncing => ~w.paused)
          /\ order = "sync" => w.paused = worker[i].paused
    <2> HIDE DEF taken
    <2>1. CASE order = "sync" /\ worker' = [worker EXCEPT ![i] = [taken EXCEPT !.syncing = ~taken.paused]]
        <3> DEFINE w == [taken EXCEPT !.syncing = ~taken.paused]
        <3>1. /\ w \in Worker /\ w.root = taken.root /\ w.paused = taken.paused /\ w.mail = taken.mail
              /\ w.syncing => ~w.paused
            BY <1>4 DEF Worker
        <3> QED BY <1>4, <2>1, <3>1
    <2>2. CASE /\ order # "sync"
               /\ worker' = [worker EXCEPT ![i] = [taken EXCEPT !.paused = (order = "pause")]]
        <3> DEFINE w == [taken EXCEPT !.paused = (order = "pause")]
        <3>1. /\ w \in Worker /\ w.root = taken.root /\ w.mail = taken.mail /\ w.syncing = FALSE
            BY <1>4 DEF Worker
        <3> QED BY <1>4, <2>2, <3>1
    <2>3. CASE order # "sync" /\ worker' = [worker EXCEPT ![i] = taken]
        BY <1>4, <2>3
    <2> QED BY <2>1, <2>2, <2>3 DEF Deliver, taken
<1>6. PICK w \in Worker :
          /\ worker' = [worker EXCEPT ![i] = w] /\ w.root = worker[i].root
          /\ w.mail = Tail(worker[i].mail) /\ (w.syncing => ~w.paused)
          /\ order = "sync" => w.paused = worker[i].paused
    BY <1>5
<1>7. /\ worker' \in [Id -> Worker \cup {None}] /\ worker'[i] = w
      /\ \A j \in Id \ {i} : worker'[j] = worker[j]
    BY <1>6 DEF ControlInv, TypeOK
<1>8. faults' \in 0..MaxFaults
    BY ControlAssumption DEF ControlInv, TypeOK, Deliver, Fault
<1>9. TypeOK' /\ Stilled'
    BY <1>1, <1>7, <1>8 DEF ControlInv, TypeOK, Stilled
<1> HIDE DEF order
<1> QED BY <1>1, <1>3, <1>6, <1>7, <1>9, WorkerStep

LEMMA CycleEndsStep == ASSUME ControlInv, NEW i \in Id, CycleEnds(i) PROVE ControlInv'
<1>1. worker[i] \in Worker /\ worker[i] # None
    BY DEF ControlInv, TypeOK, CycleEnds
<1>2. /\ UNCHANGED <<manager, disk, config, late, leaving, made, drops, folders, slot, op, torn, faults>>
      /\ worker' \in [Id -> Worker \cup {None}] /\ \A j \in Id \ {i} : worker'[j] = worker[j]
      /\ worker'[i].root = worker[i].root /\ worker'[i].paused = worker[i].paused
      /\ ~worker'[i].syncing /\ worker'[i].mail = worker[i].mail
    BY <1>1 DEF ControlInv, TypeOK, CycleEnds, Worker, rest
<1>3. TypeOK' /\ Stilled'
    BY <1>2 DEF ControlInv, TypeOK, Stilled
<1>4. i \notin torn => worker[i].mail \in Seq({"sync"})
    BY <1>1 DEF ControlInv, Settled
<1> QED BY <1>1, <1>2, <1>3, <1>4, WorkerStep

LEMMA ShutdownStopStep == ASSUME ControlInv, NEW i \in Id, ShutdownStop(i) PROVE ControlInv'
<1>1. /\ UNCHANGED <<disk, config, folders, slot, op, manager, late, leaving, torn, made, faults, drops>>
      /\ worker' \in [Id -> Worker \cup {None}] /\ worker'[i] = None
      /\ \A j \in Id \ {i} : worker'[j] = worker[j]
    BY DEF ControlInv, TypeOK, ShutdownStop
<1>2. TypeOK' /\ Stilled'
    BY <1>1 DEF ControlInv, TypeOK, Stilled
<1> QED BY <1>1, <1>2, WorkerStep

\* Only the devices, the file and the counters move: the folders do not see it.
LEMMA ConfigStep ==
    ASSUME ControlInv, UNCHANGED <<folders, worker, slot, op, torn>>, config'.folders = config.folders,
           TypeOK', Stilled', Sound'
    PROVE  ControlInv'
<1>1. \A c \in Caller : OpShape(c)' /\ FreshAdd(c)' /\ Holder(c)'
    BY DEF ControlInv, OpShape, FreshAdd, Holder, Holding, It, Placed, Vacated, WorkerAt, Runs, Renewed
<1>2. \A j \in Id : Settled(j)'
    BY DEF ControlInv, Settled, Holding, It, Runs
<1>3. Reserved' /\ Apart'
    BY DEF ControlInv, Reserved, Placed, It, Apart
<1> QED BY <1>1, <1>2, <1>3 DEF ControlInv

\* A configuration with the same folders, and the devices they need, is saved, not
\* saved, or saved later.
LEMMA DeviceStep ==
    ASSUME ControlInv, UNCHANGED <<folders, worker, slot, op, manager, leaving, torn>>,
           made' \in 0..MaxCalls,
           NEW new \in Config, new.folders = config.folders, Savable(new), Saves(new)
    PROVE  ControlInv'
<1>1. Savable(config) /\ Savable(disk) /\ \A n \in 1..MaxDrops : late[n] # None => Savable(late[n])
    BY DEF ControlInv, Sound
<1>2. CASE (Saved(new) \/ NotSaved(new)) /\ UNCHANGED <<late, drops>>
    <2>1. /\ config' \in {config, new} /\ disk' \in {disk, new} /\ faults' \in 0..MaxFaults
          /\ config' \in Config /\ disk' \in Config
        BY <1>2, ControlAssumption DEF ControlInv, TypeOK, Saved, NotSaved, Fault
    <2>2. Sound'
        BY <1>1, <1>2, <2>1 DEF Sound, Savable, Opens
    <2>3. TypeOK' /\ Stilled'
        BY <1>2, <2>1 DEF ControlInv, TypeOK, Stilled
    <2> QED BY <2>1, <2>2, <2>3, ConfigStep
<1>3. CASE /\ drops < MaxDrops /\ drops' = drops + 1
           /\ Abandoned(new) /\ UNCHANGED <<disk, config, faults>>
    <2>1. /\ late' \in [1..MaxDrops -> Config \cup {None}] /\ drops' \in 0..MaxDrops
          /\ \A n \in 1..MaxDrops : late'[n] # None => Savable(late'[n])
        BY <1>3, AbandonedFacts
    <2>2. Sound'
        BY <1>1, <1>3, <2>1 DEF Sound, Savable, Opens
    <2>3. TypeOK' /\ Stilled'
        BY <1>3, <2>1 DEF ControlInv, TypeOK, Stilled
    <2> QED BY <1>3, <2>2, <2>3, ConfigStep
<1> QED BY <1>2, <1>3 DEF Saves

LEMMA LandStep == ASSUME ControlInv, NEW n \in 1..MaxDrops, Land(n) PROVE ControlInv'
<1>1. /\ late[n] # None /\ disk' = late[n] /\ late' = [late EXCEPT ![n] = None]
      /\ UNCHANGED <<config, folders, worker, slot, op, manager, leaving, torn, made, faults, drops>>
    BY DEF Land
<1>2. /\ disk' \in Config /\ late' \in [1..MaxDrops -> Config \cup {None}]
      /\ \A m \in 1..MaxDrops : late'[m] \in {late[m], None}
    BY <1>1 DEF ControlInv, TypeOK
<1>3. Sound'
    BY <1>1, <1>2 DEF ControlInv, Sound, Savable, Opens
<1>4. TypeOK' /\ Stilled'
    BY <1>1, <1>2 DEF ControlInv, TypeOK, Stilled
<1> QED BY <1>1, <1>3, <1>4, ConfigStep

LEMMA LeaveStep == ASSUME ControlInv, NEW r \in Root, Leave(r) PROVE ControlInv'
<1>1. /\ leaving' \subseteq leaving
      /\ UNCHANGED <<disk, config, folders, worker, slot, op, manager, late, torn, made, faults, drops>>
    BY DEF Leave
<1>2. TypeOK' /\ Stilled' /\ Sound'
    BY <1>1, SavableKept DEF ControlInv, TypeOK, Stilled
<1> QED BY <1>1, <1>2, ConfigStep

LEMMA AddDeviceStep == ASSUME ControlInv, NEW d \in Device, AddDevice(d) PROVE ControlInv'
<1> DEFINE new == [config EXCEPT !.devices = @ \cup {d}]
<1>1. config \in Config /\ Savable(config)
    BY DEF ControlInv, Sound, TypeOK
<1>2. new \in Config /\ new.folders = config.folders /\ new.devices = config.devices \cup {d}
    BY <1>1 DEF Config
<1>3. Savable(new)
    BY <1>1, <1>2 DEF Savable, Opens
<1>4. made' \in 0..MaxCalls
    BY ControlAssumption DEF AddDevice, ControlInv, TypeOK
<1> QED BY <1>2, <1>3, <1>4, DeviceStep DEF AddDevice, views

LEMMA RemoveDeviceStep == ASSUME ControlInv, NEW d \in Device, RemoveDevice(d) PROVE ControlInv'
<1> DEFINE new == [config EXCEPT !.devices = @ \ {d}]
<1>1. config \in Config /\ Savable(config)
    BY DEF ControlInv, Sound, TypeOK
<1>2. new \in Config /\ new.folders = config.folders /\ new.devices = config.devices \ {d}
    BY <1>1 DEF Config
<1>3. \A i \in Id : config.folders[i] # None => config.folders[i].device # d
    BY DEF RemoveDevice
<1>4. Savable(new)
    BY <1>1, <1>2, <1>3 DEF Savable, Opens
<1>5. made' \in 0..MaxCalls
    BY DEF RemoveDevice, ControlInv, TypeOK
<1> QED BY <1>2, <1>4, <1>5, DeviceStep DEF RemoveDevice, views

LEMMA SaveAgainStep == ASSUME ControlInv, SaveAgain PROVE ControlInv'
<1>1. config \in Config /\ Savable(config)
    BY DEF ControlInv, Sound, TypeOK
<1>2. made' \in 0..MaxCalls
    BY DEF SaveAgain, ControlInv, TypeOK
<1> QED BY <1>1, <1>2, DeviceStep DEF SaveAgain, views

LEMMA ClosingStep == ASSUME ControlInv, Shutdown \/ Exclusive PROVE ControlInv'
<1>1. /\ UNCHANGED <<disk, config, folders, worker, slot, op, late, leaving, torn, made, faults, drops>>
      /\ manager' \in {"closing", "stopping"}
      /\ manager' = "stopping" => \A c \in Caller : op[c] = Idle
    BY DEF Shutdown, Exclusive
<1>2. TypeOK' /\ Stilled'
    BY <1>1 DEF ControlInv, TypeOK, Stilled
<1>3. Sound'
    BY <1>1, SavableKept
<1> QED BY <1>1, <1>2, <1>3, ConfigStep

\* A manager that has no operation under way and no folder torn is sound when
\* its views are what is saved and its workers run them.
Fresh ==
    /\ TypeOK /\ Sound /\ torn = {} /\ slot = Nothing
    /\ \A c \in Caller : op[c] = Idle
    /\ folders = config.folders
    /\ \A i \in Id : worker[i] # None => folders[i] # None /\ worker[i] = Started(folders[i])

LEMMA FreshManager == Fresh => ControlInv
<1> SUFFICES ASSUME Fresh
             PROVE  ControlInv
    OBVIOUS
<1> USE DEF Fresh
<1>1. ASSUME NEW c \in Caller
      PROVE  OpShape(c) /\ FreshAdd(c) /\ Holder(c) /\ ~Placed(c)
    BY ControlAssumption DEF Idle, OpShape, FreshAdd, Holder, Placed, Holding, Edits, Kind
<1>2. ASSUME NEW i \in Id
      PROVE  Settled(i)
    <2>1. slot[i] = None /\ folders[i] = config.folders[i]
        BY DEF Nothing
    <2>2. ASSUME worker[i] # None
          PROVE  /\ Runs(worker[i], folders[i]) /\ worker[i].syncing = FALSE
                 /\ worker[i].mail \in Seq({"sync"})
        <3>1. folders[i] \in Folder /\ worker[i] = Started(folders[i])
            BY <2>2 DEF TypeOK
        <3> QED BY <3>1 DEF Folder, Started, Runs
    <2> QED BY <2>1, <2>2 DEF Settled
<1>3. Reserved /\ Stilled
    BY <1>1 DEF Reserved, Stilled
<1>4. Apart
    BY DEF Apart, Sound, Savable, Opens
<1> QED BY <1>1, <1>2, <1>3, <1>4 DEF ControlInv

LEMMA FreshManagerNext == Fresh' => ControlInv'
BY FreshManager, PTL

\* Nothing is saved yet.
LEMMA EmptyFacts == Empty \in Config /\ Savable(Empty) /\ Empty.folders = Nothing /\ \A i \in Id : Nothing[i] = None
<1>1. Empty \in Config /\ Empty.folders = Nothing /\ \A i \in Id : Nothing[i] = None
    BY DEF Empty, Nothing, Config
<1> QED BY <1>1 DEF Savable, Opens

LEMMA ControlInit == ASSUME Init PROVE ControlInv
<1>1. /\ disk = Empty /\ config = Empty /\ folders = Nothing /\ worker = Nothing /\ slot = Nothing
      /\ torn = {} /\ \A c \in Caller : op[c] = Idle
    BY DEF Init
<1>2. TypeOK
    BY EmptyFacts, ControlAssumption DEF Init, TypeOK, Idle, Op, Nothing, NoLate
<1>3. Sound
    BY EmptyFacts DEF Init, Sound, NoLate
<1> QED BY <1>1, <1>2, <1>3, EmptyFacts, FreshManager DEF Fresh

LEMMA GoneStep ==
    ASSUME ControlInv, Gone, disk' \in Config, Savable(disk'), faults' \in 0..MaxFaults
    PROVE  ControlInv'
<1>1. /\ manager' = "closed" /\ config' = Empty /\ torn' = {} /\ UNCHANGED <<made, drops>>
      /\ worker' = Nothing /\ folders' = Nothing /\ slot' = Nothing
      /\ late' = NoLate /\ leaving' = {} /\ op' = [c \in Caller |-> Idle]
    BY DEF Gone
<1>2. TypeOK'
    BY <1>1, EmptyFacts DEF ControlInv, TypeOK, Idle, Op, Nothing, NoLate
<1>3. Sound'
    BY <1>1, EmptyFacts DEF Sound, Savable, Opens, NoLate
<1> QED BY <1>1, <1>2, <1>3, EmptyFacts, FreshManagerNext DEF Fresh

LEMMA CloseStep == ASSUME ControlInv, Closed \/ Crash PROVE ControlInv'
<1>1. Gone /\ disk' \in {disk, config} \cup {late[n] : n \in {m \in 1..MaxDrops : late[m] # None}}
    BY DEF Closed, Crash
<1>2. disk' \in Config /\ Savable(disk')
    BY <1>1 DEF ControlInv, TypeOK, Sound
<1>3. faults' \in 0..MaxFaults
    BY ControlAssumption DEF ControlInv, TypeOK, Closed, Crash, Fault
<1> QED BY <1>1, <1>2, <1>3, GoneStep

LEMMA OpenStep == ASSUME ControlInv, Open PROVE ControlInv'
<1>1. /\ config' = disk /\ folders' = disk.folders /\ slot' = Nothing /\ manager' = "open"
      /\ UNCHANGED <<op, disk, late, leaving, torn, made, drops>>
    BY DEF Open
<1>2. disk \in Config /\ disk.folders \in [Id -> Folder \cup {None}]
    BY DEF ControlInv, TypeOK, Config
<1>3. PICK fails \in SUBSET {i \in Id : disk.folders[i] # None} :
          /\ faults + Cardinality(fails) <= MaxFaults /\ faults' = faults + Cardinality(fails)
          /\ worker' = [i \in Id |-> IF disk.folders[i] = None \/ i \in fails THEN None
                                     ELSE Started(disk.folders[i])]
    BY DEF Open
<1>4. fails \subseteq Id /\ Cardinality(fails) \in Nat
    <2>1. IsFiniteSet(fails)
        BY ControlAssumption, FS_Subset
    <2> QED BY <2>1, FS_CardinalityType
<1>5. faults' \in 0..MaxFaults
    BY <1>3, <1>4, ControlAssumption DEF ControlInv, TypeOK
<1>6. /\ worker' \in [Id -> Worker \cup {None}]
      /\ \A i \in Id : worker'[i] # None =>
            folders'[i] # None /\ worker'[i] = Started(folders'[i])
    <2>1. \A f \in Folder : Started(f) \in Worker
        BY DEF Started, Folder, Worker
    <2> QED BY <1>1, <1>2, <1>3, <2>1
<1>7. manager = "closed" /\ torn = {} /\ \A c \in Caller : op[c] = Idle
    BY DEF Open, ControlInv, Stilled
<1>8. /\ folders' = config'.folders /\ TypeOK'
      /\ \A c \in Caller : op'[c] = Idle
    BY <1>1, <1>2, <1>5, <1>6, <1>7 DEF ControlInv, TypeOK, Nothing
<1>9. Sound'
    BY <1>1 DEF ControlInv, Sound, Savable, Opens
<1> QED BY <1>1, <1>6, <1>7, <1>8, <1>9, FreshManagerNext DEF Fresh

-----------------------------------------------------------------------------
(* The theorems *)

LEMMA ControlStep == ASSUME ControlInv, [Next]_vars PROVE ControlInv'
<1>1. ASSUME NEW c \in Caller, AddFolder(c) \/ CallFolder(c)
      PROVE  ControlInv'
    BY <1>1, AddFolderStep, CallFolderStep
<1>2. ASSUME NEW c \in Caller, Operation(c)
      PROVE  ControlInv'
    BY <1>2, LockStep, ReserveStep, StopStep, StartStep, RestartStep, PersistStep, UndoStep,
       CommandStep, SyncReturnsStep, RevertStep DEF Operation
<1>3. ASSUME NEW i \in Id, Deliver(i) \/ Tick(i) \/ CycleEnds(i) \/ ShutdownStop(i)
      PROVE  ControlInv'
    BY <1>3, DeliverStep, TickStep, CycleEndsStep, ShutdownStopStep
<1>4. ASSUME NEW d \in Device, AddDevice(d) \/ RemoveDevice(d)
      PROVE  ControlInv'
    BY <1>4, AddDeviceStep, RemoveDeviceStep
<1>5. ASSUME SaveAgain \/ Shutdown \/ Exclusive \/ Closed \/ Crash \/ Open
      PROVE  ControlInv'
    BY <1>5, SaveAgainStep, ClosingStep, CloseStep, OpenStep
<1>6. CASE UNCHANGED vars
    <2>1. UNCHANGED <<disk, config, folders, worker, slot, op, manager, late, leaving, torn, made, faults, drops>>
        BY <1>6 DEF vars
    <2>2. TypeOK' /\ Stilled' /\ Sound'
        BY <2>1, SavableKept DEF ControlInv, TypeOK, Stilled
    <2> QED BY <2>1, <2>2, ConfigStep
<1>7. ASSUME NEW c \in Caller, Drop(c)
      PROVE  ControlInv'
    BY <1>7, LeavesIdleStep, LeavesWorkerStep, LeavesOrderStep, LeavesSaveStep DEF Drop
<1>8. ASSUME NEW n \in 1..MaxDrops, Land(n)
      PROVE  ControlInv'
    BY <1>8, LandStep
<1>9. ASSUME NEW r \in Root, Leave(r)
      PROVE  ControlInv'
    BY <1>9, LeaveStep
<1> QED BY <1>1, <1>2, <1>3, <1>4, <1>5, <1>6, <1>7, <1>8, <1>9 DEF Next

\* The whole invariant, of every behaviour: callers, workers, the lock file and the
\* saved configuration, through failed saves, cut-off operations and crashes.
THEOREM ControlSafe == Spec => []ControlInv
<1>1. Init => ControlInv
    BY ControlInit
<1>2. ControlInv /\ [Next]_vars => ControlInv'
    BY ControlStep
<1> QED BY <1>1, <1>2, PTL DEF Spec

\* Every variable keeps its type, whatever callers run, fail or are cut off.
THEOREM ControlTypeCorrect == Spec => []TypeOK
<1>1. ControlInv => TypeOK
    BY DEF ControlInv
<1> QED BY <1>1, ControlSafe, PTL

\* The saved configuration is at every moment one that open accepts and whose
\* devices exist: two operations that run at the same time never save the same
\* paths, a failed or undone one leaves nothing that a later one collides with,
\* a save that outlives its caller brings back a configuration that was valid,
\* and a crash finds either the configuration before a save or the one after
\* (add_folder, update_folder, remove_device, persist).
THEOREM SavedConfigurationReopens == Spec => []Reopens
<1>1. ControlInv => Reopens
    BY DEF ControlInv, Sound, Savable, Reopens
<1> QED BY <1>1, ControlSafe, PTL

\* A worker runs on the paths, and in the state, that the configuration gives
\* its folder as soon as no operation holds the folder, and never on the paths
\* of another: between its slot and the reservations, no interleaving of
\* updates, removals, pauses and failed rollbacks separates the two, nor do the
\* callers of other folders that go away.  Set aside are the folders whose own
\* stop or revert reported an error, or whose own caller went away half-way.
THEOREM WorkersAgree == Spec => []Agreement
<1>1. ASSUME ControlInv
      PROVE  Agreement
    <2>1. ASSUME NEW i \in Id \ torn, worker[i] # None
          PROVE  \/ folders[i] # None /\ worker[i].root = folders[i].root
                 \/ config.folders[i] # None /\ worker[i].root = config.folders[i].root
        <3>1. Settled(i) /\ folders[i] # None /\ TypeOK
            BY <1>1, <2>1 DEF ControlInv, Settled
        <3>2. CASE slot[i] = None
            BY <2>1, <3>1, <3>2 DEF Settled, Runs
        <3>3. CASE slot[i] # None
            <4>1. PICK c \in Caller : slot[i] = c /\ Holding(c) /\ It(c) = i
                BY <3>1, <3>3 DEF Settled, TypeOK
            <4>2. Holder(c) /\ OpShape(c)
                BY <1>1 DEF ControlInv
            <4>3. /\ WorkerAt(c, worker[i]) /\ ~Vacated(c)
                  /\ folders[i] = IF Placed(c) THEN op[c].new ELSE op[c].old
                  /\ config.folders[i] = op[c].old
                BY <2>1, <4>1, <4>2 DEF Holder
            <4>4. CASE op[c].kind \in Edits /\ op[c].step \in {"persist", "undo"}
                BY <3>1, <4>3, <4>4 DEF WorkerAt, Runs, Renewed, Placed
            <4>5. CASE ~(op[c].kind \in Edits /\ op[c].step \in {"persist", "undo"})
                <5>1. worker[i].root = op[c].old.root
                    BY <4>3, <4>5 DEF WorkerAt, Runs, Renewed
                <5>2. op[c].old \in Folder
                    BY <4>1, <4>2, <4>3, <4>5 DEF OpShape, Vacated, Holding, Edits, Switches, Idle
                <5> QED BY <4>3, <5>1, <5>2, ControlAssumption
            <4> QED BY <4>4, <4>5
        <3> QED BY <3>2, <3>3
    <2>2. \A i, j \in Id \ torn : i # j /\ worker[i] # None /\ worker[j] # None
              => worker[i].root # worker[j].root
        <3> SUFFICES ASSUME NEW i \in Id \ torn, NEW j \in Id \ torn, i # j,
                            worker[i] # None, worker[j] # None
                     PROVE  worker[i].root # worker[j].root
            OBVIOUS
        <3>1. /\ folders[i] # None /\ folders[j] # None => folders[i].root # folders[j].root
              /\ folders[i] # None /\ config.folders[j] # None => folders[i].root # config.folders[j].root
              /\ folders[j] # None /\ config.folders[i] # None => folders[j].root # config.folders[i].root
              /\ config.folders[i] # None /\ config.folders[j] # None
                    => config.folders[i].root # config.folders[j].root
            BY <1>1 DEF ControlInv, Sound, Apart, Savable, Opens
        <3> QED BY <2>1, <3>1
    <2>3. \A i \in Id : worker[i] # None /\ slot[i] = None /\ i \notin torn =>
              /\ folders[i] = config.folders[i] /\ folders[i] # None
              /\ worker[i].root = folders[i].root /\ worker[i].paused = ~folders[i].enabled
        BY <1>1 DEF ControlInv, Settled, Runs
    <2>4. \A i \in Id : worker[i] # None /\ worker[i].syncing => ~worker[i].paused
        BY <1>1 DEF ControlInv, Settled
    <2> QED BY <2>2, <2>3, <2>4 DEF Agreement
<1> QED BY <1>1, ControlSafe, PTL
=============================================================================
