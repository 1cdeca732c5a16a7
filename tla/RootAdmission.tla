--------------------------- MODULE RootAdmission ---------------------------
(***************************************************************************)
(* Host-wide admission of network roots (root_admission.rs): processes of  *)
(* one OS user claim public roots and reserve private paths through one    *)
(* registry.                                                               *)
(*                                                                         *)
(* One file lock serialises admissions; the registry database, the         *)
(* ownership markers beside managed roots and the OS lease locks are three *)
(* stores, and a process may die between any two writes to them.  Paths    *)
(* are canonical: aliases, permissions and directory creation are left     *)
(* out, and so is the registry's own path, which no request names.         *)
(***************************************************************************)
EXTENDS Naturals, Sequences

CONSTANTS
    Process,
    Path,         \* paths that requests name, as sequences of names
    Share,        \* identities of managed shares (share and owner)
    Legacy,       \* the use that leaves no binding
    Nobody,       \* holder of a free lock
    NoRoot        \* a request that names no public root

ASSUME AdmissionAssumption ==
    /\ \A p \in Path : p \in Seq(Nat)
    /\ Legacy \notin Share
    /\ Nobody \notin Process
    /\ NoRoot \notin Path

RootUse == Share \cup {Legacy}
Entry == [kind: RootUse, preparing: BOOLEAN]

\* What acquire_with_private and reserve_private ask for.
Request == [root: Path \cup {NoRoot}, kind: RootUse, private: SUBSET Path]
NoRequest == [root |-> NoRoot, kind |-> Legacy, private |-> {}]

Steps == {"idle", "examine", "reserve", "prepare", "mark", "fill", "confirm"}

VARIABLES
    entries,      \* registry table ROOTS: root -> entry
    private,      \* registry table PRIVATE
    marker,       \* path -> owner named by its sidecar, {} none, {Nobody} torn
    lease,        \* path -> process that holds its lifetime lock
    lock,         \* holder of registry.lock
    step, req,    \* the admission under way
    hand,         \* the root whose marker it is writing
    todo, stale,  \* entries it has not examined; expired ones it will remove
    bound         \* history: managed bindings some admission has completed

durable == <<entries, private, marker>>
call == <<lock, step, req, hand, todo, stale>>
vars == <<durable, lease, call, bound>>

-----------------------------------------------------------------------------
\* Mutant: only roots below the requested one are noticed.
OverlapsBelow(p, q) == Len(p) <= Len(q) /\ SubSeq(q, 1, Len(p)) = p

Overlaps(p, q) ==
    \/ Len(p) <= Len(q) /\ SubSeq(q, 1, Len(p)) = p
    \/ Len(q) <= Len(p) /\ SubSeq(p, 1, Len(q)) = q

OverlapsAny(p, S) == \E q \in S : Overlaps(p, q)
Public == req.root # NoRoot
Managed(r) == r \in DOMAIN entries /\ entries[r].kind # Legacy
Live(r) == lease[r] # Nobody

\* Mutant: every entry without a live process expires.
ExpiredUnleased(r) == ~Live(r)

Expired(r) == entries[r].kind = Legacy /\ ~Live(r)

\* The entry allows the requested root: only its own binding may come back.
Allows(r) ==
    (Public /\ Overlaps(req.root, r)) =>
        ~Live(r) /\ req.root = r /\ req.kind = entries[r].kind /\ req.kind # Legacy

Without(f, S) == [x \in DOMAIN f \ S |-> f[x]]
Put(f, x, v) == [y \in DOMAIN f \cup {x} |-> IF y = x THEN v ELSE f[y]]

\* The call returns and drops the lock.
Return ==
    /\ lock' = Nobody /\ step' = "idle" /\ req' = NoRequest
    /\ hand' = NoRoot /\ todo' = {} /\ stale' = {}
Goto(s) == step' = s /\ UNCHANGED <<lock, req, hand, todo, stale>>

-----------------------------------------------------------------------------
Init ==
    /\ entries = [r \in {} |-> [kind |-> Legacy, preparing |-> FALSE]]
    /\ private = {}
    /\ marker = [p \in Path |-> {}]
    /\ lease = [p \in Path |-> Nobody]
    /\ lock = Nobody /\ step = "idle" /\ req = NoRequest
    /\ hand = NoRoot /\ todo = {} /\ stale = {}
    /\ bound = {}

\* read_admission: a catalog that a dead process left open is repaired, never
\* reset, so it holds every committed entry.
Catalog == DOMAIN entries

\* Takes registry.lock, checks the request against itself and against the
\* private reservations, and reads the catalog.  A refused request changes
\* nothing.
Begin(p) ==
    /\ lock = Nobody
    /\ \E r \in Request :
        /\ r.root = NoRoot => r.kind = Legacy /\ r.private # {}
        /\ r.root # NoRoot => ~OverlapsAny(r.root, r.private \cup private)
        /\ req' = r
    /\ lock' = p /\ step' = "examine" /\ todo' = Catalog /\ stale' = {}
    /\ UNCHANGED <<durable, lease, hand, bound>>

\* One entry of the catalog.
Skip(r) ==
    /\ step = "examine" /\ r \in todo /\ Expired(r)
    /\ todo' = todo \ {r} /\ stale' = stale \cup {r}
    /\ UNCHANGED <<durable, lease, lock, step, req, hand, bound>>

Settled(r) == entries[r].kind = Legacy \/ ~entries[r].preparing
MarkerAgrees(r) == entries[r].kind = Legacy \/ marker[r] = {entries[r].kind}

\* Mutant: the requested private paths are not compared with the entries.
PassPrivate(r) ==
    /\ step = "examine" /\ r \in todo /\ ~Expired(r)
    /\ Settled(r) /\ MarkerAgrees(r) /\ Allows(r)
    /\ todo' = todo \ {r}
    /\ UNCHANGED <<durable, lease, lock, step, req, hand, stale, bound>>

Pass(r) ==
    /\ step = "examine" /\ r \in todo /\ ~Expired(r)
    /\ ~OverlapsAny(r, req.private) /\ Settled(r) /\ MarkerAgrees(r) /\ Allows(r)
    /\ todo' = todo \ {r}
    /\ UNCHANGED <<durable, lease, lock, step, req, hand, stale, bound>>

Deny(r) ==
    /\ step = "examine" /\ r \in todo /\ ~Expired(r)
    /\ \/ OverlapsAny(r, req.private)
       \/ Settled(r) /\ ~(MarkerAgrees(r) /\ Allows(r))
    /\ Return
    /\ UNCHANGED <<durable, lease, bound>>

\* An entry that another process left between its two commits: its marker is
\* written and its intent confirmed before it is examined.
RecoverEntry(r) ==
    /\ step = "examine" /\ r \in todo /\ ~Expired(r)
    /\ ~OverlapsAny(r, req.private) /\ ~Settled(r)
    /\ hand' = r /\ step' = "mark"
    /\ UNCHANGED <<durable, lease, lock, req, todo, stale, bound>>

-----------------------------------------------------------------------------
(* write_marker and the second persist, for the entry in hand. *)

Recovering == hand \in todo

CreateMarker ==
    /\ step = "mark" /\ marker[hand] = {}
    /\ marker' = [marker EXCEPT ![hand] = {Nobody}]
    /\ Goto("fill")
    /\ UNCHANGED <<entries, private, lease, bound>>

FillMarker ==
    /\ step = "fill"
    /\ marker' = [marker EXCEPT ![hand] = {entries[hand].kind}]
    /\ Goto("confirm")
    /\ UNCHANGED <<entries, private, lease, bound>>

KeepMarker ==
    /\ step = "mark" /\ marker[hand] = {entries[hand].kind}
    /\ Goto("confirm")
    /\ UNCHANGED <<durable, lease, bound>>

\* A marker that says anything else ends the call; the caller's own lease is
\* dropped with it.
RefuseMarker ==
    /\ step = "mark" /\ marker[hand] \notin {{}, {entries[hand].kind}}
    /\ Return
    /\ lease' = IF Recovering THEN lease ELSE [lease EXCEPT ![hand] = Nobody]
    /\ UNCHANGED <<durable, bound>>

Confirm ==
    /\ step = "confirm"
    /\ entries' = [entries EXCEPT ![hand].preparing = FALSE]
    /\ bound' = bound \cup {<<hand, entries[hand].kind>>}
    /\ IF Recovering THEN Goto("examine") ELSE Return
    /\ UNCHANGED <<private, marker, lease>>

-----------------------------------------------------------------------------
(* Every entry has been examined: the request itself. *)

\* The lease of the root; a marker left beside it must name the same owner.
Claimable == lease[req.root] = Nobody /\ marker[req.root] \in {{}, {req.kind}}

ClaimRoot ==
    /\ step = "examine" /\ todo = {}
    /\ Public => Claimable
    /\ lease' = IF Public THEN [lease EXCEPT ![req.root] = lock] ELSE lease
    /\ Goto("reserve")
    /\ UNCHANGED <<durable, bound>>

ClaimRefused ==
    /\ step = "examine" /\ todo = {} /\ Public /\ ~Claimable
    /\ Return
    /\ UNCHANGED <<durable, lease, bound>>

\* One commit: the private paths come in, the expired entries go out.
Reserve ==
    /\ step = "reserve"
    /\ private' = private \cup req.private
    /\ entries' = Without(entries, stale)
    /\ Goto("prepare")
    /\ UNCHANGED <<marker, lease, bound>>

\* The caller's catalog callback fails: reservations stay, the lease goes.
PrepareFails ==
    /\ step = "prepare"
    /\ Return
    /\ lease' = IF Public THEN [lease EXCEPT ![req.root] = Nobody] ELSE lease
    /\ UNCHANGED <<durable, bound>>

\* Mutant: every entry is first persisted as an intent.
PersistIntent ==
    /\ step = "prepare" /\ Public
    /\ entries' = Put(entries, req.root, [kind |-> req.kind, preparing |-> TRUE])
    /\ IF req.kind = Legacy
       THEN Return
       ELSE step' = "mark" /\ hand' = req.root /\ UNCHANGED <<lock, req, todo, stale>>
    /\ UNCHANGED <<private, marker, lease, bound>>

\* It succeeds: the entry is persisted, for a managed root as an intent.
Persist ==
    /\ step = "prepare" /\ Public
    /\ entries' = Put(entries, req.root,
                      [kind |-> req.kind, preparing |-> req.kind # Legacy])
    /\ IF req.kind = Legacy
       THEN Return
       ELSE step' = "mark" /\ hand' = req.root /\ UNCHANGED <<lock, req, todo, stale>>
    /\ UNCHANGED <<private, marker, lease, bound>>

Reserved ==
    /\ step = "prepare" /\ ~Public
    /\ Return
    /\ UNCHANGED <<durable, lease, bound>>

-----------------------------------------------------------------------------
(* Processes. *)

\* The holder of an admitted root drops its lease.
Release(r) ==
    /\ Live(r) /\ ~(lock = lease[r] /\ req.root = r)
    /\ lease' = [lease EXCEPT ![r] = Nobody]
    /\ UNCHANGED <<durable, call, bound>>

\* The OS drops the locks of a dead process.
Die(p) ==
    /\ lease' = [r \in Path |-> IF lease[r] = p THEN Nobody ELSE lease[r]]
    /\ IF lock = p THEN Return ELSE UNCHANGED call
    /\ UNCHANGED <<durable, bound>>

\* The OS user removes the registry of stopped processes, an explicit export:
\* only the markers remain.
RemoveRegistry ==
    /\ lock = Nobody /\ \A r \in Path : ~Live(r)
    /\ entries' = Without(entries, Path) /\ private' = {} /\ bound' = {}
    /\ UNCHANGED <<marker, lease, call>>

Next ==
    \/ \E p \in Process : Begin(p) \/ Die(p)
    \/ \E r \in Path : Skip(r) \/ Pass(r) \/ Deny(r) \/ RecoverEntry(r) \/ Release(r)
    \/ CreateMarker \/ FillMarker \/ KeepMarker \/ RefuseMarker \/ Confirm
    \/ ClaimRoot \/ ClaimRefused \/ Reserve \/ PrepareFails \/ Persist \/ Reserved
    \/ RemoveRegistry

Spec == Init /\ [][Next]_vars

-----------------------------------------------------------------------------
(* Properties. *)

TypeOK ==
    /\ DOMAIN entries \subseteq Path
    /\ \A r \in DOMAIN entries :
          entries[r] \in Entry /\ (entries[r].preparing => entries[r].kind # Legacy)
    /\ private \subseteq Path
    /\ marker \in [Path -> SUBSET (Share \cup {Nobody})]
    /\ lease \in [Path -> Process \cup {Nobody}]
    /\ lock \in Process \cup {Nobody} /\ step \in Steps /\ req \in Request
    /\ todo \subseteq Path /\ stale \subseteq Path
    /\ hand \in Path \cup {NoRoot}
    /\ bound \subseteq Path \X Share

\* No two processes are ever admitted to overlapping roots, whatever died while
\* it was being admitted.
LeasesDisjoint ==
    \A p, q \in Path : p # q /\ Live(p) /\ Live(q) => ~Overlaps(p, q)

\* A root in use never contains, and is never contained in, a private path that
\* the registry has reserved: also when the reservation was made by a call
\* that failed afterwards.
PrivateNeverPublic == \A r \in Path : Live(r) => ~OverlapsAny(r, private)

\* A managed binding that was ever confirmed outlives the processes: its entry
\* and its marker still name it, and no other use holds an overlapping root
\* (expired entries, re-admissions and recoveries of other roots).
BindingSurvives ==
    \A b \in bound :
        /\ b[1] \in DOMAIN entries /\ entries[b[1]].kind = b[2]
        /\ marker[b[1]] = {b[2]}
        /\ \A r \in Path : Live(r) /\ Overlaps(r, b[1]) => r = b[1]

=============================================================================
