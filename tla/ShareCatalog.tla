--------------------------- MODULE ShareCatalog ---------------------------
(***************************************************************************)
(* What an owner keeps about a share: the catalog of registry.rs (the      *)
(* share, its invitations, its members, the replicas it knows) and the     *)
(* causal metadata in the share's index (runtime.rs), with the device-side *)
(* relationship that an enrolment leaves (service.rs).                     *)
(*                                                                         *)
(* A ticket is the permission its invitation grants: signatures, digests   *)
(* and encodings always agree, and a dead key is refused.  A record is the *)
(* one counter it claims: the other components of its version are counters *)
(* the owner already has, which no check refuses.  counters abstracts the  *)
(* index to the highest counter of each replica in its rows.               *)
(***************************************************************************)
EXTENDS Naturals, FiniteSets

CONSTANTS
    Peer,                  \* devices
    Writer,                \* handlers of pushes
    Replica,               \* causal identities, of which
    Owner, Resolver,       \*   the owner's and the conflict resolver's
    Retained,              \*   those a device may prove it used before
    None,                  \* no peer, no replica, no holder
    MaxCounter             \* bound on version counters

ASSUME CatalogAssumption ==
    /\ {Owner, Resolver} \cup Retained \subseteq Replica /\ Owner # Resolver
    /\ {Owner, Resolver} \cap Retained = {}
    /\ None \notin Peer \cup Replica \cup Writer
    /\ MaxCounter \in Nat

Permission == {"ReadOnly", "ReadWrite"}
Membership == [permission: Permission, replica: Replica, revoked: BOOLEAN]
Counters == [Replica -> 0..MaxCounter]
Claim == [replica: Replica, counter: 1..MaxCounter]
Zero == [r \in Replica |-> 0]
NoClaim == [replica |-> Owner, counter |-> 0]

\* A push: who sends what, and the metadata computed for it.
Push == [step: {"idle", "queued", "recover", "prepare", "apply", "adopt"},
         peer: Peer \cup {None}, claim: Claim \cup {NoClaim}, ceilings: Counters]
NoPush == [step |-> "idle", peer |-> None, claim |-> NoClaim, ceilings |-> Zero]

VARIABLES
    life,           \* the share in the catalog: none, intent, ready
    invitations,    \* permissions some live invitation grants
    members,        \* enrolled peer -> membership
    known,          \* replicas the catalog knows
    metadata,       \* the index holds share metadata
    ceilings,       \* that metadata: highest accepted counters
    counters,       \* highest counter of each replica in indexed records
    pending,        \* installed attempts that are not adopted yet
    relation,       \* device -> replica of the relationship it stored
    runtime,        \* down, opened, published
    gate, push      \* the runtime's gate and the pushes it serves

catalog == <<life, invitations, members, known>>
disk == <<metadata, ceilings, counters, pending>>
served == <<runtime, gate, push>>
catalogVars == <<catalog, disk, relation, served>>

-----------------------------------------------------------------------------
Max2(a, b) == IF a < b THEN b ELSE a
Join(f, g) == [r \in Replica |-> Max2(f[r], g[r])]

\* Mutant: the counters of two records are added.
WithSum(f, c) == [f EXCEPT ![c.replica] = @ + c.counter]

With(f, c) == [f EXCEPT ![c.replica] = Max2(@, c.counter)]

\* Registry::authorize for a write
Authorized(p) ==
    p \in DOMAIN members /\ ~members[p].revoked /\ members[p].permission = "ReadWrite"

\* Mutant: a member may advance every known replica.
AnyKnown(p, c) == c.replica \in known

\* candidate_metadata_for: a member advances its own replica, the resolver by
\* one, and of the others it repeats what the owner has accepted.
Acceptable(p, c) ==
    LET accepted == Join(ceilings, counters)[c.replica] IN
    /\ c.replica \in known
    /\ \/ c.replica = members[p].replica
       \/ c.replica = Resolver /\ c.counter <= accepted + 1
       \/ c.counter <= accepted

\* refresh_causal_state: the ceilings follow the index and the catalog learns
\* their replicas.
Refreshed == Join(ceilings, counters)
Learned(cs) == known \cup {Owner, Resolver} \cup {r \in Replica : cs[r] > 0}

\* A scan authors what the owner changed locally.
Scanned(cs) ==
    {cs} \cup (IF cs[Owner] < MaxCounter THEN {[cs EXCEPT ![Owner] = @ + 1]} ELSE {})

-----------------------------------------------------------------------------
CatalogInit ==
    /\ life = "none" /\ invitations = {} /\ known = {}
    /\ members = [p \in {} |-> [permission |-> "ReadOnly", replica |-> Owner, revoked |-> TRUE]]
    /\ metadata = FALSE /\ pending = {} /\ ceilings = Zero /\ counters = Zero
    /\ relation = [p \in Peer |-> None]
    /\ runtime = "down" /\ gate = None /\ push = [w \in Writer |-> NoPush]

\* Mutant: the share counts as complete as soon as it is inserted.
InsertReady ==
    /\ life = "none" /\ life' = "ready" /\ known' = {Owner, Resolver}
    /\ UNCHANGED <<invitations, members, disk, relation, served>>

\* create_owned_share commits the intent; an imported index brings its rows.
CreateOwnedShare ==
    /\ life = "none" /\ life' = "intent" /\ known' = {Owner, Resolver}
    /\ counters' \in {Zero} \cup {[Zero EXCEPT ![r] = MaxCounter] : r \in Retained}
    /\ UNCHANGED <<invitations, members, metadata, ceilings, pending, relation, served>>

\* recover_pending, before each operation and before a runtime is published: the
\* attempt of a peer whose epoch still holds is adopted with the metadata its
\* record asks for, any other is rolled back.  Then the index is scanned.
Recoverable == {x \in pending : Authorized(x.peer)}
Outcomes ==
    IF Recoverable = {} THEN {<<counters, ceilings>>}
    ELSE {<<With(counters, x.claim), With(Refreshed, x.claim)>> : x \in Recoverable}

RecoverPending(refresh) ==
    /\ \A x \in Recoverable : Acceptable(x.peer, x.claim)
    /\ pending' = {}
    /\ \E o \in Outcomes :
        /\ counters' \in Scanned(o[1])
        /\ ceilings' = IF refresh THEN Join(o[2], counters') ELSE o[2]

\* load_config_with_lease: a share that was once complete needs its state.
LoadOwnedShare ==
    /\ runtime = "down" /\ life # "none"
    /\ life = "ready" => metadata
    /\ RecoverPending(TRUE)
    /\ metadata' = TRUE /\ known' = Learned(ceilings') /\ runtime' = "opened"
    /\ UNCHANGED <<life, invitations, members, relation, gate, push>>

MarkReady ==
    /\ runtime = "opened" /\ life' = "ready" /\ runtime' = "published"
    /\ UNCHANGED <<invitations, members, known, disk, relation, gate, push>>

\* Registry::issue, revoke_key and validate_entry.
Issued(k) == invitations \cup {k}
Withdrawn(k) == invitations \ {k}
Valid(k) == k \in invitations

IssueKey(k) ==
    /\ runtime = "published" /\ ~Valid(k) /\ invitations' = Issued(k)
    /\ UNCHANGED <<life, members, known, disk, relation, served>>

\* revoke_key, and the moment a key expires.  rotate_key is this, then IssueKey
\* for the same permission, in two transactions.
RevokeKey(k) ==
    /\ runtime = "published" /\ Valid(k) /\ invitations' = Withdrawn(k)
    /\ UNCHANGED <<life, members, known, disk, relation, served>>

-----------------------------------------------------------------------------
\* LegacyProof: a device still has the key a retained identity is the digest of.
Proved(r) == r \in Retained

\* Mutant: a proved identity is compared with the owner's and the resolver's only.
UnclaimedByOwner(r) == Proved(r)

\* A retained identity that a proof may claim.
Unclaimed(r) ==
    Proved(r) /\ r \notin {members[q].replica : q \in DOMAIN members}

\* store_relationship: a device keeps the replica it already has.
Stored(p, r) == IF relation[p] = None THEN [relation EXCEPT ![p] = r] ELSE relation

\* Registry::enroll: a member gets its membership again, a revoked one nothing, a
\* new one a random replica the catalog does not know, or the one it proves.
\* The device stores what the reply says, unless the reply is lost.
Enroll(p) ==
    /\ runtime = "published"
    /\ \E k \in Permission : Valid(k) /\
        \/ p \in DOMAIN members /\ ~members[p].revoked /\ UNCHANGED <<members, known>>
        \/ \E r \in Replica :
            /\ p \notin DOMAIN members /\ (r \notin known \/ Unclaimed(r))
            /\ known' = known \cup {r}
            /\ members' = [q \in DOMAIN members \cup {p} |->
                IF q = p THEN [permission |-> k, replica |-> r, revoked |-> FALSE]
                ELSE members[q]]
    /\ relation' \in {relation, Stored(p, members'[p].replica)}
    /\ UNCHANGED <<life, invitations, disk, served>>

RevokeMember(p) ==
    /\ runtime = "published" /\ p \in DOMAIN members /\ ~members[p].revoked
    /\ members' = [members EXCEPT ![p].revoked = TRUE]
    /\ UNCHANGED <<life, invitations, known, disk, relation, served>>

-----------------------------------------------------------------------------
(* A push of one record, under the gate of the runtime. *)

At(w, s) == push[w].step = s
Set(w, s) == push' = [push EXCEPT ![w].step = s]

Offer(w, p, c) ==
    /\ runtime = "published" /\ At(w, "idle") /\ Authorized(p)
    /\ push' = [push EXCEPT ![w] = [NoPush EXCEPT !.step = "queued", !.peer = p, !.claim = c]]
    /\ UNCHANGED <<catalog, disk, relation, runtime, gate>>

\* Mutant: the push goes on without the gate.
LockNothing(w) ==
    /\ At(w, "queued") /\ Authorized(push[w].peer) /\ Set(w, "recover")
    /\ UNCHANGED <<catalog, disk, relation, runtime, gate>>

Lock(w) ==
    /\ At(w, "queued") /\ gate = None /\ Authorized(push[w].peer)
    /\ gate' = w /\ Set(w, "recover")
    /\ UNCHANGED <<catalog, disk, relation, runtime>>

Recover(w) ==
    /\ At(w, "recover") /\ RecoverPending(FALSE) /\ Set(w, "prepare")
    /\ UNCHANGED <<catalog, metadata, relation, runtime, gate>>

\* candidate_metadata: refreshes the metadata, then computes what the adoption
\* of this record will store.
Prepare(w) ==
    /\ At(w, "prepare") /\ Authorized(push[w].peer) /\ Acceptable(push[w].peer, push[w].claim)
    /\ ceilings' = Refreshed /\ known' = Learned(Refreshed)
    /\ push' = [push EXCEPT ![w].step = "apply",
                            ![w].ceilings = With(Refreshed, push[w].claim)]
    /\ UNCHANGED <<life, invitations, members, metadata, counters, pending, relation, runtime, gate>>

Apply(w) ==
    /\ At(w, "apply") /\ Authorized(push[w].peer) /\ Set(w, "adopt")
    /\ pending' = {[peer |-> push[w].peer, claim |-> push[w].claim]}
    /\ UNCHANGED <<catalog, metadata, ceilings, counters, relation, runtime, gate>>

\* The row and the metadata are one index transaction.
Adopt(w) ==
    /\ At(w, "adopt") /\ Authorized(push[w].peer)
    /\ counters' = With(counters, push[w].claim) /\ ceilings' = push[w].ceilings
    /\ pending' = {} /\ push' = [push EXCEPT ![w] = NoPush] /\ gate' = None
    /\ UNCHANGED <<catalog, metadata, relation, runtime>>

\* A refused check ends the push; an installed attempt stays for a recovery.
Refuse(w) ==
    /\ \/ At(w, "queued") /\ gate = None /\ ~Authorized(push[w].peer)
       \/ /\ At(w, "prepare")
          /\ ~Authorized(push[w].peer) \/ ~Acceptable(push[w].peer, push[w].claim)
       \/ (At(w, "apply") \/ At(w, "adopt")) /\ ~Authorized(push[w].peer)
    /\ push' = [push EXCEPT ![w] = NoPush] /\ gate' = IF gate = w THEN None ELSE gate
    /\ UNCHANGED <<catalog, disk, relation, runtime>>

Crash ==
    /\ runtime # "down" /\ runtime' = "down"
    /\ gate' = None /\ push' = [w \in Writer |-> NoPush]
    /\ UNCHANGED <<catalog, disk, relation>>

CatalogNext ==
    \/ CreateOwnedShare \/ LoadOwnedShare \/ MarkReady \/ Crash
    \/ \E k \in Permission : IssueKey(k) \/ RevokeKey(k)
    \/ \E p \in Peer : Enroll(p) \/ RevokeMember(p)
    \/ \E w \in Writer :
        \/ Lock(w) \/ Recover(w) \/ Prepare(w) \/ Apply(w) \/ Adopt(w) \/ Refuse(w)
        \/ \E p \in Peer, c \in Claim : Offer(w, p, c)

CatalogSpec == CatalogInit /\ [][CatalogNext]_catalogVars

-----------------------------------------------------------------------------
\* Every variable has its type.
CatalogTypeOK ==
    /\ life \in {"none", "intent", "ready"} /\ invitations \subseteq Permission
    /\ DOMAIN members \subseteq Peer
    /\ \A p \in DOMAIN members : members[p] \in Membership
    /\ known \subseteq Replica /\ metadata \in BOOLEAN
    /\ ceilings \in Counters /\ counters \in Counters
    /\ \A x \in pending : x.peer \in Peer /\ x.claim \in Claim
    /\ relation \in [Peer -> Replica \cup {None}]
    /\ runtime \in {"down", "opened", "published"} /\ gate \in Writer \cup {None}
    /\ push \in [Writer -> Push]

\* While the share is served its ceilings cover every counter a peer has had
\* indexed, whichever push computed them and whatever crashed
\* (candidate_metadata under the gate, one commit with the row, recovery).
CeilingsCover ==
    runtime = "published" => \A r \in Replica \ {Owner} : counters[r] <= ceilings[r]

\* A counter passes its ceiling only in the name of the member that holds the
\* replica, through a push or through the recovery of an attempt it left
\* (candidate_metadata_for).
CountersOwned ==
    [][\A r \in Replica \ {Owner, Resolver} :
        (runtime = "published" /\ counters'[r] > ceilings[r]) =>
            \E p \in DOMAIN members : members[p].replica = r /\
                ((gate # None /\ push[gate].peer = p) \/ \E x \in pending : x.peer = p)]_catalogVars

\* No two authors share a causal identity, and a device that enrolled, lost the
\* reply and enrolled again holds the identity the owner has for it
\* (Registry::enroll, store_relationship).
DistinctAuthors ==
    /\ \A p \in DOMAIN members :
        /\ members[p].replica \notin {Owner, Resolver}
        /\ \A q \in DOMAIN members \ {p} : members[p].replica # members[q].replica
    /\ \A p \in Peer : relation[p] # None =>
        p \in DOMAIN members /\ relation[p] = members[p].replica

\* A share that was interrupted anywhere can be loaded again: a complete one has
\* its metadata, and the attempt it left behind is one that recovery accepts
\* (load_config_with_lease, mark_ready, recover_pending).
Loadable ==
    /\ life = "ready" => metadata
    /\ \A x \in Recoverable : Acceptable(x.peer, x.claim)
=============================================================================
