-------------------------- MODULE OwnershipProofs --------------------------
(***************************************************************************)
(* Of who owns what: which process may use a root (RootAdmission, for any  *)
(* processes, paths and shares), and what the owner of a share keeps about *)
(* it (ShareCatalog, for any devices, handlers, replicas and bound on      *)
(* counters).                                                              *)
(***************************************************************************)
EXTENDS RootAdmission, ShareCatalog, TLAPS

-----------------------------------------------------------------------------
(* RootAdmission *)

Marking == {"mark", "fill", "confirm"}

\* The call is still going through the catalog, or finishing for another
\* process an entry it met there.
Scanning == step = "examine" \/ (step \in Marking /\ Recovering)

\* The request has its lease, and its root is not an entry yet.
Claimed == step \in {"reserve", "prepare"}

AdmissionTyped == TypeOK /\ entries \in [DOMAIN entries -> Entry]

\* One call at a time; the entry whose marker it writes is a managed one, and
\* is confirmed only with its marker written.
CallState ==
    /\ lock = Nobody => step = "idle"
    /\ step # "idle" /\ Public => ~OverlapsAny(req.root, req.private \cup private)
    /\ step # "idle" => todo \subseteq DOMAIN entries
    /\ Claimed => todo = {} /\ (Public => lease[req.root] = lock)
    /\ step \in Marking => hand \in DOMAIN entries /\ entries[hand].kind # Legacy
    /\ step = "confirm" => marker[hand] = {entries[hand].kind}

\* Whoever holds a lease is in the catalog, or about to be.
Entered == \A r \in Path : Live(r) => r \in DOMAIN entries \/ (Claimed /\ Public /\ r = req.root)

\* What will be removed has expired, unless the request took it over.
StaleExpired ==
    \A r \in stale \cap DOMAIN entries : (Scanning \/ Claimed) =>
        /\ entries[r].kind = Legacy
        /\ Live(r) => Claimed /\ Public /\ r = req.root

Compatible(r) ==
    /\ ~OverlapsAny(r, req.private)
    /\ (Public /\ Overlaps(req.root, r)) =>
          /\ req.root = r /\ req.kind = entries[r].kind /\ req.kind # Legacy
          /\ Scanning => ~Live(r)

\* What was examined and stays is compatible with the request.
Examined ==
    \A r \in DOMAIN entries \ (todo \cup stale) : (Scanning \/ Claimed) => Compatible(r)

\* Around a managed root nothing else is in use, its processes running or not.
ManagedAlone ==
    \A e \in DOMAIN entries, r \in Path :
        (entries[e].kind # Legacy /\ Live(r) /\ Overlaps(r, e)) => r = e

\* What was bound is still in the catalog and beside its root.
BoundKept ==
    \A b \in bound :
        b[1] \in DOMAIN entries /\ entries[b[1]].kind = b[2] /\ marker[b[1]] = {b[2]}

AdmissionInv ==
    /\ AdmissionTyped /\ CallState /\ Entered /\ StaleExpired /\ Examined
    /\ ManagedAlone /\ BoundKept /\ LeasesDisjoint /\ PrivateNeverPublic

\* Whether two roots overlap does not depend on their order.
LEMMA OverlapsSymmetric == \A p, q : Overlaps(p, q) <=> Overlaps(q, p)
BY DEF Overlaps

\* A root overlaps itself.
LEMMA OverlapsSelf == \A p \in Path : Overlaps(p, p)
<1> SUFFICES ASSUME NEW p \in Path PROVE Overlaps(p, p)
    OBVIOUS
<1>1. p \in Seq(Nat)
    BY AdmissionAssumption
<1>2. Len(p) \in Nat /\ SubSeq(p, 1, Len(p)) = p
    BY <1>1
<1> QED BY <1>2 DEF Overlaps

\* The initial state: nothing is known and nobody runs.
LEMMA AdmissionInit == Init => AdmissionInv
<1> SUFFICES ASSUME Init PROVE AdmissionInv
    OBVIOUS
<1>1. AdmissionTyped
    BY AdmissionAssumption DEF Init, AdmissionTyped, TypeOK, Entry, Request, NoRequest, RootUse, Steps
<1>2. CallState /\ Entered /\ StaleExpired /\ Examined /\ ManagedAlone /\ BoundKept
    BY DEF Init, CallState, Claimed, Marking, Entered, StaleExpired, Examined, ManagedAlone,
           BoundKept, Live
<1>3. LeasesDisjoint /\ PrivateNeverPublic
    BY DEF Init, LeasesDisjoint, PrivateNeverPublic, Live
<1> QED BY <1>1, <1>2, <1>3 DEF AdmissionInv

-----------------------------------------------------------------------------
(* Facts that several actions share. *)

Standing == ManagedAlone /\ BoundKept /\ LeasesDisjoint /\ PrivateNeverPublic
Under == CallState /\ Entered /\ StaleExpired /\ Examined

\* Leases that go away disturb nobody.
LEMMA FewerLeases ==
    ASSUME AdmissionInv, UNCHANGED <<durable, bound>>, \A r \in Path : Live(r)' => Live(r)
    PROVE  Standing'
<1>1. ManagedAlone'
    BY DEF AdmissionInv, AdmissionTyped, TypeOK, ManagedAlone, durable
<1>2. BoundKept'
    BY DEF AdmissionInv, BoundKept, durable
<1>3. LeasesDisjoint'
    BY DEF AdmissionInv, LeasesDisjoint
<1>4. PrivateNeverPublic'
    BY DEF AdmissionInv, PrivateNeverPublic, durable
<1> QED BY <1>1, <1>2, <1>3, <1>4 DEF Standing

\* When a call returns, only the catalog must know who holds a lease.
LEMMA Returned ==
    ASSUME Return, \A r \in Path : Live(r)' => r \in DOMAIN entries'
    PROVE  Under'
<1>1. step' = "idle" /\ ~Scanning' /\ ~Claimed'
    BY DEF Return, Scanning, Claimed, Marking
<1> QED BY <1>1 DEF Under, CallState, Entered, StaleExpired, Examined, Marking

\* The variables of a call that returned have their types.
LEMMA ReturnedType ==
    ASSUME Return
    PROVE  /\ lock' \in Process \cup {Nobody} /\ step' \in Steps /\ req' \in Request
           /\ todo' \subseteq Path /\ stale' \subseteq Path /\ hand' \in Path \cup {NoRoot}
BY DEF Return, Steps, Request, NoRequest, RootUse

\* While the catalog is examined every lease is in it.
LEMMA EnteredWhole ==
    ASSUME AdmissionInv, ~Claimed, NEW r \in Path, Live(r)
    PROVE  r \in DOMAIN entries
BY DEF AdmissionInv, Entered

\* A call that returns before its claim leaves everything as it was.
LEMMA GivesUp ==
    ASSUME AdmissionInv, ~Claimed, Return, UNCHANGED <<durable, lease, bound>>
    PROVE  AdmissionInv'
<1>1. Standing'
    BY FewerLeases DEF Live
<1>2. Under'
    BY Returned, EnteredWhole DEF Live, durable
<1>3. AdmissionTyped'
    BY ReturnedType DEF AdmissionInv, AdmissionTyped, TypeOK, durable
<1> QED BY <1>1, <1>2, <1>3 DEF AdmissionInv, Standing, Under

\* Examining one entry that is allowed, or that has expired.
LEMMA ExaminedOne ==
    ASSUME AdmissionInv, step = "examine", NEW r \in todo,
           UNCHANGED <<durable, lease, lock, step, req, hand, bound>>, todo' = todo \ {r},
           \/ stale' = stale /\ Compatible(r)
           \/ stale' = stale \cup {r} /\ Expired(r)
    PROVE  AdmissionInv'
<1>1. Standing'
    BY FewerLeases DEF Live
<1>2. AdmissionTyped'
    BY DEF AdmissionInv, AdmissionTyped, TypeOK, durable
<1>3. Scanning /\ Scanning' /\ ~Claimed /\ ~Claimed' /\ step' = "examine" /\ r \in Path
    BY DEF Scanning, Claimed, AdmissionInv, AdmissionTyped, TypeOK
<1>4. CallState' /\ Entered'
    BY <1>3 DEF AdmissionInv, CallState, Entered, Public, Live, durable, Claimed, Marking
<1>5. StaleExpired'
    BY <1>3 DEF AdmissionInv, StaleExpired, Expired, Live, durable
<1>6. Examined'
    BY <1>3 DEF AdmissionInv, Examined, Compatible, Public, Live, durable
<1> QED BY <1>1, <1>2, <1>4, <1>5, <1>6 DEF AdmissionInv, Standing

\* The steps between reading the catalog and confirming another's entry: only
\* the marker of the entry in hand changes.
LEMMA MarkerStep ==
    ASSUME AdmissionInv, step \in {"mark", "fill"},
           UNCHANGED <<entries, private, lease, bound>>,
           \/ step' = "fill" /\ marker[hand] = {} /\ marker' = [marker EXCEPT ![hand] = {Nobody}]
           \/ step' = "confirm" /\ marker' = [marker EXCEPT ![hand] = {entries[hand].kind}],
           UNCHANGED <<lock, req, hand, todo, stale>>
    PROVE  AdmissionInv'
<1>0. /\ AdmissionTyped /\ hand \in DOMAIN entries /\ hand \in Path /\ entries[hand].kind # Legacy
      /\ entries[hand] \in Entry /\ entries[hand].kind \in Share
      /\ marker \in [Path -> SUBSET (Share \cup {Nobody})]
    BY DEF AdmissionInv, CallState, Marking, AdmissionTyped, TypeOK, Entry, RootUse
<1>1. Scanning' = Scanning /\ ~Claimed /\ ~Claimed' /\ step' \in Marking
    BY DEF Scanning, Claimed, Marking, Recovering
<1>2. AdmissionTyped'
    BY <1>0, <1>1 DEF AdmissionTyped, TypeOK, Marking, Steps
<1>3. CallState'
    BY <1>0, <1>1 DEF AdmissionInv, CallState, Marking, Public
<1>4. Entered' /\ StaleExpired' /\ Examined'
    BY <1>1 DEF AdmissionInv, Entered, StaleExpired, Examined, Compatible, Live, Public
<1>5. ManagedAlone' /\ LeasesDisjoint' /\ PrivateNeverPublic'
    BY DEF AdmissionInv, ManagedAlone, LeasesDisjoint, PrivateNeverPublic, Live
<1>6. BoundKept'
    <2> SUFFICES ASSUME NEW b \in bound
                 PROVE  /\ b[1] \in DOMAIN entries /\ entries[b[1]].kind = b[2]
                        /\ marker'[b[1]] = {b[2]}
        BY DEF BoundKept
    <2>1. /\ b[1] \in DOMAIN entries /\ entries[b[1]].kind = b[2] /\ marker[b[1]] = {b[2]}
          /\ b[1] \in Path
        BY <1>0 DEF AdmissionInv, BoundKept, AdmissionTyped, TypeOK
    <2>2. CASE b[1] = hand
        BY <1>0, <2>1, <2>2
    <2>3. CASE b[1] # hand
        BY <1>0, <2>1, <2>3
    <2> QED BY <2>1, <2>2, <2>3
<1> QED BY <1>2, <1>3, <1>4, <1>5, <1>6 DEF AdmissionInv

-----------------------------------------------------------------------------
(* The actions that change the catalog or a lease. *)

\* Begin takes the lock of nobody and reads the whole catalog.
LEMMA BeginStep == ASSUME AdmissionInv, NEW p \in Process, Begin(p) PROVE AdmissionInv'
<1>0. step = "idle" /\ ~Claimed /\ step' = "examine" /\ ~Claimed' /\ Scanning'
    BY DEF Begin, AdmissionInv, CallState, Claimed, Scanning
<1>1. Standing'
    BY FewerLeases DEF Begin, Live
<1>2. AdmissionTyped'
    BY DEF Begin, AdmissionInv, AdmissionTyped, TypeOK, durable, Catalog, Steps
<1>3. CallState'
    BY <1>0, AdmissionAssumption DEF Begin, CallState, Public, durable, Marking, Catalog
<1>4. Entered'
    BY <1>0 DEF Begin, AdmissionInv, Entered, Live, durable
<1>5. StaleExpired' /\ Examined'
    BY DEF Begin, StaleExpired, Examined, Catalog, durable
<1> QED BY <1>1, <1>2, <1>3, <1>4, <1>5 DEF AdmissionInv, Standing

\* Confirming an entry changes only its intent, and adds the binding.
LEMMA ConfirmStep == ASSUME AdmissionInv, Confirm PROVE AdmissionInv'
<1>0. /\ AdmissionTyped /\ hand \in DOMAIN entries /\ hand \in Path /\ entries[hand].kind # Legacy
      /\ entries[hand] \in Entry /\ entries[hand].kind \in Share
      /\ marker[hand] = {entries[hand].kind} /\ step = "confirm"
      /\ entries \in [DOMAIN entries -> Entry]
    BY DEF AdmissionInv, CallState, Marking, AdmissionTyped, TypeOK, Entry, RootUse, Confirm
<1>1. /\ DOMAIN entries' = DOMAIN entries /\ entries' \in [DOMAIN entries -> Entry]
      /\ entries'[hand] = [entries[hand] EXCEPT !.preparing = FALSE]
      /\ \A r \in DOMAIN entries \ {hand} : entries'[r] = entries[r]
    BY <1>0 DEF Confirm, Entry
<1>2. /\ entries'[hand].kind = entries[hand].kind /\ ~entries'[hand].preparing
      /\ \A r \in DOMAIN entries : entries'[r].kind = entries[r].kind
    BY <1>0, <1>1 DEF Entry
<1>3. /\ private' = private /\ marker' = marker /\ lease' = lease
      /\ bound' = bound \cup {<<hand, entries[hand].kind>>}
    BY DEF Confirm
<1>4. ManagedAlone' /\ LeasesDisjoint' /\ PrivateNeverPublic'
    BY <1>1, <1>2, <1>3 DEF AdmissionInv, ManagedAlone, LeasesDisjoint, PrivateNeverPublic, Live
<1>5. BoundKept'
    <2> SUFFICES ASSUME NEW b \in bound'
                 PROVE  /\ b[1] \in DOMAIN entries' /\ entries'[b[1]].kind = b[2]
                        /\ marker'[b[1]] = {b[2]}
        BY DEF BoundKept
    <2>1. CASE b \in bound
        BY <1>1, <1>2, <1>3, <2>1 DEF AdmissionInv, BoundKept
    <2>2. CASE b = <<hand, entries[hand].kind>>
        BY <1>0, <1>1, <1>2, <1>3, <2>2
    <2> QED BY <1>3, <2>1, <2>2
<1>6. /\ DOMAIN entries' \subseteq Path /\ private' \subseteq Path
      /\ \A r \in DOMAIN entries' :
            entries'[r] \in Entry /\ (entries'[r].preparing => entries'[r].kind # Legacy)
      /\ marker' \in [Path -> SUBSET (Share \cup {Nobody})]
      /\ lease' \in [Path -> Process \cup {Nobody}] /\ bound' \subseteq Path \X Share
    BY <1>0, <1>1, <1>2, <1>3 DEF AdmissionTyped, TypeOK
<1>7. CASE Recovering /\ Goto("examine")
    <2>1. /\ step' = "examine" /\ UNCHANGED <<lock, req, hand, todo, stale>>
          /\ Scanning /\ Scanning' /\ ~Claimed /\ ~Claimed'
        BY <1>0, <1>7 DEF Goto, Scanning, Claimed, Marking
    <2>2. AdmissionTyped'
        BY <1>0, <1>1, <1>6, <2>1 DEF AdmissionTyped, TypeOK, Steps
    <2>3. CallState'
        BY <1>0, <1>1, <1>3, <2>1 DEF AdmissionInv, CallState, Public, Marking
    <2>4. Entered' /\ StaleExpired'
        BY <1>1, <1>2, <1>3, <2>1 DEF AdmissionInv, Entered, StaleExpired, Live
    <2>5. Examined'
        BY <1>1, <1>2, <1>3, <2>1 DEF AdmissionInv, Examined, Compatible, Public, Live
    <2> QED BY <1>4, <1>5, <2>2, <2>3, <2>4, <2>5 DEF AdmissionInv
<1>8. CASE ~Recovering /\ Return
    <2>1. ~Claimed
        BY <1>0 DEF Claimed
    <2>2. Under'
        BY <1>1, <1>3, <1>8, <2>1, Returned, EnteredWhole DEF Live
    <2>3. AdmissionTyped'
        BY <1>1, <1>6, <1>8, ReturnedType DEF AdmissionTyped, TypeOK
    <2> QED BY <1>4, <1>5, <2>2, <2>3 DEF AdmissionInv, Under
<1> QED BY <1>7, <1>8 DEF Confirm

\* The claim: nobody in the catalog overlaps the root, and nobody holds a lease
\* outside the catalog.
LEMMA ClaimStep == ASSUME AdmissionInv, ClaimRoot PROVE AdmissionInv'
<1>0. /\ step = "examine" /\ todo = {} /\ Scanning /\ ~Claimed
      /\ step' = "reserve" /\ Claimed' /\ ~Scanning'
      /\ UNCHANGED <<durable, bound, lock, req, hand, todo, stale>>
    BY DEF ClaimRoot, Goto, Scanning, Claimed, Marking
<1>1. AdmissionTyped /\ req \in Request /\ lock \in Process /\ lock # Nobody
      /\ lease \in [Path -> Process \cup {Nobody}]
    BY <1>0, AdmissionAssumption DEF AdmissionInv, AdmissionTyped, TypeOK, CallState
<1>2. CASE ~Public
    <2>1. lease' = lease
        BY <1>2 DEF ClaimRoot
    <2>2. Standing'
        BY <1>0, <2>1, FewerLeases DEF Live
    <2>3. AdmissionTyped'
        BY <1>0, <1>1, <2>1 DEF AdmissionTyped, TypeOK, durable, Steps
    <2>4. CallState' /\ Entered'
        BY <1>0, <1>2, <2>1 DEF AdmissionInv, CallState, Entered, Public, Live, durable, Marking
    <2>5. StaleExpired' /\ Examined'
        BY <1>0, <1>2, <2>1 DEF AdmissionInv, StaleExpired, Examined, Compatible, Public, Live, durable
    <2> QED BY <2>2, <2>3, <2>4, <2>5 DEF AdmissionInv, Standing
<1>3. CASE Public
    <2>1. /\ req.root \in Path /\ lease' = [lease EXCEPT ![req.root] = lock] /\ Claimable
        BY <1>1, <1>3 DEF ClaimRoot, Request, Public
    <2>2. \A r \in Path : lease'[r] = IF r = req.root THEN lock ELSE lease[r]
        BY <1>1, <2>1
    <2>3. \A r \in Path : Live(r)' <=> (r = req.root \/ Live(r))
        BY <1>1, <2>2 DEF Live
    <2>4. \A r \in Path : Live(r) => ~Overlaps(req.root, r)
        <3> SUFFICES ASSUME NEW r \in Path, Live(r) PROVE ~Overlaps(req.root, r)
            OBVIOUS
        <3>1. r \in DOMAIN entries /\ r \notin stale
            BY <1>0, EnteredWhole DEF AdmissionInv, StaleExpired
        <3> QED BY <1>0, <1>3, <3>1 DEF AdmissionInv, Examined, Compatible
    <2>5. LeasesDisjoint'
        BY <2>3, <2>4, OverlapsSymmetric DEF AdmissionInv, LeasesDisjoint
    <2>6. PrivateNeverPublic'
        BY <1>0, <1>3, <2>3 DEF AdmissionInv, CallState, PrivateNeverPublic, OverlapsAny, durable
    <2>7. ManagedAlone'
        <3> SUFFICES ASSUME NEW e \in DOMAIN entries, NEW r \in Path, entries[e].kind # Legacy,
                            Live(r)', Overlaps(r, e)
                     PROVE  r = e
            BY <1>0 DEF ManagedAlone, durable
        <3>1. CASE Live(r)
            BY <3>1 DEF AdmissionInv, ManagedAlone
        <3>2. CASE r = req.root
            <4>1. e \notin stale
                BY <1>0 DEF AdmissionInv, StaleExpired
            <4> QED BY <1>0, <1>3, <3>2, <4>1 DEF AdmissionInv, Examined, Compatible
        <3> QED BY <2>3, <3>1, <3>2
    <2>8. BoundKept'
        BY <1>0 DEF AdmissionInv, BoundKept, durable
    <2>9. AdmissionTyped'
        BY <1>0, <1>1, <2>1 DEF AdmissionTyped, TypeOK, durable, Steps
    <2>10. CallState'
        BY <1>0, <1>1, <1>3, <2>1, <2>2 DEF AdmissionInv, CallState, Public, durable, Marking
    <2>11. Entered'
        BY <1>0, <1>3, <2>1, <2>3 DEF AdmissionInv, Entered, Public, durable
    <2>12. StaleExpired'
        BY <1>0, <1>1, <1>3, <2>3 DEF AdmissionInv, StaleExpired, Public, durable, AdmissionTyped, TypeOK
    <2>13. Examined'
        BY <1>0 DEF AdmissionInv, Examined, Compatible, Public, durable
    <2> QED BY <2>5, <2>6, <2>7, <2>8, <2>9, <2>10, <2>11, <2>12, <2>13 DEF AdmissionInv
<1> QED BY <1>2, <1>3

\* The reservation: what it removes has expired, and what stays does not overlap
\* the paths it makes private.
LEMMA ReserveStep == ASSUME AdmissionInv, Reserve PROVE AdmissionInv'
<1>0. /\ step = "reserve" /\ step' = "prepare" /\ Claimed /\ Claimed' /\ ~Scanning /\ ~Scanning'
      /\ todo = {} /\ private' = private \cup req.private
      /\ UNCHANGED <<marker, lease, bound, lock, req, hand, todo, stale>>
    BY DEF Reserve, Goto, Scanning, Claimed, Marking, AdmissionInv, CallState
<1>1. AdmissionTyped /\ req \in Request /\ entries \in [DOMAIN entries -> Entry]
    BY DEF AdmissionInv, AdmissionTyped, TypeOK
<1>2. /\ DOMAIN entries' = DOMAIN entries \ stale
      /\ \A r \in DOMAIN entries \ stale : entries'[r] = entries[r]
      /\ entries' \in [DOMAIN entries' -> Entry]
    BY <1>1 DEF Reserve, Without
<1>3. AdmissionTyped'
    BY <1>0, <1>1, <1>2 DEF AdmissionTyped, TypeOK, Steps, Request
<1>4. CallState'
    BY <1>0 DEF AdmissionInv, CallState, Public, Claimed, Marking, OverlapsAny
<1>5. Entered'
    BY <1>0, <1>2 DEF AdmissionInv, Entered, StaleExpired, Live, Public
<1>6. StaleExpired'
    BY <1>0, <1>2 DEF StaleExpired
<1>7. Examined'
    BY <1>0, <1>2 DEF AdmissionInv, Examined, Compatible, Public, Live
<1>8. ManagedAlone' /\ LeasesDisjoint'
    BY <1>0, <1>2 DEF AdmissionInv, ManagedAlone, LeasesDisjoint, Live
<1>9. BoundKept'
    <2> SUFFICES ASSUME NEW b \in bound
                 PROVE  /\ b[1] \in DOMAIN entries' /\ entries'[b[1]].kind = b[2]
                        /\ marker'[b[1]] = {b[2]}
        BY <1>0 DEF BoundKept
    <2>1. /\ b[1] \in DOMAIN entries /\ entries[b[1]].kind = b[2] /\ marker[b[1]] = {b[2]}
          /\ b[2] # Legacy
        BY <1>1, AdmissionAssumption DEF AdmissionInv, BoundKept, AdmissionTyped, TypeOK
    <2>2. b[1] \notin stale
        BY <1>0, <2>1 DEF AdmissionInv, StaleExpired
    <2> QED BY <1>0, <1>2, <2>1, <2>2
<1>10. PrivateNeverPublic'
    <2> SUFFICES ASSUME NEW r \in Path, Live(r), NEW q \in private \cup req.private, Overlaps(r, q)
                 PROVE  FALSE
        BY <1>0 DEF PrivateNeverPublic, OverlapsAny, Live
    <2>1. CASE q \in private
        BY <2>1 DEF AdmissionInv, PrivateNeverPublic, OverlapsAny
    <2>2. CASE q \in req.private /\ Public /\ r = req.root
        BY <1>0, <2>2 DEF AdmissionInv, CallState, OverlapsAny
    <2>3. CASE q \in req.private /\ ~(Public /\ r = req.root)
        <3>1. r \in DOMAIN entries /\ r \notin stale
            BY <1>0, <2>3 DEF AdmissionInv, Entered, StaleExpired
        <3> QED BY <1>0, <2>3, <3>1 DEF AdmissionInv, Examined, Compatible, OverlapsAny
    <2> QED BY <2>1, <2>2, <2>3
<1> QED BY <1>3, <1>4, <1>5, <1>6, <1>7, <1>8, <1>9, <1>10 DEF AdmissionInv

\* The root is entered: over a binding only as that binding.
LEMMA PersistStep == ASSUME AdmissionInv, Persist PROVE AdmissionInv'
<1>0. /\ step = "prepare" /\ Public /\ Claimed /\ ~Scanning /\ todo = {}
      /\ UNCHANGED <<private, marker, lease, bound>>
    BY DEF Persist, Scanning, Claimed, Marking, AdmissionInv, CallState
<1>1. /\ AdmissionTyped /\ req.root \in Path /\ req.kind \in RootUse
      /\ entries \in [DOMAIN entries -> Entry]
    BY <1>0 DEF AdmissionInv, AdmissionTyped, TypeOK, Request, Public
<1>2. [kind |-> req.kind, preparing |-> req.kind # Legacy] \in Entry
    BY <1>1 DEF Entry
<1>3. /\ DOMAIN entries' = DOMAIN entries \cup {req.root}
      /\ entries'[req.root] = [kind |-> req.kind, preparing |-> req.kind # Legacy]
      /\ \A r \in DOMAIN entries \ {req.root} : entries'[r] = entries[r]
      /\ entries' \in [DOMAIN entries' -> Entry]
    BY <1>1, <1>2 DEF Persist, Put
<1>4. \A r \in Path : Live(r)' => r \in DOMAIN entries'
    BY <1>0, <1>3 DEF AdmissionInv, Entered, Live
<1>5. LeasesDisjoint' /\ PrivateNeverPublic'
    BY <1>0 DEF AdmissionInv, LeasesDisjoint, PrivateNeverPublic, Live
<1>6. ManagedAlone'
    <2> SUFFICES ASSUME NEW e \in DOMAIN entries', NEW r \in Path, entries'[e].kind # Legacy,
                        Live(r), Overlaps(r, e)
                 PROVE  r = e
        BY <1>0 DEF ManagedAlone, Live
    <2>1. CASE e = req.root
        <3>1. Live(e) \/ lock = Nobody
            BY <1>0, <1>1, <2>1 DEF AdmissionInv, CallState, Live
        <3>2. Live(e)
            BY <1>0, <3>1 DEF AdmissionInv, CallState
        <3> QED BY <1>1, <2>1, <3>2 DEF AdmissionInv, LeasesDisjoint
    <2>2. CASE e # req.root
        BY <1>3, <2>2 DEF AdmissionInv, ManagedAlone
    <2> QED BY <2>1, <2>2
<1>7. BoundKept'
    <2> SUFFICES ASSUME NEW b \in bound
                 PROVE  /\ b[1] \in DOMAIN entries' /\ entries'[b[1]].kind = b[2]
                        /\ marker'[b[1]] = {b[2]}
        BY <1>0 DEF BoundKept
    <2>1. /\ b[1] \in DOMAIN entries /\ entries[b[1]].kind = b[2] /\ marker[b[1]] = {b[2]}
          /\ b[2] # Legacy
        BY <1>1, AdmissionAssumption DEF AdmissionInv, BoundKept, AdmissionTyped, TypeOK
    <2>2. CASE b[1] = req.root
        <3>1. b[1] \notin stale
            BY <1>0, <2>1 DEF AdmissionInv, StaleExpired
        <3>2. Overlaps(req.root, b[1])
            BY <1>1, <2>2, OverlapsSelf
        <3>3. req.kind = b[2]
            BY <1>0, <2>1, <3>1, <3>2 DEF AdmissionInv, Examined, Compatible
        <3> QED BY <1>0, <1>3, <2>1, <2>2, <3>3
    <2>3. CASE b[1] # req.root
        BY <1>0, <1>3, <2>1, <2>3
    <2> QED BY <2>2, <2>3
<1>8. /\ DOMAIN entries' \subseteq Path /\ private' \subseteq Path
      /\ \A r \in DOMAIN entries' :
            entries'[r] \in Entry /\ (entries'[r].preparing => entries'[r].kind # Legacy)
      /\ marker' \in [Path -> SUBSET (Share \cup {Nobody})]
      /\ lease' \in [Path -> Process \cup {Nobody}] /\ bound' \subseteq Path \X Share
    <2> SUFFICES ASSUME NEW r \in DOMAIN entries'
                 PROVE  entries'[r] \in Entry /\ (entries'[r].preparing => entries'[r].kind # Legacy)
        BY <1>0, <1>1, <1>3 DEF AdmissionTyped, TypeOK
    <2>1. CASE r = req.root
        <3>1. entries'[r] = [kind |-> req.kind, preparing |-> req.kind # Legacy]
            BY <1>3, <2>1
        <3>2. entries'[r].kind = req.kind /\ entries'[r].preparing = (req.kind # Legacy)
            BY <3>1
        <3> QED BY <1>2, <3>1, <3>2, Zenon
    <2>2. CASE r # req.root
        BY <1>1, <1>3, <2>2 DEF AdmissionTyped, TypeOK
    <2> QED BY <2>1, <2>2
<1>9. CASE Return
    <2>1. Under'
        BY <1>4, <1>9, Returned
    <2>2. AdmissionTyped'
        BY <1>3, <1>8, <1>9, ReturnedType DEF AdmissionTyped, TypeOK
    <2> QED BY <1>5, <1>6, <1>7, <2>1, <2>2 DEF AdmissionInv, Under
<1>10. CASE ~Return
    <2>1. /\ req.kind # Legacy /\ step' = "mark" /\ hand' = req.root
          /\ UNCHANGED <<lock, req, todo, stale>>
        BY <1>10 DEF Persist
    <2>2. ~Claimed' /\ ~Scanning' /\ step' \in Marking
        BY <1>0, <2>1 DEF Claimed, Scanning, Marking, Recovering
    <2>3. AdmissionTyped'
        BY <1>1, <1>3, <1>8, <2>1 DEF AdmissionTyped, TypeOK, Steps
    <2>4. CallState'
        BY <1>0, <1>3, <2>1, <2>2 DEF AdmissionInv, CallState, Public
    <2>5. Entered' /\ StaleExpired' /\ Examined'
        BY <1>4, <2>2 DEF Entered, StaleExpired, Examined
    <2> QED BY <1>5, <1>6, <1>7, <2>3, <2>4, <2>5 DEF AdmissionInv
<1> QED BY <1>9, <1>10

\* A call that ends after its claim gives the lease back.
LEMMA GivesBack ==
    ASSUME AdmissionInv, Return, UNCHANGED <<durable, bound>>,
           lease' \in [Path -> Process \cup {Nobody}],
           \A r \in Path : Live(r)' => lease'[r] = lease[r] /\ ~(Claimed /\ Public /\ r = req.root)
    PROVE  AdmissionInv'
<1>1. \A r \in Path : Live(r)' => Live(r)
    BY DEF Live
<1>2. Standing'
    BY <1>1, FewerLeases
<1>3. Under'
    BY <1>1, Returned DEF AdmissionInv, Entered, durable
<1>4. AdmissionTyped'
    BY ReturnedType DEF AdmissionInv, AdmissionTyped, TypeOK, durable
<1> QED BY <1>2, <1>3, <1>4 DEF AdmissionInv, Standing, Under

\* Leases end while another call, if any, is under way.
LEMMA LeaseEnds ==
    ASSUME AdmissionInv, UNCHANGED <<durable, call, bound>>,
           lease' \in [Path -> Process \cup {Nobody}],
           \A r \in Path : lease'[r] # lease[r] =>
               lease'[r] = Nobody /\ ~(Claimed /\ Public /\ r = req.root)
    PROVE  AdmissionInv'
<1>0. Claimed' = Claimed /\ Scanning' = Scanning /\ Public' = Public
      /\ UNCHANGED <<entries, private, marker, lock, step, req, hand, todo, stale>>
    BY DEF Claimed, Scanning, Recovering, Public, call, durable
<1>1. \A r \in Path : Live(r)' => Live(r)
    BY DEF Live
<1>2. Standing'
    BY <1>1, FewerLeases
<1>3. AdmissionTyped'
    BY <1>0 DEF AdmissionInv, AdmissionTyped, TypeOK, durable
<1>4. CallState'
    <2>1. Claimed /\ Public => req.root \in Path
        BY DEF AdmissionInv, AdmissionTyped, TypeOK, Request, Public
    <2> QED BY <1>0, <2>1 DEF AdmissionInv, CallState
<1>5. Entered'
    BY <1>0, <1>1 DEF AdmissionInv, Entered
<1>6. StaleExpired'
    BY <1>0, <1>1 DEF AdmissionInv, StaleExpired, AdmissionTyped, TypeOK
<1>7. Examined'
    BY <1>0, <1>1 DEF AdmissionInv, Examined, Compatible, AdmissionTyped, TypeOK
<1> QED BY <1>2, <1>3, <1>4, <1>5, <1>6, <1>7 DEF AdmissionInv, Standing

\* Every step keeps the invariant.
LEMMA AdmissionStep == AdmissionInv /\ [Next]_vars => AdmissionInv'
<1> SUFFICES ASSUME AdmissionInv, [Next]_vars PROVE AdmissionInv'
    OBVIOUS
<1>0. AdmissionTyped /\ lease \in [Path -> Process \cup {Nobody}] /\ req \in Request
    BY DEF AdmissionInv, AdmissionTyped, TypeOK
<1>1. CASE \E p \in Process : Begin(p)
    BY <1>1, BeginStep
<1>2. CASE \E r \in Path : Skip(r)
    BY <1>2, ExaminedOne DEF Skip
<1>3. CASE \E r \in Path : Pass(r)
    <2>1. PICK r \in Path : Pass(r)
        BY <1>3
    <2>2. Compatible(r)
        BY <2>1 DEF Pass, Allows, Compatible
    <2> QED BY <2>1, <2>2, ExaminedOne DEF Pass
<1>4. CASE \E r \in Path : Deny(r)
    BY <1>4, GivesUp DEF Deny, Claimed
<1>5. CASE \E r \in Path : RecoverEntry(r)
    <2>1. PICK r \in Path : RecoverEntry(r)
        BY <1>5
    <2>2. /\ step = "examine" /\ r \in todo /\ hand' = r /\ step' = "mark"
          /\ UNCHANGED <<durable, lease, lock, req, todo, stale, bound>>
          /\ entries[r].kind # Legacy
        BY <2>1 DEF RecoverEntry, Settled
    <2>3. Scanning /\ Scanning' /\ ~Claimed /\ ~Claimed'
        BY <2>2 DEF Scanning, Recovering, Claimed, Marking
    <2>4. Standing'
        BY <2>2, FewerLeases DEF Live
    <2>5. AdmissionTyped'
        BY <1>0, <2>2 DEF AdmissionTyped, TypeOK, durable, Steps
    <2>6. r \in DOMAIN entries
        BY <2>2 DEF AdmissionInv, CallState
    <2>7. CallState'
        BY <2>2, <2>3, <2>6 DEF AdmissionInv, CallState, Public, durable, Marking
    <2>8. Entered' /\ StaleExpired' /\ Examined'
        BY <2>2, <2>3
        DEF AdmissionInv, Entered, StaleExpired, Examined, Compatible, Live, Public, durable
    <2> QED BY <2>4, <2>5, <2>7, <2>8 DEF AdmissionInv, Standing
<1>6. CASE CreateMarker \/ FillMarker
    BY <1>6, MarkerStep DEF CreateMarker, FillMarker, Goto
<1>7. CASE KeepMarker
    <2>1. /\ marker[hand] = {entries[hand].kind} /\ step = "mark" /\ step' = "confirm"
          /\ UNCHANGED <<entries, private, marker, lease, bound, lock, req, hand, todo, stale>>
        BY <1>7 DEF KeepMarker, Goto, durable
    <2>2. marker' = [marker EXCEPT ![hand] = {entries[hand].kind}]
        BY <1>0, <2>1 DEF AdmissionTyped, TypeOK
    <2> QED BY <2>1, <2>2, MarkerStep
<1>8. CASE RefuseMarker
    BY <1>0, <1>8, GivesBack DEF RefuseMarker, Live, Claimed, Marking
<1>9. CASE Confirm
    BY <1>9, ConfirmStep
<1>10. CASE ClaimRoot
    BY <1>10, ClaimStep
<1>11. CASE ClaimRefused
    BY <1>11, GivesUp DEF ClaimRefused, Claimed
<1>12. CASE Reserve
    BY <1>12, ReserveStep
<1>13. CASE PrepareFails
    BY <1>0, <1>13, GivesBack DEF PrepareFails, Live
<1>14. CASE Persist
    BY <1>14, PersistStep
<1>15. CASE Reserved
    BY <1>0, <1>15, GivesBack DEF Reserved, Live
<1>16. CASE \E r \in Path : Release(r)
    <2>1. PICK r \in Path : Release(r)
        BY <1>16
    <2>2. lease' = [lease EXCEPT ![r] = Nobody] /\ ~(lock = lease[r] /\ req.root = r)
        BY <2>1 DEF Release
    <2>3. ~(Claimed /\ Public /\ r = req.root)
        BY <2>2 DEF AdmissionInv, CallState
    <2> QED BY <1>0, <2>1, <2>2, <2>3, LeaseEnds DEF Release
<1>17. CASE \E p \in Process : Die(p)
    <2>1. PICK p \in Process : Die(p)
        BY <1>17
    <2>2. /\ lease' = [r \in Path |-> IF lease[r] = p THEN Nobody ELSE lease[r]]
          /\ lease' \in [Path -> Process \cup {Nobody}] /\ UNCHANGED <<durable, bound>>
        BY <1>0, <2>1 DEF Die
    <2>3. Claimed /\ Public => lease[req.root] = lock /\ req.root \in Path
        BY <1>0 DEF AdmissionInv, CallState, Request, Public
    <2>4. CASE lock = p
        <3>1. Return
            BY <2>1, <2>4 DEF Die
        <3> QED BY <2>2, <2>3, <2>4, <3>1, GivesBack DEF Live
    <2>5. CASE lock # p
        <3>1. UNCHANGED call
            BY <2>1, <2>5 DEF Die
        <3> QED BY <2>2, <2>3, <2>5, <3>1, LeaseEnds
    <2> QED BY <2>4, <2>5
<1>18. CASE RemoveRegistry
    <2>1. /\ step = "idle" /\ UNCHANGED <<marker, lease, call>> /\ bound' = {} /\ private' = {}
          /\ \A r \in Path : ~Live(r) /\ ~Live(r)'
        BY <1>18 DEF RemoveRegistry, AdmissionInv, CallState, Live
    <2>2. DOMAIN entries' = {} /\ entries' \in [DOMAIN entries' -> Entry]
        BY <1>0, <1>18 DEF RemoveRegistry, Without, AdmissionTyped, TypeOK
    <2>3. ~Claimed' /\ ~Scanning'
        BY <2>1 DEF Claimed, Scanning, Marking, call
    <2>4. AdmissionTyped'
        BY <1>0, <2>1, <2>2 DEF AdmissionTyped, TypeOK, call
    <2>5. CallState' /\ Entered' /\ StaleExpired' /\ Examined'
        BY <2>1, <2>2, <2>3 DEF CallState, Entered, StaleExpired, Examined, Marking, call
    <2>6. ManagedAlone' /\ BoundKept' /\ LeasesDisjoint' /\ PrivateNeverPublic'
        BY <2>1, <2>2 DEF ManagedAlone, BoundKept, LeasesDisjoint, PrivateNeverPublic
    <2> QED BY <2>4, <2>5, <2>6 DEF AdmissionInv
<1>19. CASE UNCHANGED vars
    BY <1>0, <1>19, LeaseEnds DEF vars
<1> QED
    BY <1>1, <1>2, <1>3, <1>4, <1>5, <1>6, <1>7, <1>8, <1>9, <1>10, <1>11, <1>12, <1>13,
       <1>14, <1>15, <1>16, <1>17, <1>18, <1>19 DEF Next

\* The invariant holds throughout.
LEMMA AdmissionAlways == Spec => []AdmissionInv
BY AdmissionInit, AdmissionStep, PTL DEF Spec

\* LeasesApart: no two processes are ever admitted to overlapping roots, however
\* many processes admit, release and die.
THEOREM LeasesApart == Spec => []LeasesDisjoint
BY AdmissionAlways, PTL DEF AdmissionInv

\* PrivateApart: a root in use never overlaps a private path that any call
\* reserved, also one that failed afterwards.
THEOREM PrivateApart == Spec => []PrivateNeverPublic
BY AdmissionAlways, PTL DEF AdmissionInv

\* BindingsLast: a confirmed managed binding keeps its entry, its marker and its
\* surroundings.
THEOREM BindingsLast == Spec => []BindingSurvives
<1>1. AdmissionInv => BindingSurvives
    <2> SUFFICES ASSUME AdmissionInv, NEW b \in bound
                 PROVE  /\ b[1] \in DOMAIN entries /\ entries[b[1]].kind = b[2]
                        /\ marker[b[1]] = {b[2]}
                        /\ \A r \in Path : Live(r) /\ Overlaps(r, b[1]) => r = b[1]
        BY DEF BindingSurvives
    <2>1. /\ b[1] \in DOMAIN entries /\ entries[b[1]].kind = b[2] /\ marker[b[1]] = {b[2]}
          /\ b[2] # Legacy
        BY AdmissionAssumption DEF AdmissionInv, BoundKept, AdmissionTyped, TypeOK
    <2> QED BY <2>1 DEF AdmissionInv, ManagedAlone
<1> QED BY <1>1, AdmissionAlways, PTL

-----------------------------------------------------------------------------
(* ShareCatalog *)

Gated == {"recover", "prepare", "apply", "adopt"}

Typed ==
    /\ CatalogTypeOK
    /\ members \in [DOMAIN members -> Membership]
    /\ pending \subseteq [peer: Peer, claim: Claim]

\* A runtime that is up was created, has its metadata and the two identities of
\* every share.
Up == runtime # "down" => life # "none" /\ metadata /\ {Owner, Resolver} \subseteq known

\* The replicas of members are known, which is why a random one is nobody's.
MembersKnown == \A p \in DOMAIN members : members[p].replica \in known

\* A push past its lock holds the gate; a served peer is a member and claims a
\* counter; a runtime that is down serves nobody.
PushState ==
    \A w \in Writer :
        /\ push[w].step \in Gated => gate = w
        /\ push[w].step # "idle" =>
              /\ runtime = "published" /\ push[w].peer \in DOMAIN members
              /\ push[w].claim \in Claim

\* What was prepared is still acceptable, and covers what is indexed.
PreparedHolds ==
    \A w \in Writer : push[w].step \in {"apply", "adopt"} =>
        /\ Acceptable(push[w].peer, push[w].claim)
        /\ push[w].claim.counter <= push[w].ceilings[push[w].claim.replica]
        /\ \A r \in Replica \ {Owner} : counters[r] <= push[w].ceilings[r]

\* An installed attempt is of a member, and acceptable when it is to be recovered.
PendingHolds ==
    \A x \in pending : x.peer \in DOMAIN members /\ Acceptable(x.peer, x.claim)

\* A complete share has its metadata, and one not created yet has nothing.
LifeState ==
    /\ life = "ready" => metadata
    /\ life = "none" => pending = {} /\ DOMAIN members = {}

\* CeilingsCover, from the moment the runtime is opened.
Covered == runtime # "down" => \A r \in Replica \ {Owner} : counters[r] <= ceilings[r]

CatalogInv ==
    /\ Typed /\ Up /\ MembersKnown /\ PushState /\ PreparedHolds /\ PendingHolds
    /\ LifeState /\ Covered /\ DistinctAuthors

-----------------------------------------------------------------------------
(* Counters *)

\* Joining keeps the bound, covers both sides and invents nothing.
LEMMA JoinFacts ==
    ASSUME NEW f \in Counters, NEW g \in Counters
    PROVE  /\ Join(f, g) \in Counters
           /\ \A r \in Replica : /\ Join(f, g)[r] >= f[r] /\ Join(f, g)[r] >= g[r]
                                 /\ Join(f, g)[r] = f[r] \/ Join(f, g)[r] = g[r]
BY CatalogAssumption DEF Counters, Join, Max2

\* Taking a claim in raises the counter of its replica only.
LEMMA WithFacts ==
    ASSUME NEW f \in Counters, NEW c \in Claim
    PROVE  /\ With(f, c) \in Counters
           /\ \A r \in Replica : With(f, c)[r] >= f[r]
           /\ \A r \in Replica : r # c.replica => With(f, c)[r] = f[r]
           /\ With(f, c)[c.replica] >= c.counter
           /\ With(f, c)[c.replica] = c.counter \/ With(f, c)[c.replica] = f[c.replica]
<1>1. c.replica \in Replica /\ c.counter \in 1..MaxCounter
    BY DEF Claim
<1> QED BY <1>1, CatalogAssumption DEF Counters, With, Max2

\* A claim keeps one set of counters below another.
LEMMA WithMonotone ==
    ASSUME NEW f \in Counters, NEW g \in Counters, NEW c \in Claim, NEW r \in Replica, f[r] <= g[r]
    PROVE  With(f, c)[r] <= With(g, c)[r]
<1>1. c.replica \in Replica /\ c.counter \in 1..MaxCounter
    BY DEF Claim
<1> QED BY <1>1, CatalogAssumption DEF Counters, With, Max2

\* A scan raises only the owner's counter.
LEMMA ScannedFacts ==
    ASSUME NEW f \in Counters, NEW g \in Scanned(f)
    PROVE  /\ g \in Counters
           /\ \A r \in Replica : g[r] >= f[r] /\ (r # Owner => g[r] = f[r])
BY CatalogAssumption DEF Counters, Scanned

\* What was acceptable stays so while the owner only learns.
LEMMA AcceptableGrows ==
    ASSUME NEW p, NEW c \in Claim, Acceptable(p, c), known \subseteq known',
           members'[p].replica = members[p].replica,
           ceilings \in Counters, counters \in Counters,
           ceilings' \in Counters, counters' \in Counters,
           \A r \in Replica : Join(ceilings, counters)[r] <= Join(ceilings', counters')[r]
    PROVE  Acceptable(p, c)'
<1>1. c.replica \in Replica /\ c.counter \in Nat
    BY CatalogAssumption DEF Claim
<1>2. /\ Join(ceilings, counters)[c.replica] \in Nat
      /\ Join(ceilings', counters')[c.replica] \in Nat
      /\ Join(ceilings, counters)[c.replica] <= Join(ceilings', counters')[c.replica]
    BY <1>1, JoinFacts, CatalogAssumption DEF Counters
<1>3. Acceptable(p, c)' <=>
          /\ c.replica \in known'
          /\ \/ c.replica = members'[p].replica
             \/ c.replica = Resolver /\ c.counter <= Join(ceilings', counters')[c.replica] + 1
             \/ c.counter <= Join(ceilings', counters')[c.replica]
    BY DEF Acceptable, Join
<1> QED BY <1>1, <1>2, <1>3 DEF Acceptable

\* Growing both parts grows their join.
LEMMA JoinMonotone ==
    ASSUME NEW f \in Counters, NEW g \in Counters, NEW f1 \in Counters, NEW g1 \in Counters,
           \A r \in Replica : f[r] <= f1[r] /\ g[r] <= g1[r]
    PROVE  \A r \in Replica : Join(f, g)[r] <= Join(f1, g1)[r]
BY CatalogAssumption DEF Counters, Join, Max2

\* An outcome of recovery: counters and ceilings before the scan.
OutcomeFacts(o) ==
    /\ o[1] \in Counters /\ o[2] \in Counters
    /\ \A r \in Replica : counters[r] <= o[1][r] /\ ceilings[r] <= o[2][r]
    /\ \A r \in Replica : counters[r] <= ceilings[r] => o[1][r] <= o[2][r]
    /\ \A r \in Replica \ {Resolver} :
          (counters[r] <= ceilings[r] /\ o[1][r] > ceilings[r]) =>
              \E x \in pending : x.peer \in DOMAIN members /\ members[x.peer].replica = r

\* recover_pending forgets nothing, covers what it adopts, and raises a counter
\* past its ceiling only for the member that left the attempt.
LEMMA RecoveryFacts ==
    ASSUME Typed, PendingHolds, NEW b \in BOOLEAN, RecoverPending(b)
    PROVE  /\ counters' \in Counters /\ ceilings' \in Counters /\ pending' = {}
           /\ \A r \in Replica : counters[r] <= counters'[r] /\ ceilings[r] <= ceilings'[r]
           /\ b => \A r \in Replica : counters'[r] <= ceilings'[r]
           /\ \A r \in Replica \ {Owner} : counters[r] <= ceilings[r] => counters'[r] <= ceilings'[r]
           /\ \A r \in Replica \ {Owner, Resolver} :
                 (counters[r] <= ceilings[r] /\ counters'[r] > ceilings[r]) =>
                     \E x \in pending : x.peer \in DOMAIN members /\ members[x.peer].replica = r
<1>0. /\ ceilings \in Counters /\ counters \in Counters /\ Refreshed \in Counters
      /\ \A r \in Replica : /\ Refreshed[r] >= ceilings[r] /\ Refreshed[r] >= counters[r]
                            /\ Refreshed[r] = ceilings[r] \/ Refreshed[r] = counters[r]
      /\ \A r \in Replica : ceilings[r] \in Nat /\ counters[r] \in Nat /\ Refreshed[r] \in Nat
    BY JoinFacts, CatalogAssumption DEF Typed, CatalogTypeOK, Refreshed, Counters
<1>1. PICK o \in Outcomes : /\ counters' \in Scanned(o[1])
                            /\ ceilings' = IF b THEN Join(o[2], counters') ELSE o[2]
    BY DEF RecoverPending
<1>2. OutcomeFacts(o)
    <2>1. CASE o = <<counters, ceilings>>
        BY <1>0, <2>1 DEF OutcomeFacts
    <2>2. ASSUME NEW x \in pending, o = <<With(counters, x.claim), With(Refreshed, x.claim)>>
          PROVE  OutcomeFacts(o)
        <3>0. x.claim \in Claim /\ x.claim.replica \in Replica /\ x.claim.counter \in Nat
            BY CatalogAssumption DEF Typed, Claim
        <3>1. o[1] = With(counters, x.claim) /\ o[2] = With(Refreshed, x.claim)
            BY <2>2
        <3>2. /\ o[1] \in Counters /\ o[2] \in Counters
              /\ \A r \in Replica : /\ counters[r] <= o[1][r] /\ Refreshed[r] <= o[2][r]
                                    /\ o[1][r] \in Nat /\ o[2][r] \in Nat
            BY <1>0, <3>0, <3>1, WithFacts, CatalogAssumption DEF Counters
        <3>3. \A r \in Replica : ceilings[r] <= o[2][r]
            BY <1>0, <3>2
        <3>4. \A r \in Replica : o[1][r] <= o[2][r]
            BY <1>0, <3>0, <3>1, WithMonotone
        <3>5. ASSUME NEW r \in Replica \ {Resolver}, counters[r] <= ceilings[r], o[1][r] > ceilings[r]
              PROVE  x.peer \in DOMAIN members /\ members[x.peer].replica = r
            <4>1. r = x.claim.replica /\ o[1][r] = x.claim.counter
                BY <1>0, <3>0, <3>1, <3>5, WithFacts
            <4>2. Acceptable(x.peer, x.claim) /\ x.peer \in DOMAIN members
                BY DEF PendingHolds
            <4>3. ~(x.claim.counter <= Refreshed[r])
                BY <1>0, <3>0, <3>5, <4>1
            <4> QED BY <3>5, <4>1, <4>2, <4>3 DEF Acceptable, Refreshed
        <3> QED BY <3>2, <3>3, <3>4, <3>5 DEF OutcomeFacts
    <2> QED BY <1>1, <2>1, <2>2 DEF Outcomes, Recoverable
<1>3. /\ counters' \in Counters
      /\ \A r \in Replica : counters'[r] >= o[1][r] /\ (r # Owner => counters'[r] = o[1][r])
    BY <1>1, <1>2, ScannedFacts DEF OutcomeFacts
<1>4. /\ ceilings' \in Counters
      /\ \A r \in Replica : ceilings'[r] >= o[2][r] /\ (b => ceilings'[r] >= counters'[r])
    <2>1. CASE b
        BY <1>1, <1>2, <1>3, <2>1, JoinFacts DEF OutcomeFacts
    <2>2. CASE ~b
        BY <1>1, <1>2, <2>2, CatalogAssumption DEF Counters, OutcomeFacts
    <2> QED BY <2>1, <2>2
<1>5. \A r \in Replica : /\ counters'[r] \in Nat /\ ceilings'[r] \in Nat
                         /\ o[1][r] \in Nat /\ o[2][r] \in Nat
    BY <1>2, <1>3, <1>4, CatalogAssumption DEF Counters, OutcomeFacts
<1>6. \A r \in Replica : counters[r] <= counters'[r] /\ ceilings[r] <= ceilings'[r]
    BY <1>0, <1>2, <1>3, <1>4, <1>5 DEF OutcomeFacts
<1>7. \A r \in Replica \ {Owner} : counters[r] <= ceilings[r] => counters'[r] <= ceilings'[r]
    BY <1>2, <1>3, <1>4, <1>5 DEF OutcomeFacts
<1>8. \A r \in Replica \ {Owner, Resolver} :
          (counters[r] <= ceilings[r] /\ counters'[r] > ceilings[r]) =>
              \E x \in pending : x.peer \in DOMAIN members /\ members[x.peer].replica = r
    BY <1>2, <1>3 DEF OutcomeFacts
<1>9. b => \A r \in Replica : counters'[r] <= ceilings'[r]
    BY <1>4, <1>5
<1> QED BY <1>3, <1>4, <1>6, <1>7, <1>8, <1>9 DEF RecoverPending

-----------------------------------------------------------------------------
(* The invariant *)

\* The parts that speak of the catalog, of the pushes and of the attempts.
Catalogued == Up /\ MembersKnown /\ LifeState /\ DistinctAuthors
Serving == PushState /\ PreparedHolds

\* Initially there is no share.
LEMMA CatalogStarts == CatalogInit => CatalogInv
<1> SUFFICES ASSUME CatalogInit PROVE CatalogInv
    OBVIOUS
<1>1. Zero \in Counters /\ NoPush \in Push
    BY CatalogAssumption DEF Zero, Counters, NoPush, Push, NoClaim
<1>2. Typed
    BY <1>1 DEF CatalogInit, Typed, CatalogTypeOK, Membership
<1>3. Up /\ MembersKnown /\ LifeState /\ Covered /\ PendingHolds
    BY DEF CatalogInit, Up, MembersKnown, LifeState, Covered, PendingHolds
<1>4. PushState /\ PreparedHolds
    BY DEF CatalogInit, PushState, PreparedHolds, NoPush, Gated
<1>5. DistinctAuthors
    BY DEF CatalogInit, DistinctAuthors
<1> QED BY <1>2, <1>3, <1>4, <1>5 DEF CatalogInv

\* A runtime that is not published serves no push.
LEMMA NobodyServed ==
    ASSUME CatalogInv, runtime # "published", push' = push
    PROVE  Serving'
BY DEF CatalogInv, PushState, PreparedHolds, Serving, Gated

\* What the catalog and the counters were, if they only grow, stays acceptable.
LEMMA StaysAcceptable ==
    ASSUME CatalogInv, NEW p \in DOMAIN members, NEW c \in Claim, Acceptable(p, c),
           known \subseteq known', members'[p].replica = members[p].replica,
           ceilings' \in Counters, counters' \in Counters,
           \A r \in Replica : ceilings[r] <= ceilings'[r] /\ counters[r] <= counters'[r]
    PROVE  Acceptable(p, c)'
<1>1. ceilings \in Counters /\ counters \in Counters
    BY DEF CatalogInv, Typed, CatalogTypeOK
<1>2. \A r \in Replica : Join(ceilings, counters)[r] <= Join(ceilings', counters')[r]
    BY <1>1, JoinMonotone
<1> QED BY <1>1, <1>2, AcceptableGrows

\* The same, when the counters do not change.
LEMMA AcceptableUnchanged ==
    ASSUME CatalogInv, NEW p \in DOMAIN members, NEW c \in Claim, Acceptable(p, c),
           known \subseteq known', members'[p].replica = members[p].replica,
           ceilings' = ceilings, counters' = counters
    PROVE  Acceptable(p, c)'
<1>1. /\ ceilings \in Counters /\ counters \in Counters
      /\ \A r \in Replica : ceilings[r] \in Nat /\ counters[r] \in Nat
    BY CatalogAssumption DEF CatalogInv, Typed, CatalogTypeOK, Counters
<1> QED BY <1>1, StaysAcceptable

\* Nothing but keys, devices or the life of the share changes.
LEMMA OwnerStep ==
    ASSUME CatalogInv, UNCHANGED <<members, known, disk, relation, gate, push>>,
           invitations' \subseteq Permission,
           \/ UNCHANGED <<life, runtime>>
           \/ runtime = "opened" /\ life' = "ready" /\ runtime' = "published"
    PROVE  CatalogInv'
<1>0. UNCHANGED <<metadata, ceilings, counters, pending>>
    BY DEF disk
<1>1. Typed'
    BY <1>0 DEF CatalogInv, Typed, CatalogTypeOK
<1>2. Up' /\ MembersKnown' /\ LifeState' /\ Covered'
    BY <1>0 DEF CatalogInv, Up, MembersKnown, LifeState, Covered
<1>3. DistinctAuthors'
    BY DEF CatalogInv, DistinctAuthors
<1>4. PendingHolds'
    BY <1>0 DEF CatalogInv, PendingHolds, Acceptable, Join
<1>5. PushState' /\ PreparedHolds'
    BY <1>0 DEF CatalogInv, PushState, PreparedHolds, Acceptable, Join
<1> QED BY <1>1, <1>2, <1>3, <1>4, <1>5 DEF CatalogInv

\* Creation: nothing was there before.
LEMMA CreateStep == ASSUME CatalogInv, CreateOwnedShare PROVE CatalogInv'
<1>0. /\ runtime = "down" /\ pending = {} /\ DOMAIN members = {} /\ life' = "intent"
      /\ UNCHANGED <<invitations, members, metadata, ceilings, pending, relation, runtime, gate, push>>
    BY DEF CreateOwnedShare, CatalogInv, Up, LifeState, served
<1>1. counters' \in Counters /\ known' \subseteq Replica
    BY CatalogAssumption DEF CreateOwnedShare, Counters, Zero
<1>2. Typed'
    BY <1>0, <1>1 DEF CatalogInv, Typed, CatalogTypeOK
<1>3. Up' /\ MembersKnown' /\ LifeState' /\ Covered' /\ PendingHolds'
    BY <1>0 DEF Up, MembersKnown, LifeState, Covered, PendingHolds
<1>4. DistinctAuthors'
    BY <1>0 DEF CatalogInv, DistinctAuthors
<1>5. Serving'
    BY <1>0, NobodyServed
<1> QED BY <1>2, <1>3, <1>4, <1>5 DEF CatalogInv, Serving

\* Loading recovers, refreshes and learns before anybody is served.
LEMMA LoadStep == ASSUME CatalogInv, LoadOwnedShare PROVE CatalogInv'
<1>0. /\ runtime = "down" /\ life # "none" /\ RecoverPending(TRUE) /\ metadata' = TRUE
      /\ known' = Learned(ceilings') /\ runtime' = "opened"
      /\ UNCHANGED <<life, invitations, members, relation, gate, push>>
    BY DEF LoadOwnedShare
<1>1. /\ counters' \in Counters /\ ceilings' \in Counters /\ pending' = {}
      /\ \A r \in Replica : counters'[r] <= ceilings'[r]
    BY <1>0, RecoveryFacts DEF CatalogInv
<1>2. /\ known' \subseteq Replica /\ known \subseteq known' /\ {Owner, Resolver} \subseteq known'
    BY <1>0, CatalogAssumption DEF Learned, CatalogInv, Typed, CatalogTypeOK
<1>3. Typed'
    BY <1>0, <1>1, <1>2 DEF CatalogInv, Typed, CatalogTypeOK
<1>4. Up' /\ LifeState' /\ Covered' /\ PendingHolds'
    BY <1>0, <1>1, <1>2 DEF Up, LifeState, Covered, PendingHolds
<1>5. MembersKnown' /\ DistinctAuthors'
    BY <1>0, <1>2 DEF CatalogInv, MembersKnown, DistinctAuthors
<1>6. Serving'
    BY <1>0, NobodyServed
<1> QED BY <1>3, <1>4, <1>5, <1>6 DEF CatalogInv, Serving

\* A crash ends every push, and nothing stored is touched.
LEMMA CrashStep == ASSUME CatalogInv, Crash PROVE CatalogInv'
<1>0. /\ runtime' = "down" /\ push' = [w \in Writer |-> NoPush] /\ gate' = None
      /\ UNCHANGED <<life, invitations, members, known, metadata, ceilings, counters, pending, relation>>
    BY DEF Crash, catalog, disk
<1>1. NoPush \in Push
    BY CatalogAssumption DEF Zero, Counters, NoPush, Push, NoClaim
<1>2. Typed'
    BY <1>0, <1>1 DEF CatalogInv, Typed, CatalogTypeOK
<1>3. Up' /\ MembersKnown' /\ LifeState' /\ Covered' /\ DistinctAuthors'
    BY <1>0 DEF CatalogInv, Up, MembersKnown, LifeState, Covered, DistinctAuthors
<1>4. PendingHolds'
    BY <1>0 DEF CatalogInv, PendingHolds, Acceptable, Join
<1>5. PushState' /\ PreparedHolds'
    BY <1>0 DEF PushState, PreparedHolds, NoPush, Gated
<1> QED BY <1>2, <1>3, <1>4, <1>5 DEF CatalogInv

\* Members may come, and may be revoked; nobody's replica changes.
LEMMA MembersStep ==
    ASSUME CatalogInv, runtime = "published", UNCHANGED <<life, invitations, disk, served>>,
           known \subseteq known', known' \subseteq Replica,
           DOMAIN members' \subseteq Peer, members' \in [DOMAIN members' -> Membership],
           \A p \in DOMAIN members :
               p \in DOMAIN members' /\ members'[p].replica = members[p].replica,
           \A p \in DOMAIN members' : members'[p].replica \in known',
           relation' \in [Peer -> Replica \cup {None}], DistinctAuthors'
    PROVE  CatalogInv'
<1>0. UNCHANGED <<metadata, ceilings, counters, pending, runtime, gate, push>>
    BY DEF disk, served
<1>1. Typed'
    BY <1>0 DEF CatalogInv, Typed, CatalogTypeOK
<1>2. Up' /\ MembersKnown' /\ LifeState' /\ Covered'
    BY <1>0 DEF CatalogInv, Up, MembersKnown, LifeState, Covered
<1>3. PendingHolds'
    <2> SUFFICES ASSUME NEW x \in pending
                 PROVE  x.peer \in DOMAIN members' /\ Acceptable(x.peer, x.claim)'
        BY <1>0 DEF PendingHolds
    <2>1. x.peer \in DOMAIN members /\ x.claim \in Claim /\ Acceptable(x.peer, x.claim)
        BY DEF CatalogInv, PendingHolds, Typed
    <2> QED BY <1>0, <2>1, AcceptableUnchanged
<1>4. PushState'
    BY <1>0 DEF CatalogInv, PushState
<1>5. PreparedHolds'
    <2> SUFFICES ASSUME NEW w \in Writer, push[w].step \in {"apply", "adopt"}
                 PROVE  /\ Acceptable(push[w].peer, push[w].claim)'
                        /\ push[w].claim.counter <= push[w].ceilings[push[w].claim.replica]
                        /\ \A r \in Replica \ {Owner} : counters[r] <= push[w].ceilings[r]
        BY <1>0 DEF PreparedHolds
    <2>1. /\ push[w].peer \in DOMAIN members /\ push[w].claim \in Claim
          /\ Acceptable(push[w].peer, push[w].claim)
          /\ push[w].claim.counter <= push[w].ceilings[push[w].claim.replica]
          /\ \A r \in Replica \ {Owner} : counters[r] <= push[w].ceilings[r]
        BY DEF CatalogInv, PushState, PreparedHolds
    <2>2. Acceptable(push[w].peer, push[w].claim)'
        BY <1>0, <2>1, AcceptableUnchanged
    <2> QED BY <2>1, <2>2
<1> QED BY <1>1, <1>2, <1>3, <1>4, <1>5 DEF CatalogInv

\* Enrolling again changes no identity, and a new member gets one that nobody has.
LEMMA EnrollStep == ASSUME CatalogInv, NEW p \in Peer, Enroll(p) PROVE CatalogInv'
<1>0. /\ runtime = "published" /\ UNCHANGED <<life, invitations, disk, served>>
      /\ members \in [DOMAIN members -> Membership] /\ DOMAIN members \subseteq Peer
      /\ known \subseteq Replica /\ relation \in [Peer -> Replica \cup {None}]
      /\ {Owner, Resolver} \subseteq known
    BY DEF Enroll, CatalogInv, Typed, CatalogTypeOK, Up
<1>1. CASE p \in DOMAIN members /\ UNCHANGED <<members, known>>
    <2>1. members'[p].replica \in Replica /\ members' = members /\ known' = known
        BY <1>0, <1>1 DEF Membership
    <2>2. relation' \in {relation, Stored(p, members[p].replica)}
        BY <2>1 DEF Enroll
    <2>3. relation' \in [Peer -> Replica \cup {None}]
        BY <1>0, <2>1, <2>2 DEF Stored
    <2>4. \A q \in Peer : relation'[q] = relation[q] \/ (q = p /\ relation'[q] = members[p].replica)
        BY <1>0, <2>2 DEF Stored
    <2>5. DistinctAuthors'
        BY <1>1, <2>1, <2>4 DEF CatalogInv, DistinctAuthors
    <2>6. \A q \in DOMAIN members' : members'[q].replica \in known'
        BY <2>1 DEF CatalogInv, MembersKnown
    <2> QED BY <1>0, <2>1, <2>3, <2>5, <2>6, MembersStep
<1>2. CASE ~(p \in DOMAIN members /\ UNCHANGED <<members, known>>)
    <2>1. PICK k \in Permission, r \in Replica :
              /\ p \notin DOMAIN members /\ (r \notin known \/ Unclaimed(r))
              /\ known' = known \cup {r}
              /\ members' = [q \in DOMAIN members \cup {p} |->
                    IF q = p THEN [permission |-> k, replica |-> r, revoked |-> FALSE]
                    ELSE members[q]]
        BY <1>2 DEF Enroll
    <2>2. /\ DOMAIN members' = DOMAIN members \cup {p}
          /\ members'[p] = [permission |-> k, replica |-> r, revoked |-> FALSE]
          /\ \A q \in DOMAIN members : members'[q] = members[q]
        BY <2>1
    <2>3. members'[p] \in Membership /\ members'[p].replica = r
        BY <2>2 DEF Membership
    <2>4. members' \in [DOMAIN members' -> Membership]
        BY <1>0, <2>1, <2>2, <2>3
    <2>5. r \notin {Owner, Resolver} /\ \A q \in DOMAIN members : members[q].replica # r
        <3>1. CASE r \notin known
            BY <1>0, <3>1 DEF CatalogInv, MembersKnown
        <3>2. CASE Unclaimed(r)
            BY <3>2, CatalogAssumption DEF Unclaimed, Proved
        <3> QED BY <2>1, <3>1, <3>2
    <2>6. relation' \in {relation, Stored(p, r)}
        BY <2>3 DEF Enroll
    <2>7. relation' \in [Peer -> Replica \cup {None}]
        BY <1>0, <2>6 DEF Stored
    <2>8. relation[p] = None
        BY <2>1 DEF CatalogInv, DistinctAuthors
    <2>9. \A q \in Peer : relation'[q] = relation[q] \/ (q = p /\ relation'[q] = r)
        BY <1>0, <2>6 DEF Stored
    <2>10. DistinctAuthors'
        BY <1>0, <2>2, <2>3, <2>5, <2>8, <2>9 DEF CatalogInv, DistinctAuthors
    <2>11. \A q \in DOMAIN members' : members'[q].replica \in known'
        BY <2>1, <2>2, <2>3 DEF CatalogInv, MembersKnown
    <2> QED BY <1>0, <2>1, <2>2, <2>4, <2>7, <2>10, <2>11, MembersStep
<1> QED BY <1>1, <1>2

\* Revoking a member keeps its identity.
LEMMA RevokeStep == ASSUME CatalogInv, NEW p \in Peer, RevokeMember(p) PROVE CatalogInv'
<1>0. /\ runtime = "published" /\ UNCHANGED <<life, invitations, known, disk, relation, served>>
      /\ members \in [DOMAIN members -> Membership] /\ DOMAIN members \subseteq Peer
      /\ known \subseteq Replica /\ relation \in [Peer -> Replica \cup {None}]
      /\ p \in DOMAIN members /\ members' = [members EXCEPT ![p].revoked = TRUE]
    BY DEF RevokeMember, CatalogInv, Typed, CatalogTypeOK
<1>1. /\ DOMAIN members' = DOMAIN members
      /\ members'[p] = [members[p] EXCEPT !.revoked = TRUE]
      /\ \A q \in DOMAIN members \ {p} : members'[q] = members[q]
    BY <1>0
<1>2. members'[p] \in Membership /\ members'[p].replica = members[p].replica
    BY <1>0, <1>1 DEF Membership
<1>3. /\ members' \in [DOMAIN members' -> Membership]
      /\ \A q \in DOMAIN members : members'[q].replica = members[q].replica
    BY <1>0, <1>1, <1>2
<1>4. DistinctAuthors'
    BY <1>0, <1>1, <1>3 DEF CatalogInv, DistinctAuthors
<1>5. \A q \in DOMAIN members' : members'[q].replica \in known'
    BY <1>0, <1>1, <1>3 DEF CatalogInv, MembersKnown
<1> QED BY <1>0, <1>1, <1>3, <1>4, <1>5, MembersStep

-----------------------------------------------------------------------------
(* Pushes *)

\* Every other push that is past its lock would hold the gate too.
LEMMA OneGated ==
    ASSUME CatalogInv, NEW w \in Writer, push[w].step \in Gated
    PROVE  gate = w /\ \A v \in Writer \ {w} : push[v].step \notin Gated
BY DEF CatalogInv, PushState

\* A step of one push that leaves catalog and disk alone, except that it may
\* install its attempt.
LEMMA HandlerStep ==
    ASSUME CatalogInv, NEW w \in Writer,
           UNCHANGED <<catalog, metadata, ceilings, counters, relation, runtime>>,
           push' \in [Writer -> Push], gate' \in Writer \cup {None},
           \A v \in Writer \ {w} : push'[v] = push[v],
           \A v \in Writer : push'[v].step \in Gated => gate' = v,
           push'[w].step # "idle" =>
               /\ runtime = "published" /\ push'[w].peer \in DOMAIN members
               /\ push'[w].claim \in Claim,
           push'[w].step \in {"apply", "adopt"} =>
               /\ Acceptable(push'[w].peer, push'[w].claim)
               /\ push'[w].claim.counter <= push'[w].ceilings[push'[w].claim.replica]
               /\ \A r \in Replica \ {Owner} : counters[r] <= push'[w].ceilings[r],
           \/ pending' = pending
           \/ pending' \subseteq [peer: Peer, claim: Claim] /\ life # "none"
              /\ \A x \in pending' : x.peer \in DOMAIN members /\ Acceptable(x.peer, x.claim)
    PROVE  CatalogInv'
<1>0. UNCHANGED <<life, invitations, members, known, metadata, ceilings, counters>>
    BY DEF catalog
<1>1. pending' \subseteq [peer: Peer, claim: Claim]
    BY DEF CatalogInv, Typed
<1>2. Typed'
    BY <1>0, <1>1 DEF CatalogInv, Typed, CatalogTypeOK
<1>3. Up' /\ MembersKnown' /\ LifeState' /\ Covered' /\ DistinctAuthors'
    BY <1>0 DEF CatalogInv, Up, MembersKnown, LifeState, Covered, DistinctAuthors
<1>4. PendingHolds'
    BY <1>0 DEF CatalogInv, PendingHolds, Acceptable, Join
<1>5. PushState'
    BY <1>0 DEF CatalogInv, PushState
<1>6. PreparedHolds'
    BY <1>0 DEF CatalogInv, PreparedHolds, Acceptable, Join
<1> QED BY <1>2, <1>3, <1>4, <1>5, <1>6 DEF CatalogInv

\* A push has the fields of one, and a finished one is again a push.
LEMMA PushFields ==
    ASSUME CatalogInv, NEW w \in Writer
    PROVE  /\ push \in [Writer -> Push] /\ push[w] \in Push /\ NoPush \in Push
           /\ push[w].peer \in Peer \cup {None} /\ push[w].ceilings \in Counters
BY CatalogAssumption DEF CatalogInv, Typed, CatalogTypeOK, Push, NoPush, NoClaim, Zero, Counters

\* A push that goes on to its next step keeps its peer, claim and ceilings.
LEMMA SetFacts ==
    ASSUME CatalogInv, NEW w \in Writer, NEW s \in {"recover", "prepare", "adopt"}, Set(w, s)
    PROVE  /\ push' \in [Writer -> Push]
           /\ push'[w].step = s /\ push'[w].peer = push[w].peer
           /\ push'[w].claim = push[w].claim /\ push'[w].ceilings = push[w].ceilings
           /\ \A v \in Writer \ {w} : push'[v] = push[v]
<1>1. push \in [Writer -> Push] /\ push[w] \in Push
    BY PushFields
<1>2. push'[w] = [push[w] EXCEPT !.step = s] /\ \A v \in Writer \ {w} : push'[v] = push[v]
    BY <1>1 DEF Set
<1>3. /\ push'[w] \in Push /\ push'[w].step = s /\ push'[w].peer = push[w].peer
      /\ push'[w].claim = push[w].claim /\ push'[w].ceilings = push[w].ceilings
    BY <1>1, <1>2 DEF Push
<1>4. push' \in [Writer -> Push]
    BY <1>1, <1>3 DEF Set
<1> QED BY <1>2, <1>3, <1>4

\* A new push is queued.
LEMMA OfferStep ==
    ASSUME CatalogInv, NEW w \in Writer, NEW p \in Peer, NEW c \in Claim, Offer(w, p, c)
    PROVE  CatalogInv'
<1>1. [NoPush EXCEPT !.step = "queued", !.peer = p, !.claim = c] \in Push
    BY PushFields DEF Push
<1>2. /\ push' \in [Writer -> Push] /\ \A v \in Writer \ {w} : push'[v] = push[v]
      /\ push'[w] = [NoPush EXCEPT !.step = "queued", !.peer = p, !.claim = c]
    BY <1>1, PushFields DEF Offer
<1>3. push'[w].step = "queued" /\ push'[w].peer = p /\ push'[w].claim = c
    BY <1>2 DEF NoPush
<1>4. /\ UNCHANGED <<catalog, metadata, ceilings, counters, pending, relation, runtime, gate>>
      /\ runtime = "published" /\ p \in DOMAIN members /\ gate' \in Writer \cup {None}
    BY DEF Offer, Authorized, disk, CatalogInv, Typed, CatalogTypeOK
<1>5. \A v \in Writer : push'[v].step \in Gated => gate' = v
    BY <1>2, <1>3, <1>4 DEF CatalogInv, PushState, Gated
<1> QED BY <1>2, <1>3, <1>4, <1>5, HandlerStep

\* It takes the gate, which no other push has.
LEMMA LockStep == ASSUME CatalogInv, NEW w \in Writer, Lock(w) PROVE CatalogInv'
<1>1. /\ UNCHANGED <<catalog, metadata, ceilings, counters, pending, relation, runtime>>
      /\ gate = None /\ gate' = w /\ Set(w, "recover") /\ push[w].step = "queued"
    BY DEF Lock, disk, At
<1>2. /\ push' \in [Writer -> Push] /\ push'[w].step = "recover" /\ push'[w].peer = push[w].peer
      /\ push'[w].claim = push[w].claim /\ \A v \in Writer \ {w} : push'[v] = push[v]
    BY <1>1, SetFacts
<1>3. /\ runtime = "published" /\ push[w].peer \in DOMAIN members /\ push[w].claim \in Claim
    BY <1>1 DEF CatalogInv, PushState
<1>4. \A v \in Writer : push'[v].step \in Gated => gate' = v
    BY <1>1, <1>2, CatalogAssumption DEF CatalogInv, PushState
<1> QED BY <1>1, <1>2, <1>3, <1>4, HandlerStep

\* Counters and ceilings grow under the gate, while no push is prepared.
LEMMA GrowStep ==
    ASSUME CatalogInv, NEW w \in Writer, push[w].step \in {"recover", "prepare"},
           UNCHANGED <<life, invitations, members, metadata, relation, runtime, gate>>,
           push' \in [Writer -> Push], \A v \in Writer \ {w} : push'[v] = push[v],
           push'[w].step \in {"prepare", "apply"}, push'[w].peer = push[w].peer,
           push'[w].claim = push[w].claim,
           counters' \in Counters, ceilings' \in Counters, pending' = {} \/ pending' = pending,
           known \subseteq known', known' \subseteq Replica,
           \A r \in Replica : counters[r] <= counters'[r] /\ ceilings[r] <= ceilings'[r],
           \A r \in Replica \ {Owner} : counters'[r] <= ceilings'[r],
           push'[w].step = "apply" =>
               /\ Acceptable(push[w].peer, push[w].claim)
               /\ push[w].claim.counter <= push'[w].ceilings[push[w].claim.replica]
               /\ \A r \in Replica \ {Owner} : counters'[r] <= push'[w].ceilings[r]
    PROVE  CatalogInv'
<1>0. /\ gate = w /\ \A v \in Writer \ {w} : push[v].step \notin Gated
      /\ runtime = "published" /\ push[w].peer \in DOMAIN members /\ push[w].claim \in Claim
    BY OneGated DEF CatalogInv, PushState, Gated
<1>1. Typed'
    BY DEF CatalogInv, Typed, CatalogTypeOK
<1>2. Up' /\ MembersKnown' /\ LifeState' /\ Covered' /\ DistinctAuthors'
    BY DEF CatalogInv, Up, MembersKnown, LifeState, Covered, DistinctAuthors
<1>3. \A p \in DOMAIN members, c \in Claim : Acceptable(p, c) => Acceptable(p, c)'
    BY StaysAcceptable
<1>4. PendingHolds'
    <2> SUFFICES ASSUME NEW x \in pending
                 PROVE  x.peer \in DOMAIN members' /\ Acceptable(x.peer, x.claim)'
        BY DEF PendingHolds
    <2>1. x.peer \in DOMAIN members /\ x.claim \in Claim /\ Acceptable(x.peer, x.claim)
        BY DEF CatalogInv, PendingHolds, Typed
    <2> QED BY <1>3, <2>1
<1>5. PushState'
    BY <1>0 DEF CatalogInv, PushState, Gated
<1>6. PreparedHolds'
    <2> SUFFICES ASSUME NEW v \in Writer, push'[v].step \in {"apply", "adopt"}
                 PROVE  /\ Acceptable(push[v].peer, push[v].claim)'
                        /\ push'[v].claim.counter <= push'[v].ceilings[push'[v].claim.replica]
                        /\ \A r \in Replica \ {Owner} : counters'[r] <= push'[v].ceilings[r]
        BY DEF PreparedHolds
    <2>1. v = w /\ push'[w].step = "apply"
        BY <1>0 DEF Gated
    <2>2. Acceptable(push[w].peer, push[w].claim)'
        BY <1>0, <1>3, <2>1
    <2> QED BY <2>1, <2>2
<1> QED BY <1>1, <1>2, <1>4, <1>5, <1>6 DEF CatalogInv

\* Recovery before an operation.
LEMMA RecoverStep == ASSUME CatalogInv, NEW w \in Writer, Recover(w) PROVE CatalogInv'
<1>1. /\ push[w].step = "recover" /\ RecoverPending(FALSE) /\ Set(w, "prepare")
      /\ UNCHANGED <<life, invitations, members, known, metadata, relation, runtime, gate>>
    BY DEF Recover, At, catalog
<1>2. runtime = "published" /\ \A r \in Replica \ {Owner} : counters[r] <= ceilings[r]
    BY <1>1 DEF CatalogInv, PushState, Covered
<1>3. /\ counters' \in Counters /\ ceilings' \in Counters /\ pending' = {}
      /\ \A r \in Replica : counters[r] <= counters'[r] /\ ceilings[r] <= ceilings'[r]
      /\ \A r \in Replica \ {Owner} : counters'[r] <= ceilings'[r]
    BY <1>1, <1>2, RecoveryFacts DEF CatalogInv
<1>4. /\ push' \in [Writer -> Push] /\ push'[w].step = "prepare" /\ push'[w].peer = push[w].peer
      /\ push'[w].claim = push[w].claim /\ \A v \in Writer \ {w} : push'[v] = push[v]
    BY <1>1, SetFacts
<1>5. known' \subseteq Replica
    BY <1>1 DEF CatalogInv, Typed, CatalogTypeOK
<1> QED BY <1>1, <1>3, <1>4, <1>5, GrowStep

\* The metadata of the adoption is computed from the refreshed one.
LEMMA PrepareStep == ASSUME CatalogInv, NEW w \in Writer, Prepare(w) PROVE CatalogInv'
<1>1. /\ push[w].step = "prepare" /\ Acceptable(push[w].peer, push[w].claim)
      /\ ceilings' = Refreshed /\ known' = Learned(Refreshed)
      /\ UNCHANGED <<life, invitations, members, metadata, counters, pending, relation, runtime, gate>>
    BY DEF Prepare, At
<1>2. /\ counters \in Counters /\ ceilings \in Counters /\ push[w].claim \in Claim
      /\ known \subseteq Replica
    BY <1>1 DEF CatalogInv, Typed, CatalogTypeOK, PushState
<1>3. /\ Refreshed \in Counters
      /\ \A r \in Replica : ceilings[r] <= Refreshed[r] /\ counters[r] <= Refreshed[r]
                            /\ counters[r] <= counters[r]
    <2>1. \A r \in Replica : counters[r] \in Nat /\ ceilings[r] \in Nat
        BY <1>2, CatalogAssumption DEF Counters
    <2>2. /\ Refreshed \in Counters
          /\ \A r \in Replica : Refreshed[r] >= ceilings[r] /\ Refreshed[r] >= counters[r]
        BY <1>2, JoinFacts DEF Refreshed
    <2>3. \A r \in Replica : Refreshed[r] \in Nat
        BY <2>2, CatalogAssumption DEF Counters
    <2> QED BY <2>1, <2>2, <2>3
<1>4. /\ With(Refreshed, push[w].claim) \in Counters
      /\ \A r \in Replica : counters[r] <= With(Refreshed, push[w].claim)[r]
      /\ push[w].claim.counter <= With(Refreshed, push[w].claim)[push[w].claim.replica]
    <2>0. push[w].claim.replica \in Replica /\ push[w].claim.counter \in Nat
        BY <1>2, CatalogAssumption DEF Claim
    <2>1. /\ With(Refreshed, push[w].claim) \in Counters
          /\ With(Refreshed, push[w].claim)[push[w].claim.replica] >= push[w].claim.counter
          /\ \A r \in Replica : With(Refreshed, push[w].claim)[r] >= Refreshed[r]
        BY <1>2, <1>3, WithFacts
    <2>2. \A r \in Replica : /\ counters[r] \in Nat /\ Refreshed[r] \in Nat
                             /\ With(Refreshed, push[w].claim)[r] \in Nat
        BY <1>2, <1>3, <2>1, CatalogAssumption DEF Counters
    <2> QED BY <1>3, <2>0, <2>1, <2>2
<1>5. /\ push'[w] = [push[w] EXCEPT !.step = "apply", !.ceilings = With(Refreshed, push[w].claim)]
      /\ \A v \in Writer \ {w} : push'[v] = push[v]
      /\ push[w] \in Push /\ push \in [Writer -> Push]
    BY PushFields DEF Prepare
<1>6. /\ push'[w] \in Push /\ push'[w].step = "apply" /\ push'[w].peer = push[w].peer
      /\ push'[w].claim = push[w].claim /\ push'[w].ceilings = With(Refreshed, push[w].claim)
    BY <1>4, <1>5 DEF Push
<1>7. push' \in [Writer -> Push]
    BY <1>5, <1>6 DEF Prepare
<1>8. known \subseteq known' /\ known' \subseteq Replica
    BY <1>1, <1>2, CatalogAssumption DEF Learned
<1> QED BY <1>1, <1>2, <1>3, <1>4, <1>5, <1>6, <1>7, <1>8, GrowStep

\* The attempt is installed, of a member and acceptable.
LEMMA ApplyStep == ASSUME CatalogInv, NEW w \in Writer, Apply(w) PROVE CatalogInv'
<1>1. /\ UNCHANGED <<catalog, metadata, ceilings, counters, relation, runtime, gate>>
      /\ push[w].step = "apply" /\ Set(w, "adopt")
      /\ pending' = {[peer |-> push[w].peer, claim |-> push[w].claim]}
    BY DEF Apply, At
<1>2. /\ push' \in [Writer -> Push] /\ push'[w].step = "adopt" /\ push'[w].peer = push[w].peer
      /\ push'[w].claim = push[w].claim /\ push'[w].ceilings = push[w].ceilings
      /\ \A v \in Writer \ {w} : push'[v] = push[v]
    BY <1>1, SetFacts
<1>3. /\ runtime = "published" /\ push[w].peer \in DOMAIN members /\ push[w].claim \in Claim
      /\ push[w].peer \in Peer /\ life # "none" /\ gate = w /\ gate' \in Writer \cup {None}
      /\ Acceptable(push[w].peer, push[w].claim)
      /\ push[w].claim.counter <= push[w].ceilings[push[w].claim.replica]
      /\ \A r \in Replica \ {Owner} : counters[r] <= push[w].ceilings[r]
    BY <1>1 DEF CatalogInv, PushState, PreparedHolds, Typed, CatalogTypeOK, Up, Gated
<1>4. \A v \in Writer : push'[v].step \in Gated => gate' = v
    BY <1>1, <1>2, <1>3 DEF CatalogInv, PushState
<1>5. /\ pending' \subseteq [peer: Peer, claim: Claim]
      /\ \A x \in pending' : x.peer \in DOMAIN members /\ Acceptable(x.peer, x.claim)
    BY <1>1, <1>3
<1> QED BY <1>1, <1>2, <1>3, <1>4, <1>5, HandlerStep

\* A refused push leaves the attempt for a recovery.
LEMMA RefuseStep == ASSUME CatalogInv, NEW w \in Writer, Refuse(w) PROVE CatalogInv'
<1>1. /\ UNCHANGED <<catalog, metadata, ceilings, counters, pending, relation, runtime>>
      /\ push' = [push EXCEPT ![w] = NoPush] /\ gate' = IF gate = w THEN None ELSE gate
    BY DEF Refuse, disk
<1>2. /\ push' \in [Writer -> Push] /\ push'[w] = NoPush /\ \A v \in Writer \ {w} : push'[v] = push[v]
    BY <1>1, PushFields
<1>3. push'[w].step = "idle" /\ gate' \in Writer \cup {None}
    BY <1>1, <1>2 DEF NoPush, CatalogInv, Typed, CatalogTypeOK
<1>4. \A v \in Writer : push'[v].step \in Gated => gate' = v
    BY <1>1, <1>2, <1>3 DEF CatalogInv, PushState, Gated
<1> QED BY <1>1, <1>2, <1>3, <1>4, HandlerStep

\* The row and the ceilings that cover it are adopted together.
LEMMA AdoptStep == ASSUME CatalogInv, NEW w \in Writer, Adopt(w) PROVE CatalogInv'
<1>1. /\ push[w].step = "adopt" /\ counters' = With(counters, push[w].claim)
      /\ ceilings' = push[w].ceilings /\ pending' = {} /\ push' = [push EXCEPT ![w] = NoPush]
      /\ gate' = None
      /\ UNCHANGED <<life, invitations, members, known, metadata, relation, runtime>>
    BY DEF Adopt, At, catalog
<1>2. /\ push[w].claim \in Claim /\ counters \in Counters /\ push[w].ceilings \in Counters
      /\ \A v \in Writer \ {w} : push[v].step \notin Gated
    BY <1>1, PushFields, OneGated DEF CatalogInv, PushState, Typed, CatalogTypeOK, Gated
<1>3. /\ push' \in [Writer -> Push] /\ push'[w] = NoPush /\ \A v \in Writer \ {w} : push'[v] = push[v]
    BY <1>1, PushFields
<1>4. counters' \in Counters /\ push'[w].step = "idle"
    BY <1>1, <1>2, <1>3, WithFacts DEF NoPush
<1>5. Typed'
    BY <1>1, <1>2, <1>3, <1>4 DEF CatalogInv, Typed, CatalogTypeOK
<1>6. Up' /\ MembersKnown' /\ LifeState' /\ DistinctAuthors' /\ PendingHolds'
    BY <1>1 DEF CatalogInv, Up, MembersKnown, LifeState, DistinctAuthors, PendingHolds
<1>7. PushState' /\ PreparedHolds'
    BY <1>1, <1>2, <1>3, <1>4 DEF CatalogInv, PushState, PreparedHolds, Gated
<1>8. Covered'
    <2> SUFFICES ASSUME NEW r \in Replica \ {Owner} PROVE counters'[r] <= ceilings'[r]
        BY DEF Covered
    <2>1. counters[r] <= push[w].ceilings[r]
        BY <1>1 DEF CatalogInv, PreparedHolds
    <2>2. CASE r # push[w].claim.replica
        BY <1>1, <1>2, <2>1, <2>2, WithFacts
    <2>3. CASE r = push[w].claim.replica
        <3>1. push[w].claim.counter <= push[w].ceilings[r]
            BY <1>1, <2>3 DEF CatalogInv, PreparedHolds
        <3> QED BY <1>1, <1>2, <2>1, <2>3, <3>1, WithFacts
    <2> QED BY <2>2, <2>3
<1> QED BY <1>5, <1>6, <1>7, <1>8 DEF CatalogInv

\* Every step keeps the invariant.
LEMMA CatalogStep == CatalogInv /\ [CatalogNext]_catalogVars => CatalogInv'
<1> SUFFICES ASSUME CatalogInv, [CatalogNext]_catalogVars PROVE CatalogInv'
    OBVIOUS
<1>0. invitations \subseteq Permission
    BY DEF CatalogInv, Typed, CatalogTypeOK
<1>1. CASE CreateOwnedShare
    BY <1>1, CreateStep
<1>2. CASE LoadOwnedShare
    BY <1>2, LoadStep
<1>3. CASE MarkReady
    BY <1>0, <1>3, OwnerStep DEF MarkReady
<1>4. CASE Crash
    BY <1>4, CrashStep
<1>5. CASE \E k \in Permission : IssueKey(k) \/ RevokeKey(k)
    BY <1>0, <1>5, OwnerStep DEF IssueKey, RevokeKey, Issued, Withdrawn, served
<1>6. CASE \E p \in Peer : Enroll(p)
    BY <1>6, EnrollStep
<1>7. CASE \E p \in Peer : RevokeMember(p)
    BY <1>7, RevokeStep
<1>8. CASE \E w \in Writer : Lock(w)
    BY <1>8, LockStep
<1>9. CASE \E w \in Writer : Recover(w)
    BY <1>9, RecoverStep
<1>10. CASE \E w \in Writer : Prepare(w)
    BY <1>10, PrepareStep
<1>11. CASE \E w \in Writer : Apply(w)
    BY <1>11, ApplyStep
<1>12. CASE \E w \in Writer : Adopt(w)
    BY <1>12, AdoptStep
<1>13. CASE \E w \in Writer : Refuse(w)
    BY <1>13, RefuseStep
<1>14. CASE \E w \in Writer, p \in Peer, c \in Claim : Offer(w, p, c)
    BY <1>14, OfferStep
<1>15. CASE UNCHANGED catalogVars
    BY <1>0, <1>15, OwnerStep DEF catalogVars, catalog, served
<1> QED
    BY <1>1, <1>2, <1>3, <1>4, <1>5, <1>6, <1>7, <1>8, <1>9, <1>10, <1>11, <1>12, <1>13,
       <1>14, <1>15 DEF CatalogNext

\* The invariant holds throughout.
LEMMA CatalogAlways == CatalogSpec => []CatalogInv
BY CatalogStarts, CatalogStep, PTL DEF CatalogSpec

\* CeilingsAreBounds: while a share is served, its ceilings cover every counter
\* that a peer has had indexed.
THEOREM CeilingsAreBounds == CatalogSpec => []CeilingsCover
<1>1. CatalogInv => CeilingsCover
    BY DEF CatalogInv, Covered, CeilingsCover
<1> QED BY <1>1, CatalogAlways, PTL

\* AuthorsDistinct: no two authors ever share a causal identity.
THEOREM AuthorsDistinct == CatalogSpec => []DistinctAuthors
BY CatalogAlways, PTL DEF CatalogInv

\* AlwaysLoadable: an interrupted share can be loaded again.
THEOREM AlwaysLoadable == CatalogSpec => []Loadable
<1>1. CatalogInv => Loadable
    BY DEF CatalogInv, LifeState, PendingHolds, Loadable, Recoverable
<1> QED BY <1>1, CatalogAlways, PTL

\* OnlyOwnersAdvance: a counter passes its ceiling only in the name of the member
\* that holds the replica.
THEOREM OnlyOwnersAdvance == CatalogSpec => CountersOwned
<1>1. ASSUME CatalogInv, [CatalogNext]_catalogVars, NEW r \in Replica \ {Owner, Resolver},
             runtime = "published", counters'[r] > ceilings[r]
      PROVE  \E p \in DOMAIN members : members[p].replica = r /\
                 ((gate # None /\ push[gate].peer = p) \/ \E x \in pending : x.peer = p)
    <2>0. /\ counters[r] <= ceilings[r] /\ counters \in Counters /\ ceilings \in Counters
          /\ counters[r] \in Nat /\ ceilings[r] \in Nat
        BY <1>1, CatalogAssumption DEF CatalogInv, Covered, Typed, CatalogTypeOK, Counters
    <2>1. CASE counters' = counters
        BY <1>1, <2>0, <2>1
    <2>2. CASE \E w \in Writer : Recover(w)
        <3>1. RecoverPending(FALSE)
            BY <2>2 DEF Recover
        <3> QED BY <1>1, <2>0, <3>1, RecoveryFacts DEF CatalogInv
    <2>3. CASE \E w \in Writer : Adopt(w)
        <3>1. PICK w \in Writer : Adopt(w)
            BY <2>3
        <3>2. /\ push[w].step = "adopt" /\ counters' = With(counters, push[w].claim)
              /\ gate = w /\ gate # None /\ push[w].peer \in DOMAIN members
              /\ push[w].claim \in Claim /\ Acceptable(push[w].peer, push[w].claim)
            BY <1>1, <3>1, CatalogAssumption
            DEF Adopt, At, CatalogInv, PushState, PreparedHolds, Gated
        <3>3. r = push[w].claim.replica /\ counters'[r] = push[w].claim.counter
            BY <1>1, <2>0, <3>2, WithFacts
        <3>4. Join(ceilings, counters)[r] <= ceilings[r]
            BY <2>0, JoinFacts
        <3>5. /\ push[w].claim.counter \in Nat /\ Join(ceilings, counters)[r] \in Nat
            BY <1>1, <2>0, <3>2, JoinFacts, CatalogAssumption DEF Claim, Counters
        <3>6. ~(push[w].claim.counter <= Join(ceilings, counters)[r])
            BY <1>1, <2>0, <3>3, <3>4, <3>5
        <3>7. members[push[w].peer].replica = r
            BY <1>1, <3>2, <3>3, <3>6 DEF Acceptable
        <3> QED BY <3>2, <3>7
    <2>4. CASE CreateOwnedShare \/ LoadOwnedShare
        BY <1>1, <2>4 DEF CreateOwnedShare, LoadOwnedShare, CatalogInv, Up
    <2> QED
        BY <1>1, <2>1, <2>2, <2>3, <2>4
        DEF CatalogNext, catalogVars, MarkReady, Crash, IssueKey, RevokeKey, Enroll, RevokeMember, Lock,
            Prepare, Apply, Refuse, Offer, disk
<1>2. CatalogInv /\ [CatalogNext]_catalogVars =>
          [\A r \in Replica \ {Owner, Resolver} :
              (runtime = "published" /\ counters'[r] > ceilings[r]) =>
                  \E p \in DOMAIN members : members[p].replica = r /\
                      ((gate # None /\ push[gate].peer = p) \/ \E x \in pending : x.peer = p)]_catalogVars
    BY <1>1
<1> QED BY <1>2, CatalogAlways, PTL DEF CatalogSpec, CountersOwned
=============================================================================
