------------------------------- MODULE Merkle -------------------------------
(***************************************************************************)
(* How a client gets the server's snapshot (MerkleTree of                  *)
(* deltaweave-reconcile, fetch_snapshot_connected of deltaweave-net): it   *)
(* queries the nodes of the server's tree from the root down, takes its    *)
(* own records for every subtree whose digest is the same, and checks the  *)
(* whole against the root it was shown.                                    *)
(***************************************************************************)
EXTENDS Reconcile, FiniteSetsExt, SequencesExt

\* A node stands for the records at and below its prefix; <<>> is the root.
Under(S, p) == {q \in DOMAIN S : IsPrefix(p, q)}
RecordsUnder(S, p) == [q \in Under(S, p) |-> S[q]]

\* subtree_hash: names, logical hashes and counts of all that is below, without
\* collisions.
SubtreeHash(S, p) == RecordsUnder(S, p)

Children(S, p) == {SubSeq(q, 1, Len(p) + 1) : q \in Under(S, p) \ {p}}

\* node_summary
NodeSummary(S, p) ==
    [hash |-> SubtreeHash(S, p), count |-> Cardinality(Under(S, p)),
     record |-> DOMAIN S \cap {p},
     children |-> [q \in Children(S, p) |->
                      [hash |-> SubtreeHash(S, q), count |-> Cardinality(Under(S, q))]]]

\* validate_snapshot_summary: no child is empty, and the counts add up.
ValidSummary(p, s) ==
    /\ p # <<>> => s.count > 0
    /\ \A q \in DOMAIN s.children : s.children[q].count > 0
    /\ s.count = Cardinality(s.record)
                 + MapThenSumSet(LAMBDA q : s.children[q].count, DOMAIN s.children)

\* Mutant: a subtree with as many records is taken to be the same.
SameCount(local, remote, p) ==
    /\ p = <<>> \/ Under(local, p) # {}
    /\ Cardinality(Under(local, p)) = Cardinality(Under(remote, p))

\* The local tree has the node, with the same digest and count.
Same(local, remote, p) ==
    /\ p = <<>> \/ Under(local, p) # {}
    /\ SubtreeHash(local, p) = SubtreeHash(remote, p)

\* The queue: the root, and the children of the nodes queried, as long as they
\* differ.
Queried(local, remote) ==
    LET nodes == {<<>>} \cup DOMAIN remote \cup UNION {Ancestors(p) : p \in DOMAIN remote}
        differing == {p \in nodes : ~Same(local, remote, p)}
    IN  {p \in differing : <<>> \in differing /\ Ancestors(p) \subseteq differing}

\* fetch_snapshot_connected: the records of the nodes queried, and the local
\* records below the others.
FetchSnapshot(local, remote) ==
    LET queried == Queried(local, remote)
        reached == {<<>>} \cup UNION {Children(remote, q) : q \in queried}
        reused == {p \in reached : Same(local, remote, p)}
        taken == UNION {Under(local, p) : p \in reused}
    IN  [p \in taken \cup (queried \cap DOMAIN remote) |-> IF p \in taken THEN local[p] ELSE remote[p]]

\* The checks of the summaries and of the reconstructed tree.
Accepted(local, remote, records) ==
    /\ \A p \in Queried(local, remote) : ValidSummary(p, NodeSummary(remote, p))
    /\ Cardinality(DOMAIN records) = Cardinality(DOMAIN remote)
    /\ SubtreeHash(records, <<>>) = SubtreeHash(remote, <<>>)
=============================================================================
