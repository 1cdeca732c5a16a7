----------------------------- MODULE MCReplicas -----------------------------
(* Small instances of Replicas for TLC. *)
EXTENDS Replicas, TLC

CONSTANTS c1, c2, dir

\* Flat namespaces of one and two names, and one with a directory.
OnePath == {<<Name(1)>>}
TwoPaths == {<<Name(1)>>, <<Name(2)>>}
NestedPaths == {<<Name(1)>>, <<Name(1), Name(2)>>}

\* Clients are interchangeable: nothing orders replicas, and with one path no
\* scan has two events to order.
ClientSymmetry == Permutations(Client)

\* An order of the states: every deletion beats c1 and loses to c2.
MCStateHash ==
    LET live == (c1 :> 0) @@ (c2 :> 4) @@ (dir :> 5)
        buried == (c1 :> 1) @@ (c2 :> 2) @@ (dir :> 3)
    IN  [t \in State |-> IF t.tombstone THEN buried[t.content] ELSE live[t.content]]

=============================================================================
