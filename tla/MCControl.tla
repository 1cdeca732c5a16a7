----------------------------- MODULE MCControl -----------------------------
EXTENDS Control, TLC

\* Callers, ids and paths are interchangeable.
Symmetry == Permutations(Caller) \cup Permutations(Id) \cup Permutations(Root)

\* The second part of Agreement with nothing set aside.  The code does not keep
\* it: ControlDropped.cfg shows a caller that goes away, without a failure.
AgreementThroughout ==
    \A i \in Id : worker[i] # None /\ slot[i] = None =>
        /\ folders[i] = config.folders[i] /\ folders[i] # None
        /\ worker[i].paused = ~folders[i].enabled
=============================================================================
