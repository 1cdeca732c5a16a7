------------------------------ MODULE Staging ------------------------------
(***************************************************************************)
(* What staging a file promises to the pass that asked for it: content     *)
(* enters the store only while an attempt runs, an attempt is reported     *)
(* staged only when every chunk is there, and every attempt returns that   *)
(* its peer does not leave asking for ever.  A crash ends an attempt and   *)
(* may take chunks that were not durable yet.                              *)
(***************************************************************************)
EXTENDS FiniteSets

CONSTANT Chunk

VARIABLES
    have,         \* chunks the store holds intact
    attempt       \* "idle" | "busy" | "asking" | "staged" | "failed"

Running == {"busy", "asking"}

Init == have \in SUBSET Chunk /\ attempt = "idle"

Begin == attempt = "idle" /\ attempt' \in Running /\ UNCHANGED have

\* It waits for its peer, or has its answer.
Turn == attempt \in Running /\ attempt' \in Running /\ UNCHANGED have

Gain ==
    /\ attempt \in Running /\ UNCHANGED attempt
    /\ \E c \in Chunk \ have : have' = have \cup {c}

Return ==
    /\ attempt \in Running /\ UNCHANGED have
    /\ \/ have = Chunk /\ attempt' = "staged"
       \/ attempt' = "failed"

Retry == attempt \in {"staged", "failed"} /\ attempt' = "idle" /\ UNCHANGED have

Crash == attempt' = "idle" /\ have' \in SUBSET have

Next == Begin \/ Turn \/ Gain \/ Return \/ Retry \/ Crash

\* Every attempt ends, but one that asks its peer for ever.
Ends == []<>(attempt \notin Running) \/ <>[](attempt = "asking")

Spec == Init /\ [][Next]_<<have, attempt>> /\ Ends
=============================================================================
