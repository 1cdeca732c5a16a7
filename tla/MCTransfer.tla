---------------------------- MODULE MCTransfer -----------------------------
EXTENDS Transfer

CONSTANTS c1, c2, c3, c4

MCManifest == <<c1, c2, c3, c4>>
MCSize == [c \in {c1, c2, c3, c4} |-> 1]
=============================================================================
