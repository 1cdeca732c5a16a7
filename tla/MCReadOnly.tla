----------------------------- MODULE MCReadOnly -----------------------------
EXTENDS ReadOnly
=============================================================================
