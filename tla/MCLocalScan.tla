---------------------------- MODULE MCLocalScan ----------------------------
EXTENDS LocalScan, TLC

CONSTANTS a, d, x

\* a and the directory d at the root, x in d.
MCParent == (a :> Root @@ d :> Root @@ x :> d)
MCOrder == <<a, d, x>>
=============================================================================
