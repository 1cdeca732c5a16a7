------------------------------ MODULE Servers ------------------------------
(***************************************************************************)
(* What serves a root: the runtime of a share (ShareSessions) or a legacy  *)
(* server (LegacyServer).  RootAdmission keeps a root from having both, so *)
(* one of the two runs.                                                    *)
(***************************************************************************)
EXTENDS ShareSessions, LegacyServer

VARIABLE kind

serverVars == <<vars, legacy, kind>>

ServersInit ==
    /\ Init /\ ServerInit
    /\ kind \in {"share", "legacy"}

ServersNext ==
    \/ kind = "share" /\ Next /\ UNCHANGED <<legacy, kind>>
    \/ kind = "legacy" /\ ServerNext /\ UNCHANGED <<vars, kind>>

\* The fairness of ShareSessions; of a legacy server only safety is checked.
ServersSpec == ServersInit /\ [][ServersNext]_serverVars /\ Fairness
=============================================================================
