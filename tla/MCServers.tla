----------------------------- MODULE MCServers -----------------------------
(* A share with two handler permits and two devices, one of which its owner  *)
(* may revoke, with crashes anywhere, or a legacy server with a connection   *)
(* of each kind, two streams and two callers.                                *)
EXTENDS Servers

\* What the code does not promise (SessionsSilent.cfg): that a revocation
\* returns whatever the devices it does not revoke do.  One that is connected
\* and silent inside a query keeps the gate from revoke_member.
RevocationsReturn == \A p \in Revocable : call[p] # "idle" ~> call[p] = "idle"
=============================================================================
