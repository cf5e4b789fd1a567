---------------------------- MODULE MCTunnelClient ----------------------------
(* Model values for the run of TunnelClient. *)
EXTENDS TunnelClient

CONSTANTS p1, p2, s1, s2, app

MCClients  == {p1, p2}
MCSessions == {s1, s2}
MCNames    == {app}
MCClientId == [p \in MCClients |-> app]
=============================================================================
