-------------------------- MODULE MCBackgroundTunnel --------------------------
(* Model values for the runs of BackgroundTunnel. *)
EXTENDS BackgroundTunnel

CONSTANTS c1, c2, x, p1, p2

MCShells == {c1, c2}
MCNames  == {x}
MCPids   == {p1, p2}
=============================================================================
