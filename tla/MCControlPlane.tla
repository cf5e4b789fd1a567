---------------------------- MODULE MCControlPlane ----------------------------
(* Model values and symmetry for the runs of ControlPlane. *)
EXTENDS ControlPlane, TLC

CONSTANTS n1, n2, n3, app, dashboard

MCTwoConns   == {n1, n2}
MCThreeConns == {n1, n2, n3}
MCNames      == {app, dashboard}
MCReserved   == {dashboard}

Symmetry == Permutations(Conns)
=============================================================================
