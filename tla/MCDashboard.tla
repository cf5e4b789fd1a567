----------------------------- MODULE MCDashboard -----------------------------
(* Model values for the runs of Dashboard. *)
EXTENDS Dashboard

CONSTANTS p1, i1, i2

MCPages == {p1}
MCIds   == {i1, i2}
=============================================================================
