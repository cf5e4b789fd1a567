---------------------------- MODULE MCPublicProxy ----------------------------
(* Model values for the runs of PublicProxy. *)
EXTENDS PublicProxy, TLC

CONSTANTS q1, q2, q3, s1, s2, app

MCRequests == {q1, q2, q3}
MCSessions == {s1, s2}
MCNames    == {app}

Symmetry == Permutations(Requests) \cup Permutations(Sessions)
=============================================================================
