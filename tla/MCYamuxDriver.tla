---------------------------- MODULE MCYamuxDriver ----------------------------
(* Model values for the runs of YamuxDriver. *)
EXTENDS YamuxDriver

CONSTANTS r1, r2

MCTwoRequests == {r1, r2}
=============================================================================
