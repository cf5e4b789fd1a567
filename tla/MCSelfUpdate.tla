----------------------------- MODULE MCSelfUpdate -----------------------------
(* 0.9.0 and 0.10.0 differ as numbers, not as text; 1.0.0-rc.10 parses as  *)
(* 1.0.10, above 1.0.5.                                                    *)
EXTENDS SelfUpdate, TLC
CONSTANTS c1, c2

MCCommands == {c1, c2}
MCReleases == {<<0, 9, 0>>, <<0, 10, 0>>, <<1, 0, 5>>, <<1, 0, Junk, 10>>}
Symmetry   == Permutations(MCCommands)
=============================================================================
