----------------------------- MODULE MCServerHost -----------------------------
(* Two names that share a router file and one of its own.                  *)
EXTENDS ServerHost, TLC
CONSTANTS h1, h2, d1, d2, t1

MCHandlers == {h1, h2}
MCNames    == {<<"a", ".">>, <<"a", "_">>, <<"b", "b">>}
MCSafe     == {"a", "b", "_"}
MCDomains  == {d1, d2}
MCTokens   == {t1}
Symmetry   == Permutations(MCHandlers)
=============================================================================
