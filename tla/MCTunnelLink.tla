----------------------------- MODULE MCTunnelLink -----------------------------
(* Payloads up to 2 are allowed and lengths wrap at 6: sizes 1 and 2 fit,  *)
(* the answer to 2 and the request of 3 do not, and 7 looks like 1.  A     *)
(* stranger can send a whole AuthReq, with a wrong token.                  *)
EXTENDS TunnelLink

CONSTANTS x, y

MCStreams  == {x, y}
MCAuthReqs == [type : {"AuthReq"}, size : {1, 2, 3, 7}, token_ok : BOOLEAN, version : BOOLEAN]
MCPing     == [type |-> "Ping", size |-> 0, ok |-> TRUE]
MCGuess    == [type |-> "AuthReq", size |-> 1, token_ok |-> FALSE, version |-> TRUE]
MCMessages == MCAuthReqs \cup {MCPing}
                \cup [type : {"AuthRes"}, size : {1, 2, 4, 6, 14}, ok : BOOLEAN]
MCNoise    == {Header(1, "AuthReq", 1), Piece(MCGuess), Header(1, "AuthReq", 3), Header(2, "AuthReq", 0),
               Header(1, "0x0a", 0), Header(1, "Ping", 0), Piece(MCPing)}
=============================================================================
