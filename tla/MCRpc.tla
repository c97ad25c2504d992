------------------------------- MODULE MCRpc -------------------------------
(* Values for TLC: two callers, both of which may open the handshake: one by *)
(* an operation, the other by `initialize` itself, beside raw requests.      *)
EXTENDS Rpc

CONSTANTS c1, c2

MCWants == c1 :> {"operation"} @@ c2 :> {"initialize", "request"}
=============================================================================
