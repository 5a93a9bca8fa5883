--------------------------- MODULE MCPowerServer ---------------------------
(* Clients and starts of the power server, for model checking. *)
EXTENDS PowerServer

CONSTANTS c1, c2

TwoClients == {c1, c2}
OneClient == {c1}

=============================================================================
