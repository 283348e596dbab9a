--------------------------- MODULE MCGatewayBinds ---------------------------
(* GatewayBinds with two binds on two addresses. *)
EXTENDS GatewayBinds

CONSTANTS b1, b2, a1, a2

MCAddressOf == [b \in {b1, b2} |-> IF b = b1 THEN a1 ELSE a2]
=============================================================================
