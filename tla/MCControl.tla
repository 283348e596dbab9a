----------------------------- MODULE MCControl -----------------------------
(* The gateway's event loop over the store, the xDS client and the routing  *)
(* table, side by side: in a behaviour one of the three runs.  Meanwhile a  *)
(* gateway that started on an empty store, a client that has not connected  *)
(* and an empty table rest; fairness asks nothing of them.                  *)
EXTENDS MCGatewayBinds, MCRouteTable, XdsClient

VARIABLE part

GatewayRests ==
  /\ Init
  /\ started = TRUE /\ initial = {}
  /\ listening = [a \in Address |-> None]
  /\ state = [k \in BindTask |-> "gone"]
  /\ address = [k \in BindTask |-> a1]

ControlInit ==
  /\ part \in {"gateway", "routes", "xds"}
  /\ IF part = "gateway" THEN GwInit ELSE GatewayRests
  /\ TableInit /\ AdsInit

ControlNext ==
  /\ UNCHANGED part
  /\ \/ part = "gateway" /\ LocalNext /\ UNCHANGED <<tableVars, adsVars>>
     \/ part = "routes" /\ FreshNext /\ UNCHANGED <<allVars, adsVars>>
     \/ part = "xds" /\ AdsNext /\ UNCHANGED <<allVars, tableVars>>

ControlSpec ==
  /\ ControlInit /\ [][ControlNext]_<<allVars, tableVars, adsVars, part>>
  /\ GwFairness /\ AdsFairness
=============================================================================
