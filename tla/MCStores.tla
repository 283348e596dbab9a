------------------------------ MODULE MCStores ------------------------------
(* The two stores on small sets, side by side: in a behaviour one of them   *)
(* gets all the calls.                                                      *)
EXTENDS BindStore, DiscoveryStore, TLC

VARIABLE part

Symmetry == Permutations(Uid) \cup Permutations(ServiceName)

StoresInit ==
  /\ Init /\ DiscInit
  /\ part \in {"binds", "discovery"}

StoresNext ==
  /\ UNCHANGED part
  /\ \/ part = "binds" /\ (XdsCall \/ Recv) /\ UNCHANGED discVars
     \/ part = "discovery" /\ DiscNext /\ UNCHANGED vars

StoresSpec == StoresInit /\ [][StoresNext]_<<vars, discVars, part>>
=============================================================================
