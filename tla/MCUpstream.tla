----------------------------- MODULE MCUpstream -----------------------------
(* The DNS cache and the pool of HBONE connections on small sets, side by   *)
(* side: in a behaviour one of the two runs.  In the initial state of the   *)
(* other nothing is under way, so that fairness asks nothing of it.         *)
EXTENDS DnsCache, HbonePool

VARIABLE part

MCAnswer == {<<"a">>, <<"a", "b">>}

(* All keys have the same hash. *)
MCHashOf == [k \in Key |-> CHOOSE h \in Hash : TRUE]

UpstreamInit ==
  /\ DnsInit /\ HboneInit
  /\ part \in {"dns", "hbone"}

UpstreamNext ==
  /\ UNCHANGED part
  /\ \/ part = "dns" /\ DnsNext /\ UNCHANGED hboneVars
     \/ part = "hbone" /\ HboneNext /\ UNCHANGED dnsVars

UpstreamSpec ==
  /\ UpstreamInit /\ [][UpstreamNext]_<<dnsVars, hboneVars, part>>
  /\ Fairness /\ HboneFairness
=============================================================================
