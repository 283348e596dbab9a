--------------------------- MODULE DiscoveryStore ---------------------------
(***************************************************************************)
(* The store of workloads and services (store/discovery.rs) under the      *)
(* calls of its xDS handler.  Workloads and services arrive in any order:  *)
(* an endpoint whose service is missing is staged until the service comes. *)
(* Services and workloads are kept as shared snapshots in several maps     *)
(* (by_host and by_vip, by_uid and by_addr), which every call has to       *)
(* update together.                                                        *)
(*                                                                         *)
(* by_host goes by hostname and then by namespace; the pair is the name of *)
(* a service here.  Every call holds the write lock and is one action.     *)
(***************************************************************************)
EXTENDS Naturals, Nil

CONSTANTS
  Uid,            \* workloads
  ServiceName,    \* namespace/hostname
  Vip, Ip

Status == {"Healthy", "Unhealthy"}
Policy == {"OnlyHealthy", "AllowAll"}

(* What arrives over xDS; host_network workloads are not looked up by address. *)
Workload == [status : Status, services : SUBSET ServiceName, workload_ips : SUBSET Ip,
             host_network : BOOLEAN]

(* Endpoints by workload; of an Endpoint its status is kept. *)
EndpointSet == [Uid -> Status \cup {None}]
Service == [vips : SUBSET Vip, health_policy : Policy, endpoints : EndpointSet]

ASSUME DiscAssumption ==
  None \notin Status \cup Workload \cup Service \cup [name : ServiceName, service : Service]

VARIABLES
  by_uid, by_addr,               \* workloads; of a list, how often it has each one
  by_host, by_vip,               \* services; by_vip has copies with the name
  staged_services                \* endpoints of services that are not there yet

workloads == <<by_uid, by_addr>>
services == <<by_host, by_vip, staged_services>>
discVars == <<workloads, services>>

NoEndpoints == [u \in Uid |-> None]

Nobody == [x \in {} |-> 0]

DiscInit ==
  /\ by_uid = [u \in Uid |-> None]
  /\ by_addr = [a \in Ip |-> Nobody]
  /\ by_host = [s \in ServiceName |-> None]
  /\ by_vip = [v \in Vip |-> None]
  /\ staged_services = [s \in ServiceName |-> NoEndpoints]

-----------------------------------------------------------------------------
(* Service::should_include_endpoint. *)
ShouldInclude(service, status) == status = "Healthy" \/ service.health_policy = "AllowAll"

(* The endpoints of two sets that the service accepts, those of the second first. *)
Including(service, old, new) ==
  [service EXCEPT !.endpoints = [u \in Uid |->
     IF new[u] # None /\ ShouldInclude(service, new[u]) THEN new[u]
     ELSE IF old[u] # None /\ ShouldInclude(service, old[u]) THEN old[u] ELSE None]]

(* Mutant of WithoutAddr: an address with several workloads loses them all. *)
WithoutAddrMany(u) ==
  [a \in Ip |-> IF \E x \in DOMAIN by_addr[a] : x.uid = u THEN Nobody ELSE by_addr[a]]

(* WorkloadByAddr::remove_uid and insert: the lists without, and with, a workload. *)
WithoutAddr(u) ==
  [a \in Ip |-> [x \in {y \in DOMAIN by_addr[a] : y.uid # u} |-> by_addr[a][x]]]

Pushed(list, x) ==
  [e \in DOMAIN list \cup {x} |-> IF e \notin DOMAIN list THEN 1
                                ELSE IF e = x THEN list[e] + 1 ELSE list[e]]

WithAddr(addrs, u, w) ==
  [a \in Ip |-> IF a \in w.workload_ips /\ ~w.host_network
                THEN Pushed(addrs[a], [uid |-> u, workload |-> w]) ELSE addrs[a]]

(* The services whose endpoints have to be cleaned up. *)
WorkloadServices(u) == IF by_uid[u] = None THEN {} ELSE by_uid[u].services

(* ServiceStore::remove_endpoint on both maps, for the services the stored
   workload lists. *)
WithoutStaged(u) ==
  [s \in ServiceName |-> IF s \in WorkloadServices(u)
                         THEN [staged_services[s] EXCEPT ![u] = None] ELSE staged_services[s]]

WithoutEndpoint(u) ==
  [s \in ServiceName |->
     IF s \in WorkloadServices(u) /\ by_host[s] # None
     THEN [by_host[s] EXCEPT !.endpoints[u] = None] ELSE by_host[s]]

(* ServiceStore::insert_endpoint: accepted, skipped or staged. *)
WithEndpoint(hosts, u, w) ==
  [s \in ServiceName |->
     IF s \in w.services /\ hosts[s] # None /\ ShouldInclude(hosts[s], w.status)
     THEN [hosts[s] EXCEPT !.endpoints[u] = w.status] ELSE hosts[s]]

WithStaged(hosts, staged, u, w) ==
  [s \in ServiceName |-> IF s \in w.services /\ hosts[s] = None
                         THEN [staged[s] EXCEPT ![u] = w.status] ELSE staged[s]]

(* insert_internal maps every vip of the services it writes; of several services
   with one vip the last one written has it, and HashMap order decides. *)
VipsOf(touched, hosts, vips) ==
  {new \in [Vip -> [name : touched, service : {hosts[s] : s \in touched}] \cup {vips[v] : v \in Vip}] :
     \A v \in Vip :
       LET owners == {s \in touched : v \in hosts[s].vips}
       IN IF owners = {} THEN new[v] = vips[v]
          ELSE \E s \in owners : new[v] = [name |-> s, service |-> hosts[s]]}

(* The services that an endpoint of the workload is written to. *)
Accepting(hosts, w) ==
  {s \in w.services : hosts[s] # None /\ ShouldInclude(hosts[s], w.status)}

-----------------------------------------------------------------------------
(* Mutant of InsertWorkload: the previous workload's endpoints are not removed. *)
InsertWorkloadOver(u, w) ==
  /\ by_uid' = [by_uid EXCEPT ![u] = w]
  /\ by_addr' = WithAddr(WithoutAddr(u), u, w)
  /\ by_host' = WithEndpoint(by_host, u, w)
  /\ staged_services' = WithStaged(by_host, staged_services, u, w)
  /\ by_vip' \in VipsOf(Accepting(by_host, w), by_host', by_vip)

(* Store::insert_workload: remove_workload_for_insert, then insert. *)
InsertWorkload(u, w) ==
  LET hosts == WithoutEndpoint(u)
      left == {s \in WorkloadServices(u) : by_host[s] # None}
  IN /\ by_uid' = [by_uid EXCEPT ![u] = w]
     /\ by_addr' = WithAddr(WithoutAddr(u), u, w)
     /\ by_host' = WithEndpoint(hosts, u, w)
     /\ staged_services' = WithStaged(hosts, WithoutStaged(u), u, w)
     /\ by_vip' \in UNION {VipsOf(Accepting(hosts, w), by_host', vips) : vips \in VipsOf(left, hosts, by_vip)}

(* Store::remove for the name of a workload. *)
RemoveWorkload(u) ==
  LET left == {s \in WorkloadServices(u) : by_host[s] # None}
  IN /\ by_uid[u] # None
     /\ by_uid' = [by_uid EXCEPT ![u] = None]
     /\ by_addr' = WithoutAddr(u)
     /\ by_host' = WithoutEndpoint(u)
     /\ staged_services' = WithoutStaged(u)
     /\ by_vip' \in VipsOf(left, by_host', by_vip)

(* The vips of a service that goes are unmapped, whichever service has them. *)
WithoutVips(s) ==
  [v \in Vip |-> IF by_host[s] # None /\ v \in by_host[s].vips THEN None ELSE by_vip[v]]

(* Mutants of InsertService: the previous endpoints are lost; the previous vips stay. *)
InsertServiceFresh(s, vips, policy) ==
  LET service == Including([vips |-> vips, health_policy |-> policy, endpoints |-> NoEndpoints],
                           NoEndpoints, staged_services[s])
  IN /\ by_host' = [by_host EXCEPT ![s] = service]
     /\ by_vip' = [v \in Vip |-> IF v \in vips THEN [name |-> s, service |-> service]
                                 ELSE WithoutVips(s)[v]]
     /\ staged_services' = [staged_services EXCEPT ![s] = NoEndpoints]
     /\ UNCHANGED workloads
InsertServiceKeepsVips(s, vips, policy) ==
  LET prev == IF by_host[s] = None THEN NoEndpoints ELSE by_host[s].endpoints
      service == Including([vips |-> vips, health_policy |-> policy, endpoints |-> NoEndpoints],
                           prev, staged_services[s])
  IN /\ by_host' = [by_host EXCEPT ![s] = service]
     /\ by_vip' = [v \in Vip |-> IF v \in vips THEN [name |-> s, service |-> service] ELSE by_vip[v]]
     /\ staged_services' = [staged_services EXCEPT ![s] = NoEndpoints]
     /\ UNCHANGED workloads

(* Store::insert_service: the endpoints of the previous service and the staged
   ones that the new service accepts. *)
InsertService(s, vips, policy) ==
  LET prev == IF by_host[s] = None THEN NoEndpoints ELSE by_host[s].endpoints
      service == Including([vips |-> vips, health_policy |-> policy, endpoints |-> NoEndpoints],
                           prev, staged_services[s])
  IN /\ by_host' = [by_host EXCEPT ![s] = service]
     /\ by_vip' = [v \in Vip |-> IF v \in vips THEN [name |-> s, service |-> service]
                                 ELSE WithoutVips(s)[v]]
     /\ staged_services' = [staged_services EXCEPT ![s] = NoEndpoints]
     /\ UNCHANGED workloads

(* Store::remove for the name of a service. *)
RemoveService(s) ==
  /\ by_host[s] # None
  /\ by_host' = [by_host EXCEPT ![s] = None]
  /\ by_vip' = WithoutVips(s)
  /\ staged_services' = [staged_services EXCEPT ![s] = NoEndpoints]
  /\ UNCHANGED workloads

DiscNext ==
  \/ \E u \in Uid : RemoveWorkload(u) \/ \E w \in Workload : InsertWorkload(u, w)
  \/ \E s \in ServiceName :
       RemoveService(s) \/ \E vips \in SUBSET Vip, policy \in Policy : InsertService(s, vips, policy)

DiscSpec == DiscInit /\ [][DiscNext]_discVars

-----------------------------------------------------------------------------
(* Properties *)

(* No service balances to a workload that is gone, that has left the service,
   or whose health it does not accept: each endpoint, staged ones included, is
   that of a present workload with its present status. *)
EndpointsSound ==
  \A s \in ServiceName, u \in Uid :
    /\ staged_services[s][u] # None =>
         /\ by_host[s] = None
         /\ by_uid[u] # None /\ s \in by_uid[u].services /\ by_uid[u].status = staged_services[s][u]
    /\ by_host[s] # None /\ by_host[s].endpoints[u] # None =>
         /\ by_uid[u] # None /\ s \in by_uid[u].services
         /\ by_uid[u].status = by_host[s].endpoints[u]
         /\ ShouldInclude(by_host[s], by_host[s].endpoints[u])

(* The services found by address are the ones found by name, not older copies. *)
VipsCurrent ==
  \A v \in Vip : by_vip[v] # None =>
    /\ by_host[by_vip[v].name] = by_vip[v].service
    /\ v \in by_vip[v].service.vips

WithAddress(a) == {u \in Uid : by_uid[u] # None /\ a \in by_uid[u].workload_ips /\ ~by_uid[u].host_network}

(* The workloads found by address are exactly the present ones with the address,
   each of them once. *)
AddressesExact ==
  \A a \in Ip :
    by_addr[a] = [x \in {[uid |-> u, workload |-> by_uid[u]] : u \in WithAddress(a)} |-> 1]

(* The maps of the store agree with each other. *)
StoreConsistent == EndpointsSound /\ VipsCurrent /\ AddressesExact

Wants(s, u) == by_uid[u] # None /\ s \in by_uid[u].services /\ by_uid[u].status = "Healthy"

Joined(s, u) ==
  IF by_host[s] = None THEN staged_services[s][u] # None ELSE by_host[s].endpoints[u] # None

(* A healthy workload becomes an endpoint of the services it lists, or is staged
   for them, and stays so through every update of either; only the removal of
   the service itself loses it. *)
HealthyEndpointsKept ==
  [][\A s \in ServiceName, u \in Uid :
       Wants(s, u)' /\ (Wants(s, u) => Joined(s, u)) =>
         Joined(s, u)' \/ (by_host[s] # None /\ by_host'[s] = None)]_discVars
=============================================================================
