-------------------------- MODULE DiscoveryProofs ---------------------------
(***************************************************************************)
(* The discovery store.  EndpointsSound is inductive for the calls about   *)
(* workloads because remove_workload finds every endpoint of a workload in *)
(* the services it lists; by_vip needs the services it shows to be those of *)
(* by_host.  A call is a sequence of changes, so the lemmas follow the maps *)
(* from one to the next.                                                   *)
(***************************************************************************)
EXTENDS DiscoveryStore, TLAPS

Hosts == [ServiceName -> Service \cup {None}]
Vips == [Vip -> [name : ServiceName, service : Service] \cup {None}]

DiscTypes ==
  /\ by_uid \in [Uid -> Workload \cup {None}]
  /\ by_host \in Hosts
  /\ by_vip \in Vips
  /\ staged_services \in [ServiceName -> EndpointSet]

(* VipsCurrent of any two maps, for the steps in the middle of a call. *)
Current(hosts, vips) ==
  \A v \in Vip : vips[v] # None =>
    /\ hosts[vips[v].name] = vips[v].service
    /\ v \in vips[v].service.vips

(* The services of `to` differ from those of `from` only in the endpoint of u. *)
SameButEndpoint(from, to, u) ==
  \A s \in ServiceName :
    /\ to[s] = None <=> from[s] = None
    /\ from[s] # None =>
         /\ to[s].vips = from[s].vips /\ to[s].health_policy = from[s].health_policy
         /\ \A x \in Uid \ {u} : to[s].endpoints[x] = from[s].endpoints[x]

(* What a service of the store is made of. *)
LEMMA ServiceFields ==
  ASSUME NEW x \in Service
  PROVE  /\ x.vips \in SUBSET Vip /\ x.health_policy \in Policy
         /\ x.endpoints \in [Uid -> Status \cup {None}] /\ x # None
  BY DiscAssumption DEF Service, EndpointSet

(* remove_workload takes the endpoint out of the services the workload lists;
   EndpointsSound says that no other service has it. *)
LEMMA WithoutEndpointIs ==
  ASSUME DiscTypes, EndpointsSound, NEW u \in Uid
  PROVE  /\ WithoutEndpoint(u) \in Hosts
         /\ SameButEndpoint(by_host, WithoutEndpoint(u), u)
         /\ \A s \in ServiceName : WithoutEndpoint(u)[s] # None => WithoutEndpoint(u)[s].endpoints[u] = None
         /\ \A s \in ServiceName : s \notin WorkloadServices(u) => WithoutEndpoint(u)[s] = by_host[s]
  <1> DEFINE H == WithoutEndpoint(u)
  <1>1. ASSUME NEW s \in ServiceName, s \in WorkloadServices(u), by_host[s] # None
        PROVE  /\ H[s] \in Service /\ H[s].vips = by_host[s].vips
               /\ H[s].health_policy = by_host[s].health_policy /\ H[s].endpoints[u] = None
               /\ \A x \in Uid \ {u} : H[s].endpoints[x] = by_host[s].endpoints[x]
    <2>1. H[s] = [by_host[s] EXCEPT !.endpoints[u] = None] /\ by_host[s] \in Service
      BY <1>1 DEF WithoutEndpoint, DiscTypes, Hosts
    <2> HIDE DEF H
    <2> QED
      BY <2>1 DEF Service, EndpointSet
  <1>2. ASSUME NEW s \in ServiceName, s \notin WorkloadServices(u) \/ by_host[s] = None
        PROVE  H[s] = by_host[s]
    BY <1>2 DEF WithoutEndpoint
  <1>3. ASSUME NEW s \in ServiceName, s \notin WorkloadServices(u), by_host[s] # None
        PROVE  by_host[s].endpoints[u] = None
    BY <1>3 DEF EndpointsSound, WorkloadServices
  <1>4. H = [s \in ServiceName |-> H[s]]
    BY DEF WithoutEndpoint
  <1>t. by_host \in [ServiceName -> Service \cup {None}]
    BY DEF DiscTypes, Hosts
  <1>5. \A s \in ServiceName : by_host[s] = None \/ by_host[s] \in Service
    BY <1>t
  <1> HIDE DEF H
  <1>6. \A s \in ServiceName : H[s] \in Service \cup {None}
    BY <1>1, <1>2, <1>5
  <1>7. H \in Hosts
    BY <1>4, <1>6 DEF Hosts
  <1>8. SameButEndpoint(by_host, H, u)
    BY <1>1, <1>2, ServiceFields DEF SameButEndpoint
  <1> QED
    BY <1>1, <1>2, <1>3, <1>7, <1>8 DEF H

(* insert_workload gives its endpoint to exactly the present services that
   accept it. *)
LEMMA WithEndpointIs ==
  ASSUME NEW hosts \in Hosts, NEW u \in Uid, NEW w \in Workload
  PROVE  /\ WithEndpoint(hosts, u, w) \in Hosts
         /\ SameButEndpoint(hosts, WithEndpoint(hosts, u, w), u)
         /\ \A s \in ServiceName :
              IF s \in Accepting(hosts, w)
              THEN WithEndpoint(hosts, u, w)[s].endpoints[u] = w.status
              ELSE WithEndpoint(hosts, u, w)[s] = hosts[s]
  <1> DEFINE H == WithEndpoint(hosts, u, w)
  <1>1. ASSUME NEW s \in ServiceName, s \in Accepting(hosts, w)
        PROVE  /\ H[s] \in Service /\ H[s].vips = hosts[s].vips
               /\ H[s].health_policy = hosts[s].health_policy /\ H[s].endpoints[u] = w.status
               /\ \A x \in Uid \ {u} : H[s].endpoints[x] = hosts[s].endpoints[x]
               /\ hosts[s] # None
    <2>1. H[s] = [hosts[s] EXCEPT !.endpoints[u] = w.status] /\ hosts[s] \in Service /\ hosts[s] # None
      BY <1>1 DEF WithEndpoint, Accepting, Hosts
    <2>2. w.status \in Status \cup {None}
      BY DEF Workload
    <2> HIDE DEF H
    <2> QED
      BY <2>1, <2>2 DEF Service, EndpointSet
  <1>2. ASSUME NEW s \in ServiceName, s \notin Accepting(hosts, w)
        PROVE  H[s] = hosts[s]
    BY <1>2 DEF WithEndpoint, Accepting
  <1>4. H = [s \in ServiceName |-> H[s]]
    BY DEF WithEndpoint
  <1>5. \A s \in ServiceName : hosts[s] = None \/ hosts[s] \in Service
    BY DEF Hosts
  <1> HIDE DEF H
  <1>6. \A s \in ServiceName : H[s] \in Service \cup {None}
    BY <1>1, <1>2, <1>5
  <1>7. H \in Hosts
    BY <1>4, <1>6 DEF Hosts
  <1>8. SameButEndpoint(hosts, H, u)
    BY <1>1, <1>2, ServiceFields DEF SameButEndpoint
  <1> QED
    BY <1>1, <1>2, <1>7, <1>8 DEF H

(* insert_internal keeps the copies by address current. *)
LEMMA VipsOfCurrent ==
  ASSUME NEW from \in Hosts, NEW to \in Hosts, NEW u \in Uid, SameButEndpoint(from, to, u),
         NEW touched \in SUBSET ServiceName, \A s \in touched : from[s] # None,
         \A s \in ServiceName \ touched : to[s] = from[s],
         NEW vips \in Vips, Current(from, vips),
         NEW new \in VipsOf(touched, to, vips)
  PROVE  new \in Vips /\ Current(to, new)
  <1>1. ASSUME NEW v \in Vip
        PROVE  \/ (\A s \in touched : v \notin to[s].vips) /\ new[v] = vips[v]
               \/ \E s \in touched : v \in to[s].vips /\ new[v] = [name |-> s, service |-> to[s]]
    BY DEF VipsOf
  <1>2. DOMAIN new = Vip /\ new = [v \in Vip |-> new[v]]
    BY DEF VipsOf
  <1>3. \A s \in touched : to[s] \in Service
    BY DEF SameButEndpoint, Hosts
  <1>4. ASSUME NEW v \in Vip
        PROVE  /\ new[v] \in [name : ServiceName, service : Service] \cup {None}
               /\ new[v] # None => to[new[v].name] = new[v].service /\ v \in new[v].service.vips
    <2>1. CASE (\A s \in touched : v \notin to[s].vips) /\ new[v] = vips[v]
      <3>1. vips[v] \in [name : ServiceName, service : Service] \cup {None}
        BY DEF Vips
      <3>2. ASSUME vips[v] # None
            PROVE  to[vips[v].name] = vips[v].service /\ v \in vips[v].service.vips
        <4>1. PICK s \in ServiceName : s = vips[v].name
          BY <3>1, <3>2
        <4>2. from[s] = vips[v].service /\ v \in from[s].vips /\ vips[v].service \in Service
          BY <3>1, <3>2, <4>1 DEF Current
        <4>3. s \notin touched
          BY <2>1, <4>2 DEF SameButEndpoint
        <4> QED
          BY <4>1, <4>2, <4>3
      <3> QED
        BY <2>1, <3>1, <3>2
    <2>2. ASSUME NEW s \in touched, v \in to[s].vips, new[v] = [name |-> s, service |-> to[s]]
          PROVE  <1>4!2
      BY <1>3, <2>2
    <2> QED
      BY Zenon, <1>1, <2>1, <2>2
  <1> QED
    BY <1>2, <1>4 DEF Vips, Current

(* After the removal no service has an endpoint of the workload staged. *)
LEMMA WithoutStagedIs ==
  ASSUME DiscTypes, EndpointsSound, NEW u \in Uid
  PROVE  /\ WithoutStaged(u) \in [ServiceName -> EndpointSet]
         /\ \A s \in ServiceName :
              /\ WithoutStaged(u)[s][u] = None
              /\ \A x \in Uid \ {u} : WithoutStaged(u)[s][x] = staged_services[s][x]
  <1>1. ASSUME NEW s \in ServiceName, s \notin WorkloadServices(u)
        PROVE  staged_services[s][u] = None
    BY <1>1 DEF EndpointsSound, WorkloadServices
  <1> QED
    BY <1>1 DEF WithoutStaged, DiscTypes, EndpointSet

(* Endpoints of absent services wait in staged_services. *)
LEMMA WithStagedIs ==
  ASSUME NEW hosts \in Hosts, NEW staged \in [ServiceName -> EndpointSet], NEW u \in Uid, NEW w \in Workload
  PROVE  /\ WithStaged(hosts, staged, u, w) \in [ServiceName -> EndpointSet]
         /\ \A s \in ServiceName :
              /\ WithStaged(hosts, staged, u, w)[s][u] =
                   IF s \in w.services /\ hosts[s] = None THEN w.status ELSE staged[s][u]
              /\ \A x \in Uid \ {u} : WithStaged(hosts, staged, u, w)[s][x] = staged[s][x]
  <1>1. w.status \in Status
    BY DEF Workload
  <1> QED
    BY <1>1 DEF WithStaged, EndpointSet

(* What a workload is made of. *)
LEMMA WorkloadFields ==
  ASSUME NEW w \in Workload
  PROVE  /\ w.status \in Status /\ w.services \in SUBSET ServiceName
         /\ w.workload_ips \in SUBSET Ip /\ w # None /\ w.status # None
  BY DiscAssumption DEF Workload

(* What a call about workload u does to the services. *)
LEMMA WorkloadCallKeeps ==
  ASSUME DiscTypes, EndpointsSound, NEW u \in Uid, NEW w \in Workload \cup {None},
         by_uid' = [by_uid EXCEPT ![u] = w],
         by_host' \in Hosts, SameButEndpoint(by_host, by_host', u),
         staged_services' \in [ServiceName -> EndpointSet],
         \A s \in ServiceName : \A x \in Uid \ {u} : staged_services'[s][x] = staged_services[s][x],
         \A s \in ServiceName :
           /\ by_host'[s] # None /\ by_host'[s].endpoints[u] # None =>
                /\ w # None /\ s \in w.services /\ by_host'[s].endpoints[u] = w.status
                /\ ShouldInclude(by_host'[s], w.status)
           /\ staged_services'[s][u] # None =>
                /\ by_host'[s] = None /\ w # None /\ s \in w.services
                /\ staged_services'[s][u] = w.status
  PROVE  EndpointsSound'
  <1> SUFFICES ASSUME NEW s \in ServiceName, NEW x \in Uid
      PROVE  /\ staged_services'[s][x] # None =>
                  /\ by_host'[s] = None
                  /\ by_uid'[x] # None /\ s \in by_uid'[x].services /\ by_uid'[x].status = staged_services'[s][x]
             /\ by_host'[s] # None /\ by_host'[s].endpoints[x] # None =>
                  /\ by_uid'[x] # None /\ s \in by_uid'[x].services
                  /\ by_uid'[x].status = by_host'[s].endpoints[x]
                  /\ ShouldInclude(by_host'[s], by_host'[s].endpoints[x])
    BY DEF EndpointsSound, ShouldInclude
  <1>1. CASE x = u
    <2>1. by_uid'[x] = w
      BY <1>1 DEF DiscTypes
    <2> QED
      BY <1>1, <2>1
  <1>2. CASE x # u
    <2>1. by_uid'[x] = by_uid[x]
      BY <1>2 DEF DiscTypes
    <2>2. staged_services'[s][x] = staged_services[s][x]
      BY <1>2
    <2>3. /\ by_host'[s] = None <=> by_host[s] = None
          /\ by_host[s] # None => /\ by_host'[s].health_policy = by_host[s].health_policy
                                 /\ by_host'[s].endpoints[x] = by_host[s].endpoints[x]
      BY <1>2 DEF SameButEndpoint
    <2> QED
      BY <2>1, <2>2, <2>3 DEF EndpointsSound, ShouldInclude
  <1> QED
    BY <1>1, <1>2

(* insert_workload, which removes the previous workload of the name first. *)
LEMMA InsertWorkloadKeeps ==
  ASSUME DiscTypes, EndpointsSound, VipsCurrent, NEW u \in Uid, NEW w \in Workload, InsertWorkload(u, w)
  PROVE  DiscTypes' /\ EndpointsSound' /\ VipsCurrent'
  <1> DEFINE H == WithoutEndpoint(u)
             left == {s \in WorkloadServices(u) : by_host[s] # None}
             G == WithoutStaged(u)
             acc == Accepting(H, w)
  <1>1. /\ H \in Hosts /\ SameButEndpoint(by_host, H, u)
        /\ \A s \in ServiceName : H[s] # None => H[s].endpoints[u] = None
        /\ \A s \in ServiceName : s \notin WorkloadServices(u) => H[s] = by_host[s]
    BY WithoutEndpointIs
  <1>2. /\ by_uid' = [by_uid EXCEPT ![u] = w]
        /\ by_host' = WithEndpoint(H, u, w)
        /\ staged_services' = WithStaged(H, G, u, w)
        /\ by_vip' \in UNION {VipsOf(acc, by_host', vips) : vips \in VipsOf(left, H, by_vip)}
    BY DEF InsertWorkload
  <1>3. left \subseteq ServiceName /\ \A s \in left : by_host[s] # None
    BY DEF WorkloadServices, DiscTypes, Workload
  <1>4. \A s \in ServiceName \ left : H[s] = by_host[s]
    BY <1>1 DEF SameButEndpoint
  <1>5. acc \subseteq ServiceName /\ \A s \in acc : H[s] # None /\ ShouldInclude(H[s], w.status) /\ s \in w.services
    BY WorkloadFields DEF Accepting
  <1>8. /\ G \in [ServiceName -> EndpointSet]
        /\ \A s \in ServiceName :
             /\ G[s][u] = None
             /\ \A x \in Uid \ {u} : G[s][x] = staged_services[s][x]
    BY WithoutStagedIs
  <1> HIDE DEF H, G, left, acc
  <1>6. /\ by_host' \in Hosts /\ SameButEndpoint(H, by_host', u)
        /\ \A s \in ServiceName :
             IF s \in acc THEN by_host'[s].endpoints[u] = w.status ELSE by_host'[s] = H[s]
    BY <1>1, <1>2, WithEndpointIs DEF acc
  <1>7. by_vip' \in Vips /\ VipsCurrent'
    <2>1. PICK vips \in VipsOf(left, H, by_vip) : by_vip' \in VipsOf(acc, by_host', vips)
      BY <1>2
    <2>2. by_host \in Hosts /\ by_vip \in Vips /\ Current(by_host, by_vip)
      BY DEF DiscTypes, VipsCurrent, Current
    <2>3. vips \in Vips /\ Current(H, vips)
      BY <1>1, <1>3, <1>4, <2>1, <2>2, VipsOfCurrent
    <2>4. by_vip' \in Vips /\ Current(by_host', by_vip')
      BY <1>1, <1>5, <1>6, <2>1, <2>3, VipsOfCurrent
    <2> QED
      BY <2>4 DEF VipsCurrent, Current
  <1>9. /\ staged_services' \in [ServiceName -> EndpointSet]
        /\ \A s \in ServiceName :
             /\ staged_services'[s][u] = IF s \in w.services /\ H[s] = None THEN w.status ELSE None
             /\ \A x \in Uid \ {u} : staged_services'[s][x] = staged_services[s][x]
    <2>1. /\ WithStaged(H, G, u, w) \in [ServiceName -> EndpointSet]
          /\ \A s \in ServiceName :
               /\ WithStaged(H, G, u, w)[s][u] =
                    IF s \in w.services /\ H[s] = None THEN w.status ELSE G[s][u]
               /\ \A x \in Uid \ {u} : WithStaged(H, G, u, w)[s][x] = G[s][x]
      BY <1>1, <1>8, WithStagedIs
    <2> QED
      BY <1>2, <1>8, <2>1
  <1>10. SameButEndpoint(by_host, by_host', u)
    BY <1>1, <1>6 DEF SameButEndpoint
  <1>11. \A s \in ServiceName :
           /\ by_host'[s] # None /\ by_host'[s].endpoints[u] # None =>
                /\ w # None /\ s \in w.services /\ by_host'[s].endpoints[u] = w.status
                /\ ShouldInclude(by_host'[s], w.status)
           /\ staged_services'[s][u] # None =>
                /\ by_host'[s] = None /\ w # None /\ s \in w.services
                /\ staged_services'[s][u] = w.status
    BY <1>1, <1>5, <1>6, <1>9, WorkloadFields DEF SameButEndpoint, ShouldInclude
  <1>12. EndpointsSound'
    <2>1. w \in Workload \cup {None} /\ by_uid' = [by_uid EXCEPT ![u] = w]
      BY <1>2
    <2>2. \A s \in ServiceName : \A x \in Uid \ {u} : staged_services'[s][x] = staged_services[s][x]
      BY <1>9
    <2>3. by_host' \in Hosts /\ staged_services' \in [ServiceName -> EndpointSet]
      BY <1>6, <1>9
    <2> QED
      BY Zenon, <1>10, <1>11, <2>1, <2>2, <2>3, WorkloadCallKeeps
  <1>13. by_uid' \in [Uid -> Workload \cup {None}]
    BY <1>2 DEF DiscTypes
  <1> QED
    BY <1>6, <1>7, <1>9, <1>12, <1>13 DEF DiscTypes

(* remove_workload. *)
LEMMA RemoveWorkloadKeeps ==
  ASSUME DiscTypes, EndpointsSound, VipsCurrent, NEW u \in Uid, RemoveWorkload(u)
  PROVE  DiscTypes' /\ EndpointsSound' /\ VipsCurrent'
  <1> DEFINE left == {s \in WorkloadServices(u) : by_host[s] # None}
  <1>1. /\ by_uid' = [by_uid EXCEPT ![u] = None]
        /\ by_host' = WithoutEndpoint(u)
        /\ staged_services' = WithoutStaged(u)
        /\ by_vip' \in VipsOf(left, by_host', by_vip)
    BY DEF RemoveWorkload
  <1>2. /\ by_host' \in Hosts /\ SameButEndpoint(by_host, by_host', u)
        /\ \A s \in ServiceName : by_host'[s] # None => by_host'[s].endpoints[u] = None
        /\ \A s \in ServiceName : s \notin WorkloadServices(u) => by_host'[s] = by_host[s]
    BY <1>1, WithoutEndpointIs
  <1>3. left \subseteq ServiceName /\ \A s \in left : by_host[s] # None
    BY DEF WorkloadServices, DiscTypes, Workload
  <1>4. \A s \in ServiceName \ left : by_host'[s] = by_host[s]
    BY <1>2 DEF SameButEndpoint
  <1> HIDE DEF left
  <1>5. by_vip' \in Vips /\ VipsCurrent'
    <2>1. by_host \in Hosts /\ by_vip \in Vips /\ Current(by_host, by_vip)
      BY DEF DiscTypes, VipsCurrent, Current
    <2>2. by_vip' \in Vips /\ Current(by_host', by_vip')
      BY <1>1, <1>2, <1>3, <1>4, <2>1, VipsOfCurrent
    <2> QED
      BY <2>2 DEF VipsCurrent, Current
  <1>6. /\ staged_services' \in [ServiceName -> EndpointSet]
        /\ \A s \in ServiceName :
             /\ staged_services'[s][u] = None
             /\ \A x \in Uid \ {u} : staged_services'[s][x] = staged_services[s][x]
    BY <1>1, WithoutStagedIs
  <1>7. EndpointsSound'
    BY Zenon, <1>1, <1>2, <1>6, WorkloadCallKeeps
  <1>8. by_uid' \in [Uid -> Workload \cup {None}]
    BY <1>1 DEF DiscTypes
  <1> QED
    BY <1>2, <1>5, <1>6, <1>7, <1>8 DEF DiscTypes

(* The service that insert_service builds. *)
LEMMA IncludingIs ==
  ASSUME NEW vips \in SUBSET Vip, NEW policy \in Policy, NEW old \in EndpointSet, NEW new \in EndpointSet,
         NEW y, y = Including([vips |-> vips, health_policy |-> policy, endpoints |-> NoEndpoints], old, new)
  PROVE  /\ y \in Service /\ y.vips = vips /\ y.health_policy = policy
         /\ \A u \in Uid :
              /\ y.endpoints[u] \in {None, old[u], new[u]}
              /\ y.endpoints[u] # None => ShouldInclude(y, y.endpoints[u])
              /\ new[u] # None /\ ShouldInclude(y, new[u]) => y.endpoints[u] = new[u]
              /\ (new[u] = None \/ ~ShouldInclude(y, new[u])) /\ old[u] # None /\ ShouldInclude(y, old[u])
                   => y.endpoints[u] = old[u]
  <1> DEFINE base == [vips |-> vips, health_policy |-> policy, endpoints |-> NoEndpoints]
             ends == [u \in Uid |->
                        IF new[u] # None /\ ShouldInclude(base, new[u]) THEN new[u]
                        ELSE IF old[u] # None /\ ShouldInclude(base, old[u]) THEN old[u] ELSE None]
  <1>1. y = [base EXCEPT !.endpoints = ends]
    BY DEF Including
  <1>2. ends \in EndpointSet
    BY DEF EndpointSet
  <1>3. \A st : ShouldInclude(base, st) <=> (st = "Healthy" \/ policy = "AllowAll")
    BY DEF ShouldInclude
  <1>4. \A u \in Uid : ends[u] = IF new[u] # None /\ ShouldInclude(base, new[u]) THEN new[u]
                        ELSE IF old[u] # None /\ ShouldInclude(base, old[u]) THEN old[u] ELSE None
    OBVIOUS
  <1> HIDE DEF ends
  <1>5. y.vips = vips /\ y.health_policy = policy /\ y.endpoints = ends
    BY <1>1
  <1>6. y \in Service
    BY <1>1, <1>2 DEF Service
  <1>7. \A st : ShouldInclude(y, st) <=> ShouldInclude(base, st)
    BY <1>3, <1>5 DEF ShouldInclude
  <1> QED
    BY <1>4, <1>5, <1>6, <1>7

(* insert_service: the endpoints come from the previous service and from the
   staged ones. *)
LEMMA InsertServiceKeeps ==
  ASSUME DiscTypes, EndpointsSound, VipsCurrent, NEW s \in ServiceName, NEW vips \in SUBSET Vip,
         NEW policy \in Policy, InsertService(s, vips, policy)
  PROVE  DiscTypes' /\ EndpointsSound' /\ VipsCurrent'
  <1> DEFINE prev == IF by_host[s] = None THEN NoEndpoints ELSE by_host[s].endpoints
             svc == Including([vips |-> vips, health_policy |-> policy, endpoints |-> NoEndpoints],
                              prev, staged_services[s])
  <1>1. /\ by_host' = [by_host EXCEPT ![s] = svc]
        /\ by_vip' = [v \in Vip |-> IF v \in vips THEN [name |-> s, service |-> svc] ELSE WithoutVips(s)[v]]
        /\ staged_services' = [staged_services EXCEPT ![s] = NoEndpoints]
        /\ by_uid' = by_uid
    BY DEF InsertService, workloads
  <1>2. NoEndpoints \in EndpointSet /\ staged_services[s] \in EndpointSet /\ prev \in EndpointSet
    BY DEF NoEndpoints, EndpointSet, DiscTypes, Hosts, Service
  <1>3. \A u \in Uid : prev[u] # None => by_host[s] # None /\ prev[u] = by_host[s].endpoints[u]
    BY Zenon DEF NoEndpoints
  <1> HIDE DEF prev
  <1>4. /\ svc \in Service /\ svc.vips = vips /\ svc.health_policy = policy
        /\ \A u \in Uid :
             /\ svc.endpoints[u] \in {None, prev[u], staged_services[s][u]}
             /\ svc.endpoints[u] # None => ShouldInclude(svc, svc.endpoints[u])
    BY <1>2, IncludingIs
  <1> HIDE DEF svc
  <1>5. /\ by_host' \in Hosts /\ by_host'[s] = svc /\ svc # None
        /\ \A t \in ServiceName \ {s} : by_host'[t] = by_host[t]
    BY <1>1, <1>4, ServiceFields DEF DiscTypes, Hosts
  <1>6. /\ staged_services' \in [ServiceName -> EndpointSet]
        /\ \A u \in Uid : staged_services'[s][u] = None
        /\ \A t \in ServiceName \ {s} : staged_services'[t] = staged_services[t]
    BY <1>1, <1>2 DEF DiscTypes, NoEndpoints
  <1>7. \A u \in Uid : svc.endpoints[u] # None =>
           by_uid[u] # None /\ s \in by_uid[u].services /\ by_uid[u].status = svc.endpoints[u]
    BY Zenon, <1>3, <1>4 DEF EndpointsSound
  <1>8. EndpointsSound'
    BY <1>1, <1>4, <1>5, <1>6, <1>7 DEF EndpointsSound, ShouldInclude
  <1>9. by_vip' \in Vips /\ VipsCurrent'
    <2>1. \A v \in vips : by_vip'[v] = [name |-> s, service |-> svc]
      BY <1>1
    <2>2. ASSUME NEW v \in Vip \ vips
          PROVE  by_vip'[v] = None \/ (by_vip'[v] = by_vip[v] /\ ~(by_host[s] # None /\ v \in by_host[s].vips))
      BY <1>1 DEF WithoutVips
    <2>3. ASSUME NEW v \in Vip, by_vip[v] # None
          PROVE  /\ by_vip[v] \in [name : ServiceName, service : Service]
                 /\ by_vip[v].name = s => by_host[s] # None /\ v \in by_host[s].vips
                 /\ by_host[by_vip[v].name] = by_vip[v].service /\ v \in by_vip[v].service.vips
      <3>1. by_vip[v] \in [name : ServiceName, service : Service]
        BY <2>3 DEF DiscTypes, Vips
      <3>2. by_host[by_vip[v].name] = by_vip[v].service /\ v \in by_vip[v].service.vips
        BY <2>3 DEF VipsCurrent
      <3>3. by_vip[v].service \in Service /\ by_vip[v].service # None
        BY <3>1, ServiceFields
      <3> QED
        BY <3>1, <3>2, <3>3
    <2>4. ASSUME NEW v \in Vip
          PROVE  /\ by_vip'[v] \in [name : ServiceName, service : Service] \cup {None}
                 /\ by_vip'[v] # None => by_host'[by_vip'[v].name] = by_vip'[v].service /\ v \in by_vip'[v].service.vips
      BY <1>4, <1>5, <2>1, <2>2, <2>3
    <2>5. by_vip' = [v \in Vip |-> by_vip'[v]]
      BY <1>1
    <2> QED
      BY <2>4, <2>5 DEF Vips, VipsCurrent
  <1> QED
    BY <1>1, <1>5, <1>6, <1>8, <1>9 DEF DiscTypes

(* remove_service. *)
LEMMA RemoveServiceKeeps ==
  ASSUME DiscTypes, EndpointsSound, VipsCurrent, NEW s \in ServiceName, RemoveService(s)
  PROVE  DiscTypes' /\ EndpointsSound' /\ VipsCurrent'
  <1>1. /\ by_host' \in Hosts /\ by_host'[s] = None
        /\ \A t \in ServiceName \ {s} : by_host'[t] = by_host[t]
    BY DEF RemoveService, DiscTypes, Hosts
  <1>2. /\ staged_services' \in [ServiceName -> EndpointSet]
        /\ \A u \in Uid : staged_services'[s][u] = None
        /\ \A t \in ServiceName \ {s} : staged_services'[t] = staged_services[t]
        /\ by_uid' = by_uid
    BY DEF RemoveService, DiscTypes, NoEndpoints, EndpointSet, workloads
  <1>3. EndpointsSound'
    BY <1>1, <1>2 DEF EndpointsSound, ShouldInclude
  <1>4. by_vip' = WithoutVips(s)
    BY DEF RemoveService
  <1>5. by_vip' \in Vips
    BY <1>4 DEF WithoutVips, DiscTypes, Vips
  <1>6. ASSUME NEW v \in Vip, by_vip'[v] # None
        PROVE  by_host'[by_vip'[v].name] = by_vip'[v].service /\ v \in by_vip'[v].service.vips
    <2>1. by_vip'[v] = by_vip[v] /\ ~(by_host[s] # None /\ v \in by_host[s].vips)
      BY <1>4, <1>6 DEF WithoutVips
    <2>2. by_vip[v] \in [name : ServiceName, service : Service]
      BY <1>6, <2>1 DEF DiscTypes, Vips
    <2>3. by_host[by_vip[v].name] = by_vip[v].service /\ v \in by_vip[v].service.vips
      BY <1>6, <2>1 DEF VipsCurrent
    <2>4. by_vip[v].service # None
      BY <2>2, ServiceFields
    <2>5. by_vip[v].name # s
      BY <2>1, <2>3, <2>4
    <2> QED
      BY <1>1, <2>1, <2>2, <2>3, <2>5
  <1> QED
    BY <1>1, <1>2, <1>3, <1>5, <1>6 DEF DiscTypes, VipsCurrent

Entry(u, w) == [uid |-> u, workload |-> w]

(* After remove_uid the lists have the other workloads, each of them once. *)
LEMMA WithoutAddrIs ==
  ASSUME AddressesExact, NEW u \in Uid, NEW a \in Ip
  PROVE  WithoutAddr(u)[a] = [x \in {Entry(y, by_uid[y]) : y \in WithAddress(a) \ {u}} |-> 1]
  <1> DEFINE S == {Entry(y, by_uid[y]) : y \in WithAddress(a)}
             R == {Entry(y, by_uid[y]) : y \in WithAddress(a) \ {u}}
  <1>1. by_addr[a] = [x \in S |-> 1]
    BY DEF AddressesExact, Entry
  <1>2. {x \in S : x.uid # u} = R
    BY DEF Entry
  <1> HIDE DEF S, R
  <1>3. DOMAIN by_addr[a] = S /\ \A x \in S : by_addr[a][x] = 1
    BY <1>1
  <1>4. WithoutAddr(u)[a] = [x \in {y \in DOMAIN by_addr[a] : y.uid # u} |-> by_addr[a][x]]
    BY DEF WithoutAddr
  <1>5. WithoutAddr(u)[a] = [x \in R |-> 1]
    BY <1>2, <1>3, <1>4
  <1> QED
    BY <1>5 DEF R

(* by_addr lists for every address the workloads that have it, each once,
   whatever call is made. *)
LEMMA AddressesKept ==
  ASSUME DiscTypes, AddressesExact, DiscNext
  PROVE  AddressesExact'
  <1>1. ASSUME NEW u \in Uid, RemoveWorkload(u)
        PROVE  AddressesExact'
    <2> SUFFICES ASSUME NEW a \in Ip
                 PROVE  by_addr'[a] = [x \in {Entry(y, by_uid'[y]) : y \in WithAddress(a)'} |-> 1]
      BY DEF AddressesExact, Entry
    <2>1. by_addr' = WithoutAddr(u) /\ by_uid' = [by_uid EXCEPT ![u] = None]
      BY <1>1 DEF RemoveWorkload
    <2>2. WithAddress(a)' = WithAddress(a) \ {u} /\ \A y \in WithAddress(a) \ {u} : by_uid'[y] = by_uid[y]
      BY <2>1 DEF WithAddress, DiscTypes
    <2>3. {Entry(y, by_uid'[y]) : y \in WithAddress(a)'} = {Entry(y, by_uid[y]) : y \in WithAddress(a) \ {u}}
      BY <2>2
    <2>4. by_addr'[a] = [x \in {Entry(y, by_uid[y]) : y \in WithAddress(a) \ {u}} |-> 1]
      BY <2>1, WithoutAddrIs
    <2> QED
      BY <2>3, <2>4
  <1>2. ASSUME NEW u \in Uid, NEW w \in Workload, InsertWorkload(u, w)
        PROVE  AddressesExact'
    <2> SUFFICES ASSUME NEW a \in Ip
                 PROVE  by_addr'[a] = [x \in {Entry(y, by_uid'[y]) : y \in WithAddress(a)'} |-> 1]
      BY DEF AddressesExact, Entry
    <2> DEFINE R == {Entry(y, by_uid[y]) : y \in WithAddress(a) \ {u}}
               new == Entry(u, w)
               has == a \in w.workload_ips /\ ~w.host_network
    <2>1. by_addr' = WithAddr(WithoutAddr(u), u, w) /\ by_uid' = [by_uid EXCEPT ![u] = w]
      BY <1>2 DEF InsertWorkload
    <2>2. WithAddress(a)' = (WithAddress(a) \ {u}) \cup (IF has THEN {u} ELSE {})
      BY Zenon, <2>1, WorkloadFields DEF WithAddress, DiscTypes
    <2>3. by_uid'[u] = w /\ \A y \in WithAddress(a) \ {u} : by_uid'[y] = by_uid[y]
      BY <2>1 DEF WithAddress, DiscTypes
    <2>4. {Entry(y, by_uid'[y]) : y \in WithAddress(a)'} = R \cup (IF has THEN {new} ELSE {})
      BY <2>2, <2>3
    <2>5. new \notin R
      BY Zenon DEF Entry
    <2>6. by_addr'[a] = IF has THEN Pushed(WithoutAddr(u)[a], new) ELSE WithoutAddr(u)[a]
      BY <2>1 DEF WithAddr, Entry
    <2>7. WithoutAddr(u)[a] = [x \in R |-> 1]
      BY WithoutAddrIs
    <2> HIDE DEF R, new, has
    <2>8. Pushed([x \in R |-> 1], new) = [x \in R \cup {new} |-> 1]
      BY <2>5 DEF Pushed
    <2>9. CASE has
      BY <2>4, <2>6, <2>7, <2>8, <2>9
    <2>10. CASE ~has
      <3>1. R \cup (IF has THEN {new} ELSE {}) = R
        BY <2>10
      <3> QED
        BY <2>4, <2>6, <2>7, <2>10, <3>1
    <2> QED
      BY <2>9, <2>10
  <1>3. ASSUME NEW s \in ServiceName,
               RemoveService(s) \/ \E vips \in SUBSET Vip, policy \in Policy : InsertService(s, vips, policy)
        PROVE  AddressesExact'
    <2>1. UNCHANGED workloads
      BY Zenon, <1>3 DEF RemoveService, InsertService
    <2> QED
      BY <2>1 DEF workloads, AddressesExact, WithAddress
  <1> QED
    BY <1>1, <1>2, <1>3 DEF DiscNext

DiscInv == DiscTypes /\ StoreConsistent

(* Every call of the xDS handler keeps the store consistent. *)
LEMMA DiscInvStep == DiscInv /\ [DiscNext]_discVars => DiscInv'
  <1> SUFFICES ASSUME DiscInv, [DiscNext]_discVars PROVE DiscInv'
    OBVIOUS
  <1>1. DiscTypes /\ EndpointsSound /\ VipsCurrent /\ AddressesExact
    BY DEF DiscInv, StoreConsistent
  <1>2. CASE DiscNext
    <2>1. DiscTypes' /\ EndpointsSound' /\ VipsCurrent'
      BY <1>1, <1>2, InsertWorkloadKeeps, RemoveWorkloadKeeps, InsertServiceKeeps, RemoveServiceKeeps DEF DiscNext
    <2>2. AddressesExact'
      BY Zenon, <1>1, <1>2, AddressesKept
    <2> QED
      BY <2>1, <2>2 DEF DiscInv, StoreConsistent
  <1>3. CASE UNCHANGED discVars
    BY <1>1, <1>3 DEF discVars, workloads, services, DiscInv, DiscTypes, StoreConsistent, EndpointsSound, VipsCurrent,
       AddressesExact, WithAddress, ShouldInclude
  <1> QED
    BY <1>2, <1>3

(* The empty store is consistent. *)
LEMMA DiscInitInv == DiscInit => DiscInv
  <1> SUFFICES ASSUME DiscInit PROVE DiscInv
    OBVIOUS
  <1>1. DiscTypes
    BY DEF DiscInit, DiscTypes, Hosts, Vips, NoEndpoints, EndpointSet
  <1>2. EndpointsSound /\ VipsCurrent
    BY DEF DiscInit, EndpointsSound, VipsCurrent, NoEndpoints
  <1>3. \A a \in Ip : WithAddress(a) = {} /\ by_addr[a] = Nobody
    BY DEF DiscInit, WithAddress
  <1>4. AddressesExact
    BY Zenon, <1>3 DEF AddressesExact, Nobody
  <1> QED
    BY <1>1, <1>2, <1>4 DEF DiscInv, StoreConsistent

(* After any calls of the xDS handler in any order, for any number of
   workloads, services and addresses, the indices of the discovery store agree
   with its maps: an endpoint is in a service or staged for it exactly when its
   workload says so, by_vip shows the services of by_host, and by_addr is exact
   (insert_workload, insert_service and their removals). *)
THEOREM StoreCorrect == DiscSpec => []StoreConsistent
  <1>1. DiscInv => StoreConsistent
    BY DEF DiscInv
  <1> QED
    BY <1>1, DiscInitInv, DiscInvStep, PTL DEF DiscSpec

(* The step of HealthyEndpointsKept. *)
Kept(s, u) ==
  Wants(s, u)' /\ (Wants(s, u) => Joined(s, u)) =>
    Joined(s, u)' \/ (by_host[s] # None /\ by_host'[s] = None)

(* A call about a workload keeps every endpoint that is still wanted. *)
LEMMA WorkloadCallJoins ==
  ASSUME DiscInv, NEW x \in Uid, RemoveWorkload(x) \/ \E w \in Workload : InsertWorkload(x, w),
         NEW s \in ServiceName, NEW u \in Uid
  PROVE  Kept(s, u)
  <1> SUFFICES ASSUME Wants(s, u)', Wants(s, u) => Joined(s, u) PROVE Joined(s, u)'
    BY DEF Kept
  <1>t. DiscTypes /\ EndpointsSound
    BY Zenon DEF DiscInv, StoreConsistent
  <1> DEFINE H == WithoutEndpoint(x)
             G == WithoutStaged(x)
  <1>1. H \in Hosts /\ SameButEndpoint(by_host, H, x)
    BY Zenon, <1>t, WithoutEndpointIs
  <1>2. /\ G \in [ServiceName -> EndpointSet]
        /\ \A y \in Uid \ {x} : G[s][y] = staged_services[s][y]
    BY Zenon, <1>t, WithoutStagedIs
  <1>3. CASE RemoveWorkload(x)
    <2>1. by_host' = H /\ staged_services' = G /\ by_uid' = [by_uid EXCEPT ![x] = None]
      BY Zenon, <1>3 DEF RemoveWorkload
    <2> HIDE DEF H, G
    <2>2. u # x /\ by_uid'[u] = by_uid[u]
      BY <2>1, <1>t DEF Wants, DiscTypes
    <2> QED
      BY Zenon, <1>1, <1>2, <2>1, <2>2 DEF Wants, Joined, SameButEndpoint
  <1>4. ASSUME NEW w \in Workload, InsertWorkload(x, w)
        PROVE  Joined(s, u)'
    <2>1. by_host' = WithEndpoint(H, x, w) /\ staged_services' = WithStaged(H, G, x, w) /\ by_uid' = [by_uid EXCEPT ![x] = w]
      BY Zenon, <1>4 DEF InsertWorkload
    <2> HIDE DEF H, G
    <2>2. /\ SameButEndpoint(H, by_host', x)
          /\ IF s \in Accepting(H, w) THEN by_host'[s].endpoints[x] = w.status ELSE by_host'[s] = H[s]
      BY <1>1, <2>1, WithEndpointIs
    <2>3. /\ staged_services'[s][x] = IF s \in w.services /\ H[s] = None THEN w.status ELSE G[s][x]
          /\ \A y \in Uid \ {x} : staged_services'[s][y] = G[s][y]
      BY <1>1, <1>2, <2>1, WithStagedIs
    <2>4. CASE u = x
      <3>1. s \in w.services /\ w.status = "Healthy" /\ w.status # None
        BY <2>1, <2>4, <1>t, WorkloadFields DEF Wants, DiscTypes
      <3>2. H[s] # None => s \in Accepting(H, w)
        BY Zenon, <3>1 DEF Accepting, ShouldInclude
      <3>3. by_host'[s] = None <=> H[s] = None
        BY Zenon, <2>2 DEF SameButEndpoint
      <3> QED
        BY <2>2, <2>3, <2>4, <3>1, <3>2, <3>3 DEF Joined
    <2>5. CASE u # x
      <3>1. by_uid'[u] = by_uid[u]
        BY Zenon, <2>1, <2>5, <1>t DEF DiscTypes
      <3> QED
        BY <1>1, <1>2, <2>2, <2>3, <2>5, <3>1 DEF Wants, Joined, SameButEndpoint
    <2> QED
      BY <2>4, <2>5
  <1> QED
    BY <1>3, <1>4

(* So does a call about a service. *)
LEMMA ServiceCallJoins ==
  ASSUME DiscInv, NEW t \in ServiceName,
         RemoveService(t) \/ \E vips \in SUBSET Vip, policy \in Policy : InsertService(t, vips, policy),
         NEW s \in ServiceName, NEW u \in Uid
  PROVE  Kept(s, u)
  <1> SUFFICES ASSUME Wants(s, u)', Wants(s, u) => Joined(s, u),
                      by_host[s] = None \/ by_host'[s] # None
               PROVE  Joined(s, u)'
    BY DEF Kept
  <1>t. DiscTypes /\ EndpointsSound
    BY DEF DiscInv, StoreConsistent
  <1>1. by_uid' = by_uid /\ Wants(s, u) /\ Joined(s, u) /\ by_uid[u].status = "Healthy"
    BY Zenon DEF RemoveService, InsertService, workloads, Wants
  <1>2. CASE s # t
    <2>1. by_host'[s] = by_host[s] /\ staged_services'[s] = staged_services[s]
      BY Zenon, <1>2, <1>t DEF RemoveService, InsertService, DiscTypes, Hosts
    <2> QED
      BY <1>1, <2>1 DEF Joined
  <1>3. CASE s = t /\ RemoveService(t)
    BY <1>3, <1>t DEF RemoveService, DiscTypes, Hosts
  <1>4. ASSUME NEW vips \in SUBSET Vip, NEW policy \in Policy, s = t, InsertService(t, vips, policy)
        PROVE  Joined(s, u)'
    <2> DEFINE prev == IF by_host[s] = None THEN NoEndpoints ELSE by_host[s].endpoints
               svc == Including([vips |-> vips, health_policy |-> policy, endpoints |-> NoEndpoints],
                                prev, staged_services[s])
    <2>1. by_host' = [by_host EXCEPT ![s] = svc]
      BY Zenon, <1>4 DEF InsertService
    <2>2. staged_services[s] \in EndpointSet /\ prev \in EndpointSet
      BY <1>t DEF NoEndpoints, EndpointSet, DiscTypes, Hosts, Service
    <2>3. prev[u] = IF by_host[s] = None THEN None ELSE by_host[s].endpoints[u]
      BY Zenon, SMTT(30) DEF NoEndpoints
    <2> HIDE DEF prev
    <2>4. /\ svc \in Service
          /\ staged_services[s][u] # None /\ ShouldInclude(svc, staged_services[s][u])
               => svc.endpoints[u] = staged_services[s][u]
          /\ staged_services[s][u] = None /\ prev[u] # None /\ ShouldInclude(svc, prev[u])
               => svc.endpoints[u] = prev[u]
      BY <2>2, IncludingIs
    <2> HIDE DEF svc
    <2>5. by_host'[s] = svc /\ svc # None
      BY Zenon, <2>1, <2>4, <1>t, ServiceFields DEF DiscTypes, Hosts
    <2>6. CASE by_host[s] = None
      <3>1. staged_services[s][u] = "Healthy" /\ staged_services[s][u] # None
        BY Zenon, <1>1, <1>t, <2>6 DEF Joined, EndpointsSound
      <3> QED
        BY Zenon, <2>4, <2>5, <3>1 DEF Joined, ShouldInclude
    <2>7. CASE by_host[s] # None
      <3>1. staged_services[s][u] = None
        BY Zenon, <1>t, <2>7 DEF EndpointsSound
      <3>2. prev[u] # None /\ prev[u] = "Healthy"
        BY <1>1, <1>t, <2>3, <2>7 DEF Joined, EndpointsSound
      <3> QED
        BY Zenon, <2>4, <2>5, <3>1, <3>2 DEF Joined, ShouldInclude
    <2> QED
      BY <2>6, <2>7
  <1> QED
    BY <1>2, <1>3, <1>4

(* No call of the xDS handler costs a service an endpoint that was in it and
   that the workload still offers, and one that becomes wanted is there at once
   (the merge of previous and staged endpoints in insert_service). *)
THEOREM HealthyEndpointsCorrect == DiscSpec => HealthyEndpointsKept
  <1>1. DiscInv /\ DiscNext => \A s \in ServiceName, u \in Uid : Kept(s, u)
    BY Zenon, WorkloadCallJoins, ServiceCallJoins DEF DiscNext
  <1>2. DiscInv /\ [DiscNext]_discVars =>
          [\A s \in ServiceName, u \in Uid :
             Wants(s, u)' /\ (Wants(s, u) => Joined(s, u)) =>
               Joined(s, u)' \/ (by_host[s] # None /\ by_host'[s] = None)]_discVars
    BY <1>1 DEF Kept
  <1> QED
    BY <1>2, DiscInitInv, DiscInvStep, PTL DEF DiscSpec, HealthyEndpointsKept
=============================================================================
