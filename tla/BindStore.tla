------------------------------ MODULE BindStore ------------------------------
(***************************************************************************)
(* The configuration store of the data plane, `Store` in                   *)
(* crates/agentgateway/src/store/binds.rs.                                 *)
(*                                                                         *)
(* Binds hold listeners, listeners hold routes.  The control plane sends   *)
(* the three kinds as separate resources in any order, so a listener that  *)
(* arrives before its bind, and a route that arrives before its listener,  *)
(* is parked in `staged_listeners` or `staged_routes` until the parent     *)
(* arrives.  Policies are kept twice, by name and by target.  Every change *)
(* of a bind is announced on a broadcast channel of bounded capacity, which *)
(* drops its oldest event when it is full.                                 *)
(*                                                                         *)
(* A HashMap is a total function that is None at the absent keys.  What a  *)
(* listener, a route or a backend says is a member of Data; a policy is    *)
(* represented by its target.  Each action is one call made under the      *)
(* write lock of the store; which calls an xDS response or a reload of the *)
(* local file makes, and in which order, is left open.                     *)
(***************************************************************************)
EXTENDS Naturals, Sequences, Nil

CONSTANTS
  BindName, ListenerKey, RouteKey, PolicyName, BackendName,
  Address,        \* the socket address a bind listens on
  Data,           \* the contents of a listener, a route or a backend
  PolicyTarget,
  TxCapacity      \* capacity of the broadcast channel (1000 in the code)

RouteMap == [RouteKey -> Data \cup {None}]
Listener == [data : Data, routes : RouteMap]
ListenerMap == [ListenerKey -> Listener \cup {None}]
Bind == [address : Address, listeners : ListenerMap]
Event == [type : {"Add", "Remove"}, key : BindName, address : Address]

ASSUME CapacityAssumption == TxCapacity \in Nat \ {0}

ASSUME NoneAssumption ==
  /\ None \notin Data
  /\ None \notin PolicyTarget
  /\ None \notin Listener
  /\ None \notin Bind

VARIABLES
  by_name, staged_listeners, staged_routes,
  policies_by_name, policies_by_target, backends_by_name,
  tx,             \* events sent and not yet received by the gateway
  missed          \* the channel has overflowed: the receiver lags

vars == <<by_name, staged_listeners, staged_routes,
          policies_by_name, policies_by_target, backends_by_name, tx, missed>>

NoRoutes == [r \in RouteKey |-> None]
NoListeners == [k \in ListenerKey |-> None]

Init ==
  /\ by_name = [b \in BindName |-> None]
  /\ staged_listeners = [b \in BindName |-> NoListeners]
  /\ staged_routes = [k \in ListenerKey |-> NoRoutes]
  /\ policies_by_name = [p \in PolicyName |-> None]
  /\ policies_by_target = [t \in PolicyTarget |-> {}]
  /\ backends_by_name = [n \in BackendName |-> None]
  /\ tx = <<>>
  /\ missed = FALSE

-----------------------------------------------------------------------------
(* Entries of `new` inserted into `old`. *)
Merge(old, new) == [k \in DOMAIN old |-> IF new[k] = None THEN old[k] ELSE new[k]]

AddRoutes(lis, routes) == [lis EXCEPT !.routes = Merge(@, routes)]

(* The binds that hold listener k. *)
Holders(k) == {b \in BindName : by_name[b] # None /\ by_name[b].listeners[k] # None}

Send(type, b, a) ==
  LET kept == IF Len(tx) < TxCapacity THEN tx ELSE Tail(tx)
  IN /\ tx' = Append(kept, [type |-> type, key |-> b, address |-> a])
     /\ missed' = (missed \/ Len(tx) = TxCapacity)

(* The gateway takes the next event. *)
Recv ==
  /\ tx # <<>>
  /\ tx' = Tail(tx)
  /\ UNCHANGED <<by_name, staged_listeners, staged_routes, missed,
                 policies_by_name, policies_by_target, backends_by_name>>

-----------------------------------------------------------------------------
(* Mutant of PutBind: the staged listeners are copied, not taken. *)
PutBindKeepsStaged(b, bind, routes) ==
  /\ by_name' = [by_name EXCEPT ![b] =
                   [bind EXCEPT !.listeners = Merge(@, staged_listeners[b])]]
  /\ staged_routes' = routes
  /\ Send("Add", b, bind.address)
  /\ UNCHANGED <<staged_listeners, policies_by_name, policies_by_target, backends_by_name>>

(* insert_bind: the bind absorbs its staged listeners, each of which       *)
(* absorbs its staged routes, replaces what by_name held and is announced. *)
(* `routes` is staged_routes as the caller leaves it.                      *)
PutBind(b, bind, routes) ==
  LET staged == staged_listeners[b]
      ready == [k \in ListenerKey |->
                  IF staged[k] = None THEN None ELSE AddRoutes(staged[k], routes[k])]
  IN /\ by_name' = [by_name EXCEPT ![b] =
                      [bind EXCEPT !.listeners = Merge(@, ready)]]
     /\ staged_listeners' = [staged_listeners EXCEPT ![b] = NoListeners]
     /\ staged_routes' = [k \in ListenerKey |->
                            IF staged[k] = None THEN routes[k] ELSE NoRoutes]
     /\ Send("Add", b, bind.address)
     /\ UNCHANGED <<policies_by_name, policies_by_target, backends_by_name>>

(* insert_bind as the local file reader calls it: the bind is complete. *)
InsertBind(b, bind) == PutBind(b, bind, staged_routes)

(* insert_xds_bind: an update of a known bind keeps its listeners. *)
InsertXdsBind(b, a) ==
  PutBind(b, [address |-> a,
              listeners |-> IF by_name[b] = None THEN NoListeners
                            ELSE by_name[b].listeners],
          staged_routes)

(* Mutants of InsertListener: the routes of the old listener are lost; the *)
(* staged routes are left behind.                                          *)
InsertListenerFresh(k, d, b) ==
  /\ by_name[b] # None
  /\ PutBind(b, [by_name[b] EXCEPT !.listeners = [@ EXCEPT ![k] =
                   AddRoutes([data |-> d, routes |-> NoRoutes], staged_routes[k])]],
             [staged_routes EXCEPT ![k] = NoRoutes])
InsertListenerNoStaged(k, d, b) ==
  /\ by_name[b] # None
  /\ PutBind(b, [by_name[b] EXCEPT !.listeners = [@ EXCEPT ![k] =
                   [data |-> d, routes |-> NoRoutes]]], staged_routes)

(* insert_listener: an update of a listener of bind b keeps its routes.    *)
(* Staged routes are absorbed whether or not the bind is there.            *)
InsertListener(k, d, b) ==
  LET routes == [staged_routes EXCEPT ![k] = NoRoutes]
      new(old) == AddRoutes([data |-> d, routes |-> old], staged_routes[k])
  IN \/ /\ by_name[b] # None
        /\ LET old == by_name[b].listeners[k]
               lis == new(IF old = None THEN NoRoutes ELSE old.routes)
           IN PutBind(b, [by_name[b] EXCEPT !.listeners = [@ EXCEPT ![k] = lis]], routes)
     \/ /\ by_name[b] = None
        /\ staged_listeners' = [staged_listeners EXCEPT ![b] = [@ EXCEPT ![k] = new(NoRoutes)]]
        /\ staged_routes' = routes
        /\ UNCHANGED <<by_name, tx, missed, policies_by_name, policies_by_target,
                       backends_by_name>>

(* Bind b with route r of its listener k set to d (None: removed). *)
WithRoute(b, k, r, d) ==
  LET old == by_name[b].listeners[k]
      lis == [old EXCEPT !.routes = [old.routes EXCEPT ![r] = d]]
  IN [by_name[b] EXCEPT !.listeners = [@ EXCEPT ![k] = lis]]

(* insert_route: into whichever bind is found to hold the listener first.  *)
InsertRoute(r, d, k) ==
  \/ \E b \in Holders(k) : PutBind(b, WithRoute(b, k, r, d), staged_routes)
  \/ /\ Holders(k) = {}
     /\ staged_routes' = [staged_routes EXCEPT ![k] = [@ EXCEPT ![r] = d]]
     /\ UNCHANGED <<by_name, staged_listeners, tx, missed, policies_by_name,
                    policies_by_target, backends_by_name>>

(* Mutant of RemoveBind: the removal is not announced. *)
RemoveBindSilently(b) ==
  /\ by_name[b] # None
  /\ by_name' = [by_name EXCEPT ![b] = None]
  /\ UNCHANGED <<staged_listeners, staged_routes, tx, missed, policies_by_name,
                 policies_by_target, backends_by_name>>

(* remove_bind: the listeners and routes of the bind go with it. *)
RemoveBind(b) ==
  /\ by_name[b] # None
  /\ by_name' = [by_name EXCEPT ![b] = None]
  /\ Send("Remove", b, by_name[b].address)
  /\ UNCHANGED <<staged_listeners, staged_routes, policies_by_name,
                 policies_by_target, backends_by_name>>

(* remove_listener: nothing happens when no bind holds the listener. *)
RemoveListener(k) ==
  \E b \in Holders(k) :
    PutBind(b, [by_name[b] EXCEPT !.listeners = [@ EXCEPT ![k] = None]], staged_routes)

(* remove_route: from the first listener found to have the route. *)
RemoveRoute(r) ==
  \E k \in ListenerKey : \E b \in Holders(k) :
    /\ by_name[b].listeners[k].routes[r] # None
    /\ PutBind(b, WithRoute(b, k, r, None), staged_routes)

-----------------------------------------------------------------------------
InsertBackend(n, d) ==
  /\ backends_by_name' = [backends_by_name EXCEPT ![n] = d]
  /\ UNCHANGED <<by_name, staged_listeners, staged_routes, tx, missed,
                 policies_by_name, policies_by_target>>

RemoveBackend(n) ==
  /\ backends_by_name[n] # None
  /\ backends_by_name' = [backends_by_name EXCEPT ![n] = None]
  /\ UNCHANGED <<by_name, staged_listeners, staged_routes, tx, missed,
                 policies_by_name, policies_by_target>>

(* The target index without policy p. *)
Unindexed(p) ==
  [t \in PolicyTarget |-> IF t = policies_by_name[p] THEN policies_by_target[t] \ {p}
                          ELSE policies_by_target[t]]

(* insert_policy: leaves the index of the old target, enters the new one's. *)
InsertPolicy(p, t) ==
  /\ policies_by_name' = [policies_by_name EXCEPT ![p] = t]
  /\ policies_by_target' = [Unindexed(p) EXCEPT ![t] = @ \cup {p}]
  /\ UNCHANGED <<by_name, staged_listeners, staged_routes, tx, missed, backends_by_name>>

RemovePolicy(p) ==
  /\ policies_by_name[p] # None
  /\ policies_by_name' = [policies_by_name EXCEPT ![p] = None]
  /\ policies_by_target' = Unindexed(p)
  /\ UNCHANGED <<by_name, staged_listeners, staged_routes, tx, missed, backends_by_name>>

-----------------------------------------------------------------------------
(* The calls made for xDS resources (insert_xds, remove_resource). *)
XdsCall ==
  \/ \E b \in BindName, a \in Address : InsertXdsBind(b, a)
  \/ \E k \in ListenerKey, d \in Data, b \in BindName : InsertListener(k, d, b)
  \/ \E r \in RouteKey, d \in Data, k \in ListenerKey : InsertRoute(r, d, k)
  \/ \E n \in BackendName, d \in Data : InsertBackend(n, d)
  \/ \E b \in BindName : RemoveBind(b)
  \/ \E k \in ListenerKey : RemoveListener(k)
  \/ \E r \in RouteKey : RemoveRoute(r)

(* The calls made for the local configuration file (sync_local). *)
LocalCall ==
  \/ \E b \in BindName : \E bind \in Bind : InsertBind(b, bind)
  \/ \E n \in BackendName, d \in Data : InsertBackend(n, d)
  \/ \E p \in PolicyName, t \in PolicyTarget : InsertPolicy(p, t)
  \/ \E b \in BindName : RemoveBind(b)
  \/ \E p \in PolicyName : RemovePolicy(p)
  \/ \E n \in BackendName : RemoveBackend(n)

Next == XdsCall \/ LocalCall \/ Recv

Spec == Init /\ [][Next]_vars

(* The proxy is configured over xDS alone. *)
XdsSpec == Init /\ [][XdsCall \/ Recv]_vars

-----------------------------------------------------------------------------
TypeOK ==
  /\ by_name \in [BindName -> Bind \cup {None}]
  /\ staged_listeners \in [BindName -> ListenerMap]
  /\ staged_routes \in [ListenerKey -> RouteMap]
  /\ policies_by_name \in [PolicyName -> PolicyTarget \cup {None}]
  /\ policies_by_target \in [PolicyTarget -> SUBSET PolicyName]
  /\ backends_by_name \in [BackendName -> Data \cup {None}]
  /\ tx \in Seq(Event) /\ Len(tx) <= TxCapacity
  /\ missed \in BOOLEAN

(* A listener waits in staged_listeners only while its bind is absent: no  *)
(* order of the calls strands a listener next to the bind it belongs to,   *)
(* where no later insert_bind of another kind would be due to pick it up.  *)
StagedListenersWait ==
  \A b \in BindName : by_name[b] # None => staged_listeners[b] = NoListeners

(* A route waits in staged_routes only while no bind holds its listener.   *)
(* The calls for the local file can break this for a listener both sources *)
(* name, so it is a property of XdsSpec.                                   *)
StagedRoutesWait ==
  \A k \in ListenerKey : Holders(k) # {} => staged_routes[k] = NoRoutes

(* Nothing is left staged beside what it waits for. *)
StagedItemsWait == StagedListenersWait /\ StagedRoutesWait

(* The two policy maps agree: the index of a target has exactly the        *)
(* policies whose target it is, also after a policy moved to another one.  *)
PolicyIndexExact ==
  \A t \in PolicyTarget :
    policies_by_target[t] = {p \in PolicyName : policies_by_name[p] = t}

(* The youngest event about a bind still in the channel tells what by_name *)
(* holds for it, however many events the channel has dropped: a receiver   *)
(* that drains the channel ends up with the truth about every bind it      *)
(* hears of.                                                               *)
LastEventTells ==
  \A i \in 1..Len(tx) :
    \/ \E j \in i+1..Len(tx) : tx[j].key = tx[i].key
    \/ LET bind == by_name[tx[i].key]
       IN IF tx[i].type = "Remove" THEN bind = None
          ELSE bind # None /\ bind.address = tx[i].address

(* The update of a bind, of a listener of a present bind, or of anything   *)
(* else keeps the routes of every listener that stays in its bind; only    *)
(* the removal of a route takes it away.                                   *)
KeepsRoutes(b, k) ==
  (/\ by_name[b] # None /\ by_name[b].listeners[k] # None
   /\ by_name'[b] # None /\ by_name'[b].listeners[k] # None)
  => \A r \in RouteKey :
       \/ by_name[b].listeners[k].routes[r] = None
       \/ by_name'[b].listeners[k].routes[r] # None
       \/ RemoveRoute(r)

UpdateKeepsRoutes == [][\A b \in BindName, k \in ListenerKey : KeepsRoutes(b, k)]_vars
=============================================================================
