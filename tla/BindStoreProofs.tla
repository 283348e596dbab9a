-------------------------- MODULE BindStoreProofs ---------------------------
(***************************************************************************)
(* The configuration store, whatever its writers do: the types of its maps, *)
(* what is staged for absent parents, the index of policies, the events; and, *)
(* over xDS, that routes are neither stranded nor lost.                    *)
(***************************************************************************)
EXTENDS BindStore, TLAPS

-----------------------------------------------------------------------------
(***************************************************************************)
(* Listeners, policies and events.                                         *)
(***************************************************************************)

(* Inserting entries into a map keeps the type of the map. *)
LEMMA MergeType ==
  ASSUME NEW K, NEW V,
         NEW old \in [K -> V \cup {None}], NEW new \in [K -> V \cup {None}]
  PROVE  Merge(old, new) \in [K -> V \cup {None}]
  BY DEF Merge

(* A listener that absorbs routes is a listener. *)
LEMMA AddRoutesType ==
  ASSUME NEW lis \in Listener, NEW routes \in RouteMap
  PROVE  /\ AddRoutes(lis, routes) \in Listener
         /\ AddRoutes(lis, routes).routes = Merge(lis.routes, routes)
  <1>1. lis.routes \in RouteMap
    BY DEF Listener
  <1>2. Merge(lis.routes, routes) \in RouteMap
    BY Zenon, <1>1, MergeType DEF RouteMap
  <1> QED
    BY <1>2 DEF AddRoutes, Listener

(* The empty maps are maps. *)
LEMMA EmptyMaps == NoRoutes \in RouteMap /\ NoListeners \in ListenerMap
  BY DEF NoRoutes, RouteMap, NoListeners, ListenerMap

(* Sending keeps the channel within its capacity. *)
LEMMA SendType ==
  ASSUME tx \in Seq(Event), Len(tx) <= TxCapacity, missed \in BOOLEAN,
         NEW type \in {"Add", "Remove"}, NEW b \in BindName, NEW a \in Address,
         Send(type, b, a)
  PROVE  /\ tx' \in Seq(Event)
         /\ Len(tx') <= TxCapacity
         /\ missed' \in BOOLEAN
  <1> DEFINE e == [type |-> type, key |-> b, address |-> a]
             kept == IF Len(tx) < TxCapacity THEN tx ELSE Tail(tx)
  <1>1. e \in Event
    BY DEF Event
  <1>2. Len(tx) \in Nat /\ TxCapacity \in Nat \ {0}
    BY CapacityAssumption
  <1>3. kept \in Seq(Event) /\ Len(kept) < TxCapacity
    <2>1. CASE Len(tx) < TxCapacity
      BY <2>1
    <2>2. CASE ~(Len(tx) < TxCapacity)
      <3>1. tx # <<>>
        BY <2>2, <1>2
      <3>2. Tail(tx) \in Seq(Event) /\ Len(Tail(tx)) = Len(tx) - 1
        BY <3>1
      <3> QED
        BY <3>2, <2>2, <1>2
    <2> QED
      BY <2>1, <2>2
  <1>4. tx' = Append(kept, e)
    BY DEF Send
  <1>5. tx' \in Seq(Event) /\ Len(tx') = Len(kept) + 1
    BY <1>1, <1>3, <1>4
  <1>6. Len(kept) \in Nat
    BY <1>3
  <1>7. Len(tx') <= TxCapacity
    BY <1>2, <1>3, <1>5, <1>6
  <1>8. missed' \in BOOLEAN
    BY DEF Send
  <1> QED
    BY <1>5, <1>7, <1>8

(* Storing a bind keeps the types. *)
LEMMA PutBindType ==
  ASSUME TypeOK, NEW b \in BindName, NEW bind \in Bind,
         NEW routes \in [ListenerKey -> RouteMap],
         PutBind(b, bind, routes)
  PROVE  TypeOK'
  <1> DEFINE staged == staged_listeners[b]
             ready == [k \in ListenerKey |->
                         IF staged[k] = None THEN None ELSE AddRoutes(staged[k], routes[k])]
             new == [bind EXCEPT !.listeners = Merge(@, ready)]
  <1>1. staged \in ListenerMap
    BY DEF TypeOK
  <1>2. ready \in ListenerMap
    <2> SUFFICES ASSUME NEW k \in ListenerKey
                 PROVE  ready[k] \in Listener \cup {None}
      BY DEF ListenerMap
    <2>1. CASE staged[k] = None
      BY <2>1
    <2>2. CASE staged[k] # None
      <3>1. staged[k] \in Listener
        BY <1>1, <2>2 DEF ListenerMap
      <3>2. AddRoutes(staged[k], routes[k]) \in Listener
        BY <3>1, AddRoutesType
      <3> QED
        BY <2>2, <3>2
    <2> QED
      BY <2>1, <2>2
  <1>3. Merge(bind.listeners, ready) \in ListenerMap
    <2>1. bind.listeners \in ListenerMap
      BY DEF Bind
    <2> HIDE DEF ready
    <2> QED
      BY Zenon, <1>2, <2>1, MergeType DEF ListenerMap
  <1>4. new \in Bind
    BY <1>3 DEF Bind
  <1>5. by_name' \in [BindName -> Bind \cup {None}]
    <2>1. by_name' = [by_name EXCEPT ![b] = new]
      BY DEF PutBind
    <2> HIDE DEF new
    <2> QED
      BY <1>4, <2>1 DEF TypeOK
  <1>6. staged_listeners' \in [BindName -> ListenerMap]
    BY EmptyMaps DEF PutBind, TypeOK
  <1>7. staged_routes' \in [ListenerKey -> RouteMap]
    BY EmptyMaps DEF PutBind
  <1>8. tx' \in Seq(Event) /\ Len(tx') <= TxCapacity /\ missed' \in BOOLEAN
    <2>1. bind.address \in Address
      BY DEF Bind
    <2> QED
      BY <2>1, SendType DEF PutBind, TypeOK
  <1> QED
    BY <1>5, <1>6, <1>7, <1>8 DEF TypeOK, PutBind

(* What storing a bind does to by_name: the staged listeners, with their   *)
(* routes, replace the bind's own; other binds are left alone.             *)
LEMMA PutBindEffect ==
  ASSUME TypeOK, NEW b \in BindName, NEW bind \in Bind,
         NEW routes \in [ListenerKey -> RouteMap],
         PutBind(b, bind, routes)
  PROVE  /\ by_name'[b] # None
         /\ by_name'[b].address = bind.address
         /\ \A k \in ListenerKey : by_name'[b].listeners[k] =
              IF staged_listeners[b][k] = None THEN bind.listeners[k]
              ELSE AddRoutes(staged_listeners[b][k], routes[k])
         /\ \A c \in BindName \ {b} : by_name'[c] = by_name[c]
  <1> DEFINE staged == staged_listeners[b]
             ready == [k \in ListenerKey |->
                         IF staged[k] = None THEN None ELSE AddRoutes(staged[k], routes[k])]
             new == [bind EXCEPT !.listeners = Merge(@, ready)]
  <1>1. by_name' = [by_name EXCEPT ![b] = new]
    BY DEF PutBind
  <1>2. by_name'[b] = new /\ \A c \in BindName \ {b} : by_name'[c] = by_name[c]
    <2> HIDE DEF new
    <2> QED
      BY <1>1 DEF TypeOK
  <1>3. new.address = bind.address /\ new.listeners = Merge(bind.listeners, ready)
    <2> HIDE DEF ready
    <2> QED
      BY DEF Bind
  <1>4. ASSUME NEW k \in ListenerKey
        PROVE  Merge(bind.listeners, ready)[k] =
                 IF staged[k] = None THEN bind.listeners[k] ELSE AddRoutes(staged[k], routes[k])
    <2>1. DOMAIN bind.listeners = ListenerKey
      BY DEF Bind, ListenerMap
    <2>2. Merge(bind.listeners, ready)[k] =
            IF ready[k] = None THEN bind.listeners[k] ELSE ready[k]
      <3> HIDE DEF ready
      <3> QED
        BY <2>1 DEF Merge
    <2>3. CASE staged[k] = None
      BY <2>2, <2>3
    <2>4. CASE staged[k] # None
      <3>1. staged[k] \in Listener
        BY <2>4 DEF TypeOK, ListenerMap
      <3>2. AddRoutes(staged[k], routes[k]) \in Listener
        BY <3>1, AddRoutesType
      <3>3. AddRoutes(staged[k], routes[k]) # None
        BY <3>2, NoneAssumption
      <3> QED
        BY <2>2, <2>4, <3>3
    <2> QED
      BY <2>3, <2>4
  <1>5. by_name'[b] # None
    <2>1. by_name'[b] \in Bind \cup {None} /\ new \in Bind
      <3>1. TypeOK'
        BY PutBindType
      <3>2. bind.listeners \in ListenerMap
        BY DEF Bind
      <3>3. ready \in ListenerMap
        <4> SUFFICES ASSUME NEW k \in ListenerKey
                     PROVE  ready[k] \in Listener \cup {None}
          BY DEF ListenerMap
        <4>1. staged[k] \in Listener \cup {None}
          BY DEF TypeOK, ListenerMap
        <4> QED
          BY <4>1, AddRoutesType
      <3>4. Merge(bind.listeners, ready) \in ListenerMap
        <4> HIDE DEF ready
        <4> QED
          BY Zenon, <3>2, <3>3, MergeType DEF ListenerMap
      <3>5. new \in Bind
        <4> DEFINE ls == Merge(bind.listeners, ready)
        <4>1. new = [bind EXCEPT !.listeners = ls]
          OBVIOUS
        <4> HIDE DEF ls, new
        <4> QED
          BY <4>1, <3>4 DEF Bind, ls
      <3> QED
        BY <3>1, <3>5 DEF TypeOK
    <2> QED
      BY <2>1, <1>2, NoneAssumption
  <1> QED
    BY <1>2, <1>3, <1>4, <1>5

-----------------------------------------------------------------------------
(* The values the calls store are binds. *)
LEMMA XdsBindType ==
  ASSUME TypeOK, NEW b \in BindName, NEW a \in Address
  PROVE  [address |-> a,
          listeners |-> IF by_name[b] = None THEN NoListeners
                        ELSE by_name[b].listeners] \in Bind
  BY EmptyMaps DEF TypeOK, Bind

LEMMA SetListenerType ==
  ASSUME NEW bind \in Bind, NEW k \in ListenerKey, NEW lis \in Listener \cup {None}
  PROVE  LET new == [bind EXCEPT !.listeners = [@ EXCEPT ![k] = lis]]
         IN /\ new \in Bind
            /\ new.address = bind.address
            /\ new.listeners = [bind.listeners EXCEPT ![k] = lis]
  <1> DEFINE ls == [bind.listeners EXCEPT ![k] = lis]
             new == [bind EXCEPT !.listeners = ls]
  <1>1. ls \in ListenerMap
    BY DEF Bind, ListenerMap
  <1>2. new \in Bind /\ new.address = bind.address /\ new.listeners = ls
    <2> HIDE DEF ls
    <2> QED
      BY <1>1 DEF Bind
  <1> QED
    BY <1>2

LEMMA WithRouteType ==
  ASSUME TypeOK, NEW k \in ListenerKey, NEW b \in Holders(k),
         NEW r \in RouteKey, NEW d \in Data \cup {None}
  PROVE  /\ b \in BindName
         /\ WithRoute(b, k, r, d) \in Bind
         /\ WithRoute(b, k, r, d).address = by_name[b].address
         /\ WithRoute(b, k, r, d).listeners[k] # None
         /\ \A q \in RouteKey : WithRoute(b, k, r, d).listeners[k].routes[q] =
              IF q = r THEN d ELSE by_name[b].listeners[k].routes[q]
         /\ \A j \in ListenerKey \ {k} :
              WithRoute(b, k, r, d).listeners[j] = by_name[b].listeners[j]
  <1> DEFINE old == by_name[b].listeners[k]
             lis == [old EXCEPT !.routes = [old.routes EXCEPT ![r] = d]]
             rs == [old.routes EXCEPT ![r] = d]
             new == [by_name[b] EXCEPT !.listeners = [@ EXCEPT ![k] = lis]]
  <1>1. b \in BindName /\ by_name[b] \in Bind /\ old \in Listener
    BY DEF Holders, TypeOK, Bind, ListenerMap
  <1>2. rs \in RouteMap
    BY <1>1 DEF Listener, RouteMap
  <1>3. lis \in Listener /\ lis.routes = rs
    <2>1. lis = [old EXCEPT !.routes = rs]
      OBVIOUS
    <2> HIDE DEF lis, rs, old
    <2> QED
      BY <1>1, <1>2, <2>1 DEF Listener
  <1>4. WithRoute(b, k, r, d) = new
    BY DEF WithRoute
  <1>5. new \in Bind /\ new.address = by_name[b].address
          /\ new.listeners = [by_name[b].listeners EXCEPT ![k] = lis]
    <2> HIDE DEF lis
    <2> QED
      BY <1>1, <1>3, SetListenerType
  <1>6. by_name[b].listeners \in ListenerMap
    BY <1>1 DEF Bind
  <1>7. new.listeners[k] = lis
          /\ \A j \in ListenerKey \ {k} : new.listeners[j] = by_name[b].listeners[j]
    <2> HIDE DEF lis
    <2> QED
      BY <1>5, <1>6 DEF ListenerMap
  <1>8. lis # None
    BY <1>3, NoneAssumption
  <1>9. \A q \in RouteKey : rs[q] = IF q = r THEN d ELSE old.routes[q]
    BY <1>1 DEF Listener, RouteMap
  <1> HIDE DEF new, lis, rs
  <1> QED
    BY <1>1, <1>3, <1>4, <1>5, <1>7, <1>8, <1>9

-----------------------------------------------------------------------------
(* Every step that changes by_name at a bind other than by removing it     *)
(* stores a well-formed bind; `routes` is what the call leaves staged.     *)
Stores(b, bind, routes) ==
  /\ b \in BindName
  /\ bind \in Bind
  /\ routes \in [ListenerKey -> RouteMap]
  /\ PutBind(b, bind, routes)

LEMMA InsertBindStores ==
  ASSUME TypeOK, NEW b \in BindName, NEW bind \in Bind, InsertBind(b, bind)
  PROVE  Stores(b, bind, staged_routes)
  BY DEF InsertBind, Stores, TypeOK

LEMMA InsertXdsBindStores ==
  ASSUME TypeOK, NEW b \in BindName, NEW a \in Address, InsertXdsBind(b, a)
  PROVE  \E bind : /\ Stores(b, bind, staged_routes)
                   /\ bind.listeners = IF by_name[b] = None THEN NoListeners
                                       ELSE by_name[b].listeners
  <1> DEFINE bind == [address |-> a,
                      listeners |-> IF by_name[b] = None THEN NoListeners
                                    ELSE by_name[b].listeners]
  <1>1. bind \in Bind
    BY Zenon, XdsBindType
  <1>2. PutBind(b, bind, staged_routes)
    BY DEF InsertXdsBind
  <1>3. Stores(b, bind, staged_routes)
    BY <1>1, <1>2 DEF Stores, TypeOK
  <1> QED
    BY <1>3

(* The listener an insertion builds, from the routes of the one it replaces. *)
LEMMA NewListenerType ==
  ASSUME TypeOK, NEW k \in ListenerKey, NEW d \in Data, NEW old \in RouteMap
  PROVE  LET lis == AddRoutes([data |-> d, routes |-> old], staged_routes[k])
         IN lis \in Listener /\ lis.routes = Merge(old, staged_routes[k])
  <1>1. [data |-> d, routes |-> old] \in Listener
    BY DEF Listener
  <1>2. staged_routes[k] \in RouteMap
    BY DEF TypeOK
  <1> QED
    BY <1>1, <1>2, AddRoutesType

(* insert_listener puts lis under k into the bind of b, with the routes that
   waited for it. *)
ListenerStored(k, b, bind, lis, routes) ==
  /\ Stores(b, bind, routes)
  /\ \A j \in ListenerKey : routes[j] = IF j = k THEN NoRoutes ELSE staged_routes[j]
  /\ lis \in Listener
  /\ lis.routes = Merge(IF by_name[b].listeners[k] = None THEN NoRoutes
                        ELSE by_name[b].listeners[k].routes, staged_routes[k])
  /\ \A j \in ListenerKey :
       bind.listeners[j] = IF j = k THEN lis ELSE by_name[b].listeners[j]

LEMMA InsertListenerStores ==
  ASSUME TypeOK, NEW k \in ListenerKey, NEW d \in Data, NEW b \in BindName,
         InsertListener(k, d, b), by_name[b] # None
  PROVE  \E bind, lis, routes : ListenerStored(k, b, bind, lis, routes)
  <1> DEFINE old == by_name[b].listeners[k]
             rs == IF old = None THEN NoRoutes ELSE old.routes
             lis == AddRoutes([data |-> d, routes |-> rs], staged_routes[k])
             bind == [by_name[b] EXCEPT !.listeners = [@ EXCEPT ![k] = lis]]
             routes == [staged_routes EXCEPT ![k] = NoRoutes]
  <1>1. by_name[b] \in Bind /\ old \in Listener \cup {None}
    BY DEF TypeOK, Bind, ListenerMap
  <1>2. rs \in RouteMap
    BY <1>1, EmptyMaps DEF Listener
  <1>3. lis \in Listener /\ lis.routes = Merge(rs, staged_routes[k])
    <2> HIDE DEF rs
    <2> QED
      BY <1>2, NewListenerType
  <1>4. bind \in Bind /\ bind.listeners = [by_name[b].listeners EXCEPT ![k] = lis]
    <2> HIDE DEF lis
    <2> QED
      BY <1>1, <1>3, SetListenerType
  <1>5. routes \in [ListenerKey -> RouteMap]
    BY EmptyMaps DEF TypeOK
  <1>6. PutBind(b, bind, routes)
    BY DEF InsertListener
  <1>7. Stores(b, bind, routes)
    BY <1>4, <1>5, <1>6 DEF Stores
  <1>8. \A j \in ListenerKey : routes[j] = IF j = k THEN NoRoutes ELSE staged_routes[j]
    BY DEF TypeOK
  <1>9. \A j \in ListenerKey : bind.listeners[j] = IF j = k THEN lis ELSE by_name[b].listeners[j]
    <2> HIDE DEF bind, lis
    <2> QED
      BY <1>1, <1>4 DEF Bind, ListenerMap
  <1> HIDE DEF bind, lis, routes
  <1> QED
    BY <1>3, <1>7, <1>8, <1>9 DEF ListenerStored

LEMMA WithRouteStores ==
  ASSUME TypeOK, NEW k \in ListenerKey, NEW b \in Holders(k),
         NEW r \in RouteKey, NEW d \in Data \cup {None},
         PutBind(b, WithRoute(b, k, r, d), staged_routes)
  PROVE  Stores(b, WithRoute(b, k, r, d), staged_routes)
  BY WithRouteType DEF Stores, TypeOK

LEMMA RemoveListenerStores ==
  ASSUME TypeOK, NEW k \in ListenerKey, NEW b \in Holders(k),
         PutBind(b, [by_name[b] EXCEPT !.listeners = [@ EXCEPT ![k] = None]], staged_routes)
  PROVE  \E bind : /\ Stores(b, bind, staged_routes)
                   /\ \A j \in ListenerKey :
                        bind.listeners[j] = IF j = k THEN None ELSE by_name[b].listeners[j]
  <1>1. b \in BindName /\ by_name[b] \in Bind
    BY DEF Holders, TypeOK
  <1> DEFINE bind == [by_name[b] EXCEPT !.listeners = [@ EXCEPT ![k] = None]]
  <1>2. bind \in Bind /\ bind.listeners = [by_name[b].listeners EXCEPT ![k] = None]
    BY <1>1, SetListenerType
  <1>3. Stores(b, bind, staged_routes)
    <2> HIDE DEF bind
    <2>1. PutBind(b, bind, staged_routes)
      BY DEF bind
    <2> QED
      BY <1>1, <1>2, <2>1 DEF Stores, TypeOK
  <1>4. \A j \in ListenerKey : bind.listeners[j] = IF j = k THEN None ELSE by_name[b].listeners[j]
    <2> HIDE DEF bind
    <2> QED
      BY <1>1, <1>2 DEF Bind, ListenerMap
  <1> HIDE DEF bind
  <1> QED
    BY <1>3, <1>4

-----------------------------------------------------------------------------
(* The kinds of steps the invariants tell apart. *)
StoreStep == \E b, bind, routes : Stores(b, bind, routes)
StageListenerStep == \E k \in ListenerKey, d \in Data, b \in BindName :
                       by_name[b] = None /\ InsertListener(k, d, b)
StageRouteStep == \E r \in RouteKey, d \in Data, k \in ListenerKey :
                    Holders(k) = {} /\ InsertRoute(r, d, k)
RemoveBindStep == \E b \in BindName : RemoveBind(b)
PolicyStep == \/ \E p \in PolicyName, t \in PolicyTarget : InsertPolicy(p, t)
              \/ \E p \in PolicyName : RemovePolicy(p)
BackendStep == \/ \E n \in BackendName, d \in Data : InsertBackend(n, d)
               \/ \E n \in BackendName : RemoveBackend(n)

(* Every step of the store is of one of those kinds. *)
LEMMA StepKinds ==
  ASSUME TypeOK, Next
  PROVE  \/ StoreStep \/ StageListenerStep \/ StageRouteStep \/ RemoveBindStep
         \/ PolicyStep \/ BackendStep \/ Recv
  <1>1. ASSUME NEW b \in BindName, NEW a \in Address, InsertXdsBind(b, a)
        PROVE  StoreStep
    BY <1>1, InsertXdsBindStores DEF StoreStep
  <1>2. ASSUME NEW k \in ListenerKey, NEW d \in Data, NEW b \in BindName,
               InsertListener(k, d, b)
        PROVE  StoreStep \/ StageListenerStep
    <2>1. CASE by_name[b] = None
      BY <1>2, <2>1 DEF StageListenerStep
    <2>2. CASE by_name[b] # None
      BY <1>2, <2>2, InsertListenerStores DEF StoreStep, ListenerStored
    <2> QED
      BY <2>1, <2>2
  <1>3. ASSUME NEW r \in RouteKey, NEW d \in Data, NEW k \in ListenerKey,
               InsertRoute(r, d, k)
        PROVE  StoreStep \/ StageRouteStep
    <2>1. CASE Holders(k) = {}
      BY <1>3, <2>1 DEF StageRouteStep
    <2>2. CASE Holders(k) # {}
      <3>1. PICK b \in Holders(k) : PutBind(b, WithRoute(b, k, r, d), staged_routes)
        BY <1>3, <2>2 DEF InsertRoute
      <3>2. Stores(b, WithRoute(b, k, r, d), staged_routes)
        BY <3>1, WithRouteStores
      <3> QED
        BY <3>2 DEF StoreStep
    <2> QED
      BY <2>1, <2>2
  <1>4. ASSUME NEW k \in ListenerKey, RemoveListener(k)
        PROVE  StoreStep
    <2>1. PICK b \in Holders(k) :
            PutBind(b, [by_name[b] EXCEPT !.listeners = [@ EXCEPT ![k] = None]], staged_routes)
      BY Zenon, <1>4 DEF RemoveListener
    <2> QED
      BY Zenon, <2>1, RemoveListenerStores DEF StoreStep
  <1>5. ASSUME NEW r \in RouteKey, RemoveRoute(r)
        PROVE  StoreStep
    <2>1. PICK k \in ListenerKey : \E b \in Holders(k) :
            PutBind(b, WithRoute(b, k, r, None), staged_routes)
      BY <1>5 DEF RemoveRoute
    <2>2. PICK b \in Holders(k) : PutBind(b, WithRoute(b, k, r, None), staged_routes)
      BY <2>1
    <2>3. Stores(b, WithRoute(b, k, r, None), staged_routes)
      BY <2>2, WithRouteStores
    <2> QED
      BY <2>3 DEF StoreStep
  <1>6. ASSUME NEW b \in BindName, NEW bind \in Bind, InsertBind(b, bind)
        PROVE  StoreStep
    BY <1>6, InsertBindStores DEF StoreStep
  <1>7. CASE XdsCall
    BY <1>1, <1>2, <1>3, <1>4, <1>5, <1>7 DEF XdsCall, RemoveBindStep, BackendStep
  <1>8. CASE LocalCall
    BY <1>6, <1>8 DEF LocalCall, RemoveBindStep, BackendStep, PolicyStep
  <1> QED
    BY <1>7, <1>8 DEF Next

(* What staging a listener does. *)
LEMMA StageListenerEffect ==
  ASSUME TypeOK, NEW k \in ListenerKey, NEW d \in Data, NEW b \in BindName,
         InsertListener(k, d, b), by_name[b] = None
  PROVE  /\ staged_listeners' \in [BindName -> ListenerMap]
         /\ \A c \in BindName \ {b} : staged_listeners'[c] = staged_listeners[c]
         /\ staged_routes' = [staged_routes EXCEPT ![k] = NoRoutes]
         /\ UNCHANGED <<by_name, tx, missed, policies_by_name, policies_by_target,
                        backends_by_name>>
  <1> DEFINE lis == AddRoutes([data |-> d, routes |-> NoRoutes], staged_routes[k])
             ls == [staged_listeners[b] EXCEPT ![k] = lis]
  <1>1. lis \in Listener
    BY NewListenerType, EmptyMaps
  <1>2. ls \in ListenerMap
    <2> HIDE DEF lis
    <2> QED
      BY <1>1 DEF TypeOK, ListenerMap
  <1>3. /\ staged_listeners' = [staged_listeners EXCEPT ![b] = ls]
        /\ staged_routes' = [staged_routes EXCEPT ![k] = NoRoutes]
        /\ UNCHANGED <<by_name, tx, missed, policies_by_name, policies_by_target,
                       backends_by_name>>
    BY DEF InsertListener
  <1> HIDE DEF ls
  <1> QED
    BY <1>2, <1>3 DEF TypeOK

(* The types are preserved by every step. *)
LEMMA TypePreserved == TypeOK /\ [Next]_vars => TypeOK'
  <1> SUFFICES ASSUME TypeOK, [Next]_vars
               PROVE  TypeOK'
    OBVIOUS
  <1>1. CASE StoreStep
    BY <1>1, PutBindType DEF StoreStep, Stores
  <1>2. CASE StageListenerStep
    <2>1. staged_listeners' \in [BindName -> ListenerMap]
            /\ staged_routes' \in [ListenerKey -> RouteMap]
            /\ UNCHANGED <<by_name, tx, missed, policies_by_name, policies_by_target,
                           backends_by_name>>
      BY <1>2, StageListenerEffect, EmptyMaps DEF StageListenerStep, TypeOK
    <2> QED
      BY <2>1 DEF TypeOK
  <1>3. CASE StageRouteStep
    <2>1. PICK r \in RouteKey, d \in Data, k \in ListenerKey :
            Holders(k) = {} /\ InsertRoute(r, d, k)
      BY <1>3 DEF StageRouteStep
    <2>2. staged_routes' = [staged_routes EXCEPT ![k] = [staged_routes[k] EXCEPT ![r] = d]]
      BY <2>1 DEF InsertRoute
    <2>3. staged_routes' \in [ListenerKey -> RouteMap]
      BY <2>2 DEF TypeOK, RouteMap
    <2> QED
      BY <2>1, <2>3 DEF InsertRoute, TypeOK
  <1>4. CASE RemoveBindStep
    <2>1. PICK b \in BindName : RemoveBind(b)
      BY <1>4 DEF RemoveBindStep
    <2>2. by_name[b].address \in Address
      BY <2>1 DEF RemoveBind, TypeOK, Bind
    <2>3. tx' \in Seq(Event) /\ Len(tx') <= TxCapacity /\ missed' \in BOOLEAN
      BY <2>1, <2>2, SendType DEF RemoveBind, TypeOK
    <2> QED
      BY <2>1, <2>3 DEF RemoveBind, TypeOK
  <1>5. CASE PolicyStep
    <2>1. \A p : Unindexed(p) \in [PolicyTarget -> SUBSET PolicyName]
      BY DEF Unindexed, TypeOK
    <2>2. ASSUME NEW p \in PolicyName, NEW t \in PolicyTarget, InsertPolicy(p, t)
          PROVE  TypeOK'
      BY <2>1, <2>2 DEF InsertPolicy, TypeOK
    <2>3. ASSUME NEW p \in PolicyName, RemovePolicy(p)
          PROVE  TypeOK'
      BY <2>1, <2>3 DEF RemovePolicy, TypeOK
    <2> QED
      BY <1>5, <2>2, <2>3 DEF PolicyStep
  <1>6. CASE BackendStep
    BY <1>6 DEF BackendStep, InsertBackend, RemoveBackend, TypeOK
  <1>7. CASE Recv
    <2>1. tx' \in Seq(Event) /\ Len(tx') = Len(tx) - 1
      BY <1>7 DEF Recv, TypeOK
    <2>2. Len(tx') <= TxCapacity
      BY <2>1, CapacityAssumption DEF TypeOK
    <2> QED
      BY <1>7, <2>1, <2>2 DEF Recv, TypeOK
  <1>8. CASE UNCHANGED vars
    BY <1>8 DEF vars, TypeOK
  <1> QED
    BY <1>1, <1>2, <1>3, <1>4, <1>5, <1>6, <1>7, <1>8, StepKinds

LEMMA TypeInit == Init => TypeOK
  <1> SUFFICES ASSUME Init
               PROVE  TypeOK
    OBVIOUS
  <1>1. tx \in Seq(Event) /\ Len(tx) <= TxCapacity
    BY CapacityAssumption DEF Init
  <1> QED
    BY Zenon, <1>1, EmptyMaps DEF Init, TypeOK

(* The maps of the store have their types and the event channel never      *)
(* exceeds its capacity.                                                   *)
THEOREM TypeCorrect == Spec => []TypeOK
  BY TypeInit, TypePreserved, PTL DEF Spec

-----------------------------------------------------------------------------
LEMMA StagedListenersPreserved ==
  TypeOK /\ StagedListenersWait /\ [Next]_vars => StagedListenersWait'
  <1> SUFFICES ASSUME TypeOK, StagedListenersWait, [Next]_vars,
                      NEW c \in BindName, by_name'[c] # None
               PROVE  staged_listeners'[c] = NoListeners
    BY DEF StagedListenersWait
  <1>1. CASE StoreStep
    <2>1. PICK b, bind, routes : Stores(b, bind, routes)
      BY <1>1 DEF StoreStep
    <2>2. /\ staged_listeners' = [staged_listeners EXCEPT ![b] = NoListeners]
          /\ b \in BindName
          /\ \A x \in BindName \ {b} : by_name'[x] = by_name[x]
      BY ZenonT(30), <2>1, PutBindEffect DEF Stores, PutBind
    <2>3. CASE c = b
      BY <2>2, <2>3 DEF TypeOK
    <2>4. CASE c # b
      BY <2>2, <2>4 DEF StagedListenersWait, TypeOK
    <2> QED
      BY <2>3, <2>4
  <1>2. CASE StageListenerStep
    <2>1. PICK k \in ListenerKey, d \in Data, b \in BindName :
            by_name[b] = None /\ InsertListener(k, d, b)
      BY <1>2 DEF StageListenerStep
    <2>2. by_name' = by_name /\ \A x \in BindName \ {b} : staged_listeners'[x] = staged_listeners[x]
      BY <2>1, StageListenerEffect
    <2> QED
      BY <2>1, <2>2 DEF StagedListenersWait
  <1>3. CASE StageRouteStep
    BY <1>3 DEF StageRouteStep, InsertRoute, StagedListenersWait
  <1>4. CASE RemoveBindStep
    BY <1>4 DEF RemoveBindStep, RemoveBind, StagedListenersWait, TypeOK
  <1>5. CASE PolicyStep
    BY <1>5 DEF PolicyStep, InsertPolicy, RemovePolicy, StagedListenersWait
  <1>6. CASE BackendStep
    BY <1>6 DEF BackendStep, InsertBackend, RemoveBackend, StagedListenersWait
  <1>7. CASE Recv
    BY <1>7 DEF Recv, StagedListenersWait
  <1>8. CASE UNCHANGED vars
    BY <1>8 DEF vars, StagedListenersWait
  <1> QED
    BY <1>1, <1>2, <1>3, <1>4, <1>5, <1>6, <1>7, <1>8, StepKinds

(* No sequence of calls, of either source, strands a listener in           *)
(* staged_listeners beside the bind it belongs to.                         *)
THEOREM StagedListenersCorrect == Spec => []StagedListenersWait
  <1>1. Init => StagedListenersWait
    BY DEF Init, StagedListenersWait
  <1> QED
    BY <1>1, TypeInit, TypePreserved, StagedListenersPreserved, PTL DEF Spec

-----------------------------------------------------------------------------
LEMMA PolicyIndexPreserved ==
  TypeOK /\ PolicyIndexExact /\ [Next]_vars => PolicyIndexExact'
  <1> SUFFICES ASSUME TypeOK, PolicyIndexExact, [Next]_vars
               PROVE  PolicyIndexExact'
    OBVIOUS
  <1> USE NoneAssumption
  <1>1. CASE PolicyStep
    <2>1. ASSUME NEW p \in PolicyName, NEW t \in PolicyTarget, InsertPolicy(p, t)
          PROVE  PolicyIndexExact'
      <3> SUFFICES ASSUME NEW x \in PolicyTarget
                   PROVE  policies_by_target'[x] = {q \in PolicyName : policies_by_name'[q] = x}
        BY DEF PolicyIndexExact
      <3>1. policies_by_target[x] = {q \in PolicyName : policies_by_name[q] = x}
        BY DEF PolicyIndexExact
      <3>2. Unindexed(p)[x] = {q \in PolicyName \ {p} : policies_by_name[q] = x}
        BY <3>1 DEF Unindexed
      <3>3. policies_by_target'[x] = IF x = t THEN Unindexed(p)[x] \cup {p} ELSE Unindexed(p)[x]
        BY <2>1 DEF InsertPolicy, Unindexed
      <3>4. \A q \in PolicyName : policies_by_name'[q] = IF q = p THEN t ELSE policies_by_name[q]
        BY <2>1 DEF InsertPolicy, TypeOK
      <3> QED
        BY <3>2, <3>3, <3>4
    <2>2. ASSUME NEW p \in PolicyName, RemovePolicy(p)
          PROVE  PolicyIndexExact'
      <3> SUFFICES ASSUME NEW x \in PolicyTarget
                   PROVE  policies_by_target'[x] = {q \in PolicyName : policies_by_name'[q] = x}
        BY DEF PolicyIndexExact
      <3>1. policies_by_target[x] = {q \in PolicyName : policies_by_name[q] = x}
        BY DEF PolicyIndexExact
      <3>2. policies_by_target'[x] = {q \in PolicyName \ {p} : policies_by_name[q] = x}
        BY <2>2, <3>1 DEF RemovePolicy, Unindexed
      <3>3. \A q \in PolicyName : policies_by_name'[q] = IF q = p THEN None ELSE policies_by_name[q]
        BY <2>2 DEF RemovePolicy, TypeOK
      <3> QED
        BY <3>2, <3>3
    <2> QED
      BY <1>1, <2>1, <2>2 DEF PolicyStep
  <1>2. CASE UNCHANGED <<policies_by_name, policies_by_target>>
    BY <1>2 DEF PolicyIndexExact
  <1>3. \/ PolicyStep
        \/ UNCHANGED <<policies_by_name, policies_by_target>>
    <2>1. StoreStep => UNCHANGED <<policies_by_name, policies_by_target>>
      BY DEF StoreStep, Stores, PutBind
    <2>2. StageListenerStep => UNCHANGED <<policies_by_name, policies_by_target>>
      BY StageListenerEffect DEF StageListenerStep
    <2>3. StageRouteStep => UNCHANGED <<policies_by_name, policies_by_target>>
      BY DEF StageRouteStep, InsertRoute
    <2>4. RemoveBindStep \/ BackendStep \/ Recv \/ UNCHANGED vars
            => UNCHANGED <<policies_by_name, policies_by_target>>
      BY DEF RemoveBindStep, RemoveBind, BackendStep, InsertBackend, RemoveBackend, Recv, vars
    <2> QED
      BY <2>1, <2>2, <2>3, <2>4, StepKinds
  <1> QED
    BY <1>1, <1>2, <1>3

(* The index of policies by target is exact whatever the order in which    *)
(* policies are inserted, retargeted and removed.                          *)
THEOREM PolicyIndexCorrect == Spec => []PolicyIndexExact
  <1>1. Init => PolicyIndexExact
    BY Zenon, NoneAssumption DEF Init, PolicyIndexExact
  <1> QED
    BY <1>1, TypeInit, TypePreserved, PolicyIndexPreserved, PTL DEF Spec

-----------------------------------------------------------------------------
(* Event e tells what `bind`, the value of by_name for its key, is. *)
Tells(e, bind) ==
  IF e.type = "Remove" THEN bind = None
  ELSE bind # None /\ bind.address = e.address

(* Forgetting the oldest events does not hurt. *)
LEMMA TailTells ==
  ASSUME TypeOK, LastEventTells, tx # <<>>,
         NEW i \in 1..Len(Tail(tx))
  PROVE  \/ \E j \in i+1..Len(Tail(tx)) : Tail(tx)[j].key = Tail(tx)[i].key
         \/ Tells(Tail(tx)[i], by_name[Tail(tx)[i].key])
  <1>1. /\ Len(tx) \in Nat
        /\ Len(Tail(tx)) = Len(tx) - 1
        /\ \A n \in 1..Len(Tail(tx)) : Tail(tx)[n] = tx[n+1]
    BY DEF TypeOK
  <1>2. i+1 \in 1..Len(tx) /\ Tail(tx)[i] = tx[i+1]
    BY <1>1
  <1>3. CASE \E j \in (i+1)+1..Len(tx) : tx[j].key = tx[i+1].key
    <2>1. PICK j \in (i+1)+1..Len(tx) : tx[j].key = tx[i+1].key
      BY <1>3
    <2>2. j - 1 \in i+1..Len(Tail(tx)) /\ Tail(tx)[j-1] = tx[j]
      BY <1>1
    <2> QED
      BY <1>2, <2>1, <2>2
  <1>4. CASE ~\E j \in (i+1)+1..Len(tx) : tx[j].key = tx[i+1].key
    BY ZenonT(30), <1>2, <1>4 DEF LastEventTells, Tells
  <1> QED
    BY Zenon, <1>3, <1>4

(* An event appended for a change of by_name at b keeps the rest truthful. *)
LEMMA SendTells ==
  ASSUME TypeOK, LastEventTells,
         NEW type \in {"Add", "Remove"}, NEW b \in BindName, NEW a \in Address,
         Send(type, b, a),
         Tells([type |-> type, key |-> b, address |-> a], by_name'[b]),
         \A c \in BindName \ {b} : by_name'[c] = by_name[c]
  PROVE  LastEventTells'
  <1> DEFINE e == [type |-> type, key |-> b, address |-> a]
             kept == IF Len(tx) < TxCapacity THEN tx ELSE Tail(tx)
             n == Len(kept)
  <1>1. Len(tx) \in Nat /\ TxCapacity \in Nat \ {0} /\ e \in Event
    BY CapacityAssumption DEF TypeOK, Event
  <1>2. ASSUME ~(Len(tx) < TxCapacity)
        PROVE  tx # <<>>
    BY <1>1, <1>2
  <1>3. kept \in Seq(Event)
    BY <1>2 DEF TypeOK
  <1>4. ASSUME NEW i \in 1..n
        PROVE  \/ \E j \in i+1..n : kept[j].key = kept[i].key
               \/ Tells(kept[i], by_name[kept[i].key])
    <2>1. CASE Len(tx) < TxCapacity
      BY <1>4, <2>1 DEF LastEventTells, Tells
    <2>2. CASE ~(Len(tx) < TxCapacity)
      BY <1>2, <1>4, <2>2, TailTells
    <2> QED
      BY <2>1, <2>2
  <1>5. /\ tx' = Append(kept, e)
        /\ n \in Nat
        /\ Len(tx') = n + 1
        /\ tx'[n+1] = e
        /\ \A i \in 1..n : tx'[i] = kept[i]
    <2>1. tx' = Append(kept, e)
      BY DEF Send
    <2> HIDE DEF kept, e
    <2> QED
      BY <2>1, <1>1, <1>3
  <1>6. \A i \in 1..n : kept[i] \in Event
    <2> HIDE DEF kept
    <2> QED
      BY <1>3, <1>5
  <1> HIDE DEF kept, n
  <1>9. Len(tx') = n + 1
    BY Zenon, <1>5
  <1> SUFFICES ASSUME NEW i \in 1..n+1,
                      \A j \in i+1..n+1 : tx'[j].key # tx'[i].key
               PROVE  Tells(tx'[i], by_name'[tx'[i].key])
    BY Zenon, <1>9 DEF LastEventTells, Tells
  <1>7. CASE i = n + 1
    BY <1>5, <1>7
  <1>8. CASE i # n + 1
    <2>1. i \in 1..n /\ n+1 \in i+1..n+1
      BY <1>5, <1>8
    <2>2. tx'[i] = kept[i] /\ kept[i].key # b
      BY <1>5, <2>1
    <2>3. \A j \in i+1..n : kept[j].key # kept[i].key
      <3> SUFFICES ASSUME NEW j \in i+1..n
                   PROVE  kept[j].key # kept[i].key
        OBVIOUS
      <3>1. j \in 1..n /\ j \in i+1..n+1
        BY <1>5, <2>1
      <3> QED
        BY Zenon, <1>5, <2>1, <3>1
    <2>4. Tells(kept[i], by_name[kept[i].key])
      BY <1>4, <2>1, <2>3
    <2>5. kept[i].key \in BindName \ {b}
      BY <1>6, <2>1, <2>2 DEF Event
    <2> QED
      BY <2>2, <2>4, <2>5
  <1> QED
    BY <1>7, <1>8

LEMMA LastEventPreserved ==
  TypeOK /\ LastEventTells /\ [Next]_vars => LastEventTells'
  <1> SUFFICES ASSUME TypeOK, LastEventTells, [Next]_vars
               PROVE  LastEventTells'
    OBVIOUS
  <1>1. CASE StoreStep
    <2>1. PICK b, bind, routes : Stores(b, bind, routes)
      BY <1>1 DEF StoreStep
    <2>2. /\ b \in BindName
          /\ bind.address \in Address
          /\ by_name'[b] # None
          /\ by_name'[b].address = bind.address
          /\ \A c \in BindName \ {b} : by_name'[c] = by_name[c]
          /\ Send("Add", b, bind.address)
      BY ZenonT(30), <2>1, PutBindEffect DEF Stores, PutBind, Bind
    <2>3. Tells([type |-> "Add", key |-> b, address |-> bind.address], by_name'[b])
      BY <2>2 DEF Tells
    <2> QED
      BY <2>2, <2>3, SendTells
  <1>2. CASE RemoveBindStep
    <2>1. PICK b \in BindName : RemoveBind(b)
      BY <1>2 DEF RemoveBindStep
    <2>2. /\ by_name[b].address \in Address
          /\ by_name'[b] = None
          /\ \A c \in BindName \ {b} : by_name'[c] = by_name[c]
          /\ Send("Remove", b, by_name[b].address)
      BY <2>1 DEF RemoveBind, TypeOK, Bind
    <2>3. Tells([type |-> "Remove", key |-> b, address |-> by_name[b].address], by_name'[b])
      BY <2>2 DEF Tells
    <2> QED
      BY <2>2, <2>3, SendTells
  <1>3. CASE Recv
    <2>1. tx # <<>> /\ tx' = Tail(tx) /\ by_name' = by_name
      BY <1>3 DEF Recv
    <2> QED
      BY Zenon, <2>1, TailTells DEF LastEventTells, Tells
  <1>4. CASE UNCHANGED <<by_name, tx>>
    BY <1>4 DEF LastEventTells
  <1>5. StoreStep \/ RemoveBindStep \/ Recv \/ UNCHANGED <<by_name, tx>>
    <2>1. StageListenerStep => UNCHANGED <<by_name, tx>>
      BY StageListenerEffect DEF StageListenerStep
    <2>2. StageRouteStep => UNCHANGED <<by_name, tx>>
      BY DEF StageRouteStep, InsertRoute
    <2>3. PolicyStep \/ BackendStep \/ UNCHANGED vars => UNCHANGED <<by_name, tx>>
      BY DEF PolicyStep, InsertPolicy, RemovePolicy, BackendStep, InsertBackend,
             RemoveBackend, vars
    <2> QED
      BY Zenon, <2>1, <2>2, <2>3, StepKinds
  <1> QED
    BY Zenon, <1>1, <1>2, <1>3, <1>4, <1>5

(* Whatever the channel has dropped, the youngest event left about a bind  *)
(* agrees with by_name.                                                    *)
THEOREM LastEventCorrect == Spec => []LastEventTells
  <1>1. Init => LastEventTells
    BY DEF Init, LastEventTells
  <1> QED
    BY <1>1, TypeInit, TypePreserved, LastEventPreserved, PTL DEF Spec

-----------------------------------------------------------------------------
(***************************************************************************)
(* Routes, for a proxy that is configured over xDS.                        *)
(***************************************************************************)

(* Storing a bind whose listeners have no routes left staged. *)
LEMMA StoreRoutesWait ==
  ASSUME TypeOK, NEW b, NEW bind, NEW routes, Stores(b, bind, routes),
         \A k \in ListenerKey :
           (bind.listeners[k] # None \/ Holders(k) # {}) => routes[k] = NoRoutes
  PROVE  StagedRoutesWait'
  <1> SUFFICES ASSUME NEW k \in ListenerKey, NEW c \in BindName,
                      by_name'[c] # None, by_name'[c].listeners[k] # None
               PROVE  staged_routes'[k] = NoRoutes
    BY DEF StagedRoutesWait, Holders
  <1>1. staged_routes'[k] = IF staged_listeners[b][k] = None THEN routes[k] ELSE NoRoutes
    BY DEF Stores, PutBind
  <1>2. CASE staged_listeners[b][k] # None
    BY <1>1, <1>2
  <1>3. CASE staged_listeners[b][k] = None
    <2>1. CASE c = b
      <3>1. bind.listeners[k] # None
        BY Zenon, <1>3, <2>1, PutBindEffect DEF Stores
      <3> QED
        BY Zenon, <1>1, <1>3, <3>1
    <2>2. CASE c # b
      <3>1. c \in Holders(k)
        BY <2>2, PutBindEffect DEF Stores, Holders
      <3> QED
        BY Zenon, <1>1, <1>3, <3>1
    <2> QED
      BY <2>1, <2>2
  <1> QED
    BY Zenon, <1>2, <1>3

LEMMA StagedRoutesPreserved ==
  TypeOK /\ StagedRoutesWait /\ [XdsCall \/ Recv]_vars => StagedRoutesWait'
  <1> SUFFICES ASSUME TypeOK, StagedRoutesWait, [XdsCall \/ Recv]_vars
               PROVE  StagedRoutesWait'
    BY Zenon
  <1>1. ASSUME NEW b \in BindName, NEW a \in Address, InsertXdsBind(b, a)
        PROVE  StagedRoutesWait'
    <2>1. PICK bind : /\ Stores(b, bind, staged_routes)
                      /\ bind.listeners = IF by_name[b] = None THEN NoListeners
                                          ELSE by_name[b].listeners
      BY <1>1, InsertXdsBindStores
    <2>2. ASSUME NEW k \in ListenerKey, bind.listeners[k] # None
          PROVE  Holders(k) # {}
      BY Zenon, <2>1, <2>2 DEF NoListeners, Holders
    <2> QED
      BY <2>1, <2>2, StoreRoutesWait DEF StagedRoutesWait
  <1>2. ASSUME NEW k \in ListenerKey, NEW d \in Data, NEW b \in BindName,
               InsertListener(k, d, b), by_name[b] # None
        PROVE  StagedRoutesWait'
    <2>1. PICK bind, lis, routes : ListenerStored(k, b, bind, lis, routes)
      BY Zenon, <1>2, InsertListenerStores
    <2>2. ASSUME NEW j \in ListenerKey, bind.listeners[j] # None \/ Holders(j) # {}
          PROVE  routes[j] = NoRoutes
      BY Zenon, <1>2, <2>1, <2>2 DEF Holders, StagedRoutesWait, ListenerStored
    <2>3. Stores(b, bind, routes)
      BY Zenon, <2>1 DEF ListenerStored
    <2> QED
      BY <2>2, <2>3, StoreRoutesWait
  <1>3. ASSUME NEW k \in ListenerKey, NEW d \in Data, NEW b \in BindName,
               InsertListener(k, d, b), by_name[b] = None
        PROVE  StagedRoutesWait'
    <2>1. by_name' = by_name /\ staged_routes' = [staged_routes EXCEPT ![k] = NoRoutes]
      BY Zenon, <1>3, StageListenerEffect
    <2> QED
      BY <2>1 DEF StagedRoutesWait, Holders, TypeOK
  <1>4. ASSUME NEW k \in ListenerKey, NEW b \in Holders(k), NEW r \in RouteKey,
               NEW d \in Data \cup {None}, PutBind(b, WithRoute(b, k, r, d), staged_routes)
        PROVE  StagedRoutesWait'
    <2>1. Stores(b, WithRoute(b, k, r, d), staged_routes)
      BY <1>4, WithRouteStores
    <2>2. ASSUME NEW j \in ListenerKey, WithRoute(b, k, r, d).listeners[j] # None
          PROVE  Holders(j) # {}
      <3>1. CASE j = k
        BY Zenon, <1>4, <3>1
      <3>2. CASE j # k
        <4>1. \A i \in ListenerKey \ {k} :
                WithRoute(b, k, r, d).listeners[i] = by_name[b].listeners[i]
          BY <1>4, WithRouteType
        <4> QED
          BY Zenon, <1>4, <2>2, <3>2, <4>1 DEF Holders
      <3> QED
        BY <3>1, <3>2
    <2> QED
      BY <2>1, <2>2, StoreRoutesWait DEF StagedRoutesWait
  <1>5. ASSUME NEW r \in RouteKey, NEW d \in Data, NEW k \in ListenerKey, InsertRoute(r, d, k)
        PROVE  StagedRoutesWait'
    <2>1. CASE Holders(k) # {}
      BY <1>4, <1>5, <2>1 DEF InsertRoute
    <2>2. CASE Holders(k) = {}
      <3>1. by_name' = by_name
              /\ \A j \in ListenerKey \ {k} : staged_routes'[j] = staged_routes[j]
        BY Zenon, <1>5, <2>2 DEF InsertRoute, TypeOK
      <3> QED
        BY <2>2, <3>1 DEF StagedRoutesWait, Holders
    <2> QED
      BY <2>1, <2>2
  <1>6. ASSUME NEW b \in BindName, RemoveBind(b)
        PROVE  StagedRoutesWait'
    BY Zenon, <1>6 DEF RemoveBind, StagedRoutesWait, Holders, TypeOK
  <1>7. ASSUME NEW k \in ListenerKey, RemoveListener(k)
        PROVE  StagedRoutesWait'
    <2>1. PICK b \in Holders(k) :
            PutBind(b, [by_name[b] EXCEPT !.listeners = [@ EXCEPT ![k] = None]], staged_routes)
      BY <1>7 DEF RemoveListener
    <2>2. PICK bind : /\ Stores(b, bind, staged_routes)
                      /\ \A j \in ListenerKey : bind.listeners[j] =
                           IF j = k THEN None ELSE by_name[b].listeners[j]
      BY <2>1, RemoveListenerStores
    <2>4. ASSUME NEW j \in ListenerKey, bind.listeners[j] # None
          PROVE  Holders(j) # {}
      BY <2>2, <2>4 DEF Holders
    <2>5. \A j \in ListenerKey :
            (bind.listeners[j] # None \/ Holders(j) # {}) => staged_routes[j] = NoRoutes
      BY <2>4 DEF StagedRoutesWait
    <2> QED
      BY <2>2, <2>5, StoreRoutesWait
  <1>8. ASSUME NEW r \in RouteKey, RemoveRoute(r)
        PROVE  StagedRoutesWait'
    BY Zenon, <1>4, <1>8 DEF RemoveRoute
  <1>9. CASE Recv \/ BackendStep \/ UNCHANGED vars
    BY <1>9 DEF Recv, BackendStep, InsertBackend, RemoveBackend, vars, StagedRoutesWait, Holders
  <1> QED
    BY <1>1, <1>2, <1>3, <1>5, <1>6, <1>7, <1>8, <1>9 DEF XdsCall, BackendStep

(* A proxy that is configured over xDS never leaves a listener staged      *)
(* beside its bind or a route beside its listener.                         *)
THEOREM StagedItemsCorrect == XdsSpec => []StagedItemsWait
  <1>1. Init => StagedListenersWait /\ StagedRoutesWait
    BY DEF Init, StagedListenersWait, StagedRoutesWait
  <1>2. [XdsCall \/ Recv]_vars => [Next]_vars
    BY Zenon DEF Next
  <1> QED
    BY <1>1, <1>2, TypeInit, TypePreserved, StagedListenersPreserved,
       StagedRoutesPreserved, PTL DEF XdsSpec, StagedItemsWait

-----------------------------------------------------------------------------
(* A call that stores a bind keeps the routes of a listener that the bind  *)
(* had before, if the value it stores does: nothing is staged for a bind   *)
(* that is present, so nothing overrides that value.                       *)
HasListener(binds, c, l) == binds[c] # None /\ binds[c].listeners[l] # None

HasRoute(binds, c, l, q) ==
  HasListener(binds, c, l) /\ binds[c].listeners[l].routes[q] # None

LEMMA StoreKeepsRoutes ==
  ASSUME TypeOK, StagedListenersWait,
         NEW b, NEW bind, NEW routes, Stores(b, bind, routes),
         NEW c \in BindName, NEW l \in ListenerKey, NEW q \in RouteKey,
         HasRoute(by_name, c, l, q), HasListener(by_name', c, l),
         (c = b /\ bind.listeners[l] # None) => bind.listeners[l].routes[q] # None
  PROVE  HasRoute(by_name', c, l, q)
  <1>1. CASE c # b
    <2>1. by_name'[c] = by_name[c]
      BY Zenon, <1>1, PutBindEffect DEF Stores
    <2> QED
      BY Zenon, <2>1 DEF HasRoute
  <1>2. CASE c = b
    <2>1. staged_listeners[b][l] = None
      BY Zenon, <1>2 DEF StagedListenersWait, NoListeners, HasRoute, HasListener
    <2>2. by_name'[b].listeners[l] = bind.listeners[l]
      BY ZenonT(30), <2>1, PutBindEffect DEF Stores
    <2> QED
      BY Zenon, <1>2, <2>2 DEF HasRoute, HasListener
  <1> QED
    BY Zenon, <1>1, <1>2

LEMMA RoutesKeptStep ==
  ASSUME TypeOK, StagedListenersWait, [XdsCall \/ Recv]_vars,
         NEW c \in BindName, NEW l \in ListenerKey
  PROVE  KeepsRoutes(c, l)
  <1> SUFFICES ASSUME NEW q \in RouteKey,
                      HasRoute(by_name, c, l, q), HasListener(by_name', c, l),
                      ~RemoveRoute(q)
               PROVE  HasRoute(by_name', c, l, q)
    BY Zenon DEF KeepsRoutes, HasRoute, HasListener
  <1>1. ASSUME NEW b \in BindName, NEW a \in Address, InsertXdsBind(b, a)
        PROVE  HasRoute(by_name', c, l, q)
    <2>1. PICK bind : /\ Stores(b, bind, staged_routes)
                      /\ bind.listeners = IF by_name[b] = None THEN NoListeners
                                          ELSE by_name[b].listeners
      BY ZenonT(30), <1>1, InsertXdsBindStores
    <2>2. (c = b /\ bind.listeners[l] # None) => bind.listeners[l].routes[q] # None
      BY Zenon, <2>1 DEF HasRoute, HasListener
    <2> QED
      BY <2>1, <2>2, StoreKeepsRoutes, SMTT(30)
  <1>2. ASSUME NEW k \in ListenerKey, NEW d \in Data, NEW b \in BindName,
               InsertListener(k, d, b), by_name[b] # None
        PROVE  HasRoute(by_name', c, l, q)
    <2>1. PICK bind, lis, routes : ListenerStored(k, b, bind, lis, routes)
      BY <1>2, InsertListenerStores
    <2>2. ASSUME c = b
          PROVE  bind.listeners[l].routes[q] # None
      <3>1. CASE l # k
        BY Zenon, <2>1, <2>2, <3>1 DEF HasRoute, HasListener, ListenerStored
      <3>2. CASE l = k
        <4> DEFINE old == by_name[b].listeners[k].routes
        <4>1. DOMAIN old = RouteKey
          BY <2>2, <3>2, SMTT(30) DEF HasRoute, HasListener, TypeOK, Bind, ListenerMap, Listener, RouteMap
        <4>2. by_name[b].listeners[k] # None /\ old[q] # None
          BY Zenon, <2>2, <3>2 DEF HasRoute, HasListener
        <4>4. lis.routes = Merge(IF by_name[b].listeners[k] = None THEN NoRoutes
                                 ELSE by_name[b].listeners[k].routes, staged_routes[k])
          BY Zenon, <2>1 DEF ListenerStored
        <4>5. lis.routes = Merge(old, staged_routes[k])
          BY Zenon, <4>2, <4>4
        <4>3. lis.routes[q] # None
          BY Zenon, <4>1, <4>2, <4>5 DEF Merge
        <4> QED
          BY Zenon, <2>1, <3>2, <4>3 DEF ListenerStored
      <3> QED
        BY Zenon, <3>1, <3>2
    <2>3. Stores(b, bind, routes)
      BY Zenon, <2>1 DEF ListenerStored
    <2>4. (c = b /\ bind.listeners[l] # None) => bind.listeners[l].routes[q] # None
      BY Zenon, <2>2
    <2> QED
      BY <2>3, <2>4, StoreKeepsRoutes, SMTT(30)
  <1>3. ASSUME NEW k \in ListenerKey, NEW d \in Data, NEW b \in BindName,
               InsertListener(k, d, b), by_name[b] = None
        PROVE  HasRoute(by_name', c, l, q)
    BY Zenon, <1>3, StageListenerEffect DEF HasRoute
  <1>4. ASSUME NEW k \in ListenerKey, NEW b \in Holders(k), NEW r \in RouteKey,
               NEW d \in Data \cup {None}, d # None \/ q # r,
               PutBind(b, WithRoute(b, k, r, d), staged_routes)
        PROVE  HasRoute(by_name', c, l, q)
    <2>1. Stores(b, WithRoute(b, k, r, d), staged_routes)
      BY <1>4, WithRouteStores, SMTT(30)
    <2>2. ASSUME c = b
          PROVE  WithRoute(b, k, r, d).listeners[l].routes[q] # None
      <3>1. by_name[b].listeners[l].routes[q] # None
        BY Zenon, <2>2 DEF HasRoute
      <3>2. CASE l # k
        <4>1. WithRoute(b, k, r, d).listeners[l] = by_name[b].listeners[l]
          BY <3>2, WithRouteType, SMTT(30)
        <4> QED
          BY Zenon, <3>1, <4>1
      <3>3. CASE l = k
        <4>1. WithRoute(b, k, r, d).listeners[k].routes[q] =
                IF q = r THEN d ELSE by_name[b].listeners[k].routes[q]
          BY WithRouteType
        <4> QED
          BY Zenon, <1>4, <3>1, <3>3, <4>1
      <3> QED
        BY <3>2, <3>3
    <2> DEFINE bind == WithRoute(b, k, r, d)
    <2>3. (c = b /\ bind.listeners[l] # None) => bind.listeners[l].routes[q] # None
      BY <2>2
    <2>4. Stores(b, bind, staged_routes)
      BY <2>1
    <2> HIDE DEF bind
    <2> QED
      BY <2>3, <2>4, StoreKeepsRoutes
  <1>5. ASSUME NEW r \in RouteKey, NEW d \in Data, NEW k \in ListenerKey, InsertRoute(r, d, k)
        PROVE  HasRoute(by_name', c, l, q)
    <2>1. CASE Holders(k) # {}
      BY Zenon, <1>4, <1>5, <2>1, NoneAssumption DEF InsertRoute
    <2>2. CASE Holders(k) = {}
      BY Zenon, <1>5, <2>2 DEF InsertRoute, HasRoute
    <2> QED
      BY Zenon, <2>1, <2>2
  <1>6. ASSUME NEW b \in BindName, RemoveBind(b)
        PROVE  HasRoute(by_name', c, l, q)
    BY Zenon, <1>6 DEF RemoveBind, TypeOK, HasRoute, HasListener
  <1>7. ASSUME NEW k \in ListenerKey, RemoveListener(k)
        PROVE  HasRoute(by_name', c, l, q)
    <2>1. PICK b \in Holders(k) :
            PutBind(b, [by_name[b] EXCEPT !.listeners = [@ EXCEPT ![k] = None]], staged_routes)
      BY <1>7 DEF RemoveListener
    <2>2. PICK bind : /\ Stores(b, bind, staged_routes)
                      /\ \A j \in ListenerKey : bind.listeners[j] =
                           IF j = k THEN None ELSE by_name[b].listeners[j]
      BY Zenon, <2>1, RemoveListenerStores
    <2>3. (c = b /\ bind.listeners[l] # None) => bind.listeners[l].routes[q] # None
      BY Zenon, <2>2 DEF HasRoute, HasListener
    <2> QED
      BY <2>2, <2>3, StoreKeepsRoutes
  <1>8. ASSUME NEW r \in RouteKey, RemoveRoute(r)
        PROVE  HasRoute(by_name', c, l, q)
    <2>1. q # r
      BY Zenon, <1>8
    <2> QED
      BY <1>4, <1>8, <2>1 DEF RemoveRoute
  <1>9. CASE Recv \/ BackendStep \/ UNCHANGED vars
    BY <1>9 DEF Recv, BackendStep, InsertBackend, RemoveBackend, vars, HasRoute
  <1> QED
    BY Zenon, <1>1, <1>2, <1>3, <1>5, <1>6, <1>7, <1>8, <1>9 DEF XdsCall, BackendStep

(* Over xDS, no update of a bind, of a listener or of another route costs  *)
(* a listener one of its routes.                                           *)
THEOREM RoutesKept == XdsSpec => UpdateKeepsRoutes
  <1>1. [XdsCall \/ Recv]_vars => [Next]_vars
    BY DEF Next
  <1>2. Init => StagedListenersWait
    BY DEF Init, StagedListenersWait
  <1>3. TypeOK /\ StagedListenersWait /\ [XdsCall \/ Recv]_vars
          => [\A b \in BindName, k \in ListenerKey : KeepsRoutes(b, k)]_vars
    BY RoutesKeptStep
  <1> QED
    BY <1>1, <1>2, <1>3, TypeInit, TypePreserved, StagedListenersPreserved, PTL
    DEF XdsSpec, UpdateKeepsRoutes
=============================================================================
