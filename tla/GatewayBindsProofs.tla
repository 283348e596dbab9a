------------------------- MODULE GatewayBindsProofs -------------------------
(***************************************************************************)
(* The gateway follows its store, for any number of binds and tasks.  That *)
(* the right addresses are active when all events are handled follows from *)
(* what is true while some are not: a bind of which no event is pending    *)
(* and which is not left in the snapshot is listened to exactly when the   *)
(* store has it.  LastEventTells, proved for the store, says what the last *)
(* pending event of a bind will do.                                        *)
(***************************************************************************)
EXTENDS GatewayBinds, BindStoreProofs

TaskStates == {"gone", "spawned", "listening", "aborted"}

GwTypes ==
  /\ initial \subseteq [key : BindName, address : Address]
  /\ listening \in [Address -> BindTask \cup {None}]
  /\ state \in [BindTask -> TaskStates]
  /\ address \in [BindTask -> Address]

TaskInv == TypeOK /\ GwTypes /\ NoOrphanListener

(* Starting and stopping a task leaves the other addresses alone. *)
LEMMA AddKeeps ==
  ASSUME GwTypes, NoOrphanListener, NEW a \in Address, HandleAdd(a)
  PROVE  /\ listening' \in [Address -> BindTask \cup {None}]
         /\ state' \in [BindTask -> TaskStates] /\ address' \in [BindTask -> Address]
         /\ NoOrphanListener'
         /\ listening'[a] # None /\ \A o \in Address \ {a} : listening'[o] = listening[o]
  <1>1. CASE UNCHANGED <<listening, state, address>> /\ listening[a] # None
    BY <1>1 DEF GwTypes, NoOrphanListener
  <1>2. ASSUME NEW k \in BindTask, listening[a] = None, state[k] = "gone",
               listening' = [listening EXCEPT ![a] = k],
               state' = [state EXCEPT ![k] = "spawned"],
               address' = [address EXCEPT ![k] = a]
        PROVE  /\ listening' \in [Address -> BindTask \cup {None}]
               /\ state' \in [BindTask -> TaskStates] /\ address' \in [BindTask -> Address]
               /\ NoOrphanListener'
               /\ listening'[a] # None /\ \A o \in Address \ {a} : listening'[o] = listening[o]
    <2>1. /\ listening' \in [Address -> BindTask \cup {None}]
          /\ state' \in [BindTask -> TaskStates] /\ address' \in [BindTask -> Address]
      BY <1>2 DEF GwTypes, TaskStates
    <2>2. listening'[a] = k /\ \A o \in Address \ {a} : listening'[o] = listening[o]
      BY <1>2 DEF GwTypes
    <2>3. ASSUME NEW j \in BindTask, state'[j] \in {"spawned", "listening"}
          PROVE  listening'[address'[j]] = j
      <3>1. CASE j = k
        BY <1>2, <2>2, <3>1 DEF GwTypes
      <3>2. CASE j # k
        <4>1. state[j] = state'[j] /\ address'[j] = address[j] /\ address[j] \in Address
          BY <1>2, <3>2 DEF GwTypes
        <4>2. listening[address[j]] = j
          BY <2>3, <4>1 DEF NoOrphanListener
        <4> QED
          BY <1>2, <2>2, <4>1, <4>2, TaskAssumption
      <3> QED
        BY <3>1, <3>2
    <2> QED
      BY <2>1, <2>2, <2>3, TaskAssumption DEF NoOrphanListener
  <1> QED
    BY <1>1, <1>2 DEF HandleAdd

LEMMA RemoveKeeps ==
  ASSUME GwTypes, NoOrphanListener, NEW a \in Address, HandleRemove(a)
  PROVE  /\ listening' \in [Address -> BindTask \cup {None}]
         /\ state' \in [BindTask -> TaskStates] /\ address' \in [BindTask -> Address]
         /\ NoOrphanListener'
         /\ listening'[a] = None /\ \A o \in Address \ {a} : listening'[o] = listening[o]
  <1>1. /\ listening' \in [Address -> BindTask \cup {None}]
        /\ state' \in [BindTask -> TaskStates] /\ address' \in [BindTask -> Address]
        /\ address' = address
        /\ listening'[a] = None /\ \A o \in Address \ {a} : listening'[o] = listening[o]
    BY DEF HandleRemove, GwTypes, TaskStates, Aborted
  <1>2. ASSUME NEW j \in BindTask, state'[j] \in {"spawned", "listening"}
        PROVE  listening'[address'[j]] = j
    <2>1. listening[a] # j /\ state[j] = state'[j]
      BY <1>2 DEF HandleRemove, Aborted
    <2>2. listening[address[j]] = j /\ address[j] \in Address
      BY <1>2, <2>1 DEF NoOrphanListener, GwTypes
    <2> QED
      BY <1>1, <2>1, <2>2
  <1> QED
    BY <1>1, <1>2 DEF NoOrphanListener

(* The next event is about a bind and an address. *)
LEMMA HeadEvent ==
  ASSUME TypeOK, tx # <<>>
  PROVE  /\ Len(tx) \in Nat /\ 1 \in 1..Len(tx) /\ Head(tx) = tx[1] /\ Head(tx) \in Event
         /\ Tail(tx) \in Seq(Event) /\ Len(Tail(tx)) = Len(tx) - 1
         /\ \A n \in 1..Len(Tail(tx)) : Tail(tx)[n] = tx[n+1]
  <1>1. tx \in Seq(Event)
    BY DEF TypeOK
  <1>2. /\ Len(tx) \in Nat /\ Tail(tx) \in Seq(Event) /\ Len(Tail(tx)) = Len(tx) - 1
        /\ Head(tx) \in Event /\ \A n \in 1..Len(Tail(tx)) : Tail(tx)[n] = tx[n+1]
    BY <1>1
  <1>3. Len(tx) # 0
    BY <1>1
  <1>4. Head(tx) = tx[1]
    BY <1>1
  <1> QED
    BY <1>2, <1>3, <1>4

(* The steps of the gateway and of the store keep the types and lose no task. *)
LEMMA TaskPreserved ==
  ASSUME TaskInv, [GatewayStep \/ (LocalCall /\ UNCHANGED gwVars) \/ XdsBindCall]_allVars
  PROVE  TaskInv'
  <1>1. CASE StartGateway
    <2>1. tx' \in Seq(Event) /\ Len(tx') <= TxCapacity
      BY <1>1, CapacityAssumption DEF StartGateway
    <2>3. TypeOK'
      BY Zenon, <1>1, <2>1 DEF StartGateway, TaskInv, TypeOK
    <2>2. initial' \subseteq [key : BindName, address : Address]
      BY <1>1 DEF StartGateway, TaskInv, TypeOK, Bind
    <2> QED
      BY <1>1, <2>2, <2>3 DEF StartGateway, TaskInv, GwTypes, NoOrphanListener
  <1>2. CASE HandleInitial
    <2>1. PICK b \in initial : initial' = initial \ {b} /\ HandleAdd(b.address)
      BY <1>2 DEF HandleInitial
    <2>2. b.address \in Address
      BY <2>1 DEF TaskInv, GwTypes
    <2>3. TypeOK'
      BY <1>2, TypePreserved DEF HandleInitial, TaskInv
    <2> QED
      BY <2>1, <2>2, <2>3, AddKeeps DEF TaskInv, GwTypes
  <1>3. CASE HandleEvent
    <2>1. tx # <<>> /\ initial' = initial /\ Recv
      BY <1>3 DEF HandleEvent, Recv
    <2>2. Head(tx).address \in Address
      BY <2>1, HeadEvent DEF TaskInv, Event
    <2>3. TypeOK'
      BY <2>1, TypePreserved DEF Next, TaskInv
    <2>4. HandleAdd(Head(tx).address) \/ HandleRemove(Head(tx).address)
      BY <1>3 DEF HandleEvent
    <2> QED
      BY <2>1, <2>2, <2>3, <2>4, AddKeeps, RemoveKeeps DEF TaskInv, GwTypes
  <1>4. ASSUME NEW k \in BindTask, BindOk(k) \/ BindErr(k) \/ DropAborted(k)
        PROVE  TaskInv'
    <2>1. TypeOK'
      BY <1>4, TypePreserved DEF BindOk, BindErr, DropAborted, TaskInv
    <2> QED
      BY <1>4, <2>1
      DEF BindOk, BindErr, DropAborted, TaskInv, GwTypes, TaskStates, NoOrphanListener
  <1>5. CASE (LocalCall \/ XdsCall) /\ UNCHANGED gwVars
    <2>1. TypeOK'
      BY <1>5, TypePreserved DEF Next, TaskInv
    <2> QED
      BY <1>5, <2>1 DEF gwVars, TaskInv, GwTypes, NoOrphanListener
  <1>6. CASE UNCHANGED allVars
    <2>1. TypeOK'
      BY <1>6, TypePreserved DEF allVars, TaskInv
    <2> QED
      BY <1>6, <2>1 DEF allVars, gwVars, TaskInv, GwTypes, NoOrphanListener
  <1> QED
    BY <1>1, <1>2, <1>3, <1>4, <1>5, <1>6 DEF GatewayStep, XdsBindCall

LEMMA TaskInitially == GwInit => TaskInv
  BY TypeInit DEF GwInit, TaskInv, GwTypes, TaskStates, NoOrphanListener

(* Whatever xDS or the local file does to the store, no listener outlives its
   entry in `listening`: a later Remove event still reaches its task. *)
THEOREM NoOrphanCorrect ==
  GwInit /\ [][LocalNext \/ XdsNext]_allVars => []NoOrphanListener
  <1>1. TaskInv /\ [LocalNext \/ XdsNext]_allVars => TaskInv'
    BY TaskPreserved DEF LocalNext, LocalStoreCall, XdsNext
  <1>2. TaskInv => NoOrphanListener
    BY DEF TaskInv
  <1> QED
    BY <1>1, <1>2, TaskInitially, PTL

-----------------------------------------------------------------------------
(* The local file: a bind has one address, which no other bind has. *)

(* An event about the bind is pending; the snapshot still has it. *)
Heard(b) == \E i \in 1..Len(tx) : tx[i].key = b
InSnapshot(b) == \E e \in initial : e.key = b

(* Binds, events and the snapshot have the address of the key. *)
Placed ==
  /\ \A b \in BindName : by_name[b] # None => by_name[b].address = AddressOf[b]
  /\ \A i \in 1..Len(tx) : tx[i].address = AddressOf[tx[i].key]
  /\ \A e \in initial : e.address = AddressOf[e.key]

(* The bind is listened to exactly when the store has it, as far as neither an
   event nor the snapshot is still to say so. *)
Follows(b) ==
  \/ Heard(b)
  \/ InSnapshot(b) /\ by_name[b] # None
  \/ ~InSnapshot(b) /\ (by_name[b] # None <=> listening[AddressOf[b]] # None)

FollowInv ==
  /\ TaskInv /\ LastEventTells /\ Placed
  /\ ~started => initial = {} /\ \A a \in Address : listening[a] = None
  /\ started => \A b \in BindName : Follows(b)
  /\ \A a \in Address : listening[a] # None => \E b \in BindName : AddressOf[b] = a

(* What a call of sync_local does to by_name and says about it. *)
LEMMA CallTells ==
  ASSUME TypeOK, LocalCall, Len(tx) < TxCapacity
  PROVE  \/ UNCHANGED <<by_name, tx>>
         \/ \E b \in BindName, e \in Event :
              /\ e.key = b /\ tx' = Append(tx, e)
              /\ \A c \in BindName \ {b} : by_name'[c] = by_name[c]
              /\ \/ by_name'[b] # None /\ by_name'[b].address = e.address
                 \/ by_name'[b] = None /\ by_name[b] # None /\ by_name[b].address = e.address
  <1>1. ASSUME NEW b \in BindName, NEW bind \in Bind, InsertBind(b, bind)
        PROVE  \E e \in Event :
                 /\ e.key = b /\ tx' = Append(tx, e)
                 /\ \A c \in BindName \ {b} : by_name'[c] = by_name[c]
                 /\ by_name'[b] # None /\ by_name'[b].address = e.address
    <2> DEFINE e == [type |-> "Add", key |-> b, address |-> bind.address]
    <2>1. e \in Event /\ e.key = b /\ e.address = bind.address
      BY <1>1 DEF Event, Bind
    <2>2. tx' = Append(tx, e)
      BY <1>1 DEF InsertBind, PutBind, Send
    <2>3. /\ by_name'[b] # None /\ by_name'[b].address = bind.address
          /\ \A c \in BindName \ {b} : by_name'[c] = by_name[c]
      BY <1>1, InsertBindStores, PutBindEffect DEF Stores
    <2> HIDE DEF e
    <2> QED
      BY <2>1, <2>2, <2>3
  <1>2. ASSUME NEW b \in BindName, RemoveBind(b)
        PROVE  \E e \in Event :
                 /\ e.key = b /\ tx' = Append(tx, e)
                 /\ \A c \in BindName \ {b} : by_name'[c] = by_name[c]
                 /\ by_name'[b] = None /\ by_name[b] # None /\ by_name[b].address = e.address
    <2> DEFINE e == [type |-> "Remove", key |-> b, address |-> by_name[b].address]
    <2>1. e \in Event /\ e.key = b /\ e.address = by_name[b].address
      BY <1>2 DEF Event, Bind, RemoveBind, TypeOK
    <2>2. tx' = Append(tx, e)
      BY <1>2 DEF RemoveBind, Send
    <2>3. /\ by_name'[b] = None /\ by_name[b] # None
          /\ \A c \in BindName \ {b} : by_name'[c] = by_name[c]
      BY <1>2 DEF RemoveBind, TypeOK
    <2> HIDE DEF e
    <2> QED
      BY <2>1, <2>2, <2>3
  <1>3. CASE \/ \E n \in BackendName, d \in Data : InsertBackend(n, d)
             \/ \E p \in PolicyName, t \in PolicyTarget : InsertPolicy(p, t)
             \/ \E p \in PolicyName : RemovePolicy(p)
             \/ \E n \in BackendName : RemoveBackend(n)
    BY <1>3 DEF InsertBackend, InsertPolicy, RemovePolicy, RemoveBackend
  <1> QED
    BY <1>1, <1>2, <1>3 DEF LocalCall

LEMMA CallFollows ==
  ASSUME FollowInv, LocalStoreCall
  PROVE  FollowInv'
  <1>0. TypeOK /\ tx \in Seq(Event) /\ Len(tx) \in Nat
    BY DEF FollowInv, TaskInv, TypeOK
  <1>1. TaskInv'
    BY TaskPreserved DEF FollowInv, LocalStoreCall
  <1>2. LastEventTells'
    BY LastEventPreserved DEF FollowInv, TaskInv, LocalStoreCall, Next
  <1>3. CASE UNCHANGED <<by_name, tx>>
    BY <1>1, <1>2, <1>3
    DEF FollowInv, LocalStoreCall, gwVars, Placed, Follows, Heard, InSnapshot
  <1>4. ASSUME NEW b \in BindName, NEW e \in Event,
               e.key = b, tx' = Append(tx, e),
               \A c \in BindName \ {b} : by_name'[c] = by_name[c],
               \/ by_name'[b] # None /\ by_name'[b].address = e.address
               \/ by_name'[b] = None /\ by_name[b] # None /\ by_name[b].address = e.address
        PROVE  FollowInv'
    <2>1. /\ Len(tx') = Len(tx) + 1 /\ tx'[Len(tx) + 1] = e
          /\ \A i \in 1..Len(tx) : tx'[i] = tx[i]
      BY <1>0, <1>4
    <2>2. e.address = AddressOf[b]
      BY <1>4 DEF LocalStoreCall, FollowInv, Placed
    <2>3. Placed'
      <3>1. \A i \in 1..Len(tx') : tx'[i].address = AddressOf[tx'[i].key]
        <4> SUFFICES ASSUME NEW i \in 1..Len(tx')
                     PROVE  tx'[i].address = AddressOf[tx'[i].key]
          OBVIOUS
        <4>1. CASE i = Len(tx) + 1
          BY <1>4, <2>1, <2>2, <4>1
        <4>2. CASE i # Len(tx) + 1
          <5>1. i \in 1..Len(tx)
            BY <1>0, <2>1, <4>2
          <5> QED
            BY <2>1, <5>1 DEF FollowInv, Placed
        <4> QED
          BY <4>1, <4>2
      <3> QED
        BY <3>1 DEF LocalStoreCall, gwVars, FollowInv, Placed
    <2>4. Heard(b)' /\ \A c \in BindName : Heard(c) => Heard(c)'
      <3>1. Len(tx) + 1 \in 1..Len(tx') /\ \A i \in 1..Len(tx) : i \in 1..Len(tx')
        BY <1>0, <2>1
      <3> QED
        BY <1>4, <2>1, <3>1 DEF Heard
    <2>5. started' => \A c \in BindName : Follows(c)'
      BY <1>4, <2>4 DEF LocalStoreCall, gwVars, FollowInv, Follows, InSnapshot
    <2> QED
      BY <1>1, <1>2, <2>3, <2>5 DEF LocalStoreCall, gwVars, FollowInv
  <1> QED
    BY <1>0, <1>3, <1>4, CallTells DEF LocalStoreCall

LEMMA StartFollows ==
  ASSUME FollowInv, StartGateway
  PROVE  FollowInv'
  <1>1. TaskInv'
    BY TaskPreserved DEF FollowInv, GatewayStep
  <1>2. tx' = <<>> /\ Len(tx') = 0 /\ 1..Len(tx') = {}
    BY DEF StartGateway
  <1>3. LastEventTells'
    BY <1>2 DEF LastEventTells
  <1>4. UNCHANGED <<by_name, listening>> /\ started'
    BY DEF StartGateway
  <1>5. ASSUME NEW b \in BindName
        PROVE  InSnapshot(b)' <=> by_name[b] # None
    <2> DEFINE of(c) == [key |-> c, address |-> by_name[c].address]
    <2>1. initial' = {of(c) : c \in {d \in BindName : by_name[d] # None}}
      BY DEF StartGateway
    <2>2. of(b).key = b /\ \A c \in BindName : of(c).key = c
      OBVIOUS
    <2> HIDE DEF of
    <2> QED
      BY <2>1, <2>2 DEF InSnapshot
  <1>6. \A e \in initial' : e.address = AddressOf[e.key]
    BY DEF StartGateway, FollowInv, Placed
  <1>7. \A b \in BindName : listening[AddressOf[b]] = None
    BY AddressAssumption DEF StartGateway, FollowInv
  <1>8. Placed' /\ \A b \in BindName : Follows(b)'
    BY Zenon, <1>2, <1>4, <1>5, <1>6, <1>7 DEF FollowInv, Placed, Follows
  <1> QED
    BY <1>1, <1>3, <1>4, <1>8 DEF FollowInv

LEMMA InitialFollows ==
  ASSUME FollowInv, HandleInitial
  PROVE  FollowInv'
  <1>1. TaskInv' /\ LastEventTells'
    BY TaskPreserved, LastEventPreserved DEF FollowInv, TaskInv, GatewayStep, HandleInitial
  <1>2. PICK e \in initial : initial' = initial \ {e} /\ HandleAdd(e.address)
    BY DEF HandleInitial
  <1>3. UNCHANGED <<by_name, tx, started>> /\ started
    BY <1>2 DEF HandleInitial, vars, FollowInv
  <1>4. e.key \in BindName /\ e.address = AddressOf[e.key] /\ e.address \in Address
    BY Zenon, <1>2 DEF FollowInv, Placed, TaskInv, GwTypes
  <1>5. /\ listening'[e.address] # None
        /\ \A o \in Address \ {e.address} : listening'[o] = listening[o]
    BY <1>2, <1>4, AddKeeps DEF FollowInv, TaskInv
  <1>6. \A f \in initial : f.key = e.key => f = e
    BY <1>2 DEF FollowInv, Placed, TaskInv, GwTypes
  <1>7. ASSUME NEW b \in BindName
        PROVE  Follows(b)'
    <2>1. Follows(b)
      BY <1>3 DEF FollowInv
    <2>2. CASE b = e.key
      BY <1>2, <1>3, <1>4, <1>5, <1>6, <2>1, <2>2 DEF Follows, Heard, InSnapshot
    <2>3. CASE b # e.key
      <3>1. listening'[AddressOf[b]] = listening[AddressOf[b]]
        BY <1>4, <1>5, <2>3, AddressAssumption
      <3>2. InSnapshot(b)' <=> InSnapshot(b)
        BY Zenon, <1>2, <2>3 DEF InSnapshot
      <3> QED
        BY <1>3, <2>1, <3>1, <3>2 DEF Follows, Heard
    <2> QED
      BY <2>2, <2>3
  <1> QED
    BY Zenon, <1>1, <1>2, <1>3, <1>4, <1>5, <1>7 DEF FollowInv, Placed

LEMMA EventFollows ==
  ASSUME FollowInv, HandleEvent
  PROVE  FollowInv'
  <1> DEFINE e == tx[1]
  <1>1. TaskInv' /\ LastEventTells'
    BY TaskPreserved, LastEventPreserved
    DEF FollowInv, TaskInv, GatewayStep, HandleEvent, Next
  <1>2. /\ tx # <<>> /\ tx' = Tail(tx) /\ UNCHANGED <<by_name, started, initial>>
        /\ started /\ initial = {}
    BY DEF HandleEvent, Recv
  <1>3. /\ Len(tx) \in Nat /\ 1 \in 1..Len(tx) /\ Head(tx) = e /\ e \in Event
        /\ Len(tx') = Len(tx) - 1 /\ \A n \in 1..Len(tx') : tx'[n] = tx[n+1]
    BY <1>2, HeadEvent DEF FollowInv, TaskInv
  <1>4. /\ e.key \in BindName /\ e.address = AddressOf[e.key] /\ e.address \in Address
        /\ e.type \in {"Add", "Remove"}
    BY <1>3 DEF FollowInv, Placed, Event
  <1>5. /\ e.type = "Add" => listening'[e.address] # None
        /\ e.type = "Remove" => listening'[e.address] = None
        /\ \A o \in Address \ {e.address} : listening'[o] = listening[o]
    BY <1>3, <1>4, AddKeeps, RemoveKeeps DEF FollowInv, TaskInv, HandleEvent
  <1>6. \A i \in 1..Len(tx') : tx'[i].address = AddressOf[tx'[i].key]
    <2> SUFFICES ASSUME NEW i \in 1..Len(tx')
                 PROVE  tx'[i].address = AddressOf[tx'[i].key]
      OBVIOUS
    <2>1. i + 1 \in 1..Len(tx)
      BY <1>3
    <2> QED
      BY <1>3, <2>1 DEF FollowInv, Placed
  <1>7. \A j \in 1+1..Len(tx) : j - 1 \in 1..Len(tx') /\ tx'[j-1] = tx[j]
    BY <1>3
  <1>8. ASSUME NEW b \in BindName
        PROVE  Follows(b)'
    <2>1. CASE b = e.key /\ ~Heard(b)'
      <3>1. \A j \in 1+1..Len(tx) : tx[j].key # e.key
        BY Zenon, <1>7, <2>1 DEF Heard
      <3>2. IF e.type = "Remove" THEN by_name[b] = None ELSE by_name[b] # None
        BY <1>3, <2>1, <3>1 DEF FollowInv, LastEventTells
      <3> QED
        BY <1>2, <1>4, <1>5, <2>1, <3>2 DEF Follows, InSnapshot
    <2>2. CASE b # e.key /\ ~Heard(b)'
      <3>1. ~Heard(b)
        <4> SUFFICES ASSUME NEW i \in 1..Len(tx), tx[i].key = b
                     PROVE  FALSE
          BY DEF Heard
        <4>1. i \in 1+1..Len(tx)
          BY <1>3, <2>2
        <4> QED
          BY <1>7, <2>2, <4>1 DEF Heard
      <3>2. listening'[AddressOf[b]] = listening[AddressOf[b]]
        BY <1>4, <1>5, <2>2, AddressAssumption
      <3> QED
        BY <1>2, <3>1, <3>2 DEF FollowInv, Follows, InSnapshot
    <2> QED
      BY <2>1, <2>2 DEF Follows
  <1> HIDE DEF e
  <1> QED
    BY Zenon, <1>1, <1>2, <1>4, <1>5, <1>6, <1>8 DEF FollowInv, Placed

LEMMA FollowsPreserved == FollowInv /\ [LocalNext]_allVars => FollowInv'
  <1> SUFFICES ASSUME FollowInv, [LocalNext]_allVars PROVE FollowInv'
    BY Zenon
  <1>1. ASSUME UNCHANGED <<vars, started, initial, listening>>, TaskInv'
        PROVE  FollowInv'
    <2>1. LastEventTells'
      BY Zenon, <1>1, LastEventPreserved DEF FollowInv, TaskInv
    <2> QED
      BY <1>1, <2>1 DEF vars, FollowInv, Placed, Follows, Heard, InSnapshot
  <1>2. ASSUME NEW k \in BindTask, BindOk(k) \/ BindErr(k) \/ DropAborted(k)
        PROVE  FollowInv'
    <2>1. TaskInv'
      BY <1>2, TaskPreserved DEF FollowInv, GatewayStep
    <2> QED
      BY Zenon, <1>1, <1>2, <2>1 DEF BindOk, BindErr, DropAborted
  <1>3. CASE UNCHANGED allVars
    <2>1. TaskInv'
      BY <1>3, TaskPreserved DEF FollowInv
    <2> QED
      BY <1>1, <1>3, <2>1 DEF allVars, gwVars
  <1> QED
    BY <1>2, <1>3, CallFollows, StartFollows, InitialFollows, EventFollows
    DEF LocalNext, GatewayStep

LEMMA FollowsInitially == GwInit => FollowInv
  <1> SUFFICES ASSUME GwInit PROVE FollowInv
    OBVIOUS
  <1>1. tx = <<>> /\ 1..Len(tx) = {}
    BY DEF GwInit, Init
  <1>2. LastEventTells /\ Placed
    BY <1>1 DEF LastEventTells, Placed, GwInit, Init
  <1> QED
    BY <1>2, TaskInitially DEF FollowInv, GwInit

(* When nothing is pending, Follows says what is active. *)
LEMMA FollowsSuffices == FollowInv => ListenersFollowStore
  <1> SUFFICES ASSUME FollowInv PROVE ActiveFollowsStore
    BY DEF FollowInv, TaskInv, ListenersFollowStore
  <1> SUFFICES ASSUME Caughtup, NEW a \in Address
               PROVE  listening[a] # None <=>
                        \E b \in BindName : by_name[b] # None /\ by_name[b].address = a
    BY DEF ActiveFollowsStore
  <1>1. 1..Len(tx) = {} /\ initial = {} /\ started
    BY DEF Caughtup
  <1>2. \A b \in BindName : by_name[b] # None <=> listening[AddressOf[b]] # None
    BY <1>1 DEF FollowInv, Follows, Heard, InSnapshot
  <1> QED
    BY <1>2, AddressAssumption DEF FollowInv, Placed

(* With the local file, the gateway that has handled the snapshot and all
   events is active on exactly the addresses of the store's binds, and no
   listener is out of reach, for any number of binds, addresses and tasks. *)
THEOREM ListenersCorrect == LocalSpec => []ListenersFollowStore
  BY FollowsInitially, FollowsPreserved, FollowsSuffices, PTL DEF LocalSpec
=============================================================================
